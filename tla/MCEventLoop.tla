----------------------------- MODULE MCEventLoop -----------------------------
(* Instances of EventLoop.tla for TLC. *)
EXTENDS EventLoopInv

CONSTANTS q1, q2

\* A broadcast in round 1; a message to each peer or a second broadcast
\* in round 2.
OneThenTwo == <<1, 2>>
=============================================================================
