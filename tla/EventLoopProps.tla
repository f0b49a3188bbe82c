---------------------------- MODULE EventLoopProps ----------------------------
(***************************************************************************)
(* What the event loop must do, as properties of EventLoop.tla.            *)
(***************************************************************************)
EXTENDS EventLoop, FiniteSets

\* The rounds whose messages are all out, and the peers' messages the loop
\* has taken, as KeyGen.tla and KeySign.tla see them.
RoundsOut == {k \in 1..Rounds : \A j \in 1..k : sent[j] = Outs[j]}
Taken     == {kq \in (1..Rounds) \X Peer :
                \A i \in 1..Outs[kq[1]] : upd[<<kq[1], kq[2], i>>] \notin {"none", "stream"}}

Local == INSTANCE LocalRounds WITH
    round   <- Cardinality(RoundsOut),
    got     <- Taken,
    outcome <- IF loop = "select" THEN "none" ELSE loop

\* However the goroutines of Start, of the streams and of the Updates
\* interleave, the party does what one step per round says: it sends a round
\* only when it has the one before, and the result means that every round has
\* been sent and received in full.
ImplementsLocalRounds == Local!Spec

\* The loop returns without the help of the deadline when the peers send
\* what is due: no Update that holds the lock waits for a loop that waits for
\* an Update ("go func" around tssLocalParty.Update).
LoopReturns == <>(loop \in {"ok", "err"})

\* When the loop has returned with the result, every goroutine of the session
\* ends, but one that has an error to report: nobody reads errCh any more.
NothingLeft ==
    loop = "ok" ~> /\ start \in {"done", "err"}
                   /\ \A m \in Msg : upd[m] \in {"none", "done", "err"}
=============================================================================
