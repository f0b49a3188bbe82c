---------------------------- MODULE P2PStreamProps ----------------------------
(***************************************************************************)
(* What the streams must do, as properties of P2PStream.tla.               *)
(***************************************************************************)
EXTENDS P2PStream

Messages == INSTANCE MessageStream

\* RecvMsg returns the messages SendMsg was called with, in their order,
\* however they are cut into pieces and wherever the stream breaks: a header
\* is never taken from a body, nor a message from a part of one.
ImplementsMessageStream == Messages!Spec

\* SendMsg does not look at the limit: the messages that get through are
\* those before the first one that is too large, as far as the handler reads.
Large(plan) == {i \in 1..Len(plan) : Size[plan[i]] > Limit}
Deliverable(s) ==
    LET plan == sent[s] \o todo[s]
        Last == {n \in 0..Len(plan) : n <= Want /\ (s \in LocalEnd \/ \A i \in Large(plan) : n < i)}
    IN SubSeq(plan, 1, CHOOSE n \in Last : \A k \in Last : k <= n)

\* A stream that was opened and does not break delivers all of them, although
\* the sender closes it at once and the handler is removed meanwhile.
DeliversAll == \A s \in Stream :
    sender[s] = "open" ~> recv[s] = Deliverable(s) \/ broken[s]
=============================================================================
