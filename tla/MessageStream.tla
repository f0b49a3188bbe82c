---------------------------- MODULE MessageStream ----------------------------
(***************************************************************************)
(* What a P2PStream promises in one direction: the messages received are   *)
(* those sent, whole and in their order, from the first one on, without a  *)
(* gap.  It may end at any message.  P2PStream.tla implements it.          *)
(***************************************************************************)
EXTENDS Naturals, Sequences

CONSTANTS Stream, Msg

VARIABLES
    sent,    \* sent[s]: the messages SendMsg has been called with
    recv     \* recv[s]: the messages RecvMsg has returned

Init ==
    /\ sent = [s \in Stream |-> <<>>]
    /\ recv = [s \in Stream |-> <<>>]

Send(s, m) ==
    /\ sent' = [sent EXCEPT ![s] = Append(@, m)]
    /\ UNCHANGED recv

Receive(s) ==
    /\ Len(recv[s]) < Len(sent[s])
    /\ recv' = [recv EXCEPT ![s] = Append(@, sent[s][Len(@) + 1])]
    /\ UNCHANGED sent

Next == \E s \in Stream : Receive(s) \/ \E m \in Msg : Send(s, m)

Spec == Init /\ [][Next]_<<sent, recv>>
=============================================================================
