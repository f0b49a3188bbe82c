---------------------------- MODULE ThresholdSign ----------------------------
(***************************************************************************)
(* What a signing call promises, without streams, messages or contexts: a  *)
(* signature is answered only when more than Threshold of the holders of a *)
(* share have done their part of every round, and no other party has.      *)
(* KeySign.tla implements it.                                              *)
(***************************************************************************)
EXTENDS Naturals, FiniteSets

CONSTANTS
    Party,     \* the servers that may hold a share of the key
    Threshold  \* the number of shares that do not suffice to sign

VARIABLES
    share,     \* the servers that hold one
    signed,    \* the servers that have done their part of every round
    answer     \* the answer of the call, once there is one

Init == share \in SUBSET Party /\ signed = {} /\ answer = "none"

\* One more server has stored its share.
Store(p) ==
    /\ share' = share \cup {p}
    /\ UNCHANGED <<signed, answer>>

\* One more of the Threshold + 1 signers has done its part.
Contribute(p) ==
    /\ p \in share
    /\ Cardinality(signed) <= Threshold
    /\ signed' = signed \cup {p}
    /\ UNCHANGED <<share, answer>>

\* The call answers with a signature.
Succeed ==
    /\ answer = "none"
    /\ Cardinality(signed) > Threshold
    /\ answer' = "ok"
    /\ UNCHANGED <<share, signed>>

\* The call answers with an error; signers that still run may go on.
Fail ==
    /\ answer = "none"
    /\ answer' = "err"
    /\ UNCHANGED <<share, signed>>

Next == Succeed \/ Fail \/ \E p \in Party : Store(p) \/ Contribute(p)

Spec == Init /\ [][Next]_<<share, signed, answer>>
=============================================================================
