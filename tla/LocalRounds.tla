----------------------------- MODULE LocalRounds -----------------------------
(***************************************************************************)
(* One party's part in a tss-lib protocol, as KeyGen.tla and KeySign.tla   *)
(* use it: it emits round 1, emits a later round when it has the one       *)
(* before it of every peer, and has its result when it has the last round  *)
(* of every peer.  EventLoop.tla implements it.                            *)
(***************************************************************************)
EXTENDS Naturals

CONSTANTS Peer, Rounds

VARIABLES
    round,    \* the last round the party has emitted
    got,      \* the <<round, peer>> whose messages it has
    outcome   \* "none", and then "ok" or "err"

Init == round = 0 /\ got = {} /\ outcome = "none"

HasRound(k) == \A q \in Peer : <<k, q>> \in got

Emit ==
    /\ outcome = "none" /\ round < Rounds
    /\ round > 0 => HasRound(round)
    /\ round' = round + 1
    /\ UNCHANGED <<got, outcome>>

Receive(k, q) ==
    /\ outcome = "none"
    /\ got' = got \cup {<<k, q>>}
    /\ UNCHANGED <<round, outcome>>

Finish ==
    /\ outcome = "none"
    /\ round = Rounds /\ HasRound(Rounds)
    /\ outcome' = "ok"
    /\ UNCHANGED <<round, got>>

Fail ==
    /\ outcome = "none"
    /\ outcome' = "err"
    /\ UNCHANGED <<round, got>>

Next == Emit \/ Finish \/ Fail \/ \E k \in 1..Rounds, q \in Peer : Receive(k, q)

Spec == Init /\ [][Next]_<<round, got, outcome>>
=============================================================================
