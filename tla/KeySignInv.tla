------------------------------ MODULE KeySignInv ------------------------------
(***************************************************************************)
(* The inductive invariant of KeySign.tla.  What a signature says of the   *)
(* signers follows from what each message and goroutine of the call says   *)
(* of the party it is from or for, and from the time the signers are fixed.*)
(***************************************************************************)
EXTENDS KeySignProps

\* The call knows, or is about to know, that p is ready.
Acknowledged(p) == p2c[p] = "ready" \/ p \in readyChan \/ p \in chosen

\* p has answered that it has signed.
Succeeded(p) == p2c[p] = "success" \/ result[p] = "success"

\* Nothing of the call is at a party before Prepare.
BeforePrepare ==
    \A p \in Party :
        /\ phase = "idle" => worker[p] = "none" /\ c2p[p] = "none"
        /\ worker[p] = "dial" => c2p[p] = "none"
        /\ phase = "idle" \/ worker[p] = "dial" \/ c2p[p] = "prepare" =>
              ~Acknowledged(p) /\ handler[p] = "none"

\* Ready is sent by a party that holds a share and listens to the session's
\* messages, or has ended.
ReadyMeansAccepted ==
    \A p \in Party : Acknowledged(p) =>
        p \in share /\ handler[p] \notin {"none", "validate"}

\* The signers are Threshold + 1, from the moment there are so many.
SignersFixed ==
    /\ Cardinality(chosen) <= Threshold + 1
    /\ phase \in {"idle", "collect", "choose"} => ~Enough(chosen)
    /\ phase \in {"sign", "finish", "ok"} => Enough(chosen)

\* What comes after Start happens at signers only, and once they are fixed.
AfterStart ==
    \A p \in Party :
        \/ worker[p] \in {"start", "await"} \/ c2p[p] = "start" \/ handler[p] = "loop"
        \/ round[p] > 0 \/ Succeeded(p)
        => p \in chosen /\ Enough(chosen)

\* A round received was sent.
RoundsWereSent ==
    /\ \A m \in net : round[m.from] >= m.kind
    /\ \A p, q \in Party : \A r \in 1..Rounds : <<r, q>> \in got[p] => round[q] >= r

\* The inductive invariant: who is ready, who signs, and what each party has
\* had from the others, in every reachable state.
Inv ==
    /\ TypeOK
    /\ BeforePrepare
    /\ ReadyMeansAccepted
    /\ SignersFixed
    /\ AfterStart
    /\ RoundsWereSent
    /\ FinishedTogether
=============================================================================
