----------------------------- MODULE KeySignProps -----------------------------
(***************************************************************************)
(* What signing must do, as properties of KeySign.tla.                     *)
(***************************************************************************)
EXTENDS KeySign

\* The signers that have done their part of every round, and the answer.
Sign == INSTANCE ThresholdSign WITH
    signed <- {p \in Party : round[p] = Rounds},
    answer <- IF phase \in {"ok", "err"} THEN phase ELSE "none"

\* Every variable has its type; no message is of a round tss-lib does not
\* have.
TypeOK ==
    /\ share \in SUBSET Party
    /\ phase \in {"idle", "collect", "choose", "sign", "finish", "ok", "err"}
    /\ ctxDone \in BOOLEAN
    /\ chosen \in SUBSET Party
    /\ readyChan \in SUBSET Party
    /\ errChan \in SUBSET Party
    /\ result \in [Party -> {"none", "success", "failure", "counted"}]
    /\ worker \in [Party -> {"none", "dial", "recv", "start", "await", "end"}]
    /\ canceller \in {"none", "run", "end"}
    /\ link \in [Party -> {"none", "open", "closed", "left", "reset"}]
    /\ c2p \in [Party -> {"none", "prepare", "start", "cancel"}]
    /\ p2c \in [Party -> {"none", "ready", "success", "failure"}]
    /\ handler \in [Party -> {"none", "validate", "wait", "loop", "closing", "done"}]
    /\ round \in [Party -> 0..Rounds]
    /\ got \in [Party -> SUBSET ((1..Rounds) \X Party)]
    /\ net \in SUBSET [from : Party, to : Party, kind : 1..Rounds]

-----------------------------------------------------------------------------
(* Safety.                                                                 *)

\* A signature is answered only when Threshold + 1 holders of a share have
\* done their part of every round, and nobody else ever does: neither a party
\* whose Ready came too late, nor one whose record is PENDING or ERROR.
ImplementsThresholdSign == Sign!Spec

\* A signer dials its peers in the event loop, so each of them has set the
\* handler of the session, found its share and passed validation before.
SignersListen ==
    \A p \in Party : handler[p] = "loop" =>
        \A q \in chosen : q \in share /\ handler[q] \notin {"none", "validate"}

\* A signer whose rounds are complete has had the contribution of every
\* signer, although signers fail and finish independently.
FinishedTogether ==
    \A p \in Party : p2c[p] = "success" \/ result[p] = "success" =>
        \A q \in chosen : round[q] = Rounds

-----------------------------------------------------------------------------
(* Liveness, under FairSpec.                                               *)

\* While servers stay up a call returns, although wgNew.Wait and wg.Wait do
\* not look at the context: every handler answers, by its deadline at last.
CallReturns == phase = "collect" ~> phase \in {"ok", "err"}

\* Once the signers are chosen their handlers end, also those that never get
\* Start because the context was done in between.
SignersEnd == \A p \in Party :
    (p \in chosen /\ phase = "sign") ~> handler[p] = "done"

\* "cancel other party": a party that is ready and is not needed, or not
\* any more, does not wait for Start for ever.
WaitEnds == \A p \in Party : handler[p] = "wait" ~> handler[p] # "wait"
=============================================================================
