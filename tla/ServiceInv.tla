------------------------------ MODULE ServiceInv ------------------------------
(***************************************************************************)
(* The inductive invariant of Service.tla: what a party's place in a       *)
(* session says of the chain, which goes on changing after the party has   *)
(* asked its validator.  It stands on the invariants of key generation and *)
(* of signing, for which the chain does not matter.                        *)
(***************************************************************************)
EXTENDS ServiceProps

\* Where a party can only be when its validator has accepted the request.
GenAccepted(p) == handler[S][p] \in {"wait", "loop"} \/ status[p][S] = "ready"

SignAccepted(p) ==
    \/ signHandler[p] \in {"wait", "loop"}
    \/ signP2c[p] = "success" \/ result[p] = "success"

\* The parties were validators when the first of them went on, and that set
\* is remembered: the sets seen include the current one.
VerdictsHeld ==
    /\ phase[S] # "idle" => mpcSet \in seen
    /\ \A p \in Party : GenAccepted(p) => \E set \in seen : KeyGenValidate(set)

\* A proposal that has been accepted stays acceptable: it is not replaced,
\* and its signature only makes it more so.
ProposalHeld ==
    /\ "signed" \in DOMAIN info
    /\ signPhase # "idle" => signMsg \in Message
    /\ signPhase = "ok" \/ (\E p \in Party : SignAccepted(p)) =>
          KeySignValidate(info, Key, signMsg)

\* The signing call with what holds of one that nothing disturbs.
Signing == INSTANCE KeySignQuiet WITH
    Coord <- SignCoord, Faults <- {"validate", "late"}, Share <- {}, share <- Holders,
    phase <- signPhase, worker <- signWorker, link <- signLink, c2p <- signC2p,
    p2c <- signP2c, handler <- signHandler, round <- signRound, got <- signGot,
    net <- signNet

\* No signer, no goroutine of the call and no stream is further than the
\* others allow: the call of Service.tla is never disturbed, whatever the
\* chain answers.
SigningQuiet == Signing!QuietInv

\* What the chain has said to those who went on.
ChainInv == VerdictsHeld /\ ProposalHeld
=============================================================================
