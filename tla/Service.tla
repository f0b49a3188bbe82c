------------------------------- MODULE Service -------------------------------
(***************************************************************************)
(* The system its clients see: a session of key generation (KeyGen.tla)    *)
(* and a signing call for the key (KeySign.tla), over the records of the   *)
(* same servers, while the Themis chain that the parties' validators ask   *)
(* changes its set of validators and takes a proposal and its signature.   *)
(*                                                                         *)
(* Servers stay up and answer in time: what the environment decides here   *)
(* is what the chain says and when.  A validator's question, the chain's   *)
(* answer and the party's next message are one step: nobody observes the   *)
(* party in between.                                                       *)
(***************************************************************************)
EXTENDS Validator, Naturals, FiniteSets

CONSTANTS
    GenCoord,   \* the server whose KeyGen is called
    SignCoord,  \* the server whose KeySign is called
    S,          \* the session of the key generation
    Key,        \* its key id
    Threshold,  \* its threshold
    Rounds,     \* the number of message rounds of tss-lib
    MpcSets,    \* the sets of monikers that may be the chain's validators
    Message,    \* the messages a client may ask to sign
    Proposals   \* the proposals the chain may take for the sign id

ASSUME ServersAssumption ==
    IsFiniteSet(Party) /\ GenCoord \in Party /\ SignCoord \in Party
ASSUME RoundsAssumption == Threshold \in Nat /\ Rounds \in Nat \ {0}
\* No client asks to sign the empty message with the empty key id, for which
\* a validator would take the answer without a proposal for the proposal.
ASSUME RequestAssumption ==
    /\ \A i \in Proposals : DOMAIN i = DOMAIN NoProposal
    /\ \A m \in Message : ~KeySignValidate(NoProposal, Key, m)

VARIABLES
    phase, ready, finished, worker, link, c2p, p2c, handler, round, got, net,
    status,                  \* of KeyGen.tla
    signPhase, ctxDone, chosen, readyChan, errChan, result, signWorker, canceller,
    signLink, signC2p, signP2c, signHandler, signRound, signGot, signNet,
                             \* of KeySign.tla
    signMsg,                 \* the message of the signing call
    mpcSet,                  \* the chain's validators
    seen,                    \* the sets that were current since KeyGen's call
    info                     \* the chain's proposal for the sign id

genVars   == <<phase, ready, finished, worker, link, c2p, p2c, handler, round, got,
               net, status>>
signVars  == <<signPhase, ctxDone, chosen, readyChan, errChan, result, signWorker,
               canceller, signLink, signC2p, signP2c, signHandler, signRound, signGot,
               signNet, signMsg>>
chainVars == <<mpcSet, seen, info>>
vars      == <<genVars, signVars, chainVars>>

Gen == INSTANCE KeyGen WITH
    Session <- {S}, KeyId <- {Key}, KeyOf <- [s \in {S} |-> Key],
    Coord <- [s \in {S} |-> GenCoord], Parties <- [s \in {S} |-> Party],
    Faults <- {"validate"}

\* The parties whose record is READY, which KeySign looks up.
Holders == {p \in Party : status[p][S] = "ready"}

Sign == INSTANCE KeySign WITH
    Coord <- SignCoord, Faults <- {"validate"}, Share <- {}, share <- Holders,
    phase <- signPhase, worker <- signWorker, link <- signLink, c2p <- signC2p,
    p2c <- signP2c, handler <- signHandler, round <- signRound, got <- signGot,
    net <- signNet

Init ==
    /\ Gen!Init
    /\ Sign!Init
    /\ signMsg = ""
    /\ mpcSet \in MpcSets
    /\ seen = {}
    /\ info = NoProposal

-----------------------------------------------------------------------------
(* The clients and the chain.                                              *)

\* A client calls KeyGen.
CallKeyGen ==
    /\ Gen!KeyGen(S)
    /\ seen' = {mpcSet}
    /\ UNCHANGED <<signVars, mpcSet, info>>

\* The client that has got the key calls KeySign.  (One that does not wait is
\* KeySign.tla's fault "late".)
CallKeySign ==
    /\ UNCHANGED <<genVars, chainVars>>
    /\ phase[S] = "ok"
    /\ Sign!KeySign
    /\ signMsg' \in Message

\* The validators change, while it matters to some party.
Rotate ==
    /\ \E p \in Party : handler[S][p] \in {"none", "validate"}
    /\ mpcSet' \in MpcSets \ {mpcSet}
    /\ seen' = IF phase[S] = "idle" THEN {} ELSE seen \cup {mpcSet'}
    /\ UNCHANGED <<genVars, signVars, info>>

\* A proposal is taken, once there is a key, and later its signature, made by
\* whomever; both while it matters to some party.
Propose ==
    /\ info = NoProposal
    /\ phase[S] = "ok"
    /\ \E p \in Party : signHandler[p] \in {"none", "validate"}
    /\ info' \in Proposals
    /\ UNCHANGED <<genVars, signVars, mpcSet, seen>>

Publish ==
    /\ info # NoProposal /\ ~info.signed
    /\ \E p \in Party : signHandler[p] \in {"none", "validate"}
    /\ info' = [info EXCEPT !.signed = TRUE]
    /\ UNCHANGED <<genVars, signVars, mpcSet, seen>>

-----------------------------------------------------------------------------
(* The parties' verdicts.                                                  *)

\* A faulty handler that drops its validator's verdict.
VerdictDropped(p) == TRUE

\* A party that leaves the state "validate" of key generation goes on only
\* when its validator accepts; nothing but its link can fail it otherwise.
GenVerdict(p) ==
    handler[S][p] = "validate" =>
        IF handler'[S][p] = "wait" THEN KeyGenValidate(mpcSet)
        ELSE ~KeyGenValidate(mpcSet) \/ link[S][p] # "open"

\* The same of signing.  A party without a share fails in any case.
SignVerdict(p) ==
    LET accepted == KeySignValidate(info, Key, signMsg)
    IN signHandler[p] = "validate" =>
           IF signHandler'[p] = "wait" THEN accepted
           ELSE ~accepted \/ p \notin Holders \/ signLink[p] # "open"

GenHandler(p)  == Gen!Handler(S, p) /\ GenVerdict(p) /\ UNCHANGED <<signVars, chainVars>>
SignHandler(p) == UNCHANGED <<genVars, signMsg, chainVars>> /\ Sign!Handler(p) /\ SignVerdict(p)

\* The goroutines of the two calls.
GenCall       == Gen!Call(S) /\ UNCHANGED <<signVars, chainVars>>
GenWorker(p)  == Gen!Worker(S, p) /\ UNCHANGED <<signVars, chainVars>>
SignCall      == UNCHANGED <<genVars, signMsg, chainVars>> /\ (Sign!Call \/ Sign!Canceller)
SignWorker(p) == UNCHANGED <<genVars, signMsg, chainVars>> /\ Sign!Worker(p)

Next ==
    \/ CallKeyGen \/ CallKeySign \/ Rotate \/ Propose \/ Publish
    \/ GenCall \/ SignCall
    \/ \E p \in Party : GenWorker(p) \/ GenHandler(p) \/ SignWorker(p) \/ SignHandler(p)

Spec == Init /\ [][Next]_vars

\* The Go scheduler runs every goroutine that can run; a validator answers
\* within its 30 seconds.  Nothing is assumed of the clients and the chain.
Fairness ==
    /\ WF_vars(GenCall) /\ WF_vars(SignCall)
    /\ \A p \in Party : /\ WF_vars(GenWorker(p)) /\ WF_vars(GenHandler(p))
                        /\ WF_vars(SignWorker(p)) /\ WF_vars(SignHandler(p))

FairSpec == Spec /\ Fairness
=============================================================================
