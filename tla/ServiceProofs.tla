---------------------------- MODULE ServiceProofs ----------------------------
(***************************************************************************)
(* Proofs about Service.tla: the key generation and the signing call in it *)
(* are behaviours of KeyGen.tla and KeySign.tla, so that what is proved of *)
(* those holds here, and from that, what the chain has agreed to.          *)
(***************************************************************************)
EXTENDS ServiceInv, TLAPS

\* The instance Gen of Service.tla, with the theorems about KeyGen.tla.
GenP == INSTANCE KeyGenProofs WITH
    Session <- {S}, KeyId <- {Key}, KeyOf <- [s \in {S} |-> Key],
    Coord <- [s \in {S} |-> GenCoord], Parties <- [s \in {S} |-> Party],
    Faults <- {"validate"}

\* The instance Sign, with the theorems about KeySign.tla.  Parties become
\* holders while the service runs: for the call they are late.
SignP == INSTANCE KeySignQuietProofs WITH
    Coord <- SignCoord, Faults <- {"validate", "late"}, Share <- {}, share <- Holders,
    phase <- signPhase, worker <- signWorker, link <- signLink, c2p <- signC2p,
    p2c <- signP2c, handler <- signHandler, round <- signRound, got <- signGot,
    net <- signNet

\* What the two modules assume of their constants.
LEMMA GenAssumptions ==
    /\ GenP!CoordAssumption /\ GenP!PartiesAssumption
    /\ GenP!RoundsAssumption /\ GenP!KeyOfAssumption
  BY ServersAssumption, RoundsAssumption
     DEF GenP!CoordAssumption, GenP!PartiesAssumption, GenP!RoundsAssumption,
         GenP!KeyOfAssumption

LEMMA SignAssumptions ==
    SignP!PartyAssumption /\ SignP!CoordAssumption /\ SignP!RoundsAssumption
  BY ServersAssumption, RoundsAssumption
     DEF SignP!PartyAssumption, SignP!CoordAssumption, SignP!RoundsAssumption,
         SignP!IsFiniteSet, IsFiniteSet

-----------------------------------------------------------------------------
(* The key generation of the service is KeyGen.tla's.                      *)

LEMMA GenStep ==
    ASSUME Gen!KeyGen(S) \/ Gen!Call(S)
           \/ \E p \in Party : Gen!Worker(S, p) \/ Gen!Handler(S, p)
    PROVE  GenP!Next
  <1>1. CASE Gen!KeyGen(S)
    <2>1. GenP!KeyGen(S)
      BY <1>1 DEF Gen!KeyGen, GenP!KeyGen, Gen!streamVars, GenP!streamVars,
         Gen!partyVars, GenP!partyVars
    <2>2. QED BY <2>1 DEF GenP!Next
  <1>2. CASE Gen!Call(S)
    <2>1. GenP!Call(S)
      BY <1>2 DEF Gen!Call, GenP!Call, Gen!TakeReady, GenP!TakeReady,
         Gen!AllReadyWith, GenP!AllReadyWith, Gen!streamVars, GenP!streamVars,
         Gen!partyVars, GenP!partyVars, Gen!TakeLastReady, GenP!TakeLastReady,
         Gen!TakeFailure, GenP!TakeFailure, Gen!Return, GenP!Return,
         Gen!Abandoned, GenP!Abandoned, Gen!TakeSuccess, GenP!TakeSuccess,
         Gen!AllFinishedWith, GenP!AllFinishedWith, Gen!TakeLastSuccess,
         GenP!TakeLastSuccess, Gen!TakeError, GenP!TakeError
    <2>2. QED BY <2>1 DEF GenP!Next
  <1>3. CASE \E p \in Party : Gen!Worker(S, p)
    <2>1. \E p \in Party : GenP!Worker(S, p)
      BY <1>3 DEF Gen!Worker, GenP!Worker, Gen!SendPrepare, GenP!SendPrepare,
         Gen!partyVars, GenP!partyVars, Gen!DialFails, GenP!DialFails,
         Gen!streamVars, GenP!streamVars, Gen!RecvReply, GenP!RecvReply,
         Gen!SendStart, GenP!SendStart, Gen!SendStartFails,
         GenP!SendStartFails, Gen!SendStartPanics, GenP!SendStartPanics,
         Gen!ProcessDies, GenP!ProcessDies, Gen!RecvFinish, GenP!RecvFinish
    <2>2. QED BY <2>1 DEF GenP!Next
  <1>4. CASE \E p \in Party : Gen!Handler(S, p)
    <2>1. \E p \in Party : GenP!Handler(S, p)
      BY <1>4 DEF Gen!Handler, GenP!Handler, Gen!Accept, GenP!Accept,
         Gen!CheckAndSetKeyGen, GenP!CheckAndSetKeyGen, Gen!KeyTaken,
         GenP!KeyTaken, Gen!KeyDataList, GenP!KeyDataList, Gen!Live,
         GenP!Live, Gen!SetKeyData, GenP!SetKeyData, Gen!Goto, GenP!Goto,
         Gen!callVars, GenP!callVars, Gen!Refuse, GenP!Refuse, Gen!SendReady,
         GenP!SendReady, Gen!ReadyFails, GenP!ReadyFails, Gen!Leave,
         GenP!Leave, Gen!streamVars, GenP!streamVars, Gen!RecvStart,
         GenP!RecvStart, Gen!NoStart, GenP!NoStart, Gen!StartPanics,
         GenP!StartPanics, Gen!ProcessDies, GenP!ProcessDies, Gen!SendRound,
         GenP!SendRound, Gen!HasOutput, GenP!HasOutput, Gen!MoreRounds,
         GenP!MoreRounds, Gen!HasRound, GenP!HasRound, Gen!Others,
         GenP!Others, Gen!Listening, GenP!Listening, Gen!Sent, GenP!Sent,
         Gen!Reading, GenP!Reading, Gen!SendRoundFails, GenP!SendRoundFails,
         Gen!RecvUpdate, GenP!RecvUpdate, Gen!RecvError, GenP!RecvError,
         Gen!CompareAndSetKeyStatus, GenP!CompareAndSetKeyStatus, Gen!Reply,
         GenP!Reply, Gen!Complete, GenP!Complete, Gen!MarkError,
         GenP!MarkError, Gen!Notify, GenP!Notify, Gen!Inform, GenP!Inform
    <2>2. QED BY <2>1 DEF GenP!Next
  <1>5. QED BY <1>1, <1>2, <1>3, <1>4

\* Steps of clients, the chain and the signing call leave it alone.
LEMMA GenRefines == [Next]_vars => [GenP!Next]_GenP!vars
  <1> USE DEF genVars, GenP!vars, GenP!callVars, GenP!streamVars, GenP!partyVars
  <1>1. CASE UNCHANGED genVars
    BY <1>1
  <1>2. CASE CallKeyGen \/ GenCall
    BY <1>2, GenStep DEF CallKeyGen, GenCall
  <1>3. ASSUME NEW p \in Party, GenWorker(p) \/ GenHandler(p) PROVE GenP!Next
    BY <1>3, GenStep DEF GenWorker, GenHandler
  <1>4. ASSUME [Next]_vars
        PROVE  \/ UNCHANGED genVars \/ CallKeyGen \/ GenCall
               \/ \E p \in Party : GenWorker(p) \/ GenHandler(p)
    BY <1>4 DEF Next, vars, CallKeySign, Rotate, Propose, Publish, SignCall,
       SignWorker, SignHandler
  <1>5. QED BY <1>1, <1>2, <1>3, <1>4

LEMMA GenInit == Init => GenP!Init
  BY DEF Gen!Init, GenP!Init, Init

\* All that is proved of KeyGen.tla holds of the key generation here.
THEOREM KeyGenInService == Spec => GenP!Spec
  BY GenInit, GenRefines, PTL DEF Spec, GenP!Spec

LEMMA GenInvariance == Spec => []GenP!Inv
  BY KeyGenInService, GenAssumptions, GenP!Invariance, PTL

-----------------------------------------------------------------------------
(* The signing call of the service is KeySign.tla's, with the holders that *)
(* the key generation makes.                                               *)

LEMMA SameCardinality == \A X : SignP!Cardinality(X) = Sign!Cardinality(X)
  BY DEF SignP!Cardinality, Sign!Cardinality

LEMMA SignStep ==
    ASSUME UNCHANGED status,
           Sign!KeySign \/ Sign!Call \/ Sign!Canceller
           \/ \E p \in Party : Sign!Worker(p) \/ Sign!Handler(p)
    PROVE  SignP!Next
  <1> USE DEF Holders
  <1>1. CASE Sign!KeySign
    <2>1. SignP!KeySign
      BY <1>1 DEF Sign!KeySign, SignP!KeySign, Sign!streamVars,
         SignP!streamVars, Sign!partyVars, SignP!partyVars
    <2>2. QED BY <2>1 DEF SignP!Next
  <1>2. CASE Sign!Call
    <2>1. SignP!Call
      BY <1>2, SameCardinality DEF Sign!Call, SignP!Call, Sign!WaitGroup,
         SignP!WaitGroup, Sign!streamVars, SignP!streamVars, Sign!partyVars,
         SignP!partyVars, Sign!TakeError, SignP!TakeError, Sign!Return,
         SignP!Return, Sign!TakeReady, SignP!TakeReady, Sign!Enough,
         SignP!Enough, Sign!TakeLastReady, SignP!TakeLastReady,
         Sign!TakeSuccess, SignP!TakeSuccess, Sign!TakeFailure,
         SignP!TakeFailure, Sign!NoSignerLeft, SignP!NoSignerLeft,
         Sign!Failed, SignP!Failed, Sign!TakeLastFailure,
         SignP!TakeLastFailure
    <2>2. QED BY <2>1 DEF SignP!Next
  <1>3. CASE Sign!Canceller
    <2>1. SignP!Canceller
      BY <1>3 DEF Sign!Canceller, SignP!Canceller, Sign!CancellerStops,
         SignP!CancellerStops, Sign!streamVars, SignP!streamVars,
         Sign!partyVars, SignP!partyVars, Sign!CancelSurplus,
         SignP!CancelSurplus
    <2>2. QED BY <2>1 DEF SignP!Next
  <1>4. CASE \E p \in Party : Sign!Worker(p)
    <2>1. \E p \in Party : SignP!Worker(p)
      BY <1>4 DEF Sign!Worker, SignP!Worker, Sign!Skip, SignP!Skip,
         Sign!streamVars, SignP!streamVars, Sign!partyVars, SignP!partyVars,
         Sign!SendPrepare, SignP!SendPrepare, Sign!DialFails, SignP!DialFails,
         Sign!RecvReady, SignP!RecvReady, Sign!IsReady, SignP!IsReady,
         Sign!RecvRefusal, SignP!RecvRefusal, Sign!Receives, SignP!Receives,
         Sign!SendStart, SignP!SendStart, Sign!SendStartFails,
         SignP!SendStartFails, Sign!RecvFinish, SignP!RecvFinish
    <2>2. QED BY <2>1 DEF SignP!Next
  <1>5. CASE \E p \in Party : Sign!Handler(p)
    <2>1. \E p \in Party : SignP!Handler(p)
      BY <1>5, ZenonT(180) DEF Sign!Handler, SignP!Handler, Sign!RecvPrepare,
         SignP!RecvPrepare, Sign!Goto, SignP!Goto, Sign!callVars,
         SignP!callVars, Sign!SendReady, SignP!SendReady, Sign!Refuse,
         SignP!Refuse, Sign!Answer, SignP!Answer, Sign!RecvStart,
         SignP!RecvStart, Sign!NoStart, SignP!NoStart, Sign!SendRound,
         SignP!SendRound, Sign!HasOutput, SignP!HasOutput, Sign!MoreRounds,
         SignP!MoreRounds, Sign!HasRound, SignP!HasRound, Sign!Peers,
         SignP!Peers, Sign!Listening, SignP!Listening, Sign!Sent, SignP!Sent,
         Sign!streamVars, SignP!streamVars, Sign!SendRoundFails,
         SignP!SendRoundFails, Sign!RecvUpdate, SignP!RecvUpdate,
         Sign!Complete, SignP!Complete, Sign!CloseSession, SignP!CloseSession,
         Sign!Pending, SignP!Pending, Sign!ClosePanics, SignP!ClosePanics,
         Sign!ProcessDies, SignP!ProcessDies
    <2>2. QED BY <2>1 DEF SignP!Next
  <1>6. QED BY <1>1, <1>2, <1>3, <1>4, <1>5

\* Only a party in the event loop of key generation becomes READY.
LEMMA GenRecords ==
    ASSUME GenP!Inv,
           Gen!KeyGen(S) \/ Gen!Call(S)
           \/ \E p \in Party : Gen!Worker(S, p) \/ Gen!Handler(S, p)
    PROVE  \/ UNCHANGED Holders
           \/ \E p \in Party : Holders' = Holders \cup {p} /\ p \notin Holders
  <1>1. status \in [Party -> [{S} -> GenP!KeyStatus]]
    BY DEF GenP!Inv, GenP!TypeOK
  <1>2. CASE Gen!KeyGen(S)
    BY <1>2 DEF Gen!KeyGen, Holders
  <1>3. CASE Gen!Call(S)
    <2>1. UNCHANGED status
      BY <1>3 DEF Gen!Call, Gen!TakeReady, Gen!AllReadyWith, Gen!streamVars,
         Gen!partyVars, Gen!TakeLastReady, Gen!TakeFailure, Gen!Return,
         Gen!Abandoned, Gen!TakeSuccess, Gen!AllFinishedWith,
         Gen!TakeLastSuccess, Gen!TakeError
    <2>2. QED BY <2>1 DEF Holders
  <1>4. ASSUME NEW p \in Party, Gen!Worker(S, p) PROVE UNCHANGED Holders
    <2>1. UNCHANGED status
      BY <1>4 DEF Gen!Worker, Gen!SendPrepare, Gen!partyVars, Gen!DialFails,
         Gen!streamVars, Gen!RecvReply, Gen!SendStart, Gen!SendStartFails,
         Gen!SendStartPanics, Gen!ProcessDies, Gen!RecvFinish
    <2>2. QED BY <2>1 DEF Holders
  <1>5. ASSUME NEW p \in Party, Gen!Handler(S, p)
        PROVE  UNCHANGED Holders \/ (Holders' = Holders \cup {p} /\ p \notin Holders)
    <2>1. CASE Gen!Accept(S, p)
      <3>1. status' = [status EXCEPT ![p][S] = "pending"]
        BY <2>1 DEF Gen!Accept, Gen!CheckAndSetKeyGen, Gen!SetKeyData
      <3>2. status[p][S] # "ready"
        BY <2>1 DEF Gen!Accept, Gen!CheckAndSetKeyGen, Gen!KeyTaken,
           Gen!KeyDataList, Gen!Live
      <3>3. QED BY <1>1, <3>1, <3>2 DEF Holders
    <2>2. CASE Gen!RecvError(S, p) \/ Gen!MarkError(S, p)
      <3>1. status' = [status EXCEPT ![p][S] =
                         IF status[p][S] = "pending" THEN "error" ELSE status[p][S]]
        BY <2>2 DEF Gen!RecvError, Gen!MarkError, Gen!CompareAndSetKeyStatus,
           Gen!SetKeyData
      <3>2. QED BY <1>1, <3>1 DEF Holders
    <2>3. CASE Gen!Complete(S, p)
      <3>1. status' = [status EXCEPT ![p][S] =
                         IF status[p][S] = "pending" THEN "ready" ELSE status[p][S]]
        BY <2>3 DEF Gen!Complete, Gen!CompareAndSetKeyStatus, Gen!SetKeyData
      <3>2. QED BY <1>1, <3>1 DEF Holders
    <2>4. CASE UNCHANGED status
      BY <2>4 DEF Holders
    <2>5. UNCHANGED status \/ Gen!Accept(S, p) \/ Gen!RecvError(S, p)
          \/ Gen!MarkError(S, p) \/ Gen!Complete(S, p)
      BY <1>5 DEF Gen!Handler, Gen!Accept, Gen!CheckAndSetKeyGen,
         Gen!KeyTaken, Gen!KeyDataList, Gen!Live, Gen!SetKeyData, Gen!Goto,
         Gen!callVars, Gen!Refuse, Gen!SendReady, Gen!ReadyFails, Gen!Leave,
         Gen!streamVars, Gen!RecvStart, Gen!NoStart, Gen!StartPanics,
         Gen!ProcessDies, Gen!SendRound, Gen!HasOutput, Gen!MoreRounds,
         Gen!HasRound, Gen!Others, Gen!Listening, Gen!Sent, Gen!Reading,
         Gen!SendRoundFails, Gen!RecvUpdate, Gen!RecvError,
         Gen!CompareAndSetKeyStatus, Gen!Reply, Gen!Complete, Gen!MarkError,
         Gen!Notify, Gen!Inform
    <2>6. QED BY <2>1, <2>2, <2>3, <2>4, <2>5
  <1>6. QED BY <1>2, <1>3, <1>4, <1>5

LEMMA SignRefines == GenP!Inv /\ [Next]_vars => [SignP!Next]_SignP!vars
  <1> USE DEF genVars, signVars, SignP!vars, SignP!callVars, SignP!streamVars,
          SignP!partyVars
  <1>1. ASSUME UNCHANGED signVars, UNCHANGED Holders PROVE UNCHANGED SignP!vars
    BY <1>1
  <1>2. ASSUME GenP!Inv, UNCHANGED signVars,
               Gen!KeyGen(S) \/ Gen!Call(S)
               \/ \E p \in Party : Gen!Worker(S, p) \/ Gen!Handler(S, p)
        PROVE  [SignP!Next]_SignP!vars
    <2>1. ASSUME NEW p \in Party, Holders' = Holders \cup {p}, p \notin Holders
          PROVE  SignP!ShareStored(p)
      BY <1>2, <2>1 DEF SignP!ShareStored
    <2>2. QED BY <1>1, <1>2, <2>1, GenRecords DEF SignP!Next
  <1>3. ASSUME UNCHANGED genVars, UNCHANGED signVars PROVE [SignP!Next]_SignP!vars
    BY <1>1, <1>3 DEF Holders
  <1>4. ASSUME GenP!Inv, CallKeyGen \/ GenCall PROVE [SignP!Next]_SignP!vars
    BY <1>2, <1>4 DEF CallKeyGen, GenCall
  <1>5. ASSUME GenP!Inv, NEW p \in Party, GenWorker(p) \/ GenHandler(p)
        PROVE  [SignP!Next]_SignP!vars
    BY <1>2, <1>5 DEF GenWorker, GenHandler
  <1>6. ASSUME CallKeySign \/ SignCall
               \/ \E p \in Party : SignWorker(p) \/ SignHandler(p)
        PROVE  SignP!Next
    BY <1>6, SignStep DEF CallKeySign, SignCall, SignWorker, SignHandler
  <1>7. ASSUME Rotate \/ Propose \/ Publish \/ UNCHANGED vars
        PROVE  UNCHANGED genVars /\ UNCHANGED signVars
    BY <1>7 DEF Rotate, Propose, Publish, vars
  <1>8. QED BY <1>3, <1>4, <1>5, <1>6, <1>7 DEF Next

LEMMA SignInit == Init => SignP!Init
  BY DEF Sign!Init, SignP!Init, Init, Holders, Gen!Init

\* All that is proved of KeySign.tla holds of the signing call here.
THEOREM KeySignInService == Spec => SignP!Spec
  BY SignInit, SignRefines, GenInvariance, PTL DEF Spec, SignP!Spec

LEMMA SignInvariance == Spec => []SignP!Inv
  BY KeySignInService, SignAssumptions, SignP!Invariance, PTL

\* handleKeySign never closes p2pProcessMsgChan under a message while servers
\* stay up and answer in time, whatever the chain says and whenever.
THEOREM NoPanic == Spec => []NoSendOnClosed
  <1>1. SignP!Quiet
    BY DEF SignP!Quiet
  <1>2. Spec => [](\A p \in Party : signHandler[p] = "closing" => ~SignP!Pending(p))
    BY <1>1, KeySignInService, SignAssumptions, SignP!NoPanic, PTL
  <1>3. (\A p \in Party : signHandler[p] = "closing" => ~SignP!Pending(p))
        => NoSendOnClosed
    BY DEF NoSendOnClosed, SignP!Pending, Sign!Pending
  <1>4. QED BY <1>2, <1>3, PTL

\* The call of the service is never disturbed: each signer, its goroutine of
\* the call and its stream stay as close together as KeySignQuiet.tla says.
THEOREM Calm == Spec => []SigningQuiet
  <1>1. SignP!Quiet
    BY DEF SignP!Quiet
  <1>2. Spec => []SignP!QuietInv
    BY <1>1, KeySignInService, SignAssumptions, SignP!Undisturbed, PTL
  <1>3. SignP!QuietInv => SigningQuiet
    <2>1. \A X : SignP!Cardinality(X) = Signing!Cardinality(X)
      BY DEF SignP!Cardinality, Signing!Cardinality
    <2>2. \A X : SignP!Enough(X) = Signing!Enough(X)
      BY <2>1 DEF SignP!Enough, Signing!Enough
    <2>3. SignP!PhasesInOrder => Signing!PhasesInOrder
      BY DEF SignP!PhasesInOrder, Signing!PhasesInOrder
    <2>4. SignP!ReadyWaits => Signing!ReadyWaits
      BY <2>2 DEF SignP!ReadyWaits, Signing!ReadyWaits, SignP!Waits, Signing!Waits
    <2>5. SignP!SignersComplete => Signing!SignersComplete
      BY <2>2 DEF SignP!SignersComplete, Signing!SignersComplete, SignP!Waits,
         Signing!Waits, SignP!Signs, Signing!Signs, SignP!HasAnswered,
         Signing!HasAnswered
    <2>6. SignP!MessagesExpected => Signing!MessagesExpected
      BY DEF SignP!MessagesExpected, Signing!MessagesExpected
    <2>7. SignP!RoundsInOrder => Signing!RoundsInOrder
      BY DEF SignP!RoundsInOrder, Signing!RoundsInOrder, SignP!HasRound,
         Signing!HasRound, SignP!Peers, Signing!Peers
    <2>8. QED
      BY <2>3, <2>4, <2>5, <2>6, <2>7
         DEF SigningQuiet, SignP!QuietInv, Signing!QuietInv
  <1>4. QED BY <1>2, <1>3, PTL

-----------------------------------------------------------------------------
(* What the chain has agreed to.                                           *)

\* A party gets on in key generation only from where its validator has
\* accepted the request, or through its validator.
LEMMA GenAccepts ==
    ASSUME GenP!Inv, NEW p \in Party, Gen!Handler(S, p),
           NEW q \in Party, GenAccepted(q)'
    PROVE  \/ GenAccepted(q)
           \/ q = p /\ handler[S][p] = "validate" /\ handler'[S][p] = "wait"
  <1> USE DEF GenAccepted
  <1>1. /\ handler \in [{S} -> [Party -> GenP!Handlers]]
        /\ status \in [Party -> [{S} -> GenP!KeyStatus]]
    BY DEF GenP!Inv, GenP!TypeOK
  <1>2. CASE Gen!Accept(S, p)
    BY <1>1, <1>2 DEF Gen!Accept, Gen!Goto, Gen!CheckAndSetKeyGen, Gen!SetKeyData
  <1>3. CASE Gen!SendReady(S, p) \/ Gen!RecvStart(S, p)
    BY <1>1, <1>3 DEF Gen!SendReady, Gen!RecvStart, Gen!Goto
  <1>4. CASE Gen!Complete(S, p)
    BY <1>1, <1>4 DEF Gen!Complete, Gen!Leave, Gen!Goto,
       Gen!CompareAndSetKeyStatus, Gen!SetKeyData
  <1>5. CASE Gen!RecvError(S, p) \/ Gen!MarkError(S, p)
    BY <1>1, <1>5 DEF Gen!RecvError, Gen!MarkError, Gen!Leave, Gen!Goto,
       Gen!CompareAndSetKeyStatus, Gen!SetKeyData
  <1>6. CASE Gen!SendRound(S, p) \/ Gen!RecvUpdate(S, p)
    BY <1>6 DEF Gen!SendRound, Gen!RecvUpdate
  <1>7. CASE \/ Gen!Refuse(S, p) \/ Gen!ReadyFails(S, p) \/ Gen!NoStart(S, p)
             \/ Gen!SendRoundFails(S, p) \/ Gen!Notify(S, p)
    BY <1>1, <1>7 DEF Gen!Refuse, Gen!ReadyFails, Gen!NoStart, Gen!SendRoundFails,
       Gen!Notify, Gen!Leave, Gen!Goto
  <1>8. CASE Gen!StartPanics(S, p)
    BY <1>8 DEF Gen!StartPanics
  <1>9. QED
    BY <1>2, <1>3, <1>4, <1>5, <1>6, <1>7, <1>8 DEF Gen!Handler

\* The other goroutines of the session only end handlers.
LEMMA GenOthers ==
    ASSUME GenP!Inv,
           Gen!Call(S) \/ \E p \in Party : Gen!Worker(S, p),
           NEW q \in Party, GenAccepted(q)'
    PROVE  GenAccepted(q)
  <1>1. UNCHANGED status
    <2>1. CASE Gen!Call(S)
      BY <2>1 DEF Gen!Call, Gen!TakeReady, Gen!AllReadyWith, Gen!streamVars,
         Gen!partyVars, Gen!TakeLastReady, Gen!TakeFailure, Gen!Return,
         Gen!Abandoned, Gen!TakeSuccess, Gen!AllFinishedWith,
         Gen!TakeLastSuccess, Gen!TakeError
    <2>2. CASE \E p \in Party : Gen!Worker(S, p)
      BY <2>2, ZenonT(60) DEF Gen!Worker, Gen!SendPrepare, Gen!partyVars, Gen!DialFails,
         Gen!streamVars, Gen!RecvReply, Gen!SendStart, Gen!SendStartFails,
         Gen!SendStartPanics, Gen!ProcessDies, Gen!RecvFinish
    <2>3. QED BY <2>1, <2>2
  <1>2. UNCHANGED handler \/ handler'[S][q] \in {"none", "done", handler[S][q]}
    <2>1. CASE Gen!Call(S)
      BY <2>1 DEF Gen!Call, Gen!TakeReady, Gen!AllReadyWith, Gen!streamVars,
         Gen!partyVars, Gen!TakeLastReady, Gen!TakeFailure, Gen!Return,
         Gen!Abandoned, Gen!TakeSuccess, Gen!AllFinishedWith,
         Gen!TakeLastSuccess, Gen!TakeError
    <2>2. CASE \E p \in Party : Gen!Worker(S, p)
      <3>1. PICK p \in Party : Gen!Worker(S, p)
        BY <2>2
      <3>2. CASE Gen!SendStartPanics(S, p)
        <4>1. Gen!ProcessDies(p)
          BY <3>2 DEF Gen!SendStartPanics
        <4>2. QED BY <4>1 DEF Gen!ProcessDies
      <3>3. CASE ~Gen!SendStartPanics(S, p)
        BY <3>1, <3>3 DEF Gen!Worker, Gen!SendPrepare, Gen!partyVars, Gen!DialFails,
           Gen!streamVars, Gen!RecvReply, Gen!SendStart, Gen!SendStartFails,
           Gen!RecvFinish
      <3>4. QED BY <3>2, <3>3
    <2>3. QED BY <2>1, <2>2
  <1>3. QED BY <1>1, <1>2 DEF GenAccepted

\* Before the call there is no session to be at work on.
LEMMA GenIdle ==
    ASSUME GenP!Inv, phase[S] = "idle", NEW p \in Party
    PROVE  ~GenAccepted(p) /\ handler[S][p] = "none"
  BY DEF GenP!Inv, GenP!BeforePrepare, GenAccepted

LEMMA GenPhases ==
    ASSUME GenP!Inv, phase'[S] # "idle",
           Gen!Call(S) \/ \E p \in Party : Gen!Worker(S, p) \/ Gen!Handler(S, p)
    PROVE  phase[S] # "idle"
  <1>1. CASE Gen!Call(S)
    BY <1>1 DEF Gen!Call, Gen!TakeReady, Gen!AllReadyWith, Gen!streamVars,
       Gen!partyVars, Gen!TakeLastReady, Gen!TakeFailure, Gen!Return,
       Gen!Abandoned, Gen!TakeSuccess, Gen!AllFinishedWith,
       Gen!TakeLastSuccess, Gen!TakeError
  <1>2. CASE \E p \in Party : Gen!Worker(S, p)
    BY <1>2, ZenonT(60) DEF Gen!Worker, Gen!SendPrepare, Gen!partyVars, Gen!DialFails,
       Gen!streamVars, Gen!RecvReply, Gen!SendStart, Gen!SendStartFails,
       Gen!SendStartPanics, Gen!ProcessDies, Gen!RecvFinish
  <1>3. CASE \E p \in Party : Gen!Handler(S, p)
    BY <1>3, ZenonT(60) DEF Gen!Handler, Gen!Accept, Gen!CheckAndSetKeyGen, Gen!KeyTaken,
       Gen!KeyDataList, Gen!Live, Gen!SetKeyData, Gen!Goto, Gen!callVars,
       Gen!Refuse, Gen!SendReady, Gen!ReadyFails, Gen!Leave, Gen!streamVars,
       Gen!RecvStart, Gen!NoStart, Gen!StartPanics, Gen!ProcessDies,
       Gen!SendRound, Gen!HasOutput, Gen!MoreRounds, Gen!HasRound, Gen!Others,
       Gen!Listening, Gen!Sent, Gen!Reading, Gen!SendRoundFails,
       Gen!RecvUpdate, Gen!RecvError, Gen!CompareAndSetKeyStatus, Gen!Reply,
       Gen!Complete, Gen!MarkError, Gen!Notify, Gen!Inform
  <1>4. QED BY <1>1, <1>2, <1>3

\* The sets of validators seen are those since the call.
LEMMA VerdictsStep ==
    ASSUME GenP!Inv, VerdictsHeld, [Next]_vars
    PROVE  VerdictsHeld'
  <1>1. CASE CallKeyGen
    <2>1. phase[S] = "idle" /\ UNCHANGED <<handler, status, mpcSet>> /\ seen' = {mpcSet}
      BY <1>1 DEF CallKeyGen, Gen!KeyGen, Gen!partyVars
    <2>2. QED BY <2>1, GenIdle DEF VerdictsHeld, GenAccepted
  <1>2. CASE Rotate
    <2>1. /\ UNCHANGED <<phase, handler, status>>
          /\ seen' = IF phase[S] = "idle" THEN {} ELSE seen \cup {mpcSet'}
      BY <1>2 DEF Rotate, genVars
    <2>2. QED BY <2>1, GenIdle DEF VerdictsHeld, GenAccepted
  <1>3. CASE GenCall \/ \E p \in Party : GenWorker(p)
    <2>1. UNCHANGED <<mpcSet, seen>>
      BY <1>3 DEF GenCall, GenWorker, chainVars
    <2>2. phase'[S] # "idle" => phase[S] # "idle"
      BY <1>3, GenPhases DEF GenCall, GenWorker
    <2>3. \A q \in Party : GenAccepted(q)' => GenAccepted(q)
      BY <1>3, GenOthers DEF GenCall, GenWorker
    <2>4. QED BY <2>1, <2>2, <2>3 DEF VerdictsHeld
  <1>4. ASSUME NEW p \in Party, GenHandler(p) PROVE VerdictsHeld'
    <2>1. UNCHANGED <<mpcSet, seen>> /\ Gen!Handler(S, p) /\ GenVerdict(p)
      BY <1>4 DEF GenHandler, chainVars
    <2>2. phase'[S] # "idle" => phase[S] # "idle"
      BY <2>1, GenPhases
    <2>3. ASSUME NEW q \in Party, GenAccepted(q)'
          PROVE  \E set \in seen : KeyGenValidate(set)
      <3>1. CASE GenAccepted(q)
        BY <3>1 DEF VerdictsHeld
      <3>2. CASE handler[S][p] = "validate" /\ handler'[S][p] = "wait"
        <4>1. KeyGenValidate(mpcSet)
          BY <2>1, <3>2 DEF GenVerdict
        <4>2. mpcSet \in seen
          BY <3>2, GenIdle DEF VerdictsHeld
        <4>3. QED BY <4>1, <4>2
      <3>3. QED BY <2>1, <2>3, <3>1, <3>2, GenAccepts
    <2>4. QED BY <2>1, <2>2, <2>3 DEF VerdictsHeld, KeyGenValidate, IsValidator, SameFold
  <1>5. CASE UNCHANGED <<phase, handler, status, mpcSet, seen>>
    BY <1>5 DEF VerdictsHeld, GenAccepted
  <1>6. QED
    BY <1>1, <1>2, <1>3, <1>4, <1>5
       DEF Next, vars, CallKeySign, Propose, Publish, SignCall, SignWorker,
           SignHandler, genVars, chainVars

\* Before the call there is no signing to be at work on.
LEMMA SignIdle ==
    ASSUME SignP!Inv, signPhase = "idle", NEW p \in Party
    PROVE  ~SignAccepted(p)
  BY DEF SignP!Inv, SignP!BeforePrepare, SignP!AfterStart, SignP!SignersFixed,
     SignP!Succeeded, SignAccepted

\* The same as GenAccepts of signing.
LEMMA SignAccepts ==
    ASSUME SignP!Inv, NEW p \in Party, Sign!Handler(p),
           NEW q \in Party, SignAccepted(q)'
    PROVE  \/ SignAccepted(q)
           \/ q = p /\ signHandler[p] = "validate" /\ signHandler'[p] = "wait"
  <1> USE DEF SignAccepted, Sign!callVars
  <1>1. /\ signHandler \in [Party -> {"none", "validate", "wait", "loop", "closing", "done"}]
        /\ signP2c \in [Party -> {"none", "ready", "success", "failure"}]
    BY DEF SignP!Inv, SignP!TypeOK
  <1>2. CASE Sign!RecvPrepare(p) \/ Sign!SendReady(p) \/ Sign!RecvStart(p)
    BY <1>1, <1>2 DEF Sign!RecvPrepare, Sign!SendReady, Sign!RecvStart, Sign!Goto
  <1>3. CASE Sign!Refuse(p) \/ Sign!NoStart(p) \/ Sign!SendRoundFails(p)
    BY <1>1, <1>3 DEF Sign!Refuse, Sign!NoStart, Sign!SendRoundFails, Sign!Answer,
       Sign!Goto
  <1>4. CASE Sign!SendRound(p) \/ Sign!RecvUpdate(p)
    BY <1>4 DEF Sign!SendRound, Sign!RecvUpdate, Sign!streamVars
  <1>5. CASE Sign!Complete(p)
    BY <1>1, <1>5 DEF Sign!Complete, Sign!Answer, Sign!Goto
  <1>6. CASE Sign!CloseSession(p)
    BY <1>1, <1>6 DEF Sign!CloseSession, Sign!Goto
  <1>7. CASE Sign!ClosePanics(p)
    BY <1>1, <1>7 DEF Sign!ClosePanics, Sign!ProcessDies
  <1>8. QED
    BY <1>2, <1>3, <1>4, <1>5, <1>6, <1>7 DEF Sign!Handler

\* The call only passes on what the parties have answered.
LEMMA SignOthers ==
    ASSUME SignP!Inv,
           Sign!Call \/ Sign!Canceller \/ \E p \in Party : Sign!Worker(p),
           NEW q \in Party, SignAccepted(q)'
    PROVE  SignAccepted(q)
  <1> USE DEF SignAccepted
  <1>1. /\ signP2c \in [Party -> {"none", "ready", "success", "failure"}]
        /\ result \in [Party -> {"none", "success", "failure", "counted"}]
    BY DEF SignP!Inv, SignP!TypeOK
  <1>2. CASE Sign!Call
    BY <1>1, <1>2 DEF Sign!Call, Sign!WaitGroup, Sign!streamVars,
       Sign!partyVars, Sign!TakeError, Sign!Return, Sign!TakeReady,
       Sign!Enough, Sign!TakeLastReady, Sign!TakeSuccess, Sign!TakeFailure,
       Sign!NoSignerLeft, Sign!Failed, Sign!TakeLastFailure
  <1>3. CASE Sign!Canceller
    BY <1>1, <1>3 DEF Sign!Canceller, Sign!CancellerStops, Sign!streamVars,
       Sign!partyVars, Sign!CancelSurplus
  <1>4. CASE \E p \in Party : Sign!Worker(p)
    BY <1>1, <1>4 DEF Sign!Worker, Sign!Skip, Sign!streamVars, Sign!partyVars,
       Sign!SendPrepare, Sign!DialFails, Sign!RecvReady, Sign!IsReady,
       Sign!RecvRefusal, Sign!Receives, Sign!SendStart, Sign!SendStartFails,
       Sign!RecvFinish
  <1>5. QED BY <1>2, <1>3, <1>4

\* The call is answered with a signature that a party has answered with.
LEMMA SignPhases ==
    ASSUME Sign!Call \/ Sign!Canceller
           \/ \E p \in Party : Sign!Worker(p) \/ Sign!Handler(p)
    PROVE  /\ signPhase' # "idle" => signPhase # "idle"
           /\ signPhase' = "ok" => signPhase = "ok" \/ \E p \in Party : SignAccepted(p)
  <1> USE DEF SignAccepted
  <1>1. CASE Sign!Call
    BY <1>1 DEF Sign!Call, Sign!WaitGroup, Sign!streamVars, Sign!partyVars,
       Sign!TakeError, Sign!Return, Sign!TakeReady, Sign!Enough,
       Sign!TakeLastReady, Sign!TakeSuccess, Sign!TakeFailure,
       Sign!NoSignerLeft, Sign!Failed, Sign!TakeLastFailure
  <1>2. CASE Sign!Canceller
    BY <1>2 DEF Sign!Canceller, Sign!CancellerStops, Sign!streamVars,
       Sign!partyVars, Sign!CancelSurplus
  <1>3. CASE \E p \in Party : Sign!Worker(p)
    BY <1>3 DEF Sign!Worker, Sign!Skip, Sign!streamVars, Sign!partyVars,
       Sign!SendPrepare, Sign!DialFails, Sign!RecvReady, Sign!IsReady,
       Sign!RecvRefusal, Sign!Receives, Sign!SendStart, Sign!SendStartFails,
       Sign!RecvFinish
  <1>4. CASE \E p \in Party : Sign!Handler(p)
    BY <1>4 DEF Sign!Handler, Sign!RecvPrepare, Sign!Goto, Sign!callVars,
       Sign!SendReady, Sign!Refuse, Sign!Answer, Sign!RecvStart, Sign!NoStart,
       Sign!SendRound, Sign!HasOutput, Sign!MoreRounds, Sign!HasRound,
       Sign!Peers, Sign!Listening, Sign!Sent, Sign!streamVars,
       Sign!SendRoundFails, Sign!RecvUpdate, Sign!Complete, Sign!CloseSession,
       Sign!Pending, Sign!ClosePanics, Sign!ProcessDies
  <1>5. QED BY <1>1, <1>2, <1>3, <1>4

\* The proposal that a party has accepted stays.
LEMMA ProposalStep ==
    ASSUME SignP!Inv, ProposalHeld, [Next]_vars
    PROVE  ProposalHeld'
  <1> USE DEF KeySignValidate, SameFold
  <1>1. CASE CallKeySign
    <2>1. /\ signPhase = "idle" /\ signPhase' = "collect" /\ signMsg' \in Message
          /\ UNCHANGED <<signHandler, signP2c, result, info>>
      BY <1>1 DEF CallKeySign, Sign!KeySign, Sign!streamVars, Sign!partyVars, chainVars
    <2>2. QED BY <2>1, SignIdle DEF ProposalHeld, SignAccepted
  <1>2. CASE Propose
    <2>1. /\ info = NoProposal /\ info' \in Proposals
          /\ UNCHANGED <<signPhase, signMsg, signHandler, signP2c, result>>
      BY <1>2 DEF Propose, signVars
    <2>2. signPhase # "ok" /\ \A p \in Party : ~SignAccepted(p)
      BY <2>1, SignIdle, RequestAssumption DEF ProposalHeld
    <2>3. QED BY <2>1, <2>2, RequestAssumption DEF ProposalHeld, SignAccepted
  <1>3. CASE Publish
    <2>1. /\ info' = [info EXCEPT !.signed = TRUE]
          /\ UNCHANGED <<signPhase, signMsg>>
      BY <1>3 DEF Publish, signVars
    <2>2. QED BY <2>1 DEF ProposalHeld
  <1>4. CASE SignCall \/ \E p \in Party : SignWorker(p)
    <2>1. UNCHANGED <<signMsg, info>>
      BY <1>4 DEF SignCall, SignWorker, chainVars
    <2>2. /\ signPhase' # "idle" => signPhase # "idle"
          /\ signPhase' = "ok" => signPhase = "ok" \/ \E p \in Party : SignAccepted(p)
      BY <1>4, SignPhases DEF SignCall, SignWorker
    <2>3. \A q \in Party : SignAccepted(q)' => SignAccepted(q)
      BY <1>4, SignOthers DEF SignCall, SignWorker
    <2>4. QED BY <2>1, <2>2, <2>3 DEF ProposalHeld
  <1>5. ASSUME NEW p \in Party, SignHandler(p) PROVE ProposalHeld'
    <2>1. UNCHANGED <<signMsg, info>> /\ Sign!Handler(p) /\ SignVerdict(p)
      BY <1>5 DEF SignHandler, chainVars
    <2>2. /\ signPhase' # "idle" => signPhase # "idle"
          /\ signPhase' = "ok" => signPhase = "ok" \/ \E q \in Party : SignAccepted(q)
      BY <2>1, SignPhases
    <2>3. ASSUME NEW q \in Party, SignAccepted(q)'
          PROVE  KeySignValidate(info, Key, signMsg)
      <3>1. CASE SignAccepted(q)
        BY <3>1 DEF ProposalHeld
      <3>2. CASE signHandler[p] = "validate" /\ signHandler'[p] = "wait"
        BY <2>1, <3>2 DEF SignVerdict
      <3>3. QED BY <2>1, <2>3, <3>1, <3>2, SignAccepts
    <2>4. QED BY <2>1, <2>2, <2>3 DEF ProposalHeld
  <1>6. CASE UNCHANGED <<signVars, info>>
    BY <1>6 DEF signVars, ProposalHeld, SignAccepted
  <1>7. QED
    BY <1>1, <1>2, <1>3, <1>4, <1>5, <1>6
       DEF Next, vars, CallKeyGen, Rotate, GenCall, GenWorker, GenHandler, chainVars

\* What the chain has said to those who went on (ServiceInv.tla), in every
\* reachable state, however its validators and proposals change meanwhile.
THEOREM ChainInvariance == Spec => []ChainInv
  <1>1. Init => ChainInv
    <2> SUFFICES ASSUME Init PROVE ChainInv
      OBVIOUS
    <2>1. VerdictsHeld
      BY DEF Init, Gen!Init, VerdictsHeld, GenAccepted
    <2>2. "signed" \in DOMAIN info
      BY DEF Init, NoProposal
    <2>3. signPhase = "idle" /\ \A p \in Party : ~SignAccepted(p)
      BY DEF Init, Sign!Init, SignAccepted
    <2>4. QED BY <2>1, <2>2, <2>3 DEF ChainInv, ProposalHeld
  <1>2. GenP!Inv /\ SignP!Inv /\ ChainInv /\ [Next]_vars => ChainInv'
    BY VerdictsStep, ProposalStep DEF ChainInv
  <1>3. QED BY <1>1, <1>2, GenInvariance, SignInvariance, PTL DEF Spec

\* A party holds a READY key only if all parties of the request were
\* validators together, at some time since the call.
THEOREM Members == Spec => []GeneratedByMembers
  <1>1. ChainInv => GeneratedByMembers
    BY DEF ChainInv, VerdictsHeld, GenAccepted, GeneratedByMembers, Holders,
       KeyGenValidate
  <1>2. QED BY <1>1, ChainInvariance, PTL

\* KeySign answers with a signature only for what the chain has proposed, or
\* has a signature for already.
THEOREM AgreedMessage == Spec => []SignsAgreedMessage
  <1>1. ChainInv => SignsAgreedMessage
    BY DEF ChainInv, ProposalHeld, SignsAgreedMessage, KeySignValidate
  <1>2. QED BY <1>1, ChainInvariance, PTL
=============================================================================
