----------------------------- MODULE KeyGenProofs -----------------------------
(***************************************************************************)
(* Proofs about KeyGen.tla for every set of servers, sessions, key ids,    *)
(* requests, rounds and faults: the invariant Inv, the safety properties   *)
(* that follow from it, and the refinement of KeyRegistry.tla.             *)
(***************************************************************************)
EXTENDS KeyGenInv, TLAPS

USE CoordAssumption, PartiesAssumption, RoundsAssumption

-----------------------------------------------------------------------------
(* Conjuncts of Inv that a step leaves alone.                              *)

\* Nothing happens to the records: what they say of each other stays true.
LEMMA RecordFrame ==
    ASSUME Inv, UNCHANGED <<ready, round, status>>
    PROVE  AllContributed' /\ OneLiveRecord' /\ NoSplit'
  <1>1. AllContributed'
    BY DEF Inv, AllContributed
  <1>2. OneLiveRecord'
    BY DEF Inv, OneLiveRecord, Live
  <1>3. NoSplit'
    BY DEF Inv, NoSplit, Contributes, Registry!Rivals, Started
  <1>4. QED BY <1>1, <1>2, <1>3

\* No message is sent or received between parties.
LEMMA RoundFrame ==
    ASSUME Inv, UNCHANGED <<round, got, net>>
    PROVE  RoundsWereSent'
  BY DEF Inv, RoundsWereSent

\* No handler moves.
LEMMA HandlerFrame ==
    ASSUME Inv, UNCHANGED <<handler, status>>
    PROVE  HandlerOwnsRecord'
  BY DEF Inv, HandlerOwnsRecord

\* Messages sent are typed.
LEMMA SentType ==
    ASSUME NEW s \in Session, NEW p \in Party, NEW To \in SUBSET Party,
           NEW k \in 0..Rounds
    PROVE  Sent(s, p, To, k) \subseteq SessionMsg
  BY DEF Sent, SessionMsg

-----------------------------------------------------------------------------
(* Every action preserves Inv.                                             *)

\* A new call only sets its goroutines up.
LEMMA KeyGenStep ==
    ASSUME Inv, NEW s \in Session, KeyGen(s)
    PROVE  Inv'
  <1> USE DEF KeyGen, TypeOK, streamVars, partyVars
  <1>1. AllContributed' /\ OneLiveRecord' /\ NoSplit'
    BY RecordFrame
  <1>2. RoundsWereSent'
    BY RoundFrame
  <1>3. HandlerOwnsRecord'
    BY HandlerFrame
  <1>4. TypeOK'
    BY DEF Inv, Workers
  <1>5. OnlyParties'
    BY DEF Inv, OnlyParties
  <1>6. BeforePrepare'
    BY DEF Inv, BeforePrepare, Acknowledged, Reported
  <1>7. ReadyMeansAccepted'
    BY DEF Inv, ReadyMeansAccepted, Acknowledged
  <1>8. AfterStart'
    BY DEF Inv, AfterStart, Started
  <1>9. ReportedMeansReady'
    BY DEF Inv, ReportedMeansReady, Reported
  <1>10. QED BY <1>1, <1>2, <1>3, <1>4, <1>5, <1>6, <1>7, <1>8, <1>9 DEF Inv

\* Prepare is sent where nothing of the session is yet.
LEMMA SendPrepareStep ==
    ASSUME Inv, NEW s \in Session, NEW p \in Parties[s], SendPrepare(s, p)
    PROVE  Inv'
  <1> p \in Party
    BY PartiesAssumption
  <1> USE DEF SendPrepare, TypeOK, partyVars
  <1>1. AllContributed' /\ OneLiveRecord' /\ NoSplit'
    BY RecordFrame
  <1>2. RoundsWereSent'
    BY RoundFrame
  <1>3. HandlerOwnsRecord'
    BY HandlerFrame
  <1>4. TypeOK'
    BY DEF Inv, Workers
  <1>5. OnlyParties'
    BY DEF Inv, OnlyParties
  <1>6. BeforePrepare'
    BY DEF Inv, BeforePrepare, Acknowledged, Reported
  <1>7. ReadyMeansAccepted'
    BY DEF Inv, ReadyMeansAccepted, Acknowledged
  <1>8. AfterStart'
    BY DEF Inv, AfterStart, Started
  <1>9. ReportedMeansReady'
    BY DEF Inv, ReportedMeansReady, Reported
  <1>10. QED BY <1>1, <1>2, <1>3, <1>4, <1>5, <1>6, <1>7, <1>8, <1>9 DEF Inv

\* A failed dial leaves the party out.
LEMMA DialFailsStep ==
    ASSUME Inv, NEW s \in Session, NEW p \in Parties[s], DialFails(s, p)
    PROVE  Inv'
  <1> p \in Party
    BY PartiesAssumption
  <1> USE DEF DialFails, TypeOK, streamVars, partyVars
  <1>1. AllContributed' /\ OneLiveRecord' /\ NoSplit'
    BY RecordFrame
  <1>2. RoundsWereSent'
    BY RoundFrame
  <1>3. HandlerOwnsRecord'
    BY HandlerFrame
  <1>4. TypeOK'
    BY DEF Inv, Workers
  <1>5. OnlyParties'
    BY DEF Inv, OnlyParties
  <1>6. BeforePrepare'
    BY DEF Inv, BeforePrepare, Acknowledged, Reported
  <1>7. ReadyMeansAccepted'
    BY DEF Inv, ReadyMeansAccepted, Acknowledged
  <1>8. AfterStart'
    BY DEF Inv, AfterStart, Started
  <1>9. ReportedMeansReady'
    BY DEF Inv, ReportedMeansReady, Reported
  <1>10. QED BY <1>1, <1>2, <1>3, <1>4, <1>5, <1>6, <1>7, <1>8, <1>9 DEF Inv

\* The answer moves from the stream to the goroutine.
LEMMA RecvReplyStep ==
    ASSUME Inv, NEW s \in Session, NEW p \in Parties[s], RecvReply(s, p)
    PROVE  Inv'
  <1> p \in Party
    BY PartiesAssumption
  <1> USE DEF RecvReply, TypeOK, partyVars
  <1>1. AllContributed' /\ OneLiveRecord' /\ NoSplit'
    BY RecordFrame
  <1>2. RoundsWereSent'
    BY RoundFrame
  <1>3. HandlerOwnsRecord'
    BY HandlerFrame
  <1>4. TypeOK'
    BY DEF Inv, Workers
  <1>5. OnlyParties'
    BY DEF Inv, OnlyParties
  <1>6. BeforePrepare'
    BY DEF Inv, BeforePrepare, Acknowledged, Reported
  <1>7. ReadyMeansAccepted'
    BY DEF Inv, ReadyMeansAccepted, Acknowledged
  <1>8. AfterStart'
    BY DEF Inv, AfterStart, Started
  <1>9. ReportedMeansReady'
    BY DEF Inv, ReportedMeansReady, Reported
  <1>10. QED BY <1>1, <1>2, <1>3, <1>4, <1>5, <1>6, <1>7, <1>8, <1>9 DEF Inv

\* A Ready is counted while others are missing.
LEMMA TakeReadyStep ==
    ASSUME Inv, NEW s \in Session, NEW p \in Parties[s], TakeReady(s, p)
    PROVE  Inv'
  <1> p \in Party
    BY PartiesAssumption
  <1> USE DEF TakeReady, AllReadyWith, TypeOK, streamVars, partyVars
  <1>1. RoundsWereSent'
    BY RoundFrame
  <1>2. HandlerOwnsRecord'
    BY HandlerFrame
  <1>3. TypeOK'
    BY DEF Inv, Workers
  <1>4. OnlyParties'
    BY DEF Inv, OnlyParties
  <1>5. BeforePrepare'
    BY DEF Inv, BeforePrepare, Acknowledged, Reported
  <1>6. ReadyMeansAccepted'
    BY DEF Inv, ReadyMeansAccepted, Acknowledged
  <1>7. AfterStart'
    BY DEF Inv, AfterStart, Started
  <1>8. ReportedMeansReady'
    BY DEF Inv, ReportedMeansReady, Reported
  <1>9. AllContributed'
    BY DEF Inv, AllContributed
  <1>10. OneLiveRecord'
    BY DEF Inv, OneLiveRecord, Live
  <1>11. NoSplit'
    BY DEF Inv, NoSplit, Contributes, Registry!Rivals, Started
  <1>12. QED BY <1>1, <1>2, <1>3, <1>4, <1>5, <1>6, <1>7, <1>8, <1>9, <1>10,
             <1>11 DEF Inv

\* The last Ready starts the session: NoSplit is established here.
LEMMA TakeLastReadyStep ==
    ASSUME Inv, NEW s \in Session, NEW p \in Parties[s], TakeLastReady(s, p)
    PROVE  Inv'
  <1> p \in Party
    BY PartiesAssumption
  <1> USE DEF TakeLastReady, AllReadyWith, TypeOK, streamVars, partyVars
  <1>1. RoundsWereSent'
    BY RoundFrame
  <1>2. HandlerOwnsRecord'
    BY HandlerFrame
  <1>3. TypeOK'
    BY DEF Inv, Workers
  <1>4. OnlyParties'
    BY DEF Inv, OnlyParties
  <1>5. BeforePrepare'
    BY DEF Inv, BeforePrepare, Acknowledged, Reported, OnlyParties
  <1>6. ReadyMeansAccepted'
    BY DEF Inv, ReadyMeansAccepted, Acknowledged
  <1>7. AfterStart'
    BY DEF Inv, AfterStart, Started
  <1>8. ReportedMeansReady'
    BY DEF Inv, ReportedMeansReady, Reported
  <1>9. AllContributed'
    BY DEF Inv, AllContributed
  <1>10. OneLiveRecord'
    BY DEF Inv, OneLiveRecord, Live
  <1>11. NoSplit'
    <2>1. SUFFICES ASSUME NEW q \in Party, NEW u \in Party, NEW t \in Session,
                    NEW v \in Session, Registry!Rivals(q, t, u, v),
                    Started(t)', Started(v)',
                    \A w \in {t, v} : Contributes(q, w)' /\ Contributes(u, w)'
             PROVE  \E w \in {t, v} :
                       status'[q][w] = "error" /\ status'[u][w] = "error"
      BY DEF NoSplit, Registry!Rivals
    <2>2. CASE Started(t) /\ Started(v)
      BY <2>1, <2>2 DEF Inv, NoSplit, Contributes
    <2>3. CASE ~Started(t)
      <3>1. t = s /\ v # s /\ Started(v)
        BY <2>1, <2>3 DEF Started, Registry!Rivals
      <3>2. status[q][t] = "pending" /\ status[u][t] = "pending"
        BY <2>1, <2>3 DEF Inv, AfterStart, Contributes
      <3>3. status[q][v] # "none" /\ status[u][v] # "none"
        BY <2>1, <3>1 DEF Inv, ReadyMeansAccepted, Acknowledged, Started, Registry!Rivals
      <3>4. ~Live(q, v) /\ ~Live(u, v)
        BY <2>1, <3>1, <3>2 DEF Inv, OneLiveRecord, Live, Registry!Rivals
      <3>5. QED BY <3>3, <3>4 DEF Inv, Live, KeyStatus
    <2>4. CASE ~Started(v)
      <3>1. v = s /\ t # s /\ Started(t)
        BY <2>1, <2>4 DEF Started, Registry!Rivals
      <3>2. status[q][v] = "pending" /\ status[u][v] = "pending"
        BY <2>1, <2>4 DEF Inv, AfterStart, Contributes
      <3>3. status[q][t] # "none" /\ status[u][t] # "none"
        BY <2>1, <3>1 DEF Inv, ReadyMeansAccepted, Acknowledged, Started, Registry!Rivals
      <3>4. ~Live(q, t) /\ ~Live(u, t)
        BY <2>1, <3>1, <3>2 DEF Inv, OneLiveRecord, Live, Registry!Rivals
      <3>5. QED BY <3>3, <3>4 DEF Inv, Live, KeyStatus
    <2>5. QED BY <2>2, <2>3, <2>4
  <1>12. QED BY <1>1, <1>2, <1>3, <1>4, <1>5, <1>6, <1>7, <1>8, <1>9, <1>10,
             <1>11 DEF Inv

\* An error ends the call.
LEMMA TakeErrorStep ==
    ASSUME Inv, NEW s \in Session, NEW p \in Parties[s], TakeError(s, p)
    PROVE  Inv'
  <1> p \in Party
    BY PartiesAssumption
  <1> USE DEF TakeError, Return, Abandoned, TypeOK, partyVars
  <1>1. AllContributed' /\ OneLiveRecord' /\ NoSplit'
    BY RecordFrame
  <1>2. RoundsWereSent'
    BY RoundFrame
  <1>3. HandlerOwnsRecord'
    BY HandlerFrame
  <1>4. TypeOK'
    BY DEF Inv, Workers
  <1>5. OnlyParties'
    BY DEF Inv, OnlyParties
  <1>6. BeforePrepare'
    BY DEF Inv, BeforePrepare, Acknowledged, Reported, OnlyParties
  <1>7. ReadyMeansAccepted'
    BY DEF Inv, ReadyMeansAccepted, Acknowledged
  <1>8. AfterStart'
    BY DEF Inv, AfterStart, Started
  <1>9. ReportedMeansReady'
    BY DEF Inv, ReportedMeansReady, Reported
  <1>10. QED BY <1>1, <1>2, <1>3, <1>4, <1>5, <1>6, <1>7, <1>8, <1>9 DEF Inv

\* The client's context ends the call.
LEMMA CtxDoneStep ==
    ASSUME Inv, NEW s \in Session, CtxDone(s)
    PROVE  Inv'
  <1> USE DEF CtxDone, Return, Abandoned, TypeOK, partyVars
  <1>1. AllContributed' /\ OneLiveRecord' /\ NoSplit'
    BY RecordFrame
  <1>2. RoundsWereSent'
    BY RoundFrame
  <1>3. HandlerOwnsRecord'
    BY HandlerFrame
  <1>4. TypeOK'
    BY DEF Inv, Workers
  <1>5. OnlyParties'
    BY DEF Inv, OnlyParties
  <1>6. BeforePrepare'
    BY DEF Inv, BeforePrepare, Acknowledged, Reported, OnlyParties
  <1>7. ReadyMeansAccepted'
    BY DEF Inv, ReadyMeansAccepted, Acknowledged
  <1>8. AfterStart'
    BY DEF Inv, AfterStart, Started
  <1>9. ReportedMeansReady'
    BY DEF Inv, ReportedMeansReady, Reported
  <1>10. QED BY <1>1, <1>2, <1>3, <1>4, <1>5, <1>6, <1>7, <1>8, <1>9 DEF Inv

\* A failure report ends the call.
LEMMA TakeFailureStep ==
    ASSUME Inv, NEW s \in Session, NEW p \in Parties[s], TakeFailure(s, p)
    PROVE  Inv'
  <1> p \in Party
    BY PartiesAssumption
  <1> USE DEF TakeFailure, Return, Abandoned, TypeOK, partyVars
  <1>1. AllContributed' /\ OneLiveRecord' /\ NoSplit'
    BY RecordFrame
  <1>2. RoundsWereSent'
    BY RoundFrame
  <1>3. HandlerOwnsRecord'
    BY HandlerFrame
  <1>4. TypeOK'
    BY DEF Inv, Workers
  <1>5. OnlyParties'
    BY DEF Inv, OnlyParties
  <1>6. BeforePrepare'
    BY DEF Inv, BeforePrepare, Acknowledged, Reported, OnlyParties
  <1>7. ReadyMeansAccepted'
    BY DEF Inv, ReadyMeansAccepted, Acknowledged
  <1>8. AfterStart'
    BY DEF Inv, AfterStart, Started
  <1>9. ReportedMeansReady'
    BY DEF Inv, ReportedMeansReady, Reported
  <1>10. QED BY <1>1, <1>2, <1>3, <1>4, <1>5, <1>6, <1>7, <1>8, <1>9 DEF Inv

\* A success report is counted.
LEMMA TakeSuccessStep ==
    ASSUME Inv, NEW s \in Session, NEW p \in Parties[s], TakeSuccess(s, p)
    PROVE  Inv'
  <1> p \in Party
    BY PartiesAssumption
  <1> USE DEF TakeSuccess, AllFinishedWith, TypeOK, streamVars, partyVars
  <1>1. AllContributed' /\ OneLiveRecord' /\ NoSplit'
    BY RecordFrame
  <1>2. RoundsWereSent'
    BY RoundFrame
  <1>3. HandlerOwnsRecord'
    BY HandlerFrame
  <1>4. TypeOK'
    BY DEF Inv, Workers
  <1>5. OnlyParties'
    BY DEF Inv, OnlyParties
  <1>6. BeforePrepare'
    BY DEF Inv, BeforePrepare, Acknowledged, Reported
  <1>7. ReadyMeansAccepted'
    BY DEF Inv, ReadyMeansAccepted, Acknowledged
  <1>8. AfterStart'
    BY DEF Inv, AfterStart, Started
  <1>9. ReportedMeansReady'
    BY DEF Inv, ReportedMeansReady, Reported
  <1>10. QED BY <1>1, <1>2, <1>3, <1>4, <1>5, <1>6, <1>7, <1>8, <1>9 DEF Inv

\* The last success report completes the call.
LEMMA TakeLastSuccessStep ==
    ASSUME Inv, NEW s \in Session, NEW p \in Parties[s], TakeLastSuccess(s, p)
    PROVE  Inv'
  <1> p \in Party
    BY PartiesAssumption
  <1> USE DEF TakeLastSuccess, AllFinishedWith, Return, Abandoned, TypeOK,
          partyVars
  <1>1. AllContributed' /\ OneLiveRecord' /\ NoSplit'
    BY RecordFrame
  <1>2. RoundsWereSent'
    BY RoundFrame
  <1>3. HandlerOwnsRecord'
    BY HandlerFrame
  <1>4. TypeOK'
    BY DEF Inv, Workers
  <1>5. OnlyParties'
    BY DEF Inv, OnlyParties
  <1>6. BeforePrepare'
    BY DEF Inv, BeforePrepare, Acknowledged, Reported, OnlyParties
  <1>7. ReadyMeansAccepted'
    BY DEF Inv, ReadyMeansAccepted, Acknowledged
  <1>8. AfterStart'
    BY DEF Inv, AfterStart, Started
  <1>9. ReportedMeansReady'
    BY DEF Inv, ReportedMeansReady, Reported
  <1>10. QED BY <1>1, <1>2, <1>3, <1>4, <1>5, <1>6, <1>7, <1>8, <1>9 DEF Inv

\* Start is sent only after all were ready.
LEMMA SendStartStep ==
    ASSUME Inv, NEW s \in Session, NEW p \in Parties[s], SendStart(s, p)
    PROVE  Inv'
  <1> p \in Party
    BY PartiesAssumption
  <1> USE DEF SendStart, TypeOK, partyVars
  <1>1. AllContributed' /\ OneLiveRecord' /\ NoSplit'
    BY RecordFrame
  <1>2. RoundsWereSent'
    BY RoundFrame
  <1>3. HandlerOwnsRecord'
    BY HandlerFrame
  <1>4. TypeOK'
    BY DEF Inv, Workers
  <1>5. OnlyParties'
    BY DEF Inv, OnlyParties
  <1>6. BeforePrepare'
    BY DEF Inv, BeforePrepare, Acknowledged, Reported
  <1>7. ReadyMeansAccepted'
    BY DEF Inv, ReadyMeansAccepted, Acknowledged
  <1>8. AfterStart'
    BY DEF Inv, AfterStart, Started
  <1>9. ReportedMeansReady'
    BY DEF Inv, ReportedMeansReady, Reported
  <1>10. QED BY <1>1, <1>2, <1>3, <1>4, <1>5, <1>6, <1>7, <1>8, <1>9 DEF Inv

\* A Start that cannot be sent changes no party.
LEMMA SendStartFailsStep ==
    ASSUME Inv, NEW s \in Session, NEW p \in Parties[s], SendStartFails(s, p)
    PROVE  Inv'
  <1> p \in Party
    BY PartiesAssumption
  <1> USE DEF SendStartFails, TypeOK, streamVars, partyVars
  <1>1. AllContributed' /\ OneLiveRecord' /\ NoSplit'
    BY RecordFrame
  <1>2. RoundsWereSent'
    BY RoundFrame
  <1>3. HandlerOwnsRecord'
    BY HandlerFrame
  <1>4. TypeOK'
    BY DEF Inv, Workers
  <1>5. OnlyParties'
    BY DEF Inv, OnlyParties
  <1>6. BeforePrepare'
    BY DEF Inv, BeforePrepare, Acknowledged, Reported
  <1>7. ReadyMeansAccepted'
    BY DEF Inv, ReadyMeansAccepted, Acknowledged
  <1>8. AfterStart'
    BY DEF Inv, AfterStart, Started
  <1>9. ReportedMeansReady'
    BY DEF Inv, ReportedMeansReady, Reported
  <1>10. QED BY <1>1, <1>2, <1>3, <1>4, <1>5, <1>6, <1>7, <1>8, <1>9 DEF Inv

\* A finish report moves from the stream to the goroutine.
LEMMA RecvFinishStep ==
    ASSUME Inv, NEW s \in Session, NEW p \in Parties[s], RecvFinish(s, p)
    PROVE  Inv'
  <1> p \in Party
    BY PartiesAssumption
  <1> USE DEF RecvFinish, TypeOK, partyVars
  <1>1. AllContributed' /\ OneLiveRecord' /\ NoSplit'
    BY RecordFrame
  <1>2. RoundsWereSent'
    BY RoundFrame
  <1>3. HandlerOwnsRecord'
    BY HandlerFrame
  <1>4. TypeOK'
    BY DEF Inv, Workers
  <1>5. OnlyParties'
    BY DEF Inv, OnlyParties
  <1>6. BeforePrepare'
    BY DEF Inv, BeforePrepare, Acknowledged, Reported
  <1>7. ReadyMeansAccepted'
    BY DEF Inv, ReadyMeansAccepted, Acknowledged
  <1>8. AfterStart'
    BY DEF Inv, AfterStart, Started
  <1>9. ReportedMeansReady'
    BY DEF Inv, ReportedMeansReady, Reported
  <1>10. QED BY <1>1, <1>2, <1>3, <1>4, <1>5, <1>6, <1>7, <1>8, <1>9 DEF Inv

\* What a process leaves behind when it ends is still consistent.
LEMMA ProcessDiesStep ==
    ASSUME Inv, NEW p \in Party, ProcessDies(p)
    PROVE  Inv'
  <1> USE DEF ProcessDies, TypeOK
  <1>1. AllContributed' /\ OneLiveRecord' /\ NoSplit'
    BY RecordFrame
  <1>2. TypeOK'
    BY DEF Inv, Workers, Handlers
  <1>3. OnlyParties'
    BY DEF Inv, OnlyParties
  <1>4. BeforePrepare'
    BY DEF Inv, BeforePrepare, Acknowledged, Reported
  <1>5. ReadyMeansAccepted'
    BY DEF Inv, ReadyMeansAccepted, Acknowledged
  <1>6. AfterStart'
    BY DEF Inv, AfterStart, Started
  <1>7. HandlerOwnsRecord'
    BY DEF Inv, HandlerOwnsRecord
  <1>8. RoundsWereSent'
    BY DEF Inv, RoundsWereSent
  <1>9. ReportedMeansReady'
    BY DEF Inv, ReportedMeansReady, Reported
  <1>10. QED BY <1>1, <1>2, <1>3, <1>4, <1>5, <1>6, <1>7, <1>8, <1>9 DEF Inv

\* A session is accepted where the key id has no live record.
LEMMA AcceptStep ==
    ASSUME Inv, NEW s \in Session, NEW p \in Parties[s], Accept(s, p)
    PROVE  Inv'
  <1> p \in Party
    BY PartiesAssumption
  <1> USE DEF Accept, CheckAndSetKeyGen, SetKeyData, Goto, TypeOK, callVars
  <1>1. RoundsWereSent'
    BY RoundFrame
  <1>2. TypeOK'
    BY DEF Inv, Handlers, KeyStatus
  <1>3. OnlyParties'
    BY DEF Inv, OnlyParties
  <1>4. BeforePrepare'
    BY DEF Inv, BeforePrepare, Acknowledged, Reported
  <1>5. ReadyMeansAccepted'
    BY DEF Inv, ReadyMeansAccepted, Acknowledged, BeforePrepare
  <1>6. AfterStart'
    BY DEF Inv, AfterStart, Started
  <1>7. HandlerOwnsRecord'
    BY DEF Inv, HandlerOwnsRecord
  <1>8. ReportedMeansReady'
    BY DEF Inv, ReportedMeansReady, Reported, BeforePrepare
  <1>9. AllContributed'
    BY DEF Inv, AllContributed
  <1>10. OneLiveRecord'
    <2>1. ASSUME NEW t \in Session, KeyOf[t] = KeyOf[s] PROVE ~Live(p, t)
      BY <2>1 DEF KeyTaken, KeyDataList, Live
    <2>2. status' = [status EXCEPT ![p][s] = "pending"]
      OBVIOUS
    <2>3. QED BY <2>1, <2>2 DEF Inv, OneLiveRecord, Live
  <1>11. NoSplit'
    BY DEF Inv, NoSplit, Contributes, Registry!Rivals, Started,
       ReadyMeansAccepted, Acknowledged, BeforePrepare
  <1>12. QED BY <1>1, <1>2, <1>3, <1>4, <1>5, <1>6, <1>7, <1>8, <1>9, <1>10,
             <1>11 DEF Inv

\* A refused session leaves no record.
LEMMA RefuseStep ==
    ASSUME Inv, NEW s \in Session, NEW p \in Parties[s], Refuse(s, p)
    PROVE  Inv'
  <1> p \in Party
    BY PartiesAssumption
  <1> USE DEF Refuse, Goto, TypeOK, callVars
  <1>1. AllContributed' /\ OneLiveRecord' /\ NoSplit'
    BY RecordFrame
  <1>2. RoundsWereSent'
    BY RoundFrame
  <1>3. TypeOK'
    BY DEF Inv, Handlers
  <1>4. OnlyParties'
    BY DEF Inv, OnlyParties
  <1>5. BeforePrepare'
    BY DEF Inv, BeforePrepare, Acknowledged, Reported
  <1>6. ReadyMeansAccepted'
    BY DEF Inv, ReadyMeansAccepted, Acknowledged, BeforePrepare
  <1>7. AfterStart'
    BY DEF Inv, AfterStart, Started
  <1>8. HandlerOwnsRecord'
    BY DEF Inv, HandlerOwnsRecord
  <1>9. ReportedMeansReady'
    BY DEF Inv, ReportedMeansReady, Reported
  <1>10. QED BY <1>1, <1>2, <1>3, <1>4, <1>5, <1>6, <1>7, <1>8, <1>9 DEF Inv

\* Ready is sent by a party whose record is PENDING.
LEMMA SendReadyStep ==
    ASSUME Inv, NEW s \in Session, NEW p \in Parties[s], SendReady(s, p)
    PROVE  Inv'
  <1> p \in Party
    BY PartiesAssumption
  <1> USE DEF SendReady, Goto, TypeOK, callVars
  <1>1. AllContributed' /\ OneLiveRecord' /\ NoSplit'
    BY RecordFrame
  <1>2. RoundsWereSent'
    BY RoundFrame
  <1>3. TypeOK'
    BY DEF Inv, Handlers
  <1>4. OnlyParties'
    BY DEF Inv, OnlyParties
  <1>5. BeforePrepare'
    BY DEF Inv, BeforePrepare, Acknowledged, Reported
  <1>6. ReadyMeansAccepted'
    BY DEF Inv, ReadyMeansAccepted, Acknowledged, HandlerOwnsRecord
  <1>7. AfterStart'
    BY DEF Inv, AfterStart, Started
  <1>8. HandlerOwnsRecord'
    BY DEF Inv, HandlerOwnsRecord
  <1>9. ReportedMeansReady'
    BY DEF Inv, ReportedMeansReady, Reported
  <1>10. QED BY <1>1, <1>2, <1>3, <1>4, <1>5, <1>6, <1>7, <1>8, <1>9 DEF Inv

\* A party that cannot answer Ready gives up.
LEMMA ReadyFailsStep ==
    ASSUME Inv, NEW s \in Session, NEW p \in Parties[s], ReadyFails(s, p)
    PROVE  Inv'
  <1> p \in Party
    BY PartiesAssumption
  <1> USE DEF ReadyFails, Leave, Goto, TypeOK, callVars, streamVars
  <1>1. AllContributed' /\ OneLiveRecord' /\ NoSplit'
    BY RecordFrame
  <1>2. TypeOK'
    BY DEF Inv, Handlers
  <1>3. OnlyParties'
    BY DEF Inv, OnlyParties
  <1>4. BeforePrepare'
    BY DEF Inv, BeforePrepare, Acknowledged, Reported
  <1>5. ReadyMeansAccepted'
    BY DEF Inv, ReadyMeansAccepted, Acknowledged
  <1>6. AfterStart'
    BY DEF Inv, AfterStart, Started
  <1>7. HandlerOwnsRecord'
    BY DEF Inv, HandlerOwnsRecord
  <1>8. RoundsWereSent'
    BY DEF Inv, RoundsWereSent
  <1>9. ReportedMeansReady'
    BY DEF Inv, ReportedMeansReady, Reported
  <1>10. QED BY <1>1, <1>2, <1>3, <1>4, <1>5, <1>6, <1>7, <1>8, <1>9 DEF Inv

\* The event loop begins after all were ready.
LEMMA RecvStartStep ==
    ASSUME Inv, NEW s \in Session, NEW p \in Parties[s], RecvStart(s, p)
    PROVE  Inv'
  <1> p \in Party
    BY PartiesAssumption
  <1> USE DEF RecvStart, Goto, TypeOK, callVars
  <1>1. AllContributed' /\ OneLiveRecord' /\ NoSplit'
    BY RecordFrame
  <1>2. RoundsWereSent'
    BY RoundFrame
  <1>3. TypeOK'
    BY DEF Inv, Handlers
  <1>4. OnlyParties'
    BY DEF Inv, OnlyParties
  <1>5. BeforePrepare'
    BY DEF Inv, BeforePrepare, Acknowledged, Reported
  <1>6. ReadyMeansAccepted'
    BY DEF Inv, ReadyMeansAccepted, Acknowledged
  <1>7. AfterStart'
    BY DEF Inv, AfterStart, Started
  <1>8. HandlerOwnsRecord'
    BY DEF Inv, HandlerOwnsRecord
  <1>9. ReportedMeansReady'
    BY DEF Inv, ReportedMeansReady, Reported
  <1>10. QED BY <1>1, <1>2, <1>3, <1>4, <1>5, <1>6, <1>7, <1>8, <1>9 DEF Inv

\* A party whose stream ends before Start gives up.
LEMMA NoStartStep ==
    ASSUME Inv, NEW s \in Session, NEW p \in Parties[s], NoStart(s, p)
    PROVE  Inv'
  <1> p \in Party
    BY PartiesAssumption
  <1> USE DEF NoStart, Leave, Goto, TypeOK, callVars, streamVars
  <1>1. AllContributed' /\ OneLiveRecord' /\ NoSplit'
    BY RecordFrame
  <1>2. TypeOK'
    BY DEF Inv, Handlers
  <1>3. OnlyParties'
    BY DEF Inv, OnlyParties
  <1>4. BeforePrepare'
    BY DEF Inv, BeforePrepare, Acknowledged, Reported
  <1>5. ReadyMeansAccepted'
    BY DEF Inv, ReadyMeansAccepted, Acknowledged
  <1>6. AfterStart'
    BY DEF Inv, AfterStart, Started
  <1>7. HandlerOwnsRecord'
    BY DEF Inv, HandlerOwnsRecord
  <1>8. RoundsWereSent'
    BY DEF Inv, RoundsWereSent
  <1>9. ReportedMeansReady'
    BY DEF Inv, ReportedMeansReady, Reported
  <1>10. QED BY <1>1, <1>2, <1>3, <1>4, <1>5, <1>6, <1>7, <1>8, <1>9 DEF Inv

\* A round is emitted by a party that still has its record PENDING, so that it
\* contributed before too.
LEMMA SendRoundStep ==
    ASSUME Inv, NEW s \in Session, NEW p \in Parties[s], SendRound(s, p)
    PROVE  Inv'
  <1> p \in Party
    BY PartiesAssumption
  <1> USE DEF SendRound, HasOutput, MoreRounds, TypeOK, callVars, streamVars,
          Others
  <1>1. HandlerOwnsRecord'
    BY HandlerFrame
  <1>2. TypeOK'
    <2>1. round[s][p] + 1 \in 0..Rounds
      BY DEF Inv
    <2>2. Sent(s, p, Others(s, p), round[s][p] + 1) \subseteq SessionMsg
      BY <2>1, SentType
    <2>3. QED BY <2>1, <2>2 DEF Inv
  <1>3. OnlyParties'
    BY DEF Inv, OnlyParties, Sent
  <1>4. BeforePrepare'
    BY DEF Inv, BeforePrepare, Acknowledged, Reported
  <1>5. ReadyMeansAccepted'
    BY DEF Inv, ReadyMeansAccepted, Acknowledged
  <1>6. AfterStart'
    BY DEF Inv, AfterStart, Started
  <1>7. RoundsWereSent'
    <2>1. \A t \in Session : \A q \in Party : round'[t][q] >= round[t][q]
      BY DEF Inv
    <2>2. \A m \in net' : m.kind > 0 => round'[m.sess][m.from] >= m.kind
      <3>1. ASSUME NEW m \in net, m.kind > 0
            PROVE  round'[m.sess][m.from] >= m.kind
        BY <2>1, <3>1 DEF Inv, RoundsWereSent, SessionMsg
      <3>2. ASSUME NEW m \in Sent(s, p, Others(s, p), round[s][p] + 1)
            PROVE  round'[m.sess][m.from] >= m.kind
        BY <3>2 DEF Inv, Sent
      <3>3. QED BY <3>1, <3>2
    <2>3. ASSUME NEW t \in Session, NEW q \in Party, NEW u \in Party,
                 NEW r \in 1..Rounds, <<r, u>> \in got'[t][q]
          PROVE  round'[t][u] >= r
      <3>1. round[t][u] >= r /\ round'[t][u] >= round[t][u]
        BY <2>1, <2>3 DEF Inv, RoundsWereSent
      <3>2. round[t][u] \in Nat /\ round'[t][u] \in Nat
        BY DEF Inv
      <3>3. QED BY <3>1, <3>2
    <2>4. QED BY <2>2, <2>3 DEF RoundsWereSent
  <1>8. ReportedMeansReady'
    BY DEF Inv, ReportedMeansReady, Reported
  <1>9. AllContributed'
    BY DEF Inv, AllContributed
  <1>10. OneLiveRecord'
    BY DEF Inv, OneLiveRecord, Live
  <1>11. NoSplit'
    BY DEF Inv, NoSplit, Contributes, Registry!Rivals, Started,
       HandlerOwnsRecord
  <1>12. QED BY <1>1, <1>2, <1>3, <1>4, <1>5, <1>6, <1>7, <1>8, <1>9, <1>10,
             <1>11 DEF Inv

\* The same holds when only some peers get the round.
LEMMA SendRoundFailsStep ==
    ASSUME Inv, NEW s \in Session, NEW p \in Parties[s], SendRoundFails(s, p)
    PROVE  Inv'
  <1> p \in Party
    BY PartiesAssumption
  <1> USE DEF SendRoundFails, HasOutput, MoreRounds, Leave, Goto, TypeOK,
          callVars, streamVars, Others
  <1>1. TypeOK'
    BY SentType DEF Inv, Handlers
  <1>2. OnlyParties'
    BY DEF Inv, OnlyParties, Sent
  <1>3. BeforePrepare'
    BY DEF Inv, BeforePrepare, Acknowledged, Reported
  <1>4. ReadyMeansAccepted'
    BY DEF Inv, ReadyMeansAccepted, Acknowledged
  <1>5. AfterStart'
    BY DEF Inv, AfterStart, Started
  <1>6. HandlerOwnsRecord'
    BY DEF Inv, HandlerOwnsRecord
  <1>7. RoundsWereSent'
    <2>1. \A t \in Session : \A q \in Party : round'[t][q] >= round[t][q]
      BY DEF Inv
    <2>2. \A m \in net' : m.kind > 0 => round'[m.sess][m.from] >= m.kind
      <3>1. PICK To \in SUBSET Party :
               net' \subseteq net \cup Sent(s, p, To, round[s][p] + 1)
        <4>1. PICK To \in SUBSET {q \in Others(s, p) : Listening(s, q)} :
                 Leave(s, p, "failed", net \cup Sent(s, p, To, round[s][p] + 1))
          OBVIOUS
        <4>2. To \in SUBSET Party
          BY <4>1, PartiesAssumption
        <4>3. QED BY <4>1, <4>2
      <3>2. ASSUME NEW m \in net, m.kind > 0
            PROVE  round'[m.sess][m.from] >= m.kind
        BY <2>1, <3>2 DEF Inv, RoundsWereSent, SessionMsg
      <3>3. ASSUME NEW m \in Sent(s, p, To, round[s][p] + 1)
            PROVE  round'[m.sess][m.from] >= m.kind
        BY <3>3 DEF Inv, Sent
      <3>4. QED BY <3>1, <3>2, <3>3
    <2>3. \A t \in Session : \A q \in Party : got'[t][q] \subseteq got[t][q]
      BY DEF Inv
    <2>4. QED BY <2>1, <2>2, <2>3 DEF Inv, RoundsWereSent
  <1>8. ReportedMeansReady'
    BY DEF Inv, ReportedMeansReady, Reported
  <1>9. AllContributed'
    BY DEF Inv, AllContributed
  <1>10. OneLiveRecord'
    BY DEF Inv, OneLiveRecord, Live
  <1>11. NoSplit'
    BY DEF Inv, NoSplit, Contributes, Registry!Rivals, Started,
       HandlerOwnsRecord
  <1>12. QED BY <1>1, <1>2, <1>3, <1>4, <1>5, <1>6, <1>7, <1>8, <1>9, <1>10,
             <1>11 DEF Inv

\* A message read was sent.
LEMMA RecvUpdateStep ==
    ASSUME Inv, NEW s \in Session, NEW p \in Parties[s], RecvUpdate(s, p)
    PROVE  Inv'
  <1> p \in Party
    BY PartiesAssumption
  <1> USE DEF RecvUpdate, TypeOK, callVars, streamVars
  <1>1. AllContributed' /\ OneLiveRecord' /\ NoSplit'
    BY RecordFrame
  <1>2. HandlerOwnsRecord'
    BY HandlerFrame
  <1>3. TypeOK'
    BY DEF Inv, SessionMsg
  <1>4. OnlyParties'
    BY DEF Inv, OnlyParties
  <1>5. BeforePrepare'
    BY DEF Inv, BeforePrepare, Acknowledged, Reported
  <1>6. ReadyMeansAccepted'
    BY DEF Inv, ReadyMeansAccepted, Acknowledged
  <1>7. AfterStart'
    BY DEF Inv, AfterStart, Started
  <1>8. RoundsWereSent'
    <2>1. PICK m \in net : /\ m.sess = s /\ m.to = p /\ m.kind > 0
                            /\ net' = net \ {m}
                            /\ got' = [got EXCEPT ![s][p] = @ \cup {<<m.kind, m.from>>}]
      OBVIOUS
    <2>2. m.from \in Party /\ m.kind \in 0..Rounds /\ round[s][m.from] >= m.kind
      BY <2>1 DEF Inv, RoundsWereSent, SessionMsg
    <2>3. UNCHANGED round
      BY DEF partyVars
    <2>4. \A n \in net' : n.kind > 0 => round'[n.sess][n.from] >= n.kind
      BY <2>1, <2>3 DEF Inv, RoundsWereSent
    <2>5. ASSUME NEW t \in Session, NEW q \in Party, NEW o \in Party, NEW r \in 1..Rounds,
                 <<r, o>> \in got'[t][q]
          PROVE  round'[t][o] >= r
      <3>1. CASE <<r, o>> \in got[t][q]
        BY <2>3, <2>5, <3>1 DEF Inv, RoundsWereSent
      <3>2. CASE <<r, o>> \notin got[t][q]
        <4>1. t = s /\ r = m.kind /\ o = m.from
          BY <2>1, <2>5, <3>2 DEF Inv
        <4>2. QED BY <2>2, <2>3, <4>1
      <3>3. QED BY <3>1, <3>2
    <2>6. QED BY <2>4, <2>5 DEF RoundsWereSent
  <1>9. ReportedMeansReady'
    BY DEF Inv, ReportedMeansReady, Reported
  <1>10. QED BY <1>1, <1>2, <1>3, <1>4, <1>5, <1>6, <1>7, <1>8, <1>9 DEF Inv

\* A failed peer fails the record.
LEMMA RecvErrorStep ==
    ASSUME Inv, NEW s \in Session, NEW p \in Parties[s], RecvError(s, p)
    PROVE  Inv'
  <1> p \in Party
    BY PartiesAssumption
  <1> USE DEF RecvError, CompareAndSetKeyStatus, SetKeyData, Reply, Leave,
          Goto, TypeOK, callVars
  <1>1. TypeOK'
    BY DEF Inv, Handlers, KeyStatus
  <1>2. OnlyParties'
    BY DEF Inv, OnlyParties
  <1>3. BeforePrepare'
    BY DEF Inv, BeforePrepare, Acknowledged, Reported
  <1>4. ReadyMeansAccepted'
    BY DEF Inv, ReadyMeansAccepted, Acknowledged
  <1>5. AfterStart'
    BY DEF Inv, AfterStart, Started
  <1>6. HandlerOwnsRecord'
    BY DEF Inv, HandlerOwnsRecord
  <1>7. RoundsWereSent'
    BY DEF Inv, RoundsWereSent
  <1>8. ReportedMeansReady'
    BY DEF Inv, ReportedMeansReady, Reported
  <1>9. AllContributed'
    BY DEF Inv, AllContributed
  <1>10. OneLiveRecord'
    BY DEF Inv, OneLiveRecord, Live
  <1>11. NoSplit'
    BY DEF Inv, NoSplit, Contributes, Registry!Rivals, Started
  <1>12. QED BY <1>1, <1>2, <1>3, <1>4, <1>5, <1>6, <1>7, <1>8, <1>9, <1>10,
             <1>11 DEF Inv

\* A key is stored only after every party has emitted every round.
LEMMA CompleteStep ==
    ASSUME Inv, NEW s \in Session, NEW p \in Parties[s], Complete(s, p)
    PROVE  Inv'
  <1> p \in Party
    BY PartiesAssumption
  <1> USE DEF Complete, CompareAndSetKeyStatus, SetKeyData, Reply, Leave,
          Goto, TypeOK, callVars
  <1>1. TypeOK'
    BY DEF Inv, Handlers, KeyStatus
  <1>2. OnlyParties'
    BY DEF Inv, OnlyParties
  <1>3. BeforePrepare'
    BY DEF Inv, BeforePrepare, Acknowledged, Reported
  <1>4. ReadyMeansAccepted'
    BY DEF Inv, ReadyMeansAccepted, Acknowledged
  <1>5. AfterStart'
    BY DEF Inv, AfterStart, Started
  <1>6. HandlerOwnsRecord'
    BY DEF Inv, HandlerOwnsRecord
  <1>7. RoundsWereSent'
    BY DEF Inv, RoundsWereSent
  <1>8. ReportedMeansReady'
    BY DEF Inv, ReportedMeansReady, Reported
  <1>9. AllContributed'
    <2>1. \A q \in Parties[s] : round[s][q] = Rounds
      <3>1. ASSUME NEW q \in Parties[s] \ {p} PROVE round[s][q] = Rounds
        <4>1. q \in Party /\ <<Rounds, q>> \in got[s][p] /\ Rounds \in 1..Rounds
          BY PartiesAssumption, RoundsAssumption DEF HasRound, Others
        <4>2. round[s][q] >= Rounds /\ round[s][q] \in 0..Rounds
          BY <4>1 DEF Inv, RoundsWereSent
        <4>3. QED BY <4>2, RoundsAssumption
      <3>2. QED BY <3>1
    <2>2. ASSUME NEW t \in Session, NEW q \in Party, status'[q][t] = "ready"
          PROVE  (t = s /\ q = p) \/ status[q][t] = "ready"
      BY <2>2 DEF Inv
    <2>3. QED BY <2>1, <2>2 DEF Inv, AllContributed
  <1>10. OneLiveRecord'
    BY DEF Inv, OneLiveRecord, Live
  <1>11. NoSplit'
    <2>1. status' = [status EXCEPT ![p][s] = "ready"] /\ status[p][s] = "pending"
      BY DEF Inv, HandlerOwnsRecord
    <2>2. \A q \in Party : \A t \in Session : Contributes(q, t)' => Contributes(q, t)
      BY <2>1 DEF Inv, Contributes
    <2>3. \A q \in Party : \A t \in Session :
             status[q][t] = "error" => status'[q][t] = "error"
      BY <2>1 DEF Inv
    <2>4. QED BY <2>2, <2>3 DEF Inv, NoSplit, Started, Registry!Rivals
  <1>12. QED BY <1>1, <1>2, <1>3, <1>4, <1>5, <1>6, <1>7, <1>8, <1>9, <1>10,
             <1>11 DEF Inv

\* A deadline ends the event loop.
LEMMA DeadlineStep ==
    ASSUME Inv, NEW s \in Session, NEW p \in Parties[s], Deadline(s, p)
    PROVE  Inv'
  <1> p \in Party
    BY PartiesAssumption
  <1> USE DEF Deadline, Leave, Goto, TypeOK, callVars, streamVars
  <1>1. AllContributed' /\ OneLiveRecord' /\ NoSplit'
    BY RecordFrame
  <1>2. TypeOK'
    BY DEF Inv, Handlers
  <1>3. OnlyParties'
    BY DEF Inv, OnlyParties
  <1>4. BeforePrepare'
    BY DEF Inv, BeforePrepare, Acknowledged, Reported
  <1>5. ReadyMeansAccepted'
    BY DEF Inv, ReadyMeansAccepted, Acknowledged
  <1>6. AfterStart'
    BY DEF Inv, AfterStart, Started
  <1>7. HandlerOwnsRecord'
    BY DEF Inv, HandlerOwnsRecord
  <1>8. RoundsWereSent'
    BY DEF Inv, RoundsWereSent
  <1>9. ReportedMeansReady'
    BY DEF Inv, ReportedMeansReady, Reported
  <1>10. QED BY <1>1, <1>2, <1>3, <1>4, <1>5, <1>6, <1>7, <1>8, <1>9 DEF Inv

\* An error of tss-lib ends the event loop.
LEMMA TssErrorStep ==
    ASSUME Inv, NEW s \in Session, NEW p \in Parties[s], TssError(s, p)
    PROVE  Inv'
  <1> p \in Party
    BY PartiesAssumption
  <1> USE DEF TssError, Leave, Goto, TypeOK, callVars, streamVars
  <1>1. AllContributed' /\ OneLiveRecord' /\ NoSplit'
    BY RecordFrame
  <1>2. TypeOK'
    BY DEF Inv, Handlers
  <1>3. OnlyParties'
    BY DEF Inv, OnlyParties
  <1>4. BeforePrepare'
    BY DEF Inv, BeforePrepare, Acknowledged, Reported
  <1>5. ReadyMeansAccepted'
    BY DEF Inv, ReadyMeansAccepted, Acknowledged
  <1>6. AfterStart'
    BY DEF Inv, AfterStart, Started
  <1>7. HandlerOwnsRecord'
    BY DEF Inv, HandlerOwnsRecord
  <1>8. RoundsWereSent'
    BY DEF Inv, RoundsWereSent
  <1>9. ReportedMeansReady'
    BY DEF Inv, ReportedMeansReady, Reported
  <1>10. QED BY <1>1, <1>2, <1>3, <1>4, <1>5, <1>6, <1>7, <1>8, <1>9 DEF Inv

\* A failed handler fails its record, and no other.
LEMMA MarkErrorStep ==
    ASSUME Inv, NEW s \in Session, NEW p \in Parties[s], MarkError(s, p)
    PROVE  Inv'
  <1> p \in Party
    BY PartiesAssumption
  <1> USE DEF MarkError, CompareAndSetKeyStatus, SetKeyData, Goto, TypeOK,
          callVars, streamVars
  <1>1. RoundsWereSent'
    BY RoundFrame
  <1>2. TypeOK'
    BY DEF Inv, Handlers, KeyStatus
  <1>3. OnlyParties'
    BY DEF Inv, OnlyParties
  <1>4. BeforePrepare'
    BY DEF Inv, BeforePrepare, Acknowledged, Reported
  <1>5. ReadyMeansAccepted'
    BY DEF Inv, ReadyMeansAccepted, Acknowledged
  <1>6. AfterStart'
    BY DEF Inv, AfterStart, Started
  <1>7. HandlerOwnsRecord'
    BY DEF Inv, HandlerOwnsRecord
  <1>8. ReportedMeansReady'
    BY DEF Inv, ReportedMeansReady, Reported
  <1>9. AllContributed'
    BY DEF Inv, AllContributed
  <1>10. OneLiveRecord'
    BY DEF Inv, OneLiveRecord, Live
  <1>11. NoSplit'
    BY DEF Inv, NoSplit, Contributes, Registry!Rivals, Started
  <1>12. QED BY <1>1, <1>2, <1>3, <1>4, <1>5, <1>6, <1>7, <1>8, <1>9, <1>10,
             <1>11 DEF Inv

\* Peers and coordinator learn of the failure.
LEMMA NotifyStep ==
    ASSUME Inv, NEW s \in Session, NEW p \in Parties[s], Notify(s, p)
    PROVE  Inv'
  <1> p \in Party
    BY PartiesAssumption
  <1> USE DEF Notify, Inform, Reply, Goto, TypeOK, callVars
  <1>1. AllContributed' /\ OneLiveRecord' /\ NoSplit'
    BY RecordFrame
  <1>2. TypeOK'
    BY SentType DEF Inv, Handlers, Others
  <1>3. OnlyParties'
    BY DEF Inv, OnlyParties, Sent, Others
  <1>4. BeforePrepare'
    BY DEF Inv, BeforePrepare, Acknowledged, Reported
  <1>5. ReadyMeansAccepted'
    BY DEF Inv, ReadyMeansAccepted, Acknowledged
  <1>6. AfterStart'
    BY DEF Inv, AfterStart, Started
  <1>7. HandlerOwnsRecord'
    BY DEF Inv, HandlerOwnsRecord
  <1>8. RoundsWereSent'
    <2>1. PICK To \in SUBSET Party : net' = net \cup Sent(s, p, To, 0)
      BY DEF Others
    <2>2. \A m \in Sent(s, p, To, 0) : m.kind = 0
      BY DEF Sent
    <2>3. QED BY <2>1, <2>2 DEF Inv, RoundsWereSent
  <1>9. ReportedMeansReady'
    BY DEF Inv, ReportedMeansReady, Reported
  <1>10. QED BY <1>1, <1>2, <1>3, <1>4, <1>5, <1>6, <1>7, <1>8, <1>9 DEF Inv

\* What is lost with a connection is lost for both ends.
LEMMA ResetStep ==
    ASSUME Inv, NEW s \in Session, NEW p \in Parties[s], Reset(s, p)
    PROVE  Inv'
  <1> p \in Party
    BY PartiesAssumption
  <1> USE DEF Reset, TypeOK, callVars, partyVars
  <1>1. AllContributed' /\ OneLiveRecord' /\ NoSplit'
    BY RecordFrame
  <1>2. RoundsWereSent'
    BY RoundFrame
  <1>3. HandlerOwnsRecord'
    BY HandlerFrame
  <1>4. TypeOK'
    BY DEF Inv
  <1>5. OnlyParties'
    BY DEF Inv, OnlyParties
  <1>6. BeforePrepare'
    BY DEF Inv, BeforePrepare, Acknowledged, Reported
  <1>7. ReadyMeansAccepted'
    BY DEF Inv, ReadyMeansAccepted, Acknowledged
  <1>8. AfterStart'
    BY DEF Inv, AfterStart, Started
  <1>9. ReportedMeansReady'
    BY DEF Inv, ReportedMeansReady, Reported
  <1>10. QED BY <1>1, <1>2, <1>3, <1>4, <1>5, <1>6, <1>7, <1>8, <1>9 DEF Inv

\* A lost message was not read.
LEMMA LoseStep ==
    ASSUME Inv, NEW m \in net, Lose(m)
    PROVE  Inv'
  <1> USE DEF Lose, TypeOK, callVars, streamVars, partyVars
  <1>1. AllContributed' /\ OneLiveRecord' /\ NoSplit'
    BY RecordFrame
  <1>2. HandlerOwnsRecord'
    BY HandlerFrame
  <1>3. TypeOK'
    BY DEF Inv
  <1>4. OnlyParties'
    BY DEF Inv, OnlyParties
  <1>5. BeforePrepare'
    BY DEF Inv, BeforePrepare, Acknowledged, Reported
  <1>6. ReadyMeansAccepted'
    BY DEF Inv, ReadyMeansAccepted, Acknowledged
  <1>7. AfterStart'
    BY DEF Inv, AfterStart, Started
  <1>8. RoundsWereSent'
    BY DEF Inv, RoundsWereSent
  <1>9. ReportedMeansReady'
    BY DEF Inv, ReportedMeansReady, Reported
  <1>10. QED BY <1>1, <1>2, <1>3, <1>4, <1>5, <1>6, <1>7, <1>8, <1>9 DEF Inv

-----------------------------------------------------------------------------
(* The invariant.                                                          *)

\* At start no server has done anything.
LEMMA InitInv == Init => Inv
  <1> SUFFICES ASSUME Init PROVE Inv
    OBVIOUS
  <1> USE DEF Init
  <1>1. TypeOK
    BY RoundsAssumption DEF TypeOK, Workers, Handlers, KeyStatus
  <1>2. OnlyParties
    BY DEF OnlyParties
  <1>3. BeforePrepare /\ ReadyMeansAccepted
    BY DEF BeforePrepare, ReadyMeansAccepted, Acknowledged, Reported
  <1>4. AfterStart /\ HandlerOwnsRecord
    BY DEF AfterStart, HandlerOwnsRecord
  <1>5. RoundsWereSent /\ ReportedMeansReady
    BY DEF RoundsWereSent, ReportedMeansReady, Reported
  <1>6. AllContributed /\ OneLiveRecord
    BY PartiesAssumption DEF AllContributed, OneLiveRecord, Live
  <1>7. NoSplit
    BY RoundsAssumption DEF NoSplit, Contributes
  <1>8. QED BY <1>1, <1>2, <1>3, <1>4, <1>5, <1>6, <1>7 DEF Inv

\* Every step of the program preserves the invariant.
LEMMA StepInv == Inv /\ [Next]_vars => Inv'
  <1> SUFFICES ASSUME Inv, [Next]_vars PROVE Inv'
    OBVIOUS
  <1>1. CASE UNCHANGED vars
    <2> USE <1>1 DEF vars, callVars, streamVars, partyVars
    <2>1. TypeOK'
      BY DEF Inv, TypeOK
    <2>2. OnlyParties' /\ ReadyMeansAccepted'
      BY DEF Inv, OnlyParties, ReadyMeansAccepted, Acknowledged
    <2>3. BeforePrepare'
      BY DEF Inv, BeforePrepare, Acknowledged, Reported
    <2>4. AfterStart' /\ ReportedMeansReady'
      BY DEF Inv, AfterStart, Started, ReportedMeansReady, Reported
    <2>5. QED
      BY <2>1, <2>2, <2>3, <2>4, RecordFrame, RoundFrame, HandlerFrame DEF Inv
  <1>2. ASSUME NEW s \in Session, Call(s) PROVE Inv'
    BY <1>2, TakeReadyStep, TakeLastReadyStep, TakeFailureStep,
       TakeSuccessStep, TakeLastSuccessStep, TakeErrorStep DEF Call
  <1>3. ASSUME NEW s \in Session, NEW p \in Parties[s], Worker(s, p) PROVE Inv'
    <2>1. CASE SendStartPanics(s, p)
      BY <2>1, PartiesAssumption, ProcessDiesStep DEF SendStartPanics
    <2>2. QED
      BY <1>3, <2>1, SendPrepareStep, DialFailsStep, RecvReplyStep,
         SendStartStep, SendStartFailsStep, RecvFinishStep DEF Worker
  <1>4. ASSUME NEW s \in Session, NEW p \in Parties[s], Handler(s, p) PROVE Inv'
    <2>1. CASE StartPanics(s, p)
      BY <2>1, PartiesAssumption, ProcessDiesStep DEF StartPanics
    <2>2. QED
      BY <1>4, <2>1, AcceptStep, RefuseStep, SendReadyStep, ReadyFailsStep,
         RecvStartStep, NoStartStep, SendRoundStep, SendRoundFailsStep,
         RecvUpdateStep, RecvErrorStep, CompleteStep, MarkErrorStep,
         NotifyStep DEF Handler
  <1>5. ASSUME NEW p \in Party, Crash(p) PROVE Inv'
    BY <1>5, ProcessDiesStep DEF Crash
  <1>6. QED
    BY <1>1, <1>2, <1>3, <1>4, <1>5, KeyGenStep, CtxDoneStep, DeadlineStep,
       TssErrorStep, ResetStep, LoseStep DEF Next

\* Inv holds in every state the program can reach.
THEOREM Invariance == Spec => []Inv
  <1>1. Init => Inv
    BY InitInv
  <1>2. Inv /\ [Next]_vars => Inv'
    BY StepInv
  <1>3. QED BY <1>1, <1>2, PTL DEF Spec

-----------------------------------------------------------------------------
(* The properties.                                                         *)

\* All variables keep their types.
THEOREM TypeCorrect == Spec => []TypeOK
  <1>1. Inv => TypeOK
    BY DEF Inv
  <1>2. QED BY <1>1, Invariance, PTL

\* A server has at most one session of a key id that is PENDING or READY.
THEOREM Exclusion == Spec => []OneLiveRecord
  <1>1. Inv => OneLiveRecord
    BY DEF Inv
  <1>2. QED BY <1>1, Invariance, PTL

\* A READY record is a share of a key all parties have contributed to.
THEOREM Contribution == Spec => []AllContributed
  <1>1. Inv => AllContributed
    BY DEF Inv
  <1>2. QED BY <1>1, Invariance, PTL

\* A session with a READY record has started.
LEMMA ReadyStarted ==
    ASSUME Inv, NEW s \in Session, NEW p \in Parties[s], status[p][s] = "ready"
    PROVE  Started(s) /\ \A q \in Parties[s] : Contributes(q, s)
  <1>1. \A q \in Parties[s] : round[s][q] = Rounds
    BY DEF Inv, AllContributed
  <1>2. Started(s)
    BY <1>1, PartiesAssumption, RoundsAssumption DEF Inv, AfterStart
  <1>3. QED BY <1>1, <1>2 DEF Contributes

\* NoSplit leaves no room for two rival READY keys.
LEMMA InvAgreement == Inv => KeyAgreement
  <1> SUFFICES ASSUME Inv, NEW p \in Party, NEW q \in Party,
                      NEW s \in Session, NEW t \in Session,
                      Registry!Rivals(p, s, q, t),
                      status[p][s] = "ready", status[q][t] = "ready"
               PROVE  FALSE
    BY DEF KeyAgreement
  <1>1. p \in Parties[s] /\ q \in Parties[s] /\ p \in Parties[t] /\ q \in Parties[t]
    BY DEF Registry!Rivals
  <1>2. Started(s) /\ Contributes(p, s) /\ Contributes(q, s)
    BY <1>1, ReadyStarted
  <1>3. Started(t) /\ Contributes(p, t) /\ Contributes(q, t)
    BY <1>1, ReadyStarted
  <1>4. \E u \in {s, t} : status[p][u] = "error" /\ status[q][u] = "error"
    BY <1>2, <1>3 DEF Inv, NoSplit
  <1>5. QED BY <1>4

\* Servers that take part in the same requests agree on the key of a key id.
THEOREM Agreement == Spec => []KeyAgreement
  BY InvAgreement, Invariance, PTL

\* A call that returned a key has it stored at every party.
THEOREM Success == Spec => []SuccessMeansReady
  <1>1. Inv => SuccessMeansReady
    BY PartiesAssumption DEF Inv, ReportedMeansReady, Reported, SuccessMeansReady
  <1>2. QED BY <1>1, Invariance, PTL

\* No party dials its peers before they all listen.
THEOREM Barrier == Spec => []StartBarrier
  <1>1. Inv => StartBarrier
    <2> SUFFICES ASSUME Inv, NEW s \in Session, NEW p \in Parties[s],
                        handler[s][p] = "loop", NEW q \in Parties[s]
                 PROVE  handler[s][q] \notin {"none", "validate"}
      BY DEF StartBarrier
    <2>1. Started(s)
      BY PartiesAssumption DEF Inv, AfterStart
    <2>2. Acknowledged(s, q)
      BY <2>1 DEF Started, Acknowledged
    <2>3. QED
      BY <2>2, PartiesAssumption DEF Inv, ReadyMeansAccepted
  <1>2. QED BY <1>1, Invariance, PTL

-----------------------------------------------------------------------------
(* The protocol implements the registry.                                   *)

\* A record changes only in four actions, and in each as the registry allows.
LEMMA StepRefines ==
    ASSUME Inv, KeyAgreement', [Next]_vars
    PROVE  [Registry!Next]_status
  <1>1. ASSUME NEW s \in Session, NEW p \in Parties[s], Accept(s, p)
        PROVE  Registry!Accept(p, s)
    BY <1>1, PartiesAssumption DEF Accept, CheckAndSetKeyGen, KeyTaken, KeyDataList, Live,
       SetKeyData, Registry!Accept, Registry!CheckAndSetKeyGen,
       Registry!KeyTaken, Registry!KeyDataList, Registry!Live, Registry!SetKeyData
  <1>2. ASSUME NEW s \in Session, NEW p \in Parties[s], Complete(s, p)
        PROVE  Registry!Publish(p, s)
    <2>1. status[p][s] = "pending" /\ Started(s)
      BY <1>2, PartiesAssumption DEF Complete, Inv, HandlerOwnsRecord, AfterStart
    <2>2. status' = [status EXCEPT ![p][s] = "ready"]
      BY <1>2, <2>1 DEF Complete, CompareAndSetKeyStatus, SetKeyData
    <2>3. \A q \in Parties[s] : status[q][s] # "none"
      BY <2>1, PartiesAssumption DEF Inv, ReadyMeansAccepted, Acknowledged, Started
    <2>4. ASSUME NEW q \in Party, NEW t \in Session, Registry!Rivals(p, s, q, t)
          PROVE  status[q][t] # "ready"
      <3>1. status'[p][s] = "ready" /\ status'[q][t] = status[q][t]
        BY <2>2, <2>4, PartiesAssumption DEF Inv, TypeOK, Registry!Rivals
      <3>2. QED BY <2>4, <3>1, PartiesAssumption DEF KeyAgreement, Registry!Rivals
    <2>5. QED BY <2>1, <2>2, <2>3, <2>4 DEF Registry!Publish, Registry!SetKeyData
  <1>3. ASSUME NEW s \in Session, NEW p \in Parties[s],
               CompareAndSetKeyStatus(p, s, "pending", "error")
        PROVE  Registry!Abandon(p, s) \/ UNCHANGED status
    <2>1. CASE status[p][s] = "pending"
      BY <1>3, <2>1 DEF CompareAndSetKeyStatus, SetKeyData, Registry!Abandon,
         Registry!SetKeyData
    <2>2. CASE status[p][s] # "pending"
      BY <1>3, <2>2, PartiesAssumption DEF CompareAndSetKeyStatus, SetKeyData, Inv, TypeOK
    <2>3. QED BY <2>1, <2>2
  <1>4. ASSUME NEW s \in Session, NEW p \in Parties[s], RecvError(s, p) \/ MarkError(s, p)
        PROVE  Registry!Abandon(p, s) \/ UNCHANGED status
    BY <1>3, <1>4 DEF RecvError, MarkError
  <1>5. \/ UNCHANGED status
        \/ \E s \in Session : \E p \in Parties[s] :
              Accept(s, p) \/ Complete(s, p) \/ RecvError(s, p) \/ MarkError(s, p)
    <2>1. CASE UNCHANGED vars
      BY <2>1 DEF vars
    <2>2. ASSUME NEW s \in Session, KeyGen(s) \/ CtxDone(s) \/ Call(s)
          PROVE  UNCHANGED status
      BY <2>2 DEF KeyGen, CtxDone, Call, TakeReady, TakeLastReady,
         TakeFailure, TakeSuccess, TakeLastSuccess, TakeError
    <2>3. ASSUME NEW s \in Session, NEW p \in Parties[s], Worker(s, p)
          PROVE  UNCHANGED status
      BY <2>3 DEF Worker, SendPrepare, DialFails, RecvReply, SendStart,
         SendStartFails, SendStartPanics, RecvFinish, ProcessDies
    <2>4. ASSUME NEW s \in Session, NEW p \in Parties[s], Handler(s, p)
          PROVE  UNCHANGED status \/ Accept(s, p) \/ Complete(s, p)
                    \/ RecvError(s, p) \/ MarkError(s, p)
      BY <2>4 DEF Handler, Refuse, SendReady, ReadyFails, RecvStart, NoStart,
         StartPanics, SendRound, SendRoundFails, RecvUpdate, Notify,
         ProcessDies
    <2>5. ASSUME NEW s \in Session, NEW p \in Parties[s],
                 Deadline(s, p) \/ TssError(s, p) \/ Reset(s, p)
          PROVE  UNCHANGED status
      BY <2>5 DEF Deadline, TssError, Reset
    <2>6. ASSUME NEW m, Lose(m) PROVE UNCHANGED status
      BY <2>6 DEF Lose
    <2>7. ASSUME NEW p \in Party, Crash(p) PROVE UNCHANGED status
      BY <2>7 DEF Crash, ProcessDies
    <2>8. QED
      BY <2>1, <2>2, <2>3, <2>4, <2>5, <2>6, <2>7 DEF Next
  <1>6. QED
    BY <1>1, <1>2, <1>4, <1>5, PartiesAssumption DEF Registry!Next

\* Key generation, with its messages and faults, implements the registry.
THEOREM Refinement == Spec => ImplementsRegistry
  <1>1. Init => Registry!Init
    BY DEF Init, Registry!Init
  <1>2. Inv /\ KeyAgreement' /\ [Next]_vars => [Registry!Next]_status
    BY StepRefines
  <1>3. QED
    BY <1>1, <1>2, Invariance, Agreement, PTL DEF Spec, ImplementsRegistry, Registry!Spec
=============================================================================
