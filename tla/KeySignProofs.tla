--------------------------- MODULE KeySignProofs ---------------------------
(***************************************************************************)
(* Proofs about KeySign.tla for every set of parties and holders of        *)
(* shares, every threshold, number of rounds and set of faults: the        *)
(* invariant Inv, the safety properties that follow from it, and the       *)
(* refinement of ThresholdSign.tla.                                        *)
(***************************************************************************)
EXTENDS KeySignInv, FiniteSetTheorems, TLAPS

USE PartyAssumption, CoordAssumption, RoundsAssumption

-----------------------------------------------------------------------------
(* Conjuncts of Inv that a step leaves alone.                              *)

\* Neither the call nor its signers change.
LEMMA SignersFrame ==
    ASSUME Inv, UNCHANGED <<phase, chosen>>
    PROVE  SignersFixed'
  BY DEF Inv, SignersFixed, Enough

\* No message of a round is sent or received.
LEMMA RoundFrame ==
    ASSUME Inv, UNCHANGED <<round, got, net>>
    PROVE  RoundsWereSent'
  BY DEF Inv, RoundsWereSent

\* Nobody reports success, and the signers stay.
LEMMA FinishedFrame ==
    ASSUME Inv, UNCHANGED <<round, chosen>>,
           \A p \in Party : Succeeded(p)' => Succeeded(p)
    PROVE  FinishedTogether'
  BY DEF Inv, FinishedTogether, Succeeded

\* Who holds a share, and what the call knows of whom, stays.
LEMMA ReadyFrame ==
    ASSUME Inv, UNCHANGED <<share, handler>>,
           \A p \in Party : Acknowledged(p)' => Acknowledged(p)
    PROVE  ReadyMeansAccepted'
  BY DEF Inv, ReadyMeansAccepted

\* Nothing that only signers do has begun.
LEMMA StartFrame ==
    ASSUME Inv, UNCHANGED <<chosen, round>>,
           \A p \in Party :
              /\ worker'[p] \in {"start", "await"} => worker[p] \in {"start", "await"}
              /\ c2p'[p] = "start" => c2p[p] = "start"
              /\ handler'[p] = "loop" => handler[p] = "loop"
              /\ Succeeded(p)' => Succeeded(p)
    PROVE  AfterStart'
  BY DEF Inv, AfterStart, Enough

\* The sets of parties of a call are finite.
LEMMA FinitePart ==
    ASSUME NEW S \in SUBSET Party
    PROVE  IsFiniteSet(S) /\ Cardinality(S) \in Nat
  BY FS_Subset, FS_CardinalityType

\* The messages sent are of a round that tss-lib has, and between parties.
LEMMA SentType ==
    ASSUME NEW p \in Party, NEW To \in SUBSET Party, NEW k \in 1..Rounds
    PROVE  Sent(p, To, k) \subseteq [from : Party, to : Party, kind : 1..Rounds]
  BY DEF Sent

\* Before the signers are fixed nothing that only signers do has begun.
LEMMA NothingStarted ==
    ASSUME Inv, phase = "choose", NEW p \in Party
    PROVE  /\ worker[p] \notin {"start", "await"}
           /\ c2p[p] # "start"
           /\ handler[p] # "loop"
           /\ round[p] = 0
           /\ ~Succeeded(p)
  BY DEF Inv, TypeOK, SignersFixed, AfterStart

-----------------------------------------------------------------------------
(* Every action preserves Inv.                                             *)

\* The call begins where nothing of it is yet.
LEMMA KeySignStep ==
    ASSUME Inv, KeySign
    PROVE  Inv'
  <1> USE DEF KeySign, streamVars, partyVars, TypeOK
  <1>1. TypeOK'
    BY DEF Inv
  <1>2. BeforePrepare'
    BY DEF Inv, BeforePrepare, Acknowledged
  <1>3. ReadyMeansAccepted'
    BY ReadyFrame DEF Acknowledged, Inv
  <1>4. SignersFixed'
    BY DEF Inv, SignersFixed
  <1>5. AfterStart'
    BY StartFrame DEF Succeeded, Inv
  <1>6. RoundsWereSent'
    BY RoundFrame DEF Inv
  <1>7. FinishedTogether'
    BY FinishedFrame DEF Succeeded, Inv
  <1>8. QED BY <1>1, <1>2, <1>3, <1>4, <1>5, <1>6, <1>7 DEF Inv

\* Without a record of its own the server does not begin.
LEMMA NotFoundStep ==
    ASSUME Inv, NotFound
    PROVE  Inv'
  <1> USE DEF NotFound, streamVars, partyVars, TypeOK
  <1>1. TypeOK'
    BY DEF Inv
  <1>2. BeforePrepare'
    BY DEF Inv, BeforePrepare, Acknowledged
  <1>3. ReadyMeansAccepted'
    BY ReadyFrame DEF Acknowledged, Inv
  <1>4. SignersFixed'
    BY DEF Inv, SignersFixed
  <1>5. AfterStart'
    BY StartFrame DEF Succeeded, Inv
  <1>6. RoundsWereSent'
    BY RoundFrame DEF Inv
  <1>7. FinishedTogether'
    BY FinishedFrame DEF Succeeded, Inv
  <1>8. QED BY <1>1, <1>2, <1>3, <1>4, <1>5, <1>6, <1>7 DEF Inv

\* The context ends.
LEMMA CancelStep ==
    ASSUME Inv, Cancel
    PROVE  Inv'
  <1> USE DEF Cancel, streamVars, partyVars, TypeOK
  <1>1. TypeOK'
    BY DEF Inv
  <1>2. BeforePrepare'
    BY DEF Inv, BeforePrepare, Acknowledged
  <1>3. ReadyMeansAccepted'
    BY ReadyFrame DEF Acknowledged, Inv
  <1>4. SignersFixed'
    BY SignersFrame DEF Inv
  <1>5. AfterStart'
    BY StartFrame DEF Succeeded, Inv
  <1>6. RoundsWereSent'
    BY RoundFrame DEF Inv
  <1>7. FinishedTogether'
    BY FinishedFrame DEF Succeeded, Inv
  <1>8. QED BY <1>1, <1>2, <1>3, <1>4, <1>5, <1>6, <1>7 DEF Inv

\* A goroutine ends at its head.
LEMMA SkipStep ==
    ASSUME Inv, NEW p \in Party, Skip(p)
    PROVE  Inv'
  <1> USE DEF Skip, streamVars, partyVars, TypeOK
  <1>1. TypeOK'
    BY DEF Inv
  <1>2. BeforePrepare'
    BY DEF Inv, BeforePrepare, Acknowledged
  <1>3. ReadyMeansAccepted'
    BY ReadyFrame DEF Acknowledged, Inv
  <1>4. SignersFixed'
    BY SignersFrame DEF Inv
  <1>5. AfterStart'
    BY StartFrame DEF Succeeded, Inv
  <1>6. RoundsWereSent'
    BY RoundFrame DEF Inv
  <1>7. FinishedTogether'
    BY FinishedFrame DEF Succeeded, Inv
  <1>8. QED BY <1>1, <1>2, <1>3, <1>4, <1>5, <1>6, <1>7 DEF Inv

\* Prepare is sent where nothing of the call is yet.
LEMMA SendPrepareStep ==
    ASSUME Inv, NEW p \in Party, SendPrepare(p)
    PROVE  Inv'
  <1> USE DEF SendPrepare, partyVars, TypeOK
  <1>1. TypeOK'
    BY DEF Inv
  <1>2. BeforePrepare'
    BY DEF Inv, BeforePrepare, Acknowledged
  <1>3. ReadyMeansAccepted'
    BY ReadyFrame DEF Acknowledged, Inv
  <1>4. SignersFixed'
    BY SignersFrame DEF Inv
  <1>5. AfterStart'
    BY StartFrame DEF Succeeded, Inv
  <1>6. RoundsWereSent'
    BY RoundFrame DEF Inv
  <1>7. FinishedTogether'
    BY FinishedFrame DEF Succeeded, Inv
  <1>8. QED BY <1>1, <1>2, <1>3, <1>4, <1>5, <1>6, <1>7 DEF Inv

\* A failed dial is an error.
LEMMA DialFailsStep ==
    ASSUME Inv, NEW p \in Party, DialFails(p)
    PROVE  Inv'
  <1> USE DEF DialFails, streamVars, partyVars, TypeOK
  <1>1. TypeOK'
    BY DEF Inv
  <1>2. BeforePrepare'
    BY DEF Inv, BeforePrepare, Acknowledged
  <1>3. ReadyMeansAccepted'
    BY ReadyFrame DEF Acknowledged, Inv
  <1>4. SignersFixed'
    BY SignersFrame DEF Inv
  <1>5. AfterStart'
    BY StartFrame DEF Succeeded, Inv
  <1>6. RoundsWereSent'
    BY RoundFrame DEF Inv
  <1>7. FinishedTogether'
    BY FinishedFrame DEF Succeeded, Inv
  <1>8. QED BY <1>1, <1>2, <1>3, <1>4, <1>5, <1>6, <1>7 DEF Inv

\* Ready moves from the stream to the channel.
LEMMA RecvReadyStep ==
    ASSUME Inv, NEW p \in Party, RecvReady(p)
    PROVE  Inv'
  <1> USE DEF RecvReady, IsReady, partyVars, TypeOK
  <1>1. TypeOK'
    BY DEF Inv
  <1>2. BeforePrepare'
    BY DEF Inv, BeforePrepare, Acknowledged
  <1>3. ReadyMeansAccepted'
    BY ReadyFrame DEF Acknowledged, Inv
  <1>4. SignersFixed'
    BY SignersFrame DEF Inv
  <1>5. AfterStart'
    BY StartFrame DEF Succeeded, Inv
  <1>6. RoundsWereSent'
    BY RoundFrame DEF Inv
  <1>7. FinishedTogether'
    BY FinishedFrame DEF Succeeded, Inv
  <1>8. QED BY <1>1, <1>2, <1>3, <1>4, <1>5, <1>6, <1>7 DEF Inv

\* A refusal leaves the party out.
LEMMA RecvRefusalStep ==
    ASSUME Inv, NEW p \in Party, RecvRefusal(p)
    PROVE  Inv'
  <1> USE DEF RecvRefusal, IsReady, Receives, partyVars, TypeOK
  <1>1. TypeOK'
    BY DEF Inv
  <1>2. BeforePrepare'
    BY DEF Inv, BeforePrepare, Acknowledged
  <1>3. ReadyMeansAccepted'
    BY ReadyFrame DEF Acknowledged, Inv
  <1>4. SignersFixed'
    BY SignersFrame DEF Inv
  <1>5. AfterStart'
    BY StartFrame DEF Succeeded, Inv
  <1>6. RoundsWereSent'
    BY RoundFrame DEF Inv
  <1>7. FinishedTogether'
    BY FinishedFrame DEF Succeeded, Inv
  <1>8. QED BY <1>1, <1>2, <1>3, <1>4, <1>5, <1>6, <1>7 DEF Inv

\* A phase ends with its goroutines.
LEMMA WaitGroupStep ==
    ASSUME Inv, WaitGroup
    PROVE  Inv'
  <1> USE DEF WaitGroup, streamVars, partyVars, TypeOK
  <1>1. TypeOK'
    BY DEF Inv
  <1>2. BeforePrepare'
    BY DEF Inv, BeforePrepare, Acknowledged
  <1>3. ReadyMeansAccepted'
    BY ReadyFrame DEF Acknowledged, Inv
  <1>4. SignersFixed'
    BY DEF Inv, SignersFixed
  <1>5. AfterStart'
    BY StartFrame DEF Succeeded, Inv
  <1>6. RoundsWereSent'
    BY RoundFrame DEF Inv
  <1>7. FinishedTogether'
    BY FinishedFrame DEF Succeeded, Inv
  <1>8. QED BY <1>1, <1>2, <1>3, <1>4, <1>5, <1>6, <1>7 DEF Inv

\* A signer is taken while more are needed: none has begun.
LEMMA TakeReadyStep ==
    ASSUME Inv, NEW p \in Party, TakeReady(p)
    PROVE  Inv'
  <1> USE DEF TakeReady, streamVars, partyVars, TypeOK
  <1>1. TypeOK'
    BY DEF Inv
  <1>2. BeforePrepare'
    BY DEF Inv, BeforePrepare, Acknowledged
  <1>3. ReadyMeansAccepted'
    BY ReadyFrame DEF Acknowledged, Inv
  <1>4. SignersFixed'
    <2>1. Cardinality(chosen') \in Nat
      BY FinitePart DEF Inv
    <2>2. QED BY <2>1 DEF SignersFixed, Enough
  <1>5. AfterStart'
    BY NothingStarted DEF Inv, AfterStart, Succeeded
  <1>6. RoundsWereSent'
    BY RoundFrame DEF Inv
  <1>7. FinishedTogether'
    BY NothingStarted DEF FinishedTogether, Succeeded
  <1>8. QED BY <1>1, <1>2, <1>3, <1>4, <1>5, <1>6, <1>7 DEF Inv

\* The last signer is taken.
LEMMA TakeLastReadyStep ==
    ASSUME Inv, NEW p \in Party, TakeLastReady(p)
    PROVE  Inv'
  <1> USE DEF TakeLastReady, streamVars, partyVars, TypeOK
  <1>1. TypeOK'
    BY DEF Inv
  <1>2. BeforePrepare'
    BY DEF Inv, BeforePrepare, Acknowledged
  <1>3. ReadyMeansAccepted'
    BY ReadyFrame DEF Acknowledged, Inv
  <1>4. SignersFixed'
    <2>1. /\ IsFiniteSet(chosen)
          /\ Cardinality(chosen) \in Nat /\ Cardinality(chosen) <= Threshold
      BY FinitePart DEF Inv, SignersFixed, Enough
    <2>2. Cardinality(chosen') <= Cardinality(chosen) + 1
      <3>1. Cardinality(chosen \cup {p}) \in {Cardinality(chosen), Cardinality(chosen) + 1}
        BY <2>1, FS_AddElement
      <3>2. QED BY <2>1, <3>1
    <2>3. Cardinality(chosen') \in Nat
      BY FinitePart DEF Inv
    <2>4. QED BY <2>1, <2>2, <2>3 DEF SignersFixed, Enough
  <1>5. AfterStart'
    BY NothingStarted DEF Inv, AfterStart, Succeeded
  <1>6. RoundsWereSent'
    BY RoundFrame DEF Inv
  <1>7. FinishedTogether'
    BY NothingStarted DEF FinishedTogether, Succeeded
  <1>8. QED BY <1>1, <1>2, <1>3, <1>4, <1>5, <1>6, <1>7 DEF Inv

\* A party that is not needed is cancelled.
LEMMA CancelSurplusStep ==
    ASSUME Inv, NEW p \in Party, CancelSurplus(p)
    PROVE  Inv'
  <1> USE DEF CancelSurplus, partyVars, TypeOK
  <1>1. TypeOK'
    BY DEF Inv
  <1>2. BeforePrepare'
    BY DEF Inv, BeforePrepare, Acknowledged
  <1>3. ReadyMeansAccepted'
    BY ReadyFrame DEF Acknowledged, Inv
  <1>4. SignersFixed'
    BY SignersFrame DEF Inv
  <1>5. AfterStart'
    BY StartFrame DEF Succeeded, Inv
  <1>6. RoundsWereSent'
    BY RoundFrame DEF Inv
  <1>7. FinishedTogether'
    BY FinishedFrame DEF Succeeded, Inv
  <1>8. QED BY <1>1, <1>2, <1>3, <1>4, <1>5, <1>6, <1>7 DEF Inv

\* The canceller gives up.
LEMMA CancellerStopsStep ==
    ASSUME Inv, CancellerStops
    PROVE  Inv'
  <1> USE DEF CancellerStops, streamVars, partyVars, TypeOK
  <1>1. TypeOK'
    BY DEF Inv
  <1>2. BeforePrepare'
    BY DEF Inv, BeforePrepare, Acknowledged
  <1>3. ReadyMeansAccepted'
    BY ReadyFrame DEF Acknowledged, Inv
  <1>4. SignersFixed'
    BY SignersFrame DEF Inv
  <1>5. AfterStart'
    BY StartFrame DEF Succeeded, Inv
  <1>6. RoundsWereSent'
    BY RoundFrame DEF Inv
  <1>7. FinishedTogether'
    BY FinishedFrame DEF Succeeded, Inv
  <1>8. QED BY <1>1, <1>2, <1>3, <1>4, <1>5, <1>6, <1>7 DEF Inv

\* Start is sent to a signer.
LEMMA SendStartStep ==
    ASSUME Inv, NEW p \in Party, SendStart(p)
    PROVE  Inv'
  <1> USE DEF SendStart, partyVars, TypeOK
  <1>1. TypeOK'
    BY DEF Inv
  <1>2. BeforePrepare'
    BY DEF Inv, BeforePrepare, Acknowledged
  <1>3. ReadyMeansAccepted'
    BY ReadyFrame DEF Acknowledged, Inv
  <1>4. SignersFixed'
    BY SignersFrame DEF Inv
  <1>5. AfterStart'
    BY DEF Inv, AfterStart, Succeeded
  <1>6. RoundsWereSent'
    BY RoundFrame DEF Inv
  <1>7. FinishedTogether'
    BY FinishedFrame DEF Succeeded, Inv
  <1>8. QED BY <1>1, <1>2, <1>3, <1>4, <1>5, <1>6, <1>7 DEF Inv

\* Start does not get to a signer.
LEMMA SendStartFailsStep ==
    ASSUME Inv, NEW p \in Party, SendStartFails(p)
    PROVE  Inv'
  <1> USE DEF SendStartFails, streamVars, partyVars, TypeOK
  <1>1. TypeOK'
    BY DEF Inv
  <1>2. BeforePrepare'
    BY DEF Inv, BeforePrepare, Acknowledged
  <1>3. ReadyMeansAccepted'
    BY ReadyFrame DEF Acknowledged, Inv
  <1>4. SignersFixed'
    BY SignersFrame DEF Inv
  <1>5. AfterStart'
    BY StartFrame DEF Succeeded, Inv
  <1>6. RoundsWereSent'
    BY RoundFrame DEF Inv
  <1>7. FinishedTogether'
    BY FinishedFrame DEF Succeeded, Inv
  <1>8. QED BY <1>1, <1>2, <1>3, <1>4, <1>5, <1>6, <1>7 DEF Inv

\* The answer of a signer moves from the stream to the channel.
LEMMA RecvFinishStep ==
    ASSUME Inv, NEW p \in Party, RecvFinish(p)
    PROVE  Inv'
  <1> USE DEF RecvFinish, partyVars, TypeOK
  <1>1. TypeOK'
    BY DEF Inv
  <1>2. BeforePrepare'
    BY DEF Inv, BeforePrepare, Acknowledged
  <1>3. ReadyMeansAccepted'
    BY ReadyFrame DEF Acknowledged, Inv
  <1>4. SignersFixed'
    BY SignersFrame DEF Inv
  <1>5. AfterStart'
    BY DEF Inv, AfterStart, Succeeded
  <1>6. RoundsWereSent'
    BY RoundFrame DEF Inv
  <1>7. FinishedTogether'
    BY FinishedFrame DEF Succeeded, Inv
  <1>8. QED BY <1>1, <1>2, <1>3, <1>4, <1>5, <1>6, <1>7 DEF Inv

\* An error ends the call.
LEMMA TakeErrorStep ==
    ASSUME Inv, TakeError
    PROVE  Inv'
  <1> USE DEF TakeError, Return, partyVars, TypeOK
  <1>1. TypeOK'
    BY DEF Inv
  <1>2. BeforePrepare'
    BY DEF Inv, BeforePrepare, Acknowledged
  <1>3. ReadyMeansAccepted'
    BY ReadyFrame DEF Acknowledged, Inv
  <1>4. SignersFixed'
    BY DEF Inv, SignersFixed
  <1>5. AfterStart'
    BY StartFrame DEF Succeeded, Inv
  <1>6. RoundsWereSent'
    BY RoundFrame DEF Inv
  <1>7. FinishedTogether'
    BY FinishedFrame DEF Succeeded, Inv
  <1>8. QED BY <1>1, <1>2, <1>3, <1>4, <1>5, <1>6, <1>7 DEF Inv

\* A signature ends the call.
LEMMA TakeSuccessStep ==
    ASSUME Inv, NEW p \in Party, TakeSuccess(p)
    PROVE  Inv'
  <1> USE DEF TakeSuccess, Return, partyVars, TypeOK
  <1>1. TypeOK'
    BY DEF Inv
  <1>2. BeforePrepare'
    BY DEF Inv, BeforePrepare, Acknowledged
  <1>3. ReadyMeansAccepted'
    BY ReadyFrame DEF Acknowledged, Inv
  <1>4. SignersFixed'
    BY DEF Inv, SignersFixed
  <1>5. AfterStart'
    BY StartFrame DEF Succeeded, Inv
  <1>6. RoundsWereSent'
    BY RoundFrame DEF Inv
  <1>7. FinishedTogether'
    BY FinishedFrame DEF Succeeded, Inv
  <1>8. QED BY <1>1, <1>2, <1>3, <1>4, <1>5, <1>6, <1>7 DEF Inv

\* A failure is counted.
LEMMA TakeFailureStep ==
    ASSUME Inv, NEW p \in Party, TakeFailure(p)
    PROVE  Inv'
  <1> USE DEF TakeFailure, streamVars, partyVars, TypeOK
  <1>1. TypeOK'
    BY DEF Inv
  <1>2. BeforePrepare'
    BY DEF Inv, BeforePrepare, Acknowledged
  <1>3. ReadyMeansAccepted'
    BY ReadyFrame DEF Acknowledged, Inv
  <1>4. SignersFixed'
    BY SignersFrame DEF Inv
  <1>5. AfterStart'
    BY StartFrame DEF Succeeded, Inv
  <1>6. RoundsWereSent'
    BY RoundFrame DEF Inv
  <1>7. FinishedTogether'
    BY FinishedFrame DEF Succeeded, Inv
  <1>8. QED BY <1>1, <1>2, <1>3, <1>4, <1>5, <1>6, <1>7 DEF Inv

\* The last failure ends the call.
LEMMA TakeLastFailureStep ==
    ASSUME Inv, NEW p \in Party, TakeLastFailure(p)
    PROVE  Inv'
  <1> USE DEF TakeLastFailure, Return, partyVars, TypeOK
  <1>1. TypeOK'
    BY DEF Inv
  <1>2. BeforePrepare'
    BY DEF Inv, BeforePrepare, Acknowledged
  <1>3. ReadyMeansAccepted'
    BY ReadyFrame DEF Acknowledged, Inv
  <1>4. SignersFixed'
    BY DEF Inv, SignersFixed
  <1>5. AfterStart'
    BY StartFrame DEF Succeeded, Inv
  <1>6. RoundsWereSent'
    BY RoundFrame DEF Inv
  <1>7. FinishedTogether'
    BY FinishedFrame DEF Succeeded, Inv
  <1>8. QED BY <1>1, <1>2, <1>3, <1>4, <1>5, <1>6, <1>7 DEF Inv

\* Prepare arrives.
LEMMA RecvPrepareStep ==
    ASSUME Inv, NEW p \in Party, RecvPrepare(p)
    PROVE  Inv'
  <1> USE DEF RecvPrepare, Goto, callVars, TypeOK
  <1>1. TypeOK'
    BY DEF Inv
  <1>2. BeforePrepare'
    BY DEF Inv, BeforePrepare, Acknowledged
  <1>3. ReadyMeansAccepted'
    <2>1. ~Acknowledged(p)
      BY DEF Inv, BeforePrepare
    <2>2. QED BY <2>1 DEF Inv, ReadyMeansAccepted, Acknowledged
  <1>4. SignersFixed'
    BY SignersFrame DEF Inv
  <1>5. AfterStart'
    BY StartFrame DEF Succeeded, Inv
  <1>6. RoundsWereSent'
    BY RoundFrame DEF Inv
  <1>7. FinishedTogether'
    BY FinishedFrame DEF Succeeded, Inv
  <1>8. QED BY <1>1, <1>2, <1>3, <1>4, <1>5, <1>6, <1>7 DEF Inv

\* A party that holds a share answers Ready.
LEMMA SendReadyStep ==
    ASSUME Inv, NEW p \in Party, SendReady(p)
    PROVE  Inv'
  <1> USE DEF SendReady, Goto, callVars, TypeOK
  <1>1. TypeOK'
    BY DEF Inv
  <1>2. BeforePrepare'
    BY DEF Inv, BeforePrepare, Acknowledged
  <1>3. ReadyMeansAccepted'
    BY DEF Inv, ReadyMeansAccepted, Acknowledged
  <1>4. SignersFixed'
    BY SignersFrame DEF Inv
  <1>5. AfterStart'
    BY StartFrame DEF Succeeded, Inv
  <1>6. RoundsWereSent'
    BY RoundFrame DEF Inv
  <1>7. FinishedTogether'
    BY FinishedFrame DEF Succeeded, Inv
  <1>8. QED BY <1>1, <1>2, <1>3, <1>4, <1>5, <1>6, <1>7 DEF Inv

\* A party refuses.
LEMMA RefuseStep ==
    ASSUME Inv, NEW p \in Party, Refuse(p)
    PROVE  Inv'
  <1> USE DEF Refuse, Goto, Answer, callVars, TypeOK
  <1>1. TypeOK'
    BY DEF Inv
  <1>2. BeforePrepare'
    BY DEF Inv, BeforePrepare, Acknowledged
  <1>3. ReadyMeansAccepted'
    BY DEF Inv, ReadyMeansAccepted, Acknowledged
  <1>4. SignersFixed'
    BY SignersFrame DEF Inv
  <1>5. AfterStart'
    BY StartFrame DEF Succeeded, Inv
  <1>6. RoundsWereSent'
    BY DEF Inv, RoundsWereSent
  <1>7. FinishedTogether'
    BY FinishedFrame DEF Succeeded, Inv
  <1>8. QED BY <1>1, <1>2, <1>3, <1>4, <1>5, <1>6, <1>7 DEF Inv

\* A signer starts.
LEMMA RecvStartStep ==
    ASSUME Inv, NEW p \in Party, RecvStart(p)
    PROVE  Inv'
  <1> USE DEF RecvStart, Goto, callVars, TypeOK
  <1>1. TypeOK'
    BY DEF Inv
  <1>2. BeforePrepare'
    BY DEF Inv, BeforePrepare, Acknowledged
  <1>3. ReadyMeansAccepted'
    BY DEF Inv, ReadyMeansAccepted, Acknowledged
  <1>4. SignersFixed'
    BY SignersFrame DEF Inv
  <1>5. AfterStart'
    BY DEF Inv, AfterStart, Succeeded
  <1>6. RoundsWereSent'
    BY RoundFrame DEF Inv
  <1>7. FinishedTogether'
    BY FinishedFrame DEF Succeeded, Inv
  <1>8. QED BY <1>1, <1>2, <1>3, <1>4, <1>5, <1>6, <1>7 DEF Inv

\* A party that is not needed ends.
LEMMA NoStartStep ==
    ASSUME Inv, NEW p \in Party, NoStart(p)
    PROVE  Inv'
  <1> USE DEF NoStart, Goto, Answer, callVars, TypeOK
  <1>1. TypeOK'
    BY DEF Inv
  <1>2. BeforePrepare'
    BY DEF Inv, BeforePrepare, Acknowledged
  <1>3. ReadyMeansAccepted'
    BY DEF Inv, ReadyMeansAccepted, Acknowledged
  <1>4. SignersFixed'
    BY SignersFrame DEF Inv
  <1>5. AfterStart'
    BY StartFrame DEF Succeeded, Inv
  <1>6. RoundsWereSent'
    BY DEF Inv, RoundsWereSent
  <1>7. FinishedTogether'
    BY FinishedFrame DEF Succeeded, Inv
  <1>8. QED BY <1>1, <1>2, <1>3, <1>4, <1>5, <1>6, <1>7 DEF Inv

\* A signer does its part of a round.
LEMMA SendRoundStep ==
    ASSUME Inv, NEW p \in Party, SendRound(p)
    PROVE  Inv'
  <1> USE DEF SendRound, HasOutput, MoreRounds, Peers, callVars, streamVars, TypeOK
  <1>1. TypeOK'
    <2>1. round[p] + 1 \in 1..Rounds
      BY DEF Inv
    <2>2. chosen \ {p} \in SUBSET Party
      BY DEF Inv
    <2>3. Sent(p, chosen \ {p}, round[p] + 1) \subseteq [from : Party, to : Party, kind : 1..Rounds]
      BY <2>1, <2>2, SentType
    <2>4. net' \in SUBSET [from : Party, to : Party, kind : 1..Rounds]
      BY <2>3 DEF Inv
    <2>5. round' \in [Party -> 0..Rounds]
      BY <2>1 DEF Inv
    <2>6. QED BY <2>4, <2>5 DEF Inv
  <1>2. BeforePrepare'
    BY DEF Inv, BeforePrepare, Acknowledged
  <1>3. ReadyMeansAccepted'
    BY ReadyFrame DEF Acknowledged, Inv
  <1>4. SignersFixed'
    BY SignersFrame DEF Inv
  <1>5. AfterStart'
    BY DEF Inv, AfterStart, Succeeded
  <1>6. RoundsWereSent'
    BY DEF Inv, RoundsWereSent, Sent
  <1>7. FinishedTogether'
    BY DEF Inv, FinishedTogether
  <1>8. QED BY <1>1, <1>2, <1>3, <1>4, <1>5, <1>6, <1>7 DEF Inv

\* A signer fails in the middle of a round.
LEMMA SendRoundFailsStep ==
    ASSUME Inv, NEW p \in Party, SendRoundFails(p)
    PROVE  Inv'
  <1> USE DEF SendRoundFails, HasOutput, MoreRounds, Peers, Answer, Goto, callVars, TypeOK
  <1>1. TypeOK'
    <2>1. round[p] + 1 \in 1..Rounds
      BY DEF Inv
    <2>2. net' \in SUBSET [from : Party, to : Party, kind : 1..Rounds]
      BY <2>1, SentType DEF Inv
    <2>3. QED BY <2>1, <2>2 DEF Inv
  <1>2. BeforePrepare'
    BY DEF Inv, BeforePrepare, Acknowledged
  <1>3. ReadyMeansAccepted'
    BY DEF Inv, ReadyMeansAccepted, Acknowledged
  <1>4. SignersFixed'
    BY SignersFrame DEF Inv
  <1>5. AfterStart'
    BY DEF Inv, AfterStart, Succeeded
  <1>6. RoundsWereSent'
    BY DEF Inv, RoundsWereSent, Sent
  <1>7. FinishedTogether'
    BY DEF Inv, FinishedTogether
  <1>8. QED BY <1>1, <1>2, <1>3, <1>4, <1>5, <1>6, <1>7 DEF Inv

\* A signer gets a message of a round.
LEMMA RecvUpdateStep ==
    ASSUME Inv, NEW p \in Party, RecvUpdate(p)
    PROVE  Inv'
  <1> USE DEF RecvUpdate, callVars, streamVars, TypeOK
  <1>1. TypeOK'
    BY DEF Inv
  <1>2. BeforePrepare'
    BY DEF Inv, BeforePrepare, Acknowledged
  <1>3. ReadyMeansAccepted'
    BY ReadyFrame DEF Acknowledged, Inv
  <1>4. SignersFixed'
    BY SignersFrame DEF Inv
  <1>5. AfterStart'
    BY StartFrame DEF Succeeded, Inv
  <1>6. RoundsWereSent'
    BY DEF Inv, RoundsWereSent
  <1>7. FinishedTogether'
    BY FinishedFrame DEF Succeeded, Inv
  <1>8. QED BY <1>1, <1>2, <1>3, <1>4, <1>5, <1>6, <1>7 DEF Inv

\* A signer has had the last round of all others.
LEMMA CompleteStep ==
    ASSUME Inv, NEW p \in Party, Complete(p)
    PROVE  Inv'
  <1> USE DEF Complete, HasRound, Peers, Answer, Goto, callVars, TypeOK
  <1>1. TypeOK'
    BY DEF Inv
  <1>2. BeforePrepare'
    BY DEF Inv, BeforePrepare, Acknowledged
  <1>3. ReadyMeansAccepted'
    BY DEF Inv, ReadyMeansAccepted, Acknowledged
  <1>4. SignersFixed'
    BY SignersFrame DEF Inv
  <1>5. AfterStart'
    BY DEF Inv, AfterStart, Succeeded
  <1>6. RoundsWereSent'
    BY DEF Inv, RoundsWereSent
  <1>7. FinishedTogether'
    <2>1. p \in chosen /\ chosen \subseteq Party /\ Rounds \in 1..Rounds
      BY DEF Inv, AfterStart
    <2>2. \A q \in chosen \ {p} : round[q] >= Rounds
      BY <2>1 DEF Inv, RoundsWereSent
    <2>3. \A q \in chosen : round[q] = Rounds
      BY <2>1, <2>2 DEF Inv
    <2>4. QED BY <2>1, <2>3 DEF Inv, FinishedTogether
  <1>8. QED BY <1>1, <1>2, <1>3, <1>4, <1>5, <1>6, <1>7 DEF Inv

\* A signer gives up.
LEMMA LoopFailsStep ==
    ASSUME Inv, NEW p \in Party, LoopFails(p)
    PROVE  Inv'
  <1> USE DEF LoopFails, Answer, Goto, callVars, TypeOK
  <1>1. TypeOK'
    BY DEF Inv
  <1>2. BeforePrepare'
    BY DEF Inv, BeforePrepare, Acknowledged
  <1>3. ReadyMeansAccepted'
    BY DEF Inv, ReadyMeansAccepted, Acknowledged
  <1>4. SignersFixed'
    BY SignersFrame DEF Inv
  <1>5. AfterStart'
    BY StartFrame DEF Succeeded, Inv
  <1>6. RoundsWereSent'
    BY DEF Inv, RoundsWereSent
  <1>7. FinishedTogether'
    BY FinishedFrame DEF Succeeded, Inv
  <1>8. QED BY <1>1, <1>2, <1>3, <1>4, <1>5, <1>6, <1>7 DEF Inv

\* A handler ends.
LEMMA CloseSessionStep ==
    ASSUME Inv, NEW p \in Party, CloseSession(p)
    PROVE  Inv'
  <1> USE DEF CloseSession, Goto, callVars, TypeOK
  <1>1. TypeOK'
    BY DEF Inv
  <1>2. BeforePrepare'
    BY DEF Inv, BeforePrepare, Acknowledged
  <1>3. ReadyMeansAccepted'
    BY DEF Inv, ReadyMeansAccepted, Acknowledged
  <1>4. SignersFixed'
    BY SignersFrame DEF Inv
  <1>5. AfterStart'
    BY StartFrame DEF Succeeded, Inv
  <1>6. RoundsWereSent'
    BY RoundFrame DEF Inv
  <1>7. FinishedTogether'
    BY FinishedFrame DEF Succeeded, Inv
  <1>8. QED BY <1>1, <1>2, <1>3, <1>4, <1>5, <1>6, <1>7 DEF Inv

\* A server's process ends.
LEMMA ProcessDiesStep ==
    ASSUME Inv, NEW p \in Party, ProcessDies(p)
    PROVE  Inv'
  <1> USE DEF ProcessDies, TypeOK
  <1>1. TypeOK'
    BY DEF Inv
  <1>2. BeforePrepare'
    BY DEF Inv, BeforePrepare, Acknowledged
  <1>3. ReadyMeansAccepted'
    BY DEF Inv, ReadyMeansAccepted, Acknowledged
  <1>4. SignersFixed'
    BY DEF Inv, SignersFixed
  <1>5. AfterStart'
    BY StartFrame DEF Succeeded, Inv
  <1>6. RoundsWereSent'
    BY DEF Inv, RoundsWereSent
  <1>7. FinishedTogether'
    BY FinishedFrame DEF Succeeded, Inv
  <1>8. QED BY <1>1, <1>2, <1>3, <1>4, <1>5, <1>6, <1>7 DEF Inv

\* A connection drops.
LEMMA ResetStep ==
    ASSUME Inv, NEW p \in Party, Reset(p)
    PROVE  Inv'
  <1> USE DEF Reset, callVars, partyVars, TypeOK
  <1>1. TypeOK'
    BY DEF Inv
  <1>2. BeforePrepare'
    BY DEF Inv, BeforePrepare, Acknowledged
  <1>3. ReadyMeansAccepted'
    BY ReadyFrame DEF Acknowledged, Inv
  <1>4. SignersFixed'
    BY SignersFrame DEF Inv
  <1>5. AfterStart'
    BY StartFrame DEF Succeeded, Inv
  <1>6. RoundsWereSent'
    BY RoundFrame DEF Inv
  <1>7. FinishedTogether'
    BY FinishedFrame DEF Succeeded, Inv
  <1>8. QED BY <1>1, <1>2, <1>3, <1>4, <1>5, <1>6, <1>7 DEF Inv

\* A message is lost.
LEMMA LoseStep ==
    ASSUME Inv, Lose
    PROVE  Inv'
  <1> USE DEF Lose, callVars, streamVars, TypeOK
  <1>1. TypeOK'
    BY DEF Inv
  <1>2. BeforePrepare'
    BY DEF Inv, BeforePrepare, Acknowledged
  <1>3. ReadyMeansAccepted'
    BY ReadyFrame DEF Acknowledged, Inv
  <1>4. SignersFixed'
    BY SignersFrame DEF Inv
  <1>5. AfterStart'
    BY StartFrame DEF Succeeded, Inv
  <1>6. RoundsWereSent'
    BY DEF Inv, RoundsWereSent
  <1>7. FinishedTogether'
    BY FinishedFrame DEF Succeeded, Inv
  <1>8. QED BY <1>1, <1>2, <1>3, <1>4, <1>5, <1>6, <1>7 DEF Inv

\* One more party holds a share.
LEMMA ShareStoredStep ==
    ASSUME Inv, NEW p \in Party, ShareStored(p)
    PROVE  Inv'
  <1> USE DEF ShareStored, callVars, streamVars, TypeOK
  <1>1. TypeOK'
    BY DEF Inv
  <1>2. BeforePrepare'
    BY DEF Inv, BeforePrepare, Acknowledged
  <1>3. ReadyMeansAccepted'
    BY DEF Inv, ReadyMeansAccepted, Acknowledged
  <1>4. SignersFixed'
    BY SignersFrame DEF Inv
  <1>5. AfterStart'
    BY StartFrame DEF Succeeded, Inv
  <1>6. RoundsWereSent'
    BY RoundFrame DEF Inv
  <1>7. FinishedTogether'
    BY FinishedFrame DEF Succeeded, Inv
  <1>8. QED BY <1>1, <1>2, <1>3, <1>4, <1>5, <1>6, <1>7 DEF Inv

-----------------------------------------------------------------------------
(* The invariant.                                                          *)

\* Inv holds at first.
LEMMA InitInv == Init => Inv
  <1> SUFFICES ASSUME Init PROVE Inv
    OBVIOUS
  <1> USE DEF Init
  <1>1. TypeOK
    <2>1. round \in [Party -> 0..Rounds] /\ got \in [Party -> SUBSET ((1..Rounds) \X Party)]
      OBVIOUS
    <2>2. QED BY <2>1 DEF TypeOK
  <1>2. BeforePrepare /\ ReadyMeansAccepted
    BY DEF BeforePrepare, ReadyMeansAccepted, Acknowledged
  <1>3. SignersFixed
    BY FS_EmptySet DEF SignersFixed, Enough
  <1>4. AfterStart /\ RoundsWereSent /\ FinishedTogether
    BY DEF AfterStart, Succeeded, RoundsWereSent, FinishedTogether
  <1>5. QED BY <1>1, <1>2, <1>3, <1>4 DEF Inv

\* Every step preserves Inv.
LEMMA StepInv ==
    ASSUME Inv, [Next]_vars
    PROVE  Inv'
  <1>1. CASE UNCHANGED vars
    <2> USE <1>1 DEF vars, callVars, streamVars, partyVars
    <2>1. TypeOK' /\ BeforePrepare' /\ ReadyMeansAccepted'
      BY DEF Inv, TypeOK, BeforePrepare, ReadyMeansAccepted, Acknowledged
    <2>2. AfterStart' /\ FinishedTogether'
      BY DEF Inv, AfterStart, Succeeded, Enough, FinishedTogether
    <2>3. QED BY <2>1, <2>2, SignersFrame, RoundFrame DEF Inv
  <1>2. CASE Call
    BY <1>2, WaitGroupStep, TakeErrorStep, TakeReadyStep, TakeLastReadyStep,
       TakeSuccessStep, TakeFailureStep, TakeLastFailureStep DEF Call
  <1>3. CASE Canceller
    BY <1>3, CancellerStopsStep, CancelSurplusStep DEF Canceller
  <1>4. ASSUME NEW p \in Party, Worker(p) PROVE Inv'
    BY <1>4, SkipStep, SendPrepareStep, DialFailsStep, RecvReadyStep, RecvRefusalStep,
       SendStartStep, SendStartFailsStep, RecvFinishStep DEF Worker
  <1>5. ASSUME NEW p \in Party, Handler(p) PROVE Inv'
    <2>1. CASE ClosePanics(p)
      BY <2>1, ProcessDiesStep DEF ClosePanics
    <2>2. QED
      BY <1>5, <2>1, RecvPrepareStep, SendReadyStep, RefuseStep, RecvStartStep,
         NoStartStep, SendRoundStep, SendRoundFailsStep, RecvUpdateStep,
         CompleteStep, CloseSessionStep DEF Handler
  <1>6. ASSUME NEW p \in Party, Deadline(p) \/ TssError(p) \/ Crash(p) PROVE Inv'
    BY <1>6, LoopFailsStep, ProcessDiesStep DEF Deadline, TssError, Crash
  <1>7. QED
    BY <1>1, <1>2, <1>3, <1>4, <1>5, <1>6, KeySignStep, NotFoundStep, CancelStep,
       LoseStep, ResetStep, ShareStoredStep DEF Next

\* Inv holds in every state the program can reach.
THEOREM Invariance == Spec => []Inv
  <1>1. Init => Inv
    BY InitInv
  <1>2. Inv /\ [Next]_vars => Inv'
    BY StepInv
  <1>3. QED BY <1>1, <1>2, PTL DEF Spec

-----------------------------------------------------------------------------
(* The properties.                                                         *)

\* All variables keep their types.
THEOREM TypeCorrect == Spec => []TypeOK
  <1>1. Inv => TypeOK
    BY DEF Inv
  <1>2. QED BY <1>1, Invariance, PTL

\* No signer dials a peer that does not listen yet, or holds no share.
THEOREM Barrier == Spec => []SignersListen
  <1>1. Inv => SignersListen
    BY DEF Inv, TypeOK, ReadyMeansAccepted, Acknowledged, SignersListen
  <1>2. QED BY <1>1, Invariance, PTL

\* A signer that has finished has had the contribution of every signer.
THEOREM Together == Spec => []FinishedTogether
  <1>1. Inv => FinishedTogether
    BY DEF Inv
  <1>2. QED BY <1>1, Invariance, PTL

-----------------------------------------------------------------------------
(* The call implements ThresholdSign.                                      *)

\* The parties that have done their part of every round, and the answer.
Signed == {p \in Party : round[p] = Rounds}
Answered == IF phase \in {"ok", "err"} THEN phase ELSE "none"

\* Both modules count with the same Cardinality.
LEMMA SameCardinality ==
    ASSUME NEW S
    PROVE  Sign!Cardinality(S) = Cardinality(S)
  BY DEF Sign!Cardinality, Cardinality

\* Only signers sign, so no more than Threshold others have when one does.
LEMMA FewHaveSigned ==
    ASSUME Inv, NEW p \in chosen, round[p] # Rounds
    PROVE  Cardinality(Signed) <= Threshold
  <1>1. Signed \subseteq chosen \ {p}
    BY DEF Signed, Inv, TypeOK, AfterStart
  <1>2. IsFiniteSet(chosen) /\ Cardinality(chosen) \in Nat
    BY FinitePart DEF Inv, TypeOK
  <1>3. IsFiniteSet(chosen \ {p}) /\ Cardinality(chosen \ {p}) = Cardinality(chosen) - 1
    BY <1>2, FS_RemoveElement
  <1>4. Cardinality(Signed) <= Cardinality(chosen \ {p})
    BY <1>1, <1>3, FS_Subset
  <1>5. Cardinality(Signed) \in Nat /\ Cardinality(chosen) <= Threshold + 1
    BY FinitePart DEF Signed, Inv, SignersFixed
  <1>6. QED BY <1>2, <1>3, <1>4, <1>5

\* The next round of a signer is its part of the abstract signing, when it is
\* the last one.
LEMMA RoundRefines ==
    ASSUME Inv, NEW p \in Party, SendRound(p) \/ SendRoundFails(p)
    PROVE  Sign!Contribute(p) \/ UNCHANGED <<share, Signed, Answered>>
  <1>1. /\ handler[p] = "loop" /\ round[p] \in 0..Rounds /\ round[p] < Rounds
        /\ round' = [round EXCEPT ![p] = @ + 1]
        /\ UNCHANGED <<share, phase>>
    BY DEF SendRound, SendRoundFails, HasOutput, MoreRounds, callVars, Inv, TypeOK
  <1>2. p \in chosen /\ p \in share /\ round \in [Party -> 0..Rounds]
    BY <1>1 DEF Inv, TypeOK, AfterStart, ReadyMeansAccepted, Acknowledged
  <1>3. CASE round[p] + 1 = Rounds
    <2>1. Cardinality(Signed) <= Threshold
      BY <1>1, <1>2, FewHaveSigned
    <2>2. Signed' = Signed \cup {p}
      BY <1>1, <1>2, <1>3 DEF Signed
    <2>3. QED
      BY <1>1, <1>2, <2>1, <2>2, SameCardinality DEF Sign!Contribute, Signed
  <1>4. CASE round[p] + 1 # Rounds
    BY <1>1, <1>2, <1>4 DEF Signed, Answered
  <1>5. QED BY <1>3, <1>4

\* Success is answered when all signers have signed.
LEMMA SuccessRefines ==
    ASSUME Inv, NEW p \in Party, TakeSuccess(p)
    PROVE  Sign!Succeed
  <1>1. chosen \subseteq Signed /\ Enough(chosen) /\ chosen \subseteq Party
    BY DEF TakeSuccess, Inv, TypeOK, FinishedTogether, SignersFixed, Signed
  <1>2. Cardinality(chosen) <= Cardinality(Signed)
    BY <1>1, FinitePart, FS_Subset DEF Signed
  <1>3. Cardinality(Signed) > Threshold
    BY <1>1, <1>2, FinitePart DEF Signed, Enough
  <1>4. QED
    BY <1>3, SameCardinality DEF TakeSuccess, Return, partyVars, Sign!Succeed, Signed

\* No other step ends a round.
LEMMA OtherSteps ==
    ASSUME [Next]_vars
    PROVE  \/ UNCHANGED round
           \/ \E p \in Party : SendRound(p) \/ SendRoundFails(p)
  <1> USE DEF vars, partyVars
  <1>1. CASE Call \/ Canceller \/ KeySign \/ NotFound \/ Cancel \/ Lose
    BY <1>1 DEF Call, WaitGroup, TakeError, TakeReady, TakeLastReady, TakeSuccess,
       TakeFailure, TakeLastFailure, Return, Canceller, CancellerStops,
       CancelSurplus, KeySign, NotFound, Cancel, Lose
  <1>2. ASSUME NEW p \in Party, Worker(p) PROVE UNCHANGED round
    BY <1>2 DEF Worker, Skip, SendPrepare, DialFails, RecvReady, RecvRefusal,
       SendStart, SendStartFails, RecvFinish
  <1>3. ASSUME NEW p \in Party, Handler(p)
        PROVE  UNCHANGED round \/ SendRound(p) \/ SendRoundFails(p)
    BY <1>3 DEF Handler, RecvPrepare, SendReady, Refuse, RecvStart, NoStart,
       RecvUpdate, Complete, CloseSession, ClosePanics, ProcessDies
  <1>4. ASSUME NEW p \in Party,
               Deadline(p) \/ TssError(p) \/ Reset(p) \/ Crash(p) \/ ShareStored(p)
        PROVE  UNCHANGED round
    BY <1>4 DEF Deadline, TssError, LoopFails, Reset, Crash, ProcessDies, ShareStored
  <1>5. QED BY <1>1, <1>2, <1>3, <1>4 DEF Next

\* Shares are only added.
LEMMA ShareSteps ==
    ASSUME [Next]_vars
    PROVE  \/ UNCHANGED share
           \/ \E p \in Party : ShareStored(p)
  <1> USE DEF vars, partyVars
  <1>1. CASE Call \/ Canceller \/ KeySign \/ NotFound \/ Cancel \/ Lose
    BY <1>1 DEF Call, WaitGroup, TakeError, TakeReady, TakeLastReady, TakeSuccess,
       TakeFailure, TakeLastFailure, Return, Canceller, CancellerStops,
       CancelSurplus, KeySign, NotFound, Cancel, Lose
  <1>2. ASSUME NEW p \in Party, Worker(p) PROVE UNCHANGED share
    BY <1>2 DEF Worker, Skip, SendPrepare, DialFails, RecvReady, RecvRefusal,
       SendStart, SendStartFails, RecvFinish
  <1>3. ASSUME NEW p \in Party, Handler(p) PROVE UNCHANGED share
    BY <1>3 DEF Handler, RecvPrepare, SendReady, Refuse, RecvStart, NoStart,
       SendRound, SendRoundFails, RecvUpdate, Complete, CloseSession, ClosePanics,
       ProcessDies
  <1>4. ASSUME NEW p \in Party, Deadline(p) \/ TssError(p) \/ Reset(p) \/ Crash(p)
        PROVE  UNCHANGED share
    BY <1>4 DEF Deadline, TssError, LoopFails, Reset, Crash, ProcessDies
  <1>5. QED BY <1>1, <1>2, <1>3, <1>4 DEF Next

\* The call is answered once: with a signature, or with an error.
LEMMA AnswerSteps ==
    ASSUME Inv, [Next]_vars
    PROVE  \/ UNCHANGED Answered
           \/ \E p \in Party : TakeSuccess(p)
           \/ Answered = "none" /\ Answered' = "err"
  <1> USE DEF vars, callVars, Answered
  <1>1. CASE Call
    BY <1>1 DEF Call, WaitGroup, TakeError, TakeReady, TakeLastReady,
       TakeFailure, TakeLastFailure, Return
  <1>2. CASE Canceller \/ KeySign \/ NotFound \/ Cancel \/ Lose
    BY <1>2 DEF Canceller, CancellerStops, CancelSurplus, KeySign, NotFound, Cancel, Lose
  <1>3. ASSUME NEW p \in Party, Worker(p) PROVE UNCHANGED phase
    BY <1>3 DEF Worker, Skip, SendPrepare, DialFails, RecvReady, RecvRefusal,
       SendStart, SendStartFails, RecvFinish
  <1>4. ASSUME NEW p \in Party, ProcessDies(p)
        PROVE  UNCHANGED Answered \/ (Answered = "none" /\ Answered' = "err")
    BY <1>4 DEF ProcessDies
  <1>5. ASSUME NEW p \in Party, Handler(p)
        PROVE  UNCHANGED Answered \/ (Answered = "none" /\ Answered' = "err")
    BY <1>4, <1>5 DEF Handler, RecvPrepare, SendReady, Refuse, RecvStart, NoStart,
       SendRound, SendRoundFails, RecvUpdate, Complete, CloseSession, ClosePanics
  <1>6. ASSUME NEW p \in Party,
               Deadline(p) \/ TssError(p) \/ Reset(p) \/ Crash(p) \/ ShareStored(p)
        PROVE  UNCHANGED Answered \/ (Answered = "none" /\ Answered' = "err")
    BY <1>4, <1>6 DEF Deadline, TssError, LoopFails, Reset, Crash, ShareStored
  <1>7. QED BY <1>1, <1>2, <1>3, <1>5, <1>6 DEF Next

\* Every step is one of ThresholdSign, or changes nothing of it.
LEMMA StepRefines ==
    ASSUME Inv, [Next]_vars
    PROVE  [Sign!Next]_<<share, Signed, Answered>>
  <1>1. ASSUME NEW p \in Party, SendRound(p) \/ SendRoundFails(p)
        PROVE  [Sign!Next]_<<share, Signed, Answered>>
    BY <1>1, RoundRefines DEF Sign!Next
  <1>2. ASSUME NEW p \in Party, TakeSuccess(p)
        PROVE  Sign!Next
    BY <1>2, SuccessRefines DEF Sign!Next
  <1>3. ASSUME NEW p \in Party, ShareStored(p)
        PROVE  Sign!Next
    BY <1>3 DEF ShareStored, callVars, Sign!Next, Sign!Store
  <1>4. ASSUME UNCHANGED <<round, share>>, Answered = "none", Answered' = "err"
        PROVE  Sign!Next
    BY <1>4 DEF Sign!Next, Sign!Fail, Answered
  <1>5. ASSUME UNCHANGED <<round, share, Answered>>
        PROVE  UNCHANGED <<share, Signed, Answered>>
    BY <1>5 DEF Signed
  <1>6. QED
    BY <1>1, <1>2, <1>3, <1>4, <1>5, OtherSteps, ShareSteps, AnswerSteps

\* A signing call, with its messages and faults, implements ThresholdSign.
THEOREM Refinement == Spec => ImplementsThresholdSign
  <1>1. Init => Sign!Init
    BY DEF Init, Sign!Init
  <1>2. Inv /\ [Next]_vars => [Sign!Next]_<<share, Signed, Answered>>
    BY StepRefines
  <1>3. QED
    BY <1>1, <1>2, Invariance, PTL
       DEF Spec, ImplementsThresholdSign, Sign!Spec, Signed, Answered
=============================================================================
