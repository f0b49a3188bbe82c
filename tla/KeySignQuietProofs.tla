-------------------------- MODULE KeySignQuietProofs --------------------------
(***************************************************************************)
(* Proofs about a call of KeySign.tla that nothing disturbs: QuietInv is   *)
(* preserved by every step, so that no handler closes p2pProcessMsgChan    *)
(* under a message, whatever the parties, the threshold, the number of     *)
(* rounds and the validators' verdicts.                                    *)
(***************************************************************************)
EXTENDS KeySignQuiet, KeySignProofs

-----------------------------------------------------------------------------
(* Steps that a call without a disturbance never takes.                    *)

\* The context of the call is not done before it returns, no stream ends
\* before its party has answered, every signer's peers listen, and messages
\* of rounds are only for signers in the loop or before it.
LEMMA NeverTaken ==
    ASSUME Quiet, Inv, QuietInv, NEW p \in Party
    PROVE  /\ ~Cancel /\ ~Skip(p) /\ ~DialFails(p) /\ ~SendStartFails(p)
           /\ ~SendRoundFails(p) /\ ~Deadline(p) /\ ~TssError(p)
           /\ ~ClosePanics(p) /\ ~Reset(p) /\ ~Lose /\ ~Crash(p)
  <1> USE DEF Quiet, QuietInv
  <1>1. ~Cancel /\ ~Deadline(p) /\ ~TssError(p) /\ ~Reset(p) /\ ~Lose /\ ~Crash(p)
    BY DEF Cancel, Deadline, TssError, Reset, Lose, Crash
  <1>2. ~Skip(p) /\ ~DialFails(p)
    BY DEF Skip, DialFails, PhasesInOrder
  <1>3. ~SendStartFails(p)
    BY DEF SendStartFails, Inv, AfterStart, SignersComplete, Waits
  <1>4. ~ClosePanics(p)
    BY DEF ClosePanics, Pending, MessagesExpected
  <1>5. ~SendRoundFails(p)
    <2> SUFFICES ASSUME SendRoundFails(p) PROVE FALSE
      OBVIOUS
    <2>1. /\ handler[p] = "loop" /\ round[p] < Rounds
          /\ p \in chosen /\ Enough(chosen)
      BY DEF SendRoundFails, HasOutput, MoreRounds, Inv, AfterStart
    <2>2. \E q \in chosen : q # p /\ ~Listening(q)
      <3>1. Faults \cap {"reset", "timeout"} = {}
        OBVIOUS
      <3>2. QED BY <3>1 DEF SendRoundFails, Peers
    <2>3. PICK q \in chosen : q # p /\ ~Listening(q)
      BY <2>2
    <2>4. handler[q] \in {"closing", "done"}
      <3>1. q \in Party /\ handler[q] \notin {"none", "validate"}
        BY DEF Inv, TypeOK, ReadyMeansAccepted, Acknowledged
      <3>2. QED BY <2>3, <3>1 DEF Listening, Inv, TypeOK
    <2>5. round[p] = Rounds
      BY <2>1, <2>4 DEF SignersComplete, HasAnswered
    <2>6. QED BY <2>1, <2>5 DEF Inv, TypeOK
  <1>6. QED BY <1>1, <1>2, <1>3, <1>4, <1>5

\* A party that is not in the event loop has no message under way to it.
LEMMA MessagesFrame ==
    ASSUME Inv, MessagesExpected, UNCHANGED <<net, chosen>>,
           NEW p \in Party, NEW pc, handler' = [handler EXCEPT ![p] = pc],
           \A m \in net : m.to # p,
           \A q \in Party : q # p => got'[q] = got[q]
    PROVE  MessagesExpected'
  <1>1. \A m \in net : m.to \in Party
    BY DEF Inv, TypeOK
  <1>2. \A q \in Party : q # p => handler'[q] = handler[q]
    BY DEF Inv, TypeOK
  <1>3. QED BY <1>1, <1>2 DEF MessagesExpected

-----------------------------------------------------------------------------
(* Every other action preserves QuietInv.                                  *)

\* The call begins.
LEMMA KeySignQuiet ==
    ASSUME Inv, QuietInv, KeySign
    PROVE  QuietInv'
  <1> USE DEF KeySign, streamVars, partyVars, QuietInv
  <1>1. PhasesInOrder'
    BY DEF PhasesInOrder, Inv, TypeOK
  <1>2. ReadyWaits'
    BY DEF PhasesInOrder, ReadyWaits, Waits, Enough, Inv, TypeOK,
       BeforePrepare, Acknowledged
  <1>3. SignersComplete'
    BY DEF SignersComplete, Signs, Waits, HasAnswered, Enough, Inv, TypeOK,
       PhasesInOrder, SignersFixed
  <1>4. MessagesExpected'
    BY DEF MessagesExpected, Inv, TypeOK
  <1>5. RoundsInOrder'
    BY DEF RoundsInOrder, HasRound, Peers, Inv, TypeOK
  <1>6. QED BY <1>1, <1>2, <1>3, <1>4, <1>5

\* The call returns at once.
LEMMA NotFoundQuiet ==
    ASSUME Inv, QuietInv, NotFound
    PROVE  QuietInv'
  <1> USE DEF NotFound, streamVars, partyVars, QuietInv
  <1>1. PhasesInOrder'
    BY DEF PhasesInOrder, Inv, TypeOK
  <1>2. ReadyWaits'
    BY DEF PhasesInOrder, ReadyWaits, Waits, Enough, Inv, TypeOK
  <1>3. SignersComplete'
    BY DEF SignersComplete, Signs, Waits, HasAnswered, Enough, Inv, TypeOK
  <1>4. MessagesExpected'
    BY DEF MessagesExpected, Inv, TypeOK
  <1>5. RoundsInOrder'
    BY DEF RoundsInOrder, HasRound, Peers, Inv, TypeOK
  <1>6. QED BY <1>1, <1>2, <1>3, <1>4, <1>5

\* The stream is opened, with Prepare in it.
LEMMA SendPrepareQuiet ==
    ASSUME Inv, QuietInv, NEW p \in Party, SendPrepare(p)
    PROVE  QuietInv'
  <1> USE DEF SendPrepare, partyVars, QuietInv
  <1>1. PhasesInOrder'
    BY DEF PhasesInOrder, Inv, TypeOK
  <1>2. ReadyWaits'
    BY DEF PhasesInOrder, ReadyWaits, Waits, Enough, Inv, TypeOK,
       BeforePrepare, Acknowledged
  <1>3. SignersComplete'
    BY DEF SignersComplete, Signs, Waits, HasAnswered, Enough, Inv, TypeOK
  <1>4. MessagesExpected'
    BY DEF MessagesExpected, Inv, TypeOK
  <1>5. RoundsInOrder'
    BY DEF RoundsInOrder, HasRound, Peers, Inv, TypeOK
  <1>6. QED BY <1>1, <1>2, <1>3, <1>4, <1>5

\* Ready is read while the party waits.
LEMMA RecvReadyQuiet ==
    ASSUME Inv, QuietInv, NEW p \in Party, RecvReady(p)
    PROVE  QuietInv'
  <1> USE DEF RecvReady, IsReady, partyVars, QuietInv
  <1>1. PhasesInOrder'
    BY DEF PhasesInOrder, Inv, TypeOK
  <1>2. ReadyWaits'
    BY DEF PhasesInOrder, ReadyWaits, Waits, Enough, Inv, TypeOK
  <1>3. SignersComplete'
    BY DEF SignersComplete, Signs, Waits, HasAnswered, Enough, Inv, TypeOK
  <1>4. MessagesExpected'
    BY DEF MessagesExpected, Inv, TypeOK
  <1>5. RoundsInOrder'
    BY DEF RoundsInOrder, HasRound, Peers, Inv, TypeOK
  <1>6. QED BY <1>1, <1>2, <1>3, <1>4, <1>5

\* Only a party that has refused is closed.
LEMMA RecvRefusalQuiet ==
    ASSUME Inv, QuietInv, NEW p \in Party, RecvRefusal(p)
    PROVE  QuietInv'
  <1> USE DEF RecvRefusal, IsReady, Receives, partyVars, QuietInv
  <1>1. PhasesInOrder'
    BY DEF PhasesInOrder, Inv, TypeOK
  <1>2. ReadyWaits'
    BY DEF PhasesInOrder, ReadyWaits, Waits, Enough, Inv, TypeOK
  <1>3. SignersComplete'
    BY DEF SignersComplete, Signs, Waits, HasAnswered, Enough, Inv, TypeOK
  <1>4. MessagesExpected'
    BY DEF MessagesExpected, Inv, TypeOK
  <1>5. RoundsInOrder'
    BY DEF RoundsInOrder, HasRound, Peers, Inv, TypeOK
  <1>6. QED BY <1>1, <1>2, <1>3, <1>4, <1>5

\* All goroutines of a phase have ended.
LEMMA WaitGroupQuiet ==
    ASSUME Inv, QuietInv, WaitGroup
    PROVE  QuietInv'
  <1> USE DEF WaitGroup, streamVars, partyVars, QuietInv
  <1>1. PhasesInOrder'
    BY DEF PhasesInOrder, Inv, TypeOK
  <1>2. ReadyWaits'
    BY DEF PhasesInOrder, ReadyWaits, Waits, Enough, Inv, TypeOK
  <1>3. SignersComplete'
    BY DEF SignersComplete, Signs, Waits, HasAnswered, Enough, Inv, TypeOK
  <1>4. MessagesExpected'
    BY DEF MessagesExpected, Inv, TypeOK
  <1>5. RoundsInOrder'
    BY DEF RoundsInOrder, HasRound, Peers, Inv, TypeOK
  <1>6. QED BY <1>1, <1>2, <1>3, <1>4, <1>5

\* A signer is taken, and waits.
LEMMA TakeReadyQuiet ==
    ASSUME Inv, QuietInv, NEW p \in Party, TakeReady(p)
    PROVE  QuietInv'
  <1> USE DEF TakeReady, streamVars, partyVars, QuietInv
  <1>1. PhasesInOrder'
    BY DEF PhasesInOrder, Inv, TypeOK
  <1>2. ReadyWaits'
    BY DEF PhasesInOrder, ReadyWaits, Waits, Enough, Inv, TypeOK, SignersFixed
  <1>3. SignersComplete'
    BY DEF SignersComplete, Signs, Waits, HasAnswered, Enough, Inv, TypeOK
  <1>4. MessagesExpected'
    BY DEF MessagesExpected, Inv, TypeOK
  <1>5. RoundsInOrder'
    BY NothingStarted DEF RoundsInOrder, Inv, TypeOK
  <1>6. QED BY <1>1, <1>2, <1>3, <1>4, <1>5

\* All signers wait when they are fixed.
LEMMA TakeLastReadyQuiet ==
    ASSUME Inv, QuietInv, NEW p \in Party, TakeLastReady(p)
    PROVE  QuietInv'
  <1> USE DEF TakeLastReady, streamVars, partyVars, QuietInv
  <1>1. PhasesInOrder'
    BY DEF PhasesInOrder, Inv, TypeOK
  <1>2. ReadyWaits'
    BY DEF PhasesInOrder, ReadyWaits, Waits, Enough, Inv, TypeOK
  <1>3. SignersComplete'
    BY DEF SignersComplete, Signs, Waits, HasAnswered, Enough, Inv, TypeOK,
       ReadyWaits, SignersFixed
  <1>4. MessagesExpected'
    BY DEF MessagesExpected, Inv, TypeOK
  <1>5. RoundsInOrder'
    BY NothingStarted DEF RoundsInOrder, Inv, TypeOK
  <1>6. QED BY <1>1, <1>2, <1>3, <1>4, <1>5

\* A party that is not a signer is cancelled.
LEMMA CancelSurplusQuiet ==
    ASSUME Inv, QuietInv, NEW p \in Party, CancelSurplus(p)
    PROVE  QuietInv'
  <1> USE DEF CancelSurplus, partyVars, QuietInv
  <1>1. PhasesInOrder'
    BY DEF PhasesInOrder, Inv, TypeOK
  <1>2. ReadyWaits'
    BY DEF PhasesInOrder, ReadyWaits, Waits, Enough, Inv, TypeOK
  <1>3. SignersComplete'
    BY DEF SignersComplete, Signs, Waits, HasAnswered, Enough, Inv, TypeOK,
       ReadyWaits
  <1>4. MessagesExpected'
    BY DEF MessagesExpected, Inv, TypeOK
  <1>5. RoundsInOrder'
    BY DEF RoundsInOrder, HasRound, Peers, Inv, TypeOK
  <1>6. QED BY <1>1, <1>2, <1>3, <1>4, <1>5

\* The canceller gives up.
LEMMA CancellerStopsQuiet ==
    ASSUME Inv, QuietInv, CancellerStops
    PROVE  QuietInv'
  <1> USE DEF CancellerStops, streamVars, partyVars, QuietInv
  <1>1. PhasesInOrder'
    BY DEF PhasesInOrder, Inv, TypeOK
  <1>2. ReadyWaits'
    BY DEF PhasesInOrder, ReadyWaits, Waits, Enough, Inv, TypeOK
  <1>3. SignersComplete'
    BY DEF SignersComplete, Signs, Waits, HasAnswered, Enough, Inv, TypeOK
  <1>4. MessagesExpected'
    BY DEF MessagesExpected, Inv, TypeOK
  <1>5. RoundsInOrder'
    BY DEF RoundsInOrder, HasRound, Peers, Inv, TypeOK
  <1>6. QED BY <1>1, <1>2, <1>3, <1>4, <1>5

\* Start goes to a signer that waits.
LEMMA SendStartQuiet ==
    ASSUME Inv, QuietInv, NEW p \in Party, SendStart(p)
    PROVE  QuietInv'
  <1> USE DEF SendStart, partyVars, QuietInv
  <1>1. PhasesInOrder'
    BY DEF PhasesInOrder, Inv, TypeOK
  <1>2. ReadyWaits'
    BY DEF PhasesInOrder, ReadyWaits, Waits, Enough, Inv, TypeOK, AfterStart,
       SignersComplete, SignersFixed
  <1>3. SignersComplete'
    BY DEF SignersComplete, Signs, Waits, HasAnswered, Enough, Inv, TypeOK
  <1>4. MessagesExpected'
    BY DEF MessagesExpected, Inv, TypeOK
  <1>5. RoundsInOrder'
    BY DEF RoundsInOrder, HasRound, Peers, Inv, TypeOK
  <1>6. QED BY <1>1, <1>2, <1>3, <1>4, <1>5

\* The goroutine of a signer ends when the signer has answered.
LEMMA RecvFinishQuiet ==
    ASSUME Inv, QuietInv, NEW p \in Party, RecvFinish(p)
    PROVE  QuietInv'
  <1> USE DEF RecvFinish, Receives, partyVars, QuietInv
  <1>1. PhasesInOrder'
    BY DEF PhasesInOrder, Inv, TypeOK
  <1>2. ReadyWaits'
    BY DEF PhasesInOrder, ReadyWaits, Waits, Enough, Inv, TypeOK
  <1>3. SignersComplete'
    BY DEF SignersComplete, Signs, Waits, HasAnswered, Enough, Inv, TypeOK
  <1>4. MessagesExpected'
    BY DEF MessagesExpected, Inv, TypeOK
  <1>5. RoundsInOrder'
    BY DEF RoundsInOrder, HasRound, Peers, Inv, TypeOK
  <1>6. QED BY <1>1, <1>2, <1>3, <1>4, <1>5

\* The call returns before there are signers, or when all have answered.
LEMMA TakeErrorQuiet ==
    ASSUME Inv, QuietInv, TakeError
    PROVE  QuietInv'
  <1> USE DEF TakeError, Return, partyVars, QuietInv
  <1>1. PhasesInOrder'
    BY DEF PhasesInOrder, Inv, TypeOK
  <1>2. ReadyWaits'
    BY DEF PhasesInOrder, ReadyWaits, Waits, Enough, Inv, TypeOK,
       SignersComplete, HasAnswered, SignersFixed
  <1>3. SignersComplete'
    BY DEF SignersComplete, Signs, Waits, HasAnswered, Enough, Inv, TypeOK,
       PhasesInOrder
  <1>4. MessagesExpected'
    BY DEF MessagesExpected, Inv, TypeOK
  <1>5. RoundsInOrder'
    BY DEF RoundsInOrder, HasRound, Peers, Inv, TypeOK
  <1>6. QED BY <1>1, <1>2, <1>3, <1>4, <1>5

\* The call returns when all signers have answered.
LEMMA TakeSuccessQuiet ==
    ASSUME Inv, QuietInv, NEW p \in Party, TakeSuccess(p)
    PROVE  QuietInv'
  <1> USE DEF TakeSuccess, Return, partyVars, QuietInv
  <1>1. PhasesInOrder'
    BY DEF PhasesInOrder, Inv, TypeOK
  <1>2. ReadyWaits'
    BY DEF PhasesInOrder, ReadyWaits, Waits, Enough, Inv, TypeOK,
       SignersComplete, HasAnswered, SignersFixed
  <1>3. SignersComplete'
    BY DEF SignersComplete, Signs, Waits, HasAnswered, Enough, Inv, TypeOK,
       PhasesInOrder
  <1>4. MessagesExpected'
    BY DEF MessagesExpected, Inv, TypeOK
  <1>5. RoundsInOrder'
    BY DEF RoundsInOrder, HasRound, Peers, Inv, TypeOK
  <1>6. QED BY <1>1, <1>2, <1>3, <1>4, <1>5

\* A failure is counted.
LEMMA TakeFailureQuiet ==
    ASSUME Inv, QuietInv, NEW p \in Party, TakeFailure(p)
    PROVE  QuietInv'
  <1> USE DEF TakeFailure, streamVars, partyVars, QuietInv
  <1>1. PhasesInOrder'
    BY DEF PhasesInOrder, Inv, TypeOK
  <1>2. ReadyWaits'
    BY DEF PhasesInOrder, ReadyWaits, Waits, Enough, Inv, TypeOK
  <1>3. SignersComplete'
    BY DEF SignersComplete, Signs, Waits, HasAnswered, Enough, Inv, TypeOK
  <1>4. MessagesExpected'
    BY DEF MessagesExpected, Inv, TypeOK
  <1>5. RoundsInOrder'
    BY DEF RoundsInOrder, HasRound, Peers, Inv, TypeOK
  <1>6. QED BY <1>1, <1>2, <1>3, <1>4, <1>5

\* The call returns when all signers have answered.
LEMMA TakeLastFailureQuiet ==
    ASSUME Inv, QuietInv, NEW p \in Party, TakeLastFailure(p)
    PROVE  QuietInv'
  <1> USE DEF TakeLastFailure, Return, partyVars, QuietInv
  <1>1. PhasesInOrder'
    BY DEF PhasesInOrder, Inv, TypeOK
  <1>2. ReadyWaits'
    BY DEF PhasesInOrder, ReadyWaits, Waits, Enough, Inv, TypeOK,
       SignersComplete, HasAnswered, SignersFixed
  <1>3. SignersComplete'
    BY DEF SignersComplete, Signs, Waits, HasAnswered, Enough, Inv, TypeOK,
       PhasesInOrder
  <1>4. MessagesExpected'
    BY DEF MessagesExpected, Inv, TypeOK
  <1>5. RoundsInOrder'
    BY DEF RoundsInOrder, HasRound, Peers, Inv, TypeOK
  <1>6. QED BY <1>1, <1>2, <1>3, <1>4, <1>5

\* Prepare is read.
LEMMA RecvPrepareQuiet ==
    ASSUME Inv, QuietInv, NEW p \in Party, RecvPrepare(p)
    PROVE  QuietInv'
  <1> USE DEF RecvPrepare, Goto, callVars, QuietInv
  <1>1. PhasesInOrder'
    BY DEF PhasesInOrder, Inv, TypeOK
  <1>2. ReadyWaits'
    BY DEF PhasesInOrder, ReadyWaits, Waits, Enough, Inv, TypeOK
  <1>3. SignersComplete'
    BY DEF SignersComplete, Signs, Waits, HasAnswered, Enough, Inv, TypeOK,
       BeforePrepare, Acknowledged
  <1>4. MessagesExpected'
    <2>1. handler[p] = "none" /\ got' = got /\ UNCHANGED <<net, chosen>>
      BY DEF Inv, BeforePrepare
    <2>2. \A m \in net : m.to # p
      BY <2>1 DEF MessagesExpected
    <2>3. QED BY <2>1, <2>2, MessagesFrame
  <1>5. RoundsInOrder'
    BY DEF RoundsInOrder, HasRound, Peers, Inv, TypeOK
  <1>6. QED BY <1>1, <1>2, <1>3, <1>4, <1>5

\* Ready is sent, and the party waits.
LEMMA SendReadyQuiet ==
    ASSUME Inv, QuietInv, NEW p \in Party, SendReady(p)
    PROVE  QuietInv'
  <1> USE DEF SendReady, Goto, callVars, QuietInv
  <1>1. PhasesInOrder'
    BY DEF PhasesInOrder, Inv, TypeOK
  <1>2. ReadyWaits'
    BY DEF PhasesInOrder, ReadyWaits, Waits, Enough, Inv, TypeOK
  <1>3. SignersComplete'
    BY DEF SignersComplete, Signs, Waits, HasAnswered, Enough, Inv, TypeOK
  <1>4. MessagesExpected'
    BY DEF MessagesExpected, Inv, TypeOK
  <1>5. RoundsInOrder'
    BY DEF RoundsInOrder, HasRound, Peers, Inv, TypeOK, AfterStart,
       ReadyMeansAccepted, Acknowledged
  <1>6. QED BY <1>1, <1>2, <1>3, <1>4, <1>5

\* A party that is not a signer answers.
LEMMA RefuseQuiet ==
    ASSUME Inv, QuietInv, NEW p \in Party, Refuse(p)
    PROVE  QuietInv'
  <1> USE DEF Refuse, Goto, Answer, callVars, QuietInv
  <1>1. PhasesInOrder'
    BY DEF PhasesInOrder, Inv, TypeOK
  <1>2. ReadyWaits'
    BY DEF PhasesInOrder, ReadyWaits, Waits, Enough, Inv, TypeOK
  <1>3. SignersComplete'
    BY DEF SignersComplete, Signs, Waits, HasAnswered, Enough, Inv, TypeOK
  <1>4. MessagesExpected'
    <2>1. /\ handler[p] = "validate" /\ UNCHANGED <<net, chosen>>
          /\ \A q \in Party : q # p => got'[q] = got[q]
      BY DEF Inv, TypeOK
    <2>2. \A m \in net : m.to # p
      BY <2>1 DEF MessagesExpected
    <2>3. QED BY <2>1, <2>2, MessagesFrame
  <1>5. RoundsInOrder'
    BY DEF RoundsInOrder, HasRound, Peers, Inv, TypeOK
  <1>6. QED BY <1>1, <1>2, <1>3, <1>4, <1>5

\* A signer starts, before its first round.
LEMMA RecvStartQuiet ==
    ASSUME Inv, QuietInv, NEW p \in Party, RecvStart(p)
    PROVE  QuietInv'
  <1> USE DEF RecvStart, Goto, callVars, QuietInv
  <1>1. PhasesInOrder'
    BY DEF PhasesInOrder, Inv, TypeOK
  <1>2. ReadyWaits'
    BY DEF PhasesInOrder, ReadyWaits, Waits, Enough, Inv, TypeOK
  <1>3. SignersComplete'
    BY DEF SignersComplete, Signs, Waits, HasAnswered, Enough, Inv, TypeOK
  <1>4. MessagesExpected'
    BY DEF MessagesExpected, Inv, TypeOK
  <1>5. RoundsInOrder'
    BY DEF RoundsInOrder, HasRound, Peers, Inv, TypeOK
  <1>6. QED BY <1>1, <1>2, <1>3, <1>4, <1>5

\* Only a party that is not a signer ends its wait.
LEMMA NoStartQuiet ==
    ASSUME Inv, QuietInv, NEW p \in Party, NoStart(p)
    PROVE  QuietInv'
  <1> USE DEF NoStart, Goto, Answer, callVars, QuietInv
  <1>1. PhasesInOrder'
    BY DEF PhasesInOrder, Inv, TypeOK
  <1>2. ReadyWaits'
    BY DEF PhasesInOrder, ReadyWaits, Waits, Enough, Inv, TypeOK,
       BeforePrepare, Acknowledged
  <1>3. SignersComplete'
    BY DEF SignersComplete, Signs, Waits, HasAnswered, Enough, Inv, TypeOK
  <1>4. MessagesExpected'
    <2>1. p \notin chosen
      BY DEF ReadyWaits, SignersComplete, Waits, Signs, HasAnswered, Inv, TypeOK
    <2>2. /\ UNCHANGED <<net, chosen>>
          /\ \A q \in Party : q # p => got'[q] = got[q]
      BY DEF Inv, TypeOK
    <2>3. \A m \in net : m.to # p
      BY <2>1 DEF MessagesExpected
    <2>4. QED BY <2>2, <2>3, MessagesFrame
  <1>5. RoundsInOrder'
    BY DEF RoundsInOrder, HasRound, Peers, Inv, TypeOK
  <1>6. QED BY <1>1, <1>2, <1>3, <1>4, <1>5

\* A round goes to signers that have not answered.
LEMMA SendRoundQuiet ==
    ASSUME Inv, QuietInv, NEW p \in Party, SendRound(p)
    PROVE  QuietInv'
  <1> USE DEF SendRound, HasOutput, MoreRounds, Peers, Sent, callVars, streamVars, QuietInv
  <1>1. PhasesInOrder'
    BY DEF PhasesInOrder, Inv, TypeOK
  <1>2. ReadyWaits'
    BY DEF PhasesInOrder, ReadyWaits, Waits, Enough, Inv, TypeOK
  <1>3. SignersComplete'
    BY DEF SignersComplete, Signs, Waits, HasAnswered, Enough, Inv, TypeOK
  <1>4. MessagesExpected'
    <2>1. /\ p \in chosen /\ Enough(chosen)
          /\ round[p] \in 0..(Rounds - 1) /\ Rounds \in Nat
      BY RoundsAssumption DEF Inv, TypeOK, AfterStart
    <2>2. ASSUME NEW q \in chosen, q # p
          PROVE  /\ handler[q] \in {"wait", "loop"}
                 /\ <<round[p] + 1, p>> \notin got[q]
      <3>1. q \in Party /\ handler[q] \notin {"none", "validate"}
        BY DEF Inv, TypeOK, ReadyMeansAccepted, Acknowledged
      <3>2. ~HasAnswered(q)
        BY <2>1 DEF SignersComplete
      <3>3. handler[q] \in {"wait", "loop"}
        BY <3>1, <3>2 DEF HasAnswered, Inv, TypeOK
      <3>4. round[p] + 1 \in 1..Rounds
        BY <2>1
      <3>5. <<round[p] + 1, p>> \notin got[q]
        BY <2>1, <3>1, <3>4 DEF Inv, RoundsWereSent
      <3>6. QED BY <3>3, <3>5
    <2>3. ASSUME NEW m \in net'
          PROVE  /\ m.from \in chosen /\ m.to \in chosen /\ m.from # m.to
                 /\ handler[m.to] \in {"wait", "loop"}
                 /\ <<m.kind, m.from>> \notin got[m.to]
      <3>1. CASE m \in net
        BY <3>1 DEF MessagesExpected
      <3>2. CASE m \notin net
        <4>1. m.from = p /\ m.kind = round[p] + 1 /\ m.to \in chosen /\ m.to # p
          BY <3>2
        <4>2. QED BY <2>1, <2>2, <4>1
      <3>3. QED BY <3>1, <3>2
    <2>4. QED BY <2>3 DEF MessagesExpected
  <1>5. RoundsInOrder'
    <2>1. ASSUME NEW q \in Party, handler[q] = "wait"
          PROVE  round'[q] = 0
      BY <2>1 DEF RoundsInOrder, Inv, TypeOK
    <2>2. ASSUME NEW q \in Party, q # p, handler[q] = "loop",
                 NEW k \in 1..Rounds, k < round'[q]
          PROVE  HasRound(q, k)
      BY <2>2 DEF RoundsInOrder, Inv, TypeOK
    <2>3. ASSUME NEW k \in 1..Rounds, k < round'[p]
          PROVE  HasRound(p, k)
      <3>1. round'[p] = round[p] + 1 /\ round[p] \in 0..Rounds
        BY DEF Inv, TypeOK
      <3>2. CASE k = round[p]
        BY <3>2
      <3>3. CASE k < round[p]
        BY <3>3 DEF RoundsInOrder
      <3>4. QED BY <2>3, <3>1, <3>2, <3>3
    <2>4. QED BY <2>1, <2>2, <2>3 DEF RoundsInOrder, HasRound, Peers
  <1>6. QED BY <1>1, <1>2, <1>3, <1>4, <1>5

\* A message is handed over once.
LEMMA RecvUpdateQuiet ==
    ASSUME Inv, QuietInv, NEW p \in Party, RecvUpdate(p)
    PROVE  QuietInv'
  <1> USE DEF RecvUpdate, callVars, streamVars, QuietInv
  <1>1. PhasesInOrder'
    BY DEF PhasesInOrder, Inv, TypeOK
  <1>2. ReadyWaits'
    BY DEF PhasesInOrder, ReadyWaits, Waits, Enough, Inv, TypeOK
  <1>3. SignersComplete'
    BY DEF SignersComplete, Signs, Waits, HasAnswered, Enough, Inv, TypeOK
  <1>4. MessagesExpected'
    <2>1. PICK m \in net :
             /\ m.to = p
             /\ net' = net \ {m}
             /\ got' = [got EXCEPT ![p] = @ \cup {<<m.kind, m.from>>}]
      OBVIOUS
    <2>2. ASSUME NEW n \in net, n # m
          PROVE  <<n.kind, n.from>> \notin got'[n.to]
      <3>1. /\ n \in [from : Party, to : Party, kind : 1..Rounds]
            /\ m \in [from : Party, to : Party, kind : 1..Rounds]
        BY DEF Inv, TypeOK
      <3>2. ~(n.to = m.to /\ n.kind = m.kind /\ n.from = m.from)
        BY <2>2, <3>1
      <3>3. <<n.kind, n.from>> \notin got[n.to]
        BY DEF MessagesExpected
      <3>4. QED BY <2>1, <3>1, <3>2, <3>3 DEF Inv, TypeOK
    <2>3. QED BY <2>1, <2>2 DEF MessagesExpected
  <1>5. RoundsInOrder'
    BY DEF RoundsInOrder, HasRound, Peers, Inv, TypeOK
  <1>6. QED BY <1>1, <1>2, <1>3, <1>4, <1>5

\* A signer answers when it has had all rounds of all signers.
LEMMA CompleteQuiet ==
    ASSUME Inv, QuietInv, NEW p \in Party, Complete(p)
    PROVE  QuietInv'
  <1> USE DEF Complete, Goto, Answer, callVars, QuietInv
  <1>1. PhasesInOrder'
    BY DEF PhasesInOrder, Inv, TypeOK
  <1>2. ReadyWaits'
    BY DEF PhasesInOrder, ReadyWaits, Waits, Enough, Inv, TypeOK, AfterStart,
       BeforePrepare
  <1>3. SignersComplete'
    <2>1. p \in chosen /\ Enough(chosen)
      BY DEF Inv, AfterStart
    <2>2. ASSUME NEW q \in chosen
          PROVE  round[q] = Rounds
      <3>1. CASE q = p
        BY <3>1
      <3>2. CASE q # p
        <4>1. q \in Party /\ <<Rounds, q>> \in got[p] /\ Rounds \in 1..Rounds
          BY <3>2 DEF HasRound, Peers, Inv, TypeOK
        <4>2. round[q] >= Rounds
          BY <4>1 DEF Inv, RoundsWereSent
        <4>3. QED BY <4>1, <4>2 DEF Inv, TypeOK
      <3>3. QED BY <3>1, <3>2
    <2>3. QED
      BY <2>1, <2>2 DEF SignersComplete, Signs, Waits, HasAnswered, Enough,
         Inv, TypeOK
  <1>4. MessagesExpected'
    <2>1. ASSUME NEW m \in net, m.to = p
          PROVE  FALSE
      <3>1. /\ m.kind \in 1..Rounds /\ m.from \in Peers(p)
            /\ <<m.kind, m.from>> \notin got[p]
        BY <2>1 DEF MessagesExpected, Peers, Inv, TypeOK
      <3>2. HasRound(p, m.kind)
        <4>1. CASE m.kind = Rounds
          BY <4>1
        <4>2. CASE m.kind < Rounds
          BY <3>1, <4>2 DEF RoundsInOrder, Inv, TypeOK
        <4>3. QED BY <3>1, <4>1, <4>2, RoundsAssumption
      <3>3. QED BY <3>1, <3>2 DEF HasRound
    <2>2. /\ UNCHANGED <<net, chosen>>
          /\ \A q \in Party : q # p => got'[q] = got[q]
      BY DEF Inv, TypeOK
    <2>3. QED BY <2>1, <2>2, MessagesFrame
  <1>5. RoundsInOrder'
    BY DEF RoundsInOrder, HasRound, Peers, Inv, TypeOK
  <1>6. QED BY <1>1, <1>2, <1>3, <1>4, <1>5

\* A handler that has answered ends.
LEMMA CloseSessionQuiet ==
    ASSUME Inv, QuietInv, NEW p \in Party, CloseSession(p)
    PROVE  QuietInv'
  <1> USE DEF CloseSession, Goto, callVars, QuietInv
  <1>1. PhasesInOrder'
    BY DEF PhasesInOrder, Inv, TypeOK
  <1>2. ReadyWaits'
    BY DEF PhasesInOrder, ReadyWaits, Waits, Enough, Inv, TypeOK,
       BeforePrepare
  <1>3. SignersComplete'
    BY DEF SignersComplete, Signs, Waits, HasAnswered, Enough, Inv, TypeOK
  <1>4. MessagesExpected'
    BY DEF MessagesExpected, Inv, TypeOK
  <1>5. RoundsInOrder'
    BY DEF RoundsInOrder, HasRound, Peers, Inv, TypeOK
  <1>6. QED BY <1>1, <1>2, <1>3, <1>4, <1>5

\* A key generation ends late.
LEMMA ShareStoredQuiet ==
    ASSUME Inv, QuietInv, NEW p \in Party, ShareStored(p)
    PROVE  QuietInv'
  <1> USE DEF ShareStored, callVars, streamVars, QuietInv
  <1>1. PhasesInOrder'
    BY DEF PhasesInOrder, Inv, TypeOK
  <1>2. ReadyWaits'
    BY DEF PhasesInOrder, ReadyWaits, Waits, Enough, Inv, TypeOK
  <1>3. SignersComplete'
    BY DEF SignersComplete, Signs, Waits, HasAnswered, Enough, Inv, TypeOK
  <1>4. MessagesExpected'
    BY DEF MessagesExpected, Inv, TypeOK
  <1>5. RoundsInOrder'
    BY DEF RoundsInOrder, HasRound, Peers, Inv, TypeOK
  <1>6. QED BY <1>1, <1>2, <1>3, <1>4, <1>5

-----------------------------------------------------------------------------

LEMMA InitQuiet == Init => QuietInv
  BY DEF Init, QuietInv, PhasesInOrder, ReadyWaits, SignersComplete,
     MessagesExpected, RoundsInOrder, Waits, HasAnswered

\* Every step of a call that nothing disturbs.
LEMMA StepQuiet ==
    ASSUME Quiet, Inv, QuietInv, [Next]_vars
    PROVE  QuietInv'
  <1>1. CASE UNCHANGED vars
    BY <1>1 DEF vars, callVars, streamVars, partyVars, QuietInv, PhasesInOrder,
       ReadyWaits, SignersComplete, MessagesExpected, RoundsInOrder, Waits, Signs,
       HasAnswered, HasRound, Peers, Enough
  <1>2. CASE KeySign \/ NotFound \/ Cancel \/ Lose
    BY <1>2, CoordAssumption, NeverTaken, KeySignQuiet, NotFoundQuiet
  <1>3. CASE Call
    BY <1>3, WaitGroupQuiet, TakeErrorQuiet, TakeReadyQuiet, TakeLastReadyQuiet,
       TakeSuccessQuiet, TakeFailureQuiet, TakeLastFailureQuiet DEF Call
  <1>4. CASE Canceller
    BY <1>4, CancelSurplusQuiet, CancellerStopsQuiet DEF Canceller
  <1>5. ASSUME NEW p \in Party, Worker(p) PROVE QuietInv'
    BY <1>5, NeverTaken, SendPrepareQuiet, RecvReadyQuiet, RecvRefusalQuiet,
       SendStartQuiet, RecvFinishQuiet DEF Worker
  <1>6. ASSUME NEW p \in Party, Handler(p) PROVE QuietInv'
    BY <1>6, NeverTaken, RecvPrepareQuiet, SendReadyQuiet, RefuseQuiet,
       RecvStartQuiet, NoStartQuiet, SendRoundQuiet, RecvUpdateQuiet,
       CompleteQuiet, CloseSessionQuiet DEF Handler
  <1>7. ASSUME NEW p \in Party,
               Deadline(p) \/ TssError(p) \/ Reset(p) \/ Crash(p) \/ ShareStored(p)
        PROVE  QuietInv'
    BY <1>7, NeverTaken, ShareStoredQuiet
  <1>8. QED BY <1>1, <1>2, <1>3, <1>4, <1>5, <1>6, <1>7 DEF Next

\* How far the parts of an undisturbed call can be apart (KeySignQuiet.tla):
\* true in every reachable state, for every choice of signers and whichever
\* parties the validators keep out.
THEOREM Undisturbed ==
    ASSUME Quiet
    PROVE  Spec => []QuietInv
  <1>1. Inv /\ QuietInv /\ [Next]_vars => QuietInv'
    BY StepQuiet
  <1>2. QED BY <1>1, InitQuiet, Invariance, PTL DEF Spec

\* handleKeySign's deferred close(p2pProcessMsgChan) never meets a goroutine
\* that is sending a message on the channel, a panic of the whole process, as
\* long as nothing disturbs the call.
THEOREM NoPanic ==
    ASSUME Quiet
    PROVE  Spec => [](\A p \in Party : handler[p] = "closing" => ~Pending(p))
  <1>1. QuietInv => \A p \in Party : handler[p] = "closing" => ~Pending(p)
    BY DEF QuietInv, MessagesExpected, Pending
  <1>2. QED BY <1>1, Undisturbed, PTL
=============================================================================
