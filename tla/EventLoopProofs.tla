--------------------------- MODULE EventLoopProofs ---------------------------
(***************************************************************************)
(* Proofs about EventLoop.tla, for every number of peers, of rounds and of *)
(* messages per round: its inductive invariant, and that it implements     *)
(* LocalRounds.tla.                                                        *)
(***************************************************************************)
EXTENDS EventLoopInv, FiniteSetTheorems, TLAPS

-----------------------------------------------------------------------------
(* Lemmas about the operators.                                             *)

\* A message is its round, its peer and its number.
LEMMA MsgIs ==
    /\ \A k \in 1..Rounds, q \in Peer : \A i \in 1..Outs[k] : <<k, q, i>> \in Msg
    /\ \A m \in Msg : \E k \in 1..Rounds, q \in Peer : \E i \in 1..Outs[k] : m = <<k, q, i>>
  BY DEF Msg

\* Every round has a first message.
LEMMA OutsPositive ==
    \A k \in 1..Rounds : Outs[k] \in Nat /\ Outs[k] > 0 /\ 1 \in 1..Outs[k]
  BY RoundsAssumption, OutsAssumption

\* The current round is complete when all of it is stored.
LEMMA CompletesIs ==
    ASSUME NEW m, Completes(stored \cup {m}), stored' = stored \cup {m}
    PROVE  current \in 1..Rounds /\ \A k : k = current => AllStored(k)'
  BY DEF Completes, AllStored

\* What is stored stays stored.
LEMMA StoredGrows ==
    ASSUME stored \subseteq stored', NEW k, AllStored(k)
    PROVE  AllStored(k)'
  BY DEF AllStored

-----------------------------------------------------------------------------
(* The invariant.                                                          *)

LEMMA InitInv == Init => Inv
  <1> SUFFICES ASSUME Init PROVE Inv OBVIOUS
  <1> USE RoundsAssumption, OutsPositive DEF Init
  <1>1. TypeOK BY DEF TypeOK
  <1>2. OneHolder BY DEF OneHolder
  <1>3. LeftInRound BY DEF LeftInRound
  <1>4. StoredInOrder BY DEF StoredInOrder
  <1>5. SentInOrder BY DEF SentInOrder
  <1>6. QED BY <1>1, <1>2, <1>3, <1>4, <1>5 DEF Inv

LEMMA StartPartyInv == Inv /\ StartParty => Inv'
  <1> SUFFICES ASSUME Inv, StartParty PROVE Inv' OBVIOUS
  <1> USE RoundsAssumption, OutsPositive DEF StartParty
  <1>0. TypeOK /\ OneHolder /\ LeftInRound /\ StoredInOrder /\ SentInOrder BY DEF Inv
  <1>1. TypeOK' BY <1>0 DEF TypeOK
  <1>2. \A m \in Msg : upd[m] \notin {"emit", "end"} BY <1>0 DEF OneHolder
  <1>3. OneHolder' BY <1>2 DEF OneHolder
  <1>4. LeftInRound' BY <1>0, <1>2 DEF LeftInRound, TypeOK
  <1>5. StoredInOrder' BY <1>0 DEF StoredInOrder, HasTaken, AllStored
  <1>6. current = 0 BY <1>0 DEF LeftInRound
  <1>7. SentInOrder'
    <2> SUFFICES ASSUME loop = "select" PROVE SentInOrder' BY DEF SentInOrder
    <2>1. \A k \in 1..Rounds : sent[k] = 0 BY <1>0, <1>6 DEF SentInOrder
    <2>2. QED BY <2>1, <1>2 DEF SentInOrder
  <1>8. QED BY <1>1, <1>3, <1>4, <1>5, <1>7 DEF Inv

LEMMA StartEndsInv == Inv /\ StartEnds => Inv'
  <1> SUFFICES ASSUME Inv, StartEnds PROVE Inv' OBVIOUS
  <1> USE RoundsAssumption, OutsPositive DEF StartEnds, RoundFails
  <1>0. TypeOK /\ OneHolder /\ LeftInRound /\ StoredInOrder /\ SentInOrder BY DEF Inv
  <1>1. TypeOK' BY <1>0 DEF TypeOK
  <1>2. \A m \in Msg : upd[m] \notin {"emit", "end"} BY <1>0 DEF OneHolder
  <1>3. OneHolder' BY <1>2 DEF OneHolder
  <1>4. LeftInRound'
    <2>1. left' = 0 /\ start' # "lock" OBVIOUS
    <2>2. current' \in 1..Rounds => left' <= Outs[current'] BY <2>1
    <2>3. \A m \in Msg : upd'[m] \notin {"emit", "end"} BY <1>2
    <2>4. ~(left' > 0) BY <2>1
    <2>5. (start = "lock" => current = 0)' BY <2>1
    <2>6. QED BY <2>2, <2>3, <2>4, <2>5 DEF LeftInRound
  <1>5. StoredInOrder'
    <2>1. \A m \in stored' : HasTaken(m)' BY <1>0 DEF StoredInOrder, HasTaken
    <2>2. \A k : AllStored(k) => AllStored(k)' BY DEF AllStored
    <2>3. \A m \in Msg : upd'[m] # "end" BY <1>2
    <2>4. \A k \in 1..Rounds : current' = k + 1 => current = k + 1 \/ k = Rounds
      BY <1>0 DEF TypeOK
    <2>5. QED BY <1>0, <2>1, <2>2, <2>3, <2>4 DEF StoredInOrder
  <1>6. SentInOrder' BY <1>0, <1>2 DEF SentInOrder, TypeOK
  <1>7. QED BY <1>1, <1>3, <1>4, <1>5, <1>6 DEF Inv

\* Arrive and TakeUpdate move a goroutine that does not hold the lock.
LEMMA MoveInv ==
    ASSUME Inv, NEW m \in Msg,
           \/ upd[m] = "none" /\ upd' = [upd EXCEPT ![m] = "stream"]
           \/ upd[m] = "stream" /\ upd' = [upd EXCEPT ![m] = "lock"],
           UNCHANGED <<loop, start, lock, current, left, stored, sent>>
    PROVE  Inv'
  <1>0. TypeOK /\ OneHolder /\ LeftInRound /\ StoredInOrder /\ SentInOrder BY DEF Inv
  <1>1. TypeOK' BY <1>0 DEF TypeOK
  <1>2. \A n \in Msg : /\ upd'[n] = "emit" <=> upd[n] = "emit"
                       /\ upd'[n] = "end" <=> upd[n] = "end"
                       /\ HasTaken(n) => HasTaken(n)'
    BY <1>0 DEF TypeOK, HasTaken
  <1>3. OneHolder' BY <1>0, <1>2 DEF OneHolder
  <1>4. LeftInRound' BY <1>0, <1>2 DEF LeftInRound
  <1>5. StoredInOrder' BY <1>0, <1>2 DEF StoredInOrder, AllStored, TypeOK
  <1>6. SentInOrder' BY <1>0, <1>2 DEF SentInOrder
  <1>7. QED BY <1>1, <1>3, <1>4, <1>5, <1>6 DEF Inv

LEMMA StoreInv == ASSUME NEW m \in Msg, Inv, Store(m) PROVE Inv'
  <1> USE DEF Store
  <1>0. TypeOK /\ OneHolder /\ LeftInRound /\ StoredInOrder /\ SentInOrder BY DEF Inv
  <1>1. TypeOK' BY <1>0 DEF TypeOK
  <1>2. \A n \in Msg : /\ upd[n] \notin {"emit", "end"}
                       /\ upd'[n] \notin {"emit", "end"}
                       /\ HasTaken(n) => HasTaken(n)'
    BY <1>0 DEF TypeOK, OneHolder, HasTaken
  <1>3. OneHolder' BY <1>0, <1>2 DEF OneHolder
  <1>4. LeftInRound' BY <1>0, <1>2 DEF LeftInRound
  <1>5. StoredInOrder'
    <2>1. HasTaken(m)' BY <1>0 DEF TypeOK, HasTaken
    <2>2. \A n \in stored' : HasTaken(n)' BY <2>1, <1>0, <1>2 DEF StoredInOrder, TypeOK
    <2>3. stored \subseteq stored' OBVIOUS
    <2>4. \A k \in 1..Rounds : AllStored(k) => AllStored(k)' BY <2>3, StoredGrows
    <2>5. QED BY <2>2, <2>4, <1>0, <1>2 DEF StoredInOrder
  <1>6. SentInOrder' BY <1>0, <1>2 DEF SentInOrder
  <1>7. QED BY <1>1, <1>3, <1>4, <1>5, <1>6 DEF Inv

LEMMA AdvanceInv == ASSUME NEW m \in Msg, Inv, Advance(m) PROVE Inv'
  <1> USE RoundsAssumption, OutsPositive DEF Advance
  <1>0. TypeOK /\ OneHolder /\ LeftInRound /\ StoredInOrder /\ SentInOrder BY DEF Inv
  <1>a. current \in 1..Rounds /\ \A k : k = current => AllStored(k)' BY CompletesIs
  <1>b. left = 0 BY <1>0 DEF LeftInRound, TypeOK
  <1>1. TypeOK' BY <1>0, <1>a DEF TypeOK
  <1>2. \A n \in Msg : /\ upd[n] \notin {"emit", "end"}
                       /\ upd'[n] \in {"emit", "end"} => n = m
                       /\ HasTaken(n) => HasTaken(n)'
    BY <1>0 DEF TypeOK, OneHolder, HasTaken
  <1>3. OneHolder' BY <1>0, <1>2 DEF OneHolder
  <1>c. upd'[m] = (IF current < Rounds THEN "emit" ELSE "end") BY <1>0 DEF TypeOK
  <1>4. LeftInRound'
    <2>1. start # "lock" BY <1>0, <1>a DEF LeftInRound
    <2>2. left' > 0 => current + 1 \in 1..Rounds BY <1>a
    <2>3. current + 1 \in 1..Rounds => left' = Outs[current + 1] BY <1>a
    <2>4. \A n \in Msg : upd'[n] = "end" => n = m BY <1>2
    <2>5. current + 1 > 0 /\ (upd'[m] = "end" => current + 1 = Rounds + 1) BY <1>a, <1>c
    <2>6. current + 1 \in 1..Rounds => left' <= Outs[current + 1] BY <2>3
    <2>7. QED BY <2>1, <2>2, <2>4, <2>5, <2>6 DEF LeftInRound
  <1>5. StoredInOrder'
    <2>1. HasTaken(m)' BY <1>0 DEF TypeOK, HasTaken
    <2>2. \A n \in stored' : HasTaken(n)' BY <2>1, <1>0, <1>2 DEF StoredInOrder, TypeOK
    <2>3. \A k \in 1..Rounds : current' = k + 1 => k = current BY <1>a
    <2>4. QED BY <2>2, <2>3, <1>a DEF StoredInOrder
  <1>6. SentInOrder'
    <2> SUFFICES ASSUME loop = "select" PROVE SentInOrder' BY DEF SentInOrder
    <2>1. \A k \in 1..Rounds : /\ k < current => sent[k] = Outs[k]
                               /\ k = current => sent[k] = Outs[k]
                               /\ k > current => sent[k] = 0
      BY <1>0, <1>a, <1>b DEF SentInOrder, TypeOK
    <2>2. \A k \in 1..Rounds : k < current' => sent[k] = Outs[k] BY <2>1, <1>a
    <2>3. current' <= Rounds => left' = Outs[current'] BY <1>a
    <2>4. \A k \in 1..Rounds : k >= current' => sent[k] = 0 BY <2>1, <1>a
    <2>5. upd'[m] = "end" => \A k \in 1..Rounds : sent[k] = Outs[k]
      BY <2>2, <1>a, <1>c
    <2>6. current' <= Rounds => \A k \in 1..Rounds :
            /\ k < current' => sent'[k] = Outs[k]
            /\ k = current' => sent'[k] + left' = Outs[k]
            /\ k > current' => sent'[k] = 0
      BY <2>2, <2>3, <2>4, <1>a
    <2>7. \A n \in Msg : upd'[n] = "end" => \A k \in 1..Rounds : sent'[k] = Outs[k]
      BY <1>2, <2>5
    <2>8. QED BY <2>6, <2>7 DEF SentInOrder
  <1>7. QED BY <1>1, <1>3, <1>4, <1>5, <1>6 DEF Inv

LEMMA EmittedInv == ASSUME NEW m \in Msg, Inv, Emitted(m) PROVE Inv'
  <1> USE DEF Emitted
  <1>0. TypeOK /\ OneHolder /\ LeftInRound /\ StoredInOrder /\ SentInOrder BY DEF Inv
  <1>1. TypeOK' BY <1>0 DEF TypeOK
  <1>2. \A n \in Msg : /\ upd[n] # "end"
                       /\ upd'[n] \notin {"emit", "end"}
                       /\ HasTaken(n) => HasTaken(n)'
    BY <1>0 DEF TypeOK, OneHolder, HasTaken
  <1>a. start # "emit" BY <1>0 DEF OneHolder
  <1>3. OneHolder' BY <1>a, <1>2 DEF OneHolder
  <1>4. LeftInRound' BY <1>0, <1>2 DEF LeftInRound
  <1>5. StoredInOrder' BY <1>0, <1>2 DEF StoredInOrder, AllStored, TypeOK
  <1>6. SentInOrder' BY <1>0, <1>2 DEF SentInOrder
  <1>7. QED BY <1>1, <1>3, <1>4, <1>5, <1>6 DEF Inv

LEMMA UpdateFailsInv == ASSUME NEW m \in Msg, Inv, UpdateFails(m) PROVE Inv'
  <1> USE RoundsAssumption, OutsPositive DEF UpdateFails, RoundFails
  <1>0. TypeOK /\ OneHolder /\ LeftInRound /\ StoredInOrder /\ SentInOrder BY DEF Inv
  <1>1. TypeOK' BY <1>0 DEF TypeOK
  <1>2. \A n \in Msg : /\ upd[n] # "end"
                       /\ upd'[n] \notin {"emit", "end"}
                       /\ HasTaken(n) => HasTaken(n)'
    BY <1>0 DEF TypeOK, OneHolder, HasTaken
  <1>a. start # "emit" BY <1>0 DEF OneHolder
  <1>3. OneHolder' BY <1>a, <1>2 DEF OneHolder
  <1>b. left' = 0 BY <1>0 DEF LeftInRound, TypeOK
  <1>c. start = "lock" => upd[m] # "emit"
    BY <1>0 DEF LeftInRound
  <1>4. LeftInRound' BY <1>0, <1>2, <1>b, <1>c DEF LeftInRound, TypeOK
  <1>5. StoredInOrder'
    <2>1. \A n \in stored' : HasTaken(n)' BY <1>0, <1>2 DEF StoredInOrder, TypeOK
    <2>2. \A k : AllStored(k) => AllStored(k)' BY DEF AllStored
    <2>3. QED BY <1>0, <1>2, <2>1, <2>2 DEF StoredInOrder
  <1>6. SentInOrder' BY <1>0, <1>2, <1>b DEF SentInOrder, TypeOK, LeftInRound
  <1>7. QED BY <1>1, <1>3, <1>4, <1>5, <1>6 DEF Inv

LEMMA SendOutInv == Inv /\ SendOut => Inv'
  <1> SUFFICES ASSUME Inv, SendOut PROVE Inv' OBVIOUS
  <1> USE RoundsAssumption, OutsPositive DEF SendOut, Selecting, Emitting
  <1>0. TypeOK /\ OneHolder /\ LeftInRound /\ StoredInOrder /\ SentInOrder BY DEF Inv
  <1>a. current \in 1..Rounds /\ left \in Nat /\ left > 0 /\ left <= Outs[current]
    BY <1>0 DEF LeftInRound, TypeOK
  <1>b. \A m \in Msg : upd[m] # "end" BY <1>0 DEF OneHolder
  <1>c. /\ sent'[current] = sent[current] + 1
        /\ \A k \in 1..Rounds : k # current => sent'[k] = sent[k]
    BY <1>0, <1>a DEF TypeOK
  <1>1. TypeOK' BY <1>0, <1>a DEF TypeOK
  <1>2. OneHolder' BY <1>0 DEF OneHolder
  <1>3. LeftInRound' BY <1>0, <1>a DEF LeftInRound
  <1>4. StoredInOrder' BY <1>0 DEF StoredInOrder, HasTaken, AllStored
  <1>5. SentInOrder'
    <2>1. \A k \in 1..Rounds : /\ k < current => sent[k] = Outs[k]
                               /\ k = current => sent[k] + left = Outs[k]
                               /\ k > current => sent[k] = 0
      BY <1>0, <1>a DEF SentInOrder
    <2>2. \A k \in 1..Rounds : k # current =>
            /\ k < current => sent'[k] = Outs[k]
            /\ k > current => sent'[k] = 0
      BY <2>1, <1>c
    <2>3. sent[current] + left = Outs[current] /\ sent[current] \in Nat
      BY <2>1, <1>a, <1>0 DEF TypeOK
    <2>4. sent'[current] + left' = Outs[current]
      BY <2>3, <1>a, <1>c
    <2>5. ASSUME NEW k \in 1..Rounds
          PROVE  /\ k < current' => sent'[k] = Outs[k]
                 /\ k = current' => sent'[k] + left' = Outs[k]
                 /\ k > current' => sent'[k] = 0
      <3>1. current' = current OBVIOUS
      <3>2. CASE k = current BY <3>1, <3>2, <2>4, <1>a
      <3>3. CASE k # current BY <3>1, <3>3, <2>2
      <3>4. QED BY <3>2, <3>3
    <2>6. \A m \in Msg : upd'[m] # "end" BY <1>b
    <2>7. QED BY <2>5, <2>6 DEF SentInOrder
  <1>6. QED BY <1>1, <1>2, <1>3, <1>4, <1>5 DEF Inv

LEMMA SendOutFailsInv == Inv /\ SendOutFails => Inv'
  <1> SUFFICES ASSUME Inv, SendOutFails PROVE Inv' OBVIOUS
  <1> USE RoundsAssumption, OutsPositive DEF SendOutFails, Selecting, Emitting
  <1>0. TypeOK /\ OneHolder /\ LeftInRound /\ StoredInOrder BY DEF Inv
  <1>a. current \in 1..Rounds /\ left \in Nat /\ left > 0 /\ left <= Outs[current]
    BY <1>0 DEF LeftInRound, TypeOK
  <1>1. TypeOK' BY <1>0, <1>a DEF TypeOK
  <1>2. OneHolder' BY <1>0 DEF OneHolder
  <1>3. LeftInRound' BY <1>0, <1>a DEF LeftInRound
  <1>4. StoredInOrder' BY <1>0 DEF StoredInOrder, HasTaken, AllStored
  <1>5. SentInOrder' BY DEF SentInOrder
  <1>6. QED BY <1>1, <1>2, <1>3, <1>4, <1>5 DEF Inv

LEMMA TakeEndInv == ASSUME NEW m \in Msg, Inv, TakeEnd(m) PROVE Inv'
  <1> USE DEF TakeEnd, Selecting
  <1>0. TypeOK /\ OneHolder /\ LeftInRound /\ StoredInOrder BY DEF Inv
  <1>1. TypeOK' BY <1>0 DEF TypeOK
  <1>2. \A n \in Msg : /\ upd'[n] \notin {"emit", "end"}
                       /\ HasTaken(n) => HasTaken(n)'
    BY <1>0 DEF TypeOK, OneHolder, HasTaken
  <1>a. start # "emit" BY <1>0 DEF OneHolder
  <1>3. OneHolder' BY <1>a, <1>2 DEF OneHolder
  <1>b. current = Rounds + 1 BY <1>0 DEF LeftInRound
  <1>4. LeftInRound' BY <1>0, <1>2, <1>b, RoundsAssumption DEF LeftInRound, TypeOK
  <1>5. StoredInOrder' BY <1>0, <1>2 DEF StoredInOrder, AllStored, TypeOK
  <1>6. SentInOrder' BY DEF SentInOrder
  <1>7. QED BY <1>1, <1>3, <1>4, <1>5, <1>6 DEF Inv

LEMMA TakeTssErrorInv == Inv /\ TakeTssError => Inv'
  <1> SUFFICES ASSUME Inv, TakeTssError PROVE Inv' OBVIOUS
  <1> USE DEF TakeTssError, Selecting
  <1>0. TypeOK /\ OneHolder /\ LeftInRound /\ StoredInOrder BY DEF Inv
  <1>1. TypeOK' BY <1>0 DEF TypeOK
  <1>2. \A n \in Msg : /\ upd'[n] = "emit" <=> upd[n] = "emit"
                       /\ upd'[n] = "end" <=> upd[n] = "end"
                       /\ HasTaken(n) => HasTaken(n)'
    BY <1>0 DEF TypeOK, HasTaken
  <1>a. /\ start' = "emit" => start = "emit"
        /\ start' = "lock" => start = "lock"
    OBVIOUS
  <1>3. OneHolder' BY <1>0, <1>a, <1>2 DEF OneHolder
  <1>4. LeftInRound' BY <1>0, <1>a, <1>2 DEF LeftInRound
  <1>5. StoredInOrder' BY <1>0, <1>2 DEF StoredInOrder, AllStored, TypeOK
  <1>6. SentInOrder' BY DEF SentInOrder
  <1>7. QED BY <1>1, <1>3, <1>4, <1>5, <1>6 DEF Inv

\* TakeError, the deadline, and steps that change nothing.
LEMMA ReturnInv ==
    ASSUME Inv, loop' \in {loop, "err"},
           UNCHANGED <<start, upd, lock, current, left, stored, sent>>
    PROVE  Inv'
  <1>0. TypeOK /\ OneHolder /\ LeftInRound /\ StoredInOrder /\ SentInOrder BY DEF Inv
  <1>1. TypeOK' BY <1>0 DEF TypeOK
  <1>2. OneHolder' BY <1>0 DEF OneHolder
  <1>3. LeftInRound' BY <1>0 DEF LeftInRound
  <1>4. StoredInOrder' BY <1>0 DEF StoredInOrder, HasTaken, AllStored
  <1>5. SentInOrder' BY <1>0 DEF SentInOrder
  <1>6. QED BY <1>1, <1>2, <1>3, <1>4, <1>5 DEF Inv

LEMMA StepInv == Inv /\ [Next]_vars => Inv'
  <1> SUFFICES ASSUME Inv, [Next]_vars PROVE Inv' OBVIOUS
  <1>1. CASE StartParty BY <1>1, StartPartyInv
  <1>2. CASE StartEnds BY <1>2, StartEndsInv
  <1>3. CASE SendOut BY <1>3, SendOutInv
  <1>4. CASE SendOutFails BY <1>4, SendOutFailsInv
  <1>5. CASE TakeTssError BY <1>5, TakeTssErrorInv
  <1>6. CASE TakeError BY <1>6, ReturnInv DEF TakeError
  <1>7. CASE Deadline BY <1>7, ReturnInv DEF Deadline
  <1>8. ASSUME NEW m \in Msg, TakeUpdate(m) PROVE Inv'
    BY <1>8, MoveInv DEF TakeUpdate
  <1>9. ASSUME NEW m \in Msg, TakeEnd(m) PROVE Inv' BY <1>9, TakeEndInv
  <1>10. ASSUME NEW m \in Msg, Arrive(m) PROVE Inv' BY <1>10, MoveInv DEF Arrive
  <1>11. ASSUME NEW m \in Msg, Update(m) PROVE Inv'
    BY <1>11, StoreInv, AdvanceInv, EmittedInv, UpdateFailsInv DEF Update
  <1>12. CASE UNCHANGED vars BY <1>12, ReturnInv DEF vars
  <1>13. QED
    BY <1>1, <1>2, <1>3, <1>4, <1>5, <1>6, <1>7, <1>8, <1>9, <1>10, <1>11, <1>12
       DEF Next, Select

\* The lock has one holder, the messages of a round are out before the next
\* one starts, and the next one starts when all of the round before is stored:
\* whatever the order in which the goroutines around the loop run.
THEOREM Invariance == Spec => []Inv
  <1>1. Init => Inv BY InitInv
  <1>2. Inv /\ [Next]_vars => Inv' BY StepInv
  <1>3. QED BY <1>1, <1>2, PTL DEF Spec

-----------------------------------------------------------------------------
(* The refinement.                                                         *)

\* When the rounds before k are out, and k is or is not, that is their number.
LEMMA RoundsOutIs ==
    ASSUME NEW k \in 0..Rounds,
           \A j \in 1..k : sent[j] = Outs[j],
           k < Rounds => sent[k + 1] # Outs[k + 1]
    PROVE  IsFiniteSet(RoundsOut) /\ Cardinality(RoundsOut) = k
  <1>1. k \in Nat /\ 0 \in Nat BY RoundsAssumption
  <1>2. RoundsOut = 1..k
    <2>1. \A i \in 1..k : i \in RoundsOut BY RoundsAssumption DEF RoundsOut
    <2>2. ASSUME NEW i \in RoundsOut PROVE i \in 1..k
      <3>1. i \in 1..Rounds /\ \A j \in 1..i : sent[j] = Outs[j] BY DEF RoundsOut
      <3>2. i > k => k + 1 \in 1..i BY <3>1, RoundsAssumption
      <3>3. ~(i > k) BY <3>1, <3>2, RoundsAssumption
      <3>4. QED BY <3>1, <3>3, RoundsAssumption
    <2>3. QED BY <2>1, <2>2
  <1>3. IsFiniteSet(1..k) /\ Cardinality(1..k) = (IF 1 > k THEN 0 ELSE k - 1 + 1)
    BY <1>1, FS_Interval
  <1>4. QED BY <1>1, <1>2, <1>3

\* The state of LocalRounds.tla, as EventLoopProps.tla maps it.
localVars == <<Cardinality(RoundsOut), Taken, IF loop = "select" THEN "none" ELSE loop>>

\* As long as nothing more is sent and taken, LocalRounds.tla stutters, or
\* fails with the loop.
LEMMA Quiet ==
    ASSUME sent' = sent, Taken' = Taken,
           loop' = loop \/ (loop = "select" /\ loop' = "err")
    PROVE  [Local!Next]_localVars
  <1>1. RoundsOut' = RoundsOut BY DEF RoundsOut
  <1>2. Cardinality(RoundsOut)' = Cardinality(RoundsOut) BY <1>1
  <1>3. QED BY <1>2 DEF localVars, Local!Next, Local!Fail

\* Taken changes only when the loop takes a message.
LEMMA TakenSame ==
    ASSUME \A m \in Msg : HasTaken(m)' <=> HasTaken(m)
    PROVE  Taken' = Taken
  BY MsgIs DEF Taken, HasTaken

LEMMA InitRefines == Init => Local!Init
  <1> SUFFICES ASSUME Init PROVE Local!Init OBVIOUS
  <1> USE RoundsAssumption, OutsPositive DEF Init
  <1>1. Cardinality(RoundsOut) = 0
    <2>1. sent[1] # Outs[1] OBVIOUS
    <2>2. QED BY <2>1, RoundsOutIs
  <1>2. Taken = {}
    <2> SUFFICES ASSUME NEW k \in 1..Rounds, NEW q \in Peer
                 PROVE  \E i \in 1..Outs[k] : upd[<<k, q, i>>] \in {"none", "stream"}
      BY DEF Taken
    <2>1. upd[<<k, q, 1>>] = "none" BY MsgIs
    <2>2. QED BY <2>1
  <1>3. QED BY <1>1, <1>2 DEF Local!Init

\* The last message of a round is what LocalRounds.tla calls Emit: the round
\* before it has been stored, so it was taken.
LEMMA SendOutRefines == Inv /\ SendOut => [Local!Next]_localVars
  <1> SUFFICES ASSUME Inv, SendOut PROVE [Local!Next]_localVars OBVIOUS
  <1> USE RoundsAssumption, OutsPositive
  <1>0. TypeOK /\ OneHolder /\ LeftInRound /\ StoredInOrder /\ SentInOrder BY DEF Inv
  <1>1. loop = "select" /\ loop' = "select" BY DEF SendOut, Selecting
  <1>2. current \in 1..Rounds /\ left \in Nat /\ left > 0
    BY <1>0 DEF LeftInRound, TypeOK, SendOut, Emitting
  <1>3. \A k \in 1..Rounds : /\ k < current => sent[k] = Outs[k]
                             /\ k = current => sent[k] + left = Outs[k]
                             /\ k > current => sent[k] = 0
    BY <1>0, <1>1, <1>2 DEF SentInOrder
  <1>4. /\ left' = left - 1 /\ stored' = stored /\ upd' = upd
        /\ sent[current] \in Nat
        /\ sent'[current] = sent[current] + 1
        /\ \A k \in 1..Rounds : k # current => sent'[k] = sent[k]
    BY <1>0, <1>2 DEF TypeOK, SendOut
  <1>5. Taken' = Taken BY <1>4 DEF Taken
  <1>6. Cardinality(RoundsOut) = current - 1
    <2>1. current - 1 \in 0..Rounds /\ current - 1 + 1 = current BY <1>2
    <2>2. \A j \in 1..(current - 1) : sent[j] = Outs[j] BY <1>2, <1>3
    <2>3. sent[current] # Outs[current] BY <1>2, <1>3, <1>4
    <2>4. QED BY <2>1, <2>2, <2>3, RoundsOutIs
  <1>7. CASE left' # 0
    <2>1. \A j \in 1..(current - 1) : sent'[j] = Outs[j] BY <1>2, <1>3, <1>4
    <2>2. sent'[current] # Outs[current] BY <1>2, <1>3, <1>4, <1>7
    <2>3. RoundsOut' = RoundsOut
      <3>1. ASSUME NEW k \in 1..Rounds
            PROVE  (\A j \in 1..k : sent'[j] = Outs[j]) <=> (\A j \in 1..k : sent[j] = Outs[j])
        <4>1. CASE k < current
          BY <4>1, <2>1, <1>2, <1>3
        <4>2. CASE k >= current
          <5>1. current \in 1..k BY <4>2, <1>2
          <5>2. sent[current] # Outs[current] BY <1>2, <1>3, <1>4
          <5>3. QED BY <5>1, <5>2, <2>2
        <4>3. QED BY <4>1, <4>2, <1>2
      <3>2. QED BY <3>1 DEF RoundsOut
    <2>4. Cardinality(RoundsOut)' = Cardinality(RoundsOut) BY <2>3
    <2>5. QED BY <2>4, <1>1, <1>5 DEF localVars
  <1>8. CASE left' = 0
    <2>1. \A j \in 1..Rounds : j <= current => sent'[j] = Outs[j]
      BY <1>2, <1>3, <1>4, <1>8
    <2>2. \A j \in 1..Rounds : j > current => sent'[j] # Outs[j]
      BY <1>2, <1>3, <1>4
    <2>3. RoundsOut' = RoundsOut \cup {current}
      <3>1. ASSUME NEW k \in 1..Rounds
            PROVE  (\A j \in 1..k : sent'[j] = Outs[j]) <=> k <= current
        BY <2>1, <2>2, <1>2
      <3>2. ASSUME NEW k \in 1..Rounds
            PROVE  (\A j \in 1..k : sent[j] = Outs[j]) <=> k < current
        <4>1. sent[current] # Outs[current] BY <1>2, <1>3, <1>4
        <4>2. CASE k < current BY <4>2, <1>2, <1>3
        <4>3. CASE k >= current BY <4>3, <4>1, <1>2
        <4>4. QED BY <4>2, <4>3, <1>2
      <3>3. QED BY <3>1, <3>2, <1>2 DEF RoundsOut
    <2>4. current \notin RoundsOut BY <1>2, <1>3, <1>4 DEF RoundsOut
    <2>5. IsFiniteSet(RoundsOut)
      <3>1. IsFiniteSet(1..Rounds) BY FS_Interval
      <3>2. RoundsOut \subseteq 1..Rounds BY DEF RoundsOut
      <3>3. QED BY <3>1, <3>2, FS_Subset
    <2>6. Cardinality(RoundsOut)' = Cardinality(RoundsOut) + 1
      BY <2>3, <2>4, <2>5, FS_AddElement
    <2>7. current > 1 => \A q \in Peer : <<current - 1, q>> \in Taken
      <3> SUFFICES ASSUME current > 1, NEW q \in Peer
                   PROVE  <<current - 1, q>> \in Taken
        OBVIOUS
      <3>1. current - 1 \in 1..Rounds /\ current = (current - 1) + 1 /\ current - 1 # Rounds
        BY <1>2
      <3>2. AllStored(current - 1) BY <3>1, <1>0 DEF StoredInOrder
      <3>3. \A i \in 1..Outs[current - 1] : HasTaken(<<current - 1, q, i>>)
        BY <3>2, <1>0 DEF AllStored, StoredInOrder
      <3>4. QED BY <3>1, <3>3 DEF Taken, HasTaken
    <2>8. Local!Emit
      BY <1>1, <1>2, <1>5, <1>6, <2>6, <2>7 DEF Local!Emit, Local!HasRound
    <2>9. QED BY <2>8 DEF Local!Next
  <1>9. QED BY <1>7, <1>8

\* The loop takes a message, the last of its round or not.
LEMMA TakeUpdateRefines ==
    ASSUME NEW m \in Msg, Inv, TakeUpdate(m) PROVE [Local!Next]_localVars
  <1>0. /\ loop = "select" /\ loop' = "select"
        /\ upd' = [upd EXCEPT ![m] = "lock"] /\ sent' = sent
        /\ upd \in [Msg -> {"none", "stream", "lock", "emit", "end", "err", "done"}]
    BY DEF TakeUpdate, Selecting, Inv, TypeOK
  <1>1. PICK k \in 1..Rounds, q \in Peer : \E i \in 1..Outs[k] : m = <<k, q, i>> BY MsgIs
  <1>2. \A n \in Msg : n # m => (HasTaken(n)' <=> HasTaken(n)) BY <1>0 DEF HasTaken
  <1>3. HasTaken(m)' BY <1>0 DEF HasTaken
  <1>4. ASSUME NEW j \in 1..Rounds, NEW p \in Peer
        PROVE  /\ <<j, p>> \in Taken => <<j, p>> \in Taken'
               /\ <<j, p>> \in Taken' => <<j, p>> \in Taken \/ <<j, p>> = <<k, q>>
    <2>1. <<j, p>> \in Taken <=> \A i \in 1..Outs[j] : HasTaken(<<j, p, i>>)
      BY DEF Taken, HasTaken
    <2>2. <<j, p>> \in Taken' <=> \A i \in 1..Outs[j] : HasTaken(<<j, p, i>>)'
      BY DEF Taken, HasTaken
    <2>3. \A i \in 1..Outs[j] : <<j, p, i>> \in Msg BY MsgIs
    <2>4. QED BY <2>1, <2>2, <2>3, <1>1, <1>2, <1>3
  <1>5. Taken \subseteq (1..Rounds) \X Peer /\ Taken' \subseteq (1..Rounds) \X Peer
    BY DEF Taken
  <1>6. Taken' = Taken \/ Taken' = Taken \cup {<<k, q>>} BY <1>4, <1>5
  <1>7. CASE Taken' = Taken BY <1>0, <1>7, Quiet
  <1>8. CASE Taken' = Taken \cup {<<k, q>>}
    <2>1. RoundsOut' = RoundsOut BY <1>0 DEF RoundsOut
    <2>2. Local!Receive(k, q) BY <1>0, <1>8, <2>1 DEF Local!Receive
    <2>3. QED BY <2>2 DEF Local!Next
  <1>9. QED BY <1>6, <1>7, <1>8

\* The result comes when every round is sent and stored.
LEMMA TakeEndRefines ==
    ASSUME NEW m \in Msg, Inv, TakeEnd(m) PROVE [Local!Next]_localVars
  <1> USE RoundsAssumption, OutsPositive
  <1>0. TypeOK /\ LeftInRound /\ StoredInOrder /\ SentInOrder BY DEF Inv
  <1>1. /\ loop = "select" /\ loop' = "ok" /\ sent' = sent
        /\ upd[m] = "end" /\ upd' = [upd EXCEPT ![m] = "done"]
    BY DEF TakeEnd, Selecting
  <1>2. \A n \in Msg : HasTaken(n)' <=> HasTaken(n) BY <1>0, <1>1 DEF TypeOK, HasTaken
  <1>3. Taken' = Taken BY <1>2, TakenSame
  <1>4. RoundsOut' = RoundsOut BY <1>1 DEF RoundsOut
  <1>5. \A k \in 1..Rounds : sent[k] = Outs[k] BY <1>0, <1>1 DEF SentInOrder
  <1>6. Cardinality(RoundsOut) = Rounds BY <1>5, RoundsOutIs
  <1>7. AllStored(Rounds) BY <1>0, <1>1 DEF LeftInRound, StoredInOrder
  <1>8. \A q \in Peer : <<Rounds, q>> \in Taken
    <2>1. \A q \in Peer : \A i \in 1..Outs[Rounds] : HasTaken(<<Rounds, q, i>>)
      BY <1>0, <1>7 DEF AllStored, StoredInOrder
    <2>2. Rounds \in 1..Rounds OBVIOUS
    <2>3. QED BY <2>1, <2>2 DEF Taken, HasTaken
  <1>9. Local!Finish BY <1>1, <1>3, <1>4, <1>6, <1>8 DEF Local!Finish, Local!HasRound
  <1>10. QED BY <1>9 DEF Local!Next

\* Every other step leaves what is sent and taken alone.
LEMMA OthersQuiet ==
    ASSUME Inv,
           \/ StartParty \/ StartEnds \/ SendOutFails \/ TakeTssError
           \/ TakeError \/ Deadline \/ UNCHANGED vars
           \/ \E m \in Msg : Arrive(m) \/ Update(m)
    PROVE  [Local!Next]_localVars
  <1>0. upd \in [Msg -> {"none", "stream", "lock", "emit", "end", "err", "done"}]
    BY DEF Inv, TypeOK
  <1>1. sent' = sent /\ (loop' = loop \/ (loop = "select" /\ loop' = "err"))
    BY DEF StartParty, StartEnds, SendOutFails, TakeTssError, TakeError, Deadline, vars,
           Arrive, Update, Store, Advance, Emitted, UpdateFails, Selecting
  <1>2. \A n \in Msg : HasTaken(n)' <=> HasTaken(n)
    <2>1. CASE upd' = upd BY <2>1 DEF HasTaken
    <2>2. ASSUME NEW m \in Msg, Arrive(m) \/ Update(m)
          PROVE  \A n \in Msg : HasTaken(n)' <=> HasTaken(n)
      BY <1>0, <2>2
         DEF Arrive, Update, Store, Advance, Emitted, UpdateFails, HasTaken
    <2>3. CASE TakeTssError BY <1>0, <2>3 DEF TakeTssError, HasTaken
    <2>4. QED BY <2>1, <2>2, <2>3
      DEF StartParty, StartEnds, SendOutFails, TakeError, Deadline, vars
  <1>3. QED BY <1>1, <1>2, TakenSame, Quiet

LEMMA StepRefines == Inv /\ [Next]_vars => [Local!Next]_localVars
  BY SendOutRefines, TakeUpdateRefines, TakeEndRefines, OthersQuiet DEF Next, Select

\* Whatever the interleaving of the goroutines of Start, of the streams and of
\* the Updates, the party does what one step per round says: a round goes out
\* only when the one before it has been taken in full, and the result means
\* that every round has been sent and taken.
THEOREM Refinement == Spec => ImplementsLocalRounds
  <1>1. Init => Local!Init BY InitRefines
  <1>2. Inv /\ [Next]_vars => [Local!Next]_localVars BY StepRefines
  <1>3. QED BY <1>1, <1>2, Invariance, PTL
        DEF Spec, ImplementsLocalRounds, Local!Spec, localVars
=============================================================================
