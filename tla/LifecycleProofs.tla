--------------------------- MODULE LifecycleProofs ---------------------------
(***************************************************************************)
(* Proofs about Lifecycle.tla, for every set of key ids, sessions, clients *)
(* and bootstrap peers: its inductive invariant, with what a client's call *)
(* may rely on, and that starts, stops and crashes change the records only *)
(* as KeyStore.tla does.                                                   *)
(***************************************************************************)
EXTENDS LifecycleInv, StorageProofs, FiniteSetTheorems

-----------------------------------------------------------------------------
(* The records in LevelDB.                                                 *)

\* The storage key of a session's record.
RecordKey(s) == StorageKey(KeyOf[s], s)

LEMMA SessionBytes ==
    ASSUME NEW s \in Session
    PROVE  /\ s \in Seq(Nat \ {Colon})
           /\ KeyOf[s] \in KeyId /\ KeyOf[s] \in Seq(Nat)
           /\ RecordKey(s) \in Seq(Nat)
  BY KeyAssumption, SessionAssumption, StorageKeyBytes DEF Bytes, RecordKey

LEMMA RecordKeyInjective ==
    ASSUME NEW s \in Session, NEW t \in Session, RecordKey(s) = RecordKey(t)
    PROVE  s = t
  <1> DEFINE Key == Seq(Nat)
             Id  == Seq(Nat \ {Colon})
  <1>1. \A k, l \in Key, x, y \in Id : StorageKey(k, x) = StorageKey(l, y) => x = y
    BY StorageKeyInjective
  <1>2. KeyOf[s] \in Key /\ s \in Id /\ KeyOf[t] \in Key /\ t \in Id
    BY SessionBytes
  <1>3. StorageKey(KeyOf[s], s) = StorageKey(KeyOf[t], t)
    BY DEF RecordKey
  <1> HIDE DEF Key, Id
  <1>4. QED BY <1>1, <1>2, <1>3

LEMMA RecordedAt ==
    ASSUME Recorded
    PROVE  /\ DOMAIN db \subseteq Seq(Nat)
           /\ \A x \in DOMAIN db : \E s \in Session : x = RecordKey(s)
           /\ \A s \in Session : RecordKey(s) \in DOMAIN db =>
                 /\ db[RecordKey(s)] \in Record
                 /\ db[RecordKey(s)].key = KeyOf[s]
                 /\ db[RecordKey(s)].session = s
  <1>1. \A x \in DOMAIN db : \E s \in Session :
           x = RecordKey(s) /\ db[x] \in Record /\ db[x].key = KeyOf[s] /\ db[x].session = s
    BY DEF Recorded, RecordKey
  <1>2. QED BY <1>1, SessionBytes, RecordKeyInjective

\* A scan finds the records of its key id, and of those that extend it.
LEMMA ScanIs ==
    ASSUME Recorded, NEW k \in KeyId
    PROVE  Scan(Prefix(k)) = {x \in DOMAIN db : Extends(db[x].key, k)}
  <1>1. k \in Seq(Nat) /\ Prefix(k) \in Seq(Nat)
    BY KeyAssumption, PrefixBytes DEF Bytes
  <1>2. Scan(Prefix(k)) = {x \in DOMAIN db : HasPrefix(x, Prefix(k))}
    BY <1>1, RecordedAt, ScanFindsPrefix
  <1>3. ASSUME NEW x \in DOMAIN db
        PROVE  HasPrefix(x, Prefix(k)) <=> Extends(db[x].key, k)
    <2>1. PICK s \in Session : x = RecordKey(s) BY RecordedAt
    <2>2. db[x].key = KeyOf[s] BY <2>1, RecordedAt
    <2>3. HasPrefix(x, Prefix(k)) <=> KeyOf[s] = k \/ HasPrefix(KeyOf[s], Prefix(k))
      BY <1>1, <2>1, SessionBytes, StorageKeyPrefix DEF RecordKey
    <2>4. QED BY <2>2, <2>3 DEF Extends, Prefix
  <1>4. QED BY <1>2, <1>3

\* A key id that extends another one has a colon where that one ends.
LEMMA ExtendsByColon ==
    ASSUME NEW k \in KeyId, NEW l \in KeyId, Extends(l, k), ~HasColon(l)
    PROVE  l = k
  <1> SUFFICES ASSUME HasPrefix(l, Prefix(k)) PROVE FALSE BY DEF Extends, Prefix
  <1>1. k \in Bytes /\ l \in Bytes BY KeyAssumption DEF Bytes
  <1>2. /\ Prefix(k) \in Bytes /\ Len(Prefix(k)) = Len(k) + 1
        /\ Prefix(k)[Len(k) + 1] = Colon
    BY <1>1, PrefixBytes
  <1>3. Len(k) + 1 <= Len(l) /\ \A i \in 1..(Len(k) + 1) : l[i] = Prefix(k)[i]
    BY <1>1, <1>2, PrefixIs
  <1>4. Len(k) + 1 \in 1..(Len(k) + 1) /\ Len(k) + 1 \in 1..Len(l)
    BY <1>1, <1>3, BytesAre
  <1>5. l[Len(k) + 1] = Colon BY <1>2, <1>3, <1>4
  <1>6. QED BY <1>4, <1>5 DEF HasColon

LEMMA RecordedReads == Recorded => ReadsOwnRecords
  <1> SUFFICES ASSUME Recorded, NEW k \in KeyId, NEW x \in DOMAIN db
               PROVE  /\ db[x].key = k => db[x] \in GetKeyDataListByKeyId(k)
                      /\ db[x] \in GetKeyDataListByKeyId(k) /\ ~HasColon(db[x].key)
                            => db[x].key = k
    BY DEF ReadsOwnRecords
  <1>1. \A y \in DOMAIN db : db[y].key \in KeyId
    <2>1. \A y \in DOMAIN db : db[y] \in Record BY DEF Recorded
    <2>2. QED BY <2>1 DEF Record
  <1>2. GetKeyDataListByKeyId(k) = {db[y] : y \in {y \in DOMAIN db : Extends(db[y].key, k)}}
    BY ScanIs DEF GetKeyDataListByKeyId
  <1>3. db[x].key = k => db[x] \in GetKeyDataListByKeyId(k)
    BY <1>2 DEF Extends
  <1>4. db[x] \in GetKeyDataListByKeyId(k) => Extends(db[x].key, k)
    BY <1>2
  <1>5. QED BY <1>1, <1>3, <1>4, ExtendsByColon

\* Where checkAndSetKeyGenStorage accepts, the key id has failed records only.
LEMMA NotTaken ==
    ASSUME Recorded, NEW s \in Session, ~KeyTaken(KeyOf[s])
    PROVE  \A t \in Session : KeyOf[t] = KeyOf[s] /\ RecordKey(t) \in DOMAIN db
              => db[RecordKey(t)].status = "error"
  <1> SUFFICES ASSUME NEW t \in Session, KeyOf[t] = KeyOf[s], RecordKey(t) \in DOMAIN db
               PROVE  db[RecordKey(t)].status = "error"
    OBVIOUS
  <1>1. Extends(db[RecordKey(t)].key, KeyOf[s]) BY RecordedAt DEF Extends
  <1>2. RecordKey(t) \in Scan(Prefix(KeyOf[s])) BY <1>1, ScanIs, SessionBytes
  <1>3. db[RecordKey(t)].status \notin {"ready", "pending"}
    BY <1>2 DEF KeyTaken, GetKeyDataListByKeyId
  <1>4. db[RecordKey(t)].status \in {"pending", "ready", "error"} BY RecordedAt DEF Record
  <1>5. QED BY <1>3, <1>4

\* SetKeyData of a session's record.
SetsRecord(s, d) ==
    d \in Record /\ d.key = KeyOf[s] /\ d.session = s /\ SetKeyData(d)

LEMMA SetKeyDataIs ==
    ASSUME NEW s \in Session, NEW d, SetsRecord(s, d)
    PROVE  /\ DOMAIN db' = DOMAIN db \cup {RecordKey(s)}
           /\ db'[RecordKey(s)] = d
           /\ \A x \in DOMAIN db : x # RecordKey(s) => db'[x] = db[x]
  BY DEF SetsRecord, SetKeyData, RecordKey

LEMMA SetKeyDataRecorded ==
    ASSUME Recorded, NEW s \in Session, NEW d, SetsRecord(s, d)
    PROVE  Recorded'
  <1> SUFFICES ASSUME NEW x \in DOMAIN db'
               PROVE  \E t \in Session : /\ x = RecordKey(t)
                                         /\ db'[x] \in Record
                                         /\ db'[x].key = KeyOf[t] /\ db'[x].session = t
    BY DEF Recorded, RecordKey
  <1>1. /\ DOMAIN db' = DOMAIN db \cup {RecordKey(s)}
        /\ db'[RecordKey(s)] = d
        /\ \A y \in DOMAIN db : y # RecordKey(s) => db'[y] = db[y]
    BY SetKeyDataIs
  <1>2. d \in Record /\ d.key = KeyOf[s] /\ d.session = s BY DEF SetsRecord
  <1>3. CASE x = RecordKey(s) BY <1>1, <1>2, <1>3
  <1>4. CASE x # RecordKey(s)
    <2>1. x \in DOMAIN db /\ db'[x] = db[x] BY <1>1, <1>4
    <2>2. QED BY <2>1 DEF Recorded, RecordKey
  <1>5. QED BY <1>3, <1>4

\* What a step may do to the records: nothing, or a new record where the key id
\* has failed ones only, or the end of a PENDING one.
Begins(s) ==
    /\ \A t \in Session : KeyOf[t] = KeyOf[s] /\ RecordKey(t) \in DOMAIN db
          => db[RecordKey(t)].status = "error"
    /\ \E d : SetsRecord(s, d) /\ d.status = "pending"

Ends(s, status) ==
    /\ RecordKey(s) \in DOMAIN db /\ db[RecordKey(s)].status = "pending"
    /\ \E d : SetsRecord(s, d) /\ d.status = status

RecordStep ==
    \/ db' = db
    \/ \E s \in Session : Begins(s) \/ Ends(s, "ready") \/ Ends(s, "error")

LEMMA CheckAndSetIs ==
    ASSUME Recorded, NEW s \in Session, NEW t \in Time, CheckAndSetKeyGen(s, t)
    PROVE  Begins(s)
  <1> DEFINE d == [key |-> KeyOf[s], session |-> s, created |-> t, status |-> "pending"]
  <1>1. d \in Record BY SessionBytes DEF Record
  <1>2. SetsRecord(s, d) /\ d.status = "pending" BY <1>1 DEF CheckAndSetKeyGen, SetsRecord
  <1>3. ~KeyTaken(KeyOf[s]) BY DEF CheckAndSetKeyGen
  <1>4. QED BY <1>2, <1>3, NotTaken DEF Begins

LEMMA CompareAndSetIs ==
    ASSUME Recorded, NEW s \in Session, NEW update \in {"ready", "error"},
           CompareAndSetKeyStatus(s, "pending", update)
    PROVE  db' = db \/ Ends(s, update)
  <1> DEFINE x == RecordKey(s)
             d == [db[x] EXCEPT !.status = update]
  <1>1. CASE x \in DOMAIN db /\ db[x].status = "pending"
    <2>1. db[x] \in Record /\ db[x].key = KeyOf[s] /\ db[x].session = s
      BY <1>1, RecordedAt
    <2>2. d \in Record /\ d.key = KeyOf[s] /\ d.session = s /\ d.status = update
      BY <2>1 DEF Record
    <2>3. SetKeyData(d) BY <1>1 DEF CompareAndSetKeyStatus, RecordKey
    <2>4. QED BY <1>1, <2>2, <2>3 DEF Ends, SetsRecord
  <1>2. CASE ~(x \in DOMAIN db /\ db[x].status = "pending")
    BY <1>2 DEF CompareAndSetKeyStatus, RecordKey
  <1>3. QED BY <1>1, <1>2

\* Records stay well formed, and a READY record stays as it is.
LEMMA RecordsKept ==
    ASSUME Recorded, RecordStep
    PROVE  /\ Recorded'
           /\ \A x \in DOMAIN db : db[x].status = "ready" => x \in DOMAIN db' /\ db'[x] = db[x]
           /\ DOMAIN db \subseteq DOMAIN db'
  <1>1. CASE db' = db BY <1>1 DEF Recorded
  <1>2. ASSUME NEW s \in Session, NEW d, SetsRecord(s, d),
               RecordKey(s) \in DOMAIN db => db[RecordKey(s)].status # "ready"
        PROVE  /\ Recorded'
               /\ \A x \in DOMAIN db :
                     db[x].status = "ready" => x \in DOMAIN db' /\ db'[x] = db[x]
               /\ DOMAIN db \subseteq DOMAIN db'
    BY <1>2, SetKeyDataRecorded, SetKeyDataIs
  <1>3. QED BY <1>1, <1>2 DEF RecordStep, Begins, Ends

-----------------------------------------------------------------------------
(* The records as KeyStore.tla has them.                                   *)

keyStatus == [p \in {Self} |-> [t \in Session |->
                IF RecordKey(t) \in DOMAIN db THEN db[RecordKey(t)].status ELSE "none"]]

LEMMA StatusSet ==
    ASSUME NEW s \in Session, NEW d, SetsRecord(s, d)
    PROVE  keyStatus' = [keyStatus EXCEPT ![Self][s] = d.status]
  <1>1. /\ DOMAIN db' = DOMAIN db \cup {RecordKey(s)}
        /\ db'[RecordKey(s)] = d
        /\ \A y \in DOMAIN db : y # RecordKey(s) => db'[y] = db[y]
    BY SetKeyDataIs
  <1> DEFINE After(t) == IF RecordKey(t) \in DOMAIN db' THEN db'[RecordKey(t)].status ELSE "none"
             Was(t) == IF RecordKey(t) \in DOMAIN db THEN db[RecordKey(t)].status ELSE "none"
  <1>2. After(s) = d.status BY <1>1
  <1>3. \A t \in Session : t # s => After(t) = Was(t)
    <2>1. \A t \in Session : t # s => RecordKey(t) # RecordKey(s) BY RecordKeyInjective
    <2>2. QED BY <1>1, <2>1
  <1>4. keyStatus = [p \in {Self} |-> [t \in Session |-> Was(t)]] BY DEF keyStatus
  <1>5. keyStatus' = [p \in {Self} |-> [t \in Session |-> After(t)]]
    BY DEF keyStatus, RecordKey
  <1> HIDE DEF After, Was
  <1>6. QED BY <1>2, <1>3, <1>4, <1>5

LEMMA BeginsRefines ==
    ASSUME NEW s \in Session, Begins(s)
    PROVE  Keys!CheckAndSetKeyGen(Self, s)
  <1>1. PICK d : SetsRecord(s, d) /\ d.status = "pending" BY DEF Begins
  <1>2. keyStatus' = [keyStatus EXCEPT ![Self][s] = "pending"] BY <1>1, StatusSet
  <1>3. \A t \in Session : KeyOf[t] = KeyOf[s] => keyStatus[Self][t] \in {"none", "error"}
    BY DEF Begins, keyStatus
  <1>4. ~Keys!KeyTaken(Self, s)
    BY <1>3 DEF Keys!KeyTaken, Keys!KeyDataList, Keys!Live, keyStatus, RecordKey
  <1>5. QED BY <1>2, <1>4 DEF Keys!CheckAndSetKeyGen, Keys!SetKeyData, keyStatus, RecordKey

LEMMA EndsRefines ==
    ASSUME NEW s \in Session, NEW st, Ends(s, st)
    PROVE  Keys!CompareAndSetKeyStatus(Self, s, "pending", st)
  <1>1. PICK d : SetsRecord(s, d) /\ d.status = st BY DEF Ends
  <1>2. keyStatus' = [keyStatus EXCEPT ![Self][s] = st] BY <1>1, StatusSet
  <1>3. keyStatus[Self][s] = "pending" BY DEF Ends, keyStatus
  <1>4. QED BY <1>2, <1>3
        DEF Keys!CompareAndSetKeyStatus, Keys!SetKeyData, keyStatus, RecordKey

\* What a step of KeyStore.tla may do at this server.
KeyStoreStep ==
    \E s \in Session :
        \/ Keys!CheckAndSetKeyGen(Self, s)
        \/ Keys!CompareAndSetKeyStatus(Self, s, "pending", "ready")
        \/ Keys!CompareAndSetKeyStatus(Self, s, "pending", "error")

LEMMA RecordStepRefines == RecordStep => [KeyStoreStep]_db
  BY BeginsRefines, EndsRefines DEF RecordStep, KeyStoreStep

-----------------------------------------------------------------------------
(* The answers.                                                            *)

\* getLatestReadyKeyDataByKeyIdFromStorage: one record at most, READY, and found
\* by the scan of the key id.
LEMMA LatestReadyIs ==
    ASSUME Recorded, NEW k \in KeyId
    PROVE  /\ \A d \in LatestReady(k) :
                 /\ \E s \in Session : RecordKey(s) \in DOMAIN db /\ d = db[RecordKey(s)]
                 /\ Extends(d.key, k) /\ d.status = "ready"
           /\ \A d, e \in LatestReady(k) : d = e
  <1> DEFINE Ready == {x \in Scan(Prefix(k)) : db[x].status = "ready"}
             Newer(x, y) == \/ db[x].created > db[y].created
                            \/ db[x].created = db[y].created /\ Before(x, y)
  <1>1. LatestReady(k) = {db[x] : x \in {x \in Ready : \A y \in Ready \ {x} : Newer(x, y)}}
    BY DEF LatestReady
  <1>2. Ready \subseteq DOMAIN db
        /\ \A x \in Ready : Extends(db[x].key, k) /\ db[x].status = "ready"
    BY ScanIs
  <1>3. \A x \in Ready : x \in Bytes /\ db[x].created \in Nat
    <2>1. \A x \in DOMAIN db : x \in Bytes /\ db[x] \in Record BY RecordedAt DEF Bytes
    <2>2. \A d \in Record : d.created \in Nat BY SessionAssumption DEF Record
    <2>3. QED BY <1>2, <2>1, <2>2
  <1>4. \A x, y \in Ready : Newer(x, y) => ~Newer(y, x)
    BY <1>3, Asymmetric
  <1> HIDE DEF Newer, Ready
  <1>5. ASSUME NEW x \in Ready, \A y \in Ready \ {x} : Newer(x, y),
               NEW z \in Ready, \A y \in Ready \ {z} : Newer(z, y)
        PROVE  x = z
    BY <1>4, <1>5
  <1>6. \A d, e \in LatestReady(k) : d = e BY <1>1, <1>5
  <1>7. ASSUME NEW d \in LatestReady(k)
        PROVE  /\ \E s \in Session : RecordKey(s) \in DOMAIN db /\ d = db[RecordKey(s)]
               /\ Extends(d.key, k) /\ d.status = "ready"
    <2>1. PICK x \in Ready : d = db[x] BY <1>1
    <2>2. PICK s \in Session : x = RecordKey(s) BY <1>2, <2>1, RecordedAt
    <2>3. QED BY <1>2, <2>1, <2>2
  <1>8. QED BY <1>6, <1>7

LEMMA AtMostOne ==
    ASSUME NEW S, \A d, e \in S : d = e
    PROVE  Cardinality(S) <= 1
  <1>1. CASE S = {} BY <1>1, FS_EmptySet
  <1>2. CASE S # {}
    <2>1. PICK d \in S : S = {d} BY <1>2
    <2>2. Cardinality(S) = 1 BY <2>1, FS_Singleton
    <2>3. QED BY <2>2
  <1>3. QED BY <1>1, <1>2

\* An answer on its way stays true whatever happens to the records.
LEMMA AnswersKept ==
    ASSUME Inv, RecordStep,
           \A c \in Client : \/ answer'[c] = {}
                             \/ answer'[c] = answer[c] /\ call'[c] = call[c]
    PROVE  AnswersStored' /\ AnswersStand'
  <1>0. AnswersStored /\ AnswersStand /\ Recorded BY DEF Inv
  <1>1. \A x \in DOMAIN db : db[x].status = "ready" => x \in DOMAIN db' /\ db'[x] = db[x]
    BY <1>0, RecordsKept
  <1>2. AnswersStored' BY <1>0, <1>1 DEF AnswersStored, AnswersStand
  <1>3. ASSUME NEW c \in Client, answer'[c] = answer[c], call'[c] = call[c]
        PROVE  /\ Cardinality(answer'[c]) <= 1
               /\ \A d \in answer'[c] :
                     /\ \E r \in call'[c] : Extends(d.key, r.key)
                     /\ d.status = "ready" /\ db'[StorageKey(d.key, d.session)] = d
    BY <1>0, <1>1, <1>3 DEF AnswersStored, AnswersStand
  <1>4. ASSUME NEW c \in Client, answer'[c] = {}
        PROVE  /\ Cardinality(answer'[c]) <= 1
               /\ \A d \in answer'[c] :
                     /\ \E r \in call'[c] : Extends(d.key, r.key)
                     /\ d.status = "ready" /\ db'[StorageKey(d.key, d.session)] = d
    BY <1>4, AtMostOne
  <1>5. AnswersStand' BY <1>3, <1>4 DEF AnswersStand
  <1>6. QED BY <1>2, <1>5

LEMMA LookupAnswers ==
    ASSUME Inv, NEW c \in Client, Lookup(c)
    PROVE  /\ answer' \in [Client -> SUBSET Record]
           /\ AnswersStored' /\ AnswersStand'
  <1>0. TypeOK /\ Serving /\ Recorded /\ AnswersStored /\ AnswersStand BY DEF Inv
  <1>1. PICK r \in [method : Lookups, key : KeyId] : call[c] = {r}
    BY <1>0 DEF Lookup, Serving
  <1>2. r.key \in KeyId OBVIOUS
  <1>3. UNION {LatestReady(q.key) : q \in call[c]} = LatestReady(r.key) BY <1>1
  <1>4. /\ answer' = [answer EXCEPT ![c] = LatestReady(r.key)]
        /\ call' = call /\ db' = db
    BY <1>3 DEF Lookup
  <1>5. ASSUME NEW d \in LatestReady(r.key)
        PROVE  /\ d \in Record /\ Extends(d.key, r.key) /\ d.status = "ready"
               /\ StorageKey(d.key, d.session) \in DOMAIN db
               /\ db[StorageKey(d.key, d.session)] = d
    <2>1. PICK s \in Session : RecordKey(s) \in DOMAIN db /\ d = db[RecordKey(s)]
      BY <1>0, <1>2, LatestReadyIs
    <2>2. d \in Record /\ d.key = KeyOf[s] /\ d.session = s BY <1>0, <2>1, RecordedAt
    <2>3. QED BY <1>0, <1>2, <2>1, <2>2, LatestReadyIs DEF RecordKey
  <1>6. answer' \in [Client -> SUBSET Record] BY <1>0, <1>4, <1>5 DEF TypeOK
  <1>7. /\ answer'[c] = LatestReady(r.key)
        /\ \A e \in Client : e # c => answer'[e] = answer[e]
    BY <1>0, <1>4 DEF TypeOK
  <1>8. AnswersStored' BY <1>0, <1>4, <1>5, <1>7 DEF AnswersStored
  <1>9. Cardinality(LatestReady(r.key)) <= 1 BY <1>0, <1>2, LatestReadyIs, AtMostOne
  <1>10. ASSUME NEW e \in Client
         PROVE  /\ Cardinality(answer'[e]) <= 1
                /\ \A d \in answer'[e] :
                      /\ \E q \in call'[e] : Extends(d.key, q.key)
                      /\ d.status = "ready" /\ db'[StorageKey(d.key, d.session)] = d
    <2>1. CASE e = c BY <2>1, <1>1, <1>4, <1>5, <1>7, <1>9
    <2>2. CASE e # c BY <2>2, <1>0, <1>4, <1>7 DEF AnswersStand
    <2>3. QED BY <2>1, <2>2
  <1>11. AnswersStand' BY <1>10 DEF AnswersStand
  <1>12. QED BY <1>6, <1>8, <1>11

-----------------------------------------------------------------------------
(* The process: TypeOK, Started and Serving.                               *)

Process == TypeOK /\ Started /\ Serving

LEMMA InitProcess == Init => Process
  <1> SUFFICES ASSUME Init PROVE Process OBVIOUS
  <1>1. TypeOK BY DEF Init, TypeOK
  <1>2. Started BY DEF Init, Started
  <1>3. Serving BY DEF Init, Serving
  <1>4. QED BY <1>1, <1>2, <1>3 DEF Process

LEMMA DiesProcess == Process /\ Dies => Process'
  <1> SUFFICES ASSUME Process, Dies PROVE Process' OBVIOUS
  <1>1. TypeOK' BY DEF Process, TypeOK, Dies
  <1>2. Started' BY DEF Started, Dies
  <1>3. Serving' BY DEF Serving, Dies
  <1>4. QED BY <1>1, <1>2, <1>3 DEF Process

\* main and the goroutines of bootstrapConnect.
LEMMA MainProcess ==
    ASSUME Process,
           \/ StartStorage \/ StartFails \/ StartP2P \/ BootstrapEnds \/ StartManager \/ Serve
           \/ GracefulStop \/ GracefulStopEnds \/ StopManager \/ StopP2P \/ StopStorage
           \/ \E p \in BootstrapPeer : Connect(p) \/ Report(p)
    PROVE  Process'
  <1>0. TypeOK /\ Started /\ Serving BY DEF Process
  <1> USE DEF processVars, grpcVars
  <1>1. CASE StartStorage
    <2>1. TypeOK' BY <1>0, <1>1 DEF TypeOK, StartStorage
    <2>2. Started' BY <1>0, <1>1 DEF Started, StartStorage
    <2>3. Serving' BY <1>0, <1>1 DEF Serving, StartStorage
    <2>4. QED BY <2>1, <2>2, <2>3 DEF Process
  <1>2. CASE StartFails
    <2>1. TypeOK' BY <1>0, <1>2 DEF TypeOK, StartFails
    <2>2. Started' BY <1>0, <1>2 DEF Started, StartFails
    <2>3. Serving' BY <1>0, <1>2 DEF Serving, StartFails
    <2>4. QED BY <2>1, <2>2, <2>3 DEF Process
  <1>3. CASE StartP2P
    <2>1. TypeOK' BY <1>0, <1>3 DEF TypeOK, StartP2P
    <2>2. Started' BY <1>0, <1>3 DEF Started, StartP2P
    <2>3. Serving' BY <1>0, <1>3 DEF Serving, StartP2P
    <2>4. QED BY <2>1, <2>2, <2>3 DEF Process
  <1>4. CASE BootstrapEnds
    <2>1. TypeOK' BY <1>0, <1>4 DEF TypeOK, BootstrapEnds
    <2>2. Started' BY <1>0, <1>4 DEF Started, BootstrapEnds
    <2>3. Serving' BY <1>0, <1>4 DEF Serving, BootstrapEnds
    <2>4. QED BY <2>1, <2>2, <2>3 DEF Process
  <1>5. CASE StartManager
    <2>1. TypeOK' BY <1>0, <1>5 DEF TypeOK, StartManager
    <2>2. Started' BY <1>0, <1>5 DEF Started, StartManager
    <2>3. Serving' BY <1>0, <1>5 DEF Serving, StartManager
    <2>4. QED BY <2>1, <2>2, <2>3 DEF Process
  <1>6. CASE Serve
    <2>1. TypeOK' BY <1>0, <1>6 DEF TypeOK, Serve
    <2>2. Started' BY <1>0, <1>6 DEF Started, Serve
    <2>3. Serving' BY <1>0, <1>6 DEF Serving, Serve
    <2>4. QED BY <2>1, <2>2, <2>3 DEF Process
  <1>7. CASE GracefulStop
    <2>1. TypeOK' BY <1>0, <1>7 DEF TypeOK, GracefulStop
    <2>2. Started' BY <1>0, <1>7 DEF Started, GracefulStop
    <2>3. Serving' BY <1>0, <1>7 DEF Serving, GracefulStop, TypeOK
    <2>4. QED BY <2>1, <2>2, <2>3 DEF Process
  <1>8. CASE GracefulStopEnds
    <2>1. TypeOK' BY <1>0, <1>8 DEF TypeOK, GracefulStopEnds
    <2>2. Started' BY <1>0, <1>8 DEF Started, GracefulStopEnds
    <2>3. Serving' BY <1>0, <1>8 DEF Serving, GracefulStopEnds, Drained
    <2>4. QED BY <2>1, <2>2, <2>3 DEF Process
  <1>9. CASE StopManager
    <2>1. TypeOK' BY <1>0, <1>9 DEF TypeOK, StopManager
    <2>2. Started' BY <1>0, <1>9 DEF Started, StopManager
    <2>3. Serving' BY <1>0, <1>9 DEF Serving, StopManager
    <2>4. QED BY <2>1, <2>2, <2>3 DEF Process
  <1>10. CASE StopP2P
    <2>1. TypeOK' BY <1>0, <1>10 DEF TypeOK, StopP2P
    <2>2. Started' BY <1>0, <1>10 DEF Started, StopP2P
    <2>3. Serving' BY <1>0, <1>10 DEF Serving, StopP2P
    <2>4. QED BY <2>1, <2>2, <2>3 DEF Process
  <1>11. CASE StopStorage
    <2>1. TypeOK' BY <1>0, <1>11 DEF TypeOK, StopStorage
    <2>2. Started' BY <1>0, <1>11 DEF Started, StopStorage
    <2>3. Serving' BY <1>0, <1>11 DEF Serving, StopStorage
    <2>4. QED BY <2>1, <2>2, <2>3 DEF Process
  <1>12. CASE \E p \in BootstrapPeer : Connect(p) \/ Report(p)
    <2>0. PICK p \in BootstrapPeer : Connect(p) \/ Report(p) BY <1>12
    <2>1. TypeOK'
      <3>1. boot' \in [BootstrapPeer -> {"none", "dial", "connected", "error", "failed"}]
        BY <1>0, <2>0 DEF TypeOK, Connect, Report
      <3>2. errs' \in Nat BY <1>0, <2>0 DEF TypeOK, Connect, Report
      <3>3. UNCHANGED <<main, open, hostUp, handlers, grpc, signalled, call, looking, answer,
                        session>>
        BY <2>0 DEF Connect, Report
      <3>4. QED BY <1>0, <3>1, <3>2, <3>3 DEF TypeOK
    <2>2. Started' BY <1>0, <1>12 DEF Started, Connect, Report
    <2>3. Serving' BY <1>0, <1>12 DEF Serving, Connect, Report
    <2>4. QED BY <2>1, <2>2, <2>3 DEF Process
  <1>13. QED
    BY <1>1, <1>2, <1>3, <1>4, <1>5, <1>6, <1>7, <1>8, <1>9, <1>10, <1>11, <1>12

\* The gRPC server.
LEMMA GrpcProcess ==
    ASSUME Inv,
           Listen \/ ListenFails \/ Signal \/ \E c \in Client : Call(c) \/ Lookup(c) \/ Return(c)
    PROVE  Process'
  <1>0. TypeOK /\ Started /\ Serving BY DEF Inv
  <1> USE DEF processVars, grpcVars
  <1>1. CASE Listen \/ ListenFails \/ Signal
    <2>1. TypeOK' BY <1>0, <1>1 DEF TypeOK, Listen, ListenFails, Signal
    <2>2. Started' BY <1>0, <1>1 DEF Started, Listen, ListenFails, Signal
    <2>3. Serving' BY <1>0, <1>1 DEF Serving, Listen, ListenFails, Signal
    <2>4. QED BY <2>1, <2>2, <2>3 DEF Process
  <1>2. ASSUME NEW c \in Client, Call(c) PROVE Process'
    <2>1. PICK r \in Requests :
            /\ call' = [call EXCEPT ![c] = {r}]
            /\ looking' = IF r.method \in Lookups THEN looking \cup {c} ELSE looking
      BY <1>2 DEF Call
    <2>2. r.method \in Lookups => r \in [method : Lookups, key : KeyId]
      BY DEF Requests
    <2>3. TypeOK' BY <1>0, <1>2, <2>1 DEF TypeOK, Call
    <2>4. Started' BY <1>0, <1>2 DEF Started, Call
    <2>5. main = "wait" /\ answer[c] = {} /\ c \notin looking BY <1>0, <1>2 DEF Serving, Call
    <2>6. /\ call'[c] = {r} /\ \A e \in Client : e # c => call'[e] = call[e]
          /\ answer' = answer /\ main' = main /\ grpc' = grpc
          /\ \A e \in Client : e # c => (e \in looking' <=> e \in looking)
          /\ c \in looking' => r.method \in Lookups
      BY <1>0, <1>2, <2>1, <2>5 DEF TypeOK, Call
    <2>7. Serving' BY <1>0, <2>2, <2>5, <2>6 DEF Serving
    <2>8. QED BY <2>3, <2>4, <2>7 DEF Process
  <1>3. ASSUME NEW c \in Client, Lookup(c) PROVE Process'
    <2>1. answer' \in [Client -> SUBSET Record] BY <1>3, LookupAnswers
    <2>2. TypeOK' BY <1>0, <1>3, <2>1 DEF TypeOK, Lookup
    <2>3. Started' BY <1>0, <1>3 DEF Started, Lookup
    <2>4. call[c] # {} BY <1>0, <1>3 DEF Serving, Lookup
    <2>5. /\ \A e \in Client : e # c => answer'[e] = answer[e]
          /\ c \notin looking' /\ \A e \in Client : e # c => (e \in looking' <=> e \in looking)
          /\ call' = call /\ main' = main /\ grpc' = grpc
      BY <1>0, <1>3 DEF TypeOK, Lookup
    <2>6. Serving' BY <1>0, <2>4, <2>5 DEF Serving
    <2>7. QED BY <2>2, <2>3, <2>6 DEF Process
  <1>4. ASSUME NEW c \in Client, Return(c) PROVE Process'
    <2>1. TypeOK' BY <1>0, <1>4 DEF TypeOK, Return
    <2>2. Started' BY <1>0, <1>4 DEF Started, Return
    <2>3. /\ call'[c] = {} /\ answer'[c] = {} /\ c \notin looking'
          /\ \A e \in Client : e # c => call'[e] = call[e] /\ answer'[e] = answer[e]
          /\ looking' = looking /\ main' = main /\ grpc' = grpc
      BY <1>0, <1>4 DEF TypeOK, Return
    <2>4. Serving' BY <1>0, <2>3 DEF Serving
    <2>5. QED BY <2>1, <2>2, <2>4 DEF Process
  <1>5. QED BY <1>1, <1>2, <1>3, <1>4

\* The handlers of key generation, and steps that change nothing.
LEMMA HandlerProcess ==
    ASSUME Process, UNCHANGED <<main, processVars, grpcVars>>,
           \/ session' = session
           \/ \E s \in Session, at \in {"prepare", "run", "failed", "done"} :
                 session' = [session EXCEPT ![s] = at]
    PROVE  Process'
  <1>0. TypeOK /\ Started /\ Serving BY DEF Process
  <1> USE DEF processVars, grpcVars
  <1>1. TypeOK' BY <1>0 DEF TypeOK
  <1>2. Started' BY <1>0 DEF Started
  <1>3. Serving' BY <1>0 DEF Serving
  <1>4. QED BY <1>1, <1>2, <1>3 DEF Process

-----------------------------------------------------------------------------
(* The invariant.                                                          *)

\* What a handler does to the records.
LEMMA HandlerRecords ==
    ASSUME Recorded, NEW s \in Session,
           OpenHandler(s) \/ Prepare(s) \/ Complete(s) \/ Fail(s) \/ MarkError(s)
    PROVE  /\ RecordStep
           /\ UNCHANGED <<main, processVars, grpcVars>>
           /\ \E at \in {"prepare", "run", "failed", "done"} :
                 session' = [session EXCEPT ![s] = at]
  <1>1. CASE OpenHandler(s) BY <1>1 DEF OpenHandler, RecordStep
  <1>2. CASE Prepare(s)
    <2>1. CASE \E t \in Time : CheckAndSetKeyGen(s, t)
      <3>1. Begins(s) BY <2>1, CheckAndSetIs
      <3>2. QED BY <1>2, <3>1 DEF Prepare, RecordStep
    <2>2. CASE UNCHANGED db BY <1>2, <2>2 DEF Prepare, RecordStep
    <2>3. QED BY <1>2, <2>1, <2>2 DEF Prepare
  <1>3. CASE Complete(s)
    <2>1. db' = db \/ Ends(s, "ready") BY <1>3, CompareAndSetIs DEF Complete
    <2>2. QED BY <1>3, <2>1 DEF Complete, RecordStep
  <1>4. CASE Fail(s) BY <1>4 DEF Fail, RecordStep
  <1>5. CASE MarkError(s)
    <2>1. db' = db \/ Ends(s, "error") BY <1>5, CompareAndSetIs DEF MarkError
    <2>2. QED BY <1>5, <2>1 DEF MarkError, RecordStep
  <1>6. QED BY <1>1, <1>2, <1>3, <1>4, <1>5

LEMMA InitInv == Init => Inv
  <1> SUFFICES ASSUME Init PROVE Inv OBVIOUS
  <1>1. TypeOK /\ Started /\ Serving BY InitProcess DEF Process
  <1>2. Recorded
    <2>1. DOMAIN db = {} BY EmptySeq DEF Init
    <2>2. QED BY <2>1 DEF Recorded
  <1>3. \A c \in Client : answer[c] = {} BY DEF Init
  <1>4. AnswersStored BY <1>3 DEF AnswersStored
  <1>5. AnswersStand BY <1>3, AtMostOne DEF AnswersStand
  <1>6. QED BY <1>1, <1>2, <1>4, <1>5 DEF Inv

\* The steps by what they do to the records and the answers.
LEMMA StepKinds ==
    ASSUME Inv, [Next]_vars
    PROVE  /\ Process'
           /\ RecordStep
           /\ \/ \E c \in Client : Lookup(c)
              \/ \A c \in Client : \/ answer'[c] = {}
                                   \/ answer'[c] = answer[c] /\ call'[c] = call[c]
  <1>0. Process /\ Recorded /\ TypeOK /\ Serving BY DEF Inv, Process
  <1>1. CASE Exit \/ Crash \/ \E s \in Session : StorageClosed(s)
    <2>1. Dies BY <1>1 DEF Exit, Crash, StorageClosed
    <2>2. QED BY <1>0, <2>1, DiesProcess DEF Dies, RecordStep
  <1>2. CASE \/ StartStorage \/ StartFails \/ StartP2P \/ BootstrapEnds \/ StartManager
             \/ Serve \/ GracefulStop \/ GracefulStopEnds \/ StopManager \/ StopP2P
             \/ StopStorage \/ \E p \in BootstrapPeer : Connect(p) \/ Report(p)
    <2>1. db' = db /\ answer' = answer /\ call' = call
      BY <1>2 DEF StartStorage, StartFails, StartP2P, BootstrapEnds, StartManager, Serve,
                  GracefulStop, GracefulStopEnds, StopManager, StopP2P, StopStorage,
                  Connect, Report, grpcVars
    <2>2. QED BY <1>0, <1>2, <2>1, MainProcess DEF RecordStep
  <1>3. CASE Listen \/ ListenFails \/ Signal
    BY <1>3, GrpcProcess DEF Listen, ListenFails, Signal, RecordStep
  <1>4. ASSUME NEW c \in Client, Call(c)
        PROVE  /\ Process' /\ RecordStep
               /\ \A e \in Client : \/ answer'[e] = {}
                                    \/ answer'[e] = answer[e] /\ call'[e] = call[e]
    BY <1>0, <1>4, GrpcProcess DEF Call, RecordStep, TypeOK, Serving
  <1>5. ASSUME NEW c \in Client, Lookup(c) PROVE Process' /\ RecordStep
    BY <1>5, GrpcProcess DEF Lookup, RecordStep
  <1>6. ASSUME NEW c \in Client, Return(c)
        PROVE  /\ Process' /\ RecordStep
               /\ \A e \in Client : \/ answer'[e] = {}
                                    \/ answer'[e] = answer[e] /\ call'[e] = call[e]
    BY <1>0, <1>6, GrpcProcess DEF Return, RecordStep, TypeOK
  <1>7. ASSUME NEW s \in Session,
               OpenHandler(s) \/ Prepare(s) \/ Complete(s) \/ Fail(s) \/ MarkError(s)
        PROVE  /\ Process' /\ RecordStep
               /\ answer' = answer /\ call' = call
    <2>1. /\ RecordStep /\ UNCHANGED <<main, processVars, grpcVars>>
          /\ \E at \in {"prepare", "run", "failed", "done"} :
                session' = [session EXCEPT ![s] = at]
      BY <1>0, <1>7, HandlerRecords
    <2>2. Process' BY <1>0, <2>1, HandlerProcess
    <2>3. QED BY <2>1, <2>2 DEF grpcVars
  <1>8. CASE UNCHANGED vars
    BY <1>0, <1>8, HandlerProcess DEF vars, grpcVars, RecordStep
  <1>9. QED
    BY <1>1, <1>2, <1>3, <1>4, <1>5, <1>6, <1>7, <1>8 DEF Next, Main

LEMMA StepInv == Inv /\ [Next]_vars => Inv'
  <1> SUFFICES ASSUME Inv, [Next]_vars PROVE Inv' OBVIOUS
  <1>1. TypeOK' /\ Started' /\ Serving' BY StepKinds DEF Process
  <1>2. Recorded' BY StepKinds, RecordsKept DEF Inv
  <1>3. AnswersStored' /\ AnswersStand'
    BY StepKinds, AnswersKept, LookupAnswers
  <1>4. QED BY <1>1, <1>2, <1>3 DEF Inv

\* What is up and what is stored, wherever main, the calls and the handlers are,
\* over any number of starts, stops and crashes.
THEOREM Invariance == Spec => []Inv
  <1>1. Init => Inv BY InitInv
  <1>2. Inv /\ [Next]_vars => Inv' BY StepInv
  <1>3. QED BY <1>1, <1>2, PTL DEF Spec

\* No variable takes a value that the program could not have there.
THEOREM TypeCorrect == Spec => []TypeOK
  <1>1. Inv => TypeOK BY DEF Inv
  <1>2. QED BY <1>1, Invariance, PTL

\* main's order of starts and deferred stops around GracefulStop: LevelDB, the
\* host and both stream handlers are there as long as a client's call runs.
THEOREM Served == Spec => []CallsServed
  <1>1. Inv => CallsServed BY DEF Inv, Started, Serving, CallsServed
  <1>2. QED BY <1>1, Invariance, PTL

\* The scan from keyId: finds all records of the key id, and no record of
\* another key id without a colon: with any byte strings as key ids, and any
\* session ids without a colon.
THEOREM OwnRecords == Spec => []ReadsOwnRecords
  <1>1. Inv => ReadsOwnRecords BY RecordedReads DEF Inv
  <1>2. QED BY <1>1, Invariance, PTL

\* The record GetKey answers with, or KeySign signs with, is still the one in
\* LevelDB when it is used: no operation of a handler changes a READY record.
THEOREM Answers == Spec => []AnswersStand
  <1>1. Inv => AnswersStand BY DEF Inv
  <1>2. QED BY <1>1, Invariance, PTL

\* The map from byte strings in LevelDB is the status per session that
\* KeyStore.tla, and KeyGen.tla with it, take it for.
THEOREM Refinement == Spec => ImplementsKeyStore
  <1>1. Inv /\ [Next]_vars => [KeyStoreStep]_db BY StepKinds, RecordStepRefines
  <1>2. QED BY <1>1, Invariance, PTL DEF Spec, ImplementsKeyStore, KeyStoreStep
=============================================================================
