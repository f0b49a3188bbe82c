---------------------------- MODULE LifecycleProps ----------------------------
(***************************************************************************)
(* What a server's process must do, as properties of Lifecycle.tla.        *)
(***************************************************************************)
EXTENDS Lifecycle

CONSTANT Self   \* the server

\* The records in db, as KeyStore.tla has them.
Keys == INSTANCE KeyStore WITH
    Party  <- {Self},
    status <- [p \in {Self} |-> [s \in Session |->
                 IF StorageKey(KeyOf[s], s) \in DOMAIN db
                 THEN db[StorageKey(KeyOf[s], s)].status ELSE "none"]]

HasColon(k) == \E i \in 1..Len(k) : k[i] = Colon

\* The key id l is k, or begins with k and a colon.
Extends(l, k) == l = k \/ HasPrefix(l, k \o <<Colon>>)

\* Main starts and stops the storage, the p2p host and the manager around the
\* gRPC server: while a client's call runs, all three are there.
CallsServed ==
    (\E c \in Client : call[c] # {}) =>
        open /\ hostUp /\ handlers = {"keyGen", "keySign"}

\* "get KeyData list by keyId": GetKeyDataListByKeyId finds every record of the
\* key id, whatever lies next to them in LevelDB, and as far as key ids have no
\* colon it finds no record of another one.
ReadsOwnRecords ==
    \A k \in KeyId, d \in {db[x] : x \in DOMAIN db} :
        LET found == d \in GetKeyDataListByKeyId(k)
        IN /\ d.key = k => found
           /\ found /\ ~HasColon(d.key) => d.key = k

\* What GetKey is about to answer, or KeySign to sign with, stays true: the
\* one record found is READY from then on.  Its key id is the one asked for,
\* unless it begins with that one and a colon.
AnswersStand ==
    \A c \in Client :
        /\ Cardinality(answer[c]) <= 1
        /\ \A d \in answer[c] :
              /\ \E r \in call[c] : Extends(d.key, r.key)
              /\ d.status = "ready" /\ db[StorageKey(d.key, d.session)] = d

\* Over starts, stops and crashes a record changes only by the operations of
\* KeyStore.tla: it appears as PENDING when the key id has no live record,
\* and goes from PENDING to READY or ERROR once.
ImplementsKeyStore ==
    [][\E s \in Session :
          \/ Keys!CheckAndSetKeyGen(Self, s)
          \/ Keys!CompareAndSetKeyStatus(Self, s, "pending", "ready")
          \/ Keys!CompareAndSetKeyStatus(Self, s, "pending", "error")]_db

\* Bootstrap comes to its end although peers are down: none of its goroutines
\* waits for a reader of errs.
BootstrapReturns == main = "bootstrap" ~> main # "bootstrap"

\* After a signal, or when the gRPC server cannot listen, the process ends:
\* it waits for its calls, but not for handlers.
Stops == signalled \/ grpc = "ended" ~> main = "off"
=============================================================================
