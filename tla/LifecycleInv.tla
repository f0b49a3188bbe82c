----------------------------- MODULE LifecycleInv -----------------------------
(***************************************************************************)
(* The inductive invariant of Lifecycle.tla: what is up where main is,     *)
(* which calls the gRPC server has then, what lies in LevelDB, and what    *)
(* the answers that are on their way have to do with it.                   *)
(***************************************************************************)
EXTENDS LifecycleProps

TypeOK ==
    /\ main \in {"off", "config", "bootstrap", "manager", "serve", "wait", "drain",
                 "stopManager", "stopP2P", "stopStorage", "exit"}
    /\ open \in BOOLEAN /\ hostUp \in BOOLEAN /\ signalled \in BOOLEAN
    /\ boot \in [BootstrapPeer -> {"none", "dial", "connected", "error", "failed"}]
    /\ errs \in Nat
    /\ handlers \in SUBSET {"keyGen", "keySign"}
    /\ grpc \in {"none", "starting", "serving", "draining", "ended"}
    /\ call \in [Client -> SUBSET Requests]
    /\ looking \in SUBSET Client
    /\ answer \in [Client -> SUBSET Record]
    /\ session \in [Session -> {"none", "prepare", "run", "failed", "done"}]

\* What main has started and not yet stopped.
Started ==
    /\ main \notin {"off", "exit"} => open
    /\ main \in {"bootstrap", "manager", "serve", "wait", "drain", "stopManager", "stopP2P"}
          => hostUp
    /\ main \in {"off", "config", "bootstrap"} => handlers = {}
    /\ main = "manager" => "keySign" \notin handlers
    /\ main \in {"serve", "wait", "drain"} => handlers = {"keyGen", "keySign"}

\* The gRPC server runs within main's wait, and its calls end before main goes
\* on; a call has one request, whose key is looked up before there is an answer.
Serving ==
    /\ grpc \in {"starting", "serving"} => main = "wait"
    /\ \A c \in Client :
          /\ call[c] # {} => main \in {"wait", "drain"}
          /\ call[c] = {} => answer[c] = {} /\ c \notin looking
          /\ c \in looking => /\ answer[c] = {}
                              /\ \E r \in [method : Lookups, key : KeyId] : call[c] = {r}

\* LevelDB has nothing but records of sessions, each under its storage key.
Recorded ==
    \A x \in DOMAIN db : \E s \in Session :
        /\ x = StorageKey(KeyOf[s], s)
        /\ db[x] \in Record
        /\ db[x].key = KeyOf[s] /\ db[x].session = s

\* The records on their way to a client are still there.
AnswersStored ==
    \A c \in Client : \A d \in answer[c] : StorageKey(d.key, d.session) \in DOMAIN db

\* What a server's process has running and stored in every reachable state.
Inv ==
    /\ TypeOK
    /\ Started
    /\ Serving
    /\ Recorded
    /\ AnswersStored
    /\ AnswersStand
=============================================================================
