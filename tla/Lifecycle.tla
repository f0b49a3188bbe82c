------------------------------ MODULE Lifecycle ------------------------------
(***************************************************************************)
(* The life of one server's process: main.go from the opening of LevelDB   *)
(* to the last deferred call, bootstrapConnect, the gRPC server and the    *)
(* calls it dispatches (tss_grpc.pb.go), and the handlers of key           *)
(* generation that run at the server, as far as they use the records.      *)
(* Between two lives only db stays.                                        *)
(***************************************************************************)
EXTENDS Storage, FiniteSets

CONSTANTS
    BootstrapPeer,  \* the bootstrap peers
    Client,         \* the clients, each with one call at a time
    Faults          \* of "config" (an argument does not parse), "listen" (a
                    \* port is taken), "dial" (a bootstrap peer is down),
                    \* "crash" (the process dies, or is killed)

ASSUME BootstrapAssumption == IsFiniteSet(BootstrapPeer) /\ BootstrapPeer # {}

VARIABLES
    main,       \* where main is
    open,       \* LevelDB is open
    hostUp,     \* the libp2p host is there
    boot,       \* boot[p]: the goroutine of bootstrapConnect for peer p
    errs,       \* the number of errors in its channel errs
    handlers,   \* the protocol ids with a stream handler
    grpc,       \* the gRPC server: "none", "starting", "serving", "draining",
                \* or "ended"
    signalled,  \* basectx is done
    call,       \* call[c]: c's request that is served, as a set
    looking,    \* the clients whose call has yet to look its key up
    answer,     \* answer[c]: the record the call has found, as a set
    session     \* session[s]: where handleKeyGen of session s is

processVars == <<open, hostUp, boot, errs, handlers>>
grpcVars    == <<grpc, signalled, call, looking, answer>>
vars        == <<main, processVars, grpcVars, session, db>>

\* The methods of TssService, and those that look a key up.
Methods == {"GetLocalPartyId", "GetKey", "KeyGen", "KeySign", "KeyDelete", "VerifySignature"}
Lookups == {"GetKey", "KeySign"}

\* The requests, as far as they matter here.
Requests == [method : Lookups, key : KeyId] \cup [method : Methods \ Lookups]

Init ==
    /\ main = "off"
    /\ open = FALSE /\ hostUp = FALSE
    /\ boot = [p \in BootstrapPeer |-> "none"]
    /\ errs = 0
    /\ handlers = {}
    /\ grpc = "none" /\ signalled = FALSE
    /\ call = [c \in Client |-> {}]
    /\ looking = {}
    /\ answer = [c \in Client |-> {}]
    /\ session = [s \in Session |-> "none"]
    /\ db = <<>>

\* The process is gone: what is left of it is db.
Dies ==
    /\ main' = "off"
    /\ open' = FALSE /\ hostUp' = FALSE
    /\ boot' = [p \in BootstrapPeer |-> "none"]
    /\ errs' = 0
    /\ handlers' = {}
    /\ grpc' = "none" /\ signalled' = FALSE
    /\ call' = [c \in Client |-> {}]
    /\ looking' = {}
    /\ answer' = [c \in Client |-> {}]
    /\ session' = [s \in Session |-> IF session[s] = "none" THEN "none" ELSE "done"]
    /\ UNCHANGED db

-----------------------------------------------------------------------------
(* main: the starts.                                                       *)

\* levelDBManager.Start.  When LevelDB does not open, tm-db panics before
\* anything has started: the process is off as before, which is no step.
StartStorage ==
    /\ main = "off"
    /\ main' = "config"
    /\ open' = TRUE
    /\ UNCHANGED <<hostUp, boot, errs, handlers, grpcVars, session, db>>

\* The bootstrap peers, the listen address or the key file do not parse, or
\* the host cannot listen: main returns.
StartFails ==
    /\ main = "config" /\ Faults \cap {"config", "listen"} # {}
    /\ main' = "stopStorage"
    /\ UNCHANGED <<processVars, grpcVars, session, db>>

\* libP2PManager.Start up to bootstrapConnect: a goroutine per peer.
StartP2P ==
    /\ main = "config"
    /\ main' = "bootstrap"
    /\ hostUp' = TRUE
    /\ boot' = [p \in BootstrapPeer |-> "dial"]
    /\ UNCHANGED <<open, errs, handlers, grpcVars, session, db>>

\* host.Connect returns, with an error or without one.
Connect(p) ==
    /\ boot[p] = "dial"
    /\ \E result \in {"connected"} \cup {"error" : f \in Faults \cap {"dial"}} :
          boot' = [boot EXCEPT ![p] = result]
    /\ UNCHANGED <<main, open, hostUp, errs, handlers, grpcVars, session, db>>

\* A faulty errs without a buffer: nobody reads it before wg.Wait is over.
Unbuffered == FALSE

\* errs := make(chan error, len(m.bootstrapPeers))
Room == errs < Cardinality(BootstrapPeer)

\* errs <- err
Report(p) ==
    /\ boot[p] = "error" /\ Room
    /\ boot' = [boot EXCEPT ![p] = "failed"]
    /\ errs' = errs + 1
    /\ UNCHANGED <<main, open, hostUp, handlers, grpcVars, session, db>>

\* wg.Wait is over: the errors are drained, and nil is returned however many
\* there are.
BootstrapEnds ==
    /\ main = "bootstrap"
    /\ \A p \in BootstrapPeer : boot[p] \in {"connected", "failed"}
    /\ main' = "manager"
    /\ errs' = 0
    /\ boot' = [p \in BootstrapPeer |-> "none"]
    /\ UNCHANGED <<open, hostUp, handlers, grpcVars, session, db>>

\* mpcManager.Start: one handler, then the other.
StartManager ==
    /\ main = "manager"
    /\ IF handlers = {} THEN handlers' = {"keyGen"} /\ UNCHANGED main
                        ELSE handlers' = {"keyGen", "keySign"} /\ main' = "serve"
    /\ UNCHANGED <<open, hostUp, boot, errs, grpcVars, session, db>>

\* RegisterTssServiceServer, NotifyContext, and the goroutine of the server.
Serve ==
    /\ main = "serve"
    /\ main' = "wait"
    /\ grpc' = "starting"
    /\ UNCHANGED <<processVars, signalled, call, looking, answer, session, db>>

-----------------------------------------------------------------------------
(* The gRPC server and its calls.                                          *)

Listen ==
    /\ grpc = "starting"
    /\ grpc' = "serving"
    /\ UNCHANGED <<main, processVars, signalled, call, looking, answer, session, db>>

\* A faulty goroutine without its deferred cancel.
ListenFailsQuietly ==
    /\ grpc = "starting" /\ "listen" \in Faults
    /\ grpc' = "ended"
    /\ UNCHANGED <<main, processVars, signalled, call, looking, answer, session, db>>

\* "failed to listen grpc port": the deferred cancel ends main's wait.
ListenFails ==
    /\ grpc = "starting" /\ "listen" \in Faults
    /\ grpc' = "ended"
    /\ signalled' = TRUE
    /\ UNCHANGED <<main, processVars, call, looking, answer, session, db>>

\* SIGINT or SIGTERM while NotifyContext catches them.
Signal ==
    /\ main = "wait" /\ ~signalled
    /\ signalled' = TRUE
    /\ UNCHANGED <<main, processVars, grpc, call, looking, answer, session, db>>

\* A client's call is dispatched to its method.
Call(c) ==
    /\ grpc = "serving" /\ call[c] = {}
    /\ \E r \in Requests :
          /\ call' = [call EXCEPT ![c] = {r}]
          /\ looking' = IF r.method \in Lookups THEN looking \cup {c} ELSE looking
    /\ UNCHANGED <<main, processVars, grpc, signalled, answer, session, db>>

\* GetKey and KeySign look the latest READY record of the key id up.
Lookup(c) ==
    /\ c \in looking /\ open
    /\ looking' = looking \ {c}
    /\ answer' = [answer EXCEPT ![c] = UNION {LatestReady(r.key) : r \in call[c]}]
    /\ UNCHANGED <<main, processVars, grpc, signalled, call, session, db>>

\* The call returns: GetKey with the record or "key data is nil", KeyGen and
\* KeySign as KeyGen.tla and KeySign.tla say, KeyDelete with Unimplemented,
\* the others with what does not depend on the state.
Return(c) ==
    /\ call[c] # {} /\ c \notin looking
    /\ call' = [call EXCEPT ![c] = {}]
    /\ answer' = [answer EXCEPT ![c] = {}]
    /\ UNCHANGED <<main, processVars, grpc, signalled, looking, session, db>>

-----------------------------------------------------------------------------
(* main: the stops, in the order of the deferred calls.                    *)

\* <-basectx.Done(), and server.GracefulStop begins: no new call.
GracefulStop ==
    /\ main = "wait" /\ signalled
    /\ main' = "drain"
    /\ grpc' = IF grpc = "ended" THEN grpc ELSE "draining"
    /\ UNCHANGED <<processVars, signalled, call, looking, answer, session, db>>

\* A faulty stop that does not wait for the calls.
NotDrained == TRUE

\* GracefulStop waits for the calls that run.
Drained == \A c \in Client : call[c] = {}

GracefulStopEnds ==
    /\ main = "drain" /\ Drained
    /\ main' = "stopManager"
    /\ grpc' = "ended"
    /\ UNCHANGED <<processVars, signalled, call, looking, answer, session, db>>

\* mpcManager.Stop.
StopManager ==
    /\ main = "stopManager"
    /\ IF "keySign" \in handlers
       THEN handlers' = handlers \ {"keySign"} /\ UNCHANGED main
       ELSE handlers' = {} /\ main' = "stopP2P"
    /\ UNCHANGED <<open, hostUp, boot, errs, grpcVars, session, db>>

\* libP2PManager.Stop: the host and its streams, not the handlers that run.
StopP2P ==
    /\ main = "stopP2P"
    /\ main' = "stopStorage"
    /\ hostUp' = FALSE
    /\ UNCHANGED <<open, boot, errs, handlers, grpcVars, session, db>>

\* levelDBManager.Stop.
StopStorage ==
    /\ main = "stopStorage"
    /\ main' = "exit"
    /\ open' = FALSE
    /\ UNCHANGED <<hostUp, boot, errs, handlers, grpcVars, session, db>>

\* main returns.
Exit == main = "exit" /\ Dies

\* The process is killed, also by a signal before NotifyContext.
Crash == main # "off" /\ "crash" \in Faults /\ Dies

-----------------------------------------------------------------------------
(* handleKeyGen of a session at this server, as far as it uses the records.*)

\* A coordinator, this server or another one, opens a stream and prepares.
OpenHandler(s) ==
    /\ session[s] = "none"
    /\ hostUp /\ "keyGen" \in handlers
    /\ session' = [session EXCEPT ![s] = "prepare"]
    /\ UNCHANGED <<main, processVars, grpcVars, db>>

\* checkAndSetKeyGenStorage, with the coordinator's time.
Prepare(s) ==
    /\ session[s] = "prepare" /\ open
    /\ \/ /\ \E t \in Time : CheckAndSetKeyGen(s, t)
          /\ session' = [session EXCEPT ![s] = "run"]
       \/ /\ KeyTaken(KeyOf[s])
          /\ session' = [session EXCEPT ![s] = "failed"]
          /\ UNCHANGED db
    /\ UNCHANGED <<main, processVars, grpcVars>>

\* The key is there; or the handler fails, the end of its stream included.
Complete(s) ==
    /\ session[s] = "run" /\ open
    /\ CompareAndSetKeyStatus(s, "pending", "ready")
    /\ session' = [session EXCEPT ![s] = "done"]
    /\ UNCHANGED <<main, processVars, grpcVars>>

Fail(s) ==
    /\ session[s] = "run"
    /\ session' = [session EXCEPT ![s] = "failed"]
    /\ UNCHANGED <<main, processVars, grpcVars, db>>

MarkError(s) ==
    /\ session[s] = "failed" /\ open
    /\ CompareAndSetKeyStatus(s, "pending", "error")
    /\ session' = [session EXCEPT ![s] = "done"]
    /\ UNCHANGED <<main, processVars, grpcVars>>

\* The same operations on a closed LevelDB panic: tm-db does on every error.
StorageClosed(s) ==
    /\ session[s] \in {"prepare", "run", "failed"} /\ main = "exit"
    /\ Dies

Main ==
    \/ StartFails \/ StartP2P \/ BootstrapEnds \/ StartManager \/ Serve
    \/ GracefulStop \/ GracefulStopEnds \/ StopManager \/ StopP2P \/ StopStorage \/ Exit

Next ==
    \/ StartStorage \/ Main \/ Listen \/ ListenFails \/ Signal \/ Crash
    \/ \E p \in BootstrapPeer : Connect(p) \/ Report(p)
    \/ \E c \in Client : Call(c) \/ Lookup(c) \/ Return(c)
    \/ \E s \in Session : \/ OpenHandler(s) \/ Prepare(s) \/ Complete(s) \/ Fail(s)
                          \/ MarkError(s) \/ StorageClosed(s)

Spec == Init /\ [][Next]_vars

\* main and the goroutines run when they can, host.Connect returns, and calls
\* do (CallReturns of KeyGen.tla and of KeySign.tla).
Fairness ==
    /\ WF_vars(Main) /\ WF_vars(Listen \/ ListenFails)
    /\ \A p \in BootstrapPeer : WF_vars(Connect(p)) /\ WF_vars(Report(p))
    /\ \A c \in Client : WF_vars(Lookup(c)) /\ WF_vars(Return(c))

FairSpec == Spec /\ Fairness
=============================================================================
