----------------------------- MODULE KeyGenProps -----------------------------
(***************************************************************************)
(* What key generation must do, as properties of KeyGen.tla, and the       *)
(* inductive invariant behind them.  READY records are what GetKey answers *)
(* with and KeySign signs with, so most properties are about what a READY  *)
(* record at one server says of the other servers.                         *)
(***************************************************************************)
EXTENDS KeyGen

Registry == INSTANCE KeyRegistry

Workers  == {"none", "dial", "recv", "ready", "joined", "start", "await",
             "success", "failure", "err", "end"}
Handlers == {"none", "validate", "wait", "loop", "failed", "notify", "done"}

\* Every variable has its type; no message is of a round tss-lib does not
\* have, and a message is for another party of its session.
TypeOK ==
    /\ phase \in [Session -> {"idle", "collect", "finish", "ok", "err"}]
    /\ ready \in [Session -> SUBSET Party]
    /\ finished \in [Session -> SUBSET Party]
    /\ worker \in [Session -> [Party -> Workers]]
    /\ link \in [Session -> [Party -> {"none", "open", "closed", "reset"}]]
    /\ c2p \in [Session -> [Party -> {"none", "prepare", "start"}]]
    /\ p2c \in [Session -> [Party -> {"none", "ready", "success", "failure"}]]
    /\ handler \in [Session -> [Party -> Handlers]]
    /\ round \in [Session -> [Party -> 0..Rounds]]
    /\ got \in [Session -> [Party -> SUBSET ((1..Rounds) \X Party)]]
    /\ net \in SUBSET SessionMsg
    /\ status \in [Party -> [Session -> KeyStatus]]

-----------------------------------------------------------------------------
(* Safety.                                                                 *)

\* A server works on one session of a key id at a time and has one key for
\* it: checkAndSetKeyGenStorage refuses the others, whatever handlers of
\* other sessions do meanwhile to their own records.
OneLiveRecord ==
    \A p \in Party : \A s, t \in Session :
        KeyOf[s] = KeyOf[t] /\ Live(p, s) /\ Live(p, t) => s = t

\* Two servers that take part in the same requests never hold READY keys of
\* different sessions for one key id: GetKey gives clients of either server
\* the same public key.  Each server checks its own records only.
KeyAgreement ==
    \A p, q \in Party : \A s, t \in Session :
        Registry!Rivals(p, s, q, t) =>
            ~(status[p][s] = "ready" /\ status[q][t] = "ready")

\* When KeyGen returns a public key, every party has stored its share of it.
SuccessMeansReady ==
    \A s \in Session : phase[s] = "ok" =>
        \A p \in Parties[s] : status[p][s] = "ready"

\* No party runs the event loop, and so dials its peers, before every peer
\* has set the stream handler of the session and passed validation.
StartBarrier ==
    \A s \in Session : \A p \in Parties[s] : handler[s][p] = "loop" =>
        \A q \in Parties[s] : handler[s][q] \notin {"none", "validate"}

\* A READY record is a share of a key that every party has contributed to in
\* every round, although a party may be READY while others have failed.
AllContributed ==
    \A s \in Session : \A p, q \in Parties[s] :
        status[p][s] = "ready" => round[s][q] = Rounds

\* The records of all servers, under every interleaving of messages and
\* faults, change as KeyRegistry says: a key is published only when all
\* parties have accepted the session and none has a rival key, and a record
\* that is READY or ERROR stays so, through crashes too.
ImplementsRegistry == Registry!Spec

-----------------------------------------------------------------------------
(* Liveness, under FairSpec.                                               *)

\* While servers stay up, a call of KeyGen returns, with a key or an error,
\* even when parties fail, stop at their deadlines or lose messages.
CallReturns == \A s \in Session :
    phase[s] = "collect" ~> phase[s] \in {"ok", "err"}

\* A party whose Ready the coordinator has taken does not keep the key id
\* blocked when the call fails: the deferred Close of its stream ends its
\* wait for Start, and the record becomes ERROR.
JoinedReleased == \A s \in Session : \A p \in Party :
    (p \in ready[s] \ {Coord[s]} /\ phase[s] = "err") ~> status[p][s] # "pending"

\* What "key is generating, please do not repeat" tells the client: a handler
\* is at work on the session whose record is PENDING.
PendingIsGenerating ==
    \A p \in Party, s \in Session :
        status[p][s] = "pending" => handler[s][p] \notin {"none", "done"}

\* The client may ask again later: a generation comes to its end.
PendingEnds == \A p \in Party, s \in Session :
    status[p][s] = "pending" ~> status[p][s] # "pending"
=============================================================================
