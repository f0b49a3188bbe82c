------------------------------ MODULE KeyGenInv ------------------------------
(***************************************************************************)
(* The inductive invariant of KeyGen.tla.  The safety properties speak of  *)
(* records; they hold because of where the goroutines and messages that    *)
(* lead to a record can be, which is what the conjuncts below say.         *)
(***************************************************************************)
EXTENDS KeyGenProps

\* All parties have answered Ready and the coordinator knows it.
Started(s) == ready[s] = Parties[s]

\* p has told, or is about to have told, the coordinator that it is ready.
Acknowledged(s, p) == p2c[s][p] = "ready" \/ worker[s][p] = "ready" \/ p \in ready[s]

\* p has told the coordinator that its key is stored.
Reported(s, p) == p2c[s][p] = "success" \/ worker[s][p] = "success" \/ p \in finished[s]

\* Only parties of a session take part in it.
OnlyParties ==
    \A s \in Session :
        /\ ready[s] \subseteq Parties[s]
        /\ \A p \in Party :
              worker[s][p] # "none" \/ status[p][s] # "none" => p \in Parties[s]
        /\ \A m \in net : m.from \in Parties[m.sess]

\* Before Prepare reaches a party nothing of the session exists there.
BeforePrepare ==
    \A s \in Session : \A p \in Party :
        /\ phase[s] = "idle" \/ worker[s][p] = "dial" \/ c2p[s][p] = "prepare" =>
              /\ handler[s][p] = "none"
              /\ status[p][s] = "none"
              /\ p2c[s][p] = "none"
              /\ ~Acknowledged(s, p)
              /\ ~Reported(s, p)
        /\ phase[s] = "idle" => worker[s][p] = "none" /\ c2p[s][p] = "none"
        /\ worker[s][p] = "dial" => c2p[s][p] = "none"
        /\ c2p[s][p] = "prepare" => worker[s][p] \in {"recv", "end"} /\ link[s][p] = "open"

\* Ready is sent by a party that has accepted the session, whose record
\* stays, and that listens to the session's messages or has ended.
ReadyMeansAccepted ==
    \A s \in Session : \A p \in Party : Acknowledged(s, p) =>
        status[p][s] # "none" /\ handler[s][p] \notin {"none", "validate"}

\* What comes after Start happens only once all parties are ready.
AfterStart ==
    \A s \in Session :
        /\ phase[s] \in {"finish", "ok"} => Started(s)
        /\ \A p \in Party :
              /\ worker[s][p] \in {"start", "await", "success", "failure"} => Started(s)
              /\ c2p[s][p] = "start" => Started(s)
              /\ handler[s][p] = "loop" => Started(s)
              /\ round[s][p] > 0 => Started(s)

\* The handler that works on a session owns its record until it ends.
HandlerOwnsRecord ==
    \A s \in Session : \A p \in Party :
        handler[s][p] \in {"validate", "wait", "loop"} => status[p][s] = "pending"

\* A round received was sent.
RoundsWereSent ==
    /\ \A m \in net : m.kind > 0 => round[m.sess][m.from] >= m.kind
    /\ \A s \in Session : \A p, q \in Party : \A r \in 1..Rounds :
          <<r, q>> \in got[s][p] => round[s][q] >= r

\* Success is reported for a READY record, and the call counts the reports.
ReportedMeansReady ==
    \A s \in Session :
        /\ \A p \in Party : Reported(s, p) => status[p][s] = "ready"
        /\ phase[s] = "ok" => Parties[s] \subseteq finished[s]

\* p has not given session s up before doing its part of it.
Contributes(p, s) == status[p][s] = "pending" \/ round[s][p] = Rounds

\* Two servers never split two rival sessions that have started between
\* them: when each has contributed, or may still, to both, then one of the
\* sessions has failed at both.  For a session to start, each must have it
\* pending, and so, having one live record each, have failed the other.
NoSplit ==
    \A p, q \in Party : \A s, t \in Session :
        /\ Registry!Rivals(p, s, q, t)
        /\ Started(s) /\ Started(t)
        /\ \A u \in {s, t} : Contributes(p, u) /\ Contributes(q, u)
        => \E u \in {s, t} : status[p][u] = "error" /\ status[q][u] = "error"

\* The inductive invariant: where each message and goroutine of a session can
\* be, and so which records its parties can have, in every reachable state.
Inv ==
    /\ TypeOK
    /\ OnlyParties
    /\ BeforePrepare
    /\ ReadyMeansAccepted
    /\ AfterStart
    /\ HandlerOwnsRecord
    /\ RoundsWereSent
    /\ ReportedMeansReady
    /\ AllContributed
    /\ OneLiveRecord
    /\ NoSplit
=============================================================================
