------------------------------- MODULE KeyGen -------------------------------
(***************************************************************************)
(* Distributed key generation: Manager.KeyGen on the server a client calls *)
(* (the coordinator of the session) and handleKeyGen on every party of the *)
(* request, over one p2p stream per party and one-message session streams  *)
(* between the parties (tss_keygen.go, tss_p2p.go).                        *)
(*                                                                         *)
(* A session goes through                                                  *)
(*   coordinator -> party: Prepare     party: check and set PENDING        *)
(*   party -> coordinator: Ready       coordinator: wait for all           *)
(*   coordinator -> party: Start       parties: exchange tss-lib rounds    *)
(*   party -> coordinator: Finish      coordinator: wait for all           *)
(* and several sessions, for the same key id too, run at the same time.    *)
(*                                                                         *)
(* A goroutine is a program counter per session and party; an unbuffered   *)
(* Go channel is a rendezvous: a goroutine blocked sending on it stays in  *)
(* its state until the receiver takes the value.  Time is left out: a      *)
(* deadline is an event that may happen.  tss-lib is external: a party     *)
(* emits the messages of round 1 when it starts, those of round r + 1 when *)
(* it has round r of every other party, and the key after the last round.  *)
(***************************************************************************)
EXTENDS KeyStore, Naturals

CONSTANTS
    Coord,     \* the server whose KeyGen created the session
    Parties,   \* the parties of the session (AllPartyId, without repetition)
    Rounds,    \* the number of message rounds of tss-lib's key generation
    Faults     \* the events of the environment that may happen, of
               \*   "validate" the validator rejects or does not answer
               \*   "cancel"   the client's context is done
               \*   "timeout"  the session's deadline passes at a party
               \*   "tss"      tss-lib reports an error
               \*   "slow"     GeneratePreParams does not end in its minute
               \*   "reset"    a connection drops: dials and sends fail
               \*   "lose"     a session stream breaks before it is read
               \*   "crash"    a server stops and is started again

ASSUME CoordAssumption   == Coord \in [Session -> Party]
ASSUME PartiesAssumption == Parties \in [Session -> SUBSET Party]
ASSUME RoundsAssumption  == Rounds \in Nat \ {0}

VARIABLES
    phase,     \* phase[s]: where the call of KeyGen is
    ready,     \* ready[s]: the keys of readyP2PStreamMap
    finished,  \* finished[s]: the parties counted by finishCnt
    worker,    \* worker[s][p]: the coordinator's goroutine for party p
    link,      \* link[s][p]: the stream between coordinator and party p
    c2p, p2c,  \* the message in that stream, to the party and back
    handler,   \* handler[s][p]: where handleKeyGen is at party p
    round,     \* round[s][p]: the last tss-lib round p has emitted
    got,       \* got[s][p]: the <<round, party>> p's tss-lib was updated with
    net        \* session streams opened and not read yet

callVars   == <<phase, ready, finished, worker>>
streamVars == <<link, c2p, p2c>>
partyVars  == <<handler, round, got>>
vars       == <<callVars, streamVars, partyVars, net, status>>

Others(s, p) == Parties[s] \ {p}

\* ProcessUpdateMsg of a round, or (kind 0) ProcessErrorMsg.
SessionMsg == [sess : Session, from : Party, to : Party, kind : 0..Rounds]

\* A faulty handler that listens only from Start on.
ListensFromStart(s, p) == handler[s][p] \in {"loop", "failed", "notify"}

\* The states in which p's handler of the session's protocol id is set: a
\* session stream to p opens.
Listening(s, p) == handler[s][p] \in {"validate", "wait", "loop", "failed", "notify"}

\* The states in which the message of such a stream may still be read.
Reading(s, p) == handler[s][p] \in {"validate", "wait", "loop"}

\* The message of kind k of p to each party of To.
Sent(s, p, To, k) ==
    {[sess |-> s, from |-> p, to |-> q, kind |-> k] : q \in {q \in To : Reading(s, q)}}

Init ==
    /\ phase = [s \in Session |-> "idle"]
    /\ ready = [s \in Session |-> {}]
    /\ finished = [s \in Session |-> {}]
    /\ worker = [s \in Session |-> [p \in Party |-> "none"]]
    /\ link = [s \in Session |-> [p \in Party |-> "none"]]
    /\ c2p = [s \in Session |-> [p \in Party |-> "none"]]
    /\ p2c = [s \in Session |-> [p \in Party |-> "none"]]
    /\ handler = [s \in Session |-> [p \in Party |-> "none"]]
    /\ round = [s \in Session |-> [p \in Party |-> 0]]
    /\ got = [s \in Session |-> [p \in Party |-> {}]]
    /\ net = {}
    /\ status = [p \in Party |-> [s \in Session |-> "none"]]

-----------------------------------------------------------------------------
(* The coordinator: Manager.KeyGen.                                        *)

\* The call: a fresh session id and one goroutine per party.
KeyGen(s) ==
    /\ phase[s] = "idle"
    /\ phase' = [phase EXCEPT ![s] = "collect"]
    /\ worker' = [worker EXCEPT ![s] =
                    [p \in Party |-> IF p \in Parties[s] THEN "dial" ELSE "none"]]
    /\ UNCHANGED <<ready, finished, streamVars, partyVars, net, status>>

\* NewStream and SendMsg(KeyGenPrepareMsg).  The goroutine goes on even when
\* the call has returned.
SendPrepare(s, p) ==
    /\ worker[s][p] = "dial"
    /\ worker' = [worker EXCEPT ![s][p] = "recv"]
    /\ link' = [link EXCEPT ![s][p] = "open"]
    /\ c2p' = [c2p EXCEPT ![s][p] = "prepare"]
    /\ UNCHANGED <<phase, ready, finished, p2c, partyVars, net, status>>

\* NewStream or SendMsg of Prepare fails, for instance because the context of
\* a call that has returned is done.  Neither does on a stream to oneself,
\* which is a pair of channels.
DialFails(s, p) ==
    /\ "reset" \in Faults \/ phase[s] \in {"ok", "err"}
    /\ p # Coord[s]
    /\ worker[s][p] = "dial"
    /\ worker' = [worker EXCEPT ![s][p] = "err"]
    /\ UNCHANGED <<phase, ready, finished, streamVars, partyVars, net, status>>

\* RecvMsg of the answer: Ready, Finish with a failure reason, or an error.
RecvReply(s, p) ==
    /\ worker[s][p] = "recv"
    /\ p2c[s][p] # "none" \/ link[s][p] # "open"
    /\ worker' = [worker EXCEPT ![s][p] =
                    IF p2c[s][p] = "ready" THEN "ready" ELSE "err"]
    /\ p2c' = [p2c EXCEPT ![s][p] = "none"]
    /\ UNCHANGED <<phase, ready, finished, link, c2p, partyVars, net, status>>

\* A faulty wait that starts when one party is still missing.
StartsEarly(s, p) == \A q \in Parties[s] : q \in ready[s] \cup {p} \/ q = Coord[s]

\* The condition on which the loop waitForReady ends.
AllReadyWith(s, p) == ready[s] \cup {p} = Parties[s]

\* The loop takes a stream from readyP2PStreamChan.
TakeReady(s, p) ==
    /\ phase[s] = "collect"
    /\ worker[s][p] = "ready"
    /\ ~AllReadyWith(s, p)
    /\ ready' = [ready EXCEPT ![s] = @ \cup {p}]
    /\ worker' = [worker EXCEPT ![s][p] = "joined"]
    /\ UNCHANGED <<phase, finished, streamVars, partyVars, net, status>>

\* The loop takes the last stream, and a goroutine per party is spawned for
\* the second phase.
TakeLastReady(s, p) ==
    /\ phase[s] = "collect"
    /\ worker[s][p] = "ready"
    /\ AllReadyWith(s, p)
    /\ ready' = [ready EXCEPT ![s] = @ \cup {p}]
    /\ phase' = [phase EXCEPT ![s] = "finish"]
    /\ worker' = [worker EXCEPT ![s] =
                    [q \in Party |-> IF q \in Parties[s] THEN "start" ELSE "none"]]
    /\ UNCHANGED <<finished, streamVars, partyVars, net, status>>

\* The goroutines of a call that has returned: one that has not dialled or
\* not sent Start yet still does so, the others can only block for ever on a
\* channel nobody receives from, their streams as they are.
Abandoned(w) == IF w \in {"dial", "start"} THEN w ELSE "end"

\* The call returns: the deferred function closes the streams in the map;
\* the goroutine whose error was taken closes its own.
Return(s, result, S) ==
    /\ phase' = [phase EXCEPT ![s] = result]
    /\ worker' = [worker EXCEPT ![s] = [p \in Party |->
                    IF p \in Parties[s] THEN Abandoned(worker[s][p]) ELSE "none"]]
    /\ link' = [link EXCEPT ![s] = [p \in Party |->
                    IF p \in S /\ link[s][p] = "open" THEN "closed" ELSE link[s][p]]]

\* The first error ends the call, in either loop.
TakeError(s, p) ==
    /\ phase[s] \in {"collect", "finish"}
    /\ worker[s][p] = "err"
    /\ Return(s, "err", ready[s] \cup {p})
    /\ UNCHANGED <<ready, finished, c2p, p2c, partyVars, net, status>>

\* A faulty case that returns without closing the streams.
CtxDoneStreamsOpen(s) ==
    /\ "cancel" \in Faults
    /\ phase[s] \in {"collect", "finish"}
    /\ Return(s, "err", {})
    /\ UNCHANGED <<ready, finished, c2p, p2c, partyVars, net, status>>

\* case <-ctx.Done(), in either loop.
CtxDone(s) ==
    /\ "cancel" \in Faults
    /\ phase[s] \in {"collect", "finish"}
    /\ Return(s, "err", ready[s])
    /\ UNCHANGED <<ready, finished, c2p, p2c, partyVars, net, status>>

\* A server's process ends: its goroutines, handlers and streams with it;
\* its storage stays (SetSync), and it starts again with empty memory.
ProcessDies(p) ==
    LET Ends(s, q) == (p = q \/ p = Coord[s]) /\ link[s][q] # "none"
        Cut(f)     == [s \in Session |-> [q \in Party |->
                         IF Ends(s, q) THEN "none" ELSE f[s][q]]]
    IN /\ phase' = [s \in Session |->
                      IF Coord[s] = p /\ phase[s] \in {"collect", "finish"}
                      THEN "err" ELSE phase[s]]
       /\ worker' = [s \in Session |-> [q \in Party |->
                      IF Coord[s] = p THEN "none" ELSE worker[s][q]]]
       /\ link' = [s \in Session |-> [q \in Party |->
                      IF Ends(s, q) THEN "reset" ELSE link[s][q]]]
       /\ c2p' = Cut(c2p)
       /\ p2c' = Cut(p2c)
       /\ handler' = [s \in Session |-> [q \in Party |->
                      IF q = p /\ handler[s][q] # "none" THEN "done" ELSE handler[s][q]]]
       /\ got' = [s \in Session |-> [got[s] EXCEPT ![p] = {}]]
       /\ net' = {m \in net : m.to # p}
       /\ UNCHANGED <<ready, finished, round, status>>

\* SendMsg(KeyGenStartMsg).
SendStart(s, p) ==
    /\ worker[s][p] = "start"
    /\ link[s][p] = "open"
    /\ worker' = [worker EXCEPT ![s][p] = "await"]
    /\ c2p' = [c2p EXCEPT ![s][p] = "start"]
    /\ UNCHANGED <<phase, ready, finished, link, p2c, partyVars, net, status>>

\* The returning call has closed the stream, or it was reset: an error.
SendStartFails(s, p) ==
    /\ worker[s][p] = "start"
    /\ link[s][p] # "open" /\ p # Coord[s]
    /\ worker' = [worker EXCEPT ![s][p] = "err"]
    /\ UNCHANGED <<phase, ready, finished, streamVars, partyVars, net, status>>

\* The returning call has closed the stream to oneself: the message is sent
\* on a closed Go channel, a panic that ends the process.
SendStartPanics(s, p) ==
    /\ worker[s][p] = "start"
    /\ link[s][p] # "open" /\ p = Coord[s]
    /\ ProcessDies(p)

\* RecvMsg of the party's KeyGenFinishMsg.
RecvFinish(s, p) ==
    /\ worker[s][p] = "await"
    /\ p2c[s][p] # "none" \/ link[s][p] # "open"
    /\ worker' = [worker EXCEPT ![s][p] =
                    IF p2c[s][p] \in {"success", "failure"} THEN p2c[s][p] ELSE "err"]
    /\ p2c' = [p2c EXCEPT ![s][p] = "none"]
    /\ UNCHANGED <<phase, ready, finished, link, c2p, partyVars, net, status>>

\* A faulty count that is satisfied by the first success.
AnyFinished(s, p) == TRUE

\* finishCnt reaches the number of parties.
AllFinishedWith(s, p) == finished[s] \cup {p} = Parties[s]

\* The loop takes a KeyGenFinishMsg with a failure, which ends the call.
TakeFailure(s, p) ==
    /\ phase[s] = "finish"
    /\ worker[s][p] = "failure"
    /\ Return(s, "err", ready[s])
    /\ UNCHANGED <<ready, finished, c2p, p2c, partyVars, net, status>>

\* A successful KeyGenFinishMsg is counted.
TakeSuccess(s, p) ==
    /\ phase[s] = "finish"
    /\ worker[s][p] = "success"
    /\ ~AllFinishedWith(s, p)
    /\ finished' = [finished EXCEPT ![s] = @ \cup {p}]
    /\ worker' = [worker EXCEPT ![s][p] = "end"]
    /\ UNCHANGED <<phase, ready, streamVars, partyVars, net, status>>

\* The last one completes the call, which returns the public key.
TakeLastSuccess(s, p) ==
    /\ phase[s] = "finish"
    /\ worker[s][p] = "success"
    /\ AllFinishedWith(s, p)
    /\ finished' = [finished EXCEPT ![s] = @ \cup {p}]
    /\ Return(s, "ok", ready[s])
    /\ UNCHANGED <<ready, c2p, p2c, partyVars, net, status>>

-----------------------------------------------------------------------------
(* A party: handleKeyGen and handleKeyGen0.                                *)

\* SendMsg to the coordinator; the error is logged only.
Reply(s, p, m) ==
    p2c' = [p2c EXCEPT ![s][p] = IF link[s][p] = "open" THEN m ELSE @]

Goto(s, p, pc) == handler' = [handler EXCEPT ![s][p] = pc]

\* handleKeyGen0 returns, with messages N in the network.  Nobody receives
\* from p2pProcessMsgChan any more: the messages to the party block the
\* goroutines of their streams for ever, and are left out from here on.
Leave(s, p, pc, N) ==
    /\ Goto(s, p, pc)
    /\ got' = [got EXCEPT ![s][p] = {}]
    /\ net' = {m \in N : ~(m.sess = s /\ m.to = p)}

\* RecvMsg of Prepare, SetStreamHandler of the session's protocol id, then
\* checkAndSetKeyGenStorage, which accepts the session.
Accept(s, p) ==
    /\ c2p[s][p] = "prepare"
    /\ c2p' = [c2p EXCEPT ![s][p] = "none"]
    /\ CheckAndSetKeyGen(p, s)
    /\ Goto(s, p, "validate")
    /\ UNCHANGED <<callVars, link, p2c, round, got, net>>

\* The same, up to checkAndSetKeyGenStorage, which refuses the session.
Refuse(s, p) ==
    /\ c2p[s][p] = "prepare"
    /\ c2p' = [c2p EXCEPT ![s][p] = "none"]
    /\ KeyTaken(p, s)
    /\ Goto(s, p, "failed")
    /\ UNCHANGED <<callVars, link, p2c, round, got, net, status>>

\* KeyGenValidate (unless dev) accepts, and SendMsg(KeyGenReadyMsg) succeeds.
SendReady(s, p) ==
    /\ handler[s][p] = "validate"
    /\ link[s][p] = "open"
    /\ p2c' = [p2c EXCEPT ![s][p] = "ready"]
    /\ Goto(s, p, "wait")
    /\ UNCHANGED <<callVars, link, c2p, round, got, net, status>>

\* The validator rejects the request or does not answer, or SendMsg fails.
ReadyFails(s, p) ==
    /\ handler[s][p] = "validate"
    /\ "validate" \in Faults \/ link[s][p] # "open"
    /\ Leave(s, p, "failed", net)
    /\ UNCHANGED <<callVars, streamVars, round, status>>

\* RecvMsg of Start, which no deadline ends; the local party is created and
\* started.
RecvStart(s, p) ==
    /\ handler[s][p] = "wait"
    /\ c2p[s][p] = "start"
    /\ c2p' = [c2p EXCEPT ![s][p] = "none"]
    /\ Goto(s, p, "loop")
    /\ UNCHANGED <<callVars, link, p2c, round, got, net, status>>

\* RecvMsg of Start fails: the stream has ended.
NoStart(s, p) ==
    /\ handler[s][p] = "wait"
    /\ c2p[s][p] = "none" /\ link[s][p] # "open"
    /\ Leave(s, p, "failed", net)
    /\ UNCHANGED <<callVars, streamVars, round, status>>

\* The error of GeneratePreParams is dropped and its nil result dereferenced.
StartPanics(s, p) ==
    /\ "slow" \in Faults
    /\ handler[s][p] = "wait"
    /\ c2p[s][p] = "start"
    /\ ProcessDies(p)

\* A faulty tss-lib round that does not wait for the others.
HasSomeRound(s, p, r) == r = 0 \/ \E q \in Others(s, p) : <<r, q>> \in got[s][p]

\* Round r of every other party has been handed to tss-lib.
HasRound(s, p, r) == \A q \in Others(s, p) : <<r, q>> \in got[s][p]

\* A faulty count of the rounds.
OneMoreRound(s, p) == round[s][p] <= Rounds

\* tss-lib has messages left to emit.
MoreRounds(s, p) == round[s][p] < Rounds

\* tss-lib has a round to emit: its own first one, or the next one.
HasOutput(s, p) ==
    /\ handler[s][p] = "loop"
    /\ MoreRounds(s, p)
    /\ round[s][p] = 0 \/ HasRound(s, p, round[s][p])

\* case msg := <-outCh: one session stream per destination.
SendRound(s, p) ==
    /\ HasOutput(s, p)
    /\ \A q \in Others(s, p) : Listening(s, q)
    /\ round' = [round EXCEPT ![s][p] = @ + 1]
    /\ net' = net \cup Sent(s, p, Others(s, p), round[s][p] + 1)
    /\ UNCHANGED <<callVars, streamVars, handler, got, status>>

\* The first stream that fails ends the loop: only the parties To before it,
\* in the order of the request, have been sent the round.
SendRoundFails(s, p) ==
    /\ HasOutput(s, p)
    /\ \/ Faults \cap {"reset", "timeout"} # {}
       \/ \E q \in Others(s, p) : ~Listening(s, q)
    /\ round' = [round EXCEPT ![s][p] = @ + 1]
    /\ \E To \in SUBSET {q \in Others(s, p) : Listening(s, q)} :
          /\ To # Others(s, p)
          /\ Leave(s, p, "failed", net \cup Sent(s, p, To, round[s][p] + 1))
    /\ UNCHANGED <<callVars, streamVars, status>>

\* case p2pProcessMsg := <-p2pProcessMsgChan with a ProcessUpdateMsg.
RecvUpdate(s, p) ==
    /\ handler[s][p] = "loop"
    /\ \E m \in net :
          /\ m.sess = s /\ m.to = p /\ m.kind > 0
          /\ net' = net \ {m}
          /\ got' = [got EXCEPT ![s][p] = @ \cup {<<m.kind, m.from>>}]
    /\ UNCHANGED <<callVars, streamVars, handler, round, status>>

\* The same with a ProcessErrorMsg: the record is set to ERROR and a failed
\* KeyGenFinishMsg is sent.
RecvError(s, p) ==
    /\ handler[s][p] = "loop"
    /\ \E m \in net : m.sess = s /\ m.to = p /\ m.kind = 0
    /\ CompareAndSetKeyStatus(p, s, "pending", "error")
    /\ Reply(s, p, "failure")
    /\ Leave(s, p, "done", net)
    /\ UNCHANGED <<callVars, link, c2p, round>>

\* case tssLocalPartySaveData := <-endCh.
Complete(s, p) ==
    /\ handler[s][p] = "loop"
    /\ round[s][p] = Rounds
    /\ HasRound(s, p, Rounds)
    /\ CompareAndSetKeyStatus(p, s, "pending", "ready")
    /\ Leave(s, p, IF status[p][s] = "pending" THEN "done" ELSE "failed", net)
    /\ Reply(s, p, IF status[p][s] = "pending" THEN "success" ELSE p2c[s][p])
    /\ UNCHANGED <<callVars, link, c2p, round>>

\* case <-ctx.Done().
Deadline(s, p) ==
    /\ "timeout" \in Faults
    /\ handler[s][p] = "loop"
    /\ Leave(s, p, "failed", net)
    /\ UNCHANGED <<callVars, streamVars, round, status>>

\* case err := <-errCh.
TssError(s, p) ==
    /\ "tss" \in Faults
    /\ handler[s][p] = "loop"
    /\ Leave(s, p, "failed", net)
    /\ UNCHANGED <<callVars, streamVars, round, status>>

\* handleKeyGen0 returned an error: the record goes from PENDING to ERROR;
\* a session that was refused has no record, and that is only logged.
MarkError(s, p) ==
    /\ handler[s][p] = "failed"
    /\ CompareAndSetKeyStatus(p, s, "pending", "error")
    /\ Goto(s, p, "notify")
    /\ UNCHANGED <<callVars, streamVars, round, got, net>>

\* A ProcessErrorMsg to every other party, where a failed dial is only
\* logged (none succeeds once the deadline has passed).
Inform(s, p) ==
    LET Reachable == {q \in Others(s, p) : Listening(s, q)}
    IN \E To \in SUBSET Reachable :
          /\ To = Reachable \/ Faults \cap {"reset", "timeout"} # {}
          /\ net' = net \cup Sent(s, p, To, 0)

\* A faulty end that does not answer the coordinator.
NotifyPeersOnly(s, p) ==
    /\ handler[s][p] = "notify"
    /\ Inform(s, p)
    /\ Goto(s, p, "done")
    /\ UNCHANGED <<callVars, streamVars, round, got, status>>

\* The peers are told, then the coordinator, by a failed KeyGenFinishMsg.
Notify(s, p) ==
    /\ handler[s][p] = "notify"
    /\ Inform(s, p)
    /\ Reply(s, p, "failure")
    /\ Goto(s, p, "done")
    /\ UNCHANGED <<callVars, link, c2p, round, got, status>>

-----------------------------------------------------------------------------
(* The environment.                                                        *)

\* The connection under a stream drops: what was in it is lost.
Reset(s, p) ==
    /\ "reset" \in Faults /\ p # Coord[s]
    /\ link[s][p] \in {"open", "closed"}
    /\ link' = [link EXCEPT ![s][p] = "reset"]
    /\ c2p' = [c2p EXCEPT ![s][p] = "none"]
    /\ p2c' = [p2c EXCEPT ![s][p] = "none"]
    /\ UNCHANGED <<callVars, partyVars, net, status>>

\* "recv msg failed" in the session handler: the message is gone, although
\* its sender saw no error.
Lose(m) ==
    /\ "lose" \in Faults
    /\ net' = net \ {m}
    /\ UNCHANGED <<callVars, streamVars, partyVars, status>>

Crash(p) ==
    /\ "crash" \in Faults
    /\ ProcessDies(p)

\* The goroutine that runs KeyGen: one case of a select.
Call(s) == \E p \in Parties[s] :
    \/ TakeReady(s, p) \/ TakeLastReady(s, p)
    \/ TakeFailure(s, p) \/ TakeSuccess(s, p) \/ TakeLastSuccess(s, p)
    \/ TakeError(s, p)

\* A goroutine of the call.
Worker(s, p) ==
    \/ SendPrepare(s, p) \/ DialFails(s, p)
    \/ RecvReply(s, p)
    \/ SendStart(s, p) \/ SendStartFails(s, p) \/ SendStartPanics(s, p)
    \/ RecvFinish(s, p)

\* The goroutine that runs handleKeyGen.
Handler(s, p) ==
    \/ Accept(s, p) \/ Refuse(s, p)
    \/ SendReady(s, p) \/ ReadyFails(s, p)
    \/ RecvStart(s, p) \/ NoStart(s, p) \/ StartPanics(s, p)
    \/ SendRound(s, p) \/ SendRoundFails(s, p)
    \/ RecvUpdate(s, p) \/ RecvError(s, p)
    \/ Complete(s, p)
    \/ MarkError(s, p)
    \/ Notify(s, p)

Next ==
    \/ \E s \in Session :
          \/ KeyGen(s)
          \/ Call(s)
          \/ CtxDone(s)
          \/ \E p \in Parties[s] :
                \/ Worker(s, p)
                \/ Handler(s, p)
                \/ Deadline(s, p)
                \/ TssError(s, p)
                \/ Reset(s, p)
    \/ \E m \in net : Lose(m)
    \/ \E p \in Party : Crash(p)

Spec == Init /\ [][Next]_vars

\* The Go scheduler runs every goroutine that can run, and a deadline, once
\* set, passes.  Nothing is assumed of clients and of the other faults.
Fairness ==
    \A s \in Session :
        /\ WF_vars(Call(s))
        /\ \A p \in Parties[s] :
              /\ WF_vars(Worker(s, p))
              /\ WF_vars(Handler(s, p))
              /\ WF_vars(Deadline(s, p))

FairSpec == Spec /\ Fairness
=============================================================================
