------------------------------- MODULE KeySign -------------------------------
(***************************************************************************)
(* One call of Manager.KeySign at server Coord and the handleKeySign it    *)
(* causes at each party of the key (tss_keysign.go, tss_p2p.go).  Calls    *)
(* share nothing but the processes they run in: another call is seen here  *)
(* only when it ends a process, which is the fault "crash".                *)
(*                                                                         *)
(*   Prepare to all parties; wait until each has answered or failed;       *)
(*   take Ready streams until there are more than Threshold; cancel the    *)
(*   others; Start; the signers exchange tss-lib rounds; wait until each   *)
(*   has finished or failed; take results until one is a signature.        *)
(*                                                                         *)
(* The goroutines, streams, time and tss-lib are modelled as in KeyGen.    *)
(* The channels of the call are buffered for all that is ever sent on      *)
(* them, so sending never blocks and the order in a channel does not       *)
(* matter: the order in which parties answer is arbitrary already.         *)
(***************************************************************************)
EXTENDS Naturals, FiniteSets

CONSTANTS
    Party,      \* the parties of the key (KeyData.AllPartyId)
    Share,      \* those whose record of the key session is READY at first
    Coord,      \* the server whose KeySign is called
    Threshold,  \* KeyData.Threshold
    Rounds,     \* the number of message rounds of tss-lib's signing
    Faults      \* the events of the environment that may happen, of
                \*   "validate" the validator rejects or does not answer
                \*   "cancel"   the client's context is done
                \*   "timeout"  the deadline passes at a party
                \*   "tss"      tss-lib reports an error
                \*   "reset"    a connection drops: dials and sends fail
                \*   "lose"     a session stream breaks before it is read
                \*   "crash"    a server stops and is started again
                \*   "late"     the key generation ends at one more party

ASSUME PartyAssumption  == IsFiniteSet(Party) /\ Share \subseteq Party
ASSUME CoordAssumption  == Coord \in Party
ASSUME RoundsAssumption == Threshold \in Nat /\ Rounds \in Nat \ {0}

VARIABLES
    share,      \* the parties whose record of the key session is READY
    phase,      \* where the call is
    ctxDone,    \* ctx.Done() of the call is closed
    chosen,     \* the keys of readyP2PStreamMap
    readyChan,  \* the parties whose stream is in readyP2PStreamChan
    errChan,    \* the parties whose error is in errChan
    result,     \* result[p]: p's message in finishMsgChan, or "counted"
    worker,     \* worker[p]: the call's goroutine for party p
    canceller,  \* the goroutine that cancels the surplus parties
    link,       \* link[p]: the stream between the call and party p
    c2p, p2c,   \* the message in that stream, to the party and back
    handler,    \* handler[p]: where handleKeySign is at party p
    round,      \* round[p]: the last tss-lib round p has emitted
    got,        \* got[p]: the <<round, party>> p's tss-lib was updated with
    net         \* session streams opened whose message is not handed over

callVars   == <<phase, ctxDone, chosen, readyChan, errChan, result, worker, canceller>>
streamVars == <<link, c2p, p2c>>
partyVars  == <<handler, round, got, net, share>>
vars       == <<callVars, streamVars, partyVars>>

\* A faulty broadcast to all parties of the key.
AllOthers(p) == Party \ {p}

\* The other signers (KeySignStartMsg.SignPartyId).
Peers(p) == chosen \ {p}

\* A faulty handler that listens only from Start on.
ListensFromStart(p) == handler[p] \in {"loop", "closing"}

\* The states in which p's handler of the session's protocol id is set.
Listening(p) == handler[p] \in {"validate", "wait", "loop", "closing"}

\* The ProcessUpdateMsg of round k of p to each party of To.
Sent(p, To, k) == {[from |-> p, to |-> q, kind |-> k] : q \in To}

\* A message for p that has not been handed to p's event loop.
Pending(p) == \E m \in net : m.to = p

Init ==
    /\ share = Share
    /\ phase = "idle"
    /\ ctxDone = FALSE
    /\ chosen = {}
    /\ readyChan = {}
    /\ errChan = {}
    /\ result = [p \in Party |-> "none"]
    /\ worker = [p \in Party |-> "none"]
    /\ canceller = "none"
    /\ link = [p \in Party |-> "none"]
    /\ c2p = [p \in Party |-> "none"]
    /\ p2c = [p \in Party |-> "none"]
    /\ handler = [p \in Party |-> "none"]
    /\ round = [p \in Party |-> 0]
    /\ got = [p \in Party |-> {}]
    /\ net = {}

-----------------------------------------------------------------------------
(* The call: Manager.KeySign.                                              *)

\* The latest READY record of the key id is at hand: a goroutine per party.
KeySign ==
    /\ phase = "idle" /\ Coord \in share
    /\ phase' = "collect"
    /\ worker' = [p \in Party |-> "dial"]
    /\ UNCHANGED <<ctxDone, chosen, readyChan, errChan, result, canceller,
                   streamVars, partyVars>>

\* "key not found from local storage"
NotFound ==
    /\ phase = "idle" /\ Coord \notin share
    /\ phase' = "err"
    /\ ctxDone' = TRUE
    /\ UNCHANGED <<chosen, readyChan, errChan, result, worker, canceller,
                   streamVars, partyVars>>

\* The client cancels, or its deadline passes.
Cancel ==
    /\ "cancel" \in Faults
    /\ phase # "idle" /\ ~ctxDone
    /\ ctxDone' = TRUE
    /\ UNCHANGED <<phase, chosen, readyChan, errChan, result, worker, canceller,
                   streamVars, partyVars>>

\* case <-ctx.Done() at the head of a goroutine, of either phase.
Skip(p) ==
    /\ worker[p] \in {"dial", "start"} /\ ctxDone
    /\ worker' = [worker EXCEPT ![p] = "end"]
    /\ UNCHANGED <<phase, ctxDone, chosen, readyChan, errChan, result, canceller,
                   streamVars, partyVars>>

\* NewStream and SendMsg(KeySignPrepareMsg).
SendPrepare(p) ==
    /\ worker[p] = "dial" /\ ~ctxDone
    /\ worker' = [worker EXCEPT ![p] = "recv"]
    /\ link' = [link EXCEPT ![p] = "open"]
    /\ c2p' = [c2p EXCEPT ![p] = "prepare"]
    /\ UNCHANGED <<phase, ctxDone, chosen, readyChan, errChan, result, canceller,
                   p2c, partyVars>>

\* NewStream or SendMsg fails, also because the context is done; a stream to
\* oneself is a pair of channels, and cannot fail.
DialFails(p) ==
    /\ "reset" \in Faults \/ ctxDone
    /\ p # Coord
    /\ worker[p] = "dial"
    /\ worker' = [worker EXCEPT ![p] = "end"]
    /\ errChan' = errChan \cup {p}
    /\ UNCHANGED <<phase, ctxDone, chosen, readyChan, result, canceller,
                   streamVars, partyVars>>

\* A faulty test of the answer that takes any message for Ready.
AnyAnswer(m) == m # "none"

IsReady(m) == m = "ready"

\* RecvMsg returns: a message, or the end of the stream.
Receives(p) == p2c[p] # "none" \/ link[p] # "open"

\* KeySignReadyMsg: the stream is sent on readyP2PStreamChan, or dropped,
\* still open, when the context is done.
RecvReady(p) ==
    /\ worker[p] = "recv"
    /\ IsReady(p2c[p])
    /\ \/ readyChan' = readyChan \cup {p}
       \/ ctxDone /\ UNCHANGED readyChan
    /\ worker' = [worker EXCEPT ![p] = "end"]
    /\ p2c' = [p2c EXCEPT ![p] = "none"]
    /\ UNCHANGED <<phase, ctxDone, chosen, errChan, result, canceller, link, c2p,
                   partyVars>>

\* KeySignFinishMsg or an error, sent on errChan; the stream is closed.
RecvRefusal(p) ==
    /\ worker[p] = "recv"
    /\ Receives(p) /\ ~IsReady(p2c[p])
    /\ \/ errChan' = errChan \cup {p}
       \/ ctxDone /\ p2c[p] # "none" /\ UNCHANGED errChan
    /\ worker' = [worker EXCEPT ![p] = "end"]
    /\ p2c' = [p2c EXCEPT ![p] = "none"]
    /\ link' = [link EXCEPT ![p] = IF @ = "open" THEN "closed" ELSE @]
    /\ UNCHANGED <<phase, ctxDone, chosen, readyChan, result, canceller, c2p, partyVars>>

\* wgNew.Wait() and wg.Wait(): the goroutines of the phase have ended.
WaitGroup ==
    /\ phase \in {"collect", "sign"}
    /\ \A p \in Party : worker[p] \in {"none", "end"}
    /\ phase' = IF phase = "collect" THEN "choose" ELSE "finish"
    /\ UNCHANGED <<ctxDone, chosen, readyChan, errChan, result, worker, canceller,
                   streamVars, partyVars>>

\* A faulty count of the signers needed.
EnoughAt(S) == Cardinality(S) >= Threshold

\* len(readyP2PStreamMap) > keyData.Threshold
Enough(S) == Cardinality(S) > Threshold

\* case readyP2PStream := <-readyP2PStreamChan, while more are needed.
TakeReady(p) ==
    /\ phase = "choose"
    /\ p \in readyChan /\ ~Enough(chosen \cup {p})
    /\ chosen' = chosen \cup {p}
    /\ readyChan' = readyChan \ {p}
    /\ UNCHANGED <<phase, ctxDone, errChan, result, worker, canceller, streamVars,
                   partyVars>>

\* The same with the last one needed: the signers are fixed, the others are
\* left to the canceller, and each signer gets a goroutine.
TakeLastReady(p) ==
    /\ phase = "choose"
    /\ p \in readyChan /\ Enough(chosen \cup {p})
    /\ chosen' = chosen \cup {p}
    /\ readyChan' = readyChan \ {p}
    /\ phase' = "sign"
    /\ canceller' = IF chosen' = Party THEN "end" ELSE "run"
    /\ worker' = [q \in Party |-> IF q \in chosen' THEN "start" ELSE "none"]
    /\ UNCHANGED <<ctxDone, errChan, result, streamVars, partyVars>>

\* The canceller takes a surplus stream, sends Cancel and closes it.
CancelSurplus(p) ==
    /\ canceller = "run"
    /\ p \in readyChan
    /\ readyChan' = readyChan \ {p}
    /\ c2p' = [c2p EXCEPT ![p] = IF link[p] = "open" THEN "cancel" ELSE @]
    /\ link' = [link EXCEPT ![p] = IF @ = "open" THEN "closed" ELSE @]
    /\ UNCHANGED <<phase, ctxDone, chosen, errChan, result, worker, canceller, p2c,
                   partyVars>>

\* Its case <-ctx.Done(), which select may take while streams are left.
CancellerStops ==
    /\ canceller = "run" /\ ctxDone
    /\ canceller' = "end"
    /\ UNCHANGED <<phase, ctxDone, chosen, readyChan, errChan, result, worker,
                   streamVars, partyVars>>

\* SendMsg(KeySignStartMsg) with the list of the signers.
SendStart(p) ==
    /\ worker[p] = "start" /\ ~ctxDone
    /\ link[p] = "open"
    /\ worker' = [worker EXCEPT ![p] = "await"]
    /\ c2p' = [c2p EXCEPT ![p] = "start"]
    /\ UNCHANGED <<phase, ctxDone, chosen, readyChan, errChan, result, canceller,
                   link, p2c, partyVars>>

\* The stream has been reset.
SendStartFails(p) ==
    /\ worker[p] = "start" /\ ~ctxDone
    /\ link[p] # "open"
    /\ worker' = [worker EXCEPT ![p] = "end"]
    /\ errChan' = errChan \cup {p}
    /\ UNCHANGED <<phase, ctxDone, chosen, readyChan, result, canceller, streamVars,
                   partyVars>>

\* RecvMsg of the signer's KeySignFinishMsg, or of the end of the stream.
RecvFinish(p) ==
    /\ worker[p] = "await"
    /\ Receives(p)
    /\ worker' = [worker EXCEPT ![p] = "end"]
    /\ p2c' = [p2c EXCEPT ![p] = "none"]
    /\ IF p2c[p] \in {"success", "failure"}
       THEN result' = [result EXCEPT ![p] = p2c[p]] /\ UNCHANGED errChan
       ELSE errChan' = errChan \cup {p} /\ UNCHANGED result
    /\ UNCHANGED <<phase, ctxDone, chosen, readyChan, canceller, link, c2p, partyVars>>

\* A faulty return that never closes the streams.
ReturnStreamsOpen(answer) ==
    /\ phase' = answer
    /\ ctxDone' = TRUE
    /\ UNCHANGED <<chosen, readyChan, errChan, worker, canceller, streamVars, partyVars>>

\* The call returns, and gRPC cancels its context.  The streams of the map
\* are closed by the function deferred once the signers run: a return out of
\* the loop waitForReady leaves them open.
Return(answer) ==
    /\ phase' = answer
    /\ ctxDone' = TRUE
    /\ link' = [p \in Party |->
                  IF phase = "finish" /\ p \in chosen /\ link[p] = "open"
                  THEN "closed" ELSE link[p]]
    /\ UNCHANGED <<chosen, readyChan, errChan, worker, canceller, c2p, p2c, partyVars>>

\* case <-ctx.Done() and case err := <-errChan of either loop.
TakeError ==
    /\ phase \in {"choose", "finish"}
    /\ ctxDone \/ errChan # {}
    /\ Return("err")
    /\ UNCHANGED result

\* case finishMsg := <-finishMsgChan with a signature.
TakeSuccess(p) ==
    /\ phase = "finish"
    /\ result[p] = "success"
    /\ Return("ok")
    /\ UNCHANGED result

\* The signers whose failure is counted by finishCnt, with p.
Failed(p) == {p} \cup {q \in Party : result[q] = "counted"}

\* A faulty count that expects a failure of every party of the key.
NoPartyLeft(p) == Failed(p) = Party

\* finishCnt == len(readyP2PStreamMap)
NoSignerLeft(p) == Failed(p) = chosen

\* The same with a failure, which is counted.
TakeFailure(p) ==
    /\ phase = "finish"
    /\ result[p] = "failure" /\ ~NoSignerLeft(p)
    /\ result' = [result EXCEPT ![p] = "counted"]
    /\ UNCHANGED <<phase, ctxDone, chosen, readyChan, errChan, worker, canceller,
                   streamVars, partyVars>>

\* The last failure of all signers: "sign all party failed".
TakeLastFailure(p) ==
    /\ phase = "finish"
    /\ result[p] = "failure" /\ NoSignerLeft(p)
    /\ result' = [result EXCEPT ![p] = "counted"]
    /\ Return("err")

-----------------------------------------------------------------------------
(* A party: handleKeySign and handleKeySign0.                              *)

Goto(p, pc) == handler' = [handler EXCEPT ![p] = pc]

\* handleKeySign0 returns and SendMsg(KeySignFinishMsg), whose error is only
\* logged, follows.
Answer(p, m) ==
    /\ Goto(p, "closing")
    /\ p2c' = [p2c EXCEPT ![p] = IF link[p] = "open" THEN m ELSE @]
    /\ got' = [got EXCEPT ![p] = {}]

\* RecvMsg of Prepare, and SetStreamHandler of the session's protocol id.
RecvPrepare(p) ==
    /\ c2p[p] = "prepare"
    /\ c2p' = [c2p EXCEPT ![p] = "none"]
    /\ Goto(p, "validate")
    /\ UNCHANGED <<callVars, link, p2c, round, got, net, share>>

\* The record is there with its save data, KeySignValidate (unless dev)
\* accepts, and SendMsg(KeySignReadyMsg) succeeds.
SendReady(p) ==
    /\ handler[p] = "validate"
    /\ p \in share
    /\ link[p] = "open"
    /\ p2c' = [p2c EXCEPT ![p] = "ready"]
    /\ Goto(p, "wait")
    /\ UNCHANGED <<callVars, link, c2p, round, got, net, share>>

\* One of the three fails.  A record that is PENDING or ERROR has no save
\* data, which does not parse.
Refuse(p) ==
    /\ handler[p] = "validate"
    /\ p \notin share \/ "validate" \in Faults \/ link[p] # "open"
    /\ Answer(p, "failure")
    /\ UNCHANGED <<callVars, link, c2p, round, net, share>>

\* RecvMsg of Start; the local party is created and started.
RecvStart(p) ==
    /\ handler[p] = "wait"
    /\ c2p[p] = "start"
    /\ c2p' = [c2p EXCEPT ![p] = "none"]
    /\ Goto(p, "loop")
    /\ UNCHANGED <<callVars, link, p2c, round, got, net, share>>

\* RecvMsg of Cancel, or of the end of the stream.
NoStart(p) ==
    /\ handler[p] = "wait"
    /\ \/ c2p[p] = "cancel"
       \/ c2p[p] = "none" /\ link[p] # "open"
    /\ c2p' = [c2p EXCEPT ![p] = "none"]
    /\ Answer(p, "failure")
    /\ UNCHANGED <<callVars, link, round, net, share>>

\* A faulty tss-lib round that is content with the one before.
HasPreviousRound(p, k) == \A q \in Peers(p) : k = 1 \/ <<k - 1, q>> \in got[p]

\* Round k of every other signer has been handed to tss-lib.
HasRound(p, k) == \A q \in Peers(p) : <<k, q>> \in got[p]

\* A faulty count of the rounds.
OneMoreRound(p) == round[p] <= Rounds

\* tss-lib has messages left to emit.
MoreRounds(p) == round[p] < Rounds

\* tss-lib has a round to emit: its own first one, or the next one.
HasOutput(p) ==
    /\ handler[p] = "loop"
    /\ MoreRounds(p)
    /\ round[p] = 0 \/ HasRound(p, round[p])

\* case msg := <-outCh: one session stream per destination.
SendRound(p) ==
    /\ HasOutput(p)
    /\ \A q \in Peers(p) : Listening(q)
    /\ round' = [round EXCEPT ![p] = @ + 1]
    /\ net' = net \cup Sent(p, Peers(p), round[p] + 1)
    /\ UNCHANGED <<callVars, streamVars, handler, got, share>>

\* The first stream that fails ends the loop: only the signers To before it
\* have been sent the round.
SendRoundFails(p) ==
    /\ HasOutput(p)
    /\ \/ Faults \cap {"reset", "timeout"} # {}
       \/ \E q \in Peers(p) : ~Listening(q)
    /\ round' = [round EXCEPT ![p] = @ + 1]
    /\ \E To \in SUBSET {q \in Peers(p) : Listening(q)} :
          /\ To # Peers(p)
          /\ net' = net \cup Sent(p, To, round[p] + 1)
    /\ Answer(p, "failure")
    /\ UNCHANGED <<callVars, link, c2p, share>>

\* case p2pProcessMsg := <-p2pProcessMsgChan with a ProcessUpdateMsg.
RecvUpdate(p) ==
    /\ handler[p] = "loop"
    /\ \E m \in net :
          /\ m.to = p
          /\ net' = net \ {m}
          /\ got' = [got EXCEPT ![p] = @ \cup {<<m.kind, m.from>>}]
    /\ UNCHANGED <<callVars, streamVars, handler, round, share>>

\* case tssSignatureData = <-endCh.
Complete(p) ==
    /\ handler[p] = "loop"
    /\ round[p] = Rounds /\ HasRound(p, Rounds)
    /\ Answer(p, "success")
    /\ UNCHANGED <<callVars, link, c2p, round, net, share>>

\* case <-ctx.Done(), and case err := <-errCh of the event loop.
LoopFails(p) ==
    /\ handler[p] = "loop"
    /\ Answer(p, "failure")
    /\ UNCHANGED <<callVars, link, c2p, round, net, share>>

Deadline(p) == "timeout" \in Faults /\ LoopFails(p)
TssError(p) == "tss" \in Faults /\ LoopFails(p)

\* The deferred calls: RemoveStreamHandler, close(p2pProcessMsgChan) and the
\* stream's Close, whose other end reads what is left in it.
CloseSession(p) ==
    /\ handler[p] = "closing" /\ ~Pending(p)
    /\ Goto(p, "done")
    /\ link' = [link EXCEPT ![p] = IF @ = "open" THEN "left" ELSE @]
    /\ UNCHANGED <<callVars, c2p, p2c, round, got, net, share>>

\* A server's process ends: its goroutines, handlers and streams with it.
ProcessDies(p) ==
    LET Ends(q) == (p = q \/ p = Coord) /\ link[q] # "none"
        Cut(f)  == [q \in Party |-> IF Ends(q) THEN "none" ELSE f[q]]
        Calls   == p = Coord /\ phase # "idle"
    IN /\ phase' = IF Calls /\ phase # "ok" THEN "err" ELSE phase
       /\ ctxDone' = (ctxDone \/ Calls)
       /\ worker' = IF Calls THEN [q \in Party |-> "none"] ELSE worker
       /\ canceller' = IF Calls THEN "end" ELSE canceller
       /\ link' = [q \in Party |-> IF Ends(q) THEN "reset" ELSE link[q]]
       /\ c2p' = Cut(c2p)
       /\ p2c' = Cut(p2c)
       /\ handler' = [handler EXCEPT ![p] = IF @ = "none" THEN @ ELSE "done"]
       /\ got' = [got EXCEPT ![p] = {}]
       /\ net' = {m \in net : m.to # p}
       /\ UNCHANGED <<chosen, readyChan, errChan, result, round, share>>

\* close(p2pProcessMsgChan) under a goroutine that has a message to send on
\* it: a panic.
ClosePanics(p) ==
    /\ handler[p] = "closing" /\ Pending(p)
    /\ ProcessDies(p)

-----------------------------------------------------------------------------
(* The environment.                                                        *)

\* The connection under a stream drops: what was in it is lost.
Reset(p) ==
    /\ "reset" \in Faults /\ p # Coord
    /\ link[p] \in {"open", "closed", "left"}
    /\ link' = [link EXCEPT ![p] = "reset"]
    /\ c2p' = [c2p EXCEPT ![p] = "none"]
    /\ p2c' = [p2c EXCEPT ![p] = "none"]
    /\ UNCHANGED <<callVars, partyVars>>

\* "recv session p2p msg fail": the message is gone.
Lose ==
    /\ "lose" \in Faults
    /\ \E m \in net : net' = net \ {m}
    /\ UNCHANGED <<callVars, streamVars, handler, round, got, share>>

Crash(p) ==
    /\ "crash" \in Faults
    /\ ProcessDies(p)

\* p completes the key generation of the session: its record becomes READY.
ShareStored(p) ==
    /\ "late" \in Faults
    /\ p \notin share
    /\ share' = share \cup {p}
    /\ UNCHANGED <<callVars, streamVars, handler, round, got, net>>

\* The goroutine that runs KeySign.
Call ==
    \/ WaitGroup \/ TakeError
    \/ \E p \in Party : \/ TakeReady(p) \/ TakeLastReady(p)
                        \/ TakeSuccess(p) \/ TakeFailure(p) \/ TakeLastFailure(p)

\* A goroutine of the call.
Worker(p) ==
    \/ Skip(p) \/ SendPrepare(p) \/ DialFails(p) \/ RecvReady(p) \/ RecvRefusal(p)
    \/ SendStart(p) \/ SendStartFails(p) \/ RecvFinish(p)

Canceller == CancellerStops \/ \E p \in Party : CancelSurplus(p)

\* The goroutine that runs handleKeySign.
Handler(p) ==
    \/ RecvPrepare(p) \/ SendReady(p) \/ Refuse(p)
    \/ RecvStart(p) \/ NoStart(p)
    \/ SendRound(p) \/ SendRoundFails(p) \/ RecvUpdate(p) \/ Complete(p)
    \/ CloseSession(p) \/ ClosePanics(p)

Next ==
    \/ KeySign \/ NotFound \/ Cancel \/ Call \/ Canceller \/ Lose
    \/ \E p \in Party :
          \/ Worker(p) \/ Handler(p)
          \/ Deadline(p) \/ TssError(p) \/ Reset(p) \/ Crash(p) \/ ShareStored(p)

Spec == Init /\ [][Next]_vars

\* The Go scheduler runs every goroutine that can run, and a deadline, once
\* set, passes.  Nothing is assumed of the client and of the other faults.
Fairness ==
    /\ WF_vars(Call)
    /\ WF_vars(Canceller)
    /\ \A p \in Party : /\ WF_vars(Worker(p))
                        /\ WF_vars(Handler(p))
                        /\ WF_vars(Deadline(p))

FairSpec == Spec /\ Fairness
=============================================================================
