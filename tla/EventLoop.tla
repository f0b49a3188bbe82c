------------------------------ MODULE EventLoop ------------------------------
(***************************************************************************)
(* The event loop of handleKeyGen0, and the same one of handleKeySign0, at *)
(* one party, with the goroutines around it: one that runs the local       *)
(* party's Start, one per session stream that hands its message over, one  *)
(* per message that runs Update.  outCh, endCh, errCh and p2pProcessMsgChan*)
(* are unbuffered, so each value on them is a step the loop takes together *)
(* with the goroutine that sends it.                                       *)
(*                                                                         *)
(* tss-lib is external.  What matters of it here: Start and Update hold    *)
(* the lock of the local party while they run, and send the messages of a  *)
(* round, and the result, on outCh and endCh before they release it; an    *)
(* Update stores its message and starts the next round when it completes   *)
(* the current one, and so on with what is stored; Start starts round 1    *)
(* and looks at nothing that was stored before; a round that has failed    *)
(* never completes.                                                        *)
(***************************************************************************)
EXTENDS Naturals

CONSTANTS
    Peer,     \* the other parties
    Rounds,   \* the number of message rounds
    Outs,     \* Outs[k]: the number of messages a party sends in round k
    Faults    \* of "timeout", "reset" (a stream to a peer fails), "tss"
              \* (tss-lib reports an error), "peer" (a ProcessErrorMsg)

ASSUME RoundsAssumption == Rounds \in Nat \ {0}
ASSUME OutsAssumption   == Outs \in [1..Rounds -> Nat \ {0}]

\* The messages of the peers for this party: <<round, peer, number>>.
Msg == UNION {{k} \X Peer \X (1..Outs[k]) : k \in 1..Rounds}

VARIABLES
    loop,     \* "select", and then "ok" or "err": what the loop has returned
    start,    \* the goroutine of Start: "lock", "emit", "err", "done"
    upd,      \* upd[m]: the goroutine m is in: "none" before it arrives,
              \* "stream" in its session stream's, "lock", "emit", "end",
              \* "err", "done" in its Update's
    lock,     \* the lock of the local party: "free" or "held"
    current,  \* the local party's round, 0 before Start, Rounds + 1 when
              \* there is none any more
    left,     \* the messages of the round it has yet to send on outCh
    stored,   \* the messages of the peers it has stored
    sent      \* sent[k]: the messages of round k that were sent to the peers

vars == <<loop, start, upd, lock, current, left, stored, sent>>

Init ==
    /\ loop = "select"
    /\ start = "lock"
    /\ upd = [m \in Msg |-> "none"]
    /\ lock = "free"
    /\ current = 0
    /\ left = 0
    /\ stored = {}
    /\ sent = [k \in 1..Rounds |-> 0]

\* A faulty loop that runs Update itself: it is back at its select only when
\* no Update runs.
BackFromUpdate ==
    loop = "select" /\ \A m \in Msg : upd[m] \notin {"lock", "emit", "end", "err"}

\* The loop is at its select.
Selecting == loop = "select"

-----------------------------------------------------------------------------
(* The goroutines up to the channel they send on.                          *)

\* Start gets the lock and starts round 1.
StartParty ==
    /\ start = "lock" /\ lock = "free"
    /\ lock' = "held"
    /\ start' = "emit"
    /\ current' = 1
    /\ left' = Outs[1]
    /\ UNCHANGED <<loop, upd, stored, sent>>

\* The round that is being sent fails.
RoundFails == current' = Rounds + 1 /\ left' = 0

\* Start has sent all of round 1, or fails.
StartEnds ==
    /\ start = "emit"
    /\ \/ left = 0 /\ start' = "done" /\ UNCHANGED <<current, left>>
       \/ "tss" \in Faults /\ start' = "err" /\ RoundFails
    /\ lock' = "free"
    /\ UNCHANGED <<loop, upd, stored, sent>>

\* A session stream of a peer is read: its round is due when this party has
\* sent the peer the round before.
Arrive(m) ==
    /\ Selecting
    /\ upd[m] = "none"
    /\ m[1] > 1 => sent[m[1] - 1] = Outs[m[1] - 1]
    /\ upd' = [upd EXCEPT ![m] = "stream"]
    /\ UNCHANGED <<loop, start, lock, current, left, stored, sent>>

\* The current round has all it waits for in S.
Completes(S) ==
    /\ current \in 1..Rounds
    /\ \A q \in Peer, i \in 1..Outs[current] : <<current, q, i>> \in S

\* Update gets the lock and stores m, to no effect yet.
Store(m) ==
    /\ upd[m] = "lock" /\ lock = "free"
    /\ ~Completes(stored \cup {m})
    /\ stored' = stored \cup {m}
    /\ upd' = [upd EXCEPT ![m] = "done"]
    /\ UNCHANGED <<loop, start, lock, current, left, sent>>

\* The same when the round is complete: the next one starts, or the result
\* is there.
Advance(m) ==
    /\ upd[m] = "lock" /\ lock = "free"
    /\ Completes(stored \cup {m})
    /\ stored' = stored \cup {m}
    /\ lock' = "held"
    /\ current' = current + 1
    /\ left' = IF current < Rounds THEN Outs[current + 1] ELSE 0
    /\ upd' = [upd EXCEPT ![m] = IF current < Rounds THEN "emit" ELSE "end"]
    /\ UNCHANGED <<loop, start, sent>>

\* The round is sent: the lock is released and m is looked at again.
Emitted(m) ==
    /\ upd[m] = "emit" /\ left = 0
    /\ lock' = "free"
    /\ upd' = [upd EXCEPT ![m] = "lock"]
    /\ UNCHANGED <<loop, start, current, left, stored, sent>>

\* Update returns an error: of its message, or of the round it starts.
UpdateFails(m) ==
    /\ "tss" \in Faults
    /\ \/ upd[m] = "lock" /\ lock = "free" /\ UNCHANGED <<current, left>>
       \/ upd[m] = "emit" /\ RoundFails
    /\ lock' = "free"
    /\ upd' = [upd EXCEPT ![m] = "err"]
    /\ UNCHANGED <<loop, start, stored, sent>>

-----------------------------------------------------------------------------
(* The cases of the loop's select.                                         *)

\* case p2pProcessMsg := <-p2pProcessMsgChan with a ProcessUpdateMsg: Update
\* gets a goroutine, that of the stream ends.
TakeUpdate(m) ==
    /\ Selecting
    /\ upd[m] = "stream"
    /\ upd' = [upd EXCEPT ![m] = "lock"]
    /\ UNCHANGED <<loop, start, lock, current, left, stored, sent>>

\* The same with a ProcessErrorMsg.
TakeError ==
    /\ "peer" \in Faults
    /\ Selecting
    /\ loop' = "err"
    /\ UNCHANGED <<start, upd, lock, current, left, stored, sent>>

\* A goroutine that runs tss-lib is sending on outCh.
Emitting == left > 0 /\ (start = "emit" \/ \E m \in Msg : upd[m] = "emit")

\* A faulty loop that returns when the last message is out.
SendOutAndReturn ==
    /\ Selecting /\ Emitting
    /\ left' = left - 1
    /\ sent' = [sent EXCEPT ![current] = @ + 1]
    /\ loop' = IF current = Rounds /\ left' = 0 THEN "ok" ELSE loop
    /\ UNCHANGED <<start, upd, lock, current, stored>>

\* case msg := <-outCh: it is sent to the peers.
SendOut ==
    /\ Selecting /\ Emitting
    /\ left' = left - 1
    /\ sent' = [sent EXCEPT ![current] = @ + 1]
    /\ UNCHANGED <<loop, start, upd, lock, current, stored>>

\* A faulty loop that only logs the failure.
SendOutSkips ==
    /\ "reset" \in Faults
    /\ Selecting /\ Emitting
    /\ left' = left - 1
    /\ UNCHANGED <<loop, start, upd, lock, current, stored, sent>>

\* The same when a stream to a peer fails.
SendOutFails ==
    /\ "reset" \in Faults
    /\ Selecting /\ Emitting
    /\ left' = left - 1
    /\ loop' = "err"
    /\ UNCHANGED <<start, upd, lock, current, stored, sent>>

\* case <-endCh.
TakeEnd(m) ==
    /\ Selecting
    /\ upd[m] = "end"
    /\ loop' = "ok"
    /\ lock' = "free"
    /\ upd' = [upd EXCEPT ![m] = "done"]
    /\ UNCHANGED <<start, current, left, stored, sent>>

\* case err := <-errCh.
TakeTssError ==
    /\ Selecting
    /\ \/ start = "err" /\ start' = "done" /\ UNCHANGED upd
       \/ \E m \in Msg : /\ upd[m] = "err"
                         /\ upd' = [upd EXCEPT ![m] = "done"]
                         /\ UNCHANGED start
    /\ loop' = "err"
    /\ UNCHANGED <<lock, current, left, stored, sent>>

\* case <-ctx.Done().
Deadline ==
    /\ "timeout" \in Faults
    /\ Selecting
    /\ loop' = "err"
    /\ UNCHANGED <<start, upd, lock, current, left, stored, sent>>

Select ==
    \/ SendOut \/ SendOutFails \/ TakeTssError
    \/ \E m \in Msg : TakeUpdate(m) \/ TakeEnd(m)

Update(m) == Store(m) \/ Advance(m) \/ Emitted(m) \/ UpdateFails(m)

Next ==
    \/ StartParty \/ StartEnds
    \/ Select \/ TakeError \/ Deadline
    \/ \E m \in Msg : Arrive(m) \/ Update(m)

Spec == Init /\ [][Next]_vars

\* Goroutines that can run do, and the peers send what is due.  Nothing is
\* assumed of the deadline: the loop must not need it.
Fairness ==
    /\ WF_vars(StartParty) /\ WF_vars(StartEnds)
    /\ WF_vars(Select)
    /\ \A m \in Msg : WF_vars(Arrive(m)) /\ WF_vars(Update(m))

FairSpec == Spec /\ Fairness
=============================================================================
