----------------------------- MODULE KeySignQuiet -----------------------------
(***************************************************************************)
(* The inductive invariant of KeySign.tla for a call that nothing disturbs:*)
(* no client that cancels, no deadline, no error of tss-lib, no connection *)
(* that breaks and no crash.  Validators may still refuse, and a party may *)
(* get its share late.  It says why handleKeySign then never closes        *)
(* p2pProcessMsgChan under a message.                                      *)
(***************************************************************************)
EXTENDS KeySignInv

\* The faults that do not disturb a call.
Quiet == Faults \subseteq {"validate", "late"}

\* p waits for Start, and nothing is on its way to it.
Waits(p) == handler[p] = "wait" /\ link[p] = "open" /\ c2p[p] = "none"

\* p has been told to sign and has not answered yet.
Signs(p) ==
    /\ link[p] = "open" /\ p2c[p] = "none"
    /\ handler[p] = "loop" \/ (handler[p] = "wait" /\ c2p[p] = "start")

HasAnswered(p) == handler[p] \in {"closing", "done"}

\* The goroutines of a phase end with it, and the context with the call.
PhasesInOrder ==
    /\ ctxDone => phase \in {"ok", "err"}
    /\ phase \in {"idle", "collect"} => chosen = {}
    /\ \A p \in Party :
          /\ worker[p] \in {"dial", "recv"} => phase = "collect"
          /\ worker[p] \in {"start", "await"} => phase = "sign"

\* A stream stays open, with at most one message in it, until the party's
\* answer is read, and a party that is ready until it is needed or cancelled.
ReadyWaits ==
    \A p \in Party :
        /\ phase = "idle" \/ worker[p] = "dial" => p2c[p] = "none"
        /\ c2p[p] = "prepare" \/ handler[p] = "validate" =>
              worker[p] = "recv" /\ link[p] = "open" /\ p2c[p] = "none"
        /\ handler[p] = "validate" => c2p[p] = "none"
        /\ p2c[p] = "ready" => worker[p] = "recv" /\ Waits(p)
        /\ p \in readyChan =>
              Waits(p) /\ p2c[p] = "none" /\ p \notin chosen
                       /\ worker[p] \notin {"dial", "recv"}
        /\ p \in chosen /\ ~Enough(chosen) => Waits(p) /\ p2c[p] = "none"

\* A signer gets Start, and answers only when all signers have sent all
\* rounds; its goroutine of the call stays until then.
SignersComplete ==
    Enough(chosen) => \A p \in chosen :
        /\ worker[p] = "start" => Waits(p) /\ p2c[p] = "none"
        /\ worker[p] = "await" => Signs(p) \/ HasAnswered(p)
        /\ worker[p] \notin {"start", "await"} => HasAnswered(p)
        /\ HasAnswered(p) => \A q \in chosen : round[q] = Rounds

\* A message of a round is for a signer that has yet to hand it to tss-lib
\* and does not leave the loop before.
MessagesExpected ==
    \A m \in net :
        /\ m.from \in chosen /\ m.to \in chosen /\ m.from # m.to
        /\ handler[m.to] \in {"wait", "loop"}
        /\ <<m.kind, m.from>> \notin got[m.to]

\* A signer emits a round only when it has the one before of all its peers.
RoundsInOrder ==
    \A p \in Party :
        /\ handler[p] = "wait" => round[p] = 0
        /\ handler[p] = "loop" => \A k \in 1..Rounds : k < round[p] => HasRound(p, k)

\* In a call that nothing disturbs, and only there: how far each signer, its
\* goroutine of the call and its stream can be apart.
QuietInv ==
    /\ PhasesInOrder
    /\ ReadyWaits
    /\ SignersComplete
    /\ MessagesExpected
    /\ RoundsInOrder
=============================================================================
