----------------------------- MODULE EventLoopInv -----------------------------
(***************************************************************************)
(* The inductive invariant of EventLoop.tla, by which it implements        *)
(* LocalRounds.tla: one goroutine at a time is in a round, and the loop    *)
(* has passed on what that round is made of.                               *)
(***************************************************************************)
EXTENDS EventLoopProps

TypeOK ==
    /\ loop \in {"select", "ok", "err"}
    /\ start \in {"lock", "emit", "err", "done"}
    /\ upd \in [Msg -> {"none", "stream", "lock", "emit", "end", "err", "done"}]
    /\ lock \in {"free", "held"}
    /\ current \in 0..(Rounds + 1)
    /\ left \in Nat
    /\ stored \in SUBSET Msg
    /\ sent \in [1..Rounds -> Nat]

\* The loop has taken m from its stream.
HasTaken(m) == upd[m] \notin {"none", "stream"}

\* All messages of round k are stored.
AllStored(k) == \A q \in Peer, i \in 1..Outs[k] : <<k, q, i>> \in stored

\* The lock has one holder: Start, or an Update, while its messages or the
\* result are on their way to the loop.
OneHolder ==
    /\ lock = "free" => start # "emit"
    /\ \A m \in Msg : upd[m] \in {"emit", "end"} =>
          /\ lock = "held" /\ start # "emit"
          /\ \A n \in Msg : upd[n] \in {"emit", "end"} => n = m

\* There are messages to send only in a round, and only while its goroutine
\* holds the lock.
LeftInRound ==
    /\ start = "lock" => current = 0
    /\ left > 0 => lock = "held" /\ current \in 1..Rounds
    /\ current \in 1..Rounds => left <= Outs[current]
    /\ \A m \in Msg : /\ upd[m] = "emit" => current > 0
                      /\ upd[m] = "end" => current = Rounds + 1

\* What was taken comes before what is stored, and what is stored before the
\* round that needs it.
StoredInOrder ==
    /\ \A m \in stored : HasTaken(m)
    /\ \A k \in 1..Rounds : current = k + 1 =>
          AllStored(k) \/ (k = Rounds /\ \A m \in Msg : upd[m] # "end")

\* As long as the loop passes messages on, the rounds before the current one
\* are out, the current one but for what is left, and no later one.
SentInOrder ==
    loop = "select" =>
        /\ current <= Rounds => \A k \in 1..Rounds :
              /\ k < current => sent[k] = Outs[k]
              /\ k = current => sent[k] + left = Outs[k]
              /\ k > current => sent[k] = 0
        /\ \A m \in Msg : upd[m] = "end" => \A k \in 1..Rounds : sent[k] = Outs[k]

\* Where the goroutines of a party can be, and what they have sent and stored
\* by then, in every reachable state.
Inv ==
    /\ TypeOK
    /\ OneHolder
    /\ LeftInRound
    /\ StoredInOrder
    /\ SentInOrder
=============================================================================
