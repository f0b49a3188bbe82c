----------------------------- MODULE P2PStreamInv -----------------------------
(***************************************************************************)
(* The inductive invariant of P2PStream.tla: where each unit of the        *)
(* messages sent is, on a libp2p stream, when it is neither still to be    *)
(* sent nor part of a message that was read.                               *)
(***************************************************************************)
EXTENDS P2PStreamProps

\* What a libp2p stream carries: lengths, and bytes of messages.
Unit == [length : Nat] \cup (Msg \X Nat)

TypeOK ==
    /\ sender \in [Stream -> {"new", "open", "closed", "failed"}]
    /\ reader \in [Stream -> {"none", "length", "body", "done", "failed"}]
    /\ todo \in [Stream -> Seq(Msg)]
    /\ out  \in [Stream -> Seq(Unit)]
    /\ pipe \in [Stream -> Seq(Unit \cup Msg)]
    /\ need \in [Stream -> Nat]
    /\ have \in [Stream -> Seq(Unit \cup Msg)]
    /\ broken \in [Stream -> BOOLEAN]
    /\ sent \in [Stream -> Seq(Msg)]
    /\ recv \in [Stream -> Seq(Msg)]

\* The message the handler is to return next is number Current(s).
Current(s) == Len(recv[s]) + 1

\* Nothing is in a stream before it is opened, and only an open stream has
\* something to write.
Opened(s) ==
    /\ sender[s] = "new" => reader[s] = "none"
    /\ reader[s] = "none" =>
          /\ sender[s] \in {"new", "failed"}
          /\ sent[s] = <<>> /\ recv[s] = <<>> /\ pipe[s] = <<>>
    /\ out[s] # <<>> => sender[s] = "open"

\* Nothing is read from a stream that broke.
Broken(s) == broken[s] => s \notin LocalEnd /\ pipe[s] = <<>>

\* The messages read are the first ones sent.
Delivered(s) ==
    /\ Len(recv[s]) <= Len(sent[s])
    /\ \A i \in 1..Len(recv[s]) : recv[s][i] = sent[s][i]

\* The channel of a local stream holds what was sent and not read.
LocalOrder(s) ==
    s \in LocalEnd =>
        /\ sent[s] = recv[s] \o pipe[s]
        /\ out[s] = <<>> /\ reader[s] # "body"

\* What has been read of a body is the beginning of the right one, and its
\* length is the one that was sent before it.
BodyRead(s) ==
    reader[s] = "body" =>
        /\ Current(s) <= Len(sent[s])
        /\ need[s] = Size[sent[s][Current(s)]]
        /\ Len(have[s]) <= need[s]
        /\ \A j \in 1..Len(have[s]) : have[s][j] = <<sent[s][Current(s)], j>>

\* The units that were not read yet.
Wire(s) == pipe[s] \o out[s]

\* at[i] is the number of units before the i-th of n messages: the place of
\* its length among all units of the stream.
Places(at, msgs, n) ==
    \A i \in 1..n :
        /\ at[i + 1] = at[i] + 1 + Size[msgs[i]]
        /\ at[i + 1] <= at[n + 1]

\* The units are those of the messages from place here on.
InPlace(units, here, at, msgs, n) ==
    \A i \in 1..n :
        /\ at[i] >= here => units[at[i] - here + 1] = [length |-> Size[msgs[i]]]
        /\ \A j \in 1..Size[msgs[i]] :
              at[i] + j >= here => units[at[i] + j - here + 1] = <<msgs[i], j>>

\* The place of the unit that is read next.
Here(s, at) ==
    IF reader[s] = "body" THEN at[Current(s)] + 1 + Len(have[s]) ELSE at[Current(s)]

\* While the handler reads a libp2p stream that did not break.
Reads(s) == s \notin LocalEnd /\ ~broken[s] /\ reader[s] \in {"length", "body"}

\* What is in such a stream, or still to be written, is what was sent and not
\* read, unit by unit.
OnTheWire(s) ==
    LET n == Len(sent[s]) IN
    Reads(s) => \E at \in [1..n + 1 -> Nat] :
        /\ Places(at, sent[s], n)
        /\ Here(s, at) + Len(Wire(s)) = at[n + 1]
        /\ InPlace(Wire(s), Here(s, at), at, sent[s], n)

StreamInv(s) ==
    /\ Opened(s)
    /\ Broken(s)
    /\ Delivered(s)
    /\ LocalOrder(s)
    /\ BodyRead(s)
    /\ OnTheWire(s)

Inv == TypeOK /\ \A s \in Stream : StreamInv(s)
=============================================================================
