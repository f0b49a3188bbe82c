------------------------------ MODULE P2PStream ------------------------------
(***************************************************************************)
(* The streams of tss_p2p.go to one server's handler of one protocol id:   *)
(* SetStreamHandler and RemoveStreamHandler at the server, NewStream and   *)
(* then SendMsg and Close at the other end, RecvMsg in the handler.        *)
(*                                                                         *)
(* A stream of the server to itself is a Go channel of messages.  On a     *)
(* libp2p stream a message is its length (4 bytes, one unit here) and its  *)
(* bytes, written and read in pieces: one unit at a time.  The unit of     *)
(* size, the sizes of the messages and the limit are abstract.             *)
(***************************************************************************)
EXTENDS Naturals, Sequences

CONSTANTS
    Stream,    \* the streams opened to the handler
    LocalEnd,  \* those the server opens to itself
    Msg,       \* the messages
    Size,      \* Size[m]: the length of m's encoding
    Width,     \* the number of values of a length (2^32)
    Limit,     \* the length RecvMsg accepts (20 MiB)
    Capacity,  \* the capacity of a local stream's channel
    Plans,     \* the sequences of messages a sender may have to send
    Want,      \* the number of messages the handler reads
    Faults     \* {"reset"} or {}: a libp2p stream breaks

ASSUME StreamAssumption == LocalEnd \subseteq Stream /\ Plans \subseteq Seq(Msg)
ASSUME SizeAssumption   == Size \in [Msg -> Nat] /\ {Limit, Capacity, Want} \subseteq Nat
\* No message is so long that the conversion to uint32 cuts its length.
ASSUME LengthAssumption == Width \in Nat \ {0} /\ \A m \in Msg : Size[m] < Width
\* Only one message is encoded as nothing: what was encoded can be decoded.
ASSUME EncodingAssumption == \A m, n \in Msg : Size[m] = 0 /\ Size[n] = 0 => m = n

VARIABLES
    inMap,     \* the handler is in localHandlerMap
    inHost,    \* the handler is set at the libp2p host
    sender,    \* sender[s]: "new", "open", "closed" or "failed"
    todo,      \* todo[s]: the messages still to be sent
    out,       \* out[s]: the units SendMsg has yet to write
    pipe,      \* pipe[s]: what was written and not read
    reader,    \* reader[s]: "none", "length", "body", "done" or "failed"
    need,      \* need[s]: the length that was read
    have,      \* have[s]: the units of the body read so far
    broken,    \* broken[s]: the stream was reset
    sent, recv \* as in MessageStream

serverVars == <<inMap, inHost>>
sendVars   == <<sender, todo, out, sent>>
readVars   == <<reader, need, have, recv>>
vars       == <<serverVars, sendVars, readVars, pipe, broken>>

Each(v) == [s \in Stream |-> v]

Init ==
    /\ inMap = FALSE /\ inHost = FALSE
    /\ sender = Each("new")
    /\ todo \in [Stream -> Plans]
    /\ out = Each(<<>>) /\ pipe = Each(<<>>)
    /\ reader = Each("none")
    /\ need = Each(0) /\ have = Each(<<>>)
    /\ broken = Each(FALSE)
    /\ sent = Each(<<>>) /\ recv = Each(<<>>)

\* The units of a message on the wire, and the message of the units read.
Body(m)  == [i \in 1..Size[m] |-> <<m, i>>]
Frame(m) == <<[length |-> Size[m] % Width]>> \o Body(m)
Decode(units) ==
    IF \E m \in Msg : Body(m) = units THEN CHOOSE m \in Msg : Body(m) = units
                                      ELSE "garbage"

-----------------------------------------------------------------------------
(* The server: the map first, then the host, in both functions.            *)

SetStreamHandler ==
    /\ ~inHost
    /\ IF ~inMap THEN inMap' = TRUE /\ UNCHANGED inHost
                 ELSE inHost' = TRUE /\ UNCHANGED inMap
    /\ UNCHANGED <<sendVars, readVars, pipe, broken>>

RemoveStreamHandler ==
    /\ inHost
    /\ IF inMap THEN inMap' = FALSE /\ UNCHANGED inHost
                ELSE inHost' = FALSE /\ UNCHANGED inMap
    /\ UNCHANGED <<sendVars, readVars, pipe, broken>>

\* The handler is there for s.
Registered(s) == IF s \in LocalEnd THEN inMap ELSE inHost

-----------------------------------------------------------------------------
(* The sender.                                                             *)

\* NewStream: the handler runs, in a goroutine of its own.
NewStream(s) ==
    /\ sender[s] = "new" /\ Registered(s)
    /\ sender' = [sender EXCEPT ![s] = "open"]
    /\ reader' = [reader EXCEPT ![s] = "length"]
    /\ UNCHANGED <<serverVars, todo, out, sent, need, have, recv, pipe, broken>>

\* "no local handler for protocol", or the host's error.
NewStreamFails(s) ==
    /\ sender[s] = "new"
    /\ ~Registered(s) \/ (s \notin LocalEnd /\ "reset" \in Faults)
    /\ sender' = [sender EXCEPT ![s] = "failed"]
    /\ UNCHANGED <<serverVars, todo, out, sent, readVars, pipe, broken>>

\* SendMsg has returned: the writer is flushed.
Flushed(s) == out[s] = <<>>

\* SendMsg is called.  On a local stream the channel takes the message, once
\* it has room.
SendMsg(s) ==
    /\ sender[s] = "open" /\ Flushed(s) /\ todo[s] # <<>>
    /\ IF s \in LocalEnd
       THEN /\ Len(pipe[s]) < Capacity
            /\ pipe' = [pipe EXCEPT ![s] = Append(@, Head(todo[s]))]
            /\ UNCHANGED out
       ELSE /\ out' = [out EXCEPT ![s] = Frame(Head(todo[s]))]
            /\ UNCHANGED pipe
    /\ sent' = [sent EXCEPT ![s] = Append(@, Head(todo[s]))]
    /\ todo' = [todo EXCEPT ![s] = Tail(@)]
    /\ UNCHANGED <<serverVars, sender, readVars, broken>>

\* The other end still takes what is written.
Connected(s) == ~broken[s] /\ reader[s] \in {"length", "body"}

\* A piece of the message gets into the stream.
Write(s) ==
    /\ sender[s] = "open" /\ out[s] # <<>> /\ Connected(s)
    /\ pipe' = [pipe EXCEPT ![s] = Append(@, Head(out[s]))]
    /\ out' = [out EXCEPT ![s] = Tail(@)]
    /\ UNCHANGED <<serverVars, sender, todo, sent, readVars, broken>>

\* SendMsg returns an error, and its caller gives the stream up.
WriteFails(s) ==
    /\ sender[s] = "open" /\ out[s] # <<>> /\ ~Connected(s)
    /\ sender' = [sender EXCEPT ![s] = "failed"]
    /\ out' = [out EXCEPT ![s] = <<>>]
    /\ UNCHANGED <<serverVars, todo, sent, readVars, pipe, broken>>

Close(s) ==
    /\ sender[s] = "open" /\ Flushed(s) /\ todo[s] = <<>>
    /\ sender' = [sender EXCEPT ![s] = "closed"]
    /\ out' = [out EXCEPT ![s] = <<>>]
    /\ UNCHANGED <<serverVars, todo, sent, readVars, pipe, broken>>

-----------------------------------------------------------------------------
(* The handler.                                                            *)

\* RecvMsg returns m; after the last message it wants the handler closes its
\* end.
Returns(s, m) ==
    /\ recv' = [recv EXCEPT ![s] = Append(@, m)]
    /\ reader' = [reader EXCEPT ![s] = IF Len(recv'[s]) < Want THEN "length" ELSE "done"]

\* A faulty limit that refuses what the limit allows.
BelowLimit(n) == n < Limit

\* The length is not above the limit.
Accepts(n) == n <= Limit

\* RecvMsg of a local stream: the next message of the channel.
RecvLocal(s) ==
    /\ s \in LocalEnd /\ reader[s] = "length" /\ pipe[s] # <<>>
    /\ Returns(s, Head(pipe[s]))
    /\ pipe' = [pipe EXCEPT ![s] = Tail(@)]
    /\ UNCHANGED <<serverVars, sendVars, need, have, broken>>

\* The length is read: "message length is too large" ends the stream.
ReadLength(s) ==
    /\ s \notin LocalEnd /\ reader[s] = "length" /\ pipe[s] # <<>>
    /\ need' = [need EXCEPT ![s] = Head(pipe[s]).length]
    /\ have' = [have EXCEPT ![s] = <<>>]
    /\ pipe' = [pipe EXCEPT ![s] = Tail(@)]
    /\ reader' = [reader EXCEPT ![s] = IF Accepts(need'[s]) THEN "body" ELSE "failed"]
    /\ UNCHANGED <<serverVars, sendVars, recv, broken>>

\* A faulty RecvMsg that reads once and takes what it got.
FirstRead(s) == need[s] = 0 \/ have[s] # <<>>

\* io.ReadFull has the whole body.
FullyRead(s) == Len(have[s]) = need[s]

\* io.ReadFull gets another piece of the body.
ReadBody(s) ==
    /\ reader[s] = "body" /\ ~FullyRead(s) /\ pipe[s] # <<>>
    /\ have' = [have EXCEPT ![s] = Append(@, Head(pipe[s]))]
    /\ pipe' = [pipe EXCEPT ![s] = Tail(@)]
    /\ UNCHANGED <<serverVars, sendVars, reader, need, recv, broken>>

\* The body is decoded.
RecvMsg(s) ==
    /\ reader[s] = "body" /\ FullyRead(s)
    /\ Returns(s, Decode(have[s]))
    /\ UNCHANGED <<serverVars, sendVars, need, have, pipe, broken>>

\* The end of the stream, or nil from a closed channel, where a message or
\* the rest of one is expected.
RecvFails(s) ==
    /\ \/ reader[s] = "length"
       \/ reader[s] = "body" /\ ~FullyRead(s)
    /\ pipe[s] = <<>>
    /\ broken[s] \/ sender[s] \in {"closed", "failed"}
    /\ reader' = [reader EXCEPT ![s] = "failed"]
    /\ UNCHANGED <<serverVars, sendVars, need, have, recv, pipe, broken>>

-----------------------------------------------------------------------------
\* The connection under a stream breaks, with what is in it.
Reset(s) ==
    /\ "reset" \in Faults /\ s \notin LocalEnd
    /\ sender[s] # "new" /\ ~broken[s]
    /\ broken' = [broken EXCEPT ![s] = TRUE]
    /\ pipe' = [pipe EXCEPT ![s] = <<>>]
    /\ UNCHANGED <<serverVars, sendVars, readVars>>

Sender(s)  == NewStream(s) \/ NewStreamFails(s) \/ SendMsg(s) \/ Write(s) \/ WriteFails(s) \/ Close(s)
Handler(s) == RecvLocal(s) \/ ReadLength(s) \/ ReadBody(s) \/ RecvMsg(s) \/ RecvFails(s)

Next ==
    \/ SetStreamHandler \/ RemoveStreamHandler
    \/ \E s \in Stream : Sender(s) \/ Handler(s) \/ Reset(s)

Spec == Init /\ [][Next]_vars

\* The goroutines at both ends of a stream run when they can.
Fairness == \A s \in Stream : WF_vars(Sender(s)) /\ WF_vars(Handler(s))

FairSpec == Spec /\ Fairness
=============================================================================
