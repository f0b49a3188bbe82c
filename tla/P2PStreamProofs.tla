--------------------------- MODULE P2PStreamProofs ---------------------------
(***************************************************************************)
(* Proofs about P2PStream.tla: a stream delivers the messages that were    *)
(* sent, in their order, whatever their sizes, however they are cut into   *)
(* pieces, and wherever a stream ends or breaks.                           *)
(***************************************************************************)
EXTENDS P2PStreamInv, TLAPS

-----------------------------------------------------------------------------
(* Sequences.                                                              *)

\* Units of a pipe, and messages in a local one.
Item == Unit \cup Msg

LEMMA Wider ==
    ASSUME NEW X, NEW Y, X \subseteq Y, NEW a \in Seq(X)
    PROVE  a \in Seq(Y)
  <1>1. Len(a) \in Nat /\ a \in [1..Len(a) -> X]
    OBVIOUS
  <1>2. a \in [1..Len(a) -> Y]
    BY <1>1
  <1>3. QED BY <1>1, <1>2

LEMMA Items ==
    /\ \A a \in Seq(Unit) : a \in Seq(Item)
    /\ \A a \in Seq(Msg) : a \in Seq(Item)
  <1>1. Unit \subseteq Item /\ Msg \subseteq Item
    BY DEF Item
  <1>2. QED BY <1>1, Wider

LEMMA Joined ==
    ASSUME NEW X, NEW a \in Seq(X), NEW b \in Seq(X)
    PROVE  /\ a \o b \in Seq(X) /\ Len(a \o b) = Len(a) + Len(b)
           /\ \A i \in 1..Len(a) : (a \o b)[i] = a[i]
           /\ \A i \in 1..Len(b) : (a \o b)[Len(a) + i] = b[i]
  OBVIOUS

LEMMA JoinedItems ==
    \A a, b \in Seq(Item) :
        /\ a \o b \in Seq(Item) /\ Len(a \o b) = Len(a) + Len(b)
        /\ \A i \in 1..Len(b) : (a \o b)[Len(a) + i] = b[i]
  BY Joined

LEMMA Appended ==
    \A a, b \in Seq(Item), x \in Item : a \o Append(b, x) = Append(a \o b, x)
  <1> SUFFICES ASSUME NEW a \in Seq(Item), NEW b \in Seq(Item), NEW x \in Item
               PROVE  a \o Append(b, x) = Append(a \o b, x)
    OBVIOUS
  <1>1. a \o Append(b, x) \in Seq(Item) /\ Append(a \o b, x) \in Seq(Item)
    OBVIOUS
  <1>2. Len(a \o Append(b, x)) = Len(Append(a \o b, x))
    OBVIOUS
  <1>3. \A i \in 1..Len(a) + Len(b) + 1 : (a \o Append(b, x))[i] = Append(a \o b, x)[i]
    OBVIOUS
  <1>4. QED BY <1>1, <1>2, <1>3

\* Handing the first element of b to the end of a leaves a \o b as it is.
LEMMA Moved ==
    ASSUME NEW X, NEW a \in Seq(X), NEW b \in Seq(X), b # <<>>
    PROVE  Append(a, Head(b)) \o Tail(b) = a \o b
  <1>1. Append(a, Head(b)) \o Tail(b) \in Seq(X) /\ a \o b \in Seq(X)
    OBVIOUS
  <1>2. Len(Append(a, Head(b)) \o Tail(b)) = Len(a \o b)
    OBVIOUS
  <1>3. \A i \in 1..Len(a \o b) : (Append(a, Head(b)) \o Tail(b))[i] = (a \o b)[i]
    OBVIOUS
  <1>4. QED BY <1>1, <1>2, <1>3

\* Taking the first element of a takes the first one of a \o b.
LEMMA Taken ==
    \A a, b \in Seq(Item) : a # <<>> =>
        /\ Tail(a) \in Seq(Item) /\ Head(a) = (a \o b)[1]
        /\ Len(Tail(a) \o b) + 1 = Len(a \o b)
        /\ \A i \in 1..Len(a \o b) - 1 : (Tail(a) \o b)[i] = (a \o b)[i + 1]
  OBVIOUS

\* A frame is the length of a message and its body.
LEMMA Framed ==
    ASSUME NEW m \in Msg
    PROVE  /\ Body(m) \in Seq(Unit) /\ Len(Body(m)) = Size[m]
           /\ Frame(m) \in Seq(Unit) /\ Len(Frame(m)) = Size[m] + 1
           /\ Frame(m)[1] = [length |-> Size[m]]
           /\ \A j \in 1..Size[m] : Frame(m)[j + 1] = <<m, j>>
  <1>1. Size[m] \in Nat
    BY SizeAssumption
  <1>2. Body(m) \in Seq(Unit) /\ Len(Body(m)) = Size[m]
    BY <1>1 DEF Body, Unit
  <1>3. <<[length |-> Size[m]]>> \in Seq(Unit)
    BY <1>1 DEF Unit
  <1>4. \A j \in 1..Size[m] : Body(m)[j] = <<m, j>>
    BY DEF Body
  <1>5. Frame(m) = <<[length |-> Size[m]]>> \o Body(m)
    <2>1. Size[m] % Width = Size[m]
      BY <1>1, LengthAssumption
    <2>2. QED BY <2>1 DEF Frame
  <1>6. QED BY <1>1, <1>2, <1>3, <1>4, <1>5, Joined

\* A body is decoded as the message it is of.
LEMMA Decoded ==
    ASSUME NEW m \in Msg, NEW units \in Seq(Item), Len(units) = Size[m],
           \A j \in 1..Size[m] : units[j] = <<m, j>>
    PROVE  Decode(units) = m
  <1>1. \A n \in Msg : Size[n] \in Nat /\ Body(n) \in Seq(Unit) /\ Len(Body(n)) = Size[n]
    BY Framed, SizeAssumption
  <1>2. Body(m) = units
    <2>1. Body(m) = [j \in 1..Len(units) |-> units[j]]
      BY DEF Body
    <2>2. QED BY <2>1
  <1>3. ASSUME NEW n \in Msg, Body(n) = units PROVE n = m
    <2>1. Size[n] = Size[m]
      BY <1>1, <1>3
    <2>2. CASE Size[m] = 0
      BY <2>1, <2>2, EncodingAssumption
    <2>3. CASE Size[m] # 0
      <3>1. Body(n)[1] = <<n, 1>> /\ units[1] = <<m, 1>>
        BY <1>1, <2>1, <2>3 DEF Body
      <3>2. QED BY <1>3, <3>1
    <2>4. QED BY <2>2, <2>3
  <1>4. QED BY <1>2, <1>3 DEF Decode

-----------------------------------------------------------------------------
(* The places of units.                                                    *)

\* Where a unit of a message is among those that were not read, and where it
\* is once one of them has been read.
LEMMA Within ==
    ASSUME NEW a \in Nat, NEW k \in Nat, NEW size \in Nat,
           NEW here \in Nat, NEW len \in Nat,
           k <= size, a + 1 + size <= here + len, a + k >= here
    PROVE  a + k - here + 1 \in 1..len
  OBVIOUS

LEMMA Shifted ==
    ASSUME NEW a \in Nat, NEW k \in Nat, NEW size \in Nat,
           NEW here \in Nat, NEW len \in Nat,
           k <= size, a + 1 + size <= here + len + 1, a + k >= here + 1
    PROVE  /\ a + k - (here + 1) + 1 \in 1..len
           /\ a + k - (here + 1) + 1 + 1 = a + k - here + 1
           /\ a + k >= here
  OBVIOUS

\* The sequence more has m after the n messages of msgs.
OneMore(more, n, msgs, m) ==
    /\ more[n + 1] = m
    /\ \A i \in 1..n : more[i] = msgs[i] /\ Size[msgs[i]] \in Nat

\* The places at2 are those of at, and the end of a message m more.
OnePlaceMore(at2, n, at, m) ==
    /\ at2[n + 2] = at[n + 1] + Size[m] + 1
    /\ \A i \in 1..n + 1 : at2[i] = at[i]

\* The sequence w has the frame of m after the first units, len of them.
FrameAfter(w, len, units, m) ==
    /\ \A i \in 1..len : w[i] = units[i]
    /\ w[len + 1] = [length |-> Size[m]]
    /\ \A j \in 1..Size[m] : w[len + j + 1] = <<m, j>>

LEMMA FrameJoined ==
    ASSUME NEW units \in Seq(Item), NEW m \in Msg
    PROVE  /\ FrameAfter(units \o Frame(m), Len(units), units, m)
           /\ Len(units \o Frame(m)) = Len(units) + Size[m] + 1
  <1> DEFINE w == units \o Frame(m)
  <1>1. /\ Frame(m) \in Seq(Item) /\ Len(Frame(m)) = Size[m] + 1
        /\ Size[m] \in Nat /\ Len(units) \in Nat
    <2>1. Frame(m) \in Seq(Item) /\ Len(Frame(m)) = Size[m] + 1
      BY Framed, Items
    <2>2. QED BY <2>1, SizeAssumption
  <1>2. Len(w) = Len(units) + Len(Frame(m))
    BY <1>1, Joined
  <1>3. \A i \in 1..Len(units) : w[i] = units[i]
    BY <1>1, Joined
  <1>4. \A i \in 1..Len(Frame(m)) : w[Len(units) + i] = Frame(m)[i]
    BY <1>1, Joined
  <1> HIDE DEF w
  <1>5. w[Len(units) + 1] = [length |-> Size[m]]
    <2>1. 1 \in 1..Len(Frame(m))
      BY <1>1
    <2>2. QED BY <1>4, <2>1, Framed, Zenon
  <1>6. ASSUME NEW j \in 1..Size[m] PROVE w[Len(units) + j + 1] = <<m, j>>
    <2>1. j + 1 \in 1..Len(Frame(m)) /\ Len(units) + j + 1 = Len(units) + (j + 1)
      BY <1>1
    <2>2. QED BY <1>4, <2>1, Framed, Zenon
  <1>7. Len(w) = Len(units) + Size[m] + 1
    BY <1>1, <1>2
  <1>8. QED BY <1>3, <1>5, <1>6, <1>7 DEF FrameAfter, w

\* One more message has its place after the others.
LEMMA PlaceAdded ==
    ASSUME NEW n \in Nat, NEW msgs, NEW more, NEW m, Size[m] \in Nat,
           OneMore(more, n, msgs, m),
           NEW at \in [1..n + 1 -> Nat], Places(at, msgs, n)
    PROVE  \E at2 \in [1..n + 2 -> Nat] :
              Places(at2, more, n + 1) /\ OnePlaceMore(at2, n, at, m)
  <1>1. more[n + 1] = m /\ \A i \in 1..n : more[i] = msgs[i] /\ Size[msgs[i]] \in Nat
    BY DEF OneMore
  <1> DEFINE last == at[n + 1] + Size[m] + 1
             at2 == [i \in 1..n + 2 |-> IF i = n + 2 THEN last ELSE at[i]]
  <1>2. /\ at2 \in [1..n + 2 -> Nat] /\ last \in Nat
        /\ at2[n + 2] = last
        /\ \A i \in 1..n + 1 : at2[i] = at[i] /\ at[i] \in Nat
    <2>1. last \in Nat /\ n + 2 \in 1..n + 2
      OBVIOUS
    <2>2. \A i \in 1..n + 1 : i \in 1..n + 2 /\ i # n + 2
      OBVIOUS
    <2>3. \A i \in 1..n + 2 : i # n + 2 => i \in 1..n + 1
      OBVIOUS
    <2> HIDE DEF last
    <2>4. QED BY <2>1, <2>2, <2>3
  <1>3. last = at[n + 1] + Size[m] + 1
    OBVIOUS
  <1> HIDE DEF at2, last
  <1>4. ASSUME NEW i \in 1..n + 1
        PROVE  at2[i + 1] = at2[i] + 1 + Size[more[i]] /\ at2[i + 1] <= at2[n + 2]
    <2>1. CASE i = n + 1
      <3>1. i + 1 = n + 2
        BY <2>1
      <3>2. /\ at2[i] = at[n + 1] /\ at[n + 1] \in Nat
            /\ at2[i + 1] = last /\ Size[more[i]] = Size[m]
        <4>1. n + 1 \in 1..n + 1
          OBVIOUS
        <4>2. QED BY <1>1, <1>2, <2>1, <3>1, <4>1
      <3>3. at2[i] + 1 + Size[more[i]] = last
        BY <1>3, <3>2
      <3>4. QED BY <1>2, <3>1, <3>2, <3>3
    <2>2. CASE i \in 1..n
      <3>1. i \in 1..n + 1 /\ i + 1 \in 1..n + 1
        BY <2>2
      <3>2. /\ at2[i] = at[i] /\ at2[i + 1] = at[i + 1]
            /\ at[i + 1] \in Nat /\ at[n + 1] \in Nat
        BY <1>2, <3>1
      <3>3. at[i + 1] = at[i] + 1 + Size[more[i]] /\ at[i + 1] <= at[n + 1]
        BY <1>1, <2>2 DEF Places
      <3>4. at[n + 1] <= last
        BY <1>3, <3>2
      <3>5. at[i + 1] <= last
        BY <1>2, <3>2, <3>3, <3>4
      <3>6. QED BY <1>2, <3>2, <3>3, <3>5, Zenon
    <2>3. QED BY <2>1, <2>2
  <1>5. n + 1 + 1 = n + 2
    OBVIOUS
  <1>6. Places(at2, more, n + 1)
    BY <1>4, <1>5 DEF Places
  <1>7. OnePlaceMore(at2, n, at, m)
    BY <1>2, <1>3 DEF OnePlaceMore
  <1>8. QED BY <1>2, <1>6, <1>7

\* A frame comes after units that end where the last message does.
LEMMA FrameAdded ==
    ASSUME NEW n \in Nat, NEW msgs, NEW more, NEW m, Size[m] \in Nat,
           OneMore(more, n, msgs, m),
           NEW len \in Nat, NEW units, NEW w, FrameAfter(w, len, units, m),
           NEW at \in [1..n + 1 -> Nat], NEW here \in Nat,
           Places(at, msgs, n), here + len = at[n + 1],
           InPlace(units, here, at, msgs, n),
           NEW at2, OnePlaceMore(at2, n, at, m)
    PROVE  InPlace(w, here, at2, more, n + 1)
  <1>1. /\ more[n + 1] = m
        /\ \A i \in 1..n : more[i] = msgs[i] /\ Size[msgs[i]] \in Nat
        /\ \A i \in 1..len : w[i] = units[i]
        /\ w[len + 1] = [length |-> Size[m]]
        /\ \A j \in 1..Size[m] : w[len + j + 1] = <<m, j>>
        /\ \A i \in 1..n + 1 : at2[i] = at[i]
    BY DEF OneMore, FrameAfter, OnePlaceMore
  <1>2. ASSUME NEW i \in 1..n + 1
        PROVE  /\ at2[i] >= here => w[at2[i] - here + 1] = [length |-> Size[more[i]]]
               /\ \A j \in 1..Size[more[i]] :
                     at2[i] + j >= here => w[at2[i] + j - here + 1] = <<more[i], j>>
    <2>1. CASE i = n + 1
      <3>1. at2[i] = here + len
        BY <1>1, <2>1
      <3>2. at2[i] - here + 1 = len + 1
        BY <3>1
      <3>3. \A j \in 1..Size[m] : at2[i] + j - here + 1 = len + j + 1
        BY <3>1
      <3>4. QED BY <1>1, <2>1, <3>2, <3>3
    <2>2. CASE i \in 1..n
      <3>1. /\ at2[i] = at[i] /\ at[i] \in Nat /\ more[i] = msgs[i]
            /\ Size[msgs[i]] \in Nat
            /\ at[i] + 1 + Size[msgs[i]] <= here + len
        BY <1>1, <2>2 DEF Places
      <3>2. ASSUME NEW k \in Nat, k <= Size[msgs[i]], at[i] + k >= here
            PROVE  w[at[i] + k - here + 1] = units[at[i] + k - here + 1]
        <4>1. at[i] + k - here + 1 \in 1..len
          BY <3>1, <3>2, Within
        <4>2. QED BY <1>1, <4>1
      <3>3. at[i] >= here => w[at[i] - here + 1] = units[at[i] - here + 1]
        <4>1. 0 \in Nat /\ 0 <= Size[msgs[i]] /\ at[i] + 0 = at[i]
          BY <3>1
        <4>2. at[i] + 0 >= here => w[at[i] + 0 - here + 1] = units[at[i] + 0 - here + 1]
          BY <3>2, <4>1, Zenon
        <4>3. QED BY <4>1, <4>2
      <3>4. ASSUME NEW j \in 1..Size[msgs[i]], at[i] + j >= here
            PROVE  w[at[i] + j - here + 1] = units[at[i] + j - here + 1]
        <4>1. j \in Nat /\ j <= Size[msgs[i]]
          BY <3>1
        <4>2. QED BY <3>2, <3>4, <4>1
      <3>5. /\ at[i] >= here => units[at[i] - here + 1] = [length |-> Size[msgs[i]]]
            /\ \A j \in 1..Size[msgs[i]] :
                  at[i] + j >= here => units[at[i] + j - here + 1] = <<msgs[i], j>>
        BY <2>2 DEF InPlace
      <3>6. at[i] >= here => w[at[i] - here + 1] = [length |-> Size[msgs[i]]]
        BY <3>3, <3>5, Zenon
      <3>7. ASSUME NEW j \in 1..Size[msgs[i]], at[i] + j >= here
            PROVE  w[at[i] + j - here + 1] = <<msgs[i], j>>
        <4>1. w[at[i] + j - here + 1] = units[at[i] + j - here + 1]
          BY <3>4, <3>7, Zenon
        <4>2. units[at[i] + j - here + 1] = <<msgs[i], j>>
          BY <3>5, <3>7, Zenon
        <4>3. QED BY <4>1, <4>2, Zenon
      <3>8. QED BY <3>1, <3>6, <3>7, Zenon
    <2>3. QED BY <2>1, <2>2
  <1>3. QED BY <1>2 DEF InPlace

\* A unit that is read leaves the others at their places.
LEMMA UnitTaken ==
    ASSUME NEW n \in Nat, NEW msgs, \A i \in 1..n : Size[msgs[i]] \in Nat,
           NEW len \in Nat, NEW units, NEW rest,
           \A i \in 1..len : rest[i] = units[i + 1],
           NEW at \in [1..n + 1 -> Nat], NEW here \in Nat,
           Places(at, msgs, n), here + len + 1 = at[n + 1],
           InPlace(units, here, at, msgs, n)
    PROVE  InPlace(rest, here + 1, at, msgs, n)
  <1>1. ASSUME NEW i \in 1..n
        PROVE  /\ at[i] >= here + 1 =>
                     rest[at[i] - (here + 1) + 1] = [length |-> Size[msgs[i]]]
               /\ \A j \in 1..Size[msgs[i]] : at[i] + j >= here + 1 =>
                     rest[at[i] + j - (here + 1) + 1] = <<msgs[i], j>>
    <2>1. /\ at[i] \in Nat /\ Size[msgs[i]] \in Nat
          /\ at[i] + 1 + Size[msgs[i]] <= here + len + 1
      BY DEF Places
    <2>2. ASSUME NEW k \in Nat, k <= Size[msgs[i]], at[i] + k >= here + 1
          PROVE  rest[at[i] + k - (here + 1) + 1] = units[at[i] + k - here + 1]
      <3>1. at[i] + k - (here + 1) + 1 \in 1..len
        BY <2>1, <2>2, Shifted
      <3>2. at[i] + k - (here + 1) + 1 + 1 = at[i] + k - here + 1
        BY <2>1
      <3>3. ASSUME NEW x, NEW y, x = at[i] + k - (here + 1) + 1, y = at[i] + k - here + 1
            PROVE  rest[x] = units[y]
        <4>1. x \in 1..len /\ x + 1 = y
          BY <3>1, <3>2, <3>3
        <4>2. QED BY <4>1
      <3>4. QED BY <3>3, Zenon
    <2>3. at[i] >= here + 1 => rest[at[i] - (here + 1) + 1] = units[at[i] - here + 1]
      <3>1. 0 \in Nat /\ 0 <= Size[msgs[i]] /\ at[i] + 0 = at[i]
        BY <2>1
      <3>2. at[i] + 0 >= here + 1 =>
              rest[at[i] + 0 - (here + 1) + 1] = units[at[i] + 0 - here + 1]
        BY <2>2, <3>1
      <3>3. QED BY <3>1, <3>2, SMTT(30)
    <2>4. ASSUME NEW j \in 1..Size[msgs[i]], at[i] + j >= here + 1
          PROVE  /\ at[i] + j >= here
                 /\ rest[at[i] + j - (here + 1) + 1] = units[at[i] + j - here + 1]
      <3>1. j \in Nat /\ j <= Size[msgs[i]]
        BY <2>1
      <3>2. at[i] + j >= here
        BY <2>1, <2>4, <3>1, Shifted
      <3>3. QED BY <2>2, <2>4, <3>1, <3>2
    <2>5. at[i] >= here + 1 => at[i] >= here
      BY <2>1
    <2>6. QED BY <2>3, <2>4, <2>5 DEF InPlace
  <1>2. QED BY <1>1 DEF InPlace

-----------------------------------------------------------------------------
(* One stream at a time.                                                   *)

\* The variables of a stream, but for what is left to send.
Of(s) == <<sender[s], out[s], pipe[s], reader[s], need[s], have[s],
           broken[s], sent[s], recv[s]>>

\* The units of a libp2p stream while it is read and nothing is added.
LEMMA WireFrame ==
    ASSUME NEW s \in Stream, OnTheWire(s), Reads(s)' => Reads(s),
           UNCHANGED <<Wire(s), sent[s], recv[s], reader[s], have[s]>>
    PROVE  OnTheWire(s)'
  <1> SUFFICES ASSUME Reads(s)' PROVE OnTheWire(s)'
    BY DEF OnTheWire
  <1>1. PICK at \in [1..Len(sent[s]) + 1 -> Nat] :
          /\ Places(at, sent[s], Len(sent[s]))
          /\ Here(s, at) + Len(Wire(s)) = at[Len(sent[s]) + 1]
          /\ InPlace(Wire(s), Here(s, at), at, sent[s], Len(sent[s]))
    BY DEF OnTheWire
  <1>2. Here(s, at)' = Here(s, at)
    BY DEF Here, Current
  <1>3. QED BY <1>1, <1>2 DEF OnTheWire

LEMMA StreamFrame ==
    ASSUME NEW s \in Stream, StreamInv(s), UNCHANGED Of(s)
    PROVE  StreamInv(s)'
  <1> USE DEF Of, StreamInv
  <1>1. Opened(s)' /\ Broken(s)' /\ Delivered(s)' /\ LocalOrder(s)' /\ BodyRead(s)'
    BY DEF Opened, Broken, Delivered, LocalOrder, BodyRead, Current
  <1>2. OnTheWire(s)'
    BY WireFrame DEF Reads, Wire
  <1>3. QED BY <1>1, <1>2

\* A step of the stream s.
LEMMA StreamStep ==
    ASSUME Inv, NEW s \in Stream, TypeOK', StreamInv(s)',
           \A r \in Stream \ {s} : UNCHANGED Of(r)
    PROVE  Inv'
  BY StreamFrame DEF Inv

LEMMA InitInv == Init => Inv
  <1> SUFFICES ASSUME Init PROVE Inv
    OBVIOUS
  <1>1. TypeOK
    BY StreamAssumption DEF Init, Each, TypeOK
  <1>2. ASSUME NEW s \in Stream PROVE StreamInv(s)
    BY DEF Init, Each, StreamInv, Opened, Broken, Delivered, LocalOrder,
       BodyRead, OnTheWire, Reads
  <1>3. QED BY <1>1, <1>2 DEF Inv

\* Opening a stream.
LEMMA NewStreamInv ==
    ASSUME Inv, NEW s \in Stream, NewStream(s)
    PROVE  Inv'
  <1> USE DEF NewStream, serverVars
  <1>1. TypeOK'
    BY DEF Inv, TypeOK
  <1>2. StreamInv(s)'
    <2>1. /\ sent[s] = <<>> /\ recv[s] = <<>> /\ pipe[s] = <<>> /\ out[s] = <<>>
          /\ reader'[s] = "length" /\ sender'[s] = "open"
      BY DEF Inv, StreamInv, Opened, TypeOK
    <2>2. Opened(s)' /\ Broken(s)' /\ Delivered(s)' /\ LocalOrder(s)' /\ BodyRead(s)'
      BY <2>1 DEF Inv, StreamInv, Opened, Broken, Delivered, LocalOrder, BodyRead
    <2>3. /\ Len(sent'[s]) = 0 /\ Wire(s)' = <<>> /\ Len(Wire(s)') = 0 /\ Current(s)' = 1
      BY <2>1 DEF Wire, Current
    <2> DEFINE at == [i \in 1..1 |-> 0]
    <2>4. /\ at \in [1..0 + 1 -> Nat] /\ at[1] = 0 /\ Here(s, at)' = 0
      BY <2>1, <2>3 DEF Here
    <2>5. OnTheWire(s)'
      BY <2>3, <2>4 DEF OnTheWire, Places, InPlace
    <2>6. QED BY <2>2, <2>5 DEF StreamInv
  <1>3. ASSUME NEW r \in Stream \ {s} PROVE UNCHANGED Of(r)
    BY DEF Inv, TypeOK, Of
  <1>4. QED BY <1>1, <1>2, <1>3, StreamStep

LEMMA NewStreamFailsInv ==
    ASSUME Inv, NEW s \in Stream, NewStreamFails(s)
    PROVE  Inv'
  <1> USE DEF NewStreamFails, serverVars, readVars
  <1>1. TypeOK'
    BY DEF Inv, TypeOK
  <1>2. StreamInv(s)'
    BY DEF Inv, TypeOK, StreamInv, Opened, Broken, Delivered, LocalOrder, BodyRead,
       OnTheWire, Reads, Current
  <1>3. ASSUME NEW r \in Stream \ {s} PROVE UNCHANGED Of(r)
    BY DEF Inv, TypeOK, Of
  <1>4. QED BY <1>1, <1>2, <1>3, StreamStep

\* The units of a libp2p stream when a frame is to be written.
LEMMA SendOnTheWire ==
    ASSUME NEW s \in Stream, NEW m \in Msg, OnTheWire(s), Delivered(s),
           Reads(s)' => Reads(s),
           out[s] = <<>>, out'[s] = Frame(m), sent'[s] = Append(sent[s], m),
           UNCHANGED <<pipe[s], recv[s], reader[s], have[s]>>,
           pipe[s] \in Seq(Item), sent[s] \in Seq(Msg), recv[s] \in Seq(Msg),
           Len(have[s]) \in Nat, BodyRead(s)
    PROVE  OnTheWire(s)'
  <1> SUFFICES ASSUME Reads(s)' PROVE OnTheWire(s)'
    BY DEF OnTheWire
  <1> DEFINE n == Len(sent[s])
             len == Len(pipe[s])
             w == pipe[s] \o Frame(m)
  <1>1. PICK at \in [1..n + 1 -> Nat] :
          /\ Places(at, sent[s], n)
          /\ Here(s, at) + Len(Wire(s)) = at[n + 1]
          /\ InPlace(Wire(s), Here(s, at), at, sent[s], n)
    BY DEF OnTheWire
  <1>2. n \in Nat /\ len \in Nat /\ Len(recv[s]) \in Nat /\ Size[m] \in Nat
    BY SizeAssumption
  <1>3. Wire(s) = pipe[s] /\ Wire(s)' = w
    BY DEF Wire
  <1>4. /\ Len(sent'[s]) = n + 1 /\ sent'[s][n + 1] = m
        /\ \A i \in 1..n : sent'[s][i] = sent[s][i] /\ Size[sent[s][i]] \in Nat
    <2> HIDE DEF w
    <2>1. \A i \in 1..n : sent[s][i] \in Msg
      OBVIOUS
    <2>2. QED BY <2>1, SizeAssumption
  <1>5. Len(w) = len + Size[m] + 1 /\ FrameAfter(w, len, pipe[s], m)
    BY FrameJoined
  <1>6. Current(s) \in 1..n + 1 /\ Current(s)' = Current(s)
    BY <1>2 DEF Current, Delivered
  <1>7. Here(s, at) \in Nat
    BY <1>2, <1>6 DEF Here
  <1> HIDE DEF n, len, w
  <1>8. OneMore(sent'[s], n, sent[s], m)
    BY <1>4 DEF OneMore
  <1>9. /\ Here(s, at) + len = at[n + 1] /\ Places(at, sent[s], n)
        /\ InPlace(pipe[s], Here(s, at), at, sent[s], n)
    BY <1>1, <1>3 DEF len
  <1>10. PICK at2 \in [1..n + 2 -> Nat] :
           /\ Places(at2, sent'[s], n + 1)
           /\ OnePlaceMore(at2, n, at, m)
    BY <1>2, <1>8, <1>9, PlaceAdded
  <1>11. InPlace(w, Here(s, at), at2, sent'[s], n + 1)
    BY <1>2, <1>5, <1>7, <1>8, <1>9, <1>10, FrameAdded
  <1>12. Here(s, at2)' = Here(s, at)
    BY <1>6, <1>10 DEF Here, OnePlaceMore
  <1>13. Here(s, at) + Len(w) = at2[n + 2] /\ n + 1 + 1 = n + 2
    <2>1. at2[n + 2] = at[n + 1] + Size[m] + 1
      BY <1>10 DEF OnePlaceMore
    <2>2. \A a, b, c, d \in Nat : a + b = d => a + (b + c + 1) = d + c + 1
      OBVIOUS
    <2>3. at[n + 1] \in Nat
      BY <1>2
    <2>4. Here(s, at) + (len + Size[m] + 1) = at[n + 1] + Size[m] + 1
      BY <1>2, <1>7, <1>9, <2>2, <2>3, SMTT(30)
    <2>5. n + 1 + 1 = n + 2
      BY <1>2
    <2>6. QED BY <1>5, <2>1, <2>4, <2>5
  <1>14. QED BY <1>3, <1>4, <1>10, <1>11, <1>12, <1>13 DEF OnTheWire

\* SendMsg: the channel of a local stream takes the message, or its frame is
\* to be written after everything that was sent before.
LEMMA SendMsgInv ==
    ASSUME Inv, NEW s \in Stream, SendMsg(s)
    PROVE  Inv'
  <1> DEFINE m == Head(todo[s])
  <1>1. /\ todo[s] \in Seq(Msg) /\ todo[s] # <<>> /\ sent[s] \in Seq(Msg)
        /\ recv[s] \in Seq(Msg) /\ pipe[s] \in Seq(Item)
        /\ have[s] \in Seq(Item) /\ sender[s] = "open" /\ out[s] = <<>>
    BY DEF SendMsg, Flushed, Inv, TypeOK, Item
  <1>2. m \in Msg /\ Tail(todo[s]) \in Seq(Msg) /\ Len(have[s]) \in Nat
    BY <1>1
  <1>3. /\ sent' = [sent EXCEPT ![s] = Append(sent[s], m)]
        /\ todo' = [todo EXCEPT ![s] = Tail(todo[s])]
        /\ UNCHANGED <<sender, reader, need, have, recv, broken>>
        /\ s \in LocalEnd =>
              pipe' = [pipe EXCEPT ![s] = Append(pipe[s], m)] /\ out' = out
        /\ s \notin LocalEnd =>
              out' = [out EXCEPT ![s] = Frame(m)] /\ pipe' = pipe
    BY DEF SendMsg, readVars
  <1> HIDE DEF m
  <1>4. /\ sent'[s] = Append(sent[s], m)
        /\ s \in LocalEnd => pipe'[s] = Append(pipe[s], m) /\ out'[s] = <<>>
        /\ s \notin LocalEnd => out'[s] = Frame(m) /\ pipe'[s] = pipe[s]
    BY <1>1, <1>3 DEF Inv, TypeOK
  <1>5. TypeOK'
    <2>1. Append(pipe[s], m) \in Seq(Unit \cup Msg)
      BY <1>1, <1>2 DEF Item
    <2>2. Frame(m) \in Seq(Unit)
      BY <1>2, Framed
    <2>3. Append(sent[s], m) \in Seq(Msg)
      BY <1>1, <1>2
    <2>4. QED BY <1>2, <1>3, <2>1, <2>2, <2>3 DEF Inv, TypeOK
  <1>6. /\ Len(sent[s]) \in Nat /\ Len(recv[s]) \in Nat
        /\ Len(sent'[s]) = Len(sent[s]) + 1
        /\ \A i \in 1..Len(sent[s]) : sent'[s][i] = sent[s][i]
    BY <1>1, <1>2, <1>4
  <1>7. Opened(s)'
    <2>1. reader[s] # "none" /\ sender'[s] = "open" /\ reader'[s] = reader[s]
      BY <1>1, <1>3 DEF Inv, StreamInv, Opened
    <2>2. QED BY <2>1 DEF Opened
  <1>8. Broken(s)'
    BY <1>3 DEF Inv, StreamInv, Broken
  <1>9. Delivered(s)'
    BY <1>3, <1>6 DEF Inv, StreamInv, Delivered
  <1>10. LocalOrder(s)'
    <2>1. CASE s \in LocalEnd
      <3>1. recv[s] \in Seq(Item) /\ m \in Item
        BY <1>1, <1>2, Items DEF Item
      <3>2. recv[s] \o Append(pipe[s], m) = Append(recv[s] \o pipe[s], m)
        <4>1. pipe[s] \in Seq(Item)
          BY <1>1
        <4>2. QED BY <3>1, <4>1, Appended, Zenon
      <3>3. sent[s] = recv[s] \o pipe[s] /\ reader[s] # "body"
        BY <2>1 DEF Inv, StreamInv, LocalOrder
      <3>4. QED BY <1>3, <1>4, <2>1, <3>2, <3>3 DEF LocalOrder
    <2>2. QED BY <2>1 DEF LocalOrder
  <1>11. BodyRead(s)'
    <2>1. CASE reader[s] = "body"
      <3>1. Current(s) \in 1..Len(sent[s])
        BY <1>6, <2>1 DEF Inv, StreamInv, BodyRead, Current
      <3>2. sent'[s][Current(s)] = sent[s][Current(s)] /\ Current(s) <= Len(sent'[s])
        BY <1>6, <3>1
      <3>3. QED BY <1>3, <2>1, <3>2 DEF Inv, StreamInv, BodyRead, Current
    <2>2. QED BY <1>3, <2>1 DEF BodyRead
  <1>12. OnTheWire(s)'
    <2>1. CASE s \notin LocalEnd
      BY <1>1, <1>2, <1>3, <1>4, <2>1, SendOnTheWire DEF Inv, StreamInv, Reads
    <2>2. QED BY <2>1 DEF OnTheWire, Reads
  <1>13. ASSUME NEW r \in Stream \ {s} PROVE UNCHANGED Of(r)
    BY <1>3 DEF Inv, TypeOK, Of
  <1>14. StreamInv(s)'
    BY <1>7, <1>8, <1>9, <1>10, <1>11, <1>12 DEF StreamInv
  <1>15. QED BY <1>5, <1>13, <1>14, StreamStep

\* A unit is handed from the writer to the stream.
LEMMA WriteInv ==
    ASSUME Inv, NEW s \in Stream, Write(s)
    PROVE  Inv'
  <1>1. /\ pipe[s] \in Seq(Item) /\ out[s] \in Seq(Unit) /\ out[s] # <<>>
        /\ sender[s] = "open" /\ s \notin LocalEnd /\ ~broken[s]
        /\ reader[s] \in {"length", "body"}
    BY DEF Write, Connected, Inv, StreamInv, TypeOK, LocalOrder, Item
  <1>2. /\ pipe' = [pipe EXCEPT ![s] = Append(pipe[s], Head(out[s]))]
        /\ out' = [out EXCEPT ![s] = Tail(out[s])]
        /\ UNCHANGED <<sender, todo, sent, reader, need, have, recv, broken>>
    BY DEF Write, readVars
  <1>3. /\ pipe'[s] = Append(pipe[s], Head(out[s])) /\ out'[s] = Tail(out[s])
    BY <1>2 DEF Inv, TypeOK
  <1>4. out[s] \in Seq(Item) /\ Head(out[s]) \in Item /\ Tail(out[s]) \in Seq(Unit)
    <2>1. out[s] \in Seq(Item)
      BY <1>1, Items
    <2>2. Head(out[s]) \in Item
      BY <1>1, <2>1
    <2>3. Tail(out[s]) \in Seq(Unit)
      BY <1>1
    <2>4. QED BY <2>1, <2>2, <2>3
  <1>5. TypeOK'
    <2>1. Append(pipe[s], Head(out[s])) \in Seq(Unit \cup Msg)
      BY <1>1, <1>4 DEF Item
    <2>2. QED BY <1>2, <1>4, <2>1 DEF Inv, TypeOK
  <1>6. Wire(s)' = Wire(s)
    BY <1>1, <1>3, <1>4, Moved DEF Wire
  <1>7. StreamInv(s)'
    <2>1. Opened(s)' /\ Broken(s)' /\ Delivered(s)' /\ LocalOrder(s)' /\ BodyRead(s)'
      BY <1>1, <1>2
         DEF Inv, StreamInv, Opened, Broken, Delivered, LocalOrder, BodyRead, Current
    <2>2. OnTheWire(s)'
      BY <1>2, <1>6, WireFrame DEF Inv, StreamInv, Reads
    <2>3. QED BY <2>1, <2>2 DEF StreamInv
  <1>8. ASSUME NEW r \in Stream \ {s} PROVE UNCHANGED Of(r)
    BY <1>2 DEF Inv, TypeOK, Of
  <1>9. QED BY <1>5, <1>7, <1>8, StreamStep

\* A stream that is given up is not read any more.
LEMMA WriteFailsInv ==
    ASSUME Inv, NEW s \in Stream, WriteFails(s)
    PROVE  Inv'
  <1>1. /\ sender' = [sender EXCEPT ![s] = "failed"] /\ out' = [out EXCEPT ![s] = <<>>]
        /\ UNCHANGED <<todo, sent, reader, need, have, recv, pipe, broken>>
        /\ sender[s] = "open" /\ out[s] # <<>> /\ ~Connected(s)
    BY DEF WriteFails, readVars
  <1>2. sender'[s] = "failed" /\ out'[s] = <<>> /\ ~Reads(s)
    BY <1>1 DEF Inv, TypeOK, Connected, Reads
  <1>3. TypeOK'
    <2>1. <<>> \in Seq(Unit)
      OBVIOUS
    <2>2. /\ sender' \in [Stream -> {"new", "open", "closed", "failed"}]
          /\ out' \in [Stream -> Seq(Unit)]
      BY <1>1, <2>1 DEF Inv, TypeOK
    <2>3. QED BY <1>1, <2>2 DEF Inv, TypeOK
  <1>4. StreamInv(s)'
    <2>1. Opened(s)' /\ Broken(s)' /\ LocalOrder(s)'
      BY <1>1, <1>2 DEF Inv, StreamInv, Opened, Broken, LocalOrder
    <2>2. Delivered(s)' /\ BodyRead(s)'
      BY <1>1 DEF Inv, StreamInv, Delivered, BodyRead, Current
    <2>3. OnTheWire(s)'
      BY <1>1, <1>2 DEF OnTheWire, Reads
    <2>4. QED BY <2>1, <2>2, <2>3 DEF StreamInv
  <1>5. ASSUME NEW r \in Stream \ {s} PROVE UNCHANGED Of(r)
    BY <1>1 DEF Inv, TypeOK, Of
  <1>6. QED BY <1>3, <1>4, <1>5, StreamStep

LEMMA CloseInv ==
    ASSUME Inv, NEW s \in Stream, Close(s)
    PROVE  Inv'
  <1> USE DEF Close, serverVars, readVars, Flushed
  <1>1. TypeOK'
    BY DEF Inv, TypeOK
  <1>2. StreamInv(s)'
    <2>1. Opened(s)' /\ Broken(s)' /\ Delivered(s)' /\ LocalOrder(s)' /\ BodyRead(s)'
      BY DEF Inv, TypeOK, StreamInv, Opened, Broken, Delivered, LocalOrder, BodyRead,
         Current
    <2>2. Wire(s)' = Wire(s)
      BY DEF Inv, TypeOK, Wire
    <2>3. OnTheWire(s)'
      BY <2>2, WireFrame DEF Inv, StreamInv, Reads
    <2>4. QED BY <2>1, <2>3 DEF StreamInv
  <1>3. ASSUME NEW r \in Stream \ {s} PROVE UNCHANGED Of(r)
    BY DEF Inv, TypeOK, Of
  <1>4. QED BY <1>1, <1>2, <1>3, StreamStep

-----------------------------------------------------------------------------
(* The handler.                                                            *)

\* The message that RecvMsg returns is the next one that was sent.
NextOne(s, m) == Current(s) \in 1..Len(sent[s]) /\ m = sent[s][Current(s)]

LEMMA ReturnsInOrder ==
    ASSUME NEW s \in Stream, NEW m, NextOne(s, m), Delivered(s),
           recv[s] \in Seq(Msg), sent[s] \in Seq(Msg),
           recv'[s] = Append(recv[s], m), UNCHANGED sent[s]
    PROVE  /\ m \in Msg /\ recv'[s] \in Seq(Msg)
           /\ Delivered(s)' /\ Current(s)' = Current(s) + 1
  <1>1. m \in Msg /\ Len(recv[s]) + 1 <= Len(sent[s]) /\ m = sent[s][Len(recv[s]) + 1]
    BY DEF NextOne, Current
  <1>2. recv'[s] \in Seq(Msg) /\ Len(recv'[s]) = Len(recv[s]) + 1
    BY <1>1
  <1>3. \A i \in 1..Len(recv'[s]) : recv'[s][i] = sent[s][i]
    BY <1>1 DEF Delivered
  <1>4. QED BY <1>1, <1>2, <1>3 DEF Delivered, Current

LEMMA LocalNext ==
    ASSUME Inv, NEW s \in Stream, RecvLocal(s)
    PROVE  /\ NextOne(s, Head(pipe[s]))
           /\ sent[s] = Append(recv[s], Head(pipe[s])) \o Tail(pipe[s])
  <1>1. /\ recv[s] \in Seq(Item) /\ pipe[s] \in Seq(Item) /\ pipe[s] # <<>>
        /\ sent[s] = recv[s] \o pipe[s]
    <2>1. recv[s] \in Seq(Msg)
      BY DEF Inv, TypeOK
    <2>2. QED BY <2>1, Items DEF RecvLocal, Inv, TypeOK, StreamInv, LocalOrder, Item
  <1>2. Append(recv[s], Head(pipe[s])) \o Tail(pipe[s]) = recv[s] \o pipe[s]
    BY <1>1, Moved
  <1>3. NextOne(s, Head(pipe[s]))
    <2>1. /\ Len(recv[s] \o pipe[s]) = Len(recv[s]) + Len(pipe[s])
          /\ \A i \in 1..Len(pipe[s]) : (recv[s] \o pipe[s])[Len(recv[s]) + i] = pipe[s][i]
      <3>1. recv[s] \in Seq(Item) /\ pipe[s] \in Seq(Item)
        BY <1>1
      <3>2. QED BY <3>1, JoinedItems, Zenon
    <2>2. /\ Head(pipe[s]) = pipe[s][1] /\ 1 \in 1..Len(pipe[s])
          /\ Len(pipe[s]) \in Nat /\ Len(recv[s]) \in Nat
      BY <1>1
    <2>3. Len(recv[s]) + 1 \in 1..Len(sent[s])
      <3>1. Len(sent[s]) = Len(recv[s]) + Len(pipe[s])
        BY <1>1, <2>1
      <3>2. Len(pipe[s]) >= 1
        BY <2>2
      <3>3. \A a, b, c \in Nat : c = a + b /\ b >= 1 => a + 1 \in 1..c
        OBVIOUS
      <3>4. Len(sent[s]) \in Nat
        <4>1. sent[s] \in Seq(Msg)
          BY DEF Inv, TypeOK
        <4>2. QED BY <4>1
      <3>5. QED BY <2>2, <3>1, <3>2, <3>3, <3>4, Zenon
    <2>4. sent[s][Len(recv[s]) + 1] = Head(pipe[s])
      BY <1>1, <2>1, <2>2
    <2>5. QED BY <2>3, <2>4 DEF NextOne, Current
  <1>4. QED BY <1>1, <1>2, <1>3

\* RecvMsg of a local stream.
LEMMA RecvLocalInv ==
    ASSUME Inv, NEW s \in Stream, RecvLocal(s)
    PROVE  Inv'
  <1> DEFINE m == Head(pipe[s])
  <1>1. NextOne(s, m) /\ sent[s] = Append(recv[s], m) \o Tail(pipe[s])
    BY LocalNext
  <1>2. /\ s \in LocalEnd /\ reader[s] = "length"
        /\ recv' = [recv EXCEPT ![s] = Append(recv[s], m)]
        /\ \E v \in {"length", "done"} : reader' = [reader EXCEPT ![s] = v]
        /\ pipe' = [pipe EXCEPT ![s] = Tail(pipe[s])]
        /\ UNCHANGED <<sender, todo, out, sent, need, have, broken>>
    BY DEF RecvLocal, Returns, sendVars
  <1>3. /\ recv[s] \in Seq(Msg) /\ sent[s] \in Seq(Msg) /\ pipe[s] \in Seq(Item)
        /\ pipe[s] # <<>> /\ Delivered(s)
    BY DEF RecvLocal, Inv, TypeOK, StreamInv, Item
  <1>4. /\ recv'[s] = Append(recv[s], m) /\ pipe'[s] = Tail(pipe[s])
        /\ reader'[s] \in {"length", "done"}
    BY <1>2 DEF Inv, TypeOK
  <1> HIDE DEF m
  <1>5. m \in Msg /\ recv'[s] \in Seq(Msg) /\ Delivered(s)'
    BY <1>1, <1>2, <1>3, <1>4, ReturnsInOrder
  <1>6. TypeOK'
    <2>1. Tail(pipe[s]) \in Seq(Unit \cup Msg)
      BY <1>3 DEF Item
    <2>2. QED BY <1>2, <1>4, <1>5, <2>1 DEF Inv, TypeOK
  <1>7. StreamInv(s)'
    <2>1. Opened(s)' /\ Broken(s)' /\ BodyRead(s)' /\ OnTheWire(s)'
      <3>1. ~broken[s] /\ sender'[s] = sender[s] /\ out'[s] = out[s] /\ sender[s] # "new"
            /\ broken'[s] = broken[s]
        BY <1>2 DEF Inv, StreamInv, Broken, Opened
      <3>2. QED BY <1>2, <1>4, <3>1
                   DEF Inv, StreamInv, Opened, Broken, BodyRead, OnTheWire, Reads
    <2>2. LocalOrder(s)'
      BY <1>1, <1>2, <1>4 DEF Inv, StreamInv, LocalOrder
    <2>3. QED BY <1>5, <2>1, <2>2 DEF StreamInv
  <1>8. ASSUME NEW r \in Stream \ {s} PROVE UNCHANGED Of(r)
    BY <1>2 DEF Inv, TypeOK, Of
  <1>9. QED BY <1>6, <1>7, <1>8, StreamStep

\* A unit is read: it was the first one, and the others come after it.
LEMMA UnitRead ==
    ASSUME NEW s \in Stream,
           pipe[s] \in Seq(Item), out[s] \in Seq(Unit), sent[s] \in Seq(Msg),
           pipe[s] # <<>>, pipe'[s] = Tail(pipe[s]), UNCHANGED <<out[s], sent[s]>>,
           NEW at \in [1..Len(sent[s]) + 1 -> Nat], NEW here \in Nat,
           Places(at, sent[s], Len(sent[s])),
           here + Len(Wire(s)) = at[Len(sent[s]) + 1],
           InPlace(Wire(s), here, at, sent[s], Len(sent[s]))
    PROVE  /\ Head(pipe[s]) = Wire(s)[1] /\ Len(Wire(s)) > 0 /\ Len(Wire(s)) \in Nat
           /\ here + 1 + Len(Wire(s)') = at[Len(sent[s]) + 1]
           /\ InPlace(Wire(s)', here + 1, at, sent[s], Len(sent[s]))
  <1> DEFINE n == Len(sent[s])
             len == Len(Wire(s)')
  <1>1. n \in Nat /\ \A i \in 1..n : Size[sent[s][i]] \in Nat
    <2>1. \A i \in 1..n : sent[s][i] \in Msg
      OBVIOUS
    <2>2. QED BY <2>1, SizeAssumption
  <1>2. out[s] \in Seq(Item)
    BY Items
  <1>3. Wire(s) \in Seq(Item) /\ Wire(s)' = Tail(pipe[s]) \o out[s]
    BY <1>2, Joined DEF Wire
  <1>4. /\ Tail(pipe[s]) \in Seq(Item) /\ Head(pipe[s]) = Wire(s)[1]
        /\ len + 1 = Len(Wire(s))
        /\ \A i \in 1..Len(Wire(s)) - 1 : Wire(s)'[i] = Wire(s)[i + 1]
    <2>1. pipe[s] \in Seq(Item) /\ pipe[s] # <<>> /\ Wire(s) = pipe[s] \o out[s]
      BY DEF Wire
    <2>2. LET w == pipe[s] \o out[s] IN
          /\ Tail(pipe[s]) \in Seq(Item) /\ Head(pipe[s]) = w[1]
          /\ Len(Tail(pipe[s]) \o out[s]) + 1 = Len(w)
          /\ \A i \in 1..Len(w) - 1 : (Tail(pipe[s]) \o out[s])[i] = w[i + 1]
      BY <1>2, <2>1, Taken, Zenon
    <2>3. QED BY <1>3, <2>1, <2>2, Zenon
  <1>5. len \in Nat
    <2>1. Wire(s)' \in Seq(Item)
      BY <1>2, <1>3, <1>4, Joined
    <2>2. QED BY <2>1
  <1> HIDE DEF len, n
  <1>6. /\ \A i \in 1..len : Wire(s)'[i] = Wire(s)[i + 1]
        /\ here + len + 1 = at[n + 1] /\ here + 1 + len = at[n + 1]
        /\ Len(Wire(s)) > 0 /\ Len(Wire(s)) \in Nat
    <2>1. Len(Wire(s)) - 1 = len
      BY <1>4, <1>5
    <2>2. here + (len + 1) = at[n + 1]
      BY <1>4 DEF n
    <2>3. Len(Wire(s)) = len + 1
      BY <1>4
    <2>4. /\ here + len + 1 = at[n + 1] /\ here + 1 + len = at[n + 1]
          /\ Len(Wire(s)) > 0 /\ Len(Wire(s)) \in Nat
      BY <1>5, <2>2, <2>3
    <2>5. QED BY <1>4, <2>1, <2>4
  <1>7. InPlace(Wire(s)', here + 1, at, sent[s], n)
    <2>1. /\ Places(at, sent[s], n) /\ InPlace(Wire(s), here, at, sent[s], n)
          /\ at \in [1..n + 1 -> Nat]
      BY DEF n
    <2>2. QED BY <1>1, <1>5, <1>6, <2>1, UnitTaken
  <1>8. QED BY <1>4, <1>6, <1>7 DEF n, len

\* What every step of the handler on a libp2p stream starts from.
LEMMA Reading ==
    ASSUME Inv, NEW s \in Stream, s \notin LocalEnd, reader[s] \in {"length", "body"}
    PROVE  /\ pipe[s] \in Seq(Item) /\ out[s] \in Seq(Unit) /\ have[s] \in Seq(Item)
           /\ sent[s] \in Seq(Msg) /\ recv[s] \in Seq(Msg)
           /\ Current(s) \in 1..Len(sent[s]) + 1 /\ Len(have[s]) \in Nat
           /\ pipe[s] # <<>> => Reads(s)
           /\ \A at \in [1..Len(sent[s]) + 1 -> Nat] : Here(s, at) \in Nat
  <1>1. /\ pipe[s] \in Seq(Item) /\ out[s] \in Seq(Unit) /\ have[s] \in Seq(Item)
        /\ sent[s] \in Seq(Msg) /\ recv[s] \in Seq(Msg)
    BY DEF Inv, TypeOK, Item
  <1>2. Len(recv[s]) \in Nat /\ Len(sent[s]) \in Nat /\ Len(have[s]) \in Nat
    BY <1>1
  <1>3. Current(s) \in 1..Len(sent[s]) + 1
    BY <1>2 DEF Inv, StreamInv, Delivered, Current
  <1>4. pipe[s] # <<>> => Reads(s)
    BY DEF Inv, StreamInv, Broken, Reads, TypeOK
  <1>5. ASSUME NEW at \in [1..Len(sent[s]) + 1 -> Nat] PROVE Here(s, at) \in Nat
    <2>1. at[Current(s)] \in Nat
      BY <1>3
    <2>2. QED BY <1>2, <2>1 DEF Here
  <1>6. QED BY <1>1, <1>2, <1>3, <1>4, <1>5

\* The length that is read is that of the current message.
LEMMA ReadLengthInv ==
    ASSUME Inv, NEW s \in Stream, ReadLength(s)
    PROVE  Inv'
  <1> DEFINE n == Len(sent[s])
             k == Current(s)
             size == Head(pipe[s]).length
  <1>1. /\ s \notin LocalEnd /\ reader[s] = "length" /\ pipe[s] # <<>>
        /\ need' = [need EXCEPT ![s] = size] /\ have' = [have EXCEPT ![s] = <<>>]
        /\ pipe' = [pipe EXCEPT ![s] = Tail(pipe[s])]
        /\ \E v \in {"body", "failed"} : reader' = [reader EXCEPT ![s] = v]
        /\ UNCHANGED <<sender, todo, out, sent, recv, broken>>
    BY DEF ReadLength, sendVars
  <1>2. /\ pipe[s] \in Seq(Item) /\ out[s] \in Seq(Unit) /\ sent[s] \in Seq(Msg)
        /\ Reads(s) /\ k \in 1..n + 1
        /\ \A at \in [1..n + 1 -> Nat] : Here(s, at) \in Nat
    BY <1>1, Reading
  <1>3. /\ need'[s] = size /\ have'[s] = <<>> /\ pipe'[s] = Tail(pipe[s])
        /\ reader'[s] \in {"body", "failed"}
    BY <1>1 DEF Inv, TypeOK
  <1>4. PICK at \in [1..n + 1 -> Nat] :
          /\ Places(at, sent[s], n)
          /\ Here(s, at) + Len(Wire(s)) = at[n + 1]
          /\ InPlace(Wire(s), Here(s, at), at, sent[s], n)
    BY <1>2 DEF Inv, StreamInv, OnTheWire
  <1>5. Here(s, at) = at[k] /\ at[k] \in Nat
    BY <1>1, <1>2 DEF Here
  <1> HIDE DEF size, n, k
  <1>6. /\ Head(pipe[s]) = Wire(s)[1] /\ Len(Wire(s)) > 0 /\ Len(Wire(s)) \in Nat
        /\ at[k] + 1 + Len(Wire(s)') = at[n + 1]
        /\ InPlace(Wire(s)', at[k] + 1, at, sent[s], n)
    <2>1. Here(s, at) \in Nat
      BY <1>5
    <2>2. /\ Head(pipe[s]) = Wire(s)[1] /\ Len(Wire(s)) > 0 /\ Len(Wire(s)) \in Nat
          /\ Here(s, at) + 1 + Len(Wire(s)') = at[n + 1]
          /\ InPlace(Wire(s)', Here(s, at) + 1, at, sent[s], n)
      BY <1>1, <1>2, <1>3, <1>4, <2>1, UnitRead DEF n
    <2>3. QED BY <1>5, <2>2, Zenon
  <1>7. k \in 1..n /\ Wire(s)[1] = [length |-> Size[sent[s][k]]]
    <2>1. n \in Nat
      BY <1>2 DEF n
    <2>2. k \in 1..n + 1
      BY <1>2
    <2>3. at[k] + Len(Wire(s)) = at[n + 1] /\ InPlace(Wire(s), at[k], at, sent[s], n)
      BY <1>4, <1>5, Zenon
    <2>4. Len(Wire(s)) \in Nat /\ Len(Wire(s)) > 0
      BY <1>6
    <2>5. at \in [1..n + 1 -> Nat]
      BY <1>4
    <2>6. k \in 1..n
      BY <1>5, <2>1, <2>2, <2>3, <2>4
    <2>7. at[k] >= at[k] /\ at[k] - at[k] + 1 = 1
      BY <1>5
    <2>8. QED BY <2>3, <2>6, <2>7 DEF InPlace
  <1>8. size = Size[sent[s][k]] /\ size \in Nat
    <2>1. sent[s][k] \in Msg
      BY <1>2, <1>7 DEF n
    <2>2. QED BY <1>6, <1>7, <2>1, SizeAssumption DEF size
  <1>9. TypeOK'
    <2>1. Tail(pipe[s]) \in Seq(Unit \cup Msg) /\ <<>> \in Seq(Unit \cup Msg)
      BY <1>1, <1>2 DEF Item
    <2>2. QED BY <1>1, <1>8, <2>1 DEF Inv, TypeOK
  <1>10. StreamInv(s)'
    <2>1. Opened(s)' /\ Broken(s)' /\ Delivered(s)' /\ LocalOrder(s)'
      <3>1. sender[s] # "new" /\ ~broken[s]
        BY <1>1, <1>2 DEF Inv, StreamInv, Opened, Reads
      <3>2. QED BY <1>1, <1>3, <3>1
                   DEF Inv, StreamInv, Opened, Broken, Delivered, LocalOrder
    <2>2. Current(s)' = k /\ sent' = sent /\ Len(have'[s]) = 0
      BY <1>1, <1>3 DEF Current, k
    <2>3. BodyRead(s)'
      BY <1>3, <1>7, <1>8, <2>2 DEF BodyRead, n
    <2>4. OnTheWire(s)'
      <3>1. reader'[s] = "body" => Here(s, at)' = at[k] + 1
        BY <1>5, <2>2 DEF Here
      <3>2. Reads(s)' => reader'[s] = "body"
        BY <1>3 DEF Reads
      <3>3. QED BY <1>4, <1>6, <2>2, <3>1, <3>2 DEF OnTheWire, n
    <2>5. QED BY <2>1, <2>3, <2>4 DEF StreamInv
  <1>11. ASSUME NEW r \in Stream \ {s} PROVE UNCHANGED Of(r)
    BY <1>1 DEF Inv, TypeOK, Of
  <1>12. QED BY <1>9, <1>10, <1>11, StreamStep

\* A byte that is read is the next one of the current message.
LEMMA ReadBodyInv ==
    ASSUME Inv, NEW s \in Stream, ReadBody(s)
    PROVE  Inv'
  <1> DEFINE n == Len(sent[s])
             k == Current(s)
             unit == Head(pipe[s])
             size == Size[sent[s][k]]
             h == Len(have[s])
  <1>1. /\ reader[s] = "body" /\ pipe[s] # <<>> /\ h # need[s]
        /\ have' = [have EXCEPT ![s] = Append(have[s], unit)]
        /\ pipe' = [pipe EXCEPT ![s] = Tail(pipe[s])]
        /\ UNCHANGED <<sender, todo, out, sent, reader, need, recv, broken>>
    BY DEF ReadBody, FullyRead, sendVars
  <1>2. s \notin LocalEnd
    BY <1>1 DEF Inv, StreamInv, LocalOrder
  <1>3. /\ pipe[s] \in Seq(Item) /\ out[s] \in Seq(Unit) /\ sent[s] \in Seq(Msg)
        /\ have[s] \in Seq(Item) /\ Reads(s) /\ h \in Nat
        /\ \A at \in [1..n + 1 -> Nat] : Here(s, at) \in Nat
    BY <1>1, <1>2, Reading
  <1>4. have'[s] = Append(have[s], unit) /\ pipe'[s] = Tail(pipe[s]) /\ reader'[s] = "body"
    BY <1>1 DEF Inv, TypeOK
  <1>5. /\ k \in 1..n /\ need[s] = size /\ h <= need[s] /\ need[s] \in Nat
        /\ \A j \in 1..h : have[s][j] = <<sent[s][k], j>>
    <2>1. Len(recv[s]) \in Nat /\ n \in Nat
      <3>1. recv[s] \in Seq(Msg)
        BY DEF Inv, TypeOK
      <3>2. QED BY <1>3, <3>1
    <2>2. QED BY <1>1, <2>1 DEF Inv, StreamInv, BodyRead, Current, TypeOK
  <1>6. PICK at \in [1..n + 1 -> Nat] :
          /\ Places(at, sent[s], n)
          /\ Here(s, at) + Len(Wire(s)) = at[n + 1]
          /\ InPlace(Wire(s), Here(s, at), at, sent[s], n)
    BY <1>3 DEF Inv, StreamInv, OnTheWire
  <1>7. Here(s, at) = at[k] + 1 + h /\ at[k] \in Nat /\ Here(s, at) \in Nat
    <2>1. at[k] \in Nat
      BY <1>5
    <2>2. Here(s, at) = at[k] + 1 + h
      BY <1>1 DEF Here
    <2>3. QED BY <1>3, <2>1, <2>2, Zenon
  <1> HIDE DEF n, k, unit, size, h
  <1>8. /\ unit = Wire(s)[1]
        /\ Here(s, at) + 1 + Len(Wire(s)') = at[n + 1]
        /\ InPlace(Wire(s)', Here(s, at) + 1, at, sent[s], n)
    BY <1>1, <1>3, <1>4, <1>6, <1>7, UnitRead DEF n, unit
  <1>9. unit = <<sent[s][k], h + 1>>
    <2>1. n \in Nat /\ h \in Nat /\ size \in Nat /\ h < size
      <3>1. n \in Nat
        BY <1>3 DEF n
      <3>2. QED BY <1>1, <1>3, <1>5, <3>1
    <2>2. InPlace(Wire(s), at[k] + 1 + h, at, sent[s], n)
      BY <1>6, <1>7
    <2>3. Wire(s)[1] = <<sent[s][k], h + 1>>
      <3>1. /\ h + 1 \in 1..size
            /\ at[k] + (h + 1) >= at[k] + 1 + h
            /\ at[k] + (h + 1) - (at[k] + 1 + h) + 1 = 1
        BY <1>7, <2>1
      <3>2. k \in 1..n
        BY <1>5
      <3>3. QED BY <2>2, <3>1, <3>2 DEF InPlace, size
    <2>4. QED BY <1>8, <2>3
  <1>10. /\ Len(have'[s]) = h + 1
         /\ \A j \in 1..h + 1 : have'[s][j] = <<sent[s][k], j>>
    <2>1. unit \in Item
      BY <1>1, <1>3 DEF unit
    <2>2. /\ Len(have'[s]) = h + 1 /\ have'[s][h + 1] = unit
          /\ \A j \in 1..h : have'[s][j] = have[s][j]
      BY <1>3, <1>4, <2>1 DEF h
    <2>3. \A j \in 1..h + 1 : j = h + 1 \/ j \in 1..h
      <3>1. h \in Nat
        BY <1>3
      <3>2. QED BY <3>1
    <2>4. QED BY <1>5, <1>9, <2>2, <2>3, Zenon
  <1>11. TypeOK'
    <2>1. /\ Tail(pipe[s]) \in Seq(Unit \cup Msg)
          /\ Append(have[s], unit) \in Seq(Unit \cup Msg)
      BY <1>1, <1>3 DEF Item, unit
    <2>2. QED BY <1>1, <2>1 DEF Inv, TypeOK
  <1>12. StreamInv(s)'
    <2>1. Opened(s)' /\ Broken(s)' /\ Delivered(s)' /\ LocalOrder(s)'
      <3>1. ~broken[s]
        BY <1>3 DEF Reads
      <3>2. QED BY <1>1, <1>2, <1>4, <3>1
                   DEF Inv, StreamInv, Opened, Broken, Delivered, LocalOrder
    <2>2. Current(s)' = k /\ sent' = sent /\ need' = need
      BY <1>1 DEF Current, k
    <2>3. BodyRead(s)'
      <3>1. h + 1 <= need[s]
        BY <1>1, <1>3, <1>5
      <3>2. QED BY <1>5, <1>10, <2>2, <3>1 DEF BodyRead, size, n
    <2>4. OnTheWire(s)'
      <3>1. Here(s, at)' = Here(s, at) + 1
        <4>1. Here(s, at)' = at[k] + 1 + (h + 1)
          BY <1>4, <1>10, <2>2 DEF Here
        <4>2. h \in Nat
          BY <1>3
        <4>3. \A a, b \in Nat : a + 1 + (b + 1) = a + 1 + b + 1
          OBVIOUS
        <4>4. QED BY <1>7, <4>1, <4>2, <4>3, Zenon
      <3>2. QED BY <1>6, <1>8, <2>2, <3>1 DEF OnTheWire, n
    <2>5. QED BY <2>1, <2>3, <2>4 DEF StreamInv
  <1>13. ASSUME NEW r \in Stream \ {s} PROVE UNCHANGED Of(r)
    BY <1>1 DEF Inv, TypeOK, Of
  <1>14. QED BY <1>11, <1>12, <1>13, StreamStep

\* The body that was read is decoded as the next message that was sent.
LEMMA MessageNext ==
    ASSUME Inv, NEW s \in Stream, RecvMsg(s)
    PROVE  NextOne(s, Decode(have[s])) /\ Len(have[s]) = Size[sent[s][Current(s)]]
  <1>1. reader[s] = "body" /\ Len(have[s]) = need[s]
    BY DEF RecvMsg, FullyRead
  <1>2. s \notin LocalEnd
    BY <1>1 DEF Inv, StreamInv, LocalOrder
  <1>3. have[s] \in Seq(Item) /\ sent[s] \in Seq(Msg) /\ Current(s) \in 1..Len(sent[s]) + 1
    BY <1>1, <1>2, Reading
  <1>4. /\ Current(s) <= Len(sent[s]) /\ need[s] = Size[sent[s][Current(s)]]
        /\ \A j \in 1..Len(have[s]) : have[s][j] = <<sent[s][Current(s)], j>>
    BY <1>1 DEF Inv, StreamInv, BodyRead
  <1>5. Current(s) \in 1..Len(sent[s]) /\ sent[s][Current(s)] \in Msg
    <2>1. Len(sent[s]) \in Nat
      BY <1>3
    <2>2. Current(s) \in 1..Len(sent[s])
      BY <1>3, <1>4, <2>1
    <2>3. QED BY <1>3, <2>2
  <1>6. Decode(have[s]) = sent[s][Current(s)]
    BY <1>1, <1>3, <1>4, <1>5, Decoded
  <1>7. QED BY <1>1, <1>4, <1>5, <1>6 DEF NextOne

\* RecvMsg of a libp2p stream: the next unit is where the next message begins.
LEMMA RecvMsgInv ==
    ASSUME Inv, NEW s \in Stream, RecvMsg(s)
    PROVE  Inv'
  <1> DEFINE m == Decode(have[s])
             n == Len(sent[s])
             k == Current(s)
             h == Len(have[s])
  <1>1. NextOne(s, m) /\ h = Size[sent[s][k]]
    BY MessageNext
  <1>2. /\ reader[s] = "body" /\ recv' = [recv EXCEPT ![s] = Append(recv[s], m)]
        /\ \E v \in {"length", "done"} : reader' = [reader EXCEPT ![s] = v]
        /\ UNCHANGED <<sender, todo, out, sent, need, have, pipe, broken>>
    BY DEF RecvMsg, Returns, sendVars
  <1>3. s \notin LocalEnd
    BY <1>2 DEF Inv, StreamInv, LocalOrder
  <1>4. recv[s] \in Seq(Msg) /\ sent[s] \in Seq(Msg) /\ Delivered(s)
    BY DEF Inv, TypeOK, StreamInv
  <1>5. recv'[s] = Append(recv[s], m) /\ reader'[s] \in {"length", "done"}
    BY <1>2 DEF Inv, TypeOK
  <1>6. h \in Nat /\ k \in 1..n
    BY <1>1, <1>2, <1>3, Reading DEF NextOne
  <1> HIDE DEF m, k, h
  <1>7. m \in Msg /\ recv'[s] \in Seq(Msg) /\ Delivered(s)' /\ Current(s)' = k + 1
    BY <1>1, <1>2, <1>4, <1>5, ReturnsInOrder DEF k
  <1>8. TypeOK'
    BY <1>2, <1>5, <1>7 DEF Inv, TypeOK
  <1>9. OnTheWire(s)'
    <2> SUFFICES ASSUME Reads(s)' PROVE OnTheWire(s)'
      BY DEF OnTheWire
    <2>1. Reads(s) /\ reader'[s] = "length" /\ sent' = sent /\ Wire(s)' = Wire(s)
      BY <1>2, <1>5 DEF Reads, Wire
    <2>2. PICK at \in [1..n + 1 -> Nat] :
            /\ Places(at, sent[s], n)
            /\ Here(s, at) + Len(Wire(s)) = at[n + 1]
            /\ InPlace(Wire(s), Here(s, at), at, sent[s], n)
      BY <2>1 DEF Inv, StreamInv, OnTheWire
    <2>3. Here(s, at) = at[k] + 1 + h /\ Here(s, at)' = at[k + 1]
      BY <1>2, <1>7, <2>1 DEF Here, h, k
    <2>4. at[k + 1] = at[k] + 1 + h
      BY <1>1, <1>6, <2>2 DEF Places
    <2>5. QED BY <2>1, <2>2, <2>3, <2>4 DEF OnTheWire
  <1>10. StreamInv(s)'
    <2>1. Opened(s)' /\ Broken(s)' /\ LocalOrder(s)' /\ BodyRead(s)'
      <3>1. sender[s] # "new"
        BY <1>2 DEF Inv, StreamInv, Opened
      <3>2. QED BY <1>2, <1>3, <1>5, <3>1
                   DEF Inv, StreamInv, Opened, Broken, LocalOrder, BodyRead
    <2>2. QED BY <1>7, <1>9, <2>1 DEF StreamInv
  <1>11. ASSUME NEW r \in Stream \ {s} PROVE UNCHANGED Of(r)
    BY <1>2 DEF Inv, TypeOK, Of
  <1>12. QED BY <1>8, <1>10, <1>11, StreamStep

\* The handler gives up: the stream is not read any more.
LEMMA RecvFailsInv ==
    ASSUME Inv, NEW s \in Stream, RecvFails(s)
    PROVE  Inv'
  <1>1. /\ reader[s] \in {"length", "body"} /\ reader' = [reader EXCEPT ![s] = "failed"]
        /\ UNCHANGED <<sender, todo, out, sent, need, have, recv, pipe, broken>>
    BY DEF RecvFails, sendVars
  <1>2. reader'[s] = "failed" /\ sender[s] # "new"
    BY <1>1 DEF Inv, TypeOK, StreamInv, Opened
  <1>3. TypeOK'
    BY <1>1 DEF Inv, TypeOK
  <1>4. StreamInv(s)'
    BY <1>1, <1>2 DEF Inv, StreamInv, Opened, Broken, Delivered, LocalOrder, BodyRead,
       OnTheWire, Reads
  <1>5. ASSUME NEW r \in Stream \ {s} PROVE UNCHANGED Of(r)
    BY <1>1 DEF Inv, TypeOK, Of
  <1>6. QED BY <1>3, <1>4, <1>5, StreamStep

\* The connection breaks: what was in the stream is lost, and it is not read
\* any more.
LEMMA ResetInv ==
    ASSUME Inv, NEW s \in Stream, Reset(s)
    PROVE  Inv'
  <1>1. /\ s \notin LocalEnd
        /\ broken' = [broken EXCEPT ![s] = TRUE] /\ pipe' = [pipe EXCEPT ![s] = <<>>]
        /\ UNCHANGED <<sender, todo, out, sent, reader, need, have, recv>>
    BY DEF Reset, sendVars, readVars
  <1>2. broken'[s] = TRUE /\ pipe'[s] = <<>>
    BY <1>1 DEF Inv, TypeOK
  <1>3. TypeOK'
    <2>1. <<>> \in Seq(Unit \cup Msg)
      OBVIOUS
    <2>2. pipe' \in [Stream -> Seq(Unit \cup Msg)] /\ broken' \in [Stream -> BOOLEAN]
      BY <1>1, <2>1 DEF Inv, TypeOK
    <2>3. QED BY <1>1, <2>2 DEF Inv, TypeOK
  <1>4. StreamInv(s)'
    <2>1. Opened(s)' /\ Broken(s)'
      BY <1>1, <1>2 DEF Inv, StreamInv, Opened, Broken
    <2>2. Delivered(s)' /\ LocalOrder(s)' /\ BodyRead(s)'
      BY <1>1 DEF Inv, StreamInv, Delivered, LocalOrder, BodyRead, Current
    <2>3. OnTheWire(s)'
      BY <1>2 DEF OnTheWire, Reads
    <2>4. QED BY <2>1, <2>2, <2>3 DEF StreamInv
  <1>5. ASSUME NEW r \in Stream \ {s} PROVE UNCHANGED Of(r)
    BY <1>1 DEF Inv, TypeOK, Of
  <1>6. QED BY <1>3, <1>4, <1>5, StreamStep

\* The handler's registration does not touch the streams.
LEMMA ServerInv ==
    ASSUME Inv, UNCHANGED <<sendVars, readVars, pipe, broken>>
    PROVE  Inv'
  <1>1. TypeOK'
    BY DEF Inv, TypeOK, sendVars, readVars
  <1>2. ASSUME NEW s \in Stream PROVE StreamInv(s)'
    BY StreamFrame DEF Inv, Of, sendVars, readVars
  <1>3. QED BY <1>1, <1>2 DEF Inv

LEMMA StepInv == Inv /\ [Next]_vars => Inv'
  <1> SUFFICES ASSUME Inv, [Next]_vars PROVE Inv'
    OBVIOUS
  <1>1. CASE SetStreamHandler \/ RemoveStreamHandler
    BY <1>1, ServerInv DEF SetStreamHandler, RemoveStreamHandler
  <1>2. ASSUME NEW s \in Stream, Sender(s) PROVE Inv'
    BY <1>2, NewStreamInv, NewStreamFailsInv, SendMsgInv, WriteInv, WriteFailsInv, CloseInv
       DEF Sender
  <1>3. ASSUME NEW s \in Stream, Handler(s) PROVE Inv'
    BY <1>3, RecvLocalInv, ReadLengthInv, ReadBodyInv, RecvMsgInv, RecvFailsInv DEF Handler
  <1>4. ASSUME NEW s \in Stream, Reset(s) PROVE Inv'
    BY <1>4, ResetInv
  <1>5. CASE UNCHANGED vars
    BY <1>5, ServerInv DEF vars
  <1>6. QED BY <1>1, <1>2, <1>3, <1>4, <1>5 DEF Next

\* Every unit between SendMsg and RecvMsg is in its place, on every stream.
THEOREM Invariance == Spec => []Inv
  <1>1. Init => Inv
    BY InitInv
  <1>2. Inv /\ [Next]_vars => Inv'
    BY StepInv
  <1>3. QED BY <1>1, <1>2, PTL DEF Spec

-----------------------------------------------------------------------------
(* The streams keep the promise of MessageStream.                          *)

LEMMA InitRefines == Init => Messages!Init
  BY DEF Init, Each, Messages!Init

\* Reading a unit, writing one, and the rest of what goes on at a stream are
\* not seen from outside.
LEMMA StepRefines == Inv /\ [Next]_vars => [Messages!Next]_<<sent, recv>>
  <1> SUFFICES ASSUME Inv, [Next]_vars PROVE [Messages!Next]_<<sent, recv>>
    OBVIOUS
  <1>1. ASSUME NEW s \in Stream, SendMsg(s) PROVE Messages!Next
    <2>1. Head(todo[s]) \in Msg
      <3>1. todo[s] \in Seq(Msg) /\ todo[s] # <<>>
        BY <1>1 DEF SendMsg, Inv, TypeOK
      <3>2. QED BY <3>1
    <2>2. Messages!Send(s, Head(todo[s]))
      BY <1>1 DEF SendMsg, readVars, Messages!Send
    <2>3. QED BY <2>1, <2>2 DEF Messages!Next
  <1>2. ASSUME NEW s \in Stream, NEW m, NextOne(s, m),
               recv' = [recv EXCEPT ![s] = Append(@, m)], UNCHANGED sent
        PROVE  Messages!Next
    <2>1. Len(recv[s]) \in Nat /\ Len(sent[s]) \in Nat
      <3>1. recv[s] \in Seq(Msg) /\ sent[s] \in Seq(Msg)
        BY DEF Inv, TypeOK
      <3>2. QED BY <3>1
    <2>2. Len(recv[s]) < Len(sent[s]) /\ m = sent[s][Len(recv[s]) + 1]
      BY <1>2, <2>1 DEF NextOne, Current
    <2>3. Messages!Receive(s)
      BY <1>2, <2>2 DEF Messages!Receive
    <2>4. QED BY <2>3 DEF Messages!Next
  <1>3. ASSUME NEW s \in Stream, RecvLocal(s) PROVE Messages!Next
    BY <1>2, <1>3, LocalNext DEF RecvLocal, Returns, sendVars
  <1>4. ASSUME NEW s \in Stream, RecvMsg(s) PROVE Messages!Next
    BY <1>2, <1>4, MessageNext DEF RecvMsg, Returns, sendVars
  <1>5. CASE SetStreamHandler \/ RemoveStreamHandler
    BY <1>5 DEF SetStreamHandler, RemoveStreamHandler, sendVars, readVars
  <1>6. ASSUME NEW s \in Stream, Sender(s) PROVE [Messages!Next]_<<sent, recv>>
    BY <1>1, <1>6 DEF Sender, NewStream, NewStreamFails, Write, WriteFails, Close, readVars
  <1>7. ASSUME NEW s \in Stream, Handler(s) PROVE [Messages!Next]_<<sent, recv>>
    BY <1>3, <1>4, <1>7 DEF Handler, ReadLength, ReadBody, RecvFails, sendVars
  <1>8. ASSUME NEW s \in Stream, Reset(s) PROVE UNCHANGED <<sent, recv>>
    BY <1>8 DEF Reset, sendVars, readVars
  <1>9. CASE UNCHANGED vars
    BY <1>9 DEF vars, sendVars, readVars
  <1>10. QED BY <1>5, <1>6, <1>7, <1>8, <1>9 DEF Next

\* P2PStream.tla implements MessageStream.tla: RecvMsg returns the messages
\* SendMsg was called with, whole, in their order, without a gap.
THEOREM Refinement == Spec => ImplementsMessageStream
  <1>1. Init => Messages!Init
    BY InitRefines
  <1>2. Inv /\ [Next]_vars => [Messages!Next]_<<sent, recv>>
    BY StepRefines
  <1>3. QED BY <1>1, <1>2, Invariance, PTL DEF Spec, ImplementsMessageStream, Messages!Spec
=============================================================================
