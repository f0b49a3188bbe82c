---------------------------- MODULE StorageProofs ----------------------------
(***************************************************************************)
(* Proofs about the operators of Storage.tla, for all byte strings: the    *)
(* order of LevelDB is a strict total order, a scan from a prefix finds    *)
(* the keys with that prefix, and storage keys tell the sessions of a      *)
(* server, and the key ids without a colon, apart.                         *)
(***************************************************************************)
EXTENDS Storage, SequenceTheorems, WellFoundedInduction, TLAPS

Bytes == Seq(Nat)

-----------------------------------------------------------------------------
(* Prefixes and the order, byte by byte.                                   *)

LEMMA LeastNat ==
    ASSUME NEW T \in SUBSET Nat, T # {}
    PROVE  \E x \in T : \A y \in T : x <= y
  <1>1. \E x \in T : \A y \in T : <<y, x>> \notin OpToRel(<, Nat)
    BY NatLessThanWellFounded, WFMin
  <1>2. PICK x \in T : \A y \in T : <<y, x>> \notin OpToRel(<, Nat) BY <1>1
  <1>3. \A y \in T : ~(y < x) BY <1>2 DEF OpToRel
  <1>4. QED BY <1>3

LEMMA BytesAre ==
    ASSUME NEW x \in Bytes
    PROVE  /\ Len(x) \in Nat
           /\ \A i \in 1..Len(x) : x[i] \in Nat
  BY LenProperties, ElementOfSeq DEF Bytes

LEMMA SameBytes ==
    ASSUME NEW x \in Bytes, NEW y \in Bytes
    PROVE  x = y <=> Len(x) = Len(y) /\ \A i \in 1..Len(x) : x[i] = y[i]
  BY SeqEqual DEF Bytes

\* Equal beginnings of two strings are equal bytes.
LEMMA SameStart ==
    ASSUME NEW x \in Bytes, NEW y \in Bytes, NEW n \in Nat, n <= Len(x), n <= Len(y)
    PROVE  SubSeq(x, 1, n) = SubSeq(y, 1, n) <=> \A i \in 1..n : x[i] = y[i]
  <1>0. n \in Int /\ 1 \in Int OBVIOUS
  <1>1. (\A i \in 1..n : x[i] \in Nat) /\ (\A i \in 1..n : y[i] \in Nat) BY BytesAre
  <1>2. /\ SubSeq(x, 1, n) \in Bytes
        /\ Len(SubSeq(x, 1, n)) = IF 1 <= n THEN n - 1 + 1 ELSE 0
        /\ \A i \in 1..(n - 1 + 1) : SubSeq(x, 1, n)[i] = x[1 + i - 1]
    BY <1>0, <1>1, SubSeqProperties DEF Bytes
  <1>3. /\ SubSeq(y, 1, n) \in Bytes
        /\ Len(SubSeq(y, 1, n)) = IF 1 <= n THEN n - 1 + 1 ELSE 0
        /\ \A i \in 1..(n - 1 + 1) : SubSeq(y, 1, n)[i] = y[1 + i - 1]
    BY <1>0, <1>1, SubSeqProperties DEF Bytes
  <1>4. /\ Len(SubSeq(x, 1, n)) = n /\ Len(SubSeq(y, 1, n)) = n
        /\ \A i \in 1..n : SubSeq(x, 1, n)[i] = x[i] /\ SubSeq(y, 1, n)[i] = y[i]
    BY <1>2, <1>3
  <1>5. QED BY <1>2, <1>3, <1>4, SameBytes

LEMMA PrefixIs ==
    ASSUME NEW x \in Bytes, NEW p \in Bytes
    PROVE  HasPrefix(x, p) <=> Len(p) <= Len(x) /\ \A i \in 1..Len(p) : x[i] = p[i]
  <1>1. SubSeq(p, 1, Len(p)) = p BY SubSeqFull DEF Bytes
  <1>2. ASSUME Len(p) <= Len(x)
        PROVE  SubSeq(x, 1, Len(p)) = p <=> \A i \in 1..Len(p) : x[i] = p[i]
    BY <1>1, <1>2, SameStart, BytesAre
  <1>3. QED BY <1>2 DEF HasPrefix

\* The first byte in which two strings differ decides.
Differ(x, y, i) ==
    /\ i \in 1..Len(x) /\ i \in 1..Len(y)
    /\ x[i] < y[i]
    /\ \A j \in 1..(i - 1) : x[j] = y[j]

LEMMA BeforeIs ==
    ASSUME NEW x \in Bytes, NEW y \in Bytes
    PROVE  Before(x, y) <=> (HasPrefix(y, x) /\ x # y) \/ \E i \in Nat : Differ(x, y, i)
  <1>1. ASSUME NEW i \in 1..Len(x), i <= Len(y)
        PROVE  SubSeq(x, 1, i - 1) = SubSeq(y, 1, i - 1) <=> \A j \in 1..(i - 1) : x[j] = y[j]
    <2>1. i - 1 \in Nat /\ i - 1 <= Len(x) /\ i - 1 <= Len(y) BY <1>1, BytesAre
    <2>2. QED BY <2>1, SameStart
  <1>2. \A i \in 1..Len(x) : i <= Len(y) <=> i \in 1..Len(y) BY BytesAre
  <1>3. 1..Len(x) \subseteq Nat BY BytesAre
  <1>4. QED BY <1>1, <1>2, <1>3 DEF Before, Differ

LEMMA Irreflexive ==
    ASSUME NEW x \in Bytes
    PROVE  ~Before(x, x)
  BY BeforeIs, BytesAre DEF Differ

LEMMA Asymmetric ==
    ASSUME NEW x \in Bytes, NEW y \in Bytes, Before(x, y)
    PROVE  ~Before(y, x)
  <1> SUFFICES ASSUME Before(y, x) PROVE FALSE OBVIOUS
  <1> USE BytesAre
  <1>1. CASE HasPrefix(y, x) /\ HasPrefix(x, y) /\ x # y
    BY <1>1, PrefixIs, SameBytes
  <1>2. CASE \E i \in Nat : HasPrefix(y, x) /\ Differ(y, x, i)
    BY <1>2, PrefixIs DEF Differ
  <1>3. CASE \E i \in Nat : HasPrefix(x, y) /\ Differ(x, y, i)
    BY <1>3, PrefixIs DEF Differ
  <1>4. CASE \E i, j \in Nat : Differ(x, y, i) /\ Differ(y, x, j)
    <2>1. PICK i \in Nat, j \in Nat : Differ(x, y, i) /\ Differ(y, x, j) BY <1>4
    <2>2. CASE i < j
      <3>1. i \in 1..(j - 1) BY <2>1, <2>2 DEF Differ
      <3>2. QED BY <2>1, <3>1 DEF Differ
    <2>3. CASE j < i
      <3>1. j \in 1..(i - 1) BY <2>1, <2>3 DEF Differ
      <3>2. QED BY <2>1, <3>1 DEF Differ
    <2>4. CASE i = j BY <2>1, <2>4 DEF Differ
    <2>5. QED BY <2>2, <2>3, <2>4
  <1>5. QED BY <1>1, <1>2, <1>3, <1>4, BeforeIs

LEMMA Total ==
    ASSUME NEW x \in Bytes, NEW y \in Bytes
    PROVE  Before(x, y) \/ x = y \/ Before(y, x)
  <1> USE BytesAre
  <1> DEFINE D == {i \in Nat : i \in 1..Len(x) /\ i \in 1..Len(y) /\ x[i] # y[i]}
  <1>1. CASE D = {}
    <2>1. \A i \in 1..Len(x) : i \in 1..Len(y) => x[i] = y[i] BY <1>1
    <2>2. CASE Len(x) <= Len(y)
      <3>1. HasPrefix(y, x) BY <2>1, <2>2, PrefixIs
      <3>2. QED BY <3>1, BeforeIs
    <2>3. CASE Len(y) <= Len(x)
      <3>1. HasPrefix(x, y) BY <2>1, <2>3, PrefixIs
      <3>2. QED BY <3>1, BeforeIs
    <2>4. QED BY <2>2, <2>3
  <1>2. CASE D # {}
    <2>1. PICK i \in D : \A j \in D : i <= j BY <1>2, LeastNat
    <2>2. \A j \in 1..(i - 1) : x[j] = y[j] BY <2>1
    <2>3. x[i] < y[i] \/ y[i] < x[i] BY <2>1
    <2>4. Differ(x, y, i) \/ Differ(y, x, i) BY <2>1, <2>2, <2>3 DEF Differ
    <2>5. QED BY <2>1, <2>4, BeforeIs
  <1>3. QED BY <1>1, <1>2

-----------------------------------------------------------------------------
(* The scan.                                                               *)

LEMMA PrefixNotBefore ==
    ASSUME NEW x \in Bytes, NEW p \in Bytes, HasPrefix(x, p)
    PROVE  ~Before(x, p)
  <1> USE BytesAre
  <1>1. ~(HasPrefix(p, x) /\ x # p) BY PrefixIs, SameBytes
  <1>2. \A i \in Nat : ~Differ(x, p, i) BY PrefixIs DEF Differ
  <1>3. QED BY <1>1, <1>2, BeforeIs

\* Keys with the prefix come before all later keys without it.
LEMMA PrefixBefore ==
    ASSUME NEW x \in Bytes, NEW y \in Bytes, NEW p \in Bytes,
           HasPrefix(x, p), ~HasPrefix(y, p), ~Before(y, p)
    PROVE  Before(x, y)
  <1> USE BytesAre
  <1>1. y # p BY PrefixIs
  <1>2. PICK i \in Nat : Differ(p, y, i) BY <1>1, Total, BeforeIs
  <1>3. Differ(x, y, i) BY <1>2, PrefixIs DEF Differ
  <1>4. QED BY <1>3, BeforeIs

\* The iterator of GetKeyDataListByKeyId stops at the first key without the
\* prefix: it has met every key with the prefix by then.
THEOREM ScanFindsPrefix ==
    ASSUME DOMAIN db \subseteq Seq(Nat), NEW p \in Seq(Nat)
    PROVE  Scan(p) = {x \in DOMAIN db : HasPrefix(x, p)}
  <1> USE DEF Bytes
  <1>1. ASSUME NEW x \in Scan(p) PROVE x \in DOMAIN db /\ HasPrefix(x, p)
    <2>1. x \in DOMAIN db /\ (HasPrefix(x, p) \/ Before(x, x)) BY DEF Scan
    <2>2. QED BY <2>1, Irreflexive
  <1>2. ASSUME NEW x \in DOMAIN db, HasPrefix(x, p) PROVE x \in Scan(p)
    <2>1. ~Before(x, p) BY <1>2, PrefixNotBefore
    <2>2. \A y \in DOMAIN db : ~Before(y, p) => HasPrefix(y, p) \/ Before(x, y)
      BY <1>2, PrefixBefore
    <2>3. QED BY <2>1, <2>2 DEF Scan
  <1>3. QED BY <1>1, <1>2

-----------------------------------------------------------------------------
(* Storage keys.                                                           *)

LEMMA PrefixBytes ==
    ASSUME NEW k \in Bytes
    PROVE  /\ Prefix(k) \in Bytes
           /\ Len(Prefix(k)) = Len(k) + 1
           /\ Prefix(k)[Len(k) + 1] = Colon
           /\ \A i \in 1..Len(k) : Prefix(k)[i] = k[i]
  <1>1. Prefix(k) = Append(k, Colon) BY AppendIsConcat DEF Bytes, Prefix, Colon
  <1>2. Colon \in Nat BY DEF Colon
  <1>3. QED BY <1>1, <1>2, AppendProperties DEF Bytes

LEMMA StorageKeyBytes ==
    ASSUME NEW k \in Bytes, NEW s \in Seq(Nat \ {Colon})
    PROVE  /\ StorageKey(k, s) \in Bytes
           /\ Len(StorageKey(k, s)) = Len(k) + 1 + Len(s)
           /\ StorageKey(k, s)[Len(k) + 1] = Colon
           /\ \A i \in 1..Len(k) : StorageKey(k, s)[i] = k[i]
           /\ \A i \in 1..Len(StorageKey(k, s)) :
                 i > Len(k) + 1 => StorageKey(k, s)[i] # Colon
  <1>1. s \in Bytes /\ \A i \in 1..Len(s) : s[i] # Colon
    <2>1. s \in Bytes BY SeqMonotonic DEF Bytes
    <2>2. \A i \in 1..Len(s) : s[i] \in Nat \ {Colon} BY ElementOfSeq
    <2>3. QED BY <2>1, <2>2
  <1>2. StorageKey(k, s) = Prefix(k) \o s BY DEF StorageKey, Prefix
  <1>3. /\ Prefix(k) \o s \in Bytes
        /\ Len(Prefix(k) \o s) = Len(Prefix(k)) + Len(s)
        /\ \A i \in 1..(Len(Prefix(k)) + Len(s)) :
              (Prefix(k) \o s)[i] = IF i <= Len(Prefix(k)) THEN Prefix(k)[i]
                                    ELSE s[i - Len(Prefix(k))]
    BY <1>1, PrefixBytes, ConcatProperties DEF Bytes
  <1>4. Len(k) \in Nat /\ Len(s) \in Nat /\ Len(Prefix(k)) = Len(k) + 1
    BY <1>1, BytesAre, PrefixBytes
  <1>5. \A i \in 1..(Len(k) + 1) : (Prefix(k) \o s)[i] = Prefix(k)[i]
    BY <1>3, <1>4
  <1>6. ASSUME NEW i \in 1..(Len(k) + 1 + Len(s)), i > Len(k) + 1
        PROVE  (Prefix(k) \o s)[i] # Colon
    <2>1. i - Len(Prefix(k)) \in 1..Len(s) /\ ~(i <= Len(Prefix(k))) BY <1>4, <1>6
    <2>2. (Prefix(k) \o s)[i] = s[i - Len(Prefix(k))] BY <1>3, <1>4, <2>1
    <2>3. QED BY <1>1, <2>1, <2>2
  <1>7. QED BY <1>2, <1>3, <1>4, <1>5, <1>6, PrefixBytes

\* The key id ends at the last colon: a storage key is that of one session of
\* one key id, also when key ids have colons.
THEOREM StorageKeyInjective ==
    ASSUME NEW k \in Seq(Nat), NEW s \in Seq(Nat \ {Colon}),
           NEW l \in Seq(Nat), NEW t \in Seq(Nat \ {Colon}),
           StorageKey(k, s) = StorageKey(l, t)
    PROVE  k = l /\ s = t
  <1> DEFINE x == StorageKey(k, s)
  <1>1. k \in Bytes /\ l \in Bytes /\ s \in Bytes /\ t \in Bytes
    BY SeqMonotonic DEF Bytes
  <1>2. Len(k) \in Nat /\ Len(l) \in Nat /\ Len(s) \in Nat /\ Len(t) \in Nat
    BY <1>1, BytesAre
  <1>3. /\ Len(x) = Len(k) + 1 + Len(s) /\ x[Len(k) + 1] = Colon
        /\ \A i \in 1..Len(k) : x[i] = k[i]
        /\ \A i \in 1..Len(x) : i > Len(k) + 1 => x[i] # Colon
    BY <1>1, StorageKeyBytes
  <1>4. x = StorageKey(l, t) OBVIOUS
  <1> HIDE DEF x
  <1>5. /\ Len(x) = Len(l) + 1 + Len(t) /\ x[Len(l) + 1] = Colon
        /\ \A i \in 1..Len(l) : x[i] = l[i]
        /\ \A i \in 1..Len(x) : i > Len(l) + 1 => x[i] # Colon
    BY <1>1, <1>4, StorageKeyBytes
  <1>6. ~(Len(k) < Len(l))
    <2>1. Len(k) < Len(l) => Len(l) + 1 \in 1..Len(x) /\ Len(l) + 1 > Len(k) + 1
      BY <1>2, <1>5
    <2>2. QED BY <2>1, <1>3, <1>5
  <1>7. ~(Len(l) < Len(k))
    <2>1. Len(l) < Len(k) => Len(k) + 1 \in 1..Len(x) /\ Len(k) + 1 > Len(l) + 1
      BY <1>2, <1>3
    <2>2. QED BY <2>1, <1>3, <1>5
  <1>8. Len(k) = Len(l) BY <1>2, <1>6, <1>7
  <1>9. k = l BY <1>1, <1>3, <1>5, <1>8, SameBytes
  <1>10. s = t
    <2>1. Prefix(k) \o s = Prefix(k) \o t BY <1>4, <1>9 DEF StorageKey, Prefix, x
    <2>2. Prefix(k) \in Bytes BY <1>1, PrefixBytes
    <2>3. QED BY <1>1, <2>1, <2>2, ConcatSimplifications DEF Bytes
  <1>11. QED BY <1>9, <1>10

\* The records a scan for key id k finds: those of k, and those of the key ids
\* that begin with k and a colon.
THEOREM StorageKeyPrefix ==
    ASSUME NEW k \in Seq(Nat), NEW l \in Seq(Nat), NEW s \in Seq(Nat \ {Colon})
    PROVE  HasPrefix(StorageKey(l, s), Prefix(k)) <=> l = k \/ HasPrefix(l, Prefix(k))
  <1> DEFINE x == StorageKey(l, s)
             p == Prefix(k)
  <1>1. k \in Bytes /\ l \in Bytes /\ s \in Bytes BY SeqMonotonic DEF Bytes
  <1>2. Len(k) \in Nat /\ Len(l) \in Nat /\ Len(s) \in Nat BY <1>1, BytesAre
  <1>3. /\ x \in Bytes /\ Len(x) = Len(l) + 1 + Len(s) /\ x[Len(l) + 1] = Colon
        /\ \A i \in 1..Len(l) : x[i] = l[i]
        /\ \A i \in 1..Len(x) : i > Len(l) + 1 => x[i] # Colon
    BY <1>1, StorageKeyBytes
  <1>4. /\ p \in Bytes /\ Len(p) = Len(k) + 1 /\ p[Len(k) + 1] = Colon
        /\ \A i \in 1..Len(k) : p[i] = k[i]
    BY <1>1, PrefixBytes
  <1> HIDE DEF x, p
  <1>5. HasPrefix(x, p) <=> Len(p) <= Len(x) /\ \A i \in 1..Len(p) : x[i] = p[i]
    BY <1>3, <1>4, PrefixIs
  <1>6. HasPrefix(l, p) <=> Len(p) <= Len(l) /\ \A i \in 1..Len(p) : l[i] = p[i]
    BY <1>1, <1>4, PrefixIs
  <1>7. CASE Len(k) + 1 <= Len(l)
    <2>1. Len(p) <= Len(x) /\ Len(p) <= Len(l) /\ l # k BY <1>2, <1>3, <1>4, <1>7
    <2>2. \A i \in 1..Len(p) : x[i] = l[i] BY <1>2, <1>3, <1>4, <1>7
    <2>3. QED BY <1>5, <1>6, <2>1, <2>2 DEF x, p
  <1>8. CASE Len(k) = Len(l)
    <2>1. ~HasPrefix(l, p) BY <1>2, <1>4, <1>6, <1>8
    <2>2. HasPrefix(x, p) <=> \A i \in 1..Len(k) : l[i] = k[i]
      <3>1. Len(p) <= Len(x) BY <1>2, <1>3, <1>4, <1>8
      <3>2. \A n \in Nat : \A i \in 1..(n + 1) : i = n + 1 \/ i \in 1..n OBVIOUS
      <3>3. \A i \in 1..Len(k) : i \in 1..Len(p) BY <1>2, <1>4
      <3>4. x[Len(k) + 1] = p[Len(k) + 1] BY <1>3, <1>4, <1>8
      <3>5. QED BY <1>2, <1>3, <1>4, <1>5, <1>8, <3>1, <3>2, <3>3, <3>4
    <2>3. QED BY <1>1, <1>8, <2>1, <2>2, SameBytes DEF x, p
  <1>9. CASE Len(l) < Len(k)
    <2>1. ~HasPrefix(l, p) /\ l # k BY <1>2, <1>4, <1>6, <1>9
    <2>2. ~HasPrefix(x, p)
      <3> SUFFICES ASSUME HasPrefix(x, p) PROVE FALSE OBVIOUS
      <3>1. Len(p) \in Nat /\ Len(x) \in Nat /\ Len(p) <= Len(x) BY <1>2, <1>3, <1>4, <1>5
      <3>2. Len(k) + 1 \in 1..Len(x) /\ Len(k) + 1 > Len(l) + 1 BY <3>1, <1>2, <1>4, <1>9
      <3>3. x[Len(k) + 1] # Colon BY <3>2, <1>3
      <3>4. Len(k) + 1 \in 1..Len(p) BY <1>2, <1>4
      <3>5. x[Len(k) + 1] = Colon BY <3>4, <1>4, <1>5
      <3>6. QED BY <3>3, <3>5
    <2>3. QED BY <2>1, <2>2 DEF x, p
  <1>10. QED BY <1>2, <1>7, <1>8, <1>9
=============================================================================
