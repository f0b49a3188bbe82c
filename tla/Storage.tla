------------------------------- MODULE Storage -------------------------------
(***************************************************************************)
(* One server's records as they lie in LevelDB (tss_storage.go): a map     *)
(* from byte strings to records that is scanned in byte order, and the     *)
(* manager's operations over it (tss_manager.go).  KeyStore.tla has the    *)
(* same records without the map.  Each operation below runs under          *)
(* Manager.lock and writes with SetSync: it is one atomic, durable step.   *)
(***************************************************************************)
EXTENDS Naturals, Sequences

CONSTANTS
    KeyId,    \* the key ids clients ask for: byte strings
    Session,  \* the session ids: byte strings without a colon (uuids)
    KeyOf,    \* the key id of each session
    Time      \* the values of CreatedTime

Colon == 58

ASSUME KeyAssumption     == KeyId \subseteq Seq(Nat) /\ KeyOf \in [Session -> KeyId]
ASSUME SessionAssumption == Session \subseteq Seq(Nat \ {Colon}) /\ Time \subseteq Nat

VARIABLE db   \* the map: from storage keys to records

Record == [key : KeyId, session : Session, created : Time,
           status : {"pending", "ready", "error"}]

\* The key of a record, and what the keys of a key id's records begin with.
StorageKey(k, s) == k \o <<Colon>> \o s

\* A faulty prefix without the separator.
BarePrefix(k) == k

Prefix(k) == k \o <<Colon>>

HasPrefix(x, p) == Len(p) <= Len(x) /\ SubSeq(x, 1, Len(p)) = p

\* The order of the keys in LevelDB, that of their bytes.
Before(x, y) ==
    \/ HasPrefix(y, x) /\ x # y
    \/ \E i \in 1..Len(x) : /\ i <= Len(y) /\ x[i] < y[i]
                            /\ SubSeq(x, 1, i - 1) = SubSeq(y, 1, i - 1)

\* The keys an iterator from p meets before the first without the prefix p.
Scan(p) ==
    LET From == {x \in DOMAIN db : ~Before(x, p)}
    IN {x \in From : \A y \in From : HasPrefix(y, p) \/ Before(x, y)}

GetKeyDataListByKeyId(k) == {db[x] : x \in Scan(Prefix(k))}

SetKeyData(d) ==
    db' = [x \in DOMAIN db \cup {StorageKey(d.key, d.session)} |->
             IF x = StorageKey(d.key, d.session) THEN d ELSE db[x]]

-----------------------------------------------------------------------------
(* The manager's operations.                                               *)

\* "key already exist" or "key is generating, please do not repeat".
KeyTaken(k) == \E d \in GetKeyDataListByKeyId(k) : d.status \in {"ready", "pending"}

\* checkAndSetKeyGenStorage when it accepts.
CheckAndSetKeyGen(s, t) ==
    /\ ~KeyTaken(KeyOf[s])
    /\ SetKeyData([key |-> KeyOf[s], session |-> s, created |-> t, status |-> "pending"])

\* A faulty update that writes the record without reading it first.
WriteStatus(s, expect, update) ==
    \E t \in Time :
        SetKeyData([key |-> KeyOf[s], session |-> s, created |-> t, status |-> update])

\* compareAndSetKeyStatusStorage: an error, and no change, unless the record
\* exists and has the expected status.
CompareAndSetKeyStatus(s, expect, update) ==
    LET x == StorageKey(KeyOf[s], s)
    IN IF x \in DOMAIN db /\ db[x].status = expect
       THEN SetKeyData([db[x] EXCEPT !.status = update])
       ELSE UNCHANGED db

\* A faulty look-up that takes any record of the key id.
LatestOfAny(k) ==
    LET Newer(x, y) == db[x].created > db[y].created
    IN {db[x] : x \in {x \in Scan(Prefix(k)) : \A y \in Scan(Prefix(k)) : ~Newer(y, x)}}

\* getLatestReadyKeyDataByKeyIdFromStorage: of the READY records the one
\* created last, the first in the scan if there are several.
LatestReady(k) ==
    LET Ready == {x \in Scan(Prefix(k)) : db[x].status = "ready"}
        Newer(x, y) == \/ db[x].created > db[y].created
                       \/ db[x].created = db[y].created /\ Before(x, y)
    IN {db[x] : x \in {x \in Ready : \A y \in Ready \ {x} : Newer(x, y)}}
=============================================================================
