------------------------------ MODULE KeyStore ------------------------------
(***************************************************************************)
(* The key records a server keeps (tss_manager.go over tss_storage.go).    *)
(* A record is stored under keyId:keySessionId, so a server holds at most  *)
(* one record per session; the session id is a fresh uuid, so a session    *)
(* belongs to one key id.  What the manager tells apart is the record's    *)
(* status; the public key and the save data are those of the session, and  *)
(* are present exactly when the status is READY, so they are left out.     *)
(*                                                                         *)
(* Every operation below runs under Manager.lock and writes with SetSync:  *)
(* each is one atomic, durable step.                                       *)
(***************************************************************************)
CONSTANTS
    Party,    \* the servers, each known by its p2p peer id
    Session,  \* the session ids: one per call of KeyGen
    KeyId,    \* the key ids clients ask for
    KeyOf     \* the key id of each session's request

ASSUME KeyOfAssumption == KeyOf \in [Session -> KeyId]

VARIABLE status   \* status[p][s]: the record of session s in p's storage

KeyStatus == {"none", "pending", "ready", "error"}

\* A record that makes checkAndSetKeyGenStorage refuse a new session.
Live(p, s) == status[p][s] \in {"pending", "ready"}

\* GetKeyDataListByKeyId: the sessions p holds a record of for key id k.
KeyDataList(p, k) == {s \in Session : KeyOf[s] = k /\ status[p][s] # "none"}

\* A faulty check that forgets the sessions still generating.
KeyTakenIfReady(p, s) ==
    \E t \in KeyDataList(p, KeyOf[s]) : status[p][t] = "ready"

\* "key already exist" or "key is generating, please do not repeat".
KeyTaken(p, s) == \E t \in KeyDataList(p, KeyOf[s]) : Live(p, t)

\* SetKeyData of p's record of session s, with status st.
SetKeyData(p, s, st) == status' = [status EXCEPT ![p][s] = st]

\* checkAndSetKeyGenStorage when it accepts; it refuses when KeyTaken holds.
CheckAndSetKeyGen(p, s) ==
    /\ ~KeyTaken(p, s)
    /\ SetKeyData(p, s, "pending")

\* A faulty compare-and-set that sets the status whatever it was.
SetKeyStatus(p, s, expect, update) == SetKeyData(p, s, update)

\* compareAndSetKeyStatusStorage: an error, and no change, unless the record
\* exists and has the expected status.
CompareAndSetKeyStatus(p, s, expect, update) ==
    SetKeyData(p, s, IF status[p][s] = expect THEN update ELSE status[p][s])
=============================================================================
