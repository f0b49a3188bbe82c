----------------------------- MODULE KeyRegistry -----------------------------
(***************************************************************************)
(* What key generation promises, stated over the servers' records alone:   *)
(* a registry in which publishing a key looks at every server at once.     *)
(* The code has no such global step; KeyGen.tla shows that its protocol    *)
(* of messages, timeouts and crashes implements this module.               *)
(***************************************************************************)
EXTENDS KeyStore

CONSTANT Parties   \* the servers of each session (KeyGenRequest.AllPartyId)

\* Sessions s and t compete for a key id at servers p of s and q of t when
\* each of the two servers takes part in both.
Rivals(p, s, q, t) ==
    /\ s # t
    /\ KeyOf[s] = KeyOf[t]
    /\ {p, q} \subseteq Parties[s] \cap Parties[t]

Init == status = [p \in Party |-> [s \in Session |-> "none"]]

\* A server accepts a session for a key id it does not have and is not
\* generating.
Accept(p, s) ==
    /\ p \in Parties[s]
    /\ CheckAndSetKeyGen(p, s)

\* A server's key becomes READY: only when every party of the session has
\* accepted it, and no rival session is READY at any of them.
Publish(p, s) ==
    /\ status[p][s] = "pending"
    /\ \A q \in Parties[s] : status[q][s] # "none"
    /\ \A q \in Party, t \in Session :
          Rivals(p, s, q, t) => status[q][t] # "ready"
    /\ SetKeyData(p, s, "ready")

\* A server gives a session up: its record becomes ERROR for good.
Abandon(p, s) ==
    /\ status[p][s] = "pending"
    /\ SetKeyData(p, s, "error")

Next == \E p \in Party, s \in Session :
            Accept(p, s) \/ Publish(p, s) \/ Abandon(p, s)

Spec == Init /\ [][Next]_status
=============================================================================
