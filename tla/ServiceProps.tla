----------------------------- MODULE ServiceProps -----------------------------
(***************************************************************************)
(* What clients and the chain may rely on, as properties of Service.tla.   *)
(***************************************************************************)
EXTENDS Service

\* A party's key is READY only if all parties of the request were validators
\* together at some time since the call, although every party asks its own
\* node, at its own time, and the set changes in between.
GeneratedByMembers ==
    Holders # {} => \E set \in seen : \A p \in Party : IsValidator(set, p)

\* A signature is answered only when the chain has one already, or for the
\* key and, letter case aside, the message the chain has a proposal for.
SignsAgreedMessage ==
    signPhase = "ok" =>
        info.signed \/ (info.key = Key /\ SameFold(info.msg, signMsg))

\* handleKeySign closes p2pProcessMsgChan only when no session stream holds
\* a message it would send on it: as long as no deadline, error of tss-lib,
\* broken connection or crash ends a signer in the middle of a round.
NoSendOnClosed ==
    \A p \in Party : signHandler[p] = "closing" => ~Sign!Pending(p)

\* While servers stay up, a call of KeyGen gives a key unless the chain had a
\* set without one of the parties since: no message of a round meets a peer
\* that is not listening, no goroutine waits forever.
KeyGenCompletes ==
    phase[S] = "collect" ~>
        \/ phase[S] = "ok"
        \/ \E set \in seen : ~KeyGenValidate(set)

\* The proposal is there and no party has been asked yet.
Agreed ==
    /\ KeySignValidate(info, Key, signMsg)
    /\ \A p \in Party : signHandler[p] = "none"

\* A call of KeySign then gives a signature, whichever parties are chosen and
\* whether or not the canceller gets to the others.
SignCompletes == signPhase = "collect" /\ Agreed ~> signPhase = "ok"
=============================================================================
