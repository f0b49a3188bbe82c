------------------------------ MODULE Validator ------------------------------
(***************************************************************************)
(* The checks a party makes before it takes part in a session              *)
(* (validator/keygen.go, keysign.go, validator.go): it asks its own node   *)
(* of the Themis chain, over REST, for the current set of validators or    *)
(* for the proposal of a signature.                                        *)
(***************************************************************************)
CONSTANTS
    Party,    \* the parties of the request
    Moniker,  \* the moniker each has in the request
    Fold      \* Fold[x]: the name or message x with its letters lowered

\* strings.ToLower of both sides, and bytes.EqualFold.
SameFold(x, y) == Fold[x] = Fold[y]

\* ResultSignInfo of a sign id the chain has no proposal for.  The status of
\* the answer is not looked at: a body without "result" decodes to this too.
NoProposal == [key |-> "", msg |-> "", signed |-> FALSE]

\* Whether the set of validators mpcSet (their monikers) has party p.
IsValidator(mpcSet, p) == \E n \in mpcSet : SameFold(n, Moniker[p])

\* A faulty check that is content with one validator among the parties.
SomeValidator(mpcSet) == \E p \in Party : IsValidator(mpcSet, p)

\* KeyGenValidate: each party of the request is a validator.
KeyGenValidate(mpcSet) == \A p \in Party : IsValidator(mpcSet, p)

\* A faulty check that leaves the message out.
KeyIdMatches(info, key, msg) == info.signed \/ info.key = key

\* KeySignValidate, for the proposal info of the sign id.  One that has its
\* signature is accepted before its key and message are compared (and the
\* signature that is returned is dropped by handleKeySign0).
KeySignValidate(info, key, msg) ==
    info.signed \/ (info.key = key /\ SameFold(info.msg, msg))
=============================================================================
