------------------------------ MODULE MCKeySign ------------------------------
(* Instances of KeySign.tla for TLC. *)
EXTENDS KeySignInv, TLC

CONSTANTS p1, p2, p3

\* The parties other than the coordinator p1 are interchangeable, when all or
\* none of them hold a share.
OtherParties == Permutations(Party \ {p1})
=============================================================================
