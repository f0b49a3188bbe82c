------------------------------ MODULE MCKeyGen ------------------------------
(* Instances of KeyGen.tla for TLC: requests for one key id, to all parties *)
(* unless said otherwise.                                                   *)
EXTENDS KeyGenInv, TLC

CONSTANTS p1, p2, p3, s1, s2, k1

OneKey     == [s \in Session |-> k1]
AllParties == [s \in Session |-> Party]

\* All calls at one server, or two sessions called at two servers.
CoordFirst == [s \in Session |-> p1]
CoordEach  == s1 :> p1 @@ s2 :> p2

\* The parties other than the coordinator are interchangeable.
OtherParties == Permutations(Party \ {p1})
=============================================================================
