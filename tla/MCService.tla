------------------------------ MODULE MCService ------------------------------
(* Instances of Service.tla for TLC. *)
EXTENDS ServiceInv, TLC

CONSTANTS p1, p2, p3, s1

\* Monikers and messages that differ in their case, and others.
Monikers == p1 :> "Val1" @@ p2 :> "Val2" @@ p3 :> "Val3"
Lowered  == ("Val1" :> "val1" @@ "Val2" :> "val2" @@ "Val3" :> "val3"
             @@ "val1" :> "val1" @@ "val2" :> "val2" @@ "val3" :> "val3"
             @@ "ab" :> "ab" @@ "AB" :> "ab" @@ "cd" :> "cd")

\* All parties, and two of them.
Sets == {{"val1", "val2", "val3"}, {"val1", "Val2"}}

\* What the client asks to sign, and what the chain proposes.
Messages == {"ab", "cd"}
Proposed == {[key |-> k, msg |-> "AB", signed |-> FALSE] : k \in {"k1", "k2"}}
=============================================================================
