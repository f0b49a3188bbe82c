----------------------------- MODULE MCLifecycle -----------------------------
(* Instances of Lifecycle.tla for TLC. *)
EXTENDS LifecycleInv, TLC

CONSTANTS self, b1, b2, c1

\* Three key ids: "a", "ab" and "a:b".
a   == <<97>>
ab  == <<97, 98>>
a_b == <<97, 58, 98>>
Ids == {a, ab, a_b}

\* The sessions "1", "2" and "3", and the key ids of their requests.
Sessions == {<<49>>, <<50>>, <<51>>}
IdOf     == <<49>> :> a @@ <<50>> :> ab @@ <<51>> :> a_b
Times    == {1, 2}
=============================================================================
