---------------------------- MODULE MCLifecycle ----------------------------
(* Instances of Lifecycle for TLC. *)
EXTENDS Lifecycle, TLC

CONSTANTS a, b, t1, t2, mon, rc

OneFamily == (a :> a) @@ (b :> a)          \* b is a snapshot of a
Alone == (a :> a)
Apart == (a :> a) @@ (b :> b)
Goroutines == Permutations({t1, t2})
=============================================================================
