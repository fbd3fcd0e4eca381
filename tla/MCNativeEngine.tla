--------------------------- MODULE MCNativeEngine ---------------------------
EXTENDS NativeEngine, TLC

At(a, k) == [target |-> a, key |-> k]

(* p and q share two artifacts and two keys, and change them in opposite orders. *)
Overlapping ==
  [p |-> <<At("a", 1), At("b", 2)>>, q |-> <<At("b", 2), At("a", 1)>>]

(* The same artifacts in opposite orders, under keys of their own. *)
Disjoint == [p |-> <<At("c", 1), At("a", 2), At("b", 3)>>, q |-> <<At("b", 4), At("a", 5)>>]

Symmetry == Permutations(Requests)
=============================================================================
