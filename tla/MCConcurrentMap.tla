--------------------------- MODULE MCConcurrentMap ---------------------------
(* A small map: two keys share a home at the end of the cells, so that      *)
(* chains wrap, and the third has its home in the middle of their chain.    *)
EXTENDS ConcurrentMap, TLC

CONSTANTS k1, k2, k3, k4

MCKeys == {k1, k2, k3, k4}
MCHash == k1 :> 3 @@ k2 :> 7 @@ k3 :> 4 @@ k4 :> 2

Symmetry == Permutations(Values)
==============================================================================
