------------------------------ MODULE MCSampling ------------------------------
(* Small instances of Sampling.  Which thread ids are used does not matter. *)
EXTENDS Sampling, TLC

Symmetry == Permutations(Tids)
==============================================================================
