------------------------------ MODULE MCMemory ------------------------------
(* A handful of pages and frames. *)
EXTENDS Memory, TLC

Symmetry == Permutations(KThreads) \union Permutations(Procs)
=============================================================================
