-------------------------------- MODULE MCFs --------------------------------
(* Two names, a root and a few inodes. *)
EXTENDS Fs, TLC

Symmetry == Permutations(Names)
=============================================================================
