------------------------------- MODULE MCDir --------------------------------
(* Three slots to a sector and two direct blocks. *)
EXTENDS Dir
=============================================================================
