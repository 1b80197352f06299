------------------------------- MODULE MCIde -------------------------------
(* An IDE channel with one or two disks and short requests. *)
EXTENDS Ide
=============================================================================
