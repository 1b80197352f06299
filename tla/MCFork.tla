------------------------------- MODULE MCFork -------------------------------
(* Two pages and two values are enough to tell a copy from the original. *)
EXTENDS Fork
=============================================================================
