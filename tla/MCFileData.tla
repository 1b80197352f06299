----------------------------- MODULE MCFileData -----------------------------
(* Blocks of two bytes, one of them direct and three indirect. *)
EXTENDS FileData
=============================================================================
