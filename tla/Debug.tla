------------------------------- MODULE Debug --------------------------------
(* kernel/debug.c: an ASSERT that fails calls panic_spin, which never      *)
(* returns.                                                                *)
VARIABLE kernel     \* "up", or "panic"

ASSERT(p) == kernel' = IF p THEN "up" ELSE "panic"
=============================================================================
