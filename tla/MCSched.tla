------------------------------ MODULE MCSched ------------------------------
(* The scheduler and the locks on small sets of tasks. *)
EXTENDS Sched
=============================================================================
