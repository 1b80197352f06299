------------------------------- MODULE MCHeap -------------------------------
(* Pages of 16 cells with blocks of 3 and of 6 cells. *)
EXTENDS Heap

MCBlockSize == <<3, 6>>
=============================================================================
