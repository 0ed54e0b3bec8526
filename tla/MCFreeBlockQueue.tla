-------------------------- MODULE MCFreeBlockQueue --------------------------
(* The free list on a handful of blocks: every reachable order of the list. *)
EXTENDS FreeBlockQueue
=============================================================================
