-------------------------- MODULE MCFreeBlockQueue --------------------------
(* Four blocks: a batch of two or three with others on both sides of it.     *)
EXTENDS FreeBlockQueue
=============================================================================
