------------------------------ MODULE MCFifo32 ------------------------------
(***************************************************************************)
(* A buffer of three slots over two distinguishable items: every position  *)
(* of the two indices, the rest position included, meets every fill level. *)
(***************************************************************************)
EXTENDS Fifo32
=============================================================================
