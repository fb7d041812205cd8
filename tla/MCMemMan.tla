------------------------------ MODULE MCMemMan ------------------------------
(***************************************************************************)
(* The memory manager on eight units of memory, two to the page, with a    *)
(* list of two entries instead of 32568: it is full as soon as two blocks  *)
(* with held neighbours are free.                                          *)
(***************************************************************************)
EXTENDS MemMan
=============================================================================
