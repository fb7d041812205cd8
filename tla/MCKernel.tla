------------------------------ MODULE MCKernel ------------------------------
(***************************************************************************)
(* The kernel with the four tasks it has, on three levels, and a buffer of *)
(* three slots instead of 4096.                                            *)
(***************************************************************************)
EXTENDS Kernel
=============================================================================
