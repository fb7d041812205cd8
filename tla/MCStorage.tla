----------------------------- MODULE MCStorage -----------------------------
(***************************************************************************)
(* Two buses of two places each, which may hold nothing, a device of two   *)
(* functions, the second a controller, or a bridge that answers for        *)
(* functions it does not have.  The first drive's port has two slots, and  *)
(* up to three pages of memory are free.                                   *)
(***************************************************************************)
EXTENDS Storage

Kind(fs, echoes, c0, c1) ==
  [functions |-> fs, multi |-> fs = {0, 1}, echoes |-> echoes,
   class |-> [f \in 0 .. 1 |-> IF f = 0 THEN c0 ELSE c1]]

MCKinds == {Kind({}, FALSE, "other", "other"),
            Kind({0, 1}, FALSE, "other", "ahci"),
            Kind({0}, TRUE, "bridge", "other")}
=============================================================================
