-------------------------------- MODULE MCMouse --------------------------------
(***************************************************************************)
(* A buffer of three slots; packets whose motion is negative, extreme,     *)
(* equal to an acknowledgement (-6), or like the first byte of a packet    *)
(* (12), one that overflowed, and calm ones; a key whose code also looks   *)
(* like a first byte.                                                      *)
(***************************************************************************)
EXTENDS Mouse

P(button, dx, dy, overflow) ==
  [button |-> button, dx |-> dx, dy |-> dy, overflow |-> overflow]

MCPackets == { P(1, 3, -6, FALSE), P(4, 12, -256, FALSE), P(2, 12, 255, TRUE) }
MCKeys == {12}
================================================================================
