---------------------------- MODULE MCTimerList ----------------------------
(***************************************************************************)
(* The timers in a pool of four slots, ticks of 2 ms, and words of 4 bits. *)
(* The callers' times include 0, odd ones (deadlines between ticks), equal *)
(* deadlines from different calls, and one no clock value can take.        *)
(***************************************************************************)
EXTENDS TimerList
=============================================================================
