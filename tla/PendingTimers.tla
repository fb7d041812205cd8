--------------------------- MODULE PendingTimers ---------------------------
(***************************************************************************)
(* What device/timer.c promises: a set of pending timers, each with a      *)
(* deadline and a datum.  At every tick the timers then due fire, each of  *)
(* them once, earlier deadlines before later ones, and none is still due   *)
(* when the clock moves on.                                                *)
(***************************************************************************)
EXTENDS Naturals

CONSTANTS Timers,     \* the timers there is memory for
          Deadlines,  \* the times of the clock
          Data,       \* what a timer delivers
          TICK,       \* ms between two timer interrupts
          None        \* no datum

VARIABLES pending,  \* function from pending timers to deadline and datum
          now,      \* ms since the clock was started
          fired     \* the datum the last step delivered, None if it did not

vars == <<pending, now, fired>>

Due == {t \in DOMAIN pending : pending[t].deadline <= now}

Init == /\ pending = << >>
        /\ now = 0
        /\ fired = None

Set(t, deadline, d) ==
  /\ t \notin DOMAIN pending
  /\ deadline > now
  /\ pending' = [u \in DOMAIN pending \cup {t} |->
                   IF u = t THEN [deadline |-> deadline, data |-> d]
                            ELSE pending[u]]
  /\ fired' = None
  /\ UNCHANGED now

Tick == /\ Due = {}
        /\ now' = now + TICK
        /\ fired' = None
        /\ UNCHANGED pending

Fire(t) ==
  /\ t \in Due
  /\ \A u \in Due : pending[t].deadline <= pending[u].deadline
  /\ pending' = [u \in DOMAIN pending \ {t} |-> pending[u]]
  /\ fired' = pending[t].data
  /\ UNCHANGED now

(* A call rejected, or the end of a handler. *)
Nothing == fired' = None /\ UNCHANGED <<pending, now>>

Next ==
  \/ \E t \in Timers, deadline \in Deadlines, d \in Data : Set(t, deadline, d)
  \/ Tick
  \/ \E t \in Timers : Fire(t)
  \/ Nothing

Spec == Init /\ [][Next]_vars
=============================================================================
