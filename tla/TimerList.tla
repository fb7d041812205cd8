----------------------------- MODULE TimerList -----------------------------
(***************************************************************************)
(* The timers of device/timer.c: a pool of slots, and a list of the        *)
(* pending ones linked through next_timer in the order of their deadlines. *)
(* The list ends in a sentinel, slot 0, whose deadline init_timer sets far *)
(* ahead.  Times are unsigned words, MAX_TIME the largest.                 *)
(*                                                                         *)
(* add_timer runs with interrupts off and is one step.  The handler of the *)
(* timer interrupt is one step per pass of its loop, so that its callers   *)
(* in module Kernel can put what a timer delivers as the loop goes; no     *)
(* add_timer comes in between.                                             *)
(***************************************************************************)
EXTENDS Integers

CONSTANTS TIMER_SIZE,   \* slots in the pool
          MAX_TIME,     \* 0xffffffff
          ASSERT_LIMIT, \* 0xffffff00
          SENTINEL,     \* 0x12345678
          TICK,         \* 10
          Times,        \* what callers pass as time
          Data,         \* what callers pass as data
          SWITCH,       \* TASK_SWITCH_TIMER_DATA
          Garbage,      \* the datum of a slot never used
          Horizon       \* bound: deadlines at or below, the clock too

ASSUME WordsAssumption ==
  /\ TIMER_SIZE \in Nat \ {0}
  /\ {MAX_TIME, ASSERT_LIMIT, SENTINEL, TICK, Horizon} \subseteq Nat
  /\ 0 < SENTINEL /\ SENTINEL < ASSERT_LIMIT /\ ASSERT_LIMIT < MAX_TIME
  /\ Horizon <= MAX_TIME
  /\ Times \subseteq 0 .. MAX_TIME

Slots == 0 .. TIMER_SIZE - 1
Sentinel == 0
NULL == -1

Ok == 0
TIMER_SIZE_FULL == -1
TIMER_INVALID_ARG == -2

VARIABLES using,         \* timers[i].using_flag
          target,        \* timers[i].target_time
          data,          \* timers[i].data
          next,          \* timers[i].next_timer
          timer0,        \* the first timer of the list
          current_time,
          handling,      \* the handler is in its loop
          switch_flag,   \* task_switch_flag of the handler
          fired,         \* the datum the last step delivered, Garbage if none
          ret,           \* what the last add_timer returned
          leaked,        \* slots whose using_flag was set in raw memory
          fault          \* "none", or what stopped the program

timerctl == <<using, target, data, next, timer0>>
vars == <<using, target, data, next, timer0, current_time, handling,
          switch_flag, fired, ret, leaked, fault>>

-----------------------------------------------------------------------------
(* The k-th timer of the list, from 0; NULL past the end. *)
Nth == LET nth[k \in 0 .. TIMER_SIZE] ==
             IF k = 0 THEN timer0
             ELSE IF nth[k - 1] = NULL THEN NULL ELSE next[nth[k - 1]]
       IN  nth

Chain == {Nth[k] : k \in 0 .. TIMER_SIZE} \ {NULL}

Sum(a, b) == (a + b) % (MAX_TIME + 1)

(* Mutant: a time that carries the clock past the last word is let in. *)
PositiveTime(time) == time > 0

ValidTime(time) == time > 0 /\ time < MAX_TIME - current_time

(* Mutant: the search of the pool goes one slot too far. *)
AvailableOrNext == {s \in 0 .. TIMER_SIZE : s = TIMER_SIZE \/ ~ using[s]}

Available == {s \in Slots : ~ using[s]}

FirstAvailable == CHOOSE s \in Available : \A u \in Available : s <= u

(* Mutants: the walk ends at the first timer; it passes the first one that *)
(* is due later.                                                           *)
StopsAtOnce(k, deadline) == TRUE

StopsLate(k, deadline) ==
  next[Nth[k]] = NULL \/ target[Nth[k]] >= deadline

(* Does the walk stop at the k-th timer?  It does at the last, the read of *)
(* whose successor FallsOff is about.                                      *)
StopsAt(k, deadline) ==
  next[Nth[k]] = NULL \/ target[next[Nth[k]]] >= deadline

(* The timer after which add_timer's walk inserts. *)
Predecessor(deadline) ==
  LET k == CHOOSE k \in 0 .. TIMER_SIZE - 1 :
             /\ StopsAt(k, deadline)
             /\ \A j \in 0 .. k - 1 : ~ StopsAt(j, deadline)
  IN  Nth[k]

Insert(s, deadline, d) ==
  /\ using' = [using EXCEPT ![s] = TRUE]
  /\ target' = [target EXCEPT ![s] = deadline]
  /\ data' = [data EXCEPT ![s] = d]
  /\ IF target[timer0] > deadline
     THEN next' = [next EXCEPT ![s] = timer0] /\ timer0' = s
     ELSE LET p == Predecessor(deadline)
          IN  /\ next' = [next EXCEPT ![s] = next[p], ![p] = s]
              /\ UNCHANGED timer0

(* Does the walk to the place of this deadline run off the list? *)
FallsOff(deadline) ==
  target[timer0] <= deadline /\ next[Predecessor(deadline)] = NULL

add_timer(time, d) ==
  LET deadline == Sum(time, current_time)
  IN  /\ IF ~ ValidTime(time)
         THEN ret' = TIMER_INVALID_ARG /\ UNCHANGED <<timerctl, fault>>
         ELSE IF Available = {}
         THEN ret' = TIMER_SIZE_FULL /\ UNCHANGED <<timerctl, fault>>
         ELSE IF FallsOff(deadline)
         THEN fault' = "null_timer" /\ UNCHANGED <<timerctl, ret>>
         ELSE /\ Insert(FirstAvailable, deadline, d)
              /\ ret' = Ok
              /\ UNCHANGED fault
      /\ fired' = Garbage
      /\ UNCHANGED <<current_time, handling, switch_flag, leaked>>

(* The handler up to its loop. *)
Tick ==
  /\ ~ handling
  /\ current_time' = current_time + TICK
  /\ IF current_time' < ASSERT_LIMIT
     THEN handling' = TRUE /\ UNCHANGED fault
     ELSE fault' = "assert" /\ UNCHANGED handling
  /\ switch_flag' = FALSE
  /\ fired' = Garbage
  /\ UNCHANGED <<timerctl, ret, leaked>>

(* Mutant: a timer due right now waits for the next tick. *)
HeadLate == current_time > target[timer0]

HeadDue == current_time >= target[timer0]

(* Mutant: the slot of an expired timer stays marked. *)
StaysMarked == UNCHANGED using

Release == using' = [using EXCEPT ![timer0] = FALSE]

(* One pass of the loop: the first timer fires and leaves the list. *)
Expire ==
  /\ handling /\ HeadDue
  /\ Release
  /\ fired' = data[timer0]
  /\ switch_flag' = (switch_flag \/ data[timer0] = SWITCH)
  /\ IF next[timer0] = NULL
     THEN fault' = "null_timer" /\ UNCHANGED timer0
     ELSE timer0' = next[timer0] /\ UNCHANGED fault
  /\ UNCHANGED <<target, data, next, current_time, handling, ret, leaked>>

(* The loop ends; task_switch is module Multitask's. *)
HandlerEnd ==
  /\ handling /\ ~ HeadDue
  /\ handling' = FALSE
  /\ fired' = Garbage
  /\ UNCHANGED <<timerctl, current_time, switch_flag, ret, leaked, fault>>

-----------------------------------------------------------------------------
(* init_timer writes slot 0 only: the flags of the others are what raw     *)
(* memory held, and nothing else of them is read before it is written.     *)
init_timer ==
  /\ leaked \in SUBSET (Slots \ {Sentinel})
  /\ using = [s \in Slots |-> s = Sentinel \/ s \in leaked]
  /\ target = [s \in Slots |-> IF s = Sentinel THEN SENTINEL ELSE 0]
  /\ data = [s \in Slots |-> Garbage]
  /\ next = [s \in Slots |-> NULL]
  /\ timer0 = Sentinel
  /\ current_time = 0
  /\ handling = FALSE
  /\ switch_flag = FALSE
  /\ fired = Garbage
  /\ ret = Ok
  /\ fault = "none"

\* Callers ask for times within the horizon, or for such as do not fit a word.
WithinHorizon(time) ==
  current_time + time <= Horizon \/ current_time + time >= MAX_TIME

Running == fault = "none"

Next ==
  /\ Running
  /\ \/ \E time \in Times, d \in Data :
           ~ handling /\ WithinHorizon(time) /\ add_timer(time, d)
     \/ current_time + TICK <= Horizon /\ Tick
     \/ Expire
     \/ HandlerEnd

Spec == init_timer /\ [][Next]_vars

(* Timer interrupts keep coming, and a handler runs to its end. *)
FairSpec ==
  /\ Spec
  /\ WF_vars(Running /\ current_time + TICK <= Horizon /\ Tick)
  /\ WF_vars(Running /\ (Expire \/ HandlerEnd))

-----------------------------------------------------------------------------
TypeOK ==
  /\ using \in [Slots -> BOOLEAN]
  /\ target \in [Slots -> 0 .. MAX_TIME]
  /\ data \in [Slots -> Data \cup {Garbage}]
  /\ next \in [Slots -> Slots \cup {NULL}]
  /\ timer0 \in Slots
  /\ current_time \in 0 .. MAX_TIME
  /\ handling \in BOOLEAN /\ switch_flag \in BOOLEAN
  /\ fired \in Data \cup {Garbage}
  /\ ret \in {Ok, TIMER_SIZE_FULL, TIMER_INVALID_ARG}
  /\ leaked \subseteq Slots
  /\ fault \in {"none", "assert", "null_timer"}

(* The list is in the order of deadlines and ends in the sentinel, through *)
(* insertions at its head and inside it and removals from its head.        *)
Sorted ==
  /\ \A k \in 0 .. TIMER_SIZE - 1 :
        LET s == Nth[k]
        IN  s # NULL => IF next[s] = NULL THEN s = Sentinel
                        ELSE target[s] <= target[next[s]]
  /\ Sentinel \in Chain

(* A slot is marked exactly while it is in the list, but for those marked  *)
(* by what raw memory held when init_timer ran: no slot is lost, and none  *)
(* is handed out again while its timer is pending.                         *)
SlotsAccounted == \A s \in Slots : using[s] <=> s \in Chain \cup leaked

(* The program never follows the end of the list.  This needs a horizon    *)
(* below the sentinel's deadline.                                          *)
NoNullTimer == fault # "null_timer"

(* Without such a horizon: the end of the list is followed only by a       *)
(* handler whose clock has reached the sentinel's deadline, or by a call   *)
(* that asks for a deadline at or beyond it.  Whatever the list holds, a   *)
(* walk to an earlier deadline stops before the sentinel.                  *)
PastTheEndOnlyBeyond ==
  [][fault' = "null_timer" =>
       \/ handling /\ current_time >= SENTINEL
       \/ \E time \in Times, d \in Data :
            ~ handling /\ current_time + time >= SENTINEL
                       /\ add_timer(time, d)]_vars

Pending ==
  [s \in Chain \ {Sentinel} |-> [deadline |-> target[s], data |-> data[s]]]

P == INSTANCE PendingTimers
       WITH Timers <- Slots, Deadlines <- 0 .. MAX_TIME, None <- Garbage,
            pending <- Pending, now <- current_time

(* The list implements the set of pending timers: a timer fires at the     *)
(* first tick at or after its deadline, in the order of deadlines, once,   *)
(* and with its own datum, although its slot is reused at once.            *)
ImplementsPending == P!Spec

(* Every timer that the clock can reach fires. *)
EventuallyFires ==
  \A s \in Slots \ {Sentinel} :
     (s \in Chain /\ target[s] <= Horizon - TICK) ~> s \notin Chain
=============================================================================
