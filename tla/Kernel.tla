------------------------------- MODULE Kernel -------------------------------
(***************************************************************************)
(* The main task, the interrupt handlers and what they share: the buffer   *)
(* sys_buf, the timers and the scheduler.  Of the buffer this module uses  *)
(* what BoundedQueue says and Fifo32 implements; of the timers, what       *)
(* PendingTimers says and TimerList implements, deadlines left out: a tick *)
(* may find any of the pending timers due.  The scheduler is Multitask.    *)
(*                                                                         *)
(* Interrupt handlers run with interrupts off.  The main loop runs with    *)
(* interrupts off from io_cli until it finds the buffer empty; it then     *)
(* turns them on and calls task_sleep, so that between any two accesses of *)
(* task_sleep to the scheduler's data a handler can change them.  The      *)
(* other tasks (the idle task and the two that MyOSMain creates) share     *)
(* nothing that is modelled here; all they do is to be interrupted.        *)
(***************************************************************************)
EXTENDS Integers, Sequences, FiniteSets

CONSTANTS
  TASK_SIZE, LEVEL_SIZE, Priorities,  \* as in Multitask
  BUF_SIZE,          \* capacity of sys_buf
  FREE_TIMERS        \* slots of the timer pool free when the main loop starts

ASSUME KernelAssumption ==
  /\ TASK_SIZE \in Nat /\ TASK_SIZE >= 4
  /\ LEVEL_SIZE \in Nat /\ LEVEL_SIZE >= 3
  /\ BUF_SIZE \in Nat \ {0} /\ FREE_TIMERS \in Nat \ {0, 1}

VARIABLES flags, level, priority, task_levels, current_level,
          level_change_flag, running, slice, fault

VARIABLES buf,             \* what sys_buf holds, oldest first
          redraw_pending,  \* timers pending with datum REDRAW
          switch_pending,  \* timers pending with TASK_SWITCH_TIMER_DATA
          handling,        \* int_handler20 is in its loop
          switch_flag,     \* its task_switch_flag
          pc,              \* where the main task is
          if_flag,         \* the interrupt flag of the main task
          now_task,        \* locals of task_sleep and of what it calls
          i,
          rejected,        \* REDRAWs that found sys_buf full
          disturbed        \* has an interrupt come while the main task was
                           \* between io_sti and the end of task_sleep?

sched == <<flags, level, priority, task_levels, current_level,
           level_change_flag, running, slice, fault>>
locals == <<now_task, i>>
timers == <<redraw_pending, switch_pending>>
vars == <<sched, buf, timers, handling, switch_flag, pc, if_flag, locals,
          rejected, disturbed>>

MT == INSTANCE Multitask WITH SelfMove <- FALSE

Main == MT!Main

REDRAW == 1         \* the datum of the redraw timer
INPUT == 2          \* a byte of the keyboard or of the mouse, biased

MainLevel == task_levels[level[Main]]

-----------------------------------------------------------------------------
(* Interrupt handlers. *)

(* Mutants: a put wakes no task; it wakes it without level_change_flag. *)
WakesNone == UNCHANGED sched

WakesQuietly ==
  /\ flags' = [flags EXCEPT ![Main] = "ACTIVE"]
  /\ task_levels' = IF flags[Main] = "ACTIVE" THEN task_levels
                    ELSE [task_levels EXCEPT
                            ![level[Main]] = MT!add_task(@, Main)]
  /\ UNCHANGED <<level, priority, current_level, level_change_flag, running,
                 slice, fault>>

\* The end of fifo32_put: sys_buf.task is the main task.
Wake ==
  IF flags[Main] # "ACTIVE"
  THEN MT!run_task(Main, MT!Keep, MT!Keep)
  ELSE UNCHANGED sched

\* fifo32_put(&sys_buf, d)
Put(d) ==
  IF Len(buf) = BUF_SIZE
  THEN /\ rejected' = IF d = REDRAW THEN rejected + 1 ELSE rejected
       /\ UNCHANGED <<buf, sched>>
  ELSE buf' = Append(buf, d) /\ Wake /\ UNCHANGED rejected

\* The main task between io_sti and the end of task_sleep.
SleepPoints == {"sleep", "find", "len", "index", "flags", "shift", "level",
                "flag", "jump"}
InWindow == running = Main /\ pc \in SleepPoints

\* An interrupt comes.
Interrupt ==
  /\ ~ handling
  /\ running = Main => if_flag
  /\ disturbed' = (disturbed \/ InWindow)

\* int_handler21 and int_handler2c.
InputInterrupt ==
  /\ Interrupt
  /\ Put(INPUT)
  /\ UNCHANGED <<timers, handling, switch_flag, pc, if_flag, locals>>

\* int_handler20 up to its loop.
Tick ==
  /\ Interrupt
  /\ handling' = TRUE
  /\ switch_flag' = FALSE
  /\ UNCHANGED <<sched, buf, timers, pc, if_flag, locals, rejected>>

ExpireRedraw ==
  /\ handling /\ redraw_pending > 0
  /\ redraw_pending' = redraw_pending - 1
  /\ Put(REDRAW)
  /\ UNCHANGED <<switch_pending, handling, switch_flag, pc, if_flag, locals,
                 disturbed>>

ExpireSwitch ==
  /\ handling /\ switch_pending > 0
  /\ switch_pending' = switch_pending - 1
  /\ switch_flag' = TRUE
  /\ UNCHANGED <<sched, buf, redraw_pending, handling, pc, if_flag, locals,
                 rejected, disturbed>>

RoomForTimer == redraw_pending + switch_pending < FREE_TIMERS

(* Mutant: the handler calls task_switch whether a switch is due or not. *)
SwitchAlways == TRUE

SwitchDue == switch_flag

(* The loop has ended.  task_switch asks for the next switch, and ignores  *)
(* that add_timer may refuse; it may come back on another task.            *)
HandlerEnd ==
  /\ handling
  /\ handling' = FALSE
  /\ IF SwitchDue
     THEN /\ MT!task_switch
          /\ switch_pending' = IF slice' > 0 /\ RoomForTimer
                               THEN switch_pending + 1 ELSE switch_pending
     ELSE UNCHANGED <<sched, switch_pending>>
  /\ UNCHANGED <<buf, redraw_pending, switch_flag, pc, if_flag, locals,
                 rejected, disturbed>>

-----------------------------------------------------------------------------
(* The main task: its loop, and task_sleep step by step. *)

At(here) == ~ handling /\ running = Main /\ pc = here

GoTo(there) ==
  /\ pc' = there
  /\ UNCHANGED <<buf, timers, handling, switch_flag, rejected, disturbed>>

(* Mutant: the main loop polls, as it did with io_stihlt. *)
Polls == "loop"

Sleeps == "sleep"

(* io_cli, the test of the buffer, and what follows with interrupts off up *)
(* to the next io_cli: the datum is taken, or they are turned on again.    *)
Check ==
  /\ At("loop")
  /\ IF buf = << >>
     THEN pc' = Sleeps /\ if_flag' = TRUE /\ UNCHANGED buf
     ELSE /\ pc' = IF Head(buf) = REDRAW THEN "redraw" ELSE "loop"
          /\ if_flag' = FALSE
          /\ buf' = Tail(buf)
  /\ UNCHANGED <<sched, timers, handling, switch_flag, locals, rejected,
                 disturbed>>

(* Mutant: the timer is set again for each datum twice. *)
RearmTwice == redraw_pending + 2

Rearmed == IF RoomForTimer THEN redraw_pending + 1 ELSE redraw_pending

\* add_timer(33, 1) and layerctl_draw, interrupts off.
Redraw ==
  /\ At("redraw")
  /\ pc' = "loop"
  /\ redraw_pending' = Rearmed
  /\ UNCHANGED <<sched, buf, switch_pending, handling, switch_flag, if_flag,
                 locals, rejected, disturbed>>

\* task_sleep up to remove_task.
Sleep ==
  /\ At("sleep")
  /\ IF flags[Main] # "ACTIVE"
     THEN GoTo("loop") /\ UNCHANGED now_task
     ELSE GoTo("find") /\ now_task' = MT!current_task
  /\ UNCHANGED <<sched, if_flag, i>>

\* remove_task: its search and ASSERT, then one step for each datum written.
Find ==
  /\ At("find")
  /\ IF MT!Listed(MainLevel, Main)
     THEN i' = MT!Position(MainLevel, Main) /\ UNCHANGED fault
     ELSE fault' = "assert" /\ UNCHANGED i
  /\ GoTo("len")
  /\ UNCHANGED <<flags, level, priority, task_levels, current_level,
                 level_change_flag, running, slice, if_flag, now_task>>

SetMainLevel(tl) ==
  /\ task_levels' = [task_levels EXCEPT ![level[Main]] = tl]
  /\ UNCHANGED <<level, priority, current_level, level_change_flag, running,
                 slice, fault, if_flag, now_task>>

Shorten ==
  /\ At("len") /\ GoTo("index")
  /\ SetMainLevel([MainLevel EXCEPT !.len_tasks = @ - 1])
  /\ UNCHANGED <<flags, i>>

AdjustIndex ==
  /\ At("index") /\ GoTo("flags")
  /\ SetMainLevel([MainLevel EXCEPT
       !.current_index = MT!IndexWithout(@, i, MainLevel.len_tasks)])
  /\ UNCHANGED <<flags, i>>

Deactivate ==
  /\ At("flags") /\ GoTo("shift")
  /\ SetMainLevel(MainLevel)
  /\ flags' = [flags EXCEPT ![Main] = "USING"]
  /\ UNCHANGED i

Shift ==
  /\ At("shift")
  /\ IF i < MainLevel.len_tasks
     THEN /\ GoTo("shift")
          /\ SetMainLevel([MainLevel EXCEPT
               !.tasks[i] = MT!Entry(MainLevel, i + 1)])
          /\ i' = i + 1
     ELSE /\ GoTo(IF now_task = Main THEN "level" ELSE "loop")
          /\ SetMainLevel(MainLevel)
          /\ UNCHANGED i
  /\ UNCHANGED flags

(* Mutant: task_sleep does not look for a level. *)
LevelStays == current_level

LevelLeft == MT!Highest(task_levels)

\* switch_task_level: its search and the level written; some level always is
\* occupied, by the idle task if by no other.
ChooseLevel ==
  /\ At("level") /\ GoTo("flag")
  /\ current_level' = LevelLeft
  /\ UNCHANGED <<flags, level, priority, task_levels, level_change_flag,
                 running, slice, fault, if_flag, locals>>

ClearFlag ==
  /\ At("flag") /\ GoTo("jump")
  /\ level_change_flag' = FALSE
  /\ UNCHANGED <<flags, level, priority, task_levels, current_level, running,
                 slice, fault, if_flag, locals>>

\* When the main task runs again, task_sleep returns to the loop.
Jump ==
  /\ At("jump") /\ GoTo("loop")
  /\ MT!farjmp(MT!current_task)
  /\ UNCHANGED <<flags, level, priority, task_levels, current_level,
                 level_change_flag, slice, if_flag, locals>>

MainStep ==
  \/ Check \/ Redraw
  \/ Sleep \/ Find \/ Shorten \/ AdjustIndex \/ Deactivate \/ Shift
  \/ ChooseLevel \/ ClearFlag \/ Jump

-----------------------------------------------------------------------------
(* MyOSMain has created its two tasks and enters the loop.  The first tick *)
(* may have come before that or not.                                       *)
T1 == 2
T2 == 3

Init ==
  /\ flags = [t \in MT!Tasks |-> IF t \in {Main, MT!Idle, T1, T2}
                                 THEN "ACTIVE" ELSE "FREE"]
  /\ level = [t \in MT!Tasks |-> CASE t = Main        -> 0
                                   [] t \in {T1, T2}  -> 1
                                   [] t = MT!Idle     -> LEVEL_SIZE - 1
                                   [] OTHER           -> MT!NoLevel]
  /\ priority = [t \in MT!Tasks |-> CASE t = Main             -> 5
                                      [] t \in {T1, MT!Idle}  -> 1
                                      [] t = T2               -> 10
                                      [] OTHER                -> 0]
  /\ task_levels =
       [l \in MT!Levels |->
          LET listed == CASE l = 0              -> <<Main>>
                          [] l = 1              -> <<T1, T2>>
                          [] l = LEVEL_SIZE - 1 -> <<MT!Idle>>
                          [] OTHER              -> << >>
          IN  [len_tasks |-> Len(listed), current_index |-> 0,
               tasks |-> [k \in MT!Tasks |->
                            IF k < Len(listed) THEN listed[k + 1]
                                               ELSE MT!Garbage]]]
  /\ current_level = 0
  /\ level_change_flag \in BOOLEAN
  /\ running = Main
  /\ slice = 50
  /\ fault = "none"
  /\ buf = << >>
  /\ redraw_pending = 1
  /\ switch_pending = 1
  /\ handling = FALSE /\ switch_flag = FALSE
  /\ pc = "loop" /\ if_flag = TRUE
  /\ now_task = MT!Garbage /\ i = 0
  /\ rejected = 0 /\ disturbed = FALSE

Running == fault = "none"

Next ==
  /\ Running
  /\ \/ InputInterrupt \/ Tick \/ ExpireRedraw \/ ExpireSwitch \/ HandlerEnd
     \/ MainStep

Spec == Init /\ [][Next]_vars

(* The processor keeps executing the task it runs and the handler it is    *)
(* in; the timer interrupt keeps coming, and each pending timer is due at  *)
(* some tick (TimerList's EventuallyFires).  Steps that ticks disable for  *)
(* a while need strong fairness.                                           *)
Fairness ==
  /\ SF_vars(Running /\ MainStep)
  /\ SF_vars(Running /\ Tick)
  /\ SF_vars(Running /\ ExpireRedraw)
  /\ SF_vars(Running /\ ExpireSwitch)
  /\ WF_vars(Running /\ HandlerEnd)

FairSpec == Spec /\ Fairness

-----------------------------------------------------------------------------
TypeOK ==
  /\ flags \in [MT!Tasks -> {"FREE", "USING", "ACTIVE"}]
  /\ buf \in Seq({REDRAW, INPUT}) /\ Len(buf) <= BUF_SIZE
  /\ redraw_pending \in 0 .. FREE_TIMERS
  /\ switch_pending \in 0 .. FREE_TIMERS
  /\ pc \in SleepPoints \cup {"loop", "redraw"}
  /\ i \in MT!Tasks
  /\ rejected \in Nat

Redraws == Cardinality({k \in 1 .. Len(buf) : buf[k] = REDRAW})

(* The redraw timer is a token that travels from the timers through the    *)
(* buffer to the main loop and back: there is never more than one, and     *)
(* there is one unless the buffer rejected it.                             *)
OneRedraw ==
  redraw_pending + Redraws + rejected + (IF pc = "redraw" THEN 1 ELSE 0) = 1

(* There is always exactly one switch to come, across ticks, sleeps and    *)
(* switches to any task: with none the running task would run forever.     *)
OneSwitch ==
  switch_pending + (IF handling /\ switch_flag THEN 1 ELSE 0) = 1

(* As long as no interrupt has come between io_sti and the end of          *)
(* task_sleep, the scheduler never jumps to the running task or through an *)
(* entry that is no task, and its ASSERTs hold.                            *)
NoFault == disturbed \/ MT!NoFault

(* "Wake the task": data in the buffer mean that the main task is active,  *)
(* or has yet to look at the buffer.                                       *)
DataWakes == buf # << >> /\ pc = "loop" => flags[Main] = "ACTIVE"

(* Once the main task is asleep or away, a main task that is listed gets   *)
(* the next switch: its level is the current one or the flag is set.       *)
WokenIsScheduled ==
  flags[Main] = "ACTIVE" /\ pc \in {"loop", "redraw"} =>
     current_level = level[Main] \/ level_change_flag

(* As long as no interrupt has come in that window, no wake-up is lost:    *)
(* neither fifo32_put's test of the flag nor task_sleep's choice of a      *)
(* level forgets a main task that has data to take.                        *)
WakeUpsKept == disturbed \/ (DataWakes /\ WokenIsScheduled)

(* The picture is redrawn again and again, unless the full buffer has      *)
(* rejected the redraw or an interrupt has come in that window.            *)
KeepsRedrawing == []<>(pc = "redraw" \/ rejected > 0 \/ disturbed)

(* What is in the buffer is taken by the main loop, with the same          *)
(* exception for the window, also after the buffer was full.               *)
InputTaken == \A n \in 1 .. BUF_SIZE : Len(buf) >= n ~> Len(buf) < n \/ disturbed

(* Every task that MyOSMain created gets the processor again and again,    *)
(* however much input there is, with the same exception.                   *)
OthersRun == \A t \in {T1, T2} : []<>(running = t \/ disturbed)
=============================================================================
