----------------------------- MODULE Multitask -----------------------------
(***************************************************************************)
(* The multilevel round-robin scheduler of multitask/multitask.c, one call *)
(* of its interface per action.  A call is one step here: it is made by an *)
(* interrupt handler, which runs with interrupts off, or by the running    *)
(* task between two interrupts.  Module Kernel takes task_sleep apart.     *)
(*                                                                         *)
(* Tasks are the slots of task0 that new_task searches, level 0 is the     *)
(* most urgent.  The arrays keep their stale entries: remove_task leaves   *)
(* them behind and a wrong index would read them.                          *)
(***************************************************************************)
EXTENDS Integers

CONSTANTS TASK_SIZE,   \* slots searched by new_task, entries of a level
          LEVEL_SIZE,  \* number of levels
          Priorities,  \* priorities that callers pass to run_task
          SelfMove     \* may a task change the level of the running task?

ASSUME SizesAssumption ==
  TASK_SIZE \in Nat \ {0, 1} /\ LEVEL_SIZE \in Nat \ {0, 1}
ASSUME PrioritiesAssumption == Priorities \subseteq Nat \ {0}
ASSUME SelfMoveAssumption == SelfMove \in BOOLEAN

Tasks == 0 .. TASK_SIZE - 1
Levels == 0 .. LEVEL_SIZE - 1

\* The slots that the two calls of new_task in task_init return.
Main == 0
Idle == 1

\* What an array entry holds before it is first written.
Garbage == -1

\* task->level of a slot that no run_task has seen.
NoLevel == -1

\* The argument that leaves level or priority as it is.
Keep == -1

VARIABLES flags,              \* task->flags
          level,              \* task->level
          priority,           \* task->priority, 0 when never set
          task_levels,        \* the array of struct TASKLEVEL
          current_level,
          level_change_flag,
          running,            \* the task whose TSS the task register names
          slice,              \* the time asked of add_timer at the last switch
          fault               \* how the processor or an ASSERT stopped, if so

taskctl == <<flags, level, priority, task_levels, current_level,
             level_change_flag>>
vars == <<flags, level, priority, task_levels, current_level,
          level_change_flag, running, slice, fault>>

-----------------------------------------------------------------------------
(* One level. *)

Entry(tl, i) == IF i \in Tasks THEN tl.tasks[i] ELSE Garbage

Listed(tl, t) == \E i \in 0 .. tl.len_tasks - 1 : tl.tasks[i] = t

Position(tl, t) == CHOOSE i \in 0 .. tl.len_tasks - 1 :
                     /\ tl.tasks[i] = t
                     /\ \A j \in 0 .. i - 1 : tl.tasks[j] # t

add_task(tl, t) ==
  [len_tasks |-> tl.len_tasks + 1, current_index |-> tl.current_index,
   tasks |-> [tl.tasks EXCEPT ![tl.len_tasks] = t]]

(* Mutant: the index is not moved back with an entry before it. *)
IndexNotMoved(index, i, len) == IF index >= len THEN 0 ELSE index

(* The index after the entry at i has gone and len entries are left. *)
IndexWithout(index, i, len) ==
  LET moved == IF i < index THEN index - 1 ELSE index
  IN  IF moved >= len THEN 0 ELSE moved

Shifted(tasks, i, len) ==
  [k \in Tasks |-> IF i <= k /\ k < len THEN tasks[k + 1] ELSE tasks[k]]

remove_task(tl, t) ==
  LET i == Position(tl, t)
      len == tl.len_tasks - 1
  IN  [len_tasks |-> len,
       current_index |-> IndexWithout(tl.current_index, i, len),
       tasks |-> Shifted(tl.tasks, i, len)]

(* All levels. *)

Occupied(tls, l) == tls[l].len_tasks > 0

(* Mutant: the search runs from the last level. *)
Lowest(tls) == CHOOSE l \in Levels :
                 /\ Occupied(tls, l)
                 /\ \A m \in l + 1 .. LEVEL_SIZE - 1 : ~ Occupied(tls, m)

(* What switch_task_level finds. *)
Highest(tls) == CHOOSE l \in Levels :
                  /\ Occupied(tls, l)
                  /\ \A m \in 0 .. l - 1 : ~ Occupied(tls, m)

TaskAt(tls, l) == Entry(tls[l], tls[l].current_index)

current_task == TaskAt(task_levels, current_level)

\* FREE -> USING -> ACTIVE; a slot is never freed.
InUse(t) == flags[t] # "FREE"
Active(t) == flags[t] = "ACTIVE"

-----------------------------------------------------------------------------
(* farjmp to the task's TSS.  A jump to the TSS of the running task, which *)
(* is busy, is refused by the processor.                                   *)
farjmp(t) ==
  /\ running' = IF t \in Tasks THEN t ELSE running
  /\ fault' = CASE t \notin Tasks -> "wild_jump"
                [] t = running    -> "busy_tss"
                [] OTHER          -> fault

Halt == /\ fault' = "assert"
        /\ UNCHANGED <<taskctl, running, slice>>

FirstFree(t) == ~ InUse(t) /\ \A u \in 0 .. t - 1 : InUse(u)

(* The slot's level and priority keep what memory held: no caller may rely *)
(* on them before the first run_task.                                      *)
new_task ==
  /\ \E t \in Tasks : FirstFree(t) /\ flags' = [flags EXCEPT ![t] = "USING"]
  /\ UNCHANGED <<level, priority, task_levels, current_level,
                 level_change_flag, running, slice, fault>>

(* The level that a call of run_task asks for. *)
Target(t, lv) == IF lv < 0 THEN level[t] ELSE lv

Leaves(t, lv) == Active(t) /\ level[t] # Target(t, lv)

(* task_levels once run_task has taken the task out of its old level. *)
LevelsWithout(t, lv) ==
  IF Leaves(t, lv)
  THEN [task_levels EXCEPT ![level[t]] = remove_task(@, t)]
  ELSE task_levels

(* Mutant: a task already active is listed a second time. *)
ListsTwice(t, lv) == TRUE

(* Does run_task end in add_task? *)
Joins(t, lv) == Leaves(t, lv) \/ ~ Active(t)

AssertsHold(t, lv) ==
  /\ Leaves(t, lv) => Listed(task_levels[level[t]], t)
  /\ Joins(t, lv) =>
       LevelsWithout(t, lv)[Target(t, lv)].len_tasks < TASK_SIZE

(* Mutant: the priority 1 is taken for "leave it". *)
PriorityAboveOne(t, pr) == IF pr > 1 THEN pr ELSE priority[t]

NewPriority(t, pr) == IF pr > 0 THEN pr ELSE priority[t]

Run(t, lv, pr) ==
  /\ priority' = [priority EXCEPT ![t] = NewPriority(t, pr)]
  /\ IF Joins(t, lv)
     THEN /\ task_levels' = [LevelsWithout(t, lv) EXCEPT
                               ![Target(t, lv)] = add_task(@, t)]
          /\ flags' = [flags EXCEPT ![t] = "ACTIVE"]
          /\ level' = [level EXCEPT ![t] = Target(t, lv)]
     ELSE UNCHANGED <<task_levels, flags, level>>
  /\ level_change_flag' = TRUE
  /\ UNCHANGED <<current_level, running, slice, fault>>

run_task(t, lv, pr) == IF AssertsHold(t, lv) THEN Run(t, lv, pr) ELSE Halt

(* Mutants: the index runs past the last entry before it wraps; it stays. *)
AdvanceTooFar(tl) ==
  [len_tasks |-> tl.len_tasks, tasks |-> tl.tasks,
   current_index |-> IF tl.current_index = tl.len_tasks
                     THEN 0 ELSE tl.current_index + 1]

AdvanceNot(tl) == tl

Advance(tl) ==
  [len_tasks |-> tl.len_tasks, tasks |-> tl.tasks,
   current_index |-> IF tl.current_index + 1 = tl.len_tasks
                     THEN 0 ELSE tl.current_index + 1]

(* Mutant: level_change_flag is forgotten. *)
LevelKept == current_level

LevelToRun ==
  IF level_change_flag THEN Highest(task_levels) ELSE current_level

Dispatch(tls, l) ==
  LET t == TaskAt(tls, l)
  IN  /\ slice' = IF t \in Tasks THEN priority[t] * 10 ELSE slice
      /\ IF t # current_task
         THEN farjmp(t)
         ELSE UNCHANGED <<running, fault>>

(* Called by the handler of the timer interrupt on behalf of whatever runs. *)
task_switch ==
  /\ task_levels' = [task_levels EXCEPT ![current_level] = Advance(@)]
  /\ current_level' = LevelToRun
  /\ level_change_flag' = FALSE
  /\ Dispatch(task_levels', LevelToRun)
  /\ UNCHANGED <<flags, level, priority>>

Leave(t) ==
  /\ task_levels' = [task_levels EXCEPT ![level[t]] = remove_task(@, t)]
  /\ flags' = [flags EXCEPT ![t] = "USING"]
  /\ IF t = current_task
     THEN /\ current_level' = Highest(task_levels')
          /\ level_change_flag' = FALSE
          /\ farjmp(TaskAt(task_levels', current_level'))
     ELSE UNCHANGED <<current_level, level_change_flag, running, fault>>
  /\ UNCHANGED <<level, priority, slice>>

task_sleep(t) ==
  /\ Active(t)
  /\ IF Listed(task_levels[level[t]], t) THEN Leave(t) ELSE Halt

-----------------------------------------------------------------------------
(* The state task_init leaves: the caller is the main task, the idle task  *)
(* waits at the last level, and the first switch is 5 ms away.             *)
task_init ==
  /\ flags = [t \in Tasks |-> IF t \in {Main, Idle} THEN "ACTIVE" ELSE "FREE"]
  /\ level = [t \in Tasks |-> CASE t = Main -> 0
                                [] t = Idle -> LEVEL_SIZE - 1
                                [] OTHER    -> NoLevel]
  /\ priority = [t \in Tasks |-> CASE t = Main -> 5
                                   [] t = Idle -> 1
                                   [] OTHER    -> 0]
  /\ task_levels =
       [l \in Levels |->
          LET first == CASE l = 0              -> Main
                         [] l = LEVEL_SIZE - 1 -> Idle
                         [] OTHER              -> Garbage
          IN  [len_tasks |-> IF first = Garbage THEN 0 ELSE 1,
               current_index |-> 0,
               tasks |-> [k \in Tasks |-> IF k = 0 THEN first ELSE Garbage]]]
  /\ current_level = 0
  /\ level_change_flag = TRUE
  /\ running = Main
  /\ slice = 5
  /\ fault = "none"

(* Callers hold pointers to the main task and to those new_task returned,  *)
(* never to the idle task; the first run_task of a task names its level    *)
(* and its priority, as MyOSMain does.                                     *)
CallersRun(t, lv, pr) ==
  /\ InUse(t) /\ t # Idle
  /\ level[t] = NoLevel => lv # Keep /\ pr # Keep
  /\ t = running => SelfMove \/ Target(t, lv) = level[t]
  /\ run_task(t, lv, pr)

(* fifo32_put from an interrupt handler: run_task(task, -1, -1), and only  *)
(* for a task that is not active.                                          *)
Wake(t) ==
  /\ flags[t] = "USING" /\ level[t] # NoLevel
  /\ run_task(t, Keep, Keep)

Running == fault = "none"

\* The running task's own calls; the idle task makes none.
Calls ==
  /\ running # Idle
  /\ \/ new_task
     \/ \E t \in Tasks, lv \in Levels \cup {Keep},
           pr \in Priorities \cup {Keep} : CallersRun(t, lv, pr)
     \/ \E t \in Tasks \ {Idle} : task_sleep(t)

\* The interrupt handlers' calls.
Interrupts == task_switch \/ \E t \in Tasks : Wake(t)

Next == Running /\ (Calls \/ Interrupts)

Spec == task_init /\ [][Next]_vars

-----------------------------------------------------------------------------
(* The calls this kernel makes: tasks are created and run once, and a task *)
(* puts only itself to sleep.                                              *)
KernelCalls ==
  /\ running # Idle
  /\ \/ new_task
     \/ \E t \in Tasks, lv \in Levels, pr \in Priorities :
           level[t] = NoLevel /\ CallersRun(t, lv, pr)
     \/ task_sleep(running)

KernelNext == Running /\ (KernelCalls \/ Interrupts)

(* The timer interrupt keeps coming, and each switch asks for the next. *)
FairSpec == task_init /\ [][KernelNext]_vars /\ WF_vars(Running /\ task_switch)

-----------------------------------------------------------------------------
TypeOK ==
  /\ flags \in [Tasks -> {"FREE", "USING", "ACTIVE"}]
  /\ level \in [Tasks -> Levels \cup {NoLevel}]
  /\ priority \in [Tasks -> Nat]
  /\ task_levels \in
       [Levels -> [len_tasks : 0 .. TASK_SIZE, current_index : Tasks,
                   tasks : [Tasks -> Tasks \cup {Garbage}]]]
  /\ current_level \in Levels
  /\ level_change_flag \in BOOLEAN
  /\ running \in Tasks
  /\ slice \in Nat
  /\ fault \in {"none", "assert", "wild_jump", "busy_tss"}

InRange(l) == 0 .. task_levels[l].len_tasks - 1

(* A task is listed, once and at its own level, exactly while it is        *)
(* active, whatever calls moved it, put it to sleep or woke it: the lists  *)
(* and the flags are written by different statements of different          *)
(* functions.                                                              *)
ListsMatchFlags ==
  /\ \A l \in Levels : \A i \in InRange(l) :
       LET t == task_levels[l].tasks[i]
       IN  /\ t \in Tasks
           /\ Active(t)
           /\ level[t] = l
           /\ \A j \in InRange(l) : task_levels[l].tasks[j] = t => j = i
  /\ \A t \in Tasks : Active(t) =>
       level[t] \in Levels /\ Listed(task_levels[level[t]], t)

(* The index of a level points at one of its entries, or rests at 0 when   *)
(* it has none: an index left beyond the end would be incremented past     *)
(* every entry by task_switch, which wraps only on equality.               *)
IndexInside ==
  \A l \in Levels :
     LET tl == task_levels[l]
     IN  \/ tl.current_index < tl.len_tasks
         \/ tl.current_index = 0 /\ tl.len_tasks = 0

(* current_task() names the task that the processor runs: its level and    *)
(* the index into it are kept by run_task, task_sleep and task_switch, the *)
(* task register by farjmp.                                                *)
CurrentIsRunning == current_task = running

(* Between two calls the scheduler runs a task of the most urgent occupied *)
(* level, unless level_change_flag tells the next switch to look again.    *)
PriorityRespected ==
  ~ level_change_flag =>
     \A l \in Levels : Occupied(task_levels, l) => l >= current_level

(* No ASSERT of the scheduler fails, no jump goes through an entry that    *)
(* is not a task, and none goes to the running task itself.                *)
NoFault == fault = "none"

(* Every switch asks add_timer for a positive time, which it accepts: with *)
(* 0 it returns TIMER_INVALID_ARG, which task_switch ignores, and no other *)
(* switch would ever come.                                                 *)
SliceArmed == slice > 0

(* A switch never lets a task keep the processor while a more urgent level *)
(* is occupied, and lets it keep it within its level only when it is alone.*)
SwitchPreempts ==
  [][Running /\ task_switch =>
       /\ \A l \in Levels : Occupied(task_levels', l) => l >= current_level'
       /\ running' = running => \/ task_levels'[current_level'].len_tasks = 1
                                \/ fault' # "none"]_vars

(* Round robin: a task that stays active at a level that stays the most    *)
(* urgent one runs again and again, however its peers sleep and wake.      *)
RoundRobin ==
  \A t \in Tasks :
     <>[](/\ Active(t)
          /\ \A l \in Levels : Occupied(task_levels, l) => l >= level[t])
       => []<>(running = t)
=============================================================================
