----------------------------- MODULE Kernel_proofs -----------------------------
(***************************************************************************)
(* First the two timers that keep themselves going: the redraw timer, set  *)
(* again by the main loop, and the switch timer, set again by task_switch. *)
(* For every number of tasks and levels, every size of the buffer and      *)
(* wherever interrupts come, task_sleep included, neither is doubled, the  *)
(* switch is never lost and the redraw only to a full buffer.  Then sleep  *)
(* and wake-up: as long as no interrupt comes in task_sleep, no wake-up is *)
(* lost and the scheduler has no fault.                                    *)
(***************************************************************************)
EXTENDS Kernel, FiniteSetTheorems, WellFoundedInduction, TLAPS

Tasks == MT!Tasks
Levels == MT!Levels
Created == {Main, MT!Idle, T1, T2}

LEMMA Constants ==
  /\ TASK_SIZE \in Nat /\ TASK_SIZE >= 4
  /\ LEVEL_SIZE \in Nat /\ LEVEL_SIZE >= 3
  /\ BUF_SIZE \in Nat \ {0} /\ FREE_TIMERS \in Nat /\ FREE_TIMERS >= 2
  /\ Tasks = 0 .. TASK_SIZE - 1 /\ Levels = 0 .. LEVEL_SIZE - 1
  /\ Main = 0 /\ MT!Idle = 1 /\ T1 = 2 /\ T2 = 3 /\ MT!Garbage = -1
  /\ Created \subseteq Tasks
  BY KernelAssumption DEF Tasks, Levels, Main, T1, T2, Created, MT!Tasks,
     MT!Levels, MT!Main, MT!Idle, MT!Garbage

-----------------------------------------------------------------------------
(* What task_switch needs to find a task with a time to run: some level is *)
(* occupied, as the main task is the only one that leaves a level and the  *)
(* idle task is at another, and every entry that is a task is one with a   *)
(* priority.  Indices and lengths may be torn: an interrupt in task_sleep  *)
(* sees them so.                                                           *)

LevelType == [len_tasks : Int, current_index : Int,
              tasks : [Tasks -> Created \cup {MT!Garbage}]]

Runnable ==
  /\ task_levels \in [Levels -> LevelType]
  /\ task_levels[LEVEL_SIZE - 1].len_tasks > 0
  /\ level \in [Tasks -> Int] /\ level[Main] = 0
  /\ priority \in [Tasks -> Nat]
  /\ \A t \in Created : priority[t] > 0
  /\ current_level \in Levels
  /\ slice \in Nat \ {0}

\* The tokens: the redraw is in one place, the switch in another.
NoRedrawIn(s) == \A k \in 1 .. Len(s) : s[k] # REDRAW

OneRedrawIn(s) == \E k \in 1 .. Len(s) :
                    \A j \in 1 .. Len(s) : s[j] = REDRAW <=> j = k

RedrawToken ==
  /\ buf \in Seq(Nat)
  /\ \/ /\ redraw_pending = 1 /\ NoRedrawIn(buf)
        /\ rejected = 0 /\ pc # "redraw"
     \/ /\ redraw_pending = 0 /\ OneRedrawIn(buf)
        /\ rejected = 0 /\ pc # "redraw"
     \/ /\ redraw_pending = 0 /\ NoRedrawIn(buf)
        /\ rejected = 1 /\ pc # "redraw"
     \/ /\ redraw_pending = 0 /\ NoRedrawIn(buf)
        /\ rejected = 0 /\ pc = "redraw"

SwitchToken ==
  /\ handling \in BOOLEAN /\ switch_flag \in BOOLEAN
  /\ switch_pending = IF handling /\ switch_flag THEN 0 ELSE 1

Inv == Runnable /\ RedrawToken /\ SwitchToken

-----------------------------------------------------------------------------
(* Sequences with the token. *)

LEMMA RedrawAppended ==
  ASSUME NEW s \in Seq(Nat), NoRedrawIn(s)
  PROVE  Append(s, REDRAW) \in Seq(Nat) /\ OneRedrawIn(Append(s, REDRAW))
<1>1. /\ Append(s, REDRAW) \in Seq(Nat)
      /\ Len(Append(s, REDRAW)) = Len(s) + 1 /\ Len(s) \in Nat
      /\ Append(s, REDRAW)[Len(s) + 1] = REDRAW
      /\ \A k \in 1 .. Len(s) : Append(s, REDRAW)[k] = s[k]
  BY DEF REDRAW
<1>2. \A j \in 1 .. Len(s) + 1 :
        Append(s, REDRAW)[j] = REDRAW <=> j = Len(s) + 1
  BY <1>1 DEF NoRedrawIn
<1>3. /\ Len(s) + 1 \in 1 .. Len(Append(s, REDRAW))
      /\ \A j \in 1 .. Len(Append(s, REDRAW)) :
           Append(s, REDRAW)[j] = REDRAW <=> j = Len(s) + 1
  BY <1>1, <1>2
<1> HIDE DEF REDRAW
<1> QED BY <1>1, <1>3, Zenon DEF OneRedrawIn

LEMMA InputAppended ==
  ASSUME NEW s \in Seq(Nat)
  PROVE  /\ Append(s, INPUT) \in Seq(Nat)
         /\ NoRedrawIn(s) => NoRedrawIn(Append(s, INPUT))
         /\ OneRedrawIn(s) => OneRedrawIn(Append(s, INPUT))
<1>1. /\ Append(s, INPUT) \in Seq(Nat)
      /\ Len(Append(s, INPUT)) = Len(s) + 1 /\ Len(s) \in Nat
      /\ Append(s, INPUT)[Len(s) + 1] # REDRAW
      /\ \A k \in 1 .. Len(s) : Append(s, INPUT)[k] = s[k]
  BY DEF INPUT, REDRAW
<1>2. NoRedrawIn(s) => NoRedrawIn(Append(s, INPUT))
  BY <1>1 DEF NoRedrawIn
<1>3. ASSUME OneRedrawIn(s) PROVE OneRedrawIn(Append(s, INPUT))
  <2>1. PICK k \in 1 .. Len(s) : \A j \in 1 .. Len(s) : s[j] = REDRAW <=> j = k
    BY <1>3 DEF OneRedrawIn
  <2>2. \A j \in 1 .. Len(s) + 1 : Append(s, INPUT)[j] = REDRAW <=> j = k
    BY <1>1, <2>1
  <2>3. /\ k \in 1 .. Len(Append(s, INPUT))
        /\ \A j \in 1 .. Len(Append(s, INPUT)) :
             Append(s, INPUT)[j] = REDRAW <=> j = k
    BY <1>1, <2>2
  <2> QED BY <2>3, Zenon DEF OneRedrawIn
<1> QED BY <1>1, <1>2, <1>3

LEMMA HeadTaken ==
  ASSUME NEW s \in Seq(Nat), s # << >>
  PROVE  /\ Tail(s) \in Seq(Nat)
         /\ NoRedrawIn(s) => NoRedrawIn(Tail(s)) /\ Head(s) # REDRAW
         /\ OneRedrawIn(s) => IF Head(s) = REDRAW THEN NoRedrawIn(Tail(s))
                              ELSE OneRedrawIn(Tail(s))
<1>1. /\ Tail(s) \in Seq(Nat) /\ Len(s) \in Nat /\ Len(s) >= 1
      /\ Len(Tail(s)) = Len(s) - 1 /\ Head(s) = s[1]
      /\ \A k \in 1 .. Len(s) - 1 : Tail(s)[k] = s[k + 1]
  OBVIOUS
<1>2. NoRedrawIn(s) => NoRedrawIn(Tail(s)) /\ Head(s) # REDRAW
  BY <1>1 DEF NoRedrawIn
<1>3. ASSUME NEW k \in 1 .. Len(s), \A j \in 1 .. Len(s) : s[j] = REDRAW <=> j = k
      PROVE  IF Head(s) = REDRAW THEN NoRedrawIn(Tail(s)) ELSE OneRedrawIn(Tail(s))
  <2>1. CASE k = 1
    BY <1>1, <1>3, <2>1 DEF NoRedrawIn
  <2>2. CASE k > 1
    <3>1. k - 1 \in 1 .. Len(Tail(s)) /\ Head(s) # REDRAW
      BY <1>1, <1>3, <2>2
    <3>2. \A j \in 1 .. Len(Tail(s)) : Tail(s)[j] = REDRAW <=> j = k - 1
      BY <1>1, <1>3, <2>2
    <3> QED BY <3>1, <3>2 DEF OneRedrawIn
  <2> QED BY <1>1, <2>1, <2>2
<1> QED BY <1>1, <1>2, <1>3 DEF OneRedrawIn

-----------------------------------------------------------------------------
(* The scheduler. *)

(* switch_task_level finds an occupied level, as the last one is.          *)
LEMMA HighestIsLevel ==
  ASSUME NEW tls, tls[LEVEL_SIZE - 1].len_tasks > 0
  PROVE  MT!Highest(tls) \in Levels
<1> DEFINE T == {l \in Levels : MT!Occupied(tls, l)}
           R == {ss \in Nat \X Nat : ss[1] < ss[2]}
<1>1. T \subseteq Nat /\ LEVEL_SIZE - 1 \in T
  BY Constants DEF MT!Occupied
<1>2. R = OpToRel(<, Nat)
  BY DEF OpToRel
<1>3. IsWellFoundedOn(R, Nat)
  BY <1>2, NatLessThanWellFounded
<1>4. PICK x \in T : \A y \in T : ~ (<<y, x>> \in R)
  BY <1>1, <1>3, WFMin
<1>5. \A y \in T : ~ (y < x)
  BY <1>1, <1>4
<1>6. /\ x \in MT!Levels /\ MT!Occupied(tls, x)
      /\ \A m \in 0 .. x - 1 : ~ MT!Occupied(tls, m)
  BY <1>5, Constants DEF Levels
<1>7. MT!Highest(tls) \in MT!Levels
  BY <1>6 DEF MT!Highest
<1> QED BY <1>7 DEF Levels

(* fifo32_put's wake-up leaves the scheduler able to run.                  *)
LEMMA WakeRunnable == Runnable /\ Wake => Runnable'
<1> SUFFICES ASSUME Runnable, Wake, flags[Main] # "ACTIVE" PROVE Runnable'
  BY DEF Wake, Runnable, sched
<1>1. MT!run_task(Main, MT!Keep, MT!Keep)
  BY DEF Wake
<1>2. CASE MT!Halt
  BY <1>2 DEF MT!Halt, MT!taskctl, Runnable
<1>3. CASE MT!Run(Main, MT!Keep, MT!Keep)
  <2>1. MT!Target(Main, MT!Keep) = 0 /\ MT!NewPriority(Main, MT!Keep) = priority[Main]
    BY DEF Runnable, MT!Target, MT!NewPriority, MT!Keep
  <2>2. ~ MT!Active(Main) /\ ~ MT!Leaves(Main, MT!Keep) /\ MT!Joins(Main, MT!Keep)
    BY DEF MT!Active, MT!Leaves, MT!Joins
  <2>3. MT!LevelsWithout(Main, MT!Keep) = task_levels
    BY <2>2 DEF MT!LevelsWithout
  <2>4. /\ task_levels' = [task_levels EXCEPT ![0] = MT!add_task(@, Main)]
        /\ level' = [level EXCEPT ![Main] = 0]
        /\ priority' = [priority EXCEPT ![Main] = priority[Main]]
        /\ UNCHANGED <<current_level, slice>>
    BY <1>3, <2>1, <2>2, <2>3 DEF MT!Run
  <2>5. MT!add_task(task_levels[0], Main) \in LevelType
    <3> DEFINE tl == task_levels[0]
    <3>1. tl \in LevelType
      BY Constants DEF Runnable
    <3>2. /\ tl.len_tasks + 1 \in Int /\ tl.current_index \in Int
          /\ tl.tasks \in [Tasks -> Created \cup {MT!Garbage}]
      BY <3>1 DEF LevelType
    <3> HIDE DEF tl
    <3>3. [tl.tasks EXCEPT ![tl.len_tasks] = Main]
            \in [Tasks -> Created \cup {MT!Garbage}]
      BY <3>2 DEF Created
    <3> QED BY <3>2, <3>3 DEF LevelType, MT!add_task, tl
  <2>6. task_levels' \in [Levels -> LevelType]
    BY <2>4, <2>5 DEF Runnable
  <2>7. task_levels'[LEVEL_SIZE - 1] = task_levels[LEVEL_SIZE - 1]
    BY <2>4, Constants DEF Runnable
  <2>8. level' = level /\ priority' = priority
    BY <2>4, Constants DEF Runnable
  <2> QED BY <2>4, <2>6, <2>7, <2>8 DEF Runnable
<1> QED BY <1>1, <1>2, <1>3 DEF MT!run_task

(* A task that task_switch finds is asked a positive time for, whatever    *)
(* task_sleep has left half done.                                          *)
LEMMA SwitchRunnable == Runnable /\ MT!task_switch => Runnable'
<1> SUFFICES ASSUME Runnable, MT!task_switch PROVE Runnable'
  OBVIOUS
<1> DEFINE l == MT!LevelToRun
           t == MT!TaskAt(task_levels', l)
<1>1. /\ task_levels' = [task_levels EXCEPT ![current_level] = MT!Advance(@)]
      /\ current_level' = l
      /\ MT!Dispatch(task_levels', l)
      /\ UNCHANGED <<level, priority>>
  BY DEF MT!task_switch
<1>2. l \in Levels
  BY HighestIsLevel DEF Runnable, MT!LevelToRun
<1>3. /\ MT!Advance(task_levels[current_level]) \in LevelType
      /\ MT!Advance(task_levels[current_level]).len_tasks
           = task_levels[current_level].len_tasks
  BY Constants DEF Runnable, LevelType, MT!Advance
<1>4. /\ task_levels' \in [Levels -> LevelType]
      /\ task_levels'[LEVEL_SIZE - 1].len_tasks > 0
  <2>1. /\ task_levels \in [Levels -> LevelType] /\ current_level \in Levels
        /\ task_levels[LEVEL_SIZE - 1].len_tasks > 0
        /\ LEVEL_SIZE - 1 \in Levels
    BY Constants DEF Runnable
  <2>2. task_levels' = [task_levels EXCEPT ![current_level] =
                          MT!Advance(task_levels[current_level])]
    BY <1>1
  <2> QED BY <1>3, <2>1, <2>2
<1>5. t \in Created \cup {MT!Garbage}
  BY <1>2, <1>4 DEF MT!TaskAt, MT!Entry, LevelType, Tasks
<1>6. slice' = IF t \in MT!Tasks THEN priority[t] * 10 ELSE slice
  BY <1>1 DEF MT!Dispatch
<1> HIDE DEF t, l
<1>7. t \in MT!Tasks => t \in Created
  BY <1>5, Constants DEF Tasks
<1>8. slice' \in Nat \ {0}
  <2>1. CASE t \in MT!Tasks
    <3>1. priority[t] \in Nat /\ priority[t] > 0
      BY <1>7, <2>1 DEF Runnable, Tasks
    <3> QED BY <1>6, <2>1, <3>1
  <2>2. CASE t \notin MT!Tasks
    BY <1>6, <2>2 DEF Runnable
  <2> QED BY <2>1, <2>2
<1> QED BY <1>1, <1>2, <1>4, <1>8 DEF Runnable

(* task_sleep writes the level of the main task, which is not the last. *)
LEMMA MainLevelSet ==
  ASSUME NEW tl \in LevelType, Runnable, SetMainLevel(tl)
  PROVE  Runnable'
<1>1. /\ task_levels' = [task_levels EXCEPT ![0] = tl]
      /\ UNCHANGED <<level, priority, current_level, slice>>
  BY DEF SetMainLevel, Runnable
<1>2. /\ task_levels' \in [Levels -> LevelType]
      /\ task_levels'[LEVEL_SIZE - 1] = task_levels[LEVEL_SIZE - 1]
  BY <1>1, Constants DEF Runnable
<1> QED BY <1>1, <1>2 DEF Runnable

LEMMA MainLevelType ==
  ASSUME Runnable
  PROVE  /\ MainLevel \in LevelType
         /\ MainLevel.len_tasks \in Int /\ MainLevel.current_index \in Int
         /\ MainLevel.tasks \in [Tasks -> Created \cup {MT!Garbage}]
<1>1. MainLevel = task_levels[0] /\ 0 \in Levels
  BY Constants DEF Runnable, MainLevel
<1>2. MainLevel \in LevelType
  BY <1>1 DEF Runnable
<1> QED BY <1>2 DEF LevelType

-----------------------------------------------------------------------------
(* The invariant. *)

LEMMA InitInv == Init => Inv
<1> SUFFICES ASSUME Init PROVE Inv
  OBVIOUS
<1>1. task_levels \in [Levels -> LevelType] /\ task_levels[LEVEL_SIZE - 1].len_tasks > 0
  <2> DEFINE listed(l) == CASE l = 0              -> <<Main>>
                            [] l = 1              -> <<T1, T2>>
                            [] l = LEVEL_SIZE - 1 -> <<MT!Idle>>
                            [] OTHER              -> << >>
             entries(l) == [k \in MT!Tasks |->
                              IF k < Len(listed(l)) THEN listed(l)[k + 1]
                                                    ELSE MT!Garbage]
  <2>1. task_levels = [l \in MT!Levels |->
                         [len_tasks |-> Len(listed(l)), current_index |-> 0,
                          tasks |-> entries(l)]]
    BY DEF Init
  <2>2. \A l \in Levels : listed(l) \in Seq(Created)
    <3>1. /\ <<Main>> \in Seq(Created) /\ <<T1, T2>> \in Seq(Created)
          /\ <<MT!Idle>> \in Seq(Created) /\ << >> \in Seq(Created)
      BY DEF Created
    <3> QED BY <3>1, Zenon
  <2>3. Len(listed(LEVEL_SIZE - 1)) = 1
    BY Constants
  <2> HIDE DEF listed
  <2>4. ASSUME NEW l \in Levels
        PROVE  Len(listed(l)) \in Int
               /\ entries(l) \in [Tasks -> Created \cup {MT!Garbage}]
    <3>1. listed(l) \in Seq(Created)
      BY <2>2
    <3>2. \A k \in Tasks : k < Len(listed(l)) => listed(l)[k + 1] \in Created
      BY <3>1, Constants
    <3> QED BY <3>1, <3>2 DEF Tasks
  <2> HIDE DEF entries
  <2>5. LEVEL_SIZE - 1 \in Levels
    BY Constants
  <2>6. task_levels[LEVEL_SIZE - 1].len_tasks = Len(listed(LEVEL_SIZE - 1))
    BY <2>1, <2>5 DEF Levels
  <2>7. ASSUME NEW l \in Levels
        PROVE  [len_tasks |-> Len(listed(l)), current_index |-> 0,
                tasks |-> entries(l)] \in LevelType
    BY <2>4 DEF LevelType
  <2>8. task_levels \in [Levels -> LevelType]
    BY <2>1, <2>7 DEF Levels
  <2>9. task_levels[LEVEL_SIZE - 1].len_tasks = 1
    BY <2>3, <2>6
  <2> QED BY <2>8, <2>9
<1>2. /\ level \in [Tasks -> Int] /\ level[Main] = 0
      /\ priority \in [Tasks -> Nat]
      /\ \A t \in Created : priority[t] > 0
  BY Constants DEF Init, Created, Tasks, MT!NoLevel
<1>3. current_level \in Levels /\ slice \in Nat \ {0}
  BY Constants DEF Init
<1>4. RedrawToken
  BY DEF Init, RedrawToken, NoRedrawIn
<1>5. SwitchToken
  BY DEF Init, SwitchToken
<1> QED BY <1>1, <1>2, <1>3, <1>4, <1>5 DEF Inv, Runnable

\* A datum put: the scheduler can still run; so can it without a put.
LEMMA PutRunnable ==
  ASSUME NEW d, Runnable, Put(d)
  PROVE  Runnable'
<1>1. CASE UNCHANGED sched
  BY <1>1 DEF sched, Runnable
<1>2. CASE Wake
  BY <1>2, WakeRunnable
<1> QED BY <1>1, <1>2 DEF Put, sched

LEMMA InputStep == Inv /\ InputInterrupt => Inv'
<1> SUFFICES ASSUME Inv, InputInterrupt PROVE Inv'
  OBVIOUS
<1>1. Runnable'
  BY PutRunnable DEF Inv, InputInterrupt
<1>2. RedrawToken'
  <2>1. /\ UNCHANGED <<redraw_pending, pc, rejected>>
        /\ buf' = buf \/ buf' = Append(buf, INPUT)
    BY DEF InputInterrupt, timers, Put, INPUT, REDRAW
  <2>2. /\ buf' \in Seq(Nat)
        /\ NoRedrawIn(buf) => NoRedrawIn(buf')
        /\ OneRedrawIn(buf) => OneRedrawIn(buf')
    <3>1. CASE buf' = buf
      BY <3>1 DEF Inv, RedrawToken
    <3>2. CASE buf' = Append(buf, INPUT)
      BY <3>2, InputAppended DEF Inv, RedrawToken
    <3> QED BY <2>1, <3>1, <3>2
  <2> QED BY <2>1, <2>2 DEF Inv, RedrawToken
<1>3. SwitchToken'
  BY DEF InputInterrupt, timers, Inv, SwitchToken
<1> QED BY <1>1, <1>2, <1>3 DEF Inv

LEMMA ExpireRedrawStep == Inv /\ ExpireRedraw => Inv'
<1> SUFFICES ASSUME Inv, ExpireRedraw PROVE Inv'
  OBVIOUS
<1>1. Runnable'
  BY PutRunnable DEF Inv, ExpireRedraw
<1>2. RedrawToken'
  <2>1. /\ redraw_pending = 1 /\ NoRedrawIn(buf) /\ buf \in Seq(Nat)
        /\ rejected = 0 /\ pc # "redraw"
        /\ redraw_pending' = 0 /\ pc' # "redraw"
    BY DEF Inv, RedrawToken, ExpireRedraw
  <2>2. CASE buf' = buf /\ rejected' = 1
    BY <2>1, <2>2 DEF RedrawToken
  <2>3. CASE buf' = Append(buf, REDRAW) /\ rejected' = rejected
    BY <2>1, <2>3, RedrawAppended DEF RedrawToken
  <2>4. \/ buf' = buf /\ rejected' = rejected + 1
        \/ buf' = Append(buf, REDRAW) /\ rejected' = rejected
    BY DEF ExpireRedraw, Put
  <2> QED BY <2>1, <2>2, <2>3, <2>4
<1>3. SwitchToken'
  BY DEF ExpireRedraw, Inv, SwitchToken
<1> QED BY <1>1, <1>2, <1>3 DEF Inv

(* The handler ends: task_switch asks for a positive time, and add_timer   *)
(* has a slot for it.                                                      *)
LEMMA HandlerEndStep == Inv /\ HandlerEnd => Inv'
<1> SUFFICES ASSUME Inv, HandlerEnd PROVE Inv'
  OBVIOUS
<1>1. RedrawToken'
  BY DEF HandlerEnd, Inv, RedrawToken
<1>2. CASE SwitchDue
  <2>1. Runnable'
    BY <1>2, SwitchRunnable DEF HandlerEnd, Inv
  <2>2. slice' > 0
    BY <2>1 DEF Runnable
  <2>3. switch_pending = 0 /\ redraw_pending \in {0, 1}
    BY <1>2 DEF HandlerEnd, Inv, SwitchToken, RedrawToken, SwitchDue
  <2>4. RoomForTimer
    BY <2>3, Constants DEF RoomForTimer
  <2>5. switch_pending' = 1
    BY <1>2, <2>2, <2>3, <2>4 DEF HandlerEnd
  <2>6. SwitchToken'
    BY <2>5 DEF HandlerEnd, Inv, SwitchToken
  <2> QED BY <1>1, <2>1, <2>6 DEF Inv
<1>3. CASE ~ SwitchDue
  <2>1. Runnable'
    BY <1>3 DEF HandlerEnd, sched, Inv, Runnable
  <2>2. SwitchToken'
    BY <1>3 DEF HandlerEnd, Inv, SwitchToken, SwitchDue
  <2> QED BY <1>1, <2>1, <2>2 DEF Inv
<1> QED BY <1>2, <1>3

LEMMA CheckStep == Inv /\ Check => Inv'
<1> SUFFICES ASSUME Inv, Check PROVE Inv'
  OBVIOUS
<1>1. Runnable' /\ SwitchToken'
  BY DEF Check, sched, timers, Inv, Runnable, SwitchToken
<1>2. RedrawToken'
  <2>1. /\ pc # "redraw" /\ buf \in Seq(Nat)
        /\ UNCHANGED <<redraw_pending, rejected>>
    BY DEF Check, At, timers, Inv, RedrawToken
  <2>2. CASE buf = << >>
    BY <2>1, <2>2 DEF Check, Sleeps, Inv, RedrawToken
  <2>3. CASE buf # << >>
    <3>1. /\ buf' = Tail(buf)
          /\ pc' = IF Head(buf) = REDRAW THEN "redraw" ELSE "loop"
      BY <2>3 DEF Check
    <3> HIDE DEF REDRAW
    <3> QED BY <2>1, <2>3, <3>1, HeadTaken DEF Inv, RedrawToken
  <2> QED BY <2>2, <2>3
<1> QED BY <1>1, <1>2 DEF Inv

LEMMA RedrawStep == Inv /\ Redraw => Inv'
<1> SUFFICES ASSUME Inv, Redraw PROVE Inv'
  OBVIOUS
<1>1. Runnable' /\ SwitchToken'
  BY DEF Redraw, sched, Inv, Runnable, SwitchToken
<1>2. redraw_pending = 0 /\ NoRedrawIn(buf) /\ rejected = 0 /\ buf \in Seq(Nat)
  BY DEF Redraw, At, Inv, RedrawToken
<1>3. redraw_pending' = 1
  BY <1>2, Constants DEF Redraw, Rearmed, RoomForTimer, Inv, SwitchToken
<1>4. RedrawToken'
  BY <1>2, <1>3 DEF Redraw, RedrawToken
<1> QED BY <1>1, <1>4 DEF Inv

(* A step of task_sleep moves neither token and leaves the scheduler able  *)
(* to run.                                                                 *)
LEMMA SleepTokens ==
  ASSUME NEW here, NEW there, here # "redraw", there # "redraw",
         Inv, At(here), GoTo(there)
  PROVE  RedrawToken' /\ SwitchToken'
  BY DEF Inv, At, GoTo, timers, RedrawToken, SwitchToken

Sleeping ==
  \/ Sleep \/ Find \/ Shorten \/ AdjustIndex \/ Deactivate \/ Shift
  \/ ChooseLevel \/ ClearFlag \/ Jump

LEMMA SleepingTokens == Inv /\ Sleeping => RedrawToken' /\ SwitchToken'
<1> SUFFICES ASSUME Inv, Sleeping
             PROVE  \E here, there : /\ here # "redraw" /\ there # "redraw"
                                     /\ At(here) /\ GoTo(there)
  BY SleepTokens
<1>1. CASE Sleep       BY <1>1 DEF Sleep
<1>2. CASE Find        BY <1>2 DEF Find
<1>3. CASE Shorten     BY <1>3 DEF Shorten
<1>4. CASE AdjustIndex BY <1>4 DEF AdjustIndex
<1>5. CASE Deactivate  BY <1>5 DEF Deactivate
<1>6. CASE Shift       BY <1>6 DEF Shift
<1>7. CASE ChooseLevel BY <1>7 DEF ChooseLevel
<1>8. CASE ClearFlag   BY <1>8 DEF ClearFlag
<1>9. CASE Jump        BY <1>9 DEF Jump
<1> QED BY <1>1, <1>2, <1>3, <1>4, <1>5, <1>6, <1>7, <1>8, <1>9 DEF Sleeping

LEMMA SleepingRunnable == Runnable /\ Sleeping => Runnable'
<1> SUFFICES ASSUME Runnable, Sleeping PROVE Runnable'
  OBVIOUS
<1>1. CASE Sleep \/ Find \/ ClearFlag \/ Jump
  BY <1>1 DEF Sleep, Find, ClearFlag, Jump, sched, Runnable
<1>2. CASE Shorten
  BY <1>2, MainLevelType, MainLevelSet DEF Shorten, LevelType
<1>3. CASE AdjustIndex
  <2> DEFINE index == MT!IndexWithout(MainLevel.current_index, i, MainLevel.len_tasks)
  <2>1. index \in Int
    BY MainLevelType DEF MT!IndexWithout
  <2> HIDE DEF index
  <2>2. [MainLevel EXCEPT !.current_index = index] \in LevelType
    BY <2>1, MainLevelType DEF LevelType
  <2> QED BY <1>3, <2>2, MainLevelSet DEF AdjustIndex, index
<1>4. CASE Deactivate
  BY <1>4, MainLevelType, MainLevelSet DEF Deactivate
<1>5. CASE Shift
  <2>1. CASE i < MainLevel.len_tasks
    <3> DEFINE next == MT!Entry(MainLevel, i + 1)
    <3>1. next \in Created \cup {MT!Garbage}
      BY MainLevelType DEF MT!Entry, Tasks
    <3> HIDE DEF next
    <3>2. [MainLevel EXCEPT !.tasks[i] = next] \in LevelType
      BY <3>1, MainLevelType DEF LevelType
    <3> QED BY <1>5, <2>1, <3>2, MainLevelSet DEF Shift, next
  <2>2. CASE ~ (i < MainLevel.len_tasks)
    BY <1>5, <2>2, MainLevelType, MainLevelSet DEF Shift
  <2> QED BY <2>1, <2>2
<1>6. CASE ChooseLevel
  BY <1>6, HighestIsLevel DEF ChooseLevel, LevelLeft, Runnable
<1> QED BY <1>1, <1>2, <1>3, <1>4, <1>5, <1>6 DEF Sleeping

LEMMA StepInv == Inv /\ [Next]_vars => Inv'
<1> SUFFICES ASSUME Inv, [Next]_vars PROVE Inv'
  OBVIOUS
<1>1. CASE InputInterrupt \/ ExpireRedraw \/ HandlerEnd \/ Check \/ Redraw
  BY <1>1, InputStep, ExpireRedrawStep, HandlerEndStep, CheckStep, RedrawStep
<1>2. CASE Tick
  BY <1>2 DEF Tick, Interrupt, sched, timers, Inv, Runnable, RedrawToken,
     SwitchToken
<1>3. CASE ExpireSwitch
  <2>1. Runnable' /\ RedrawToken'
    BY <1>3 DEF ExpireSwitch, sched, Inv, Runnable, RedrawToken
  <2>2. SwitchToken'
    BY <1>3 DEF ExpireSwitch, Inv, SwitchToken
  <2> QED BY <2>1, <2>2 DEF Inv
<1>4. CASE Sleeping
  BY <1>4, SleepingTokens, SleepingRunnable DEF Inv
<1>5. CASE UNCHANGED vars
  BY <1>5 DEF vars, sched, timers, Inv, Runnable, RedrawToken, SwitchToken
<1> QED BY <1>1, <1>2, <1>3, <1>4, <1>5 DEF Next, MainStep, Sleeping

LEMMA Invariant == Spec => []Inv
  BY InitInv, StepInv, PTL DEF Spec

-----------------------------------------------------------------------------
LEMMA InvImplies == Inv => OneRedraw /\ OneSwitch
<1> SUFFICES ASSUME Inv PROVE OneRedraw /\ OneSwitch
  OBVIOUS
<1> DEFINE Places == {k \in 1 .. Len(buf) : buf[k] = REDRAW}
<1>1. NoRedrawIn(buf) => Redraws = 0
  <2>1. NoRedrawIn(buf) => Places = {}
    BY DEF NoRedrawIn
  <2> QED BY <2>1, FS_EmptySet DEF Redraws
<1>2. OneRedrawIn(buf) => Redraws = 1
  <2> SUFFICES ASSUME NEW k \in 1 .. Len(buf),
                      \A j \in 1 .. Len(buf) : buf[j] = REDRAW <=> j = k
               PROVE  Redraws = 1
    BY DEF OneRedrawIn
  <2>1. Places = {k}
    OBVIOUS
  <2> QED BY <2>1, FS_Singleton DEF Redraws
<1>3. OneRedraw
  BY <1>1, <1>2 DEF Inv, RedrawToken, OneRedraw
<1>4. OneSwitch
  BY DEF Inv, SwitchToken, OneSwitch
<1> QED BY <1>3, <1>4

(* The redraw timer is never doubled, and lost only to a full sys_buf: it  *)
(* is pending, in the buffer, in the hands of the main loop or rejected.   *)
THEOREM RedrawIsOne == Spec => []OneRedraw
  BY Invariant, InvImplies, PTL

(* There is always one switch to come, wherever interrupts come, between   *)
(* the statements of task_sleep too: a task that task_switch finds has a   *)
(* time to run, and add_timer a slot.  An entry that is no task is a fault *)
(* and ends the run.                                                       *)
THEOREM SwitchToCome == Spec => []OneSwitch
  BY Invariant, InvImplies, PTL

-----------------------------------------------------------------------------
(* The second invariant: where the main task and its level stand.          *)

(* However interrupts come, the level of the main task has one entry while *)
(* the main task is active, but for the two statements of remove_task that *)
(* come before its flag is written.                                        *)
Counted ==
  /\ flags \in [Tasks -> {"FREE", "USING", "ACTIVE"}]
  /\ flags[Main] \in {"USING", "ACTIVE"}
  /\ pc \in SleepPoints \cup {"loop", "redraw"}
  /\ i \in {0, 1}
  /\ pc \in {"find", "len", "index", "flags"} => flags[Main] = "ACTIVE"
  /\ task_levels[0].len_tasks =
       IF flags[Main] = "ACTIVE" /\ pc \notin {"index", "flags"} THEN 1 ELSE 0
  /\ buf \in Seq({REDRAW, INPUT}) /\ Len(buf) <= BUF_SIZE

(* The test tasks never leave their level.                                 *)
TestLevel ==
  /\ task_levels[1].len_tasks = 2
  /\ task_levels[1].current_index \in {0, 1}
  /\ task_levels[1].tasks[0] = T1 /\ task_levels[1].tasks[1] = T2

TestTask == task_levels[1].tasks[task_levels[1].current_index]

(* Without an interrupt between io_sti and the end of task_sleep, the main *)
(* task is in one of four phases: it runs, up to the write of its flag in  *)
(* task_sleep; it is leaving; it is asleep, with nothing to take; it is    *)
(* woken, and the next switch is told to look for it.                      *)
Awake ==
  /\ flags[Main] = "ACTIVE" /\ running = Main /\ current_level = 0
  /\ task_levels[0].tasks[0] = Main
  /\ pc \in {"loop", "redraw", "sleep", "find", "len", "index", "flags"}
  /\ pc \notin {"loop", "redraw"} => ~ handling /\ buf = << >>
  /\ pc \in {"find", "len", "index", "flags"} => now_task = Main
  /\ pc \in {"len", "index", "flags"} => i = 0

Leaving ==
  /\ flags[Main] = "USING" /\ running = Main
  /\ pc \in {"shift", "level", "flag", "jump"}
  /\ ~ handling /\ buf = << >>
  /\ pc = "shift" => now_task = Main /\ i = 0
  /\ current_level = IF pc \in {"shift", "level"} THEN 0 ELSE 1
  /\ pc = "jump" => level_change_flag = FALSE

Asleep ==
  /\ flags[Main] = "USING" /\ pc = "loop" /\ buf = << >>
  /\ current_level = 1 /\ running = TestTask
  /\ level_change_flag = FALSE

Woken ==
  /\ flags[Main] = "ACTIVE" /\ pc = "loop"
  /\ task_levels[0].tasks[0] = Main
  /\ current_level = 1 /\ running = TestTask
  /\ level_change_flag = TRUE

Calm ==
  /\ fault = "none"
  /\ level_change_flag \in BOOLEAN
  /\ TestLevel
  /\ task_levels[0].current_index = 0
  /\ Awake \/ Leaving \/ Asleep \/ Woken

FullInv == Inv /\ Counted /\ (disturbed \/ Calm)

-----------------------------------------------------------------------------
(* What the scheduler's operators give in these phases.                    *)

LEMMA HighestIs ==
  ASSUME NEW tls
  PROVE  /\ MT!Occupied(tls, 0) => MT!Highest(tls) = 0
         /\ ~ MT!Occupied(tls, 0) /\ MT!Occupied(tls, 1) => MT!Highest(tls) = 1
<1> DEFINE Found(l) == /\ MT!Occupied(tls, l)
                       /\ \A m \in 0 .. l - 1 : ~ MT!Occupied(tls, m)
<1>1. MT!Highest(tls) = CHOOSE l \in MT!Levels : Found(l)
  BY DEF MT!Highest
<1>2. 0 \in MT!Levels /\ 1 \in MT!Levels /\ MT!Levels \subseteq Nat
  BY Constants DEF Levels
<1>3. ASSUME MT!Occupied(tls, 0) PROVE MT!Highest(tls) = 0
  <2>1. Found(0)
    BY <1>3
  <2>2. \A l \in MT!Levels : Found(l) => l = 0
    BY <1>2, <1>3
  <2> HIDE DEF Found
  <2> QED BY <1>1, <1>2, <2>1, <2>2
<1>4. ASSUME ~ MT!Occupied(tls, 0), MT!Occupied(tls, 1) PROVE MT!Highest(tls) = 1
  <2>1. Found(1)
    BY <1>4
  <2>2. \A l \in MT!Levels : Found(l) => l = 1
    <3> SUFFICES ASSUME NEW l \in MT!Levels, Found(l), l # 1 PROVE FALSE
      OBVIOUS
    <3>1. l # 0
      BY <1>4
    <3>2. 1 \in 0 .. l - 1
      BY <1>2, <3>1
    <3> QED BY <1>4, <3>2
  <2> HIDE DEF Found
  <2> QED BY <1>1, <1>2, <2>1, <2>2
<1> QED BY <1>3, <1>4

LEMMA CountedInit == Init => Counted /\ Calm
<1> SUFFICES ASSUME Init PROVE Counted /\ Calm
  OBVIOUS
<1>1. /\ task_levels[0].len_tasks = 1 /\ task_levels[0].current_index = 0
      /\ task_levels[0].tasks[0] = Main
  BY Constants DEF Init, Levels, Tasks
<1>2. TestLevel
  BY Constants DEF Init, Levels, Tasks, TestLevel
<1>3. /\ flags \in [Tasks -> {"FREE", "USING", "ACTIVE"}]
      /\ flags[Main] = "ACTIVE"
  BY Constants DEF Init, Tasks
<1>4. Counted
  BY <1>1, <1>3, Constants DEF Init, Counted
<1>5. Awake
  BY <1>1, <1>3 DEF Init, Awake
<1> QED BY <1>1, <1>2, <1>4, <1>5 DEF Init, Calm

(* A put that wakes the main task lists it where nothing was.              *)
LEMMA WakeOutcome ==
  ASSUME Runnable, Counted, Wake, flags[Main] # "ACTIVE"
  PROVE  /\ flags' = [flags EXCEPT ![Main] = "ACTIVE"]
         /\ flags'[Main] = "ACTIVE"
         /\ task_levels'[0].len_tasks = 1
         /\ task_levels'[0].current_index = task_levels[0].current_index
         /\ task_levels'[0].tasks[0] = Main
         /\ task_levels'[1] = task_levels[1]
         /\ level_change_flag' = TRUE
         /\ UNCHANGED <<current_level, running, fault>>
<1> DEFINE tl == task_levels[0]
<1>1. MT!Target(Main, MT!Keep) = 0
  BY DEF Runnable, MT!Target, MT!Keep
<1>2. ~ MT!Active(Main) /\ ~ MT!Leaves(Main, MT!Keep) /\ MT!Joins(Main, MT!Keep)
  BY DEF MT!Active, MT!Leaves, MT!Joins
<1>3. MT!LevelsWithout(Main, MT!Keep) = task_levels
  BY <1>2 DEF MT!LevelsWithout
<1>4. tl.len_tasks = 0
  BY DEF Counted
<1>5. MT!AssertsHold(Main, MT!Keep)
  BY <1>1, <1>2, <1>3, <1>4, Constants DEF MT!AssertsHold
<1>6. /\ flags' = [flags EXCEPT ![Main] = "ACTIVE"]
      /\ task_levels' = [task_levels EXCEPT ![0] = MT!add_task(@, Main)]
      /\ level_change_flag' = TRUE
      /\ UNCHANGED <<current_level, running, fault>>
  BY <1>1, <1>2, <1>3, <1>5 DEF Wake, MT!run_task, MT!Run
<1>7. 0 \in Levels /\ 1 \in Levels /\ Main \in Tasks /\ 0 \in Tasks
  BY Constants DEF Levels, Tasks
<1>8. task_levels'[0] = MT!add_task(tl, Main) /\ task_levels'[1] = task_levels[1]
  BY <1>6, <1>7 DEF Runnable
<1>9. tl.tasks \in [Tasks -> Created \cup {MT!Garbage}]
  BY <1>7 DEF Runnable, LevelType
<1> HIDE DEF tl
<1>10. /\ MT!add_task(tl, Main).len_tasks = 1
       /\ MT!add_task(tl, Main).current_index = tl.current_index
       /\ MT!add_task(tl, Main).tasks[0] = Main
  BY <1>4, <1>7, <1>9 DEF MT!add_task
<1>11. flags'[Main] = "ACTIVE"
  BY <1>6, <1>7 DEF Counted
<1> QED BY <1>6, <1>8, <1>10, <1>11 DEF tl

LEMMA PutCounted ==
  ASSUME Inv, Counted, NEW d \in {REDRAW, INPUT}, Put(d), UNCHANGED <<pc, i>>
  PROVE  Counted'
<1>1. buf' \in Seq({REDRAW, INPUT}) /\ Len(buf') <= BUF_SIZE
  <2>1. CASE buf' = buf
    BY <2>1 DEF Counted
  <2>2. CASE buf' = Append(buf, d) /\ Len(buf) # BUF_SIZE
    BY <2>2, Constants DEF Counted
  <2> QED BY <2>1, <2>2 DEF Put
<1>2. CASE UNCHANGED sched
  BY <1>1, <1>2 DEF sched, Counted
<1>3. CASE Wake /\ flags[Main] # "ACTIVE"
  <2>1. /\ flags' = [flags EXCEPT ![Main] = "ACTIVE"] /\ flags'[Main] = "ACTIVE"
        /\ task_levels'[0].len_tasks = 1
    BY <1>3, WakeOutcome DEF Inv
  <2>2. pc \notin {"find", "len", "index", "flags"}
    BY <1>3 DEF Counted
  <2> QED BY <1>1, <2>1, <2>2 DEF Counted
<1> QED BY <1>2, <1>3 DEF Put, Wake

(* task_switch changes no length. *)
LEMMA SwitchCounted ==
  ASSUME Runnable, Counted, MT!task_switch, UNCHANGED <<buf, pc, i>>
  PROVE  Counted'
<1>1. task_levels' = [task_levels EXCEPT ![current_level] = MT!Advance(@)]
      /\ UNCHANGED flags
  BY DEF MT!task_switch
<1>2. MT!Advance(task_levels[current_level]).len_tasks
        = task_levels[current_level].len_tasks
  BY DEF MT!Advance
<1>3. 0 \in Levels
  BY Constants
<1>4. task_levels'[0].len_tasks = task_levels[0].len_tasks
  BY <1>1, <1>2, <1>3 DEF Runnable
<1> QED BY <1>1, <1>4 DEF Counted

\* What SetMainLevel writes, and what it leaves.
LEMMA MainLevelAfter ==
  ASSUME Runnable, NEW tl, SetMainLevel(tl)
  PROVE  task_levels'[0] = tl /\ task_levels'[1] = task_levels[1]
<1>1. task_levels' = [task_levels EXCEPT ![0] = tl]
  BY DEF SetMainLevel, Runnable
<1>2. 0 \in Levels /\ 1 \in Levels
  BY Constants
<1> QED BY <1>1, <1>2 DEF Runnable

LEMMA MainLevelIs == Runnable => MainLevel = task_levels[0]
  BY DEF Runnable, MainLevel

\* The search of remove_task finds the one entry there is.
LEMMA PositionIs ==
  ASSUME NEW tl, tl.len_tasks = 1, MT!Listed(tl, Main)
  PROVE  MT!Position(tl, Main) = 0
<1>1. PICK k \in 0 .. tl.len_tasks - 1 : tl.tasks[k] = Main
  BY DEF MT!Listed
<1>2. k = 0
  BY <1>1
<1>3. /\ 0 \in 0 .. tl.len_tasks - 1 /\ tl.tasks[0] = Main
      /\ \A j \in 0 .. 0 - 1 : tl.tasks[j] # Main
  BY <1>1, <1>2
<1>4. MT!Position(tl, Main) \in 0 .. tl.len_tasks - 1
  BY <1>3 DEF MT!Position
<1> QED BY <1>4

LEMMA SleepingCounted ==
  ASSUME Runnable, Counted, Sleeping
  PROVE  Counted'
<1> DEFINE tl == task_levels[0]
<1>1. /\ buf' = buf
      /\ buf' \in Seq({REDRAW, INPUT}) /\ Len(buf') <= BUF_SIZE
  BY DEF Counted, Sleeping, Sleep, Find, Shorten, AdjustIndex, Deactivate,
     Shift, ChooseLevel, ClearFlag, Jump, GoTo
<1>2. CASE Sleep
  BY <1>1, <1>2 DEF Sleep, At, GoTo, sched, Counted, SleepPoints
<1>3. CASE Find
  <2>1. pc = "find" /\ pc' = "len" /\ UNCHANGED <<flags, task_levels>>
    BY <1>3 DEF Find, At, GoTo
  <2>2. i' = i \/ i' = 0
    BY <1>3, <2>1, MainLevelIs, PositionIs DEF Find, Counted
  <2> QED BY <1>1, <2>1, <2>2 DEF Counted, SleepPoints
<1>4. CASE Shorten
  <2>1. pc = "len" /\ pc' = "index" /\ UNCHANGED <<flags, i>>
    BY <1>4 DEF Shorten, At, GoTo
  <2>2. task_levels'[0] = [tl EXCEPT !.len_tasks = @ - 1]
    BY <1>4, MainLevelAfter, MainLevelIs DEF Shorten
  <2>3. tl.len_tasks = 1
    BY <2>1 DEF Counted
  <2>4. task_levels'[0].len_tasks = 0
    BY <2>2, <2>3, MainLevelType, MainLevelIs DEF LevelType
  <2> QED BY <1>1, <2>1, <2>4 DEF Counted, SleepPoints
<1>5. CASE AdjustIndex
  <2>1. pc = "index" /\ pc' = "flags" /\ UNCHANGED <<flags, i>>
    BY <1>5 DEF AdjustIndex, At, GoTo
  <2>2. task_levels'[0].len_tasks = tl.len_tasks
    BY <1>5, MainLevelAfter, MainLevelIs, MainLevelType DEF AdjustIndex, LevelType
  <2> QED BY <1>1, <2>1, <2>2 DEF Counted, SleepPoints
<1>6. CASE Deactivate
  <2>1. pc = "flags" /\ pc' = "shift" /\ i' = i
        /\ flags' = [flags EXCEPT ![Main] = "USING"]
    BY <1>6 DEF Deactivate, At, GoTo
  <2>2. task_levels'[0] = tl
    BY <1>6, MainLevelAfter, MainLevelIs DEF Deactivate
  <2>3. Main \in Tasks
    BY Constants
  <2> QED BY <1>1, <2>1, <2>2, <2>3 DEF Counted, SleepPoints
<1>7. CASE Shift
  <2>1. pc = "shift" /\ pc' \in {"shift", "level", "loop"} /\ UNCHANGED flags
    BY <1>7 DEF Shift, At, GoTo
  <2>2. task_levels'[0].len_tasks = tl.len_tasks
    BY <1>7, MainLevelAfter, MainLevelIs, MainLevelType DEF Shift, LevelType
  <2>3. i' \in {0, 1}
    BY <1>7, MainLevelIs DEF Shift, Counted
  <2> QED BY <1>1, <2>1, <2>2, <2>3 DEF Counted, SleepPoints
<1>8. CASE ChooseLevel \/ ClearFlag \/ Jump
  BY <1>1, <1>8 DEF ChooseLevel, ClearFlag, Jump, At, GoTo, locals, Counted,
     SleepPoints
<1> QED BY <1>2, <1>3, <1>4, <1>5, <1>6, <1>7, <1>8 DEF Sleeping

LEMMA CountedStep == Inv /\ Counted /\ [Next]_vars => Counted'
<1> SUFFICES ASSUME Inv, Counted, [Next]_vars PROVE Counted'
  OBVIOUS
<1>1. CASE InputInterrupt \/ ExpireRedraw
  BY <1>1, PutCounted DEF InputInterrupt, ExpireRedraw, locals
<1>2. CASE Tick \/ ExpireSwitch \/ Redraw
  BY <1>2 DEF Tick, ExpireSwitch, Redraw, At, sched, locals, Counted, SleepPoints
<1>3. CASE HandlerEnd
  <2>1. UNCHANGED <<buf, pc, i>> /\ (MT!task_switch \/ UNCHANGED sched)
    BY <1>3 DEF HandlerEnd, locals
  <2>2. CASE MT!task_switch
    BY <2>1, <2>2, SwitchCounted DEF Inv
  <2>3. CASE UNCHANGED sched
    BY <2>1, <2>3 DEF sched, Counted
  <2> QED BY <2>1, <2>2, <2>3
<1>4. CASE Check
  <2>1. /\ pc = "loop" /\ pc' \in {"sleep", "redraw", "loop"}
        /\ UNCHANGED <<flags, task_levels, i>>
    BY <1>4 DEF Check, At, sched, locals, Sleeps
  <2>2. buf' = buf \/ (buf # << >> /\ buf' = Tail(buf))
    BY <1>4 DEF Check
  <2>3. buf' \in Seq({REDRAW, INPUT}) /\ Len(buf') <= BUF_SIZE
    <3>1. buf \in Seq({REDRAW, INPUT}) /\ Len(buf) <= BUF_SIZE
      BY DEF Counted
    <3> HIDE DEF REDRAW, INPUT
    <3>2. buf # << >> => /\ Tail(buf) \in Seq({REDRAW, INPUT})
                         /\ Len(Tail(buf)) = Len(buf) - 1 /\ Len(buf) \in Nat
      BY <3>1
    <3>3. Len(Tail(buf)) <= BUF_SIZE \/ buf = << >>
      BY <3>1, <3>2, Constants
    <3>4. CASE buf' = buf
      BY <3>1, <3>4
    <3>5. CASE buf # << >> /\ buf' = Tail(buf)
      BY <3>2, <3>3, <3>5
    <3> QED BY <2>2, <3>4, <3>5
  <2> QED BY <2>1, <2>3 DEF Counted, SleepPoints
<1>5. CASE Sleeping
  BY <1>5, SleepingCounted DEF Inv
<1>6. CASE UNCHANGED vars
  BY <1>6 DEF vars, sched, locals, Counted
<1> QED BY <1>1, <1>2, <1>3, <1>4, <1>5, <1>6 DEF Next, MainStep, Sleeping

-----------------------------------------------------------------------------
(* The phases. *)

LEMMA TestTaskIs ==
  ASSUME TestLevel
  PROVE  TestTask \in {T1, T2} /\ TestTask \in Tasks /\ TestTask # Main
  BY Constants DEF TestLevel, TestTask, Created

\* The task that a calm kernel takes for the current one is the running one.
LEMMA CurrentIs ==
  ASSUME Counted, Calm
  PROVE  /\ Awake => MT!current_task = Main
         /\ current_level = 1 => MT!current_task = TestTask
<1>1. 0 \in MT!Tasks /\ 1 \in MT!Tasks
  BY Constants DEF Tasks
<1> QED BY <1>1 DEF Calm, Awake, TestLevel, TestTask, MT!current_task,
           MT!TaskAt, MT!Entry

\* While a handler runs that did not come in task_sleep, the main task is
\* in its loop or away.
LEMMA NotLeaving ==
  ASSUME Calm, handling \/ ~ InWindow
  PROVE  pc \in {"loop", "redraw"} /\ (Awake \/ Asleep \/ Woken)
  BY DEF Calm, Awake, Leaving, Asleep, Woken, InWindow, SleepPoints

(* A put finds the main task awake, asleep with an empty buffer, or woken  *)
(* already.                                                                *)
LEMMA PutCalm ==
  ASSUME Inv, Counted, Calm, handling \/ ~ InWindow, NEW d, Put(d),
         UNCHANGED <<pc, i, now_task>>
  PROVE  Calm'
<1>1. pc \in {"loop", "redraw"} /\ (Awake \/ Asleep \/ Woken)
  BY NotLeaving
<1>2. CASE flags[Main] = "ACTIVE"
  <2>1. UNCHANGED sched
    BY <1>2 DEF Put, Wake
  <2>2. TestLevel' /\ TestTask' = TestTask
    BY <2>1 DEF sched, Calm, TestLevel, TestTask
  <2>3. Awake => Awake'
    BY <1>1, <2>1 DEF sched, Awake
  <2>4. Woken => Woken'
    BY <2>1, <2>2 DEF sched, Woken
  <2>5. ~ Asleep
    BY <1>2 DEF Asleep
  <2> QED BY <1>1, <2>1, <2>2, <2>3, <2>4, <2>5 DEF sched, Calm
<1>3. CASE flags[Main] # "ACTIVE"
  <2>1. Asleep
    BY <1>1, <1>3 DEF Awake, Woken
  <2>2. Len(buf) # BUF_SIZE
    BY <2>1, Constants DEF Asleep
  <2>3. Wake
    BY <2>2 DEF Put
  <2>4. /\ flags'[Main] = "ACTIVE"
        /\ task_levels'[0].current_index = task_levels[0].current_index
        /\ task_levels'[0].tasks[0] = Main
        /\ task_levels'[1] = task_levels[1]
        /\ level_change_flag' = TRUE
        /\ UNCHANGED <<current_level, running, fault>>
    BY <1>3, <2>3, WakeOutcome DEF Inv
  <2>5. TestLevel' /\ TestTask' = TestTask
    BY <2>4 DEF Calm, TestLevel, TestTask
  <2>6. Woken'
    BY <2>1, <2>4, <2>5 DEF Asleep, Woken
  <2> QED BY <2>4, <2>5, <2>6 DEF Calm
<1> QED BY <1>2, <1>3

(* task_switch leaves the main task running, alone on its level; or gives  *)
(* the other test task its turn; or finds the woken main task.             *)
LEMMA SwitchCalm ==
  ASSUME Inv, Counted, Calm, handling, MT!task_switch, handling' = FALSE,
         UNCHANGED <<buf, pc, i, now_task>>
  PROVE  Calm'
<1> DEFINE tls == task_levels'
           l == MT!LevelToRun
<1>1. /\ tls = [task_levels EXCEPT ![current_level] = MT!Advance(@)]
      /\ current_level' = l
      /\ level_change_flag' = FALSE
      /\ MT!Dispatch(tls, l)
      /\ flags' = flags
  BY DEF MT!task_switch
<1>2. pc \in {"loop", "redraw"} /\ (Awake \/ Asleep \/ Woken)
  BY NotLeaving
<1>3. 0 \in Levels /\ 1 \in Levels /\ 0 \in MT!Tasks /\ 1 \in MT!Tasks
  BY Constants DEF Tasks
<1>4. level_change_flag \in BOOLEAN /\ fault = "none" /\ TestLevel
      /\ task_levels[0].current_index = 0
  BY DEF Calm
<1>5. CASE Awake
  <2>1. /\ task_levels[0].len_tasks = 1 /\ current_level = 0
        /\ task_levels[0].tasks[0] = Main
    BY <1>2, <1>5 DEF Awake, Counted
  <2>2. l = 0
    BY <2>1, HighestIs DEF MT!LevelToRun, MT!Occupied
  <2>3. tls[0] = MT!Advance(task_levels[0]) /\ tls[1] = task_levels[1]
    BY <1>1, <1>3, <2>1 DEF Inv, Runnable
  <2>4. tls[0].current_index = 0 /\ tls[0].tasks[0] = Main
    BY <1>4, <2>1, <2>3 DEF MT!Advance
  <2>5. MT!TaskAt(tls, l) = Main /\ MT!current_task = Main
    BY <1>3, <1>5, <2>2, <2>4, CurrentIs DEF MT!TaskAt, MT!Entry
  <2>6. UNCHANGED <<running, fault>>
    BY <1>1, <2>5 DEF MT!Dispatch
  <2>7. TestLevel'
    BY <1>4, <2>3 DEF TestLevel
  <2>8. Awake'
    BY <1>1, <1>2, <1>5, <2>2, <2>4, <2>6 DEF Awake
  <2> QED BY <1>1, <1>4, <2>4, <2>6, <2>7, <2>8 DEF Calm
<1>6. CASE Asleep \/ Woken
  <2> DEFINE tl == task_levels[1]
  <2>1. current_level = 1 /\ running = TestTask /\ pc = "loop"
    BY <1>6 DEF Asleep, Woken
  <2>2. tls[0] = task_levels[0] /\ tls[1] = MT!Advance(tl)
    BY <1>1, <1>3, <2>1 DEF Inv, Runnable
  <2>3. /\ tl.len_tasks = 2 /\ tl.current_index \in {0, 1}
        /\ tl.tasks[0] = T1 /\ tl.tasks[1] = T2
    BY <1>4 DEF TestLevel
  <2>4. /\ tls[1].len_tasks = 2 /\ tls[1].tasks = tl.tasks
        /\ tls[1].current_index = 1 - tl.current_index
    BY <2>2, <2>3 DEF MT!Advance
  <2>5. TestLevel'
    BY <2>3, <2>4 DEF TestLevel
  <2>6. MT!current_task = TestTask /\ TestTask \in {T1, T2} /\ TestTask # Main
    BY <1>4, <2>1, CurrentIs, TestTaskIs
  <2>7. CASE Asleep
    <3>1. l = 1 /\ level_change_flag = FALSE
      BY <2>1, <2>7 DEF Asleep, MT!LevelToRun
    <3>2. MT!TaskAt(tls, l) = TestTask'
      BY <1>3, <2>3, <2>4, <3>1 DEF MT!TaskAt, MT!Entry, TestTask
    <3>3. TestTask' # TestTask /\ TestTask' \in MT!Tasks
      BY <2>3, <2>4, Constants DEF TestTask, Tasks
    <3>4. running' = TestTask' /\ fault' = fault
      BY <1>1, <2>1, <2>6, <3>2, <3>3, <1>4 DEF MT!Dispatch, MT!farjmp
    <3>5. Asleep'
      BY <1>1, <2>1, <2>7, <3>1, <3>4 DEF Asleep
    <3> QED BY <1>1, <1>4, <2>2, <2>5, <3>4, <3>5 DEF Calm
  <2>8. CASE Woken
    <3>1. flags[Main] = "ACTIVE" /\ task_levels[0].tasks[0] = Main
          /\ level_change_flag = TRUE /\ task_levels[0].len_tasks = 1
      BY <2>1, <2>8 DEF Woken, Counted
    <3>2. l = 0
      BY <3>1, HighestIs DEF MT!LevelToRun, MT!Occupied
    <3>3. MT!TaskAt(tls, l) = Main
      BY <1>3, <1>4, <2>2, <3>1, <3>2 DEF MT!TaskAt, MT!Entry
    <3>4. running' = Main /\ fault' = fault
      BY <1>1, <2>1, <2>6, <3>3, <1>4, Constants DEF MT!Dispatch, MT!farjmp, Tasks
    <3>5. Awake'
      BY <1>1, <2>1, <2>2, <3>1, <3>2, <3>4 DEF Awake
    <3> QED BY <1>1, <1>4, <2>2, <2>5, <3>4, <3>5 DEF Calm
  <2> QED BY <1>6, <2>7, <2>8
<1> QED BY <1>2, <1>5, <1>6

\* The main task at a point of its own: which phase that is.
LEMMA PhaseAt ==
  ASSUME Calm, NEW here, At(here)
  PROVE  /\ ~ handling /\ running = Main /\ pc = here
         /\ here \in {"shift", "level", "flag", "jump"} => Leaving
         /\ here \notin {"shift", "level", "flag", "jump"} => Awake
  BY TestTaskIs DEF Calm, At, Awake, Leaving, Asleep, Woken

(* remove_task empties the level of the main task, step by step. *)
LEMMA RemoveCalm ==
  ASSUME Inv, Counted, Calm, Shorten \/ AdjustIndex \/ Deactivate \/ Shift
  PROVE  Calm'
<1> DEFINE tl == task_levels[0]
<1>1. /\ tl.current_index = 0 /\ TestLevel /\ fault = "none"
      /\ level_change_flag \in BOOLEAN /\ level[Main] = 0
      /\ MainLevel = tl /\ tl \in LevelType
  BY MainLevelIs, MainLevelType DEF Calm, Inv, Runnable
<1>2. ASSUME NEW new, SetMainLevel(new), new.current_index = 0
      PROVE  /\ TestLevel' /\ fault' = "none" /\ level_change_flag' \in BOOLEAN
             /\ task_levels'[0].current_index = 0 /\ task_levels'[0] = new
             /\ UNCHANGED <<current_level, running, now_task>>
  <2>1. task_levels'[0] = new /\ task_levels'[1] = task_levels[1]
    BY <1>2, MainLevelAfter DEF Inv
  <2> QED BY <1>1, <1>2, <2>1 DEF SetMainLevel, TestLevel
<1>3. CASE Shorten
  <2> DEFINE new == [tl EXCEPT !.len_tasks = @ - 1]
  <2>1. At("len") /\ GoTo("index") /\ UNCHANGED <<flags, i>> /\ SetMainLevel(new)
    BY <1>1, <1>3 DEF Shorten
  <2>2. new.current_index = 0 /\ new.tasks = tl.tasks
    BY <1>1 DEF LevelType
  <2> HIDE DEF new
  <2>3. Awake'
    BY <1>2, <2>1, <2>2, PhaseAt DEF Awake, GoTo
  <2> QED BY <1>2, <2>1, <2>2, <2>3 DEF Calm
<1>4. CASE AdjustIndex
  <2> DEFINE new == [tl EXCEPT !.current_index = MT!IndexWithout(@, i, tl.len_tasks)]
  <2>1. /\ At("index") /\ GoTo("flags") /\ UNCHANGED <<flags, i>>
        /\ SetMainLevel(new)
    BY <1>1, <1>4 DEF AdjustIndex
  <2>2. Awake /\ pc = "index"
    BY <2>1, PhaseAt
  <2>3. i = 0 /\ tl.len_tasks = 0
    BY <2>2 DEF Awake, Counted
  <2>4. new.current_index = 0 /\ new.tasks = tl.tasks
    BY <1>1, <2>3 DEF LevelType, MT!IndexWithout
  <2> HIDE DEF new
  <2>5. Awake'
    BY <1>2, <2>1, <2>2, <2>4 DEF Awake, At, GoTo
  <2> QED BY <1>2, <2>1, <2>4, <2>5 DEF Calm
<1>5. CASE Deactivate
  <2>1. At("flags") /\ GoTo("shift") /\ i' = i /\ SetMainLevel(tl)
        /\ flags' = [flags EXCEPT ![Main] = "USING"]
    BY <1>1, <1>5 DEF Deactivate
  <2>2. Awake /\ pc = "flags"
    BY <2>1, PhaseAt
  <2>3. flags'[Main] = "USING"
    BY <2>1, Constants DEF Counted
  <2>4. Leaving'
    BY <1>1, <1>2, <2>1, <2>2, <2>3 DEF Awake, Leaving, At, GoTo
  <2> QED BY <1>1, <1>2, <2>1, <2>4 DEF Calm
<1>6. CASE Shift
  <2>1. At("shift") /\ UNCHANGED flags
    BY <1>6 DEF Shift
  <2>2. Leaving /\ pc = "shift"
    BY <2>1, PhaseAt
  <2>3. i = 0 /\ now_task = Main /\ tl.len_tasks = 0
    BY <2>2 DEF Leaving, Counted
  <2>4. GoTo("level") /\ SetMainLevel(tl)
    BY <1>1, <1>6, <2>3 DEF Shift
  <2>5. Leaving'
    BY <1>1, <1>2, <2>1, <2>2, <2>4 DEF Leaving, At, GoTo
  <2> QED BY <1>1, <1>2, <2>1, <2>4, <2>5 DEF Calm
<1> QED BY <1>3, <1>4, <1>5, <1>6

(* The main task's other steps. *)
LEMMA MainCalm ==
  ASSUME Inv, Counted, Calm, MainStep
  PROVE  Calm'
<1>1. /\ task_levels[0].current_index = 0 /\ TestLevel /\ fault = "none"
      /\ level_change_flag \in BOOLEAN
  BY DEF Calm
<1>2. ASSUME UNCHANGED task_levels
      PROVE  TestLevel' /\ task_levels'[0].current_index = 0
  BY <1>1, <1>2 DEF TestLevel
<1>3. CASE Check
  <2>1. Awake /\ pc = "loop" /\ ~ handling
    BY <1>3, PhaseAt DEF Check
  <2>2. /\ UNCHANGED <<sched, handling, now_task, i>>
        /\ pc' \in {"redraw", "loop"} \/ (pc' = "sleep" /\ buf' = << >>)
    BY <1>3 DEF Check, locals, Sleeps
  <2>3. Awake'
    BY <2>1, <2>2 DEF sched, Awake
  <2> QED BY <1>1, <1>2, <2>2, <2>3 DEF sched, Calm
<1>4. CASE Redraw
  <2>1. Awake /\ pc = "redraw" /\ ~ handling
    BY <1>4, PhaseAt DEF Redraw
  <2>2. UNCHANGED <<sched, handling, now_task, i, buf>> /\ pc' = "loop"
    BY <1>4 DEF Redraw, locals
  <2>3. Awake'
    BY <2>1, <2>2 DEF sched, Awake
  <2> QED BY <1>1, <1>2, <2>2, <2>3 DEF sched, Calm
<1>5. CASE Sleep
  <2>1. Awake /\ pc = "sleep" /\ ~ handling
    BY <1>5, PhaseAt DEF Sleep
  <2>2. /\ UNCHANGED <<sched, handling, i, buf>>
        /\ pc' = "find" /\ now_task' = Main
    BY <1>5, <2>1, CurrentIs DEF Sleep, GoTo, Awake
  <2>3. Awake'
    BY <2>1, <2>2 DEF sched, Awake
  <2> QED BY <1>1, <1>2, <2>2, <2>3 DEF sched, Calm
<1>6. CASE Find
  <2>1. Awake /\ pc = "find" /\ ~ handling
    BY <1>6, PhaseAt DEF Find
  <2>2. MainLevel.len_tasks = 1 /\ MT!Listed(MainLevel, Main)
    BY <2>1, MainLevelIs DEF Inv, Awake, Counted, MT!Listed
  <2>3. i' = 0 /\ UNCHANGED fault
    BY <1>6, <2>2, PositionIs DEF Find
  <2>4. /\ UNCHANGED <<flags, task_levels, current_level, level_change_flag,
                       running, handling, buf, now_task>>
        /\ pc' = "len"
    BY <1>6 DEF Find, GoTo
  <2>5. Awake'
    BY <2>1, <2>3, <2>4 DEF Awake
  <2> QED BY <1>1, <1>2, <2>3, <2>4, <2>5 DEF Calm
<1>7. CASE Shorten \/ AdjustIndex \/ Deactivate \/ Shift
  BY <1>7, RemoveCalm
<1>8. CASE ChooseLevel
  <2>1. Leaving /\ pc = "level"
    BY <1>8, PhaseAt DEF ChooseLevel
  <2>2. LevelLeft = 1
    BY <1>1, <2>1, HighestIs
       DEF Leaving, Counted, TestLevel, LevelLeft, MT!Occupied
  <2>3. /\ UNCHANGED <<flags, task_levels, level_change_flag, running, fault,
                       handling, buf>>
        /\ pc' = "flag" /\ current_level' = 1
    BY <1>8, <2>2 DEF ChooseLevel, GoTo
  <2>4. Leaving'
    BY <2>1, <2>3 DEF Leaving
  <2> QED BY <1>1, <1>2, <2>3, <2>4 DEF Calm
<1>9. CASE ClearFlag
  <2>1. Leaving /\ pc = "flag"
    BY <1>9, PhaseAt DEF ClearFlag
  <2>2. /\ UNCHANGED <<flags, task_levels, current_level, running, fault,
                       handling, buf>>
        /\ pc' = "jump" /\ level_change_flag' = FALSE
    BY <1>9 DEF ClearFlag, GoTo
  <2>3. Leaving'
    BY <2>1, <2>2 DEF Leaving
  <2> QED BY <1>1, <1>2, <2>2, <2>3 DEF Calm
<1>10. CASE Jump
  <2>1. Leaving /\ pc = "jump" /\ running = Main
    BY <1>10, PhaseAt DEF Jump
  <2>2. MT!current_task = TestTask /\ TestTask \in MT!Tasks /\ TestTask # Main
    BY <1>1, <2>1, CurrentIs, TestTaskIs DEF Leaving, Tasks
  <2>3. /\ UNCHANGED <<flags, task_levels, current_level, level_change_flag, buf>>
        /\ pc' = "loop" /\ running' = TestTask /\ fault' = fault
    BY <1>10, <2>1, <2>2, <1>1 DEF Jump, GoTo, MT!farjmp
  <2>4. TestTask' = TestTask
    BY <2>3 DEF TestTask
  <2>5. Asleep'
    BY <2>1, <2>3, <2>4 DEF Leaving, Asleep
  <2> QED BY <1>1, <1>2, <2>3, <2>5 DEF Calm
<1> QED BY <1>3, <1>4, <1>5, <1>6, <1>7, <1>8, <1>9, <1>10 DEF MainStep

(* The invariant of all phases: every step of the handlers and of the main *)
(* task keeps it, unless an interrupt comes in task_sleep.                 *)
LEMMA FullStep == FullInv /\ [Next]_vars => FullInv'
<1> SUFFICES ASSUME FullInv, [Next]_vars PROVE FullInv'
  OBVIOUS
<1>1. Inv' /\ Counted'
  BY StepInv, CountedStep DEF FullInv
<1>2. Inv /\ Counted
  BY DEF FullInv
<1>3. disturbed => disturbed'
  <2>1. CASE InputInterrupt \/ Tick
    <3>1. disturbed' = (disturbed \/ InWindow)
      BY <2>1 DEF InputInterrupt, Tick, Interrupt
    <3> QED BY <3>1, Zenon
  <2>2. CASE disturbed' = disturbed
    BY <2>2
  <2>3. InputInterrupt \/ Tick \/ disturbed' = disturbed
    BY DEF vars, Next, ExpireRedraw, ExpireSwitch, HandlerEnd, MainStep,
       Check, Redraw, Sleep, Find, Shorten, AdjustIndex, Deactivate, Shift,
       ChooseLevel, ClearFlag, Jump, GoTo
  <2> QED BY <2>1, <2>2, <2>3
<1>4. ASSUME Calm, ~ disturbed' PROVE Calm'
  <2>1. CASE InputInterrupt
    BY <1>2, <1>4, <2>1, PutCalm DEF InputInterrupt, Interrupt, locals
  <2>2. CASE ExpireRedraw
    BY <1>2, <1>4, <2>2, PutCalm DEF ExpireRedraw, locals
  <2>3. CASE Tick \/ ExpireSwitch
    <3>1. /\ UNCHANGED <<sched, buf, pc, locals>>
          /\ handling \/ ~ InWindow
      BY <1>4, <2>3 DEF Tick, ExpireSwitch, Interrupt
    <3>2. pc \in {"loop", "redraw"} /\ (Awake \/ Asleep \/ Woken)
      BY <1>4, <3>1, NotLeaving
    <3>3. TestTask' = TestTask
      BY <3>1 DEF sched, TestTask
    <3> QED BY <1>4, <3>1, <3>2, <3>3
            DEF sched, locals, Calm, TestLevel, Awake, Asleep, Woken
  <2>4. CASE HandlerEnd
    <3>1. /\ handling /\ handling' = FALSE
          /\ UNCHANGED <<buf, pc, i, now_task>>
          /\ MT!task_switch \/ UNCHANGED sched
      BY <2>4 DEF HandlerEnd, locals
    <3>2. CASE MT!task_switch
      BY <1>2, <1>4, <3>1, <3>2, SwitchCalm
    <3>3. CASE UNCHANGED sched
      <4>1. TestTask' = TestTask
        BY <3>3 DEF sched, TestTask
      <4> QED BY <1>4, <3>1, <3>3, <4>1
              DEF sched, Calm, TestLevel, Awake, Leaving, Asleep, Woken
    <3> QED BY <3>1, <3>2, <3>3
  <2>5. CASE MainStep
    BY <1>2, <1>4, <2>5, MainCalm
  <2>6. CASE UNCHANGED vars
    <3>1. TestTask' = TestTask
      BY <2>6 DEF vars, sched, TestTask
    <3> QED BY <1>4, <2>6, <3>1
            DEF vars, sched, locals, Calm, TestLevel, Awake, Leaving, Asleep, Woken
  <2> QED BY <2>1, <2>2, <2>3, <2>4, <2>5, <2>6 DEF Next
<1> QED BY <1>1, <1>3, <1>4 DEF FullInv

LEMMA FullInvariant == Spec => []FullInv
<1>1. Init => FullInv
  BY InitInv, CountedInit DEF FullInv
<1> QED BY <1>1, FullStep, PTL DEF Spec

-----------------------------------------------------------------------------
LEMMA TypeFollows == Inv /\ Counted => TypeOK
<1> SUFFICES ASSUME Inv, Counted PROVE TypeOK
  OBVIOUS
<1>1. redraw_pending \in 0 .. FREE_TIMERS /\ rejected \in Nat
  BY Constants DEF Inv, RedrawToken
<1>2. switch_pending \in 0 .. FREE_TIMERS
  BY Constants DEF Inv, SwitchToken
<1>3. i \in MT!Tasks
  BY Constants DEF Counted, Tasks
<1> QED BY <1>1, <1>2, <1>3 DEF Counted, TypeOK, Tasks

LEMMA CalmMeans == Inv /\ Calm => MT!NoFault /\ DataWakes /\ WokenIsScheduled
<1> SUFFICES ASSUME Inv, Calm PROVE MT!NoFault /\ DataWakes /\ WokenIsScheduled
  OBVIOUS
<1>1. MT!NoFault
  BY DEF Calm, MT!NoFault
<1>2. DataWakes
  BY DEF Calm, Awake, Leaving, Asleep, Woken, DataWakes
<1>3. level[Main] = 0
  BY DEF Inv, Runnable
<1>4. WokenIsScheduled
  BY <1>3 DEF Calm, Awake, Leaving, Asleep, Woken, WokenIsScheduled
<1> QED BY <1>1, <1>2, <1>4

(* Type correctness: never more than the timer pool or sys_buf holds,      *)
(* wherever interrupts come; remove_task's index stays in the array.       *)
THEOREM TypeCorrect == Spec => []TypeOK
<1>1. FullInv => TypeOK
  BY TypeFollows DEF FullInv
<1> QED BY <1>1, FullInvariant, PTL

(* As long as no interrupt comes between task_sleep's io_sti and its jump, *)
(* no jump is to the running task or to an entry that is no task, and the  *)
(* ASSERTs of add_task and remove_task hold.                               *)
THEOREM NoFaultUndisturbed == Spec => []NoFault
<1>1. FullInv => NoFault
  BY CalmMeans DEF FullInv, NoFault
<1> QED BY <1>1, FullInvariant, PTL

(* With the same exception no wake-up is lost: data find the main task     *)
(* active, and an active main task is on the current level or looked for   *)
(* at the next switch.                                                     *)
THEOREM WakeUpsAreKept == Spec => []WakeUpsKept
<1>1. FullInv => WakeUpsKept
  BY CalmMeans DEF FullInv, WakeUpsKept
<1> QED BY <1>1, FullInvariant, PTL
=============================================================================
