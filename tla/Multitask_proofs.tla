-------------------------- MODULE Multitask_proofs --------------------------
(***************************************************************************)
(* Proofs about the scheduler, for any number of tasks, levels and         *)
(* priorities, when nobody changes the level of the running task.          *)
(***************************************************************************)
EXTENDS Multitask, FiniteSetTheorems, WellFoundedInduction, TLAPS

LevelType == [len_tasks : 0 .. TASK_SIZE, current_index : Tasks,
              tasks : [Tasks -> Tasks \cup {Garbage}]]

Members(tl) == {tl.tasks[i] : i \in 0 .. tl.len_tasks - 1}

(* A level that lists tasks only, each of them once. *)
WellFormed(tl) ==
  /\ tl \in LevelType
  /\ \A i \in 0 .. tl.len_tasks - 1 : tl.tasks[i] \in Tasks
  /\ \A i, j \in 0 .. tl.len_tasks - 1 : tl.tasks[i] = tl.tasks[j] => i = j

Inside(tl) == \/ tl.current_index < tl.len_tasks
              \/ tl.current_index = 0 /\ tl.len_tasks = 0

Current(tl) == tl.tasks[tl.current_index]

(* Members and Listed say the same. *)
LEMMA MembersListed ==
  ASSUME NEW tl, NEW t
  PROVE  t \in Members(tl) <=> Listed(tl, t)
  BY DEF Members, Listed

(* A level that does not list some task has room: it lists each of the     *)
(* others at most once.  This is why add_task's ASSERT cannot fail.        *)
LEMMA RoomForMissing ==
  ASSUME NEW tl, WellFormed(tl), NEW t \in Tasks, t \notin Members(tl)
  PROVE  tl.len_tasks < TASK_SIZE
<1> SUFFICES ASSUME ~ (tl.len_tasks < TASK_SIZE) PROVE FALSE
  OBVIOUS
<1>1. tl.len_tasks = TASK_SIZE /\ 0 .. tl.len_tasks - 1 = Tasks
  BY SizesAssumption DEF WellFormed, LevelType, Tasks
<1>2. tl.tasks \in [Tasks -> Tasks \ {t}]
  BY <1>1 DEF WellFormed, LevelType, Members
<1>3. IsFiniteSet(Tasks) /\ Cardinality(Tasks) = TASK_SIZE
  BY FS_Interval, SizesAssumption DEF Tasks
<1>4. /\ IsFiniteSet(Tasks \ {t})
      /\ Cardinality(Tasks \ {t}) = TASK_SIZE - 1
  BY <1>3, FS_RemoveElement
<1>5. Cardinality(Tasks \ {t}) < Cardinality(Tasks)
  BY <1>3, <1>4, SizesAssumption
<1>6. PICK x, y \in Tasks : x # y /\ tl.tasks[x] = tl.tasks[y]
  BY <1>2, <1>3, <1>4, <1>5, FS_PigeonHole
<1> QED BY <1>1, <1>6 DEF WellFormed

(* add_task lists one more task, at the end, and moves no other. *)
LEMMA AddedTask ==
  ASSUME NEW tl, WellFormed(tl), Inside(tl), NEW t \in Tasks,
         t \notin Members(tl)
  PROVE  LET new == add_task(tl, t)
         IN  /\ WellFormed(new)
             /\ Members(new) = Members(tl) \cup {t}
             /\ Inside(new)
             /\ new.len_tasks > 0
             /\ tl.len_tasks > 0 => Current(new) = Current(tl)
<1> DEFINE new == add_task(tl, t)
           n == tl.len_tasks
           m == [tl.tasks EXCEPT ![n] = t]
<1>1. n \in Tasks /\ n < TASK_SIZE
  BY RoomForMissing, SizesAssumption DEF WellFormed, LevelType, Tasks
<1>2. /\ tl.tasks \in [Tasks -> Tasks \cup {Garbage}]
      /\ tl.current_index \in Tasks
  BY DEF WellFormed, LevelType
<1>3. /\ m \in [Tasks -> Tasks \cup {Garbage}]
      /\ m[n] = t
      /\ \A k \in 0 .. n - 1 : m[k] = tl.tasks[k]
  <2>1. \A k \in 0 .. n - 1 : k \in Tasks /\ k # n
    BY <1>1, SizesAssumption DEF Tasks
  <2> QED BY <2>1, <1>1, <1>2
<1>4. new = [len_tasks |-> n + 1, current_index |-> tl.current_index, tasks |-> m]
  BY DEF add_task
<1>5. \A i \in 0 .. n : i = n \/ i \in 0 .. n - 1
  BY <1>1 DEF Tasks
<1>6. 0 .. (n + 1) - 1 = 0 .. n
  BY <1>1 DEF Tasks
<1>7. \A k \in 0 .. n - 1 : tl.tasks[k] \in Members(tl) /\ tl.tasks[k] # t
  BY DEF Members
<1> HIDE DEF new, m
<1>8. WellFormed(new)
  <2>1. new \in LevelType
    BY <1>1, <1>2, <1>3, <1>4, SizesAssumption DEF LevelType, Tasks
  <2>2. \A i \in 0 .. n : m[i] \in Tasks
    BY <1>3, <1>5 DEF WellFormed
  <2>3. \A i, j \in 0 .. n : m[i] = m[j] => i = j
    BY <1>3, <1>5, <1>7 DEF WellFormed
  <2>4. new.len_tasks = n + 1 /\ new.tasks = m
    BY <1>4
  <2>5. new.len_tasks - 1 = n
    BY <1>1, <2>4 DEF Tasks
  <2> QED BY <2>1, <2>2, <2>3, <2>4, <2>5 DEF WellFormed
<1>9. Members(new) = Members(tl) \cup {t}
  <2>1. Members(new) = {m[i] : i \in 0 .. n}
    BY <1>4, <1>6 DEF Members
  <2>2. \A u \in Members(new) : u \in Members(tl) \cup {t}
    BY <2>1, <1>3, <1>5, <1>7
  <2>3. t \in Members(new)
    BY <2>1, <1>1, <1>3 DEF Tasks
  <2>4. \A u \in Members(tl) : u \in Members(new)
    <3> TAKE u \in Members(tl)
    <3>1. PICK i \in 0 .. n - 1 : u = tl.tasks[i]
      BY DEF Members
    <3>2. i \in 0 .. n /\ u = m[i]
      BY <3>1, <1>1, <1>3 DEF Tasks
    <3> QED BY <3>2, <2>1
  <2> QED BY <2>2, <2>3, <2>4
<1>10. Inside(new) /\ new.len_tasks > 0
  BY <1>1, <1>2, <1>4 DEF Inside, Tasks
<1>11. ASSUME n > 0 PROVE Current(new) = Current(tl)
  BY <1>11, <1>1, <1>2, <1>3, <1>4 DEF Current, Inside, Tasks
<1> QED BY <1>8, <1>9, <1>10, <1>11 DEF new

(* remove_task takes one task out, keeps the others and keeps the index on *)
(* the task it was on, unless that is the one taken out.                   *)
LEMMA RemovedTask ==
  ASSUME NEW tl, WellFormed(tl), Inside(tl), NEW t \in Tasks, t \in Members(tl)
  PROVE  LET new == remove_task(tl, t)
         IN  /\ WellFormed(new)
             /\ Members(new) = Members(tl) \ {t}
             /\ Inside(new)
             /\ Current(tl) # t => /\ new.len_tasks > 0
                                   /\ Current(new) = Current(tl)
<1> DEFINE new == remove_task(tl, t)
           p == Position(tl, t)
           n == tl.len_tasks - 1
           c == tl.current_index
           d == IndexWithout(c, p, n)
           m == Shifted(tl.tasks, p, n)
<1>1. PICK q \in 0 .. tl.len_tasks - 1 : tl.tasks[q] = t
  BY DEF Members
<1>2. \A j \in 0 .. q - 1 : tl.tasks[j] # t
  BY <1>1 DEF WellFormed, LevelType
<1>3. p \in 0 .. tl.len_tasks - 1 /\ tl.tasks[p] = t
  BY <1>1, <1>2 DEF Position
<1>4. /\ tl.len_tasks \in 1 .. TASK_SIZE
      /\ n \in Tasks
      /\ c \in Tasks
      /\ p \in 0 .. n
      /\ c \in 0 .. n
      /\ tl.tasks \in [Tasks -> Tasks \cup {Garbage}]
  BY <1>3, SizesAssumption DEF WellFormed, LevelType, Tasks, Inside
<1>5. \A i \in 0 .. n : /\ tl.tasks[i] \in Tasks
                        /\ tl.tasks[i] = t => i = p
  BY <1>3, <1>4 DEF WellFormed
<1>6. new = [len_tasks |-> n, current_index |-> d, tasks |-> m]
  BY DEF remove_task
<1>7. m = [k \in Tasks |-> IF p <= k /\ k < n THEN tl.tasks[k + 1] ELSE tl.tasks[k]]
  BY DEF Shifted
<1>8. d = IF (IF p < c THEN c - 1 ELSE c) >= n THEN 0 ELSE IF p < c THEN c - 1 ELSE c
  BY DEF IndexWithout
<1>9. \A i, j \in 0 .. n : tl.tasks[i] = tl.tasks[j] => i = j
  BY <1>4 DEF WellFormed
<1>10. n + 1 = tl.len_tasks /\ (0 .. tl.len_tasks - 1) = 0 .. n
  BY <1>4
<1> HIDE DEF new, m, p, c, d, n
\* Where the entry k of the new array comes from.
<1> DEFINE src(k) == IF p <= k THEN k + 1 ELSE k
<1>11. \A k \in 0 .. n - 1 : /\ src(k) \in 0 .. n
                             /\ src(k) # p
                             /\ m[k] = tl.tasks[src(k)]
  <2> TAKE k \in 0 .. n - 1
  <2>1. k \in Tasks /\ k < n
    BY <1>4, SizesAssumption DEF Tasks
  <2>2. m[k] = tl.tasks[src(k)]
    BY <2>1, <1>7
  <2>3. src(k) \in 0 .. n /\ src(k) # p
    BY <2>1, <1>4, SizesAssumption DEF Tasks
  <2> QED BY <2>2, <2>3
<1>12. \A i, j \in 0 .. n - 1 : src(i) = src(j) => i = j
  BY <1>4 DEF Tasks
<1>13. \A i \in 0 .. n : i # p => \E k \in 0 .. n - 1 : src(k) = i
  <2> SUFFICES ASSUME NEW i \in 0 .. n, i # p
               PROVE  \E k \in 0 .. n - 1 : src(k) = i
    OBVIOUS
  <2>1. CASE i < p
    <3>1. i \in 0 .. n - 1 /\ src(i) = i
      BY <2>1, <1>4 DEF Tasks
    <3> QED BY <3>1
  <2>2. CASE i > p
    <3>1. i - 1 \in 0 .. n - 1 /\ src(i - 1) = i
      BY <2>2, <1>4 DEF Tasks
    <3> QED BY <3>1
  <2> QED BY <2>1, <2>2, <1>4 DEF Tasks
<1> HIDE DEF src
<1>14. WellFormed(new)
  <2>1. m \in [Tasks -> Tasks \cup {Garbage}]
    <3>1. \A k \in Tasks : p <= k /\ k < n => k + 1 \in Tasks
      BY <1>4, SizesAssumption DEF Tasks
    <3> QED BY <3>1, <1>4, <1>7
  <2>2. d \in Tasks
    BY <1>4, <1>8, SizesAssumption DEF Tasks
  <2>3. new \in LevelType
    BY <2>1, <2>2, <1>4, <1>6, SizesAssumption DEF LevelType, Tasks
  <2>4. \A i \in 0 .. n - 1 : m[i] \in Tasks
    BY <1>5, <1>11
  <2>5. \A i, j \in 0 .. n - 1 : m[i] = m[j] => i = j
    BY <1>9, <1>11, <1>12
  <2> QED BY <2>3, <2>4, <2>5, <1>6 DEF WellFormed
<1>15. Members(new) = Members(tl) \ {t}
  <2>1. /\ Members(new) = {m[i] : i \in 0 .. n - 1}
        /\ Members(tl) = {tl.tasks[i] : i \in 0 .. n}
    BY <1>6, <1>10 DEF Members
  <2>2. \A u \in Members(new) : u \in Members(tl) /\ u # t
    BY <2>1, <1>5, <1>11
  <2>3. \A u \in Members(tl) : u # t => u \in Members(new)
    <3> SUFFICES ASSUME NEW u \in Members(tl), u # t PROVE u \in Members(new)
      OBVIOUS
    <3>1. PICK i \in 0 .. n : u = tl.tasks[i]
      BY <2>1
    <3>2. i # p
      BY <3>1, <1>3
    <3>3. PICK k \in 0 .. n - 1 : src(k) = i
      BY <3>2, <1>13
    <3> QED BY <3>1, <3>3, <1>11, <2>1
  <2> QED BY <2>2, <2>3
<1>16. Inside(new)
  BY <1>4, <1>6, <1>8 DEF Inside, Tasks
<1>17. ASSUME Current(tl) # t
       PROVE  new.len_tasks > 0 /\ Current(new) = Current(tl)
  <2>1. tl.tasks[c] # t /\ c # p
    BY <1>17, <1>3 DEF Current, c
  <2>2. n > 0 /\ d \in 0 .. n - 1 /\ src(d) = c
    BY <2>1, <1>4, <1>8 DEF src, Tasks
  <2>3. m[d] = tl.tasks[c]
    BY <2>2, <1>11
  <2> QED BY <2>2, <2>3, <1>6 DEF Current, c
<1> QED BY <1>14, <1>15, <1>16, <1>17 DEF new

(* Advance moves the index only, and keeps it on an entry. *)
LEMMA AdvancedLevel ==
  ASSUME NEW tl, WellFormed(tl), Inside(tl), tl.len_tasks > 0
  PROVE  LET new == Advance(tl)
         IN  /\ WellFormed(new)
             /\ Members(new) = Members(tl)
             /\ Inside(new)
             /\ new.len_tasks = tl.len_tasks
<1> DEFINE new == Advance(tl)
           d == IF tl.current_index + 1 = tl.len_tasks
                THEN 0 ELSE tl.current_index + 1
<1>1. new = [len_tasks |-> tl.len_tasks, tasks |-> tl.tasks, current_index |-> d]
  BY DEF Advance
<1>2. /\ tl.len_tasks \in 0 .. TASK_SIZE
      /\ tl.current_index \in Tasks
      /\ tl.tasks \in [Tasks -> Tasks \cup {Garbage}]
  BY DEF WellFormed, LevelType
<1>3. d \in Tasks /\ d < tl.len_tasks
  BY <1>2, SizesAssumption DEF Inside, Tasks
<1> HIDE DEF new, d
<1>4. new \in LevelType
  BY <1>1, <1>2, <1>3 DEF LevelType
<1>5. WellFormed(new)
  BY <1>1, <1>4 DEF WellFormed
<1>6. Members(new) = Members(tl)
  BY <1>1 DEF Members
<1>7. Inside(new)
  BY <1>1, <1>3 DEF Inside
<1> QED BY <1>1, <1>5, <1>6, <1>7 DEF new

(* The index of an occupied level points at a task that it lists. *)
LEMMA CurrentIsMember ==
  ASSUME NEW tl, WellFormed(tl), Inside(tl), tl.len_tasks > 0
  PROVE  /\ Entry(tl, tl.current_index) = Current(tl)
         /\ Current(tl) \in Members(tl)
         /\ Current(tl) \in Tasks
<1>1. tl.current_index \in 0 .. tl.len_tasks - 1 /\ tl.current_index \in Tasks
  BY SizesAssumption DEF WellFormed, LevelType, Inside, Tasks
<1> QED BY <1>1 DEF WellFormed, Entry, Current, Members

(* A level that lists a task is occupied. *)
LEMMA MemberOccupies ==
  ASSUME NEW tl, WellFormed(tl), NEW t, t \in Members(tl)
  PROVE  tl.len_tasks > 0
  BY SizesAssumption DEF WellFormed, LevelType, Members

(* Every nonempty set of naturals has a least element. *)
LEMMA LeastElement ==
  ASSUME NEW T, T \subseteq Nat, T # {}
  PROVE  \E x \in T : \A y \in T : ~ (y < x)
<1> DEFINE R == {ss \in Nat \X Nat : ss[1] < ss[2]}
<1>1. R = OpToRel(<, Nat)
  BY DEF OpToRel
<1>2. IsWellFoundedOn(R, Nat)
  BY <1>1, NatLessThanWellFounded
<1>3. PICK x \in T : \A y \in T : ~ (<<y, x>> \in R)
  BY <1>2, WFMin
<1>4. \A y \in T : ~ (y < x)
  BY <1>3
<1> QED BY <1>4

(* switch_task_level finds the most urgent occupied level, if any is: the  *)
(* ASSERT after its loop cannot fail then.                                 *)
LEMMA HighestLevel ==
  ASSUME NEW tls, NEW some \in Levels, Occupied(tls, some)
  PROVE  /\ Highest(tls) \in Levels
         /\ Occupied(tls, Highest(tls))
         /\ \A l \in Levels : Occupied(tls, l) => l >= Highest(tls)
<1> DEFINE T == {l \in Levels : Occupied(tls, l)}
<1>1. T \subseteq Nat /\ T # {}
  BY SizesAssumption DEF Levels
<1>2. PICK x \in T : \A y \in T : ~ (y < x)
  BY <1>1, LeastElement
<1>3. /\ x \in Levels
      /\ Occupied(tls, x)
      /\ \A m \in 0 .. x - 1 : ~ Occupied(tls, m)
  BY <1>2, SizesAssumption DEF Levels
<1> DEFINE h == Highest(tls)
<1>4. /\ h \in Levels
      /\ Occupied(tls, h)
      /\ \A m \in 0 .. h - 1 : ~ Occupied(tls, m)
  BY <1>3 DEF Highest
<1> HIDE DEF h
<1>5. \A l \in Levels : Occupied(tls, l) => l >= h
  BY <1>4, SizesAssumption DEF Levels
<1> QED BY <1>4, <1>5 DEF h

-----------------------------------------------------------------------------
(* The invariant.  Lists says what ListsMatchFlags and IndexInside say,    *)
(* level by level; the rest is what each call needs to find true: the      *)
(* level of the running task is occupied, the idle task is always there    *)
(* for switch_task_level to find, and a task that has a level has a        *)
(* priority, from which task_switch computes a positive slice.             *)

Lists(tls) ==
  \A l \in Levels :
     /\ WellFormed(tls[l])
     /\ Inside(tls[l])
     /\ \A t \in Tasks : t \in Members(tls[l]) <=> Active(t) /\ level[t] = l

Scalars ==
  /\ flags \in [Tasks -> {"FREE", "USING", "ACTIVE"}]
  /\ level \in [Tasks -> Levels \cup {NoLevel}]
  /\ priority \in [Tasks -> Nat]
  /\ task_levels \in [Levels -> LevelType]
  /\ current_level \in Levels
  /\ level_change_flag \in BOOLEAN
  /\ running \in Tasks
  /\ slice \in Nat

RunsCurrent(tls) ==
  Occupied(tls, current_level) /\ Current(tls[current_level]) = running

Ranked ==
  /\ \A t \in Tasks : Active(t) => level[t] \in Levels
  /\ \A t \in Tasks : level[t] \in Levels => priority[t] > 0

Inv ==
  /\ Scalars
  /\ Lists(task_levels)
  /\ RunsCurrent(task_levels)
  /\ PriorityRespected
  /\ NoFault
  /\ Active(Idle)
  /\ Ranked
  /\ SliceArmed

(* The slots of the main and the idle task, and the two marks. *)
LEMMA Marks ==
  /\ Main \in Tasks /\ Idle \in Tasks /\ Main # Idle
  /\ Garbage \notin Tasks
  /\ NoLevel \notin Levels /\ Keep \notin Levels
  /\ 0 \in Levels /\ LEVEL_SIZE - 1 \in Levels /\ LEVEL_SIZE - 1 # 0
  BY SizesAssumption
  DEF Main, Idle, Garbage, NoLevel, Keep, Tasks, Levels

(* What task_levels is once an active task has been taken out. *)
Without(t) == [task_levels EXCEPT ![level[t]] = remove_task(task_levels[level[t]], t)]

LEMMA WithoutTask ==
  ASSUME Inv, NEW t \in Tasks, Active(t)
  PROVE  /\ Without(t) \in [Levels -> LevelType]
         /\ level[t] \in Levels
         /\ Listed(task_levels[level[t]], t)
         /\ \A l \in Levels :
               /\ WellFormed(Without(t)[l])
               /\ Inside(Without(t)[l])
               /\ Members(Without(t)[l]) = Members(task_levels[l]) \ {t}
               /\ Occupied(Without(t), l) => Occupied(task_levels, l)
         /\ t # running => RunsCurrent(Without(t))
<1> DEFINE a == level[t]
           old == task_levels[a]
           new == remove_task(old, t)
           w == Without(t)
<1>1. a \in Levels /\ t \in Members(old) /\ WellFormed(old) /\ Inside(old)
  BY DEF Inv, Ranked, Lists
<1>2. /\ WellFormed(new)
      /\ Members(new) = Members(old) \ {t}
      /\ Inside(new)
      /\ Current(old) # t => new.len_tasks > 0 /\ Current(new) = Current(old)
  BY <1>1, RemovedTask
<1>3. old.len_tasks > 0
  BY <1>1, MemberOccupies
<1>4. /\ w = [task_levels EXCEPT ![a] = new]
      /\ task_levels \in [Levels -> LevelType]
  BY DEF Without, Inv, Scalars
<1>5. w[a] = new /\ \A l \in Levels : l # a => w[l] = task_levels[l]
  BY <1>1, <1>4
<1> HIDE DEF new, w
<1>6. w \in [Levels -> LevelType]
  BY <1>1, <1>2, <1>4 DEF WellFormed
<1>7. Listed(old, t)
  BY <1>1, MembersListed
<1>8. ASSUME NEW l \in Levels
      PROVE  /\ WellFormed(w[l])
             /\ Inside(w[l])
             /\ Members(w[l]) = Members(task_levels[l]) \ {t}
             /\ Occupied(w, l) => Occupied(task_levels, l)
  <2>1. CASE l = a
    BY <2>1, <1>2, <1>3, <1>5 DEF Occupied
  <2>2. CASE l # a
    <3>1. t \notin Members(task_levels[l])
      BY <2>2 DEF Inv, Lists
    <3>2. w[l] = task_levels[l]
      BY <2>2, <1>5
    <3>3. Members(w[l]) = Members(task_levels[l]) \ {t}
      BY <3>1, <3>2
    <3> QED BY <3>2, <3>3 DEF Inv, Lists, Occupied
  <2> QED BY <2>1, <2>2
<1>9. ASSUME t # running PROVE RunsCurrent(w)
  <2>1. CASE current_level = a
    BY <2>1, <1>9, <1>2, <1>5 DEF Inv, RunsCurrent, Occupied
  <2>2. CASE current_level # a
    BY <2>2, <1>5 DEF Inv, RunsCurrent, Occupied, Scalars
  <2> QED BY <2>1, <2>2
<1> QED BY <1>1, <1>6, <1>7, <1>8, <1>9 DEF w

(* The task register and current_task() agree. *)
LEMMA CurrentTask == Inv => current_task = running /\ running \in Members(task_levels[current_level])
<1> SUFFICES ASSUME Inv
             PROVE  current_task = running /\ running \in Members(task_levels[current_level])
  OBVIOUS
<1> DEFINE tl == task_levels[current_level]
<1>1. WellFormed(tl) /\ Inside(tl) /\ tl.len_tasks > 0 /\ Current(tl) = running
  BY DEF Inv, Scalars, Lists, RunsCurrent, Occupied
<1>2. Entry(tl, tl.current_index) = Current(tl) /\ Current(tl) \in Members(tl)
  BY <1>1, CurrentIsMember
<1> QED BY <1>1, <1>2 DEF current_task, TaskAt

(* The state task_init leaves satisfies the invariant. *)
LEMMA InitInv == task_init => Inv
<1> SUFFICES ASSUME task_init PROVE Inv
  OBVIOUS
<1> DEFINE first(l) == CASE l = 0              -> Main
                         [] l = LEVEL_SIZE - 1 -> Idle
                         [] OTHER              -> Garbage
           tl(l) == [len_tasks |-> IF first(l) = Garbage THEN 0 ELSE 1,
                     current_index |-> 0,
                     tasks |-> [k \in Tasks |-> IF k = 0 THEN first(l) ELSE Garbage]]
<1>1. task_levels = [l \in Levels |-> tl(l)]
  BY DEF task_init
<1>2. /\ first(0) = Main
      /\ first(LEVEL_SIZE - 1) = Idle
      /\ \A l \in Levels : l # 0 /\ l # LEVEL_SIZE - 1 => first(l) = Garbage
  BY Marks
<1>3. \A l \in Levels : first(l) \in {Main, Idle, Garbage}
  OBVIOUS
<1> HIDE DEF first
<1>4. 0 \in Tasks
  BY SizesAssumption DEF Tasks
<1>5. ASSUME NEW l \in Levels
      PROVE  /\ WellFormed(tl(l))
             /\ Inside(tl(l))
             /\ Members(tl(l)) = IF first(l) = Garbage THEN {} ELSE {first(l)}
  <2>1. tl(l) \in LevelType
    BY <1>3, <1>4, Marks, SizesAssumption DEF LevelType
  <2>2. CASE first(l) = Garbage
    <3>1. 0 .. tl(l).len_tasks - 1 = {}
      BY <2>2
    <3> QED BY <2>1, <2>2, <3>1 DEF WellFormed, Inside, Members
  <2>3. CASE first(l) # Garbage
    <3>1. 0 .. tl(l).len_tasks - 1 = {0}
      BY <2>3
    <3>2. tl(l).tasks[0] = first(l) /\ first(l) \in Tasks
      BY <2>3, <1>3, <1>4, Marks
    <3>3. Inside(tl(l))
      BY <2>3 DEF Inside
    <3> HIDE DEF tl
    <3> QED BY <2>1, <2>3, <3>1, <3>2, <3>3 DEF WellFormed, Members
  <2> QED BY <2>2, <2>3
<1>6. /\ level[Main] = 0 /\ level[Idle] = LEVEL_SIZE - 1
      /\ \A t \in Tasks : t \notin {Main, Idle} => level[t] = NoLevel
      /\ level \in [Tasks -> Levels \cup {NoLevel}]
  BY Marks DEF task_init
<1>7. \A t \in Tasks : Active(t) <=> t \in {Main, Idle}
  BY Marks DEF task_init, Active
<1>8. /\ priority[Main] = 5 /\ priority[Idle] = 1
      /\ priority \in [Tasks -> Nat]
  BY Marks DEF task_init
<1>9. task_levels \in [Levels -> LevelType]
  <2>1. \A l \in Levels : tl(l) \in LevelType
    BY <1>5 DEF WellFormed
  <2> HIDE DEF tl
  <2> QED BY <2>1, <1>1
<1>10. Scalars
  BY <1>6, <1>8, <1>9, Marks DEF Scalars, task_init
<1>11. Lists(task_levels)
  <2> SUFFICES ASSUME NEW l \in Levels, NEW t \in Tasks
               PROVE  /\ WellFormed(tl(l))
                      /\ Inside(tl(l))
                      /\ t \in Members(tl(l)) <=> Active(t) /\ level[t] = l
    <3> HIDE DEF tl
    <3> QED BY <1>1, Marks DEF Lists
  <2>1. t \in Members(tl(l)) <=> first(l) # Garbage /\ t = first(l)
    BY <1>5
  <2>2. first(l) # Garbage /\ t = first(l) <=> Active(t) /\ level[t] = l
    BY <1>2, <1>3, <1>6, <1>7, Marks
  <2> QED BY <2>1, <2>2, <1>5
<1>12. RunsCurrent(task_levels)
  <2>1. /\ current_level = 0 /\ running = Main
        /\ task_levels[0].len_tasks = 1
        /\ task_levels[0].current_index = 0
        /\ task_levels[0].tasks[0] = Main
    BY <1>1, <1>2, <1>4, Marks DEF task_init
  <2> QED BY <2>1 DEF RunsCurrent, Occupied, Current
<1>13. PriorityRespected /\ NoFault /\ SliceArmed
  BY DEF task_init, PriorityRespected, NoFault, SliceArmed
<1>14. Active(Idle) /\ Ranked
  BY <1>6, <1>7, <1>8, Marks DEF Ranked
<1> QED BY <1>10, <1>11, <1>12, <1>13, <1>14 DEF Inv

(* Creating a task lists nothing and touches no task in use. *)
LEMMA NewTaskInv == Inv /\ new_task => Inv'
<1> SUFFICES ASSUME Inv, new_task PROVE Inv'
  OBVIOUS
<1>1. PICK t \in Tasks : ~ InUse(t) /\ flags' = [flags EXCEPT ![t] = "USING"]
  BY DEF new_task, FirstFree
<1>2. /\ flags' \in [Tasks -> {"FREE", "USING", "ACTIVE"}]
      /\ \A u \in Tasks : Active(u)' <=> Active(u)
  BY <1>1 DEF Inv, Scalars, Active, InUse
<1>3. UNCHANGED <<level, priority, task_levels, current_level,
                  level_change_flag, running, slice, fault>>
  BY DEF new_task
<1>4. Scalars'
  BY <1>2, <1>3 DEF Inv, Scalars
<1>5. Lists(task_levels)'
  BY <1>2, <1>3 DEF Inv, Lists
<1>6. RunsCurrent(task_levels)'
  BY <1>3 DEF Inv, RunsCurrent, Occupied
<1>7. (PriorityRespected /\ NoFault /\ SliceArmed)'
  BY <1>3 DEF Inv, PriorityRespected, NoFault, SliceArmed, Occupied
<1>8. (Active(Idle) /\ Ranked)'
  BY <1>2, <1>3, Marks DEF Inv, Ranked
<1> QED BY <1>4, <1>5, <1>6, <1>7, <1>8 DEF Inv

(* run_task, called for a task that is not the running one or without      *)
(* changing its level.  Its ASSERTs hold.                                  *)
LEMMA RunTaskInv ==
  ASSUME Inv,
         NEW t \in Tasks, NEW lv \in Levels \cup {Keep},
         NEW pr \in Priorities \cup {Keep},
         Target(t, lv) \in Levels,
         level[t] = NoLevel => pr # Keep,
         t = running => Target(t, lv) = level[t],
         run_task(t, lv, pr)
  PROVE  Inv'
<1> DEFINE b == Target(t, lv)
           w == LevelsWithout(t, lv)
<1>1. /\ w \in [Levels -> LevelType]
      /\ Leaves(t, lv) => Listed(task_levels[level[t]], t)
      /\ Joins(t, lv) =>
           /\ t # running
           /\ RunsCurrent(w)
           /\ \A l \in Levels : /\ WellFormed(w[l])
                                /\ Inside(w[l])
                                /\ Members(w[l]) = Members(task_levels[l]) \ {t}
  <2>1. CASE Leaves(t, lv)
    <3>1. Active(t) /\ t # running /\ w = Without(t)
      BY <2>1 DEF Leaves, LevelsWithout, Without
    <3> QED BY <2>1, <3>1, WithoutTask
  <2>2. CASE ~ Leaves(t, lv)
    <3>1. w = task_levels
      BY <2>2 DEF LevelsWithout
    <3>2. ASSUME Joins(t, lv)
          PROVE  /\ t # running
                 /\ \A l \in Levels : t \notin Members(task_levels[l])
      <4>1. ~ Active(t)
        BY <2>2, <3>2 DEF Joins
      <4>2. \A l \in Levels : t \notin Members(task_levels[l])
        BY <4>1 DEF Inv, Lists
      <4>3. t # running
        BY <4>2, CurrentTask DEF Inv, Scalars
      <4> QED BY <4>2, <4>3
    <3> QED BY <2>2, <3>1, <3>2 DEF Inv, Scalars, Lists
  <2> QED BY <2>1, <2>2
<1>2. Joins(t, lv) => w[b].len_tasks < TASK_SIZE
  BY <1>1, RoomForMissing
<1>3. Run(t, lv, pr)
  BY <1>1, <1>2 DEF run_task, AssertsHold
<1>4. /\ priority' \in [Tasks -> Nat]
      /\ \A u \in Tasks : u # t => priority'[u] = priority[u]
      /\ priority'[t] > 0
  <2>1. /\ priority \in [Tasks -> Nat]
        /\ priority' = [priority EXCEPT ![t] = NewPriority(t, pr)]
    BY <1>3 DEF Run, Inv, Scalars
  <2>2. NewPriority(t, pr) \in Nat /\ NewPriority(t, pr) > 0
    <3>1. CASE pr = Keep
      <4>1. level[t] \in Levels
        BY <3>1 DEF Inv, Scalars
      <4> QED BY <3>1, <4>1, <2>1 DEF NewPriority, Keep, Inv, Ranked
    <3>2. CASE pr # Keep
      BY <3>2, PrioritiesAssumption DEF NewPriority
    <3> QED BY <3>1, <3>2
  <2> QED BY <2>1, <2>2
<1>5. /\ level_change_flag' = TRUE
      /\ UNCHANGED <<current_level, running, slice, fault>>
  BY <1>3 DEF Run
<1>6. CASE ~ Joins(t, lv)
  <2>1. UNCHANGED <<task_levels, flags, level>> /\ Active(t)
    BY <1>3, <1>6 DEF Run, Joins
  <2>2. Scalars'
    BY <1>4, <1>5, <2>1 DEF Inv, Scalars
  <2>3. Lists(task_levels)'
    BY <2>1 DEF Inv, Lists, Active
  <2>4. RunsCurrent(task_levels)'
    BY <1>5, <2>1 DEF Inv, RunsCurrent, Occupied
  <2>5. (PriorityRespected /\ NoFault /\ SliceArmed)'
    BY <1>5 DEF Inv, PriorityRespected, NoFault, SliceArmed
  <2>6. (Active(Idle) /\ Ranked)'
    BY <1>4, <2>1 DEF Inv, Ranked, Active
  <2> QED BY <2>2, <2>3, <2>4, <2>5, <2>6 DEF Inv
<1>7. CASE Joins(t, lv)
  <2> DEFINE old == w[b]
             new == add_task(old, t)
  <2>1. /\ task_levels' = [w EXCEPT ![b] = new]
        /\ flags' = [flags EXCEPT ![t] = "ACTIVE"]
        /\ level' = [level EXCEPT ![t] = b]
    BY <1>3, <1>7 DEF Run
  <2>2. /\ WellFormed(old) /\ Inside(old)
        /\ Members(old) = Members(task_levels[b]) \ {t}
        /\ t \notin Members(old)
    BY <1>1, <1>7
  <2>3. /\ WellFormed(new)
        /\ Members(new) = Members(old) \cup {t}
        /\ Inside(new)
        /\ new.len_tasks > 0
        /\ old.len_tasks > 0 => Current(new) = Current(old)
    BY <2>2, AddedTask
  <2>4. /\ task_levels'[b] = new
        /\ \A l \in Levels : l # b => task_levels'[l] = w[l]
    BY <1>1, <2>1
  <2>5. /\ flags' \in [Tasks -> {"FREE", "USING", "ACTIVE"}]
        /\ level' \in [Tasks -> Levels \cup {NoLevel}]
        /\ Active(t)' /\ level'[t] = b
        /\ \A u \in Tasks : u # t => /\ Active(u)' <=> Active(u)
                                     /\ level'[u] = level[u]
    BY <2>1 DEF Inv, Scalars, Active
  <2>6. new \in LevelType
    BY <2>3 DEF WellFormed
  <2> HIDE DEF new, old, w, b
  <2>7. Scalars'
    BY <1>1, <1>4, <1>5, <2>1, <2>5, <2>6 DEF Inv, Scalars
  <2>8. Lists(task_levels)'
    <3> SUFFICES ASSUME NEW l \in Levels, NEW u \in Tasks
                 PROVE  /\ WellFormed(task_levels'[l])
                        /\ Inside(task_levels'[l])
                        /\ u \in Members(task_levels'[l]) <=> Active(u)' /\ level'[u] = l
      BY Marks DEF Lists
    <3>1. u \in Members(task_levels[l]) <=> Active(u) /\ level[u] = l
      BY DEF Inv, Lists
    <3>2. CASE l = b
      <4>1. u \in Members(new) <=> u = t \/ u \in Members(task_levels[l])
        BY <3>2, <2>2, <2>3
      <4> QED BY <3>1, <3>2, <4>1, <2>3, <2>4, <2>5
    <3>3. CASE l # b
      <4>1. /\ task_levels'[l] = w[l]
            /\ WellFormed(w[l]) /\ Inside(w[l])
            /\ Members(w[l]) = Members(task_levels[l]) \ {t}
        BY <3>3, <2>4, <1>1, <1>7
      <4> QED BY <3>1, <3>3, <4>1, <2>5
    <3> QED BY <3>2, <3>3
  <2>9. RunsCurrent(task_levels)'
    <3>1. Occupied(w, current_level) /\ Current(w[current_level]) = running
      BY <1>1, <1>7 DEF RunsCurrent
    <3>2. CASE current_level = b
      <4>1. old.len_tasks > 0 /\ Current(old) = running
        BY <3>1, <3>2 DEF Occupied, old
      <4> QED BY <3>2, <4>1, <2>3, <2>4, <1>5 DEF RunsCurrent, Occupied
    <3>3. CASE current_level # b
      BY <3>1, <3>3, <2>4, <1>5 DEF RunsCurrent, Occupied, Inv, Scalars
    <3> QED BY <3>2, <3>3
  <2>10. (PriorityRespected /\ NoFault /\ SliceArmed)'
    BY <1>5 DEF Inv, PriorityRespected, NoFault, SliceArmed
  <2>11. (Active(Idle) /\ Ranked)'
    <3>1. b \in Levels
      BY DEF b
    <3> QED BY <3>1, <1>4, <2>5, Marks DEF Inv, Ranked
  <2> QED BY <2>7, <2>8, <2>9, <2>10, <2>11 DEF Inv
<1> QED BY <1>6, <1>7

(* task_sleep of any task but the idle one.  Its ASSERTs hold, and a task  *)
(* that puts itself to sleep jumps to another one.                         *)
LEMMA TaskSleepInv ==
  ASSUME Inv, NEW t \in Tasks, t # Idle, task_sleep(t)
  PROVE  Inv'
<1> DEFINE w == Without(t)
<1>1. /\ w \in [Levels -> LevelType]
      /\ Listed(task_levels[level[t]], t)
      /\ \A l \in Levels : /\ WellFormed(w[l])
                           /\ Inside(w[l])
                           /\ Members(w[l]) = Members(task_levels[l]) \ {t}
                           /\ Occupied(w, l) => Occupied(task_levels, l)
      /\ t # running => RunsCurrent(w)
  BY WithoutTask DEF task_sleep
<1>2. Leave(t)
  BY <1>1 DEF task_sleep
<1>3. /\ task_levels' = w
      /\ flags' = [flags EXCEPT ![t] = "USING"]
      /\ UNCHANGED <<level, priority, slice>>
  BY <1>2 DEF Leave, Without
<1>4. /\ flags' \in [Tasks -> {"FREE", "USING", "ACTIVE"}]
      /\ ~ Active(t)'
      /\ \A u \in Tasks : u # t => (Active(u)' <=> Active(u))
  BY <1>3 DEF Inv, Scalars, Active
<1> HIDE DEF w
<1>5. Lists(task_levels)'
  BY <1>1, <1>3, <1>4 DEF Inv, Lists
<1>6. (Active(Idle) /\ Ranked)'
  BY <1>3, <1>4, Marks DEF Inv, Ranked
<1>7. SliceArmed'
  BY <1>3 DEF Inv, SliceArmed
<1>8. CASE t = running
  <2> DEFINE h == Highest(w)
  <2>1. /\ current_level' = Highest(task_levels')
        /\ level_change_flag' = FALSE
        /\ farjmp(TaskAt(task_levels', current_level'))
    BY <1>2, <1>8, CurrentTask DEF Leave
  <2>2. level[Idle] \in Levels /\ Occupied(w, level[Idle])
    <3>1. level[Idle] \in Levels /\ Idle \in Members(task_levels[level[Idle]])
      BY Marks DEF Inv, Ranked, Lists
    <3>2. Idle \in Members(w[level[Idle]])
      BY <3>1, <1>1
    <3> QED BY <3>1, <3>2, <1>1, MemberOccupies DEF Occupied
  <2>3. /\ h \in Levels
        /\ Occupied(w, h)
        /\ \A l \in Levels : Occupied(w, l) => l >= h
    BY <2>2, HighestLevel
  <2> HIDE DEF h
  <2>4. /\ Entry(w[h], w[h].current_index) = Current(w[h])
        /\ Current(w[h]) \in Members(w[h])
        /\ Current(w[h]) \in Tasks
    BY <2>3, <1>1, CurrentIsMember DEF Occupied
  <2>5. Current(w[h]) # running
    BY <2>3, <2>4, <1>1, <1>8
  <2>6. /\ current_level' = h
        /\ running' = Current(w[h])
        /\ fault' = fault
    BY <2>1, <2>4, <2>5, <1>3 DEF h, TaskAt, farjmp
  <2>7. Scalars'
    BY <1>1, <1>3, <1>4, <2>1, <2>3, <2>4, <2>6 DEF Inv, Scalars
  <2>8. RunsCurrent(task_levels)'
    BY <1>3, <2>3, <2>6 DEF RunsCurrent, Occupied
  <2>9. (PriorityRespected /\ NoFault)'
    BY <1>3, <2>3, <2>6 DEF Inv, PriorityRespected, NoFault, Occupied
  <2> QED BY <1>5, <1>6, <1>7, <2>7, <2>8, <2>9 DEF Inv
<1>9. CASE t # running
  <2>1. UNCHANGED <<current_level, level_change_flag, running, fault>>
    BY <1>2, <1>9, CurrentTask DEF Leave
  <2>2. Scalars'
    BY <1>1, <1>3, <1>4, <2>1 DEF Inv, Scalars
  <2>3. RunsCurrent(task_levels)'
    BY <1>1, <1>3, <1>9, <2>1 DEF RunsCurrent, Occupied
  <2>4. (PriorityRespected /\ NoFault)'
    BY <1>1, <1>3, <2>1 DEF Inv, PriorityRespected, NoFault, Occupied
  <2> QED BY <1>5, <1>6, <1>7, <2>2, <2>3, <2>4 DEF Inv
<1> QED BY <1>8, <1>9

(* task_switch never jumps to the task that is running. *)
LEMMA TaskSwitchInv ==
  ASSUME Inv, task_switch
  PROVE  /\ Inv'
         /\ \A l \in Levels : Occupied(task_levels', l) => l >= current_level'
<1> DEFINE a == current_level
           h == LevelToRun
           old == task_levels[a]
           new == Advance(old)
<1>1. /\ a \in Levels
      /\ task_levels \in [Levels -> LevelType]
      /\ WellFormed(old) /\ Inside(old) /\ old.len_tasks > 0
  BY DEF Inv, Scalars, Lists, RunsCurrent, Occupied
<1>2. /\ WellFormed(new)
      /\ Members(new) = Members(old)
      /\ Inside(new)
      /\ new.len_tasks = old.len_tasks
  BY <1>1, AdvancedLevel
<1>3. /\ task_levels' = [task_levels EXCEPT ![a] = new]
      /\ current_level' = h
      /\ level_change_flag' = FALSE
      /\ UNCHANGED <<flags, level, priority>>
  BY DEF task_switch
<1>4. /\ h \in Levels
      /\ Occupied(task_levels, h)
      /\ \A l \in Levels : Occupied(task_levels, l) => l >= h
  <2>1. CASE level_change_flag
    BY <2>1, <1>1, HighestLevel DEF LevelToRun, Occupied
  <2>2. CASE ~ level_change_flag
    BY <2>2, <1>1 DEF LevelToRun, Occupied, Inv, PriorityRespected
  <2> QED BY <2>1, <2>2
<1> HIDE DEF new, h
<1>5. task_levels'[a] = new /\ \A l \in Levels : l # a => task_levels'[l] = task_levels[l]
  BY <1>1, <1>3
<1>6. \A l \in Levels : /\ WellFormed(task_levels'[l])
                        /\ Inside(task_levels'[l])
                        /\ Members(task_levels'[l]) = Members(task_levels[l])
                        /\ task_levels'[l].len_tasks = task_levels[l].len_tasks
  <2> TAKE l \in Levels
  <2>1. CASE l = a
    BY <2>1, <1>2, <1>5
  <2>2. CASE l # a
    BY <2>2, <1>5 DEF Inv, Lists
  <2> QED BY <2>1, <2>2
<1>7. Lists(task_levels)'
  BY <1>3, <1>6 DEF Inv, Lists, Active
<1>8. \A l \in Levels : Occupied(task_levels', l) <=> Occupied(task_levels, l)
  BY <1>6 DEF Occupied
<1> DEFINE tl == task_levels'[h]
           t == Current(tl)
<1>9. /\ Entry(tl, tl.current_index) = t
      /\ t \in Members(tl)
      /\ t \in Tasks
  BY <1>4, <1>6, <1>8, CurrentIsMember DEF Occupied
<1>10. Dispatch(task_levels', h)
  BY DEF task_switch, h
<1> HIDE DEF t, tl
<1>11. TaskAt(task_levels', h) = t /\ current_task = running
  BY <1>9, CurrentTask DEF TaskAt, tl
<1>12. running' = t /\ fault' = fault /\ slice' = priority[t] * 10
  <2>1. slice' = priority[t] * 10
    BY <1>9, <1>10, <1>11 DEF Dispatch
  <2>2. running' = t /\ fault' = fault
    <3>1. CASE t = running
      BY <3>1, <1>10, <1>11 DEF Dispatch
    <3>2. CASE t # running
      <4>1. farjmp(t)
        BY <3>2, <1>10, <1>11 DEF Dispatch
      <4> QED BY <3>2, <4>1, <1>9 DEF farjmp
    <3> QED BY <3>1, <3>2
  <2> QED BY <2>1, <2>2
<1>13. slice' \in Nat /\ slice' > 0
  <2>1. t \in Members(task_levels[h])
    BY <1>4, <1>6, <1>9 DEF tl
  <2>2. level[t] \in Levels
    BY <2>1, <1>4, <1>9 DEF Inv, Lists
  <2>3. priority[t] \in Nat /\ priority[t] > 0
    BY <2>2, <1>9 DEF Inv, Ranked, Scalars
  <2> QED BY <2>3, <1>12
<1>14. Scalars'
  <2>1. task_levels' \in [Levels -> LevelType]
    BY <1>1, <1>2, <1>3 DEF WellFormed
  <2>2. running' \in Tasks
    BY <1>9, <1>12
  <2> QED BY <2>1, <2>2, <1>3, <1>4, <1>13 DEF Inv, Scalars
<1>15. RunsCurrent(task_levels)'
  BY <1>3, <1>4, <1>8, <1>12 DEF RunsCurrent, t, tl
<1>16. \A l \in Levels : Occupied(task_levels', l) => l >= current_level'
  BY <1>3, <1>4, <1>8
<1>17. PriorityRespected' /\ NoFault'
  BY <1>12, <1>16 DEF Inv, PriorityRespected, NoFault
<1>18. SliceArmed' /\ Active(Idle)' /\ Ranked'
  BY <1>3, <1>12, <1>13 DEF Inv, SliceArmed, Ranked, Active
<1> QED BY <1>7, <1>14, <1>15, <1>16, <1>17, <1>18 DEF Inv

(* Every step keeps the invariant. *)
(* The task that a switch leaves is not the one that it finds, unless it   *)
(* is alone at its level.                                                  *)
LEMMA SwitchMovesOn ==
  ASSUME Inv, task_switch, running' = running
  PROVE  task_levels'[current_level'].len_tasks = 1
<1> DEFINE a == current_level
           old == task_levels[a]
           new == Advance(old)
<1>1. /\ WellFormed(old) /\ Inside(old) /\ old.len_tasks > 0
      /\ Current(old) = running /\ a \in Levels /\ running \in Tasks
  BY DEF Inv, Scalars, Lists, RunsCurrent, Occupied
<1>2. Inv'
  BY TaskSwitchInv
<1> DEFINE b == current_level'
<1>3. /\ WellFormed(task_levels'[b]) /\ Inside(task_levels'[b])
      /\ task_levels'[b].len_tasks > 0
      /\ Current(task_levels'[b]) = running' /\ b \in Levels
  BY <1>2 DEF Inv, Scalars, Lists, RunsCurrent, Occupied
<1>4. UNCHANGED <<flags, level>> /\ task_levels' = [task_levels EXCEPT ![a] = new]
  BY DEF task_switch
<1>5. b = a
  <2>1. level[running] = a
    <3>1. running \in Members(old)
      BY <1>1, CurrentIsMember
    <3> QED BY <1>1, <3>1 DEF Inv, Lists
  <2>2. level'[running] = b
    <3>1. running \in Members(task_levels'[b])
      BY <1>3, CurrentIsMember
    <3> QED BY <1>1, <1>2, <1>3, <3>1 DEF Inv, Lists
  <2> QED BY <1>4, <2>1, <2>2
<1>6. task_levels'[b] = new
  BY <1>1, <1>4, <1>5 DEF Inv, Scalars
<1>7. /\ old.current_index \in 0 .. old.len_tasks - 1
      /\ old.len_tasks \in Nat
      /\ new.current_index \in 0 .. new.len_tasks - 1
      /\ new.current_index = IF old.current_index + 1 = old.len_tasks
                             THEN 0 ELSE old.current_index + 1
      /\ new.tasks = old.tasks /\ new.len_tasks = old.len_tasks
  <2>1. /\ old.current_index \in Nat /\ old.len_tasks \in Nat
        /\ new.current_index \in Nat /\ new.len_tasks \in Nat
    BY <1>1, <1>3, <1>6, SizesAssumption DEF WellFormed, LevelType, Tasks
  <2> QED BY <1>1, <1>3, <1>6, <2>1 DEF Inside, Advance
<1>8. old.tasks[old.current_index] = old.tasks[new.current_index]
  BY <1>1, <1>3, <1>6, <1>7 DEF Current
<1>9. old.current_index = new.current_index
  BY <1>1, <1>7, <1>8 DEF WellFormed
<1>10. old.len_tasks = 1
  BY <1>7, <1>9
<1> QED BY <1>6, <1>7, <1>10

LEMMA StepInv == ~ SelfMove /\ Inv /\ [Next]_vars => Inv'
<1> SUFFICES ASSUME ~ SelfMove, Inv, [Next]_vars PROVE Inv'
  OBVIOUS
<1>1. CASE new_task
  BY <1>1, NewTaskInv
<1>2. ASSUME NEW t \in Tasks, NEW lv \in Levels \cup {Keep},
             NEW pr \in Priorities \cup {Keep}, CallersRun(t, lv, pr)
      PROVE  Inv'
  <2>1. /\ level[t] = NoLevel => lv # Keep /\ pr # Keep
        /\ t = running => Target(t, lv) = level[t]
        /\ run_task(t, lv, pr)
    BY <1>2 DEF CallersRun
  <2>2. Target(t, lv) \in Levels
    BY <2>1, SizesAssumption DEF Target, Keep, Levels, Inv, Scalars
  <2> QED BY <2>1, <2>2, RunTaskInv
<1>3. ASSUME NEW t \in Tasks \ {Idle}, task_sleep(t) PROVE Inv'
  BY <1>3, TaskSleepInv
<1>4. CASE task_switch
  BY <1>4, TaskSwitchInv
<1>5. ASSUME NEW t \in Tasks, Wake(t) PROVE Inv'
  <2>1. level[t] # NoLevel /\ run_task(t, Keep, Keep)
    BY <1>5 DEF Wake
  <2>2. Target(t, Keep) = level[t] /\ level[t] \in Levels
    BY <2>1 DEF Target, Keep, Inv, Scalars
  <2> QED BY <2>1, <2>2, RunTaskInv
<1>6. CASE UNCHANGED vars
  BY <1>6
  DEF vars, Inv, Scalars, Lists, RunsCurrent, Occupied, PriorityRespected,
      NoFault, Ranked, SliceArmed, Active
<1> QED BY <1>1, <1>2, <1>3, <1>4, <1>5, <1>6 DEF Next, Calls, Interrupts

(* The invariant holds throughout. *)
LEMMA Invariant ==
  ASSUME ~ SelfMove
  PROVE  Spec => []Inv
<1>1. Inv /\ [Next]_vars => Inv'
  BY StepInv
<1> QED BY <1>1, InitInv, PTL DEF Spec

(* What the invariant says in terms of the properties of the module. *)
LEMMA InvImplies ==
  Inv => /\ ListsMatchFlags
         /\ IndexInside
         /\ CurrentIsRunning
         /\ PriorityRespected
         /\ NoFault
         /\ SliceArmed
<1> SUFFICES ASSUME Inv
             PROVE  ListsMatchFlags /\ IndexInside /\ CurrentIsRunning
  BY DEF Inv
<1>1. ListsMatchFlags
  <2>1. ASSUME NEW l \in Levels, NEW i \in InRange(l)
        PROVE  LET t == task_levels[l].tasks[i]
               IN  /\ t \in Tasks
                   /\ Active(t)
                   /\ level[t] = l
                   /\ \A j \in InRange(l) : task_levels[l].tasks[j] = t => j = i
    <3> DEFINE tl == task_levels[l]
    <3>1. WellFormed(tl) /\ \A t \in Tasks : t \in Members(tl) => Active(t) /\ level[t] = l
      BY DEF Inv, Lists
    <3>2. tl.tasks[i] \in Tasks /\ tl.tasks[i] \in Members(tl)
      BY <3>1 DEF WellFormed, Members, InRange
    <3>3. \A j \in InRange(l) : tl.tasks[j] = tl.tasks[i] => j = i
      BY <3>1 DEF WellFormed, InRange
    <3> QED BY <3>1, <3>2, <3>3
  <2>2. ASSUME NEW t \in Tasks, Active(t)
        PROVE  level[t] \in Levels /\ Listed(task_levels[level[t]], t)
    BY <2>2, MembersListed DEF Inv, Lists, Ranked
  <2> QED BY <2>1, <2>2 DEF ListsMatchFlags
<1>2. IndexInside
  BY DEF Inv, Lists, Inside, IndexInside
<1>3. CurrentIsRunning
  BY CurrentTask DEF CurrentIsRunning
<1> QED BY <1>1, <1>2, <1>3

(* Lists and flags agree in every reachable state, for any number of       *)
(* tasks and levels: no task is listed twice, lost or left behind.         *)
THEOREM ListsAgree ==
  ASSUME ~ SelfMove
  PROVE  Spec => []ListsMatchFlags
  BY Invariant, InvImplies, PTL

(* Each level's index is inside its list, so that task_switch's test for   *)
(* equality wraps it, and remove_task never leaves it behind the end.      *)
THEOREM IndicesInside ==
  ASSUME ~ SelfMove
  PROVE  Spec => []IndexInside
  BY Invariant, InvImplies, PTL

(* current_task() is the task the processor runs.                          *)
THEOREM DispatchIsRight ==
  ASSUME ~ SelfMove
  PROVE  Spec => []CurrentIsRunning
  BY Invariant, InvImplies, PTL

(* No ASSERT of the scheduler fails, and no jump of task_switch or         *)
(* task_sleep goes astray or to the running task.                          *)
THEOREM NoJumpAstray ==
  ASSUME ~ SelfMove
  PROVE  Spec => []NoFault
  BY Invariant, InvImplies, PTL

(* The most urgent occupied level runs, unless the next switch is told to  *)
(* look.                                                                   *)
THEOREM UrgentFirst ==
  ASSUME ~ SelfMove
  PROVE  Spec => []PriorityRespected
  BY Invariant, InvImplies, PTL

(* Each switch asks for a time that add_timer accepts: no task is given a  *)
(* priority of 0, whatever callers pass.                                   *)
THEOREM SwitchIsArmed ==
  ASSUME ~ SelfMove
  PROVE  Spec => []SliceArmed
  BY Invariant, InvImplies, PTL

(* A switch never lets a task keep the processor while a more urgent level *)
(* is occupied, and within a level only while no other task is listed.     *)
THEOREM SwitchIsFair ==
  ASSUME ~ SelfMove
  PROVE  Spec => SwitchPreempts
<1>1. Inv /\ [Next]_vars =>
        [Running /\ task_switch =>
           /\ \A l \in Levels : Occupied(task_levels', l) => l >= current_level'
           /\ running' = running => \/ task_levels'[current_level'].len_tasks = 1
                                    \/ fault' # "none"]_vars
  BY TaskSwitchInv, SwitchMovesOn
<1> QED BY <1>1, Invariant, PTL DEF Spec, SwitchPreempts
=============================================================================
