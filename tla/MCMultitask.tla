---------------------------- MODULE MCMultitask ----------------------------
(***************************************************************************)
(* The scheduler on five task slots and three levels: the main and the     *)
(* idle task and three created ones, so that a level can hold four tasks,  *)
(* entries can be removed before, at and after the index, and a level      *)
(* between the main task's and the idle task's exists.                     *)
(***************************************************************************)
EXTENDS Multitask

(* The state without the entries past the end of each level, which no      *)
(* operation reads while IndexInside holds (that is checked), and without  *)
(* slice, which nothing reads: states that differ only there behave alike. *)
View ==
  <<flags, level, priority, current_level, level_change_flag, running, fault,
    slice > 0,
    [l \in Levels |->
       <<task_levels[l].len_tasks, task_levels[l].current_index,
         [i \in InRange(l) |-> task_levels[l].tasks[i]]>>]>>
=============================================================================
