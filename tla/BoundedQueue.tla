---------------------------- MODULE BoundedQueue ----------------------------
(***************************************************************************)
(* What sys_buf promises to the interrupt handlers (producers) and to the  *)
(* main loop (consumer): a first-in first-out queue of at most Size items. *)
(* A full queue rejects the new item and keeps every old one, and an       *)
(* accepted item leaves the consumer's task awake.                         *)
(***************************************************************************)
EXTENDS Naturals, Sequences

CONSTANTS Size,      \* capacity, in items
          Data,      \* the items
          Ok,        \* return value 0
          Overflow,  \* return value BUFFER_RET_OVERFLOW
          Empty      \* return value BUFFER_RET_EMPTY

VARIABLES queue,       \* the accepted items not yet taken, oldest first
          overflowed,  \* TRUE once an item has been rejected
          awake,       \* the consumer's task is schedulable
          ret          \* what the last call returned

vars == <<queue, overflowed, awake, ret>>

Init ==
  /\ queue = <<>>
  /\ overflowed = FALSE
  /\ awake \in BOOLEAN
  /\ ret = Ok

Accept(d) ==
  /\ Len(queue) < Size
  /\ queue' = Append(queue, d)
  /\ awake' = TRUE
  /\ ret' = Ok
  /\ UNCHANGED overflowed

Reject ==
  /\ Len(queue) = Size
  /\ overflowed' = TRUE
  /\ ret' = Overflow
  /\ UNCHANGED <<queue, awake>>

Take ==
  /\ queue # <<>>
  /\ queue' = Tail(queue)
  /\ ret' = Head(queue)
  /\ UNCHANGED <<overflowed, awake>>

TakeNothing ==
  /\ queue = <<>>
  /\ ret' = Empty
  /\ UNCHANGED <<queue, overflowed, awake>>

Sleep ==
  /\ awake
  /\ awake' = FALSE
  /\ UNCHANGED <<queue, overflowed, ret>>

Next ==
  \/ \E d \in Data : Accept(d)
  \/ Reject
  \/ Take
  \/ TakeNothing
  \/ Sleep

Spec == Init /\ [][Next]_vars
=============================================================================
