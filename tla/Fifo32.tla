------------------------------- MODULE Fifo32 -------------------------------
(***************************************************************************)
(* The 32-bit ring buffer of device/buffer.c.  next_write and next_read    *)
(* wrap lazily: each may rest at Size, one past the last slot, and is      *)
(* folded back to 0 only by the next call that uses it.                    *)
(*                                                                         *)
(* The operators Put and Get map a buffer to a buffer, so that the modules *)
(* that compose the buffer with its callers can call them several times in *)
(* one interrupt handler; the actions below them are one call each.        *)
(***************************************************************************)
EXTENDS Integers, Sequences

CONSTANTS Size, Data, Ok, Overflow, Empty

ASSUME SizeAssumption == Size \in Nat \ {0}
ASSUME ReturnAssumption == Ok # Overflow

VARIABLES fifo,   \* struct FIFO32_BUF
          awake,  \* fifo32->task->flags = TASK_ACTIVE_FLAG
          ret     \* what the last call returned

vars == <<fifo, awake, ret>>

Slots == 0 .. Size - 1

(* fifo32_init, over the memory that memman_alloc returned: whatever was   *)
(* in the slots stays there.                                               *)
fifo32_init(memory) ==
  [buf |-> memory, next_write |-> 0, next_read |-> 0,
   free |-> Size, overflow |-> FALSE]

fifo32_data_available(f) == Size - f.free

Full(f) == f.free = 0
IsEmpty(f) == f.free = Size

(* Mutant: the index wraps one slot early. *)
WrapIndexEarly(i) == IF i = Size - 1 THEN 0 ELSE i

(* if (i == size) i -= size *)
WrapIndex(i) == IF i = Size THEN 0 ELSE i

Put(f, d) ==
  IF Full(f)
  THEN [f EXCEPT !.overflow = TRUE]
  ELSE LET slot == WrapIndex(f.next_write)
       IN  [buf |-> [f.buf EXCEPT ![slot] = d], next_write |-> slot + 1,
            next_read |-> f.next_read, free |-> f.free - 1,
            overflow |-> f.overflow]

Get(f) ==
  IF IsEmpty(f)
  THEN f
  ELSE [buf |-> f.buf, next_write |-> f.next_write,
        next_read |-> WrapIndex(f.next_read) + 1, free |-> f.free + 1,
        overflow |-> f.overflow]

GetResult(f) == IF IsEmpty(f) THEN Empty ELSE f.buf[WrapIndex(f.next_read)]

-----------------------------------------------------------------------------
Init ==
  /\ \E memory \in [Slots -> Data] : fifo = fifo32_init(memory)
  /\ awake \in BOOLEAN
  /\ ret = Ok

(* Mutant: a put does not wake the consumer's task. *)
PutWithoutWake(d) ==
  /\ fifo' = Put(fifo, d)
  /\ ret' = IF Full(fifo) THEN Overflow ELSE Ok
  /\ UNCHANGED awake

(* The buffer's part of run_task(fifo32->task, -1, -1), which a successful *)
(* put calls when the task is not active: the task becomes active.         *)
fifo32_put(d) ==
  /\ fifo' = Put(fifo, d)
  /\ ret' = IF Full(fifo) THEN Overflow ELSE Ok
  /\ awake' = (awake \/ ~ Full(fifo))

fifo32_get ==
  /\ fifo' = Get(fifo)
  /\ ret' = GetResult(fifo)
  /\ UNCHANGED awake

(* The consumer's task goes to sleep; when it may do so is the main loop's *)
(* affair and not the buffer's.                                            *)
TaskSleep ==
  /\ awake
  /\ awake' = FALSE
  /\ UNCHANGED <<fifo, ret>>

Next ==
  \/ \E d \in Data : fifo32_put(d)
  \/ fifo32_get
  \/ TaskSleep

Spec == Init /\ [][Next]_vars

-----------------------------------------------------------------------------
(* Type invariant: the indices stay in 0..Size, the rest position Size     *)
(* included, and every slot holds a word.                                  *)
TypeOK ==
  /\ fifo \in [buf : [Slots -> Data], next_write : 0 .. Size,
               next_read : 0 .. Size, free : 0 .. Size, overflow : BOOLEAN]
  /\ awake \in BOOLEAN
  /\ ret \in Data \cup {Ok, Overflow, Empty}

(* The three counters of the buffer agree, although put moves two of them, *)
(* get the other two and each wraps on its own: walking from next_read     *)
(* over the items said to be there ends at next_write, on this lap or the  *)
(* next.  It is what keeps a put from overwriting an item not yet taken    *)
(* and a get from returning a slot not yet written.                        *)
CountersAgree ==
  fifo.next_read + fifo32_data_available(fifo)
    \in {fifo.next_write, fifo.next_write + Size}

(* The k-th slot after next_read, k = 0 being the next one to be read. *)
SlotAt(f, k) ==
  IF f.next_read + k < Size THEN f.next_read + k ELSE f.next_read + k - Size

Contents(f) ==
  [k \in 1 .. fifo32_data_available(f) |-> f.buf[SlotAt(f, k - 1)]]

Queue == INSTANCE BoundedQueue
           WITH queue <- Contents(fifo), overflowed <- fifo.overflow

(* The ring buffer implements the bounded queue: items come out in the     *)
(* order they went in, none is lost, invented or returned twice, a full    *)
(* buffer rejects the new item only, and a successful put leaves the       *)
(* consumer awake.                                                         *)
ImplementsBoundedQueue == Queue!Spec
=============================================================================
