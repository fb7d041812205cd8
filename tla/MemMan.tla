------------------------------- MODULE MemMan -------------------------------
(***************************************************************************)
(* The memory manager of memory/memory.c: a sorted array of the pieces of  *)
(* free memory.  Addresses are integers: memory ends far enough below 2^32 *)
(* (bootpack.c tests at most 3 GB) for their sums not to wrap.             *)
(*                                                                         *)
(* memman_alloc and memman_free are called by the main task only, so that  *)
(* a call is one step.  `held' is not in the code: it is what the callers  *)
(* know, the blocks they were given and have not given back.               *)
(***************************************************************************)
EXTENDS Integers, FiniteSetsExt

CONSTANTS MEMMAN_SIZE,  \* entries of free_info
          Start, End,   \* memory found by memtest_sub: Start .. End - 1
          PageSize,     \* 0x1000
          Requests,     \* sizes that callers ask for
          NULL

ASSUME MemoryAssumption ==
  /\ MEMMAN_SIZE \in Nat \ {0}
  /\ Start \in Nat \ {0} /\ End \in Nat /\ Start < End
  /\ PageSize \in Nat \ {0}
  /\ NULL \in Int /\ NULL < Start
ASSUME RequestsAssumption == Requests \subseteq Nat \ {0}

VARIABLES free_info,    \* the entries in use, from 1
          free_num, max_free, lost_size, lost_num,
          held,         \* the blocks handed out
          result        \* what the last memman_alloc returned

man == <<free_info, free_num, max_free, lost_size, lost_num>>
vars == <<man, held, result>>

Entries == 1 .. free_num

Finish(e) == e.start + e.size

Piece(a, size) == [start |-> a, size |-> size]

RoundUp(size) == ((size + PageSize - 1) \div PageSize) * PageSize

-----------------------------------------------------------------------------
(* free_info without its entry i, and with e before its entry i. *)
Removed(i) ==
  [k \in 1 .. free_num - 1 |-> IF k < i THEN free_info[k]
                               ELSE free_info[k + 1]]

Inserted(i, e) ==
  [k \in 1 .. free_num + 1 |-> IF k < i THEN free_info[k]
                               ELSE IF k = i THEN e ELSE free_info[k - 1]]

(* Mutant: a piece just as long as the request is passed over. *)
Longer(size) == {i \in Entries : free_info[i].size > size}

\* The entries that memman_alloc could take the block from.
LongEnough(size) == {i \in Entries : free_info[i].size >= size}

\* The first of them.
FirstFit(size) == CHOOSE i \in LongEnough(size) :
                    \A j \in LongEnough(size) : i <= j

UsedUp(i, size) == free_info[i].size = size

(* Mutant: the entry gets shorter at its end. *)
StartKept(e, size) == Piece(e.start, e.size - size)

Rest(e, size) == Piece(e.start + size, e.size - size)

Take(i, size) ==
  /\ result' = free_info[i].start
  /\ held' = held \cup {[addr |-> free_info[i].start, size |-> size]}
  /\ IF UsedUp(i, size)
     THEN free_num' = free_num - 1 /\ free_info' = Removed(i)
     ELSE /\ free_info' = [free_info EXCEPT ![i] = Rest(@, size)]
          /\ UNCHANGED free_num
  /\ UNCHANGED <<max_free, lost_size, lost_num>>

memman_alloc(size) ==
  IF LongEnough(size) # {}
  THEN Take(FirstFit(size), size)
  ELSE result' = NULL /\ UNCHANGED <<man, held>>

memman_alloc_4k(size) == memman_alloc(RoundUp(size))

-----------------------------------------------------------------------------
(* How many entries start at or below the address: the free block belongs  *)
(* after them.                                                             *)
Before(addr) == CHOOSE i \in 0 .. free_num :
                  /\ \A k \in 1 .. i : free_info[k].start <= addr
                  /\ i < free_num => free_info[i + 1].start > addr

JoinsPrevious(addr) ==
  Before(addr) > 0 /\ Finish(free_info[Before(addr)]) = addr

(* Mutant: a block is never merged with the piece that follows it. *)
JoinsNone(addr, size) == FALSE

JoinsNext(addr, size) ==
  /\ Before(addr) < free_num
  /\ addr + size = free_info[Before(addr) + 1].start

\* The block closes the gap between two entries.
Bridge(i, size) ==
  /\ free_num' = free_num - 1
  /\ free_info' = [Removed(i + 1) EXCEPT
       ![i] = Piece(@.start, @.size + size + free_info[i + 1].size)]
  /\ UNCHANGED <<max_free, lost_size, lost_num>>

Extend(i, e) ==
  /\ free_info' = [free_info EXCEPT ![i] = e]
  /\ UNCHANGED <<free_num, max_free, lost_size, lost_num>>

Insert(i, e) ==
  /\ free_num' = free_num + 1
  /\ free_info' = Inserted(i, e)
  /\ max_free' = Max({max_free, free_num + 1})
  /\ UNCHANGED <<lost_size, lost_num>>

(* Mutant: what is lost is not counted. *)
LeakUncounted(size) == UNCHANGED man

Leak(size) ==
  /\ lost_num' = lost_num + 1
  /\ lost_size' = lost_size + size
  /\ UNCHANGED <<free_info, free_num, max_free>>

GiveBack(addr, size) ==
  LET i == Before(addr)
  IN  IF JoinsPrevious(addr)
      THEN IF JoinsNext(addr, size)
           THEN Bridge(i, size)
           ELSE Extend(i, Piece(free_info[i].start, free_info[i].size + size))
      ELSE IF JoinsNext(addr, size)
      THEN Extend(i + 1, Piece(addr, free_info[i + 1].size + size))
      ELSE IF free_num < MEMMAN_SIZE
      THEN Insert(i + 1, Piece(addr, size))
      ELSE Leak(size)

(* A caller gives back a block it holds, all of it. *)
memman_free(b) ==
  /\ GiveBack(b.addr, b.size)
  /\ held' = held \ {b}
  /\ UNCHANGED result

(* With the size it asked memman_alloc_4k for, any that rounds up to what  *)
(* it was given.                                                           *)
memman_free_4k(b, size) ==
  /\ GiveBack(b.addr, RoundUp(size))
  /\ held' = held \ {b}
  /\ UNCHANGED result

-----------------------------------------------------------------------------
\* memman_init, and the memman_free of all memory that follows it.
memman_init ==
  /\ free_info = [k \in 1 .. 1 |-> Piece(Start, End - Start)]
  /\ free_num = 1 /\ max_free = 1
  /\ lost_size = 0 /\ lost_num = 0
  /\ held = {} /\ result = NULL

memman_available == MapThenSumSet(LAMBDA i : free_info[i].size, Entries)

Next ==
  \/ \E size \in Requests : memman_alloc(size) \/ memman_alloc_4k(size)
  \/ \E b \in held : memman_free(b)
  \/ \E b \in held, size \in Requests :
        b.size = RoundUp(size) /\ memman_free_4k(b, size)

Spec == memman_init /\ [][Next]_vars

-----------------------------------------------------------------------------
TypeOK ==
  /\ free_num \in 0 .. MEMMAN_SIZE
  /\ free_info \in [Entries -> [start : Start .. End - 1,
                                size : 1 .. End - Start]]
  /\ max_free \in free_num .. MEMMAN_SIZE
  /\ lost_size \in Nat /\ lost_num \in Nat
  /\ held \subseteq [addr : Start .. End - 1, size : 1 .. End - Start]
  /\ result \in {NULL} \cup Start .. End - 1

(* The pieces are in order and never touch: if two did, a request as long  *)
(* as both together would fail although the memory is there.               *)
Coalesced ==
  /\ \A i, j \in Entries : i < j => Finish(free_info[i]) < free_info[j].start
  /\ \A i \in Entries : Finish(free_info[i]) <= End

Apart(a, m, b, n) == a + m <= b \/ b + n <= a

(* No address is handed out twice, or handed out and still listed as free: *)
(* whatever was split, merged and moved in free_info in between.           *)
NoSharing ==
  /\ \A b, c \in held : b # c => Apart(b.addr, b.size, c.addr, c.size)
  /\ \A b \in held, i \in Entries :
       Apart(b.addr, b.size, free_info[i].start, free_info[i].size)

(* Memory is free, held, or counted in lost_size. *)
Conserved ==
  memman_available + MapThenSumSet(LAMBDA b : b.size, held) + lost_size
    = End - Start

FreeAddresses ==
  UNION {free_info[i].start .. Finish(free_info[i]) - 1 : i \in Entries}

H == INSTANCE Heap WITH
       free <- FreeAddresses, Pieces <- MEMMAN_SIZE,
       Sizes <- Requests \cup {RoundUp(size) : size \in Requests}

(* A request fails only when there is no room for it in one piece, and     *)
(* memory is lost only when the list is full and the block touches no      *)
(* piece of it.                                                            *)
ImplementsHeap == H!Spec
=============================================================================
