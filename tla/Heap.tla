-------------------------------- MODULE Heap --------------------------------
(***************************************************************************)
(* What the memory manager promises: callers hold blocks of memory that    *)
(* nobody else holds; a request fails only when no run of free memory is   *)
(* as long as the request; memory given back is free again, unless the     *)
(* free memory is already in as many pieces as the manager can list and    *)
(* the block touches none of them: then the block is lost for good.        *)
(***************************************************************************)
EXTENDS Integers, FiniteSets

CONSTANTS Start, End,   \* memory is Start .. End - 1
          Pieces,       \* how many pieces of free memory can be listed
          Sizes,        \* the sizes requested
          NULL          \* the result of a request that fails

VARIABLES free,         \* the free addresses
          held,         \* the blocks handed out
          result        \* of the last request

vars == <<free, held, result>>

Extent(a, size) == a .. a + size - 1

Init == free = Start .. End - 1 /\ held = {} /\ result = NULL

Fits(a, size) == Extent(a, size) \subseteq free

Grant(size) ==
  \E a \in free :
     /\ Fits(a, size)
     /\ free' = free \ Extent(a, size)
     /\ held' = held \cup {[addr |-> a, size |-> size]}
     /\ result' = a

Refuse(size) ==
  /\ \A a \in free : ~ Fits(a, size)
  /\ result' = NULL
  /\ UNCHANGED <<free, held>>

Release(b) ==
  /\ free' = free \cup Extent(b.addr, b.size)
  /\ held' = held \ {b}
  /\ UNCHANGED result

\* The first addresses of the pieces.
Heads == {a \in free : a - 1 \notin free}

Lose(b) ==
  /\ Cardinality(Heads) = Pieces
  /\ b.addr - 1 \notin free /\ b.addr + b.size \notin free
  /\ held' = held \ {b}
  /\ UNCHANGED <<free, result>>

Next ==
  \/ \E size \in Sizes : Grant(size) \/ Refuse(size)
  \/ \E b \in held : Release(b) \/ Lose(b)

Spec == Init /\ [][Next]_vars
=============================================================================
