--------------------------- MODULE MemMan_proofs ---------------------------
(***************************************************************************)
(* Proofs about the memory manager, for any memory, any length of the list *)
(* and any sizes that callers request.  Inv adds to the checked invariants *)
(* that what callers hold lies in the memory: without it a block given     *)
(* back could reach past the end.  The second part proves that the sorted  *)
(* array of pieces implements the heap: the pieces of Heap are the entries *)
(* of free_info, which are apart (PiecesMerged), so that a run of free     *)
(* memory lies within one entry.  As the pieces and the blocks held are    *)
(* apart, their sizes add up to the number of their addresses, and that    *)
(* memory is conserved is a matter of counting those.                      *)
(***************************************************************************)
EXTENDS MemMan, FiniteSetTheorems, WellFoundedInduction, TLAPS

Pieces == [start : Start .. End - 1, size : 1 .. End - Start]

Blocks == [addr : Start .. End - 1, size : 1 .. End - Start]

HeldInside == \A b \in held : b.addr + b.size <= End

Inv == TypeOK /\ Coalesced /\ NoSharing /\ HeldInside

(* A set of naturals that is not empty has a least element. *)
LEMMA LeastElement ==
  ASSUME NEW T, T \subseteq Nat, T # {}
  PROVE  \E x \in T : \A y \in T : x <= y
<1> DEFINE R == {ss \in Nat \X Nat : ss[1] < ss[2]}
<1>1. R = OpToRel(<, Nat)
  BY DEF OpToRel
<1>2. IsWellFoundedOn(R, Nat)
  BY <1>1, NatLessThanWellFounded
<1>3. PICK x \in T : \A y \in T : ~ (<<y, x>> \in R)
  BY <1>2, WFMin
<1>4. \A y \in T : ~ (y < x)
  BY <1>3
<1>5. \A y \in T : x <= y
  BY <1>4
<1> QED BY <1>5

(* Rounding a positive size up leaves it positive. *)
LEMMA RoundUpPositive ==
  ASSUME NEW size \in Nat \ {0}
  PROVE  RoundUp(size) \in Nat \ {0}
<1> DEFINE q == (size + PageSize - 1) \div PageSize
<1>1. PageSize \in Nat \ {0}
  BY MemoryAssumption
<1>2. q \in Nat /\ q >= 1
  BY <1>1
<1> HIDE DEF q
<1>3. q * PageSize \in Nat \ {0}
  BY <1>1, <1>2
<1> QED BY <1>3 DEF RoundUp, q

(* What the type invariant says of an entry. *)
LEMMA EntryTypes ==
  ASSUME TypeOK
  PROVE  /\ free_num \in Nat /\ free_num <= MEMMAN_SIZE
         /\ \A k \in Entries :
              /\ free_info[k] \in Pieces
              /\ free_info[k].start \in Int /\ free_info[k].size \in Int
              /\ free_info[k].start >= Start /\ free_info[k].size >= 1
<1>1. \A k \in Entries : free_info[k] \in Pieces
  BY DEF TypeOK, Pieces
<1>2. \A e \in Pieces : /\ e.start \in Int /\ e.size \in Int
                        /\ e.start >= Start /\ e.size >= 1
  BY MemoryAssumption DEF Pieces
<1>3. free_num \in Nat /\ free_num <= MEMMAN_SIZE
  BY MemoryAssumption DEF TypeOK
<1> QED BY <1>1, <1>2, <1>3

(* The search of memman_alloc finds an entry that is long enough. *)
LEMMA FirstFitIsLongEnough ==
  ASSUME TypeOK, NEW size, LongEnough(size) # {}
  PROVE  /\ FirstFit(size) \in Entries
         /\ free_info[FirstFit(size)].size >= size
<1>1. LongEnough(size) \subseteq Nat
  BY DEF LongEnough, Entries, TypeOK
<1>2. \E x \in LongEnough(size) : \A y \in LongEnough(size) : x <= y
  BY <1>1, LeastElement
<1>3. FirstFit(size) \in LongEnough(size)
  BY <1>2 DEF FirstFit
<1> QED BY <1>3 DEF LongEnough

(* The search of memman_free stops where the address belongs. *)
LEMMA BeforeFound ==
  ASSUME TypeOK, Coalesced, NEW addr \in Int
  PROVE  /\ Before(addr) \in 0 .. free_num
         /\ \A k \in 1 .. Before(addr) : free_info[k].start <= addr
         /\ \A k \in Before(addr) + 1 .. free_num : free_info[k].start > addr
<1> DEFINE After == {k \in Entries : free_info[k].start > addr}
           Stops(i) == /\ \A k \in 1 .. i : free_info[k].start <= addr
                       /\ i < free_num => free_info[i + 1].start > addr
<1>1. /\ free_num \in Nat
      /\ \A k \in Entries :
           /\ free_info[k].start \in Int /\ free_info[k].size \in Int
           /\ free_info[k].size >= 1
  BY EntryTypes
<1>2. \E i \in 0 .. free_num : Stops(i)
  <2>1. CASE After = {}
    <3>1. Stops(free_num)
      BY <1>1, <2>1 DEF Entries
    <3> QED BY <1>1, <3>1
  <2>2. CASE After # {}
    <3>1. PICK x \in After : \A y \in After : x <= y
      <4>1. After \subseteq Nat
        BY <1>1 DEF Entries
      <4> QED BY <4>1, <2>2, LeastElement
    <3>2. x - 1 \in 0 .. free_num /\ Stops(x - 1)
      BY <1>1, <3>1 DEF Entries
    <3> QED BY <3>2
  <2> QED BY <2>1, <2>2
<1> DEFINE i == Before(addr)
<1>3. i \in 0 .. free_num /\ Stops(i)
  BY <1>2 DEF Before
<1> HIDE DEF i
<1>4. ASSUME NEW k \in i + 1 .. free_num
      PROVE  free_info[k].start > addr
  <2>1. CASE k = i + 1
    BY <1>1, <1>3, <2>1
  <2>2. CASE k > i + 1
    <3>1. i + 1 \in Entries /\ k \in Entries /\ i + 1 < k
      BY <1>1, <1>3, <2>2 DEF Entries
    <3>2. Finish(free_info[i + 1]) < free_info[k].start
      BY <3>1 DEF Coalesced
    <3>3. free_info[i + 1].start > addr
      BY <1>1, <1>3, <3>1 DEF Entries
    <3>4. /\ free_info[i + 1].start \in Int /\ free_info[i + 1].size \in Int
          /\ free_info[i + 1].size >= 1 /\ free_info[k].start \in Int
      BY <1>1, <3>1
    <3> QED BY <3>2, <3>3, <3>4 DEF Finish
  <2> QED BY <1>3, <1>1, <2>1, <2>2
<1> QED BY <1>3, <1>4 DEF i

-----------------------------------------------------------------------------
(* A block apart from two neighbouring ones is apart from both together.   *)
LEMMA ApartUnion ==
  ASSUME NEW a \in Int, NEW m \in Nat \ {0}, NEW b \in Int,
         NEW n \in Nat \ {0}, NEW k \in Nat \ {0},
         Apart(a, m, b, n), Apart(a, m, b + n, k)
  PROVE  Apart(a, m, b, n + k)
BY DEF Apart

(* What the type invariant says of a held block. *)
LEMMA BlockTypes ==
  ASSUME TypeOK, NEW b \in held
  PROVE  /\ b \in Blocks
         /\ b.addr \in Int /\ b.addr >= Start /\ b.addr <= End - 1
         /\ b.size \in Nat \ {0}
<1>1. b \in Blocks
  BY DEF TypeOK, Blocks
<1> QED BY <1>1, MemoryAssumption DEF Blocks

(* memman_alloc takes the front of an entry: what is left of the entry is  *)
(* still apart from its neighbours, and the block from everything else.    *)
LEMMA TakeKeepsInv ==
  ASSUME Inv, NEW i \in Entries, NEW size \in Nat \ {0},
         free_info[i].size >= size, Take(i, size)
  PROVE  Inv'
<1> DEFINE e == free_info[i]
           blk == [addr |-> e.start, size |-> size]
<1>1. TypeOK /\ Coalesced /\ NoSharing /\ HeldInside
  BY DEF Inv
<1>2. /\ free_num \in Nat /\ free_num <= MEMMAN_SIZE
      /\ \A k \in Entries :
           /\ free_info[k] \in Pieces
           /\ free_info[k].start \in Int /\ free_info[k].size \in Int
           /\ free_info[k].start >= Start /\ free_info[k].size >= 1
  BY <1>1, EntryTypes
<1>3. /\ e \in Pieces /\ e.start \in Int /\ e.size \in Int
      /\ e.start >= Start /\ e.size >= 1 /\ Finish(e) <= End
  BY <1>1, <1>2 DEF Coalesced
<1>4. i \in 1 .. free_num
  BY DEF Entries
<1>5. held' = held \cup {blk} /\ result' = e.start
  BY DEF Take
<1>6. blk \in Blocks /\ blk.addr = e.start /\ blk.size = size
      /\ e.start + size <= End
  BY <1>3, MemoryAssumption DEF Blocks, Finish
<1>7. /\ held' \subseteq Blocks
      /\ HeldInside'
      /\ result' \in {NULL} \cup Start .. End - 1
  <2>1. e.start \in Start .. End - 1
    BY <1>3, MemoryAssumption DEF Finish
  <2>2. held \subseteq Blocks
    BY <1>1 DEF TypeOK, Blocks
  <2> QED BY <1>1, <1>5, <1>6, <2>1, <2>2 DEF HeldInside
<1>8. max_free' = max_free /\ lost_size' = lost_size /\ lost_num' = lost_num
  BY DEF Take
<1>9. \A b, c \in held' : b # c => Apart(b.addr, b.size, c.addr, c.size)
  <2>1. ASSUME NEW b \in held
        PROVE  /\ Apart(b.addr, b.size, e.start, size)
               /\ Apart(e.start, size, b.addr, b.size)
    <3>1. Apart(b.addr, b.size, e.start, e.size)
      BY <1>1 DEF NoSharing
    <3>2. b.addr \in Int /\ b.size \in Nat \ {0}
      BY <1>1, BlockTypes
    <3> QED BY <3>1, <3>2, <1>3 DEF Apart
  <2>2. \A b, c \in held : b # c => Apart(b.addr, b.size, c.addr, c.size)
    BY <1>1 DEF NoSharing
  <2> QED BY <2>1, <2>2, <1>5, <1>6
<1> HIDE DEF e, blk
<1>10. CASE UsedUp(i, size)
  <2>1. /\ free_num' = free_num - 1 /\ free_info' = Removed(i)
        /\ e.size = size
    BY <1>10 DEF Take, UsedUp, e
  <2>2. Entries' = 1 .. free_num - 1
    BY <2>1 DEF Entries
  <2>3. ASSUME NEW k \in Entries'
        PROVE  \/ k < i /\ k \in Entries /\ free_info'[k] = free_info[k]
               \/ k >= i /\ k + 1 \in Entries /\ k + 1 # i
                  /\ free_info'[k] = free_info[k + 1]
    BY <2>1, <2>2, <1>2, <1>4 DEF Removed, Entries
  <2>4. free_info' \in [Entries' -> Pieces]
    <3>1. free_info' = [k \in Entries' |-> IF k < i THEN free_info[k]
                                           ELSE free_info[k + 1]]
      BY <2>1, <2>2 DEF Removed
    <3>2. \A k \in Entries' : free_info'[k] \in Pieces
      BY <2>3, <1>2
    <3> QED BY <3>1, <3>2
  <2>5. TypeOK'
    BY <2>1, <2>4, <1>1, <1>2, <1>4, <1>7, <1>8, MemoryAssumption
       DEF TypeOK, Pieces, Blocks
  <2>6. Coalesced'
    <3>1. ASSUME NEW j \in Entries', NEW k \in Entries', j < k
          PROVE  Finish(free_info'[j]) < free_info'[k].start
      <4>1. i \in Int /\ j \in Int /\ k \in Int
        BY <2>2, <1>2, <1>4
      <4>2. \A p, q \in Entries : p < q =>
               Finish(free_info[p]) < free_info[q].start
        BY <1>1 DEF Coalesced
      <4>3. CASE k < i
        BY <4>1, <4>2, <4>3, <3>1, <2>3
      <4>4. CASE j < i /\ k >= i
        BY <4>1, <4>2, <4>4, <3>1, <2>3
      <4>5. CASE j >= i
        BY <4>1, <4>2, <4>5, <3>1, <2>3
      <4> QED BY <4>1, <1>4, <3>1, <4>3, <4>4, <4>5
    <3>2. \A k \in Entries' : Finish(free_info'[k]) <= End
      BY <2>3, <1>1 DEF Coalesced
    <3> QED BY <3>1, <3>2 DEF Coalesced, Finish
  <2>7. NoSharing'
    <3>1. ASSUME NEW b \in held', NEW k \in Entries
          , k # i
          PROVE  Apart(b.addr, b.size, free_info[k].start, free_info[k].size)
      <4>1. CASE b \in held
        BY <4>1, <1>1 DEF NoSharing
      <4>2. CASE b = blk
        <5>1. Finish(free_info[k]) < e.start \/ Finish(e) < free_info[k].start
          BY <1>1, <1>2, <1>4, <3>1 DEF Coalesced, Entries, e
        <5> QED BY <5>1, <4>2, <2>1, <1>2, <1>3, <1>6 DEF Apart, Finish
      <4> QED BY <4>1, <4>2, <1>5
    <3>2. \A b \in held', k \in Entries' :
             Apart(b.addr, b.size, free_info'[k].start, free_info'[k].size)
      <4>1. i \in Int /\ \A k \in Entries' : k \in Int
        BY <2>2, <1>2, <1>4
      <4> QED BY <4>1, <3>1, <2>3
    <3> QED BY <3>2, <1>9 DEF NoSharing, Apart
  <2> QED BY <2>5, <2>6, <2>7, <1>7 DEF Inv
<1>11. CASE ~ UsedUp(i, size)
  <2>1. /\ free_num' = free_num
        /\ free_info' = [free_info EXCEPT ![i] = Piece(e.start + size, e.size - size)]
        /\ e.size > size
    BY <1>11, <1>3 DEF Take, UsedUp, Rest, e
  <2> DEFINE r == Piece(e.start + size, e.size - size)
  <2>2. /\ r \in Pieces /\ r.start = e.start + size /\ r.size = e.size - size
        /\ Finish(r) = Finish(e)
    BY <2>1, <1>3, MemoryAssumption DEF Piece, Pieces, Finish
  <2> HIDE DEF r
  <2>3. Entries' = Entries
    BY <2>1 DEF Entries
  <2>4. /\ free_info' \in [Entries -> Pieces]
        /\ free_info'[i] = r
        /\ \A k \in Entries : k # i => free_info'[k] = free_info[k]
    <3>1. free_info \in [Entries -> Pieces]
      BY <1>1 DEF TypeOK, Pieces
    <3> QED BY <3>1, <2>1, <2>2 DEF r
  <2>5. TypeOK'
    BY <2>1, <2>3, <2>4, <1>1, <1>7, <1>8 DEF TypeOK, Pieces, Blocks
  <2>6. Coalesced'
    <3>1. ASSUME NEW j \in Entries, NEW k \in Entries, j < k
          PROVE  Finish(free_info'[j]) < free_info'[k].start
      <4>1. Finish(free_info[j]) < free_info[k].start
        BY <1>1, <3>1 DEF Coalesced
      <4>2. CASE j = i
        BY <4>1, <4>2, <2>2, <2>4, <3>1, <1>2 DEF e, Entries
      <4>3. CASE k = i
        <5>1. Finish(free_info[j]) \in Int
          BY <1>2 DEF Finish
        <5>2. free_info'[j] = free_info[j]
          BY <4>3, <2>4, <3>1, <1>2 DEF Entries
        <5> QED BY <4>1, <4>3, <5>1, <5>2, <2>2, <2>4, <1>3 DEF e
      <4>4. CASE j # i /\ k # i
        BY <4>1, <4>4, <2>4
      <4> QED BY <4>2, <4>3, <4>4
    <3>2. \A k \in Entries : Finish(free_info'[k]) <= End
      BY <2>2, <2>4, <1>1, <1>3 DEF Coalesced
    <3> QED BY <3>1, <3>2, <2>3 DEF Coalesced, Finish
  <2>7. NoSharing'
    <3>1. ASSUME NEW b \in held', NEW k \in Entries
          PROVE  Apart(b.addr, b.size, free_info'[k].start, free_info'[k].size)
      <4>1. CASE b \in held
        <5>1. /\ Apart(b.addr, b.size, free_info[k].start, free_info[k].size)
              /\ b.addr \in Int /\ b.size \in Nat \ {0}
          BY <4>1, <1>1, BlockTypes DEF NoSharing
        <5>2. CASE k = i
          BY <5>1, <5>2, <2>2, <2>4, <1>3 DEF Apart, e
        <5>3. CASE k # i
          BY <5>1, <5>3, <2>4
        <5> QED BY <5>2, <5>3
      <4>2. CASE b = blk
        <5>1. CASE k = i
          BY <4>2, <5>1, <2>2, <2>4, <1>3, <1>6 DEF Apart
        <5>2. CASE k # i
          <6>1. Finish(free_info[k]) < e.start \/ Finish(e) < free_info[k].start
            BY <1>1, <1>2, <1>4, <5>2 DEF Coalesced, Entries, e
          <6> QED BY <6>1, <4>2, <5>2, <2>1, <2>4, <1>2, <1>3, <1>6
                  DEF Apart, Finish
        <5> QED BY <5>1, <5>2
      <4> QED BY <4>1, <4>2, <1>5
    <3> QED BY <3>1, <2>3, <1>9 DEF NoSharing, Apart
  <2> QED BY <2>5, <2>6, <2>7, <1>7 DEF Inv
<1> QED BY <1>10, <1>11

-----------------------------------------------------------------------------
(* Where a held block lies among the pieces: after those up to Before, and *)
(* before the others; it touches only those it will be merged with.        *)
LEMMA BlockBetween ==
  ASSUME Inv, NEW b \in held
  PROVE  LET i == Before(b.addr)
         IN  /\ i \in 0 .. free_num
             /\ \A k \in 1 .. i : Finish(free_info[k]) <= b.addr
             /\ \A k \in i + 1 .. free_num :
                   b.addr + b.size <= free_info[k].start
             /\ ~ JoinsPrevious(b.addr) =>
                   \A k \in 1 .. i : Finish(free_info[k]) < b.addr
             /\ ~ JoinsNext(b.addr, b.size) =>
                   \A k \in i + 1 .. free_num :
                      b.addr + b.size < free_info[k].start
<1> DEFINE i == Before(b.addr)
<1>1. TypeOK /\ Coalesced /\ NoSharing
  BY DEF Inv
<1>2. /\ free_num \in Nat
      /\ \A k \in Entries :
           /\ free_info[k].start \in Int /\ free_info[k].size \in Int
           /\ free_info[k].size >= 1
  BY <1>1, EntryTypes
<1>3. b.addr \in Int /\ b.size \in Nat \ {0}
  BY <1>1, BlockTypes
<1>4. /\ i \in 0 .. free_num
      /\ \A k \in 1 .. i : free_info[k].start <= b.addr
      /\ \A k \in i + 1 .. free_num : free_info[k].start > b.addr
  BY <1>1, <1>3, BeforeFound
<1>5. /\ JoinsPrevious(b.addr) <=> i > 0 /\ Finish(free_info[i]) = b.addr
      /\ JoinsNext(b.addr, b.size) <=>
            i < free_num /\ b.addr + b.size = free_info[i + 1].start
  BY DEF JoinsPrevious, JoinsNext
<1> HIDE DEF i
<1>6. ASSUME NEW k \in 1 .. i
      PROVE  /\ Finish(free_info[k]) <= b.addr
             /\ ~ JoinsPrevious(b.addr) => Finish(free_info[k]) < b.addr
  <2>1. k \in Entries /\ k <= i /\ i \in Int /\ k \in Int
    BY <1>2, <1>4 DEF Entries
  <2>2. /\ Apart(b.addr, b.size, free_info[k].start, free_info[k].size)
        /\ free_info[k].start \in Int /\ free_info[k].size \in Int
        /\ free_info[k].start <= b.addr
    BY <2>1, <1>1, <1>2, <1>4 DEF NoSharing
  <2>3. Finish(free_info[k]) <= b.addr
    BY <2>2, <1>3 DEF Apart, Finish
  <2>4. CASE k = i
    BY <2>1, <2>2, <2>3, <2>4, <1>3, <1>5 DEF Finish
  <2>5. CASE k < i
    <3>1. i \in Entries
      BY <1>2, <1>4, <2>1, <2>5 DEF Entries
    <3>2. Finish(free_info[k]) < free_info[i].start
      BY <3>1, <2>1, <2>5, <1>1 DEF Coalesced
    <3>3. free_info[i].start <= b.addr /\ free_info[i].start \in Int
      BY <3>1, <2>1, <2>5, <1>2, <1>4
    <3> QED BY <3>2, <3>3, <2>2, <2>3, <1>3 DEF Finish
  <2> QED BY <2>1, <2>4, <2>5
<1>7. ASSUME NEW k \in i + 1 .. free_num
      PROVE  /\ b.addr + b.size <= free_info[k].start
             /\ ~ JoinsNext(b.addr, b.size) =>
                   b.addr + b.size < free_info[k].start
  <2>1. k \in Entries /\ i + 1 <= k /\ i \in Int /\ k \in Int /\ i < free_num
    BY <1>2, <1>4 DEF Entries
  <2>2. /\ Apart(b.addr, b.size, free_info[k].start, free_info[k].size)
        /\ free_info[k].start \in Int /\ free_info[k].size \in Int
        /\ free_info[k].size >= 1
        /\ free_info[k].start > b.addr
    BY <2>1, <1>1, <1>2, <1>4 DEF NoSharing
  <2>3. b.addr + b.size <= free_info[k].start
    BY <2>2, <1>3 DEF Apart
  <2>4. CASE k = i + 1
    BY <2>1, <2>2, <2>3, <2>4, <1>3, <1>5
  <2>5. CASE i + 1 < k
    <3>1. i + 1 \in Entries
      BY <1>2, <1>4, <2>1, <2>5 DEF Entries
    <3>2. Finish(free_info[i + 1]) < free_info[k].start
      BY <3>1, <2>1, <2>5, <1>1 DEF Coalesced
    <3>3. /\ free_info[i + 1].start \in Int /\ free_info[i + 1].size \in Int
          /\ free_info[i + 1].size >= 1
          /\ Apart(b.addr, b.size, free_info[i + 1].start, free_info[i + 1].size)
      BY <3>1, <1>1, <1>2 DEF NoSharing
    <3>4. free_info[i + 1].start > b.addr
      BY <2>1, <1>2, <1>4
    <3> QED BY <3>2, <3>3, <3>4, <2>2, <1>3 DEF Finish, Apart
  <2> QED BY <2>1, <2>4, <2>5
<1> QED BY <1>4, <1>6, <1>7 DEF i

(* A list in which every piece is apart from every block still held, and   *)
(* in which the pieces are in order, is all that giving a block back has   *)
(* to leave.                                                               *)
LEMMA GivenBack ==
  ASSUME Inv, NEW b \in held, held' = held \ {b}, result' = result,
         free_num' \in 0 .. MEMMAN_SIZE,
         max_free' \in free_num' .. MEMMAN_SIZE,
         lost_size' \in Nat, lost_num' \in Nat,
         free_info' \in [Entries' -> Pieces],
         \A j, k \in Entries' :
            j < k => Finish(free_info'[j]) < free_info'[k].start,
         \A k \in Entries' : Finish(free_info'[k]) <= End,
         \A c \in held' : \A k \in Entries' :
            Apart(c.addr, c.size, free_info'[k].start, free_info'[k].size)
  PROVE  Inv'
<1>1. TypeOK /\ NoSharing /\ HeldInside
  BY DEF Inv
<1>2. TypeOK'
  BY <1>1 DEF TypeOK, Pieces
<1>3. Coalesced'
  BY DEF Coalesced, Finish
<1>4. NoSharing'
  BY <1>1 DEF NoSharing, Apart
<1>5. HeldInside'
  BY <1>1 DEF HeldInside
<1> QED BY <1>2, <1>3, <1>4, <1>5 DEF Inv

(* The blocks that stay held are apart from every piece and from the block *)
(* given back.                                                             *)
LEMMA OthersApart ==
  ASSUME Inv, NEW b \in held, NEW c \in held \ {b}
  PROVE  /\ c.addr \in Int /\ c.size \in Nat \ {0}
         /\ Apart(c.addr, c.size, b.addr, b.size)
         /\ \A k \in Entries :
              Apart(c.addr, c.size, free_info[k].start, free_info[k].size)
<1>1. TypeOK /\ NoSharing
  BY DEF Inv
<1> QED BY <1>1, BlockTypes DEF NoSharing

(* One entry grows by the block, up to the entries beside it.              *)
LEMMA ExtendKeepsInv ==
  ASSUME Inv, NEW b \in held, held' = held \ {b}, result' = result,
         NEW i \in Entries, NEW e \in Pieces, Extend(i, e),
         Finish(e) <= End,
         \A k \in Entries : k < i => Finish(free_info[k]) < e.start,
         \A k \in Entries : k > i => Finish(e) < free_info[k].start,
         \A c \in held \ {b} : Apart(c.addr, c.size, e.start, e.size)
  PROVE  Inv'
<1>1. TypeOK /\ Coalesced
  BY DEF Inv
<1>2. /\ free_num' = free_num /\ max_free' = max_free
      /\ lost_size' = lost_size /\ lost_num' = lost_num
      /\ free_info' = [free_info EXCEPT ![i] = e]
  BY DEF Extend
<1>3. Entries' = Entries /\ \A k \in Entries : k \in Int
  BY <1>1, <1>2, EntryTypes DEF Entries
<1>4. free_info \in [Entries -> Pieces]
  BY <1>1 DEF TypeOK, Pieces
<1>5. /\ free_info' \in [Entries' -> Pieces]
      /\ free_info'[i] = e
      /\ \A k \in Entries : k # i => free_info'[k] = free_info[k]
  BY <1>2, <1>3, <1>4
<1>6. ASSUME NEW j \in Entries', NEW k \in Entries', j < k
      PROVE  Finish(free_info'[j]) < free_info'[k].start
  <2>1. CASE j = i
    BY <2>1, <1>3, <1>5, <1>6
  <2>2. CASE k = i
    BY <2>2, <1>3, <1>5, <1>6
  <2>3. CASE j # i /\ k # i
    BY <2>3, <1>1, <1>3, <1>5, <1>6 DEF Coalesced
  <2> QED BY <2>1, <2>2, <2>3
<1>7. \A k \in Entries' : Finish(free_info'[k]) <= End
  BY <1>1, <1>3, <1>5 DEF Coalesced
<1>8. \A c \in held' : \A k \in Entries' :
         Apart(c.addr, c.size, free_info'[k].start, free_info'[k].size)
  BY <1>3, <1>5, OthersApart
<1>9. /\ free_num' \in 0 .. MEMMAN_SIZE
      /\ max_free' \in free_num' .. MEMMAN_SIZE
      /\ lost_size' \in Nat /\ lost_num' \in Nat
  BY <1>1, <1>2 DEF TypeOK
<1> QED BY <1>5, <1>6, <1>7, <1>8, <1>9, GivenBack

(* Giving back a held block, in each of the five ways it can end.          *)
LEMMA GiveBackKeepsInv ==
  ASSUME Inv, NEW b \in held, GiveBack(b.addr, b.size),
         held' = held \ {b}, result' = result
  PROVE  Inv'
<1> DEFINE i == Before(b.addr)
<1>1. TypeOK /\ Coalesced /\ HeldInside
  BY DEF Inv
<1>2. /\ free_num \in Nat /\ free_num <= MEMMAN_SIZE
      /\ \A k \in Entries :
           /\ free_info[k] \in Pieces
           /\ free_info[k].start \in Int /\ free_info[k].size \in Int
           /\ free_info[k].start >= Start /\ free_info[k].size >= 1
  BY <1>1, EntryTypes
<1>3. /\ b.addr \in Int /\ b.addr >= Start /\ b.addr <= End - 1
      /\ b.size \in Nat \ {0}
      /\ b.addr + b.size <= End
  BY <1>1, BlockTypes DEF HeldInside
<1>4. /\ i \in 0 .. free_num
      /\ \A k \in 1 .. i : Finish(free_info[k]) <= b.addr
      /\ \A k \in i + 1 .. free_num : b.addr + b.size <= free_info[k].start
      /\ ~ JoinsPrevious(b.addr) =>
            \A k \in 1 .. i : Finish(free_info[k]) < b.addr
      /\ ~ JoinsNext(b.addr, b.size) =>
            \A k \in i + 1 .. free_num : b.addr + b.size < free_info[k].start
  BY BlockBetween
<1>5. /\ JoinsPrevious(b.addr) <=> i > 0 /\ Finish(free_info[i]) = b.addr
      /\ JoinsNext(b.addr, b.size) <=>
            i < free_num /\ b.addr + b.size = free_info[i + 1].start
  BY DEF JoinsPrevious, JoinsNext
<1>6. \/ JoinsPrevious(b.addr) /\ JoinsNext(b.addr, b.size)
         /\ Bridge(i, b.size)
      \/ JoinsPrevious(b.addr) /\ ~ JoinsNext(b.addr, b.size)
         /\ Extend(i, Piece(free_info[i].start, free_info[i].size + b.size))
      \/ ~ JoinsPrevious(b.addr) /\ JoinsNext(b.addr, b.size)
         /\ Extend(i + 1, Piece(b.addr, free_info[i + 1].size + b.size))
      \/ ~ JoinsPrevious(b.addr) /\ ~ JoinsNext(b.addr, b.size)
         /\ free_num < MEMMAN_SIZE /\ Insert(i + 1, Piece(b.addr, b.size))
      \/ Leak(b.size)
  BY DEF GiveBack
<1> HIDE DEF i
<1>7. i \in Nat /\ i <= free_num /\ End \in Int /\ Start \in Int
  BY <1>2, <1>4, MemoryAssumption
<1>8. \A p, q \in Entries : p < q => Finish(free_info[p]) < free_info[q].start
  BY <1>1 DEF Coalesced
<1>9. \A k \in Entries : Finish(free_info[k]) <= End
  BY <1>1 DEF Coalesced
<1>10. ASSUME NEW s \in Int, NEW n \in Nat \ {0}, s >= Start, s + n <= End
      PROVE  /\ Piece(s, n) \in Pieces
             /\ Piece(s, n).start = s /\ Piece(s, n).size = n
             /\ Finish(Piece(s, n)) = s + n
  BY <1>7, <1>10 DEF Piece, Pieces, Finish
<1>11. CASE /\ JoinsPrevious(b.addr) /\ ~ JoinsNext(b.addr, b.size)
            /\ Extend(i, Piece(free_info[i].start, free_info[i].size + b.size))
  <2>1. i \in Entries
    BY <1>2, <1>5, <1>7, <1>11 DEF Entries
  <2> DEFINE e == Piece(free_info[i].start, free_info[i].size + b.size)
  <2>2. /\ free_info[i].start \in Int /\ free_info[i].size \in Nat \ {0}
        /\ free_info[i].start >= Start
        /\ free_info[i].start + free_info[i].size = b.addr
    BY <1>2, <1>5, <1>11, <2>1 DEF Finish
  <2>3. /\ e \in Pieces /\ e.start = free_info[i].start
        /\ e.size = free_info[i].size + b.size /\ Finish(e) = b.addr + b.size
    BY <2>2, <1>3, <1>10
  <2> HIDE DEF e
  <2>4. \A k \in Entries : k < i => Finish(free_info[k]) < e.start
    BY <1>8, <2>1, <2>3
  <2>5. \A k \in Entries : k > i => Finish(e) < free_info[k].start
    BY <1>2, <1>4, <1>7, <1>11, <2>3 DEF Entries
  <2>6. ASSUME NEW c \in held \ {b}
        PROVE  Apart(c.addr, c.size, e.start, e.size)
    <3>1. /\ c.addr \in Int /\ c.size \in Nat \ {0}
          /\ Apart(c.addr, c.size, b.addr, b.size)
          /\ Apart(c.addr, c.size, free_info[i].start, free_info[i].size)
      BY <2>1, OthersApart
    <3> QED BY <3>1, <2>2, <2>3, <1>3 DEF Apart
  <2> QED BY <1>3, <1>11, <2>1, <2>3, <2>4, <2>5, <2>6, ExtendKeepsInv DEF e
<1>12. CASE /\ ~ JoinsPrevious(b.addr) /\ JoinsNext(b.addr, b.size)
            /\ Extend(i + 1, Piece(b.addr, free_info[i + 1].size + b.size))
  <2>1. i + 1 \in Entries
    BY <1>2, <1>5, <1>7, <1>12 DEF Entries
  <2> DEFINE e == Piece(b.addr, free_info[i + 1].size + b.size)
  <2>2. /\ free_info[i + 1].start = b.addr + b.size
        /\ free_info[i + 1].size \in Nat \ {0}
        /\ b.addr + b.size + free_info[i + 1].size <= End
        /\ Finish(free_info[i + 1]) = b.addr + b.size + free_info[i + 1].size
    BY <1>2, <1>3, <1>5, <1>9, <1>12, <2>1 DEF Finish
  <2>3. /\ e \in Pieces /\ e.start = b.addr
        /\ e.size = b.size + free_info[i + 1].size
        /\ Finish(e) = Finish(free_info[i + 1])
    BY <2>2, <1>3, <1>10
  <2> HIDE DEF e
  <2>4. \A k \in Entries : k < i + 1 => Finish(free_info[k]) < e.start
    BY <1>2, <1>4, <1>7, <1>12, <2>3 DEF Entries
  <2>5. \A k \in Entries : k > i + 1 => Finish(e) < free_info[k].start
    BY <1>8, <2>1, <2>3
  <2>6. ASSUME NEW c \in held \ {b}
        PROVE  Apart(c.addr, c.size, e.start, e.size)
    <3>1. /\ c.addr \in Int /\ c.size \in Nat \ {0}
          /\ Apart(c.addr, c.size, b.addr, b.size)
          /\ Apart(c.addr, c.size, free_info[i + 1].start, free_info[i + 1].size)
      BY <2>1, OthersApart
    <3> QED BY <3>1, <2>2, <2>3, <1>3 DEF Apart
  <2>7. Finish(e) <= End
    BY <2>2, <2>3
  <2> QED BY <1>12, <2>1, <2>3, <2>4, <2>5, <2>6, <2>7, ExtendKeepsInv DEF e
<1>13. CASE Leak(b.size)
  <2>1. /\ free_info' = free_info /\ free_num' = free_num
        /\ max_free' = max_free /\ lost_num' = lost_num + 1
        /\ lost_size' = lost_size + b.size
    BY <1>13 DEF Leak
  <2>2. Entries' = Entries
    BY <2>1 DEF Entries
  <2>3. free_info \in [Entries -> Pieces]
    BY <1>1 DEF TypeOK, Pieces
  <2>4. /\ free_num' \in 0 .. MEMMAN_SIZE
        /\ max_free' \in free_num' .. MEMMAN_SIZE
        /\ lost_size' \in Nat /\ lost_num' \in Nat
    BY <2>1, <1>1, <1>3 DEF TypeOK
  <2>5. \A c \in held' : \A k \in Entries' :
           Apart(c.addr, c.size, free_info'[k].start, free_info'[k].size)
    BY <2>1, <2>2, OthersApart
  <2> QED BY <2>1, <2>2, <2>3, <2>4, <2>5, <1>8, <1>9, GivenBack
<1>14. CASE /\ ~ JoinsPrevious(b.addr) /\ ~ JoinsNext(b.addr, b.size)
            /\ free_num < MEMMAN_SIZE /\ Insert(i + 1, Piece(b.addr, b.size))
  <2> DEFINE e == Piece(b.addr, b.size)
  <2>1. /\ e \in Pieces /\ e.start = b.addr /\ e.size = b.size
        /\ Finish(e) = b.addr + b.size
    BY <1>3, <1>10
  <2>2. /\ free_num' = free_num + 1
        /\ free_info' = Inserted(i + 1, e)
        /\ max_free' = Max({max_free, free_num + 1})
        /\ lost_size' = lost_size /\ lost_num' = lost_num
    BY <1>14 DEF Insert
  <2> HIDE DEF e
  <2>3. Entries' = 1 .. free_num + 1
    BY <2>2 DEF Entries
  <2>4. ASSUME NEW k \in Entries'
        PROVE  \/ k <= i /\ k \in Entries /\ free_info'[k] = free_info[k]
               \/ k = i + 1 /\ free_info'[k] = e
               \/ k > i + 1 /\ k - 1 \in Entries
                  /\ free_info'[k] = free_info[k - 1]
    BY <2>2, <2>3, <1>2, <1>7 DEF Inserted, Entries
  <2>5. free_info' \in [Entries' -> Pieces]
    <3>1. free_info' = [k \in Entries' |-> IF k < i + 1 THEN free_info[k]
                                           ELSE IF k = i + 1 THEN e
                                           ELSE free_info[k - 1]]
      BY <2>2, <2>3 DEF Inserted
    <3>2. \A k \in Entries' : free_info'[k] \in Pieces
      BY <2>1, <2>4, <1>2
    <3> QED BY <3>1, <3>2
  <2>6. ASSUME NEW j \in Entries', NEW k \in Entries', j < k
        PROVE  Finish(free_info'[j]) < free_info'[k].start
    <3>1. j \in Int /\ k \in Int
      BY <2>3
    <3>2. ASSUME NEW q \in Entries
          PROVE  /\ q <= i => Finish(free_info[q]) < e.start
                 /\ q > i => Finish(e) < free_info[q].start
      BY <1>2, <1>4, <1>7, <1>14, <2>1 DEF Entries
    <3>3. CASE k <= i
      BY <3>1, <3>3, <2>4, <2>6, <1>7, <1>8
    <3>4. CASE k = i + 1
      <4>1. j \in Entries /\ j <= i /\ free_info'[j] = free_info[j]
        BY <3>1, <3>4, <2>4, <2>6, <1>7
      <4>2. free_info'[k] = e
        BY <3>1, <3>4, <2>4, <1>7
      <4> QED BY <4>1, <4>2, <3>2
    <3>5. CASE k > i + 1
      <4>1. k - 1 \in Entries /\ k - 1 > i /\ free_info'[k] = free_info[k - 1]
        BY <3>1, <3>5, <2>4, <1>7
      <4>2. CASE j <= i
        <5>1. j \in Entries /\ j < k - 1 /\ free_info'[j] = free_info[j]
          BY <4>1, <4>2, <3>1, <2>4, <1>7
        <5> QED BY <4>1, <5>1, <1>8
      <4>3. CASE j = i + 1
        <5>1. free_info'[j] = e
          BY <4>3, <3>1, <2>4, <1>7
        <5> QED BY <4>1, <5>1, <3>2
      <4>4. CASE j > i + 1
        <5>1. /\ j - 1 \in Entries /\ j - 1 < k - 1
              /\ free_info'[j] = free_info[j - 1]
          BY <4>4, <3>1, <2>4, <2>6, <1>7
        <5> QED BY <4>1, <5>1, <1>8
      <4> QED BY <4>2, <4>3, <4>4, <3>1, <1>7
    <3> QED BY <3>1, <3>3, <3>4, <3>5, <1>7
  <2>7. \A k \in Entries' : Finish(free_info'[k]) <= End
    BY <2>1, <2>4, <1>3, <1>9
  <2>8. \A c \in held' : \A k \in Entries' :
           Apart(c.addr, c.size, free_info'[k].start, free_info'[k].size)
    BY <2>1, <2>4, OthersApart
  <2>9. /\ free_num' \in 0 .. MEMMAN_SIZE
        /\ max_free' \in free_num' .. MEMMAN_SIZE
        /\ lost_size' \in Nat /\ lost_num' \in Nat
    <3>1. max_free \in Int /\ max_free <= MEMMAN_SIZE /\ free_num + 1 \in Int
      BY <1>1, <1>2, MemoryAssumption DEF TypeOK
    <3>2. /\ max_free' \in {max_free, free_num + 1}
          /\ max_free' >= max_free /\ max_free' >= free_num + 1
      <4> DEFINE m == IF max_free >= free_num + 1
                      THEN max_free ELSE free_num + 1
                 T == {max_free, free_num + 1}
      <4>1. m \in T /\ \A y \in T : m >= y
        BY <3>1
      <4>2. Max(T) \in T /\ \A y \in T : Max(T) >= y
        BY <4>1 DEF Max
      <4> QED BY <4>2, <2>2
    <3> QED BY <3>1, <3>2, <2>2, <1>1, <1>2, <1>14, MemoryAssumption DEF TypeOK
  <2> QED BY <2>5, <2>6, <2>7, <2>8, <2>9, GivenBack
<1>15. CASE /\ JoinsPrevious(b.addr) /\ JoinsNext(b.addr, b.size)
            /\ Bridge(i, b.size)
  <2>1. i \in Entries /\ i + 1 \in Entries
    BY <1>2, <1>5, <1>7, <1>15 DEF Entries
  <2> DEFINE n == b.size + free_info[i + 1].size
             e == Piece(free_info[i].start, free_info[i].size + n)
  <2>2. /\ free_info[i].start \in Int /\ free_info[i].size \in Nat \ {0}
        /\ free_info[i].start >= Start
        /\ free_info[i].start + free_info[i].size = b.addr
        /\ free_info[i + 1].start = b.addr + b.size
        /\ free_info[i + 1].size \in Nat \ {0}
        /\ n \in Nat \ {0}
        /\ b.addr + n <= End
        /\ Finish(free_info[i + 1]) = b.addr + n
    BY <1>2, <1>3, <1>5, <1>9, <1>15, <2>1 DEF Finish
  <2>3. e = Piece(free_info[i].start,
                  free_info[i].size + b.size + free_info[i + 1].size)
    BY <2>2, <1>3
  <2>4. /\ e \in Pieces /\ e.start = free_info[i].start
        /\ e.size = free_info[i].size + n /\ Finish(e) = b.addr + n
    <3>1. /\ free_info[i].size + n \in Nat \ {0}
          /\ free_info[i].start + (free_info[i].size + n) = b.addr + n
      BY <2>2, <1>3
    <3> QED BY <3>1, <2>2, <1>10
  <2>5. \A c \in held \ {b} : Apart(c.addr, c.size, e.start, e.size)
    <3>1. ASSUME NEW c \in held \ {b}
          PROVE  Apart(c.addr, c.size, b.addr, n)
      <4>1. /\ c.addr \in Int /\ c.size \in Nat \ {0}
            /\ Apart(c.addr, c.size, b.addr, b.size)
            /\ Apart(c.addr, c.size, b.addr + b.size, free_info[i + 1].size)
        BY <2>1, <2>2, OthersApart
      <4> QED BY <4>1, <2>2, <1>3, ApartUnion
    <3> HIDE DEF n, e
    <3>2. ASSUME NEW c \in held \ {b}
          PROVE  Apart(c.addr, c.size, e.start, e.size)
      <4>1. /\ c.addr \in Int /\ c.size \in Nat \ {0}
            /\ Apart(c.addr, c.size, free_info[i].start, free_info[i].size)
        BY <2>1, OthersApart
      <4>2. Apart(c.addr, c.size, free_info[i].start + free_info[i].size, n)
        BY <3>1, <2>2
      <4> QED BY <4>1, <4>2, <2>2, <2>4, ApartUnion
    <3> QED BY <3>2
  <2>6. /\ free_num' = free_num - 1
        /\ free_info' = [Removed(i + 1) EXCEPT ![i] = e]
        /\ max_free' = max_free
        /\ lost_size' = lost_size /\ lost_num' = lost_num
    <3>1. Removed(i + 1)[i] = free_info[i]
      BY <2>1, <1>2, <1>7 DEF Removed, Entries
    <3> QED BY <3>1, <2>3, <1>15 DEF Bridge
  <2> HIDE DEF e, n
  <2>7. Entries' = 1 .. free_num - 1
    BY <2>6 DEF Entries
  <2>8. /\ free_info' = [k \in Entries' |-> IF k = i THEN e
                                            ELSE IF k < i + 1 THEN free_info[k]
                                            ELSE free_info[k + 1]]
        /\ i \in Entries'
    <3>1. i \in 1 .. free_num - 1
      BY <2>1, <1>2, <1>7 DEF Entries
    <3> QED BY <3>1, <2>6, <2>7 DEF Removed
  <2>9. ASSUME NEW k \in Entries'
        PROVE  \/ k < i /\ k \in Entries /\ free_info'[k] = free_info[k]
               \/ k = i /\ free_info'[k] = e
               \/ k > i /\ k + 1 \in Entries /\ free_info'[k] = free_info[k + 1]
    <3>1. k \in 1 .. free_num - 1
      BY <2>7
    <3>2. /\ k < i => k \in Entries
          /\ k > i => k + 1 \in Entries
      BY <3>1, <1>2 DEF Entries
    <3> QED BY <3>1, <3>2, <2>8, <1>7
  <2>10. free_info' \in [Entries' -> Pieces]
    <3>1. \A k \in Entries' : free_info'[k] \in Pieces
      BY <2>4, <2>9, <1>2
    <3> QED BY <3>1, <2>8
  <2>11. ASSUME NEW j \in Entries', NEW k \in Entries', j < k
         PROVE  Finish(free_info'[j]) < free_info'[k].start
    <3>1. j \in Int /\ k \in Int
      BY <2>7
    <3>2. ASSUME NEW q \in Entries
          PROVE  /\ q < i => Finish(free_info[q]) < e.start
                 /\ q > i + 1 => Finish(e) < free_info[q].start
      BY <1>8, <2>1, <2>2, <2>4
    <3>3. CASE k < i
      BY <3>1, <3>3, <2>9, <2>11, <1>7, <1>8
    <3>4. CASE k = i
      <4>1. j \in Entries /\ j < i /\ free_info'[j] = free_info[j]
        BY <3>1, <3>4, <2>9, <2>11, <1>7
      <4>2. free_info'[k] = e
        BY <3>1, <3>4, <2>9, <1>7
      <4> QED BY <4>1, <4>2, <3>2
    <3>5. CASE k > i
      <4>1. k + 1 \in Entries /\ k + 1 > i + 1 /\ free_info'[k] = free_info[k + 1]
        BY <3>1, <3>5, <2>9, <1>7
      <4>2. CASE j < i
        <5>1. j \in Entries /\ j < k + 1 /\ free_info'[j] = free_info[j]
          BY <4>2, <3>1, <2>9, <2>11, <1>7
        <5> QED BY <4>1, <5>1, <1>8
      <4>3. CASE j = i
        <5>1. free_info'[j] = e
          BY <4>3, <3>1, <2>9, <1>7
        <5> QED BY <4>1, <5>1, <3>2
      <4>4. CASE j > i
        <5>1. /\ j + 1 \in Entries /\ j + 1 < k + 1
              /\ free_info'[j] = free_info[j + 1]
          BY <4>4, <3>1, <2>9, <2>11, <1>7
        <5> QED BY <4>1, <5>1, <1>8
      <4> QED BY <4>2, <4>3, <4>4, <3>1, <1>7
    <3> QED BY <3>1, <3>3, <3>4, <3>5, <1>7
  <2>12. \A k \in Entries' : Finish(free_info'[k]) <= End
    BY <2>2, <2>4, <2>9, <1>9
  <2>13. \A c \in held' : \A k \in Entries' :
            Apart(c.addr, c.size, free_info'[k].start, free_info'[k].size)
    BY <2>5, <2>9, OthersApart
  <2>14. /\ free_num' \in 0 .. MEMMAN_SIZE
         /\ max_free' \in free_num' .. MEMMAN_SIZE
         /\ lost_size' \in Nat /\ lost_num' \in Nat
    <3>1. free_num >= 1
      BY <2>1, <1>2 DEF Entries
    <3> QED BY <3>1, <2>6, <1>1, <1>2, MemoryAssumption DEF TypeOK
  <2> QED BY <2>10, <2>11, <2>12, <2>13, <2>14, GivenBack
<1> QED BY <1>6, <1>11, <1>12, <1>13, <1>14, <1>15

-----------------------------------------------------------------------------
LEMMA InitInv == memman_init => Inv
<1> SUFFICES ASSUME memman_init PROVE Inv
  OBVIOUS
<1> DEFINE e == Piece(Start, End - Start)
<1>1. /\ e \in Pieces /\ e.start = Start /\ e.size = End - Start
      /\ Finish(e) = End
  BY MemoryAssumption DEF Piece, Pieces, Finish
<1>2. /\ Entries = 1 .. 1 /\ free_num = 1 /\ max_free = 1
      /\ free_info = [k \in 1 .. 1 |-> e]
      /\ lost_size = 0 /\ lost_num = 0 /\ held = {} /\ result = NULL
  BY DEF memman_init, Entries
<1> HIDE DEF e
<1>3. free_info \in [Entries -> Pieces] /\ \A k \in Entries : free_info[k] = e
  BY <1>1, <1>2
<1>4. TypeOK
  BY <1>2, <1>3, MemoryAssumption DEF TypeOK, Pieces
<1>5. Coalesced
  BY <1>1, <1>2, <1>3, MemoryAssumption DEF Coalesced
<1>6. NoSharing /\ HeldInside
  BY <1>2 DEF NoSharing, HeldInside
<1> QED BY <1>4, <1>5, <1>6 DEF Inv

LEMMA AllocKeepsInv ==
  ASSUME Inv, NEW size \in Nat \ {0}, memman_alloc(size)
  PROVE  Inv'
<1>1. CASE LongEnough(size) # {}
  <2>1. /\ FirstFit(size) \in Entries
        /\ free_info[FirstFit(size)].size >= size
    BY <1>1, FirstFitIsLongEnough DEF Inv
  <2>2. Take(FirstFit(size), size)
    BY <1>1 DEF memman_alloc
  <2> QED BY <2>1, <2>2, TakeKeepsInv
<1>2. CASE LongEnough(size) = {}
  <2>1. result' = NULL /\ UNCHANGED <<man, held>>
    BY <1>2 DEF memman_alloc
  <2> QED BY <2>1 DEF Inv, TypeOK, Coalesced, NoSharing, HeldInside, Entries,
               Finish, Apart, man
<1> QED BY <1>1, <1>2

LEMMA StepInv == Inv /\ [Next]_vars => Inv'
<1> SUFFICES ASSUME Inv, [Next]_vars PROVE Inv'
  OBVIOUS
<1>1. CASE \E size \in Requests : memman_alloc(size) \/ memman_alloc_4k(size)
  <2>1. PICK size \in Requests : memman_alloc(size) \/ memman_alloc_4k(size)
    BY <1>1
  <2>2. size \in Nat \ {0} /\ RoundUp(size) \in Nat \ {0}
    BY RequestsAssumption, RoundUpPositive
  <2> QED BY <2>1, <2>2, AllocKeepsInv DEF memman_alloc_4k
<1>2. CASE \E b \in held : memman_free(b)
  BY <1>2, GiveBackKeepsInv DEF memman_free
<1>3. CASE \E b \in held, size \in Requests :
              b.size = RoundUp(size) /\ memman_free_4k(b, size)
  <2>1. PICK b \in held, size \in Requests :
           b.size = RoundUp(size) /\ memman_free_4k(b, size)
    BY <1>3
  <2>2. GiveBack(b.addr, b.size) /\ held' = held \ {b} /\ result' = result
    BY <2>1 DEF memman_free_4k
  <2> QED BY <2>2, GiveBackKeepsInv
<1>4. CASE UNCHANGED vars
  BY <1>4 DEF Inv, TypeOK, Coalesced, NoSharing, HeldInside, Entries, Finish,
              Apart, vars, man
<1> QED BY <1>1, <1>2, <1>3, <1>4 DEF Next

(* The manager's data keep their types: in particular the list never grows *)
(* beyond MEMMAN_SIZE entries, none of them empty (memman_alloc,           *)
(* memman_free).                                                           *)
THEOREM TypeCorrect == Spec => []TypeOK
<1>1. Inv => TypeOK
  BY DEF Inv
<1> QED BY <1>1, InitInv, StepInv, PTL DEF Spec

(* After every call the pieces are sorted and no two of them touch, which  *)
(* memman_free owes to its two merges (memory.c, 64-91).                   *)
THEOREM PiecesMerged == Spec => []Coalesced
<1>1. Inv => Coalesced
  BY DEF Inv
<1> QED BY <1>1, InitInv, StepInv, PTL DEF Spec

(* As long as callers give back what they were given, no address is handed *)
(* out twice or is free and handed out at once.                            *)
THEOREM NoBlockShared == Spec => []NoSharing
<1>1. Inv => NoSharing
  BY DEF Inv
<1> QED BY <1>1, InitInv, StepInv, PTL DEF Spec
-----------------------------------------------------------------------------
(* The list implements the heap. *)

Covers(e, x) == e.start <= x /\ x < Finish(e)

LEMMA FreeMembers ==
  ASSUME TypeOK
  PROVE  /\ FreeAddresses \subseteq Int
         /\ \A x \in Int : x \in FreeAddresses <=>
              \E k \in Entries : Covers(free_info[k], x)
<1>1. \A k \in Entries : /\ free_info[k].start \in Int
                         /\ free_info[k].size \in Int
  BY EntryTypes
<1>2. \A k \in Entries : /\ free_info[k].start \in Int
                         /\ Finish(free_info[k]) \in Int
  BY <1>1 DEF Finish
<1>3. \A x : x \in FreeAddresses <=>
         \E k \in Entries : x \in free_info[k].start .. Finish(free_info[k]) - 1
  BY DEF FreeAddresses
<1> QED BY <1>2, <1>3 DEF Covers

LEMMA FreeMembersNext ==
  ASSUME TypeOK'
  PROVE  /\ FreeAddresses' \subseteq Int
         /\ \A x \in Int : x \in FreeAddresses' <=>
              \E k \in Entries' : Covers(free_info'[k], x)
<1>1. \A k \in Entries' : free_info'[k] \in Pieces
  BY DEF TypeOK, Pieces
<1>2. \A e \in Pieces : e.start \in Int /\ Finish(e) \in Int
  BY MemoryAssumption DEF Pieces, Finish
<1>3. \A x : x \in FreeAddresses' <=>
         \E k \in Entries' :
            x \in free_info'[k].start .. Finish(free_info'[k]) - 1
  BY DEF FreeAddresses, Finish
<1> QED BY <1>1, <1>2, <1>3 DEF Covers

(* The entry a run starts in covers all of it: what follows an entry is    *)
(* never free.                                                             *)
LEMMA RunInOnePiece ==
  ASSUME Inv, NEW i \in Entries, NEW a \in Int, NEW size \in Nat \ {0},
         Covers(free_info[i], a), a .. a + size - 1 \subseteq FreeAddresses
  PROVE  a + size <= Finish(free_info[i])
<1> DEFINE z == Finish(free_info[i])
<1>1. TypeOK /\ Coalesced
  BY DEF Inv
<1>2. /\ \A k \in Entries : /\ k \in Int
                            /\ free_info[k].start \in Int
                            /\ Finish(free_info[k]) \in Int
                            /\ free_info[k].start < Finish(free_info[k])
  BY <1>1, EntryTypes DEF Entries, Finish
<1>3. z \in Int /\ a < z
  BY <1>2 DEF Covers
<1>4. ~ (z < a + size)
  <2> SUFFICES ASSUME z < a + size PROVE FALSE
    OBVIOUS
  <2>1. z \in FreeAddresses
    BY <1>3
  <2>2. PICK j \in Entries : Covers(free_info[j], z)
    BY <2>1, <1>1, <1>3, FreeMembers
  <2>3. j # i
    BY <2>2, <1>3 DEF Covers
  <2>4. CASE i < j
    <3>1. z < free_info[j].start
      BY <2>4, <1>1 DEF Coalesced
    <3> QED BY <3>1, <2>2, <1>2, <1>3 DEF Covers
  <2>5. CASE j < i
    <3>1. Finish(free_info[j]) < free_info[i].start
      BY <2>5, <1>1 DEF Coalesced
    <3>2. free_info[i].start < z
      BY <1>2
    <3> HIDE DEF z
    <3> QED BY <3>1, <3>2, <2>2, <1>2, <1>3 DEF Covers
  <2> QED BY <2>3, <2>4, <2>5, <1>2
<1> HIDE DEF z
<1>5. a + size <= z
  BY <1>3, <1>4
<1> QED BY <1>5 DEF z

(* memman_alloc fails only when there is no run of free memory as long as  *)
(* the request.                                                            *)
LEMMA RefusalIsRight ==
  ASSUME Inv, NEW size \in Nat \ {0}, memman_alloc(size),
         LongEnough(size) = {}
  PROVE  H!Refuse(size)
<1>1. TypeOK
  BY DEF Inv
<1>2. ASSUME NEW a \in FreeAddresses PROVE ~ H!Fits(a, size)
  <2>1. a \in Int
    BY <1>1, FreeMembers
  <2>2. PICK i \in Entries : Covers(free_info[i], a)
    BY <1>1, <2>1, FreeMembers
  <2>3. ASSUME H!Fits(a, size) PROVE FALSE
    <3>1. a .. a + size - 1 \subseteq FreeAddresses
      BY <2>3 DEF H!Fits, H!Extent
    <3>2. a + size <= Finish(free_info[i])
      BY <3>1, <2>1, <2>2, RunInOnePiece
    <3>3. free_info[i].start \in Int /\ free_info[i].size \in Int
      BY <1>1, EntryTypes
    <3>4. free_info[i].size >= size
      BY <3>2, <3>3, <2>1, <2>2 DEF Covers, Finish
    <3> QED BY <3>4 DEF LongEnough
  <2> QED BY <2>3
<1>3. result' = NULL /\ UNCHANGED <<man, held>>
  BY DEF memman_alloc
<1>4. FreeAddresses' = FreeAddresses
  BY <1>3 DEF man, FreeAddresses, Entries, Finish
<1> QED BY <1>2, <1>3, <1>4 DEF H!Refuse

-----------------------------------------------------------------------------
(* An address lies in one entry at most. *)
LEMMA OneCover ==
  ASSUME TypeOK, Coalesced, NEW i \in Entries, NEW j \in Entries, i # j,
         NEW x \in Int, Covers(free_info[i], x)
  PROVE  ~ Covers(free_info[j], x)
<1>1. \A k \in Entries : /\ k \in Int
                         /\ free_info[k].start \in Int
                         /\ Finish(free_info[k]) \in Int
  BY EntryTypes DEF Entries, Finish
<1>2. CASE i < j
  <2>1. Finish(free_info[i]) < free_info[j].start
    BY <1>2 DEF Coalesced
  <2> QED BY <2>1, <1>1 DEF Covers
<1>3. CASE j < i
  <2>1. Finish(free_info[j]) < free_info[i].start
    BY <1>3 DEF Coalesced
  <2> QED BY <2>1, <1>1 DEF Covers
<1> QED BY <1>1, <1>2, <1>3

(* Taking the front of an entry takes just the block from the free memory. *)
LEMMA TakeIsGrant ==
  ASSUME Inv, Inv', NEW i \in Entries, NEW size \in Nat \ {0},
         free_info[i].size >= size, Take(i, size)
  PROVE  H!Grant(size)
<1> DEFINE e == free_info[i]
           a == e.start
<1>1. TypeOK /\ Coalesced /\ TypeOK'
  BY DEF Inv
<1>2. /\ free_num \in Nat
      /\ \A k \in Entries :
           /\ free_info[k].start \in Int /\ free_info[k].size \in Int
           /\ free_info[k].size >= 1
  BY <1>1, EntryTypes
<1>3. /\ a \in Int /\ e.size \in Int /\ e.size >= size
      /\ \A x \in Int : Covers(e, x) <=> a <= x /\ x < a + e.size
  BY <1>2 DEF Covers, Finish
<1>4. /\ result' = a
      /\ held' = held \cup {[addr |-> a, size |-> size]}
  BY DEF Take
<1>5. i \in 1 .. free_num
  BY DEF Entries
<1>6. \A x \in Int : x \in H!Extent(a, size) <=> a <= x /\ x < a + size
  BY <1>3 DEF H!Extent
<1>7. H!Extent(a, size) \subseteq Int
  BY <1>3 DEF H!Extent
<1> HIDE DEF e
<1>8. \A x \in H!Extent(a, size) : x \in FreeAddresses
  <2> SUFFICES ASSUME NEW x \in H!Extent(a, size) PROVE x \in FreeAddresses
    OBVIOUS
  <2>1. x \in Int /\ Covers(e, x)
    BY <1>3, <1>6, <1>7
  <2> QED BY <2>1, <1>1, FreeMembers DEF e
<1>9. a \in FreeAddresses
  <2>1. a \in H!Extent(a, size)
    BY <1>3, <1>6
  <2> QED BY <2>1, <1>8
<1>10. \A x \in Int : x \in FreeAddresses' <=>
         x \in FreeAddresses /\ x \notin H!Extent(a, size)
  <2> SUFFICES ASSUME NEW x \in Int
               PROVE  x \in FreeAddresses' <=>
                        x \in FreeAddresses /\ x \notin H!Extent(a, size)
    OBVIOUS
  <2>1. /\ x \in FreeAddresses <=> \E k \in Entries : Covers(free_info[k], x)
        /\ x \in FreeAddresses' <=>
              \E k \in Entries' : Covers(free_info'[k], x)
    BY <1>1, FreeMembers, FreeMembersNext
  <2>2. \A k \in Entries : k # i /\ Covers(free_info[k], x) => ~ Covers(e, x)
    BY <1>1, OneCover DEF e
  <2>3. x \in H!Extent(a, size) => Covers(e, x)
    BY <1>3, <1>6
  <2>4. CASE UsedUp(i, size)
    <3>1. /\ free_num' = free_num - 1 /\ free_info' = Removed(i)
          /\ e.size = size
      BY <2>4 DEF Take, UsedUp, e
    <3>2. Entries' = 1 .. free_num - 1
      BY <3>1 DEF Entries
    <3>3. ASSUME NEW k \in Entries', Covers(free_info'[k], x)
          PROVE  \E j \in Entries : j # i /\ Covers(free_info[j], x)
      <4>1. k \in 1 .. free_num - 1
        BY <3>2
      <4>2. CASE k < i
        <5>1. k \in Entries /\ k # i /\ free_info'[k] = free_info[k]
          BY <4>1, <4>2, <3>1, <1>2, <1>5 DEF Removed, Entries
        <5> QED BY <5>1, <3>3
      <4>3. CASE ~ (k < i)
        <5>1. k + 1 \in Entries /\ k + 1 # i /\ free_info'[k] = free_info[k + 1]
          BY <4>1, <4>3, <3>1, <1>2, <1>5 DEF Removed, Entries
        <5> QED BY <5>1, <3>3
      <4> QED BY <4>2, <4>3
    <3>4. ASSUME NEW j \in Entries, j # i, Covers(free_info[j], x)
          PROVE  \E k \in Entries' : Covers(free_info'[k], x)
      <4>1. j \in 1 .. free_num
        BY DEF Entries
      <4>2. CASE j < i
        <5>1. j \in 1 .. free_num - 1 /\ Removed(i)[j] = free_info[j]
          BY <4>1, <4>2, <1>2, <1>5 DEF Removed
        <5> QED BY <5>1, <3>1, <3>2, <3>4
      <4>3. CASE j > i
        <5>1. j - 1 \in 1 .. free_num - 1 /\ Removed(i)[j - 1] = free_info[j]
          BY <4>1, <4>3, <1>2, <1>5 DEF Removed
        <5> QED BY <5>1, <3>1, <3>2, <3>4
      <4> QED BY <4>1, <4>2, <4>3, <3>4, <1>2, <1>5
    <3>5. Covers(e, x) => x \in H!Extent(a, size)
      BY <3>1, <1>3, <1>6
    <3> QED BY <2>1, <2>2, <2>3, <3>3, <3>4, <3>5 DEF e
  <2>5. CASE ~ UsedUp(i, size)
    <3>1. /\ free_num' = free_num
          /\ free_info' = [free_info EXCEPT ![i] =
                             Piece(e.start + size, e.size - size)]
      BY <2>5 DEF Take, Rest, e
    <3>2. free_info \in [Entries -> Pieces]
      BY <1>1 DEF TypeOK, Pieces
    <3>3. /\ Entries' = Entries
          /\ free_info'[i] = Piece(e.start + size, e.size - size)
          /\ \A k \in Entries : k # i => free_info'[k] = free_info[k]
      BY <3>1, <3>2 DEF Entries
    <3>4. Covers(free_info'[i], x) <=>
             Covers(e, x) /\ x \notin H!Extent(a, size)
      BY <3>3, <1>3, <1>6 DEF Covers, Finish, Piece
    <3> QED BY <2>1, <2>2, <2>3, <3>3, <3>4 DEF e
  <2> QED BY <2>4, <2>5
<1>11. FreeAddresses' = FreeAddresses \ H!Extent(a, size)
  <2>1. FreeAddresses' \subseteq Int /\ FreeAddresses \subseteq Int
    BY <1>1, FreeMembers, FreeMembersNext
  <2> QED BY <2>1, <1>10
<1>12. H!Fits(a, size)
  BY <1>8 DEF H!Fits
<1> QED BY <1>4, <1>9, <1>11, <1>12 DEF H!Grant

(* Giving a block back adds it to the free memory, whether it is merged on *)
(* one side, on both or on none.                                           *)
LEMMA MergeIsRelease ==
  ASSUME Inv, Inv', NEW b \in held, GiveBack(b.addr, b.size),
         held' = held \ {b}, result' = result, ~ Leak(b.size)
  PROVE  H!Release(b)
<1> DEFINE i == Before(b.addr)
<1>1. TypeOK /\ Coalesced /\ TypeOK'
  BY DEF Inv
<1>2. /\ free_num \in Nat
      /\ \A k \in Entries :
           /\ free_info[k].start \in Int /\ free_info[k].size \in Int
           /\ free_info[k].size >= 1
  BY <1>1, EntryTypes
<1>3. b.addr \in Int /\ b.size \in Nat \ {0}
  BY <1>1, BlockTypes
<1>4. i \in 0 .. free_num
  BY BlockBetween
<1>5. /\ JoinsPrevious(b.addr) <=> i > 0 /\ Finish(free_info[i]) = b.addr
      /\ JoinsNext(b.addr, b.size) <=>
            i < free_num /\ b.addr + b.size = free_info[i + 1].start
  BY DEF JoinsPrevious, JoinsNext
<1>6. \/ JoinsPrevious(b.addr) /\ JoinsNext(b.addr, b.size)
         /\ Bridge(i, b.size)
      \/ JoinsPrevious(b.addr) /\ ~ JoinsNext(b.addr, b.size)
         /\ Extend(i, Piece(free_info[i].start, free_info[i].size + b.size))
      \/ ~ JoinsPrevious(b.addr) /\ JoinsNext(b.addr, b.size)
         /\ Extend(i + 1, Piece(b.addr, free_info[i + 1].size + b.size))
      \/ ~ JoinsPrevious(b.addr) /\ ~ JoinsNext(b.addr, b.size)
         /\ free_num < MEMMAN_SIZE /\ Insert(i + 1, Piece(b.addr, b.size))
  BY DEF GiveBack
<1> HIDE DEF i
<1>7. H!Extent(b.addr, b.size) \subseteq Int
      /\ \A x \in Int : x \in H!Extent(b.addr, b.size) <=>
            b.addr <= x /\ x < b.addr + b.size
  BY <1>3 DEF H!Extent
<1>8. ASSUME NEW x \in Int
      PROVE  x \in FreeAddresses' <=>
                x \in FreeAddresses \/ x \in H!Extent(b.addr, b.size)
  <2>1. /\ x \in FreeAddresses <=> \E k \in Entries : Covers(free_info[k], x)
        /\ x \in FreeAddresses' <=>
              \E k \in Entries' : Covers(free_info'[k], x)
    BY <1>1, FreeMembers, FreeMembersNext
  <2> DEFINE InBlock == b.addr <= x /\ x < b.addr + b.size
  <2>2. x \in H!Extent(b.addr, b.size) <=> InBlock
    BY <1>7
  <2>3. free_info \in [Entries -> Pieces]
    BY <1>1 DEF TypeOK, Pieces
  <2>4. CASE JoinsPrevious(b.addr)
             /\ Extend(i, Piece(free_info[i].start, free_info[i].size + b.size))
    <3>1. /\ i \in Entries /\ Entries' = Entries
          /\ Finish(free_info[i]) = b.addr
      BY <2>4, <1>2, <1>4, <1>5 DEF Entries, Extend
    <3>2. /\ free_info'[i] = Piece(free_info[i].start, free_info[i].size + b.size)
          /\ \A k \in Entries : k # i => free_info'[k] = free_info[k]
      BY <2>3, <2>4, <3>1 DEF Extend
    <3>3. Covers(free_info'[i], x) <=> Covers(free_info[i], x) \/ InBlock
      <4>1. free_info[i].start \in Int /\ free_info[i].size \in Int
            /\ free_info[i].size >= 1
        BY <3>1, <1>2
      <4> QED BY <4>1, <3>1, <3>2, <1>3 DEF Covers, Finish, Piece
    <3> HIDE DEF InBlock
    <3> QED BY <2>1, <2>2, <3>1, <3>2, <3>3
  <2>5. CASE JoinsNext(b.addr, b.size)
             /\ Extend(i + 1, Piece(b.addr, free_info[i + 1].size + b.size))
    <3>1. /\ i + 1 \in Entries /\ Entries' = Entries
          /\ free_info[i + 1].start = b.addr + b.size
      BY <2>5, <1>2, <1>4, <1>5 DEF Entries, Extend
    <3>2. /\ free_info'[i + 1] = Piece(b.addr, free_info[i + 1].size + b.size)
          /\ \A k \in Entries : k # i + 1 => free_info'[k] = free_info[k]
      BY <2>3, <2>5, <3>1 DEF Extend
    <3>3. Covers(free_info'[i + 1], x) <=> Covers(free_info[i + 1], x) \/ InBlock
      <4>1. free_info[i + 1].size \in Int /\ free_info[i + 1].size >= 1
        BY <3>1, <1>2
      <4> QED BY <4>1, <3>1, <3>2, <1>3 DEF Covers, Finish, Piece
    <3> HIDE DEF InBlock
    <3> QED BY <2>1, <2>2, <3>1, <3>2, <3>3
  <2>6. CASE Insert(i + 1, Piece(b.addr, b.size))
    <3>1. /\ Entries' = 1 .. free_num + 1
          /\ free_info' = Inserted(i + 1, Piece(b.addr, b.size))
      BY <2>6 DEF Insert, Entries
    <3>2. /\ i + 1 \in Entries'
          /\ Covers(free_info'[i + 1], x) <=> InBlock
      BY <3>1, <1>2, <1>3, <1>4 DEF Inserted, Covers, Finish, Piece
    <3>3. ASSUME NEW k \in Entries', k # i + 1, Covers(free_info'[k], x)
          PROVE  \E j \in Entries : Covers(free_info[j], x)
      <4>1. k \in 1 .. free_num + 1
        BY <3>1
      <4>2. CASE k < i + 1
        <5>1. k \in Entries /\ free_info'[k] = free_info[k]
          BY <4>1, <4>2, <3>1, <1>2, <1>4 DEF Inserted, Entries
        <5> QED BY <5>1, <3>3
      <4>3. CASE k > i + 1
        <5>1. k - 1 \in Entries /\ free_info'[k] = free_info[k - 1]
          BY <4>1, <4>3, <3>1, <1>2, <1>4 DEF Inserted, Entries
        <5> QED BY <5>1, <3>3
      <4> QED BY <4>1, <4>2, <4>3, <3>3, <1>4
    <3>4. ASSUME NEW j \in Entries, Covers(free_info[j], x)
          PROVE  \E k \in Entries' : Covers(free_info'[k], x)
      <4>1. j \in 1 .. free_num
        BY DEF Entries
      <4> DEFINE s == Inserted(i + 1, Piece(b.addr, b.size))
      <4>2. CASE j < i + 1
        <5>1. j \in 1 .. free_num + 1 /\ s[j] = free_info[j]
          BY <4>1, <4>2, <1>2, <1>4 DEF Inserted
        <5> QED BY <5>1, <3>1, <3>4
      <4>3. CASE j >= i + 1
        <5>1. j + 1 \in 1 .. free_num + 1 /\ s[j + 1] = free_info[j]
          BY <4>1, <4>3, <1>2, <1>4 DEF Inserted
        <5> QED BY <5>1, <3>1, <3>4
      <4> QED BY <4>1, <4>2, <4>3, <1>4
    <3> HIDE DEF InBlock
    <3> QED BY <2>1, <2>2, <3>2, <3>3, <3>4
  <2>7. CASE /\ JoinsPrevious(b.addr) /\ JoinsNext(b.addr, b.size)
             /\ Bridge(i, b.size)
    <3> DEFINE p == free_info[i]
               q == free_info[i + 1]
               m == Piece(p.start, p.size + b.size + q.size)
    <3>1. /\ i \in Entries /\ i + 1 \in Entries
          /\ Finish(p) = b.addr /\ q.start = b.addr + b.size
      BY <2>7, <1>2, <1>4, <1>5 DEF Entries
    <3>2. /\ i \in 1 .. free_num - 1
          /\ Removed(i + 1)[i] = p
      BY <3>1, <1>2, <1>4 DEF Entries, Removed
    <3>3. /\ Entries' = 1 .. free_num - 1
          /\ free_info' = [Removed(i + 1) EXCEPT ![i] = m]
      BY <2>7, <3>2 DEF Bridge, Entries
    <3>4. Covers(m, x) <=> Covers(p, x) \/ InBlock \/ Covers(q, x)
      <4>1. /\ p.start \in Int /\ p.size \in Int /\ p.size >= 1
            /\ q.start \in Int /\ q.size \in Int /\ q.size >= 1
        BY <3>1, <1>2
      <4>2. /\ m.start = p.start /\ m.size = p.size + b.size + q.size
        BY DEF Piece
      <4> HIDE DEF m, p, q
      <4> QED BY <4>1, <4>2, <3>1, <1>3 DEF Covers, Finish
    <3> HIDE DEF m, p, q
    <3>5. /\ free_info'[i] = m
          /\ \A k \in 1 .. free_num - 1 : k # i =>
                free_info'[k] = Removed(i + 1)[k]
      BY <3>2, <3>3 DEF Removed
    <3>6. ASSUME NEW k \in Entries', k # i, Covers(free_info'[k], x)
          PROVE  \E j \in Entries : Covers(free_info[j], x)
      <4>1. k \in 1 .. free_num - 1
        BY <3>3
      <4>2. CASE k < i + 1
        <5>1. k \in Entries /\ free_info'[k] = free_info[k]
          BY <4>1, <4>2, <3>5, <3>6, <1>2, <1>4 DEF Removed, Entries
        <5> QED BY <5>1, <3>6
      <4>3. CASE ~ (k < i + 1)
        <5>1. k + 1 \in Entries /\ free_info'[k] = free_info[k + 1]
          BY <4>1, <4>3, <3>5, <3>6, <1>2, <1>4 DEF Removed, Entries
        <5> QED BY <5>1, <3>6
      <4> QED BY <4>2, <4>3
    <3>7. ASSUME NEW j \in Entries, j # i, j # i + 1, Covers(free_info[j], x)
          PROVE  \E k \in Entries' : Covers(free_info'[k], x)
      <4>1. j \in 1 .. free_num
        BY DEF Entries
      <4>2. CASE j < i
        <5>1. j \in 1 .. free_num - 1 /\ j # i
              /\ Removed(i + 1)[j] = free_info[j]
          BY <4>1, <4>2, <1>2, <1>4 DEF Removed
        <5> QED BY <5>1, <3>3, <3>5, <3>7
      <4>3. CASE j > i + 1
        <5>1. j - 1 \in 1 .. free_num - 1 /\ j - 1 # i
              /\ Removed(i + 1)[j - 1] = free_info[j]
          BY <4>1, <4>3, <1>2, <1>4 DEF Removed
        <5> QED BY <5>1, <3>3, <3>5, <3>7
      <4> QED BY <4>1, <4>2, <4>3, <3>7, <1>4
    <3>8. i \in Entries'
      BY <3>2, <3>3
    <3> HIDE DEF InBlock
    <3> QED BY <2>1, <2>2, <3>1, <3>4, <3>5, <3>6, <3>7, <3>8 DEF p, q
  <2> QED BY <1>6, <2>4, <2>5, <2>6, <2>7
<1>9. FreeAddresses' = FreeAddresses \cup H!Extent(b.addr, b.size)
  <2>1. FreeAddresses' \subseteq Int /\ FreeAddresses \subseteq Int
    BY <1>1, FreeMembers, FreeMembersNext
  <2> QED BY <2>1, <1>7, <1>8
<1> QED BY <1>9 DEF H!Release

-----------------------------------------------------------------------------
(* The pieces of the heap begin where the entries do. *)
LEMMA HeadsAreStarts ==
  ASSUME Inv
  PROVE  H!Heads = {free_info[k].start : k \in Entries}
<1>1. TypeOK /\ Coalesced
  BY DEF Inv
<1>2. \A k \in Entries : /\ k \in Int
                         /\ free_info[k].start \in Int
                         /\ Finish(free_info[k]) \in Int
                         /\ free_info[k].start < Finish(free_info[k])
  BY <1>1, EntryTypes DEF Entries, Finish
<1>3. ASSUME NEW k \in Entries PROVE free_info[k].start \in H!Heads
  <2> DEFINE a == free_info[k].start
  <2>1. a \in Int /\ a - 1 \in Int /\ Covers(free_info[k], a)
    BY <1>2 DEF Covers
  <2>2. a \in FreeAddresses
    BY <2>1, <1>1, FreeMembers
  <2>3. ASSUME NEW j \in Entries, Covers(free_info[j], a - 1) PROVE FALSE
    <3>1. CASE j = k
      BY <3>1, <2>3, <1>2 DEF Covers
    <3>2. CASE j < k
      <4>1. Finish(free_info[j]) < a
        BY <3>2, <1>1 DEF Coalesced
      <4> QED BY <4>1, <2>3, <1>2 DEF Covers
    <3>3. CASE k < j
      <4>1. Finish(free_info[k]) < free_info[j].start
        BY <3>3, <1>1 DEF Coalesced
      <4> QED BY <4>1, <2>3, <1>2 DEF Covers
    <3> QED BY <3>1, <3>2, <3>3, <1>2
  <2> HIDE DEF a
  <2>4. a - 1 \notin FreeAddresses
    BY <2>1, <2>3, <1>1, FreeMembers
  <2>5. a \in H!Heads
    BY <2>2, <2>4 DEF H!Heads
  <2> QED BY <2>5 DEF a
<1>4. ASSUME NEW a \in H!Heads PROVE \E k \in Entries : a = free_info[k].start
  <2>1. a \in Int /\ a \in FreeAddresses /\ a - 1 \notin FreeAddresses
    BY <1>1, FreeMembers DEF H!Heads
  <2>2. PICK k \in Entries : Covers(free_info[k], a)
    BY <2>1, <1>1, FreeMembers
  <2>3. ~ Covers(free_info[k], a - 1)
    BY <2>1, <1>1, FreeMembers
  <2>4. a = free_info[k].start
    BY <2>1, <2>2, <2>3, <1>2 DEF Covers
  <2> QED BY <2>4
<1> QED BY <1>3, <1>4

LEMMA PiecesCounted ==
  ASSUME Inv
  PROVE  Cardinality(H!Heads) = free_num
<1> DEFINE S == {free_info[k].start : k \in Entries}
           f == [k \in Entries |-> free_info[k].start]
<1>1. TypeOK /\ Coalesced
  BY DEF Inv
<1>2. \A k \in Entries : /\ k \in Int
                         /\ free_info[k].start \in Int
                         /\ Finish(free_info[k]) \in Int
                         /\ free_info[k].start < Finish(free_info[k])
  BY <1>1, EntryTypes DEF Entries, Finish
<1>3. ASSUME NEW j \in Entries, NEW k \in Entries, f[j] = f[k]
      PROVE  j = k
  <2>1. CASE j < k
    <3>1. Finish(free_info[j]) < free_info[k].start
      BY <2>1, <1>1 DEF Coalesced
    <3> QED BY <3>1, <1>2, <1>3
  <2>2. CASE k < j
    <3>1. Finish(free_info[k]) < free_info[j].start
      BY <2>2, <1>1 DEF Coalesced
    <3> QED BY <3>1, <1>2, <1>3
  <2> QED BY <2>1, <2>2, <1>2
<1>4. f \in [Entries -> S] /\ \A s \in S : \E k \in Entries : f[k] = s
  OBVIOUS
<1>5. f \in Bijection(Entries, S)
  <2>1. f \in Injection(Entries, S)
    BY <1>3, <1>4 DEF Injection, IsInjective
  <2>2. f \in Surjection(Entries, S)
    BY <1>4 DEF Surjection
  <2> QED BY <2>1, <2>2 DEF Bijection
<1>6. ExistsBijection(Entries, S)
  BY <1>5 DEF ExistsBijection
<1>7. IsFiniteSet(Entries) /\ Cardinality(Entries) = free_num
  <2>1. free_num \in Nat
    BY <1>1, EntryTypes
  <2> QED BY <2>1, FS_Interval DEF Entries
<1> HIDE DEF S
<1>8. Cardinality(S) = free_num
  BY <1>6, <1>7, FS_Bijection
<1> QED BY <1>8, HeadsAreStarts DEF S

(* Memory is lost only when the list is full and the block touches none of *)
(* the pieces in it.                                                       *)
LEMMA LeakIsLose ==
  ASSUME Inv, NEW b \in held, GiveBack(b.addr, b.size),
         held' = held \ {b}, result' = result, Leak(b.size)
  PROVE  H!Lose(b)
<1> DEFINE i == Before(b.addr)
<1>1. TypeOK
  BY DEF Inv
<1>2. /\ free_num \in Nat /\ free_num <= MEMMAN_SIZE
      /\ \A k \in Entries :
           /\ free_info[k].start \in Int /\ Finish(free_info[k]) \in Int
  BY <1>1, EntryTypes DEF Finish
<1>3. b.addr \in Int /\ b.size \in Nat \ {0}
  BY <1>1, BlockTypes
<1>4. lost_num' = lost_num + 1 /\ lost_num \in Nat
  BY <1>1 DEF Leak, TypeOK
<1>5. /\ ~ JoinsPrevious(b.addr) /\ ~ JoinsNext(b.addr, b.size)
      /\ ~ (free_num < MEMMAN_SIZE)
  BY <1>4 DEF GiveBack, Bridge, Extend, Insert
<1>6. free_num = MEMMAN_SIZE
  BY <1>2, <1>5, MemoryAssumption
<1>7. /\ i \in 0 .. free_num
      /\ \A k \in 1 .. i : Finish(free_info[k]) < b.addr
      /\ \A k \in i + 1 .. free_num : b.addr + b.size < free_info[k].start
  BY <1>5, BlockBetween
<1> HIDE DEF i
<1>8. ASSUME NEW x \in {b.addr - 1, b.addr + b.size}, x \in FreeAddresses
      PROVE  FALSE
  <2>1. PICK k \in Entries : Covers(free_info[k], x)
    BY <1>1, <1>3, <1>8, FreeMembers
  <2>2. k \in 1 .. free_num
    BY DEF Entries
  <2>3. CASE k <= i
    <3>1. Finish(free_info[k]) < b.addr
      BY <1>7, <2>2, <2>3
    <3> QED BY <3>1, <2>1, <1>2, <1>3 DEF Covers
  <2>4. CASE k > i
    <3>1. b.addr + b.size < free_info[k].start
      BY <1>2, <1>7, <2>2, <2>4
    <3> QED BY <3>1, <2>1, <1>2, <1>3 DEF Covers
  <2> QED BY <2>2, <2>3, <2>4, <1>7
<1>9. FreeAddresses' = FreeAddresses
  BY DEF Leak, FreeAddresses, Entries, Finish
<1>10. H!Cardinality(H!Heads) = MEMMAN_SIZE
  <2>1. H!Cardinality(H!Heads) = Cardinality(H!Heads)
    BY DEF H!Cardinality, Cardinality
  <2> QED BY <2>1, <1>6, PiecesCounted
<1> QED BY <1>8, <1>9, <1>10 DEF H!Lose

-----------------------------------------------------------------------------
LEMMA InitImplements == memman_init => H!Init
<1> SUFFICES ASSUME memman_init PROVE H!Init
  OBVIOUS
<1>1. TypeOK
  BY InitInv DEF Inv
<1>2. /\ Entries = 1 .. 1 /\ held = {} /\ result = NULL
      /\ free_info[1].start = Start /\ Finish(free_info[1]) = End
  BY MemoryAssumption DEF memman_init, Entries, Piece, Finish
<1>3. \A x \in Int : x \in FreeAddresses <=> Start <= x /\ x < End
  BY <1>1, <1>2, FreeMembers DEF Covers
<1>4. FreeAddresses \subseteq Int
  BY <1>1, FreeMembers
<1> DEFINE R == Start .. End - 1
<1>5. /\ R \subseteq Int
      /\ \A x \in Int : x \in R <=> Start <= x /\ x < End
  BY MemoryAssumption
<1> HIDE DEF R
<1>6. FreeAddresses = R
  BY <1>3, <1>4, <1>5
<1> QED BY <1>2, <1>6 DEF H!Init, R

LEMMA AllocImplements ==
  ASSUME Inv, Inv', NEW size \in Nat \ {0}, memman_alloc(size)
  PROVE  H!Grant(size) \/ H!Refuse(size)
<1>1. CASE LongEnough(size) # {}
  <2>1. /\ FirstFit(size) \in Entries
        /\ free_info[FirstFit(size)].size >= size
    BY <1>1, FirstFitIsLongEnough DEF Inv
  <2>2. Take(FirstFit(size), size)
    BY <1>1 DEF memman_alloc
  <2> QED BY <2>1, <2>2, TakeIsGrant
<1>2. CASE LongEnough(size) = {}
  BY <1>2, RefusalIsRight
<1> QED BY <1>1, <1>2

LEMMA StepImplements == Inv /\ Inv' /\ [Next]_vars => [H!Next]_(H!vars)
<1> SUFFICES ASSUME Inv, Inv', [Next]_vars PROVE [H!Next]_(H!vars)
  OBVIOUS
<1>1. ASSUME NEW b \in held, GiveBack(b.addr, b.size), held' = held \ {b},
             result' = result
      PROVE  H!Next
  <2>1. H!Release(b) \/ H!Lose(b)
    BY <1>1, MergeIsRelease, LeakIsLose
  <2> QED BY <2>1 DEF H!Next
<1>2. CASE \E size \in Requests : memman_alloc(size) \/ memman_alloc_4k(size)
  <2>1. PICK size \in Requests : memman_alloc(size) \/ memman_alloc_4k(size)
    BY <1>2
  <2>2. size \in Nat \ {0} /\ RoundUp(size) \in Nat \ {0}
    BY RequestsAssumption, RoundUpPositive
  <2>3. PICK n \in {size, RoundUp(size)} : H!Grant(n) \/ H!Refuse(n)
    BY <2>1, <2>2, AllocImplements DEF memman_alloc_4k
  <2>4. n \in Requests \cup {RoundUp(s) : s \in Requests}
    BY <2>1, <2>3
  <2> QED BY <2>3, <2>4 DEF H!Next
<1>3. CASE \E b \in held : memman_free(b)
  BY <1>1, <1>3 DEF memman_free
<1>4. CASE \E b \in held, size \in Requests :
              b.size = RoundUp(size) /\ memman_free_4k(b, size)
  <2>1. PICK b \in held, size \in Requests :
           b.size = RoundUp(size) /\ memman_free_4k(b, size)
    BY <1>4
  <2>2. GiveBack(b.addr, b.size) /\ held' = held \ {b} /\ result' = result
    BY <2>1 DEF memman_free_4k
  <2> QED BY <2>2, <1>1
<1>5. CASE UNCHANGED vars
  BY <1>5 DEF vars, man, H!vars, FreeAddresses, Entries, Finish
<1> QED BY <1>2, <1>3, <1>4, <1>5 DEF Next

(* The memory manager implements the heap, for any memory and any length   *)
(* of the list: memman_alloc fails only when no run of free memory is long *)
(* enough, memman_free loses memory only when its list is full and the     *)
(* block touches no piece in it.                                           *)
THEOREM MemManRefinesHeap == Spec => ImplementsHeap
<1>1. Inv /\ [Next]_vars => Inv'
  BY StepInv
<1>2. Inv /\ Inv' /\ [Next]_vars => [H!Next]_(H!vars)
  BY StepImplements
<1> QED BY <1>1, <1>2, InitInv, InitImplements, PTL
        DEF Spec, ImplementsHeap, H!Spec

-----------------------------------------------------------------------------
(* Sums.  MapThenSumSet picks the elements of the set one after the other. *)

Adds(g, f, S) ==
  g = [s \in SUBSET S |-> IF s = {} THEN 0
                          ELSE f[CHOOSE x \in s : TRUE]
                               + g[s \ {CHOOSE x \in s : TRUE}]]

(* Whatever adds the values of a function over a finite set gives the same. *)
LEMMA OneSum ==
  ASSUME NEW S, IsFiniteSet(S), NEW f, NEW g, NEW h, Adds(g, f, S), Adds(h, f, S)
  PROVE  g = h
<1>1. \A s \in SUBSET S : IsFiniteSet(s) /\ Cardinality(s) \in Nat
  BY FS_Subset, FS_CardinalityType
<1> DEFINE Differ == {s \in SUBSET S : g[s] # h[s]}
           Sizes == {Cardinality(s) : s \in Differ}
<1>2. SUFFICES ASSUME Differ # {} PROVE FALSE
  <2>1. g = [s \in SUBSET S |-> g[s]] /\ h = [s \in SUBSET S |-> h[s]]
    BY DEF Adds
  <2>2. SUFFICES \A s \in SUBSET S : g[s] = h[s]
    BY <2>1
  <2> QED BY <1>2
<1>3. Sizes \subseteq Nat /\ Sizes # {}
  BY <1>1, <1>2
<1>4. PICK n \in Sizes : \A m \in Sizes : n <= m
  BY <1>3, LeastElement
<1>5. PICK s \in Differ : Cardinality(s) = n
  BY <1>4
<1> DEFINE c == CHOOSE x \in s : TRUE
<1>6. s \in SUBSET S /\ g[s] # h[s]
  BY <1>5
<1>7. s # {}
  BY <1>6 DEF Adds
<1>8. c \in s
  BY <1>7
<1>9. g[s] = f[c] + g[s \ {c}] /\ h[s] = f[c] + h[s \ {c}]
  BY <1>6, <1>7 DEF Adds
<1> HIDE DEF c
<1>10. s \ {c} \in SUBSET S /\ Cardinality(s \ {c}) = n - 1
  BY <1>1, <1>5, <1>6, <1>8, FS_RemoveElement
<1>11. s \ {c} \in Differ
  BY <1>6, <1>9, <1>10
<1>12. Cardinality(s \ {c}) \in Sizes
  BY <1>11
<1>13. n <= n - 1 /\ n \in Nat
  BY <1>3, <1>4, <1>10, <1>12
<1> QED BY <1>13

LEMMA CountOfBoth ==
  ASSUME NEW X, NEW Y, IsFiniteSet(X), IsFiniteSet(Y), X \cap Y = {}
  PROVE  /\ IsFiniteSet(X \cup Y)
         /\ Cardinality(X) \in Nat /\ Cardinality(Y) \in Nat
         /\ Cardinality(X \cup Y) = Cardinality(X) + Cardinality(Y)
<1>1. /\ IsFiniteSet(X \cup Y)
      /\ Cardinality(X \cup Y)
           = Cardinality(X) + Cardinality(Y) - Cardinality(X \cap Y)
  BY FS_Union
<1>2. Cardinality(X \cap Y) = 0
  BY FS_EmptySet
<1>3. Cardinality(X) \in Nat /\ Cardinality(Y) \in Nat
  BY FS_CardinalityType
<1> QED BY <1>1, <1>2, <1>3

Covered(A, s) == UNION {A[x] : x \in s}

(* The number of addresses in blocks that are apart is a sum of their sizes. *)
LEMMA CountAdds ==
  ASSUME NEW S, NEW U, IsFiniteSet(U), NEW A \in [S -> SUBSET U],
         \A x, y \in S : x # y => A[x] \cap A[y] = {},
         NEW f, \A x \in S : f[x] = Cardinality(A[x])
  PROVE  Adds([s \in SUBSET S |-> Cardinality(Covered(A, s))], f, S)
<1> DEFINE g == [s \in SUBSET S |-> Cardinality(Covered(A, s))]
<1>1. \A s \in SUBSET S : Covered(A, s) \in SUBSET U
  BY DEF Covered
<1>2. \A s \in SUBSET S : IsFiniteSet(Covered(A, s))
  BY <1>1, FS_Subset
<1>3. g[{}] = 0
  <2>1. Covered(A, {}) = {}
    BY DEF Covered
  <2> QED BY <2>1, FS_EmptySet
<1>4. ASSUME NEW s \in SUBSET S, s # {}
      PROVE  g[s] = f[CHOOSE x \in s : TRUE] + g[s \ {CHOOSE x \in s : TRUE}]
  <2> DEFINE c == CHOOSE x \in s : TRUE
             t == s \ {c}
  <2>1. c \in s
    BY <1>4
  <2> HIDE DEF c
  <2>2. c \in S /\ t \in SUBSET S
    BY <2>1
  <2>3. Covered(A, s) = A[c] \cup Covered(A, t)
    BY <2>1 DEF Covered
  <2>4. A[c] \cap Covered(A, t) = {}
    BY <2>2 DEF Covered
  <2>5. A[c] \in SUBSET U
    BY <2>2
  <2>6. /\ IsFiniteSet(A[c]) /\ IsFiniteSet(Covered(A, t))
        /\ Cardinality(A[c]) \in Nat /\ Cardinality(Covered(A, t)) \in Nat
    BY <1>2, <2>2, <2>5, FS_Subset, FS_CardinalityType
  <2>7. Cardinality(Covered(A, s)) = Cardinality(A[c]) + Cardinality(Covered(A, t))
    BY <2>3, <2>4, <2>6, CountOfBoth
  <2>8. g[s] = f[c] + g[t]
    BY <2>2, <2>7
  <2> QED BY <2>8 DEF c
<1> HIDE DEF g
<1>5. g = [s \in SUBSET S |-> g[s]]
  BY DEF g
<1>6. \A s \in SUBSET S :
        g[s] = IF s = {} THEN 0
               ELSE f[CHOOSE x \in s : TRUE] + g[s \ {CHOOSE x \in s : TRUE}]
  BY <1>3, <1>4
<1>7. g = [s \in SUBSET S |-> IF s = {} THEN 0
                              ELSE f[CHOOSE x \in s : TRUE]
                                   + g[s \ {CHOOSE x \in s : TRUE}]]
  BY <1>5, <1>6
<1>8. Adds(g, f, S)
  BY <1>7 DEF Adds
<1> QED BY <1>8 DEF g

LEMMA SumOfSizes ==
  ASSUME NEW S, IsFiniteSet(S), NEW g, Adds(g, [b \in S |-> b.size], S)
  PROVE  MapThenSumSet(LAMBDA b : b.size, S) = g[S]
<1> DEFINE f == [b \in S |-> b.size]
           SizesAdd(h) == h = [s \in SUBSET S |->
              IF s = {} THEN 0 ELSE (CHOOSE x \in s : TRUE).size
                               + h[s \ {CHOOSE x \in s : TRUE}]]
<1>1. \A s \in SUBSET S : s # {} =>
        f[CHOOSE x \in s : TRUE] = (CHOOSE x \in s : TRUE).size
  <2>1. \A s \in SUBSET S : s # {} => (CHOOSE x \in s : TRUE) \in S
    OBVIOUS
  <2> QED BY <2>1
<1> HIDE DEF f
<1>2. ASSUME NEW h
      PROVE  Adds(h, f, S) <=> SizesAdd(h)
  <2>1. [s \in SUBSET S |-> IF s = {} THEN 0 ELSE f[CHOOSE x \in s : TRUE]
                               + h[s \ {CHOOSE x \in s : TRUE}]]
        = [s \in SUBSET S |-> IF s = {} THEN 0 ELSE (CHOOSE x \in s : TRUE).size
                               + h[s \ {CHOOSE x \in s : TRUE}]]
    BY <1>1
  <2> QED BY <2>1 DEF Adds
<1>3. SizesAdd(g)
  BY <1>2 DEF f
<1>4. \A h : SizesAdd(h) => h = g
  BY <1>2, OneSum DEF f
<1> QED BY <1>3, <1>4 DEF MapThenSumSet, MapThenFoldSet

LEMMA SumOfEntries ==
  ASSUME IsFiniteSet(Entries), NEW g,
         Adds(g, [i \in Entries |-> free_info[i].size], Entries)
  PROVE  memman_available = g[Entries]
<1> DEFINE f == [i \in Entries |-> free_info[i].size]
           SizesAdd(h) == h = [s \in SUBSET Entries |->
              IF s = {} THEN 0 ELSE free_info[CHOOSE x \in s : TRUE].size
                               + h[s \ {CHOOSE x \in s : TRUE}]]
<1>1. \A s \in SUBSET Entries : s # {} =>
        f[CHOOSE x \in s : TRUE] = free_info[CHOOSE x \in s : TRUE].size
  <2>1. \A s \in SUBSET Entries : s # {} => (CHOOSE x \in s : TRUE) \in Entries
    OBVIOUS
  <2> QED BY <2>1
<1> HIDE DEF f
<1>2. ASSUME NEW h
      PROVE  Adds(h, f, Entries) <=> SizesAdd(h)
  <2>1. [s \in SUBSET Entries |->
           IF s = {} THEN 0 ELSE f[CHOOSE x \in s : TRUE]
                                 + h[s \ {CHOOSE x \in s : TRUE}]]
        = [s \in SUBSET Entries |->
             IF s = {} THEN 0 ELSE free_info[CHOOSE x \in s : TRUE].size
                                   + h[s \ {CHOOSE x \in s : TRUE}]]
    BY <1>1
  <2> QED BY <2>1 DEF Adds
<1>3. SizesAdd(g)
  BY <1>2 DEF f
<1>4. \A h : SizesAdd(h) => h = g
  BY <1>2, OneSum DEF f
<1> QED BY <1>3, <1>4 DEF memman_available, MapThenSumSet, MapThenFoldSet

-----------------------------------------------------------------------------
(* What is free and what is held, as addresses. *)

Memory == Start .. End - 1

Block(b) == b.addr .. b.addr + b.size - 1

HeldAddresses == UNION {Block(b) : b \in held}

LEMMA MemoryIsFinite == IsFiniteSet(Memory) /\ Cardinality(Memory) = End - Start
<1>1. Start \in Int /\ End - 1 \in Int /\ Start < End /\ End \in Int
  BY MemoryAssumption
<1>2. /\ IsFiniteSet(Memory)
      /\ Cardinality(Memory) = IF Start > End - 1 THEN 0 ELSE (End - 1) - Start + 1
  BY <1>1, FS_Interval DEF Memory
<1> QED BY <1>1, <1>2

LEMMA SizeOfInterval ==
  ASSUME NEW a \in Int, NEW n \in Nat
  PROVE  IsFiniteSet(a .. a + n - 1) /\ Cardinality(a .. a + n - 1) = n
<1>1. a + n - 1 \in Int
  OBVIOUS
<1>2. /\ IsFiniteSet(a .. a + n - 1)
      /\ Cardinality(a .. a + n - 1)
           = IF a > a + n - 1 THEN 0 ELSE (a + n - 1) - a + 1
  BY <1>1, FS_Interval
<1> QED BY <1>2

(* memman_available is the number of free addresses. *)
LEMMA AvailableIsCount ==
  ASSUME Inv
  PROVE  /\ memman_available = Cardinality(FreeAddresses)
         /\ FreeAddresses \subseteq Memory
<1> DEFINE A == [i \in Entries |->
                   free_info[i].start .. Finish(free_info[i]) - 1]
           f == [i \in Entries |-> free_info[i].size]
           g == [s \in SUBSET Entries |-> Cardinality(Covered(A, s))]
<1>1. TypeOK /\ Coalesced
  BY DEF Inv
<1>2. /\ free_num \in Nat
      /\ \A i \in Entries :
           /\ free_info[i].start \in Start .. End - 1
           /\ free_info[i].size \in Nat
           /\ Finish(free_info[i]) = free_info[i].start + free_info[i].size
           /\ Finish(free_info[i]) <= End
  BY <1>1, EntryTypes, MemoryAssumption DEF Coalesced, Finish, TypeOK
<1>3. \A i \in Entries : A[i] \in SUBSET Memory
  BY <1>2, MemoryAssumption DEF Memory
<1>4. A \in [Entries -> SUBSET Memory]
  BY <1>3
<1>5. ASSUME NEW i \in Entries, NEW j \in Entries, i # j
      PROVE  A[i] \cap A[j] = {}
  <2>1. \A x \in Int : ~ (Covers(free_info[i], x) /\ Covers(free_info[j], x))
    BY <1>1, <1>5, OneCover
  <2>2. \A x \in A[i] : x \in Int /\ Covers(free_info[i], x)
    BY <1>2, MemoryAssumption DEF Covers
  <2>3. \A x \in A[j] : x \in Int /\ Covers(free_info[j], x)
    BY <1>2, MemoryAssumption DEF Covers
  <2> HIDE DEF A
  <2> QED BY <2>1, <2>2, <2>3
<1>6. \A i \in Entries : f[i] = Cardinality(A[i])
  <2>1. ASSUME NEW i \in Entries
        PROVE  free_info[i].size = Cardinality(A[i])
    <3>1. free_info[i].start \in Int /\ free_info[i].size \in Nat
      BY <1>2, MemoryAssumption
    <3>2. A[i] = free_info[i].start .. free_info[i].start + free_info[i].size - 1
      BY <1>2
    <3> QED BY <3>1, <3>2, SizeOfInterval
  <2> QED BY <2>1
<1> HIDE DEF A, f
<1>7. Adds(g, f, Entries)
  BY <1>4, <1>5, <1>6, MemoryIsFinite, CountAdds
<1>8. IsFiniteSet(Entries)
  BY <1>2, FS_Interval DEF Entries
<1>9. memman_available = g[Entries]
  <2> HIDE DEF g
  <2> QED BY <1>7, <1>8, SumOfEntries DEF f
<1>10. Covered(A, Entries) = FreeAddresses
  BY DEF Covered, FreeAddresses, A
<1>11. FreeAddresses \subseteq Memory
  BY <1>3, <1>10 DEF Covered
<1> QED BY <1>9, <1>10, <1>11

(* What the sizes of the blocks held come to is the number of addresses    *)
(* held.                                                                   *)
LEMMA HeldIsCount ==
  ASSUME Inv
  PROVE  /\ MapThenSumSet(LAMBDA b : b.size, held) = Cardinality(HeldAddresses)
         /\ HeldAddresses \subseteq Memory
<1> DEFINE A == [b \in held |-> Block(b)]
           f == [b \in held |-> b.size]
           g == [s \in SUBSET held |-> Cardinality(Covered(A, s))]
           first == [b \in held |-> b.addr]
<1>1. TypeOK /\ NoSharing /\ HeldInside
  BY DEF Inv
<1>2. \A b \in held : /\ b.addr \in Start .. End - 1
                      /\ b.addr \in Int /\ b.size \in Nat \ {0}
                      /\ b.addr + b.size <= End
  BY <1>1, MemoryAssumption DEF TypeOK, HeldInside
<1>3. \A b \in held : A[b] \in SUBSET Memory
  BY <1>2, MemoryAssumption DEF Memory, Block
<1>4. A \in [held -> SUBSET Memory]
  BY <1>3
<1>5. ASSUME NEW b \in held, NEW c \in held, b # c
      PROVE  A[b] \cap A[c] = {} /\ b.addr # c.addr
  <2>1. Apart(b.addr, b.size, c.addr, c.size)
    BY <1>1, <1>5 DEF NoSharing
  <2>2. /\ b.addr \in Int /\ b.size \in Nat \ {0}
        /\ c.addr \in Int /\ c.size \in Nat \ {0}
    BY <1>2
  <2>3. Block(b) \cap Block(c) = {} /\ b.addr # c.addr
    BY <2>1, <2>2 DEF Apart, Block
  <2> QED BY <2>3
<1>6. \A b \in held : f[b] = Cardinality(A[b])
  BY <1>2, SizeOfInterval DEF Block
<1>7. Adds(g, f, held)
  <2> HIDE DEF A, f
  <2>1. \A b, c \in held : b # c => A[b] \cap A[c] = {}
    BY <1>5
  <2> QED BY <1>4, <1>6, <2>1, MemoryIsFinite, CountAdds
<1> HIDE DEF A
<1>8. IsFiniteSet(held)
  <2>1. first \in Injection(held, Memory)
    <3>1. first \in [held -> Memory]
      BY <1>2 DEF Memory
    <3>2. IsInjective(first)
      BY <1>5 DEF IsInjective
    <3> QED BY <3>1, <3>2 DEF Injection
  <2> QED BY <2>1, MemoryIsFinite, FS_Injection
<1>9. MapThenSumSet(LAMBDA b : b.size, held) = g[held]
  <2> HIDE DEF g
  <2> QED BY <1>7, <1>8, SumOfSizes
<1>10. Covered(A, held) = HeldAddresses
  BY DEF Covered, HeldAddresses, A
<1>11. HeldAddresses \subseteq Memory
  BY <1>3, <1>10 DEF Covered
<1> QED BY <1>9, <1>10, <1>11

LEMMA HeldIsNotFree ==
  ASSUME Inv
  PROVE  /\ HeldAddresses \cap FreeAddresses = {}
         /\ \A b, c \in held : b # c => Block(b) \cap Block(c) = {}
         /\ \A b \in held : /\ b.addr \in Int /\ b.size \in Nat
                            /\ IsFiniteSet(Block(b))
                            /\ Cardinality(Block(b)) = b.size
<1>1. TypeOK /\ NoSharing
  BY DEF Inv
<1>2. \A b \in held : b.addr \in Int /\ b.size \in Nat
  BY <1>1, BlockTypes
<1>3. \A i \in Entries : free_info[i].start \in Int /\ free_info[i].size \in Int
  BY <1>1, EntryTypes
<1>4. ASSUME NEW b \in held, NEW x \in Block(b), x \in FreeAddresses
      PROVE  FALSE
  <2>1. x \in Int
    BY <1>2 DEF Block
  <2>2. PICK i \in Entries : Covers(free_info[i], x)
    BY <1>1, <1>4, <2>1, FreeMembers
  <2>3. Apart(b.addr, b.size, free_info[i].start, free_info[i].size)
    BY <1>1 DEF NoSharing
  <2>4. b.addr <= x /\ x < b.addr + b.size
    BY <1>2 DEF Block
  <2> QED BY <1>2, <1>3, <2>1, <2>2, <2>3, <2>4 DEF Apart, Covers, Finish
<1>5. ASSUME NEW b \in held, NEW c \in held, b # c
      PROVE  Block(b) \cap Block(c) = {}
  <2>1. Apart(b.addr, b.size, c.addr, c.size)
    BY <1>1, <1>5 DEF NoSharing
  <2> QED BY <1>2, <2>1 DEF Apart, Block
<1>6. \A b \in held : IsFiniteSet(Block(b)) /\ Cardinality(Block(b)) = b.size
  BY <1>2, SizeOfInterval DEF Block
<1> QED BY <1>2, <1>4, <1>5, <1>6 DEF HeldAddresses

AllCounted ==
  Cardinality(FreeAddresses) + Cardinality(HeldAddresses) + lost_size
    = End - Start

LEMMA Finiteness ==
  ASSUME Inv
  PROVE  /\ IsFiniteSet(FreeAddresses) /\ IsFiniteSet(HeldAddresses)
         /\ Cardinality(FreeAddresses) \in Nat
         /\ Cardinality(HeldAddresses) \in Nat
         /\ lost_size \in Nat
<1>1. FreeAddresses \in SUBSET Memory /\ HeldAddresses \in SUBSET Memory
  BY AvailableIsCount, HeldIsCount
<1>2. IsFiniteSet(FreeAddresses) /\ IsFiniteSet(HeldAddresses)
  BY <1>1, MemoryIsFinite, FS_Subset
<1> QED BY <1>2, FS_CardinalityType DEF Inv, TypeOK

\* A set that is taken out of another.
LEMMA CountOfRest ==
  ASSUME NEW X, NEW Y, IsFiniteSet(X), Y \subseteq X
  PROVE  /\ Cardinality(X \ Y) \in Nat /\ Cardinality(Y) \in Nat
         /\ Cardinality(X) = Cardinality(X \ Y) + Cardinality(Y)
<1>1. Y \in SUBSET X /\ X \ Y \in SUBSET X
  OBVIOUS
<1>2. IsFiniteSet(Y) /\ IsFiniteSet(X \ Y)
  BY <1>1, FS_Subset
<1>3. (X \ Y) \cap Y = {} /\ (X \ Y) \cup Y = X
  OBVIOUS
<1>4. Cardinality((X \ Y) \cup Y) = Cardinality(X \ Y) + Cardinality(Y)
  BY <1>2, <1>3, CountOfBoth
<1> QED BY <1>2, <1>3, <1>4, FS_CardinalityType

LEMMA GrantCounts ==
  ASSUME Inv, AllCounted, NEW size \in Nat \ {0}, H!Grant(size),
         lost_size' = lost_size
  PROVE  AllCounted'
<1>1. PICK a \in FreeAddresses :
         /\ a .. a + size - 1 \subseteq FreeAddresses
         /\ FreeAddresses' = FreeAddresses \ (a .. a + size - 1)
         /\ held' = held \cup {[addr |-> a, size |-> size]}
  BY DEF H!Grant, H!Fits, H!Extent
<1> DEFINE X == a .. a + size - 1
<1>2. HeldAddresses' = HeldAddresses \cup X
  <2>1. Block([addr |-> a, size |-> size]) = X
    BY DEF Block
  <2>2. HeldAddresses' = UNION {Block(b) : b \in held'}
    BY DEF HeldAddresses, Block
  <2> HIDE DEF X
  <2> QED BY <1>1, <2>1, <2>2 DEF HeldAddresses
<1>3. X \subseteq FreeAddresses /\ FreeAddresses' = FreeAddresses \ X
  BY <1>1
<1> HIDE DEF X
<1>4. /\ IsFiniteSet(FreeAddresses) /\ IsFiniteSet(HeldAddresses)
      /\ lost_size \in Nat
  BY Finiteness
<1>5. IsFiniteSet(X) /\ HeldAddresses \cap X = {}
  <2>1. X \in SUBSET FreeAddresses
    BY <1>3
  <2> QED BY <1>4, <2>1, FS_Subset, HeldIsNotFree
<1>6. /\ Cardinality(FreeAddresses) = Cardinality(FreeAddresses') + Cardinality(X)
      /\ Cardinality(FreeAddresses') \in Nat /\ Cardinality(X) \in Nat
  BY <1>3, <1>4, CountOfRest
<1>7. /\ Cardinality(HeldAddresses') = Cardinality(HeldAddresses) + Cardinality(X)
      /\ Cardinality(HeldAddresses) \in Nat
  BY <1>2, <1>4, <1>5, CountOfBoth
<1> QED BY <1>4, <1>6, <1>7 DEF AllCounted

\* The addresses of all blocks held but one.
LEMMA HeldWithout ==
  ASSUME Inv, NEW b \in held, held' = held \ {b}
  PROVE  /\ HeldAddresses' = HeldAddresses \ Block(b)
         /\ Block(b) \subseteq HeldAddresses
<1>1. HeldAddresses' = UNION {Block(c) : c \in held'}
  BY DEF HeldAddresses, Block
<1>2. \A c \in held : c # b => Block(b) \cap Block(c) = {}
  BY HeldIsNotFree
<1> QED BY <1>1, <1>2 DEF HeldAddresses

LEMMA ReleaseCounts ==
  ASSUME Inv, AllCounted, NEW b \in held, H!Release(b), lost_size' = lost_size
  PROVE  AllCounted'
<1>1. /\ FreeAddresses' = FreeAddresses \cup Block(b)
      /\ held' = held \ {b}
  BY DEF H!Release, H!Extent, Block
<1>2. /\ HeldAddresses' = HeldAddresses \ Block(b)
      /\ Block(b) \subseteq HeldAddresses
  BY <1>1, HeldWithout
<1>3. /\ IsFiniteSet(FreeAddresses) /\ IsFiniteSet(HeldAddresses)
      /\ lost_size \in Nat
  BY Finiteness
<1>4. IsFiniteSet(Block(b)) /\ FreeAddresses \cap Block(b) = {}
  BY <1>2, HeldIsNotFree
<1>5. /\ Cardinality(FreeAddresses') = Cardinality(FreeAddresses) + Cardinality(Block(b))
      /\ Cardinality(FreeAddresses) \in Nat
  BY <1>1, <1>3, <1>4, CountOfBoth
<1>6. /\ Cardinality(HeldAddresses) = Cardinality(HeldAddresses') + Cardinality(Block(b))
      /\ Cardinality(HeldAddresses') \in Nat /\ Cardinality(Block(b)) \in Nat
  BY <1>2, <1>3, CountOfRest
<1> QED BY <1>3, <1>5, <1>6 DEF AllCounted

LEMMA LoseCounts ==
  ASSUME Inv, AllCounted, NEW b \in held, H!Lose(b),
         lost_size' = lost_size + b.size
  PROVE  AllCounted'
<1>1. FreeAddresses' = FreeAddresses /\ held' = held \ {b}
  BY DEF H!Lose
<1>2. /\ HeldAddresses' = HeldAddresses \ Block(b)
      /\ Block(b) \subseteq HeldAddresses
  BY <1>1, HeldWithout
<1>3. /\ IsFiniteSet(HeldAddresses) /\ lost_size \in Nat
      /\ Cardinality(FreeAddresses) \in Nat
  BY Finiteness
<1>4. /\ Cardinality(HeldAddresses) = Cardinality(HeldAddresses') + Cardinality(Block(b))
      /\ Cardinality(HeldAddresses') \in Nat
  BY <1>2, <1>3, CountOfRest
<1>5. Cardinality(Block(b)) = b.size /\ b.size \in Nat
  BY HeldIsNotFree
<1>6. Cardinality(FreeAddresses') = Cardinality(FreeAddresses)
  BY <1>1
<1> QED BY <1>3, <1>4, <1>5, <1>6 DEF AllCounted

LEMMA InitCounts == memman_init => AllCounted
<1> SUFFICES ASSUME memman_init PROVE AllCounted
  OBVIOUS
<1>1. FreeAddresses = Memory /\ held = {} /\ lost_size = 0
  BY InitImplements DEF H!Init, Memory, memman_init
<1>2. HeldAddresses = {}
  BY <1>1 DEF HeldAddresses
<1>3. Cardinality(HeldAddresses) = 0
  BY <1>2, FS_EmptySet
<1>4. Cardinality(FreeAddresses) = End - Start
  BY <1>1, MemoryIsFinite
<1> QED BY <1>1, <1>3, <1>4, MemoryAssumption DEF AllCounted

LEMMA StepCounts == Inv /\ Inv' /\ AllCounted /\ [Next]_vars => AllCounted'
<1> SUFFICES ASSUME Inv, Inv', AllCounted, [Next]_vars PROVE AllCounted'
  OBVIOUS
<1>1. ASSUME UNCHANGED <<man, held>>
      PROVE  AllCounted'
  BY <1>1 DEF AllCounted, man, FreeAddresses, HeldAddresses, Entries, Finish, Block
<1>2. ASSUME NEW b \in held, GiveBack(b.addr, b.size), held' = held \ {b},
             result' = result
      PROVE  AllCounted'
  <2>1. CASE Leak(b.size)
    <3>1. lost_size' = lost_size + b.size
      BY <2>1 DEF Leak
    <3> QED BY <1>2, <2>1, <3>1, LeakIsLose, LoseCounts
  <2>2. CASE ~ Leak(b.size)
    <3>1. lost_size' = lost_size
      BY <1>2, <2>2 DEF GiveBack, Bridge, Extend, Insert
    <3> QED BY <1>2, <2>2, <3>1, MergeIsRelease, ReleaseCounts
  <2> QED BY <2>1, <2>2
<1>3. ASSUME NEW size \in Nat \ {0}, memman_alloc(size)
      PROVE  AllCounted'
  <2>1. CASE LongEnough(size) # {}
    <3>1. /\ FirstFit(size) \in Entries
          /\ free_info[FirstFit(size)].size >= size
      BY <2>1, FirstFitIsLongEnough DEF Inv
    <3>2. Take(FirstFit(size), size)
      BY <1>3, <2>1 DEF memman_alloc
    <3>3. lost_size' = lost_size
      BY <3>2 DEF Take
    <3> QED BY <3>1, <3>2, <3>3, TakeIsGrant, GrantCounts
  <2>2. CASE LongEnough(size) = {}
    <3>1. UNCHANGED <<man, held>>
      BY <1>3, <2>2 DEF memman_alloc
    <3> QED BY <1>1, <3>1
  <2> QED BY <2>1, <2>2
<1>4. CASE \E size \in Requests : memman_alloc(size) \/ memman_alloc_4k(size)
  <2>1. \A size \in Requests : size \in Nat \ {0} /\ RoundUp(size) \in Nat \ {0}
    BY RequestsAssumption, RoundUpPositive
  <2> QED BY <1>3, <1>4, <2>1 DEF memman_alloc_4k
<1>5. CASE \E b \in held : memman_free(b)
  BY <1>2, <1>5 DEF memman_free
<1>6. CASE \E b \in held, size \in Requests :
              b.size = RoundUp(size) /\ memman_free_4k(b, size)
  <2>1. PICK b \in held, size \in Requests :
           b.size = RoundUp(size) /\ memman_free_4k(b, size)
    BY <1>6
  <2>2. GiveBack(b.addr, b.size) /\ held' = held \ {b} /\ result' = result
    BY <2>1 DEF memman_free_4k
  <2> QED BY <1>2, <2>2
<1>7. CASE UNCHANGED vars
  BY <1>1, <1>7 DEF vars
<1> QED BY <1>4, <1>5, <1>6, <1>7 DEF Next

(* Every address of the memory found is free, held, or counted in          *)
(* lost_size, once: what memman_available, shown on the screen, and the    *)
(* blocks handed out and lost_size come to is the memory there is.         *)
THEOREM MemoryIsConserved == Spec => []Conserved
<1>1. Inv /\ AllCounted => Conserved
  BY AvailableIsCount, HeldIsCount DEF AllCounted, Conserved
<1> QED BY <1>1, InitInv, StepInv, InitCounts, StepCounts, PTL DEF Spec
====
