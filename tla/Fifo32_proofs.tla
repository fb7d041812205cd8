--------------------------- MODULE Fifo32_proofs ---------------------------
(***************************************************************************)
(* Proofs about the ring buffer, for every capacity and every set of data. *)
(***************************************************************************)
EXTENDS Fifo32, SequenceTheorems, TLAPS

Inv == TypeOK /\ CountersAgree

(* The ring's type and its counters are right initially. *)
LEMMA InitInv == Init => Inv
  BY SizeAssumption
  DEF Init, Inv, TypeOK, CountersAgree, fifo32_init, fifo32_data_available, Slots

(* What Put does to a buffer with room: the slot written and the counters. *)
LEMMA PutRoom ==
  ASSUME Inv, NEW d \in Data, ~ Full(fifo)
  PROVE  LET w == WrapIndex(fifo.next_write)
         IN /\ w \in Slots
            /\ [fifo.buf EXCEPT ![w] = d] \in [Slots -> Data]
            /\ Put(fifo, d) =
                 [buf |-> [fifo.buf EXCEPT ![w] = d], next_write |-> w + 1,
                  next_read |-> fifo.next_read, free |-> fifo.free - 1,
                  overflow |-> fifo.overflow]
            /\ fifo.free - 1 \in 0 .. Size
<1> DEFINE w == WrapIndex(fifo.next_write)
<1>1. w \in Slots
  BY SizeAssumption DEF Inv, TypeOK, WrapIndex, Slots
<1>2. [fifo.buf EXCEPT ![w] = d] \in [Slots -> Data]
  BY <1>1 DEF Inv, TypeOK
<1>3. Put(fifo, d) = [buf |-> [fifo.buf EXCEPT ![w] = d], next_write |-> w + 1,
                      next_read |-> fifo.next_read, free |-> fifo.free - 1,
                      overflow |-> fifo.overflow]
  BY DEF Put
<1>4. fifo.free - 1 \in 0 .. Size
  BY SizeAssumption DEF Inv, TypeOK, Full
<1> QED BY <1>1, <1>2, <1>3, <1>4

(* What Get does to a buffer that holds an item. *)
LEMMA GetItem ==
  ASSUME Inv, ~ IsEmpty(fifo)
  PROVE  LET r == WrapIndex(fifo.next_read)
         IN /\ r \in Slots
            /\ Get(fifo) = [buf |-> fifo.buf, next_write |-> fifo.next_write,
                            next_read |-> r + 1, free |-> fifo.free + 1,
                            overflow |-> fifo.overflow]
            /\ fifo.free + 1 \in 0 .. Size
  BY SizeAssumption
  DEF Inv, TypeOK, IsEmpty, Get, WrapIndex, Slots

(* Every call keeps the invariant. *)
LEMMA StepInv == Inv /\ [Next]_vars => Inv'
<1> SUFFICES ASSUME Inv, [Next]_vars PROVE Inv'
  OBVIOUS
<1>1. ASSUME NEW d \in Data, fifo32_put(d) PROVE Inv'
  <2>1. CASE Full(fifo)
    BY <1>1, <2>1, SizeAssumption
    DEF Inv, TypeOK, CountersAgree, fifo32_put, Put, Full, fifo32_data_available
  <2>2. CASE ~ Full(fifo)
    <3> DEFINE w == WrapIndex(fifo.next_write)
               m == [fifo.buf EXCEPT ![w] = d]
    <3>1. /\ w \in Slots
          /\ m \in [Slots -> Data]
          /\ fifo' = [buf |-> m, next_write |-> w + 1,
                      next_read |-> fifo.next_read, free |-> fifo.free - 1,
                      overflow |-> fifo.overflow]
          /\ fifo.free - 1 \in 0 .. Size
      BY <1>1, <2>2, PutRoom DEF fifo32_put
    <3>2. w = WrapIndex(fifo.next_write)
      OBVIOUS
    <3> HIDE DEF w, m
    <3>3. TypeOK'
      BY <1>1, <3>1, SizeAssumption DEF Inv, TypeOK, fifo32_put, Slots
    <3>4. CountersAgree'
      BY <3>1, <3>2, SizeAssumption
      DEF Inv, TypeOK, CountersAgree, WrapIndex, fifo32_data_available
    <3> QED BY <3>3, <3>4 DEF Inv
  <2> QED BY <2>1, <2>2
<1>2. CASE fifo32_get
  <2>1. CASE IsEmpty(fifo)
    BY <1>2, <2>1
    DEF Inv, TypeOK, CountersAgree, fifo32_get, Get, GetResult, IsEmpty,
        fifo32_data_available
  <2>2. CASE ~ IsEmpty(fifo)
    <3> DEFINE r == WrapIndex(fifo.next_read)
    <3>1. /\ r \in Slots
          /\ fifo' = [buf |-> fifo.buf, next_write |-> fifo.next_write,
                      next_read |-> r + 1, free |-> fifo.free + 1,
                      overflow |-> fifo.overflow]
          /\ fifo.free + 1 \in 0 .. Size
      BY <1>2, <2>2, GetItem DEF fifo32_get
    <3>2. r = WrapIndex(fifo.next_read)
      OBVIOUS
    <3>3. ret' \in Data
      BY <1>2, <2>2, <3>1 DEF fifo32_get, GetResult, Inv, TypeOK
    <3> HIDE DEF r
    <3>4. TypeOK'
      BY <1>2, <3>1, <3>3, SizeAssumption DEF Inv, TypeOK, fifo32_get, Slots
    <3>5. CountersAgree'
      BY <2>2, <3>1, <3>2, SizeAssumption
      DEF Inv, TypeOK, CountersAgree, WrapIndex, fifo32_data_available, IsEmpty
    <3> QED BY <3>4, <3>5 DEF Inv
  <2> QED BY <2>1, <2>2
<1>3. CASE TaskSleep
  BY <1>3 DEF Inv, TypeOK, CountersAgree, TaskSleep, fifo32_data_available
<1>4. CASE UNCHANGED vars
  BY <1>4 DEF Inv, TypeOK, CountersAgree, vars, fifo32_data_available
<1> QED BY <1>1, <1>2, <1>3, <1>4 DEF Next

(* The indices and counters of the ring stay in range and agree with each  *)
(* other in every reachable state.                                         *)
THEOREM RingInvariant == Spec => [](TypeOK /\ CountersAgree)
<1>1. Spec => []Inv
  BY InitInv, StepInv, PTL DEF Spec
<1> QED BY <1>1, PTL DEF Inv
-----------------------------------------------------------------------------
(* The contents are a sequence as long as the buffer says it holds items.  *)
LEMMA ContentsIsSeq ==
  ASSUME NEW f, f.buf \in [Slots -> Data], f.next_read \in 0 .. Size,
         f.free \in 0 .. Size
  PROVE  /\ Contents(f) \in Seq(Data)
         /\ Len(Contents(f)) = Size - f.free
         /\ \A k \in 1 .. Size - f.free :
               /\ SlotAt(f, k - 1) \in Slots
               /\ Contents(f)[k] = f.buf[SlotAt(f, k - 1)]
<1> DEFINE n == Size - f.free
           c == Contents(f)
<1>1. n \in Nat
  BY SizeAssumption
<1>2. \A k \in 1 .. n : SlotAt(f, k - 1) \in Slots
  <2>1. ASSUME NEW k \in 1 .. n PROVE SlotAt(f, k - 1) \in Slots
    <3>1. /\ k - 1 \in 0 .. Size - 1 /\ f.next_read \in 0 .. Size
          /\ Size \in Nat \ {0}
      BY <1>1, SizeAssumption
    <3> HIDE DEF n, c
    <3> QED BY <3>1 DEF SlotAt, Slots
  <2> QED BY <2>1
<1>3. c = [k \in 1 .. n |-> f.buf[SlotAt(f, k - 1)]]
  BY DEF Contents, fifo32_data_available
<1>4. \A k \in 1 .. n : f.buf[SlotAt(f, k - 1)] \in Data
  BY <1>2
<1> HIDE DEF n, c
<1>5. c \in [1 .. n -> Data]
  BY <1>3, <1>4
<1>6. c \in Seq(Data)
  BY <1>1, <1>5, SeqDef
<1>7. Len(c) = n
  BY <1>1, <1>5, <1>6, LenProperties
<1> QED BY <1>2, <1>3, <1>6, <1>7 DEF n, c

(* A put into a buffer with room appends to the contents. *)
LEMMA PutAppends ==
  ASSUME Inv, NEW d \in Data, ~ Full(fifo)
  PROVE  Contents(Put(fifo, d)) = Append(Contents(fifo), d)
<1> DEFINE n == Size - fifo.free
           w == WrapIndex(fifo.next_write)
           m == [fifo.buf EXCEPT ![w] = d]
           g == Put(fifo, d)
           old == Contents(fifo)
           new == Contents(g)
<1>1. /\ w \in Slots
      /\ m \in [Slots -> Data]
      /\ g = [buf |-> m, next_write |-> w + 1,
              next_read |-> fifo.next_read, free |-> fifo.free - 1,
              overflow |-> fifo.overflow]
  BY PutRoom
<1>2. /\ n \in 0 .. Size - 1
      /\ fifo.next_read \in 0 .. Size
      /\ fifo.free \in 0 .. Size
      /\ fifo.buf \in [Slots -> Data]
  BY SizeAssumption DEF Inv, TypeOK, Full
<1>3. w = SlotAt(fifo, n)
  BY <1>2, SizeAssumption
  DEF Inv, TypeOK, CountersAgree, fifo32_data_available, SlotAt, WrapIndex
<1>4. m = [fifo.buf EXCEPT ![w] = d]
  OBVIOUS
<1>5. n = Size - fifo.free
  OBVIOUS
<1> HIDE DEF w, m, g, n
<1>6. /\ g.buf = m
      /\ g.next_read = fifo.next_read
      /\ g.free = fifo.free - 1
      /\ g.free \in 0 .. Size
      /\ Size - g.free = n + 1
  BY <1>1, <1>2, <1>5, SizeAssumption
<1>7. \A k \in Int : SlotAt(g, k) = SlotAt(fifo, k)
  BY <1>6 DEF SlotAt
<1>8. \A k \in 1 .. n : SlotAt(fifo, k - 1) # w
  BY <1>2, <1>3, SizeAssumption DEF SlotAt
<1>9. /\ new \in Seq(Data)
      /\ Len(new) = n + 1
      /\ \A k \in 1 .. n + 1 : new[k] = m[SlotAt(fifo, k - 1)]
  <2>1. /\ Contents(g) \in Seq(Data)
        /\ Len(Contents(g)) = Size - g.free
        /\ \A k \in 1 .. Size - g.free :
              Contents(g)[k] = g.buf[SlotAt(g, k - 1)]
    BY <1>1, <1>2, <1>6, ContentsIsSeq
  <2> QED BY <2>1, <1>2, <1>6, <1>7
<1>10. /\ old \in Seq(Data)
       /\ Len(old) = n
       /\ \A k \in 1 .. n : /\ SlotAt(fifo, k - 1) \in Slots
                            /\ old[k] = fifo.buf[SlotAt(fifo, k - 1)]
  BY <1>2, <1>5, ContentsIsSeq
<1> HIDE DEF old, new
<1>11. /\ Append(old, d) \in Seq(Data)
       /\ Len(Append(old, d)) = n + 1
       /\ \A k \in 1 .. n : Append(old, d)[k] = old[k]
       /\ Append(old, d)[n + 1] = d
  BY <1>2, <1>10, AppendProperties
<1>12. \A k \in 1 .. n + 1 : new[k] = Append(old, d)[k]
  <2> TAKE k \in 1 .. n + 1
  <2>1. CASE k = n + 1
    BY <2>1, <1>1, <1>2, <1>3, <1>4, <1>9, <1>11
  <2>2. CASE k # n + 1
    <3>1. k \in 1 .. n
      BY <2>2, <1>2
    <3>2. /\ new[k] = m[SlotAt(fifo, k - 1)]
          /\ Append(old, d)[k] = fifo.buf[SlotAt(fifo, k - 1)]
          /\ SlotAt(fifo, k - 1) \in Slots
          /\ SlotAt(fifo, k - 1) # w
      BY <3>1, <1>8, <1>9, <1>10, <1>11
    <3> QED BY <3>2, <1>2, <1>4
  <2> QED BY <2>1, <2>2
<1> QED BY <1>9, <1>11, <1>12, SeqEqual DEF old, new, g

(* A get from a buffer that holds an item returns the oldest one and       *)
(* leaves the rest.                                                        *)
LEMMA GetTails ==
  ASSUME Inv, ~ IsEmpty(fifo)
  PROVE  /\ Contents(fifo) # <<>>
         /\ Contents(Get(fifo)) = Tail(Contents(fifo))
         /\ GetResult(fifo) = Head(Contents(fifo))
<1> DEFINE n == Size - fifo.free
           r == WrapIndex(fifo.next_read)
           g == Get(fifo)
           old == Contents(fifo)
           new == Contents(g)
<1>1. /\ r \in Slots
      /\ g = [buf |-> fifo.buf, next_write |-> fifo.next_write,
              next_read |-> r + 1, free |-> fifo.free + 1,
              overflow |-> fifo.overflow]
      /\ fifo.free + 1 \in 0 .. Size
  BY GetItem
<1>2. /\ n \in 1 .. Size
      /\ fifo.next_read \in 0 .. Size
      /\ fifo.free \in 0 .. Size
      /\ fifo.buf \in [Slots -> Data]
  BY SizeAssumption DEF Inv, TypeOK, IsEmpty
<1>3. r = SlotAt(fifo, 0)
  BY <1>2, SizeAssumption DEF SlotAt, WrapIndex
<1>4. n = Size - fifo.free
  OBVIOUS
<1> HIDE DEF r, g, n
<1>5. /\ g.buf = fifo.buf
      /\ g.next_read = r + 1
      /\ g.next_read \in 0 .. Size
      /\ g.free \in 0 .. Size
      /\ Size - g.free = n - 1
  BY <1>1, <1>2, <1>4, SizeAssumption DEF Slots
<1>6. \A k \in 1 .. n - 1 : SlotAt(g, k - 1) = SlotAt(fifo, k)
  <2> TAKE k \in 1 .. n - 1
  <2>1. CASE fifo.next_read = Size
    <3>1. r = 0
      BY <2>1, <1>2, <1>3, SizeAssumption DEF SlotAt
    <3> QED BY <2>1, <3>1, <1>2, <1>5, SizeAssumption DEF SlotAt
  <2>2. CASE fifo.next_read # Size
    <3>1. r = fifo.next_read
      BY <2>2, <1>2, <1>3, SizeAssumption DEF SlotAt
    <3> QED BY <3>1, <1>2, <1>5, SizeAssumption DEF SlotAt
  <2> QED BY <2>1, <2>2
<1>7. /\ new \in Seq(Data)
      /\ Len(new) = n - 1
      /\ \A k \in 1 .. n - 1 : new[k] = fifo.buf[SlotAt(fifo, k)]
  <2>1. /\ Contents(g) \in Seq(Data)
        /\ Len(Contents(g)) = Size - g.free
        /\ \A k \in 1 .. Size - g.free :
              Contents(g)[k] = g.buf[SlotAt(g, k - 1)]
    BY <1>2, <1>5, ContentsIsSeq
  <2> QED BY <2>1, <1>2, <1>5, <1>6
<1>8. /\ old \in Seq(Data)
      /\ Len(old) = n
      /\ \A k \in 1 .. n : old[k] = fifo.buf[SlotAt(fifo, k - 1)]
  BY <1>2, <1>4, ContentsIsSeq
<1>9. GetResult(fifo) = old[1]
  BY <1>2, <1>3, <1>8 DEF GetResult, r
<1> HIDE DEF old, new
<1>10. old # <<>>
  BY <1>2, <1>8, EmptySeq
<1>11. /\ Head(old) = old[1]
       /\ Tail(old) \in Seq(Data)
       /\ Len(Tail(old)) = n - 1
       /\ \A k \in 1 .. n - 1 : Tail(old)[k] = old[k + 1]
  BY <1>2, <1>8, <1>10, HeadTailProperties
<1>12. \A k \in 1 .. n - 1 : new[k] = Tail(old)[k]
  <2> TAKE k \in 1 .. n - 1
  <2>1. /\ k + 1 \in 1 .. n
        /\ (k + 1) - 1 = k
    BY <1>2
  <2>2. old[k + 1] = fifo.buf[SlotAt(fifo, k)]
    BY <2>1, <1>8
  <2> QED BY <2>2, <1>7, <1>11
<1>13. new = Tail(old)
  BY <1>7, <1>11, <1>12, SeqEqual
<1> QED BY <1>9, <1>10, <1>11, <1>13 DEF old, new, g

(* A buffer that reports it is empty, or full, is so in contents too. *)
LEMMA EmptyFull ==
  ASSUME Inv
  PROVE  /\ IsEmpty(fifo) <=> Contents(fifo) = <<>>
         /\ Full(fifo) <=> Len(Contents(fifo)) = Size
<1>1. /\ fifo.buf \in [Slots -> Data]
      /\ fifo.next_read \in 0 .. Size
      /\ fifo.free \in 0 .. Size
  BY DEF Inv, TypeOK
<1>2. /\ Contents(fifo) \in Seq(Data)
      /\ Len(Contents(fifo)) = Size - fifo.free
  BY <1>1, ContentsIsSeq
<1>3. Contents(fifo) = <<>> <=> Len(Contents(fifo)) = 0
  BY <1>2, EmptySeq
<1> QED BY <1>1, <1>2, <1>3, SizeAssumption DEF IsEmpty, Full

(* The buffer starts as the empty queue. *)
LEMMA InitRefines == Init => Queue!Init
<1> SUFFICES ASSUME Init PROVE Queue!Init
  OBVIOUS
<1>1. Inv
  BY InitInv
<1>2. IsEmpty(fifo) /\ fifo.overflow = FALSE
  BY DEF Init, IsEmpty, fifo32_init
<1> QED BY <1>1, <1>2, EmptyFull DEF Init, Queue!Init

(* Every call on the buffer is an operation of the queue. *)
LEMMA StepRefines == Inv /\ [Next]_vars => [Queue!Next]_(Queue!vars)
<1> SUFFICES ASSUME Inv, [Next]_vars PROVE [Queue!Next]_(Queue!vars)
  OBVIOUS
<1>1. ASSUME NEW d \in Data, fifo32_put(d) PROVE Queue!Next
  <2>1. CASE Full(fifo)
    <3>1. /\ fifo' = [fifo EXCEPT !.overflow = TRUE]
          /\ ret' = Overflow
          /\ awake' = awake
      BY <1>1, <2>1 DEF fifo32_put, Put, Inv, TypeOK
    <3>2. Contents(fifo)' = Contents(fifo)
      BY <3>1 DEF Contents, SlotAt, fifo32_data_available, Inv, TypeOK
    <3>3. fifo.overflow' = TRUE
      BY <3>1 DEF Inv, TypeOK
    <3>4. Queue!Reject
      BY <3>1, <3>2, <3>3, <2>1, EmptyFull DEF Queue!Reject
    <3> QED BY <3>4 DEF Queue!Next
  <2>2. CASE ~ Full(fifo)
    <3>1. /\ fifo' = Put(fifo, d)
          /\ ret' = Ok
          /\ awake' = TRUE
      BY <1>1, <2>2 DEF fifo32_put
    <3>2. Contents(fifo)' = Append(Contents(fifo), d)
      BY <3>1, <2>2, PutAppends
    <3>3. fifo.overflow' = fifo.overflow
      BY <3>1, <2>2, PutRoom
    <3>4. Len(Contents(fifo)) < Size
      <4>1. /\ fifo.free \in 0 .. Size
            /\ Len(Contents(fifo)) = Size - fifo.free
        BY ContentsIsSeq DEF Inv, TypeOK
      <4> QED BY <4>1, <2>2, SizeAssumption DEF Full
    <3>5. Queue!Accept(d)
      BY <3>1, <3>2, <3>3, <3>4 DEF Queue!Accept
    <3> QED BY <3>5 DEF Queue!Next
  <2> QED BY <2>1, <2>2
<1>2. CASE fifo32_get
  <2>1. CASE IsEmpty(fifo)
    <3>1. Queue!TakeNothing
      BY <1>2, <2>1, EmptyFull
      DEF Queue!TakeNothing, fifo32_get, Get, GetResult
    <3> QED BY <3>1 DEF Queue!Next
  <2>2. CASE ~ IsEmpty(fifo)
    <3>1. /\ fifo' = Get(fifo)
          /\ ret' = GetResult(fifo)
          /\ awake' = awake
      BY <1>2 DEF fifo32_get
    <3>2. fifo.overflow' = fifo.overflow
      BY <3>1, <2>2, GetItem
    <3>3. Queue!Take
      BY <3>1, <3>2, <2>2, GetTails DEF Queue!Take
    <3> QED BY <3>3 DEF Queue!Next
  <2> QED BY <2>1, <2>2
<1>3. CASE TaskSleep
  <2>1. Queue!Sleep
    BY <1>3 DEF TaskSleep, Queue!Sleep
  <2> QED BY <2>1 DEF Queue!Next
<1>4. CASE UNCHANGED vars
  BY <1>4 DEF vars, Queue!vars
<1> QED BY <1>1, <1>2, <1>3, <1>4 DEF Next

(* The ring buffer implements the bounded queue for every capacity: items  *)
(* come out in the order they went in and none is lost or invented.        *)
THEOREM RingRefinesQueue == Spec => ImplementsBoundedQueue
<1>1. Spec => []Inv
  BY InitInv, StepInv, PTL DEF Spec
<1>2. QED
  BY <1>1, InitRefines, StepRefines, PTL
  DEF Spec, ImplementsBoundedQueue, Queue!Spec
=============================================================================
