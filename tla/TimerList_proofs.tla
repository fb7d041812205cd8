-------------------------- MODULE TimerList_proofs --------------------------
(***************************************************************************)
(* The list of timers, for every size of the pool and of a word, and every *)
(* time and datum that callers pass: it stays in order, and its end is     *)
(* followed only when the clock or a deadline asked for reaches the        *)
(* sentinel's.  With a horizon below the sentinel's deadline, which is     *)
(* then never met, no slot is lost and the list implements the set of      *)
(* pending timers.                                                         *)
(***************************************************************************)
EXTENDS TimerList, FiniteSetTheorems, WellFoundedInduction, TLAPS

-----------------------------------------------------------------------------
(* The list as a function L from 0 .. n to slots. *)

Linked(L, n, t0, nx) ==
  /\ L \in [0 .. n -> Slots]
  /\ L[0] = t0 /\ L[n] = Sentinel
  /\ \A k \in 0 .. n - 1 : nx[L[k]] = L[k + 1]
  /\ nx[Sentinel] = NULL
  /\ \A j, k \in 0 .. n : L[j] = L[k] => j = k

Ordered(L, n, tg) ==
  \A j, k \in 0 .. n : j <= k => tg[L[j]] <= tg[L[k]]

(* Each pending timer is marked, has its datum and a deadline within the   *)
(* horizon; what else is marked was so in raw memory.                      *)
Marked(L, n, us) ==
  /\ \A k \in 0 .. n : L[k] \notin leaked
  /\ \A s \in Slots : us[s] <=> s \in leaked \/ \E k \in 0 .. n : s = L[k]

Armed(L, n, tg, dt) ==
  \A k \in 0 .. n - 1 : tg[L[k]] <= Horizon /\ dt[L[k]] \in Data

IsList(L, n) ==
  /\ Linked(L, n, timer0, next)
  /\ Ordered(L, n, target)
  /\ Marked(L, n, using)
  /\ Armed(L, n, target, data)

HasList == \E n \in Nat : \E L \in [0 .. n -> Slots] : IsList(L, n)

InOrder == \E n \in Nat : \E L \in [0 .. n -> Slots] :
              Linked(L, n, timer0, next) /\ Ordered(L, n, target)

(* While the program runs.                                                 *)
IInv ==
  /\ TypeOK
  /\ fault = "none"
  /\ target[Sentinel] = SENTINEL
  /\ current_time <= Horizon
  /\ ~ handling => current_time < target[timer0]
  /\ HasList

(* After a fault.                                                          *)
Stopped == TypeOK /\ fault # "none" /\ InOrder

(* Steps that end in a fault.                                              *)
PastEnd(deadline) ==
  /\ deadline >= SENTINEL
  /\ fault' = "null_timer"
  /\ Stopped'

Asserted ==
  /\ current_time' >= ASSERT_LIMIT
  /\ fault' = "assert"
  /\ Stopped'

-----------------------------------------------------------------------------
(* Arithmetic and sets. *)

LEMMA Constants ==
  /\ TIMER_SIZE \in Nat /\ TIMER_SIZE > 0
  /\ MAX_TIME \in Nat /\ ASSERT_LIMIT \in Nat /\ SENTINEL \in Nat
  /\ TICK \in Nat /\ Horizon \in Nat
  /\ 0 < SENTINEL /\ SENTINEL < ASSERT_LIMIT /\ ASSERT_LIMIT < MAX_TIME
  /\ Horizon <= MAX_TIME
  /\ Times \subseteq 0 .. MAX_TIME
  /\ Slots = 0 .. TIMER_SIZE - 1 /\ Sentinel = 0 /\ NULL = -1
  /\ Sentinel \in Slots /\ NULL \notin Slots
  BY WordsAssumption DEF Slots, Sentinel, NULL

LEMMA LeastElement ==
  ASSUME NEW S \in SUBSET Nat, S # {}
  PROVE  \E x \in S : \A y \in S : x <= y
<1> DEFINE R == {ss \in Nat \X Nat : ss[1] < ss[2]}
<1>1. R = OpToRel(<, Nat)
  BY DEF OpToRel
<1>2. IsWellFoundedOn(R, Nat)
  BY <1>1, NatLessThanWellFounded
<1>3. PICK x \in S : \A y \in S : ~ (<<y, x>> \in R)
  BY <1>2, WFMin
<1>4. \A y \in S : ~ (y < x)
  BY <1>3
<1> QED BY <1>4

(* A list is no longer than the pool. *)
LEMMA ListFits ==
  ASSUME NEW n \in Nat, NEW L \in [0 .. n -> Slots],
         \A j, k \in 0 .. n : L[j] = L[k] => j = k
  PROVE  n < TIMER_SIZE
<1> SUFFICES ASSUME TIMER_SIZE <= n PROVE FALSE
  BY Constants
<1>1. /\ IsFiniteSet(0 .. n) /\ Cardinality(0 .. n) = n + 1
      /\ IsFiniteSet(Slots) /\ Cardinality(Slots) = TIMER_SIZE
  <2>1. n \in Int /\ TIMER_SIZE - 1 \in Int /\ 0 \in Int
    BY Constants
  <2> QED BY <2>1, Constants, FS_Interval
<1>2. Cardinality(Slots) < Cardinality(0 .. n)
  BY <1>1, Constants
<1>3. \E x, y \in 0 .. n : x # y /\ L[x] = L[y]
  BY <1>1, <1>2, FS_PigeonHole, Zenon
<1> QED BY <1>3

-----------------------------------------------------------------------------
(* What Nth and Chain are in terms of the list. *)

(* A recursive definition says what it says when there is a function that  *)
(* satisfies it; here it is the list, then NULL.                           *)
LEMMA NthOfList ==
  ASSUME NEW n \in Nat, NEW L \in [0 .. n -> Slots],
         Linked(L, n, timer0, next)
  PROVE  /\ Nth \in [0 .. TIMER_SIZE -> Slots \cup {NULL}]
         /\ \A k \in 0 .. TIMER_SIZE :
               Nth[k] = IF k <= n THEN L[k] ELSE NULL
<1> DEFINE Body(nth) == [k \in 0 .. TIMER_SIZE |->
                           IF k = 0 THEN timer0
                           ELSE IF nth[k - 1] = NULL THEN NULL
                           ELSE next[nth[k - 1]]]
           g == [k \in 0 .. TIMER_SIZE |-> IF k <= n THEN L[k] ELSE NULL]
<1>1. ASSUME NEW k \in 0 .. TIMER_SIZE
      PROVE  g[k] = IF k = 0 THEN timer0
                    ELSE IF g[k - 1] = NULL THEN NULL ELSE next[g[k - 1]]
  <2>1. CASE k = 0
    BY <2>1 DEF Linked
  <2>2. CASE k > 0 /\ k <= n
    <3>1. g[k - 1] = L[k - 1] /\ g[k - 1] # NULL /\ g[k] = L[k] /\ k - 1 \in 0 .. n - 1
      BY <2>2, Constants
    <3>2. next[L[k - 1]] = L[k - 1 + 1]
      BY <3>1 DEF Linked
    <3> QED BY <2>2, <3>1, <3>2
  <2>3. CASE k > 0 /\ k = n + 1
    <3>1. g[k - 1] = Sentinel /\ g[k] = NULL
      BY <2>3, Constants DEF Linked
    <3> QED BY <2>3, <3>1, Constants DEF Linked
  <2>4. CASE k > n + 1
    BY <2>4, Constants
  <2> QED BY <2>1, <2>2, <2>3, <2>4
<1>2. g = Body(g)
  BY <1>1
<1>3. Nth = (CHOOSE nth : nth = Body(nth))
  BY DEF Nth
<1>4. Nth = Body(Nth)
  <2> HIDE DEF Body, g
  <2> QED BY <1>2, <1>3
<1>5. \A k \in 0 .. TIMER_SIZE : Nth[k] = g[k]
  <2> HIDE DEF g
  <2> DEFINE D == {k \in 0 .. TIMER_SIZE : Nth[k] # g[k]}
  <2> SUFFICES ASSUME D # {} PROVE FALSE
    OBVIOUS
  <2>1. D \in SUBSET Nat /\ TIMER_SIZE \in Nat
    <3>1. TIMER_SIZE \in Nat
      BY Constants
    <3> QED BY <3>1
  <2>2. PICK k \in D : \A j \in D : k <= j
    BY <2>1, LeastElement
  <2>3. k # 0 => k - 1 \in 0 .. TIMER_SIZE /\ k - 1 \notin D
    BY <2>1, <2>2
  <2>4. k # 0 => Nth[k - 1] = g[k - 1]
    BY <2>3
  <2>5. Nth[k] = IF k = 0 THEN timer0
                 ELSE IF Nth[k - 1] = NULL THEN NULL ELSE next[Nth[k - 1]]
    BY <1>4
  <2>6. Nth[k] = g[k]
    <3>1. k \in 0 .. TIMER_SIZE
      OBVIOUS
    <3> QED BY <1>1, <2>4, <2>5, <3>1
  <2> QED BY <2>6
<1>6. Nth \in [0 .. TIMER_SIZE -> Slots \cup {NULL}]
  <2>1. \A k \in 0 .. TIMER_SIZE : g[k] \in Slots \cup {NULL}
    OBVIOUS
  <2> HIDE DEF g
  <2>2. DOMAIN Nth = 0 .. TIMER_SIZE /\ Nth = [k \in 0 .. TIMER_SIZE |-> Nth[k]]
    BY <1>4
  <2> QED BY <1>5, <2>1, <2>2
<1> QED BY <1>5, <1>6

LEMMA ChainOfList ==
  ASSUME NEW n \in Nat, NEW L \in [0 .. n -> Slots],
         Linked(L, n, timer0, next)
  PROVE  \A s : s \in Chain <=> \E k \in 0 .. n : s = L[k]
<1>1. n < TIMER_SIZE /\ TIMER_SIZE \in Nat
  BY ListFits, Constants DEF Linked
<1>2. \A k \in 0 .. TIMER_SIZE : Nth[k] = IF k <= n THEN L[k] ELSE NULL
  BY NthOfList
<1>3. \A k \in 0 .. n : k \in 0 .. TIMER_SIZE /\ L[k] # NULL
  BY <1>1, Constants
<1>4. \A k \in 0 .. TIMER_SIZE : Nth[k] # NULL => k \in 0 .. n
  BY <1>1, <1>2
<1> QED BY <1>2, <1>3, <1>4 DEF Chain

-----------------------------------------------------------------------------
(* The two changes of the list. *)

LEMMA ListKept == HasList /\ UNCHANGED <<timerctl, leaked>> => HasList'
<1> SUFFICES ASSUME UNCHANGED <<timerctl, leaked>>,
                    NEW n \in Nat, NEW L \in [0 .. n -> Slots], IsList(L, n)
             PROVE  IsList(L, n)'
  BY DEF HasList
<1> QED BY DEF timerctl, IsList, Linked, Ordered, Marked, Armed

(* A slot enters at position j.                                            *)
LEMMA ListInserted ==
  ASSUME NEW n \in Nat, NEW L \in [0 .. n -> Slots], IsList(L, n), TypeOK,
         target[Sentinel] = SENTINEL,
         NEW s \in Slots, ~ using[s],
         NEW deadline \in Nat, deadline <= Horizon, NEW d \in Data,
         NEW j \in 0 .. n, deadline <= target[L[j]],
         using' = [using EXCEPT ![s] = TRUE],
         target' = [target EXCEPT ![s] = deadline],
         data' = [data EXCEPT ![s] = d],
         \/ /\ j = 0
            /\ next' = [next EXCEPT ![s] = timer0] /\ timer0' = s
         \/ /\ j > 0 /\ target[L[j - 1]] <= deadline
            /\ next' = [next EXCEPT ![s] = next[L[j - 1]], ![L[j - 1]] = s]
            /\ timer0' = timer0,
         leaked' = leaked
  PROVE  /\ \E M \in [0 .. n + 1 -> Slots] : IsList(M, n + 1)'
         /\ target'[Sentinel] = SENTINEL
         /\ \A k \in 0 .. n : s # L[k]
<1> DEFINE M == [k \in 0 .. n + 1 |-> IF k < j THEN L[k]
                                      ELSE IF k = j THEN s ELSE L[k - 1]]
<1>1. \A k \in 0 .. n : L[k] \in Slots /\ s # L[k]
  BY DEF IsList, Marked
<1>2. /\ M \in [0 .. n + 1 -> Slots]
      /\ \A k \in 0 .. j - 1 : k \in 0 .. n /\ M[k] = L[k]
      /\ M[j] = s
      /\ \A k \in j + 1 .. n + 1 : k - 1 \in j .. n /\ M[k] = L[k - 1]
      /\ \A k \in 0 .. n + 1 : k \in 0 .. j - 1 \/ k = j \/ k \in j + 1 .. n + 1
  <2>1. \A k \in 0 .. n + 1 : k >= j + 1 => k - 1 \in 0 .. n
    OBVIOUS
  <2>2. \A k \in 0 .. n + 1 : k < j => k \in 0 .. n
    OBVIOUS
  <2> QED BY <1>1, <2>1, <2>2
<1> HIDE DEF M
<1>3. /\ \A u \in Slots : u # s => target'[u] = target[u] /\ data'[u] = data[u]
                                  /\ (using'[u] <=> using[u])
      /\ target'[s] = deadline /\ data'[s] = d /\ using'[s]
  BY DEF TypeOK
<1>4. target'[Sentinel] = SENTINEL
  BY <1>1, <1>3, Constants DEF IsList, Linked
<1>5. Linked(M, n + 1, timer0', next')
  <2>1. /\ L[0] = timer0 /\ L[n] = Sentinel
        /\ \A k \in 0 .. n - 1 : next[L[k]] = L[k + 1]
        /\ next[Sentinel] = NULL
        /\ \A i, k \in 0 .. n : L[i] = L[k] => i = k
    BY DEF IsList, Linked
  <2>2. M[0] = timer0'
    <3>1. CASE j = 0
      BY <1>2, <3>1
    <3>2. CASE j > 0
      BY <1>2, <2>1, <3>2
    <3> QED BY <3>1, <3>2
  <2>3. M[n + 1] = Sentinel
    BY <1>2, <2>1
  <2>4. ASSUME NEW k \in 0 .. n + 1 - 1
        PROVE  next'[M[k]] = M[k + 1]
    <3>1. CASE k < j - 1
      <4>1. /\ M[k] = L[k] /\ M[k + 1] = L[k + 1] /\ next[L[k]] = L[k + 1]
            /\ L[k] # s /\ L[k] # L[j - 1] /\ L[k] \in Slots
        <5>1. /\ k \in 0 .. j - 1 /\ k + 1 \in 0 .. j - 1
              /\ k \in 0 .. n - 1 /\ k \in 0 .. n /\ j - 1 \in 0 .. n
          BY <3>1
        <5>2. L[k] # L[j - 1]
          BY <2>1, <3>1, <5>1
        <5> QED BY <1>1, <1>2, <2>1, <5>1, <5>2
      <4> QED BY <3>1, <4>1 DEF TypeOK
    <3>2. CASE k = j - 1
      <4>1. M[k] = L[j - 1] /\ M[k + 1] = s /\ L[j - 1] # s /\ L[j - 1] \in Slots
        BY <1>1, <1>2, <3>2
      <4> QED BY <3>2, <4>1 DEF TypeOK
    <3>3. CASE k = j
      <4>1. M[k] = s /\ M[k + 1] = L[j]
        <5>1. j + 1 \in j + 1 .. n + 1 /\ j + 1 - 1 = j
          OBVIOUS
        <5>2. M[j + 1] = L[j + 1 - 1]
          BY <1>2, <5>1
        <5> QED BY <1>2, <3>3, <5>1, <5>2
      <4>2. CASE j = 0
        BY <2>1, <4>1, <4>2 DEF TypeOK
      <4>3. CASE j > 0
        <5>1. next[L[j - 1]] = L[j] /\ L[j - 1] # s /\ L[j - 1] \in Slots
          <6>1. j - 1 \in 0 .. n - 1 /\ j - 1 \in 0 .. n /\ j - 1 + 1 = j
            BY <4>3
          <6>2. next[L[j - 1]] = L[j - 1 + 1]
            BY <2>1, <6>1
          <6> QED BY <1>1, <6>1, <6>2
        <5> QED BY <4>1, <4>3, <5>1 DEF TypeOK
      <4> QED BY <4>2, <4>3
    <3>4. CASE k > j
      <4>1. /\ M[k] = L[k - 1] /\ M[k + 1] = L[k] /\ next[L[k - 1]] = L[k]
            /\ L[k - 1] # s /\ L[k - 1] \in Slots
            /\ j > 0 => L[k - 1] # L[j - 1]
        <5>1. /\ k \in j + 1 .. n + 1 /\ k + 1 \in j + 1 .. n + 1
              /\ k - 1 \in 0 .. n - 1 /\ k + 1 - 1 = k
          BY <3>4
        <5>2. M[k] = L[k - 1] /\ M[k + 1] = L[k + 1 - 1]
          BY <1>2, <5>1
        <5>3. next[L[k - 1]] = L[k - 1 + 1] /\ k - 1 + 1 = k
          BY <2>1, <5>1
        <5>4. k - 1 \in 0 .. n /\ (j > 0 => j - 1 \in 0 .. n) /\ k - 1 # j - 1
          BY <3>4
        <5>5. L[k - 1] # s /\ L[k - 1] \in Slots
          BY <1>1, <5>4
        <5>6. j > 0 => L[k - 1] # L[j - 1]
          BY <2>1, <5>4
        <5> QED BY <5>1, <5>2, <5>3, <5>5, <5>6
      <4> QED BY <4>1 DEF TypeOK
    <3> QED BY <3>1, <3>2, <3>3, <3>4
  <2>5. next'[Sentinel] = NULL
    <3>1. Sentinel # s /\ Sentinel \in Slots /\ (j > 0 => L[j - 1] # Sentinel)
      <4>1. n \in 0 .. n /\ (j > 0 => j - 1 \in 0 .. n /\ j - 1 # n)
        OBVIOUS
      <4>2. L[n] = Sentinel /\ Sentinel \in Slots /\ Sentinel # s
        BY <1>1, <2>1, <4>1
      <4>3. ASSUME j > 0 PROVE L[j - 1] # L[n]
        BY <2>1, <4>1, <4>3
      <4> QED BY <4>2, <4>3
    <3>2. \/ next' = [next EXCEPT ![s] = timer0]
          \/ /\ j > 0
             /\ next' = [next EXCEPT ![s] = next[L[j - 1]], ![L[j - 1]] = s]
      OBVIOUS
    <3>3. next \in [Slots -> Slots \cup {NULL}] /\ next[Sentinel] = NULL
      BY <2>1 DEF TypeOK
    <3> QED BY <3>1, <3>2, <3>3
  <2>6. \A i, k \in 0 .. n + 1 : M[i] = M[k] => i = k
    <3>1. ASSUME NEW i \in 0 .. n + 1, NEW k \in 0 .. n + 1, M[i] = M[k],
                 i < k
          PROVE  FALSE
      <4>1. CASE k < j
        <5>1. i \in 0 .. j - 1 /\ k \in 0 .. j - 1
          BY <3>1, <4>1
        <5> QED BY <1>2, <2>1, <3>1, <5>1
      <4>2. CASE k = j
        <5>1. i \in 0 .. j - 1
          BY <3>1, <4>2
        <5> QED BY <1>1, <1>2, <3>1, <4>2, <5>1
      <4>3. CASE k > j /\ i = j
        <5>1. k \in j + 1 .. n + 1 /\ k - 1 \in 0 .. n
          BY <4>3
        <5> QED BY <1>1, <1>2, <3>1, <4>3, <5>1
      <4>4. CASE k > j /\ i < j
        <5>1. /\ i \in 0 .. j - 1 /\ i \in 0 .. n
              /\ k \in j + 1 .. n + 1 /\ k - 1 \in 0 .. n /\ i # k - 1
          BY <4>4
        <5> QED BY <1>2, <2>1, <3>1, <5>1
      <4>5. CASE i > j
        <5>1. /\ i \in j + 1 .. n + 1 /\ i - 1 \in 0 .. n
              /\ k \in j + 1 .. n + 1 /\ k - 1 \in 0 .. n /\ i - 1 # k - 1
          BY <3>1, <4>5
        <5> QED BY <1>2, <2>1, <3>1, <5>1
      <4> QED BY <3>1, <4>1, <4>2, <4>3, <4>4, <4>5
    <3>2. ASSUME NEW i \in 0 .. n + 1, NEW k \in 0 .. n + 1, M[i] = M[k],
                 i # k
          PROVE  FALSE
      <4>1. i < k \/ k < i
        BY <3>2
      <4> QED BY <3>1, <3>2, <4>1
    <3> QED BY <3>2
  <2> QED BY <1>2, <2>2, <2>3, <2>4, <2>5, <2>6 DEF Linked
<1>6. Ordered(M, n + 1, target')
  <2>1. \A i, k \in 0 .. n : i <= k => target[L[i]] <= target[L[k]]
    BY DEF IsList, Ordered
  <2>2. \A k \in 0 .. n : target[L[k]] \in Nat
    BY <1>1, Constants DEF TypeOK
  <2>3. \A k \in 0 .. n : /\ k < j => target[L[k]] <= deadline
                          /\ k >= j => deadline <= target[L[k]]
    BY <2>1, <2>2
  <2>4. ASSUME NEW i \in 0 .. n + 1, NEW k \in 0 .. n + 1, i <= k
        PROVE  target'[M[i]] <= target'[M[k]]
    <3>1. CASE k < j
      BY <1>1, <1>2, <1>3, <2>1, <2>4, <3>1
    <3>2. CASE k = j
      BY <1>1, <1>2, <1>3, <2>3, <2>4, <3>2
    <3>3. CASE k > j /\ i > j
      <4>1. /\ k - 1 \in 0 .. n /\ i - 1 \in 0 .. n /\ i - 1 <= k - 1
            /\ M[k] = L[k - 1] /\ M[i] = L[i - 1]
        BY <1>2, <2>4, <3>3
      <4> QED BY <1>1, <1>3, <2>1, <4>1
    <3>4. CASE k > j /\ i = j
      <4>1. k - 1 \in 0 .. n /\ k - 1 >= j /\ M[k] = L[k - 1] /\ M[i] = s
        BY <1>2, <3>4
      <4> QED BY <1>1, <1>3, <2>3, <4>1
    <3>5. CASE k > j /\ i < j
      <4>1. /\ k - 1 \in 0 .. n /\ i \in 0 .. n /\ i <= k - 1
            /\ M[k] = L[k - 1] /\ M[i] = L[i]
        BY <1>2, <3>5
      <4> QED BY <1>1, <1>3, <2>1, <4>1
    <3> QED BY <3>1, <3>2, <3>3, <3>4, <3>5
  <2> QED BY <2>4 DEF Ordered
<1>7. Marked(M, n + 1, using)'
  <2>1. /\ \A k \in 0 .. n : L[k] \notin leaked
        /\ \A u \in Slots : using[u] <=> u \in leaked \/ \E k \in 0 .. n : u = L[k]
        /\ s \notin leaked
    BY DEF IsList, Marked
  <2>2. \A k \in 0 .. n + 1 : M[k] \notin leaked
    BY <1>2, <2>1
  <2>3. \A k \in 0 .. n : \E i \in 0 .. n + 1 : M[i] = L[k]
    <3> SUFFICES ASSUME NEW k \in 0 .. n
                 PROVE  \E i \in 0 .. n + 1 : M[i] = L[k]
      OBVIOUS
    <3>1. CASE k < j
      <4>1. k \in 0 .. j - 1 /\ k \in 0 .. n + 1
        BY <3>1
      <4>2. M[k] = L[k]
        BY <1>2, <3>1, <4>1
      <4> QED BY <4>1, <4>2
    <3>2. CASE k >= j
      <4>1. k + 1 \in j + 1 .. n + 1 /\ k + 1 - 1 = k /\ k + 1 \in 0 .. n + 1
        BY <3>2
      <4>2. M[k + 1] = L[k + 1 - 1]
        BY <1>2, <4>1
      <4> QED BY <4>1, <4>2
    <3> QED BY <3>1, <3>2
  <2>4. \A i \in 0 .. n + 1 : M[i] = s \/ \E k \in 0 .. n : M[i] = L[k]
    BY <1>2
  <2>5. ASSUME NEW u \in Slots
        PROVE  using'[u] <=> u \in leaked \/ \E k \in 0 .. n + 1 : u = M[k]
    <3>1. CASE u = s
      <4>1. j \in 0 .. n + 1
        OBVIOUS
      <4> QED BY <1>2, <1>3, <3>1, <4>1
    <3>2. CASE u # s
      <4>1. (\E k \in 0 .. n + 1 : u = M[k]) <=> \E k \in 0 .. n : u = L[k]
        BY <2>3, <2>4, <3>2
      <4> QED BY <1>3, <2>1, <3>2, <4>1
    <3> QED BY <3>1, <3>2
  <2> QED BY <2>2, <2>5 DEF Marked
<1>8. Armed(M, n + 1, target', data')
  <2>1. \A k \in 0 .. n - 1 : target[L[k]] <= Horizon /\ data[L[k]] \in Data
    BY DEF IsList, Armed
  <2> SUFFICES ASSUME NEW k \in 0 .. n + 1 - 1
               PROVE  target'[M[k]] <= Horizon /\ data'[M[k]] \in Data
    BY DEF Armed
  <2>2. CASE k < j
    BY <1>1, <1>2, <1>3, <2>1, <2>2
  <2>3. CASE k = j
    BY <1>2, <1>3, <2>3
  <2>4. CASE k > j
    <3>1. k - 1 \in 0 .. n - 1 /\ k - 1 \in 0 .. n /\ M[k] = L[k - 1]
      BY <1>2, <2>4
    <3> QED BY <1>1, <1>3, <2>1, <3>1
  <2> QED BY <2>2, <2>3, <2>4
<1>9. IsList(M, n + 1)'
  BY <1>5, <1>6, <1>7, <1>8 DEF IsList
<1> QED BY <1>1, <1>2, <1>4, <1>9

(* The first timer leaves the list; the sentinel never does.               *)
LEMMA HeadRemoved ==
  ASSUME NEW n \in Nat, NEW L \in [0 .. n -> Slots], IsList(L, n), TypeOK,
         n > 0,
         using' = [using EXCEPT ![timer0] = FALSE],
         timer0' = next[timer0],
         UNCHANGED <<target, data, next, leaked>>
  PROVE  \E M \in [0 .. n - 1 -> Slots] : IsList(M, n - 1)'
<1> DEFINE M == [k \in 0 .. n - 1 |-> L[k + 1]]
<1>1. /\ \A k \in 0 .. n : L[k] \in Slots
      /\ \A k \in 0 .. n - 1 : k + 1 \in 0 .. n /\ k \in 0 .. n
  OBVIOUS
<1>2. /\ M \in [0 .. n - 1 -> Slots]
      /\ \A k \in 0 .. n - 1 : M[k] = L[k + 1]
  BY <1>1
<1> HIDE DEF M
<1>3. /\ L[0] = timer0 /\ L[n] = Sentinel
      /\ \A k \in 0 .. n - 1 : next[L[k]] = L[k + 1]
      /\ next[Sentinel] = NULL
      /\ \A i, k \in 0 .. n : L[i] = L[k] => i = k
  BY DEF IsList, Linked
<1>4. Linked(M, n - 1, timer0', next')
  <2>1. M[0] = timer0'
    <3>1. 0 \in 0 .. n - 1
      OBVIOUS
    <3>2. M[0] = L[0 + 1] /\ next[L[0]] = L[0 + 1]
      BY <1>2, <1>3, <3>1
    <3> QED BY <1>3, <3>2
  <2>2. M[n - 1] = Sentinel
    <3>1. n - 1 \in 0 .. n - 1 /\ n - 1 + 1 = n
      OBVIOUS
    <3> QED BY <1>2, <1>3, <3>1
  <2>3. ASSUME NEW k \in 0 .. n - 1 - 1 PROVE next'[M[k]] = M[k + 1]
    <3>1. k \in 0 .. n - 1 /\ k + 1 \in 0 .. n - 1
      OBVIOUS
    <3>2. M[k] = L[k + 1] /\ M[k + 1] = L[k + 1 + 1]
      BY <1>2, <3>1
    <3>3. next[L[k + 1]] = L[k + 1 + 1]
      BY <1>3, <3>1
    <3> QED BY <3>2, <3>3
  <2>4. ASSUME NEW i \in 0 .. n - 1, NEW k \in 0 .. n - 1, M[i] = M[k]
        PROVE  i = k
    <3>1. L[i + 1] = L[k + 1] /\ i + 1 \in 0 .. n /\ k + 1 \in 0 .. n
      BY <1>1, <1>2, <2>4
    <3>2. i + 1 = k + 1
      BY <1>3, <3>1
    <3> QED BY <3>2
  <2>5. next'[Sentinel] = NULL
    BY <1>3
  <2> QED BY <1>2, <2>1, <2>2, <2>3, <2>4, <2>5 DEF Linked
<1>5. Ordered(M, n - 1, target')
  <2> SUFFICES ASSUME NEW i \in 0 .. n - 1, NEW k \in 0 .. n - 1, i <= k
               PROVE  target[M[i]] <= target[M[k]]
    BY DEF Ordered
  <2>1. i + 1 \in 0 .. n /\ k + 1 \in 0 .. n /\ i + 1 <= k + 1
    OBVIOUS
  <2>2. M[i] = L[i + 1] /\ M[k] = L[k + 1]
    BY <1>2
  <2> QED BY <2>1, <2>2 DEF IsList, Ordered
<1>6. Marked(M, n - 1, using)'
  <2>1. /\ \A k \in 0 .. n : L[k] \notin leaked
        /\ \A u \in Slots : using[u] <=> u \in leaked \/ \E k \in 0 .. n : u = L[k]
    BY DEF IsList, Marked
  <2>2. \A k \in 0 .. n - 1 : M[k] \notin leaked
    BY <1>1, <1>2, <2>1
  <2>3. ASSUME NEW u \in Slots
        PROVE  using'[u] <=> u \in leaked \/ \E k \in 0 .. n - 1 : u = M[k]
    <3>1. CASE u = timer0
      <4>1. u = L[0] /\ 0 \in 0 .. n /\ ~ using'[u] /\ u \notin leaked
        BY <1>3, <2>1, <3>1 DEF TypeOK
      <4>2. \A k \in 0 .. n - 1 : u # M[k]
        <5> SUFFICES ASSUME NEW k \in 0 .. n - 1 PROVE L[0] # L[k + 1]
          BY <1>2, <4>1
        <5>1. k + 1 \in 0 .. n /\ k + 1 # 0
          OBVIOUS
        <5> QED BY <1>3, <4>1, <5>1
      <4> QED BY <4>1, <4>2
    <3>2. CASE u # timer0
      <4>1. using'[u] <=> using[u]
        BY <3>2 DEF TypeOK
      <4>2. ASSUME NEW k \in 0 .. n, u = L[k]
            PROVE  \E i \in 0 .. n - 1 : u = M[i]
        <5>1. k # 0
          BY <1>3, <3>2, <4>2
        <5>2. k - 1 \in 0 .. n - 1 /\ k - 1 + 1 = k
          BY <5>1
        <5>3. M[k - 1] = L[k - 1 + 1]
          BY <1>2, <5>2
        <5> QED BY <4>2, <5>2, <5>3
      <4>3. ASSUME NEW k \in 0 .. n - 1, u = M[k]
            PROVE  \E i \in 0 .. n : u = L[i]
        BY <1>1, <1>2, <4>3
      <4> QED BY <2>1, <4>1, <4>2, <4>3
    <3> QED BY <3>1, <3>2
  <2> QED BY <2>2, <2>3 DEF Marked
<1>7. Armed(M, n - 1, target', data')
  <2> SUFFICES ASSUME NEW k \in 0 .. n - 1 - 1
               PROVE  target[M[k]] <= Horizon /\ data[M[k]] \in Data
    BY DEF Armed
  <2>1. k \in 0 .. n - 1 /\ k + 1 \in 0 .. n - 1
    OBVIOUS
  <2> QED BY <1>2, <2>1 DEF IsList, Armed
<1>8. IsList(M, n - 1)'
  BY <1>4, <1>5, <1>6, <1>7 DEF IsList
<1> QED BY <1>2, <1>8

-----------------------------------------------------------------------------
(* add_timer's walk. *)

LEMMA SmallSum ==
  ASSUME NEW a \in Nat, NEW b \in Nat, a + b <= MAX_TIME
  PROVE  Sum(a, b) = a + b
  BY Constants DEF Sum

LEMMA FirstAvailableFacts ==
  ASSUME Available # {}
  PROVE  FirstAvailable \in Slots /\ ~ using[FirstAvailable]
<1>1. Available \in SUBSET Nat
  <2>1. \A s \in Slots : s \in Nat
    BY Constants
  <2> QED BY <2>1 DEF Available
<1>2. \E s \in Available : \A u \in Available : s <= u
  BY <1>1, LeastElement
<1>3. FirstAvailable \in Available
  BY <1>2 DEF FirstAvailable
<1> QED BY <1>3 DEF Available

(* When the first timer is not due later than the deadline, the walk stops *)
(* at a timer of the list that is not the last, and the place after it is  *)
(* the new timer's; or it stops at the last, and then the deadline is at   *)
(* or beyond the sentinel's.                                               *)
LEMMA WalkStops ==
  ASSUME NEW n \in Nat, NEW L \in [0 .. n -> Slots], IsList(L, n), TypeOK,
         target[Sentinel] = SENTINEL,
         NEW deadline \in Nat,
         target[timer0] <= deadline
  PROVE  \/ \E k \in 0 .. n - 1 : /\ Predecessor(deadline) = L[k]
                                  /\ target[L[k]] <= deadline
                                  /\ deadline <= target[L[k + 1]]
         \/ next[Predecessor(deadline)] = NULL /\ deadline >= SENTINEL
<1>1. /\ L[0] = timer0 /\ L[n] = Sentinel
      /\ \A k \in 0 .. n - 1 : next[L[k]] = L[k + 1]
      /\ next[Sentinel] = NULL
  BY DEF IsList, Linked
<1>2. n < TIMER_SIZE /\ TIMER_SIZE \in Nat /\ SENTINEL \in Nat
  BY ListFits, Constants DEF IsList, Linked
<1>3. \A k \in 0 .. n : k \in 0 .. TIMER_SIZE - 1 /\ Nth[k] = L[k]
  BY <1>2, NthOfList DEF IsList
<1>4. \A k \in 0 .. n : target[L[k]] \in Nat
  BY Constants DEF TypeOK
<1>5. ASSUME NEW k \in 0 .. n - 1
      PROVE  StopsAt(k, deadline) <=> target[L[k + 1]] >= deadline
  <2>1. k \in 0 .. n /\ k + 1 \in 0 .. n
    OBVIOUS
  <2>2. Nth[k] = L[k] /\ next[L[k]] = L[k + 1] /\ L[k + 1] # NULL
    BY <1>1, <1>3, <2>1, Constants
  <2> QED BY <2>2 DEF StopsAt
<1> DEFINE S == {k \in 0 .. n : StopsAt(k, deadline)}
<1>6. n \in S
  <2>1. n \in 0 .. n
    OBVIOUS
  <2> QED BY <1>1, <1>3, <2>1 DEF StopsAt
<1>7. S \in SUBSET Nat
  OBVIOUS
<1>8. PICK x \in S : \A y \in S : x <= y
  BY <1>6, <1>7, LeastElement
<1>9. /\ x \in 0 .. n /\ StopsAt(x, deadline)
      /\ \A j \in 0 .. x - 1 : ~ StopsAt(j, deadline)
  <2>1. ASSUME NEW j \in 0 .. x - 1, StopsAt(j, deadline) PROVE FALSE
    <3>1. j \in 0 .. n
      BY <1>7
    <3>2. j \in S
      BY <2>1, <3>1
    <3> QED BY <1>7, <1>8, <3>2
  <2> QED BY <2>1
<1> HIDE DEF S
<1> DEFINE Stop(k) == /\ StopsAt(k, deadline)
                      /\ \A j \in 0 .. k - 1 : ~ StopsAt(j, deadline)
           k == CHOOSE k \in 0 .. TIMER_SIZE - 1 : Stop(k)
<1>10. k \in 0 .. TIMER_SIZE - 1 /\ Stop(k)
  <2>1. x \in 0 .. TIMER_SIZE - 1 /\ Stop(x)
    BY <1>2, <1>9
  <2> HIDE DEF Stop
  <2> QED BY <2>1
<1>11. Predecessor(deadline) = Nth[k]
  BY DEF Predecessor
<1> HIDE DEF k
<1>12. k = x
  BY <1>2, <1>9, <1>10
<1>13. Predecessor(deadline) = L[x]
  BY <1>3, <1>9, <1>11, <1>12
<1>14. x > 0 => ~ (target[L[x]] >= deadline)
  <2>1. SUFFICES ASSUME x > 0 PROVE ~ (target[L[x]] >= deadline)
    OBVIOUS
  <2>2. x - 1 \in 0 .. n - 1 /\ x - 1 \in 0 .. x - 1 /\ x - 1 + 1 = x
    BY <1>9, <2>1
  <2>3. ~ (target[L[x - 1 + 1]] >= deadline)
    BY <1>5, <1>9, <2>2
  <2> QED BY <2>2, <2>3
<1>15. target[L[x]] <= deadline
  <2>1. CASE x = 0
    BY <1>1, <2>1
  <2>2. CASE x > 0
    BY <1>4, <1>9, <1>14, <2>2
  <2> QED BY <1>9, <2>1, <2>2
<1>16. CASE x = n
  BY <1>1, <1>13, <1>15, <1>16, <1>2
<1>17. CASE x # n
  <2>1. x \in 0 .. n - 1
    BY <1>9, <1>17
  <2> QED BY <1>5, <1>9, <1>13, <1>15, <2>1
<1> QED BY <1>16, <1>17

-----------------------------------------------------------------------------
(* The invariant. *)

LEMMA InitInv ==
  ASSUME init_timer
  PROVE  IInv
<1>1. TypeOK
  <2>1. /\ using \in [Slots -> BOOLEAN]
        /\ target \in [Slots -> 0 .. MAX_TIME]
        /\ data \in [Slots -> Data \cup {Garbage}]
        /\ next \in [Slots -> Slots \cup {NULL}]
        /\ timer0 \in Slots /\ leaked \subseteq Slots
    <3>1. SENTINEL \in 0 .. MAX_TIME /\ 0 \in 0 .. MAX_TIME
      BY Constants
    <3>2. \A u \in Slots : using[u] \in BOOLEAN
      BY DEF init_timer
    <3> QED BY <3>1, <3>2, Constants DEF init_timer
  <2>2. current_time \in 0 .. MAX_TIME
    BY Constants DEF init_timer
  <2> QED BY <2>1, <2>2 DEF init_timer, TypeOK
<1>2. /\ fault = "none" /\ current_time <= Horizon
      /\ target[Sentinel] = SENTINEL
      /\ handling = FALSE
  BY Constants DEF init_timer
<1> DEFINE L == [k \in 0 .. 0 |-> Sentinel]
<1>3. L \in [0 .. 0 -> Slots] /\ \A k \in 0 .. 0 : k = 0 /\ L[k] = Sentinel
  BY Constants
<1> HIDE DEF L
<1>4. Linked(L, 0, timer0, next)
  BY <1>3, Constants DEF Linked, init_timer
<1>5. Ordered(L, 0, target) /\ Armed(L, 0, target, data)
  <2>1. target[Sentinel] \in Nat
    BY <1>2, Constants
  <2> QED BY <1>3, <2>1 DEF Ordered, Armed
<1>6. Marked(L, 0, using)
  <2>1. \A u \in Slots : using[u] <=> u = Sentinel \/ u \in leaked
    BY DEF init_timer
  <2>2. Sentinel \notin leaked /\ 0 \in 0 .. 0
    BY DEF init_timer
  <2> QED BY <1>3, <2>1, <2>2 DEF Marked
<1>7. IsList(L, 0)
  BY <1>4, <1>5, <1>6 DEF IsList
<1>8. current_time < target[timer0]
  BY <1>2, Constants DEF init_timer
<1>9. HasList
  BY <1>3, <1>7 DEF HasList
<1> QED BY <1>1, <1>2, <1>8, <1>9 DEF IInv

(* What a call of add_timer does: it is refused, puts a timer into the     *)
(* list, or walks past the end of the list.                                *)
Rejected ==
  /\ UNCHANGED <<timerctl, fault>>
  /\ ret' \in {TIMER_INVALID_ARG, TIMER_SIZE_FULL}

Accepted(time, d) ==
  /\ time > 0 /\ current_time + time <= Horizon
  /\ Available # {}
  /\ ~ FallsOff(current_time + time)
  /\ Insert(FirstAvailable, current_time + time, d)
  /\ ret' = Ok
  /\ UNCHANGED fault

WalksOff(time) ==
  /\ current_time + time \in SENTINEL .. Horizon
  /\ fault' = "null_timer"
  /\ UNCHANGED <<timerctl, ret>>

LEMMA AddTimerOutcome ==
  ASSUME IInv, NEW time \in Times, NEW d \in Data,
         WithinHorizon(time), add_timer(time, d)
  PROVE  Rejected \/ Accepted(time, d) \/ WalksOff(time)
<1>1. time \in Nat /\ current_time \in Nat
  BY Constants DEF IInv, TypeOK
<1>2. CASE ~ ValidTime(time) \/ Available = {}
  BY <1>2 DEF add_timer, Rejected
<1>3. CASE ValidTime(time) /\ Available # {}
  <2>1. time > 0 /\ current_time + time <= Horizon
    BY <1>1, <1>3, Constants DEF ValidTime, WithinHorizon
  <2>2. Sum(time, current_time) = current_time + time
    BY <1>1, <2>1, SmallSum, Constants
  <2>3. CASE ~ FallsOff(current_time + time)
    BY <1>3, <2>1, <2>2, <2>3 DEF add_timer, Accepted
  <2>4. CASE FallsOff(current_time + time)
    <3>1. /\ target[timer0] <= current_time + time
          /\ next[Predecessor(current_time + time)] = NULL
      BY <2>4 DEF FallsOff
    <3>2. PICK n \in Nat : \E L \in [0 .. n -> Slots] : IsList(L, n)
      BY DEF IInv, HasList
    <3>3. PICK L \in [0 .. n -> Slots] : IsList(L, n)
      BY <3>2
    <3>4. \A k \in 0 .. n - 1 : next[L[k]] # NULL
      BY <3>3, Constants DEF IsList, Linked
    <3>5. current_time + time >= SENTINEL
      BY <1>1, <3>1, <3>3, <3>4, WalkStops DEF IInv
    <3>6. fault' = "null_timer" /\ UNCHANGED <<timerctl, ret>>
      BY <1>3, <2>2, <2>4 DEF add_timer
    <3> QED BY <1>1, <2>1, <3>5, <3>6, Constants DEF WalksOff
  <2> QED BY <2>3, <2>4
<1> QED BY <1>2, <1>3

(* The order of the list is kept with its links and deadlines.             *)
LEMMA OrderKept ==
  ASSUME IInv, UNCHANGED <<timer0, next, target>>
  PROVE  InOrder'
<1>1. PICK n \in Nat : \E L \in [0 .. n -> Slots] : IsList(L, n)
  BY DEF IInv, HasList
<1>2. PICK L \in [0 .. n -> Slots] : IsList(L, n)
  BY <1>1
<1>3. Linked(L, n, timer0', next') /\ Ordered(L, n, target')
  BY <1>2 DEF IsList
<1> QED BY <1>3 DEF InOrder

LEMMA AddTimerInv ==
  ASSUME IInv, ~ handling,
         NEW time \in Times, NEW d \in Data,
         WithinHorizon(time), add_timer(time, d)
  PROVE  \/ IInv'
         \/ WalksOff(time) /\ PastEnd(current_time + time)
<1>1. /\ fired' = Garbage
      /\ UNCHANGED <<current_time, handling, switch_flag, leaked>>
  BY DEF add_timer
<1>2. CASE Rejected
  <2>1. TypeOK'
    BY <1>1, <1>2 DEF IInv, TypeOK, Rejected, timerctl
  <2> QED BY <1>1, <1>2, <2>1, ListKept DEF IInv, Rejected, timerctl
<1>3. CASE Accepted(time, d)
  <2> DEFINE s == FirstAvailable
             deadline == current_time + time
  <2>1. s \in Slots /\ ~ using[s]
    BY <1>3, FirstAvailableFacts DEF Accepted
  <2>2. /\ deadline \in Nat /\ current_time \in Nat
        /\ current_time < deadline /\ deadline <= Horizon
        /\ deadline <= MAX_TIME
    BY <1>3, Constants DEF Accepted, IInv, TypeOK
  <2>3. Insert(s, deadline, d) /\ ret' = Ok /\ UNCHANGED fault
    BY <1>3 DEF Accepted
  <2> HIDE DEF s, deadline
  <2>4. PICK n \in Nat : \E L \in [0 .. n -> Slots] : IsList(L, n)
    BY DEF IInv, HasList
  <2>5. PICK L \in [0 .. n -> Slots] : IsList(L, n)
    BY <2>4
  <2>6. L[0] = timer0 /\ \A k \in 0 .. n : L[k] \in Slots
    BY <2>5 DEF IsList, Linked
  <2>7. \A k \in 0 .. n : target[L[k]] \in Nat
    BY <2>6, Constants DEF IInv, TypeOK
  <2>8. /\ using' = [using EXCEPT ![s] = TRUE]
        /\ target' = [target EXCEPT ![s] = deadline]
        /\ data' = [data EXCEPT ![s] = d]
    BY <2>3 DEF Insert
  <2>9. TypeOK /\ target[Sentinel] = SENTINEL
    BY DEF IInv
  <2>10. next' \in [Slots -> Slots \cup {NULL}] /\ timer0' \in Slots => TypeOK'
    <3>1. /\ using' \in [Slots -> BOOLEAN]
          /\ target' \in [Slots -> 0 .. MAX_TIME]
          /\ data' \in [Slots -> Data \cup {Garbage}]
      BY <2>1, <2>2, <2>8, <2>9, Constants DEF TypeOK
    <3> QED BY <1>1, <2>3, <2>9, <3>1 DEF TypeOK
  <2>11. CASE target[timer0] > deadline
    <3>1. next' = [next EXCEPT ![s] = timer0] /\ timer0' = s
      BY <2>3, <2>11 DEF Insert
    <3> DEFINE j == 0
    <3>2. j \in 0 .. n /\ j = 0 /\ deadline <= target[L[j]]
      BY <2>2, <2>6, <2>7, <2>11
    <3> HIDE DEF j
    <3>3. /\ \E M \in [0 .. n + 1 -> Slots] : IsList(M, n + 1)'
          /\ target'[Sentinel] = SENTINEL
      BY <1>1, <2>1, <2>2, <2>5, <2>8, <2>9, <3>1, <3>2, ListInserted
    <3>4. TypeOK'
      <4>1. next' \in [Slots -> Slots \cup {NULL}] /\ timer0' \in Slots
        BY <2>1, <3>1 DEF IInv, TypeOK
      <4> QED BY <2>10, <4>1
    <3>5. current_time' < target'[timer0']
      BY <1>1, <2>1, <2>2, <2>8, <3>1 DEF IInv, TypeOK
    <3>6. HasList'
      BY <3>3 DEF HasList
    <3> QED BY <1>1, <2>3, <3>3, <3>4, <3>5, <3>6 DEF IInv
  <2>12. CASE ~ (target[timer0] > deadline)
    <3>1. target[timer0] <= deadline
      BY <2>2, <2>6, <2>7, <2>12
    <3>2. PICK k \in 0 .. n - 1 : /\ Predecessor(deadline) = L[k]
                                 /\ target[L[k]] <= deadline
                                 /\ deadline <= target[L[k + 1]]
      <4>1. next[Predecessor(deadline)] # NULL
        BY <1>3, <3>1 DEF Accepted, FallsOff, deadline
      <4> QED BY <2>2, <2>5, <3>1, <4>1, WalkStops DEF IInv
    <3>3. next' = [next EXCEPT ![s] = next[L[k]], ![L[k]] = s] /\ timer0' = timer0
      BY <2>3, <2>12, <3>2 DEF Insert
    <3> DEFINE j == k + 1
    <3>4. /\ j \in 0 .. n /\ j > 0
          /\ target[L[j - 1]] <= deadline /\ deadline <= target[L[j]]
          /\ next' = [next EXCEPT ![s] = next[L[j - 1]], ![L[j - 1]] = s]
      <4>1. j \in 0 .. n /\ j > 0 /\ j - 1 = k
        OBVIOUS
      <4> QED BY <3>2, <3>3, <4>1
    <3> HIDE DEF j
    <3>5. /\ \E M \in [0 .. n + 1 -> Slots] : IsList(M, n + 1)'
          /\ target'[Sentinel] = SENTINEL
          /\ \A i \in 0 .. n : s # L[i]
      <4>1. leaked' = leaked /\ timer0' = timer0 /\ deadline <= Horizon
        BY <1>1, <2>2, <3>3
      <4>2. deadline \in Nat
        BY <2>2
      <4> QED BY <2>1, <2>5, <2>8, <2>9, <3>4, <4>1, <4>2, ListInserted
    <3>6. target'[Sentinel] = SENTINEL /\ \A i \in 0 .. n : s # L[i]
      BY <3>5
    <3>7. HasList'
      BY <3>5 DEF HasList
    <3>8. L[k] \in Slots
      BY <2>6
    <3>9. TypeOK'
      <4>1. next' \in [Slots -> Slots \cup {NULL}] /\ timer0' \in Slots
        BY <2>1, <2>9, <3>3, <3>8 DEF TypeOK
      <4> QED BY <2>10, <4>1
    <3>10. current_time' < target'[timer0']
      <4>1. timer0 # s
        BY <2>6, <3>6
      <4> QED BY <1>1, <2>8, <3>3, <4>1 DEF IInv, TypeOK
    <3> QED BY <1>1, <2>3, <3>6, <3>7, <3>9, <3>10 DEF IInv
  <2> QED BY <2>11, <2>12
<1>4. CASE WalksOff(time)
  <2>1. TypeOK'
    BY <1>1, <1>4 DEF IInv, TypeOK, WalksOff, timerctl
  <2>2. InOrder'
    BY <1>4, OrderKept DEF WalksOff, timerctl
  <2>3. current_time + time >= SENTINEL
    BY <1>4 DEF WalksOff
  <2> QED BY <1>4, <2>1, <2>2, <2>3 DEF WalksOff, PastEnd, Stopped
<1> QED BY <1>2, <1>3, <1>4, AddTimerOutcome

LEMMA TickInv ==
  ASSUME IInv, current_time + TICK <= Horizon, Tick
  PROVE  IInv' \/ Asserted
<1>1. current_time \in Nat /\ current_time' = current_time + TICK
  BY Constants DEF IInv, TypeOK, Tick
<1>2. current_time' \in 0 .. MAX_TIME /\ current_time' <= Horizon
  BY <1>1, Constants
<1>3. switch_flag' = FALSE /\ fired' = Garbage /\ UNCHANGED <<timerctl, ret, leaked>>
  BY DEF Tick
<1>4. CASE current_time' < ASSERT_LIMIT
  <2>1. handling' = TRUE /\ UNCHANGED fault
    BY <1>4 DEF Tick
  <2>2. TypeOK'
    BY <1>2, <1>3, <2>1 DEF IInv, TypeOK, timerctl
  <2> QED BY <1>2, <1>3, <2>1, <2>2, ListKept DEF IInv, timerctl
<1>5. CASE ~ (current_time' < ASSERT_LIMIT)
  <2>1. fault' = "assert" /\ UNCHANGED handling
    BY <1>5 DEF Tick
  <2>2. TypeOK'
    BY <1>2, <1>3, <2>1 DEF IInv, TypeOK, timerctl
  <2>3. InOrder'
    BY <1>3, OrderKept DEF timerctl
  <2>4. current_time' >= ASSERT_LIMIT
    BY <1>2, <1>5, Constants
  <2> QED BY <2>1, <2>2, <2>3, <2>4 DEF Asserted, Stopped
<1> QED BY <1>4, <1>5

(* A timer that fires is followed by another one, or it is the sentinel.   *)
LEMMA ExpireInv ==
  ASSUME IInv, Expire
  PROVE  \/ IInv' /\ timer0 # Sentinel
         \/ handling /\ PastEnd(current_time)
<1>1. PICK n \in Nat : \E L \in [0 .. n -> Slots] : IsList(L, n)
  BY DEF IInv, HasList
<1>2. PICK L \in [0 .. n -> Slots] : IsList(L, n)
  BY <1>1
<1>3. L[0] = timer0 /\ L[n] = Sentinel /\ \A k \in 0 .. n - 1 : next[L[k]] = L[k + 1]
  BY <1>2 DEF IsList, Linked
<1>4. /\ using' = [using EXCEPT ![timer0] = FALSE]
      /\ fired' = data[timer0]
      /\ switch_flag' = (switch_flag \/ data[timer0] = SWITCH)
      /\ handling /\ current_time >= target[timer0]
      /\ UNCHANGED <<target, data, next, current_time, handling, ret, leaked>>
  BY DEF Expire, Release, HeadDue
<1>5. CASE timer0 = Sentinel
  <2>1. next[timer0] = NULL
    BY <1>2, <1>5 DEF IsList, Linked
  <2>2. fault' = "null_timer" /\ UNCHANGED timer0
    BY <2>1 DEF Expire
  <2>3. TypeOK'
    BY <1>4, <2>2 DEF IInv, TypeOK
  <2>4. InOrder'
    BY <1>4, <2>2, OrderKept
  <2>5. current_time >= SENTINEL
    BY <1>4, <1>5 DEF IInv
  <2> QED BY <1>4, <2>2, <2>3, <2>4, <2>5 DEF PastEnd, Stopped
<1>6. CASE timer0 # Sentinel
  <2>1. n > 0
    BY <1>3, <1>6
  <2>2. next[timer0] \in Slots /\ next[timer0] # NULL
    <3>1. 0 \in 0 .. n - 1 /\ 0 + 1 \in 0 .. n
      BY <2>1
    <3>2. next[L[0]] = L[0 + 1] /\ L[0 + 1] \in Slots
      BY <1>3, <3>1
    <3> QED BY <1>3, <3>2, Constants
  <2>3. timer0' = next[timer0] /\ UNCHANGED fault
    BY <2>2 DEF Expire
  <2>4. \E M \in [0 .. n - 1 -> Slots] : IsList(M, n - 1)'
    BY <1>2, <1>4, <2>1, <2>3, HeadRemoved DEF IInv
  <2>5. TypeOK'
    BY <1>4, <2>2, <2>3 DEF IInv, TypeOK
  <2>6. n - 1 \in Nat
    BY <2>1
  <2>7. HasList'
    BY <2>4, <2>6 DEF HasList
  <2> QED BY <1>4, <1>6, <2>3, <2>5, <2>7 DEF IInv
<1> QED BY <1>5, <1>6

LEMMA HandlerEndInv ==
  ASSUME IInv, HandlerEnd
  PROVE  IInv'
<1>1. /\ handling' = FALSE /\ fired' = Garbage
      /\ UNCHANGED <<timerctl, current_time, switch_flag, ret, leaked, fault>>
  BY DEF HandlerEnd
<1>2. TypeOK'
  BY <1>1 DEF IInv, TypeOK, timerctl
<1>3. current_time < target[timer0]
  <2>1. current_time \in Nat /\ target[timer0] \in Nat
    BY Constants DEF IInv, TypeOK
  <2> QED BY <2>1 DEF HandlerEnd, HeadDue
<1> QED BY <1>1, <1>2, <1>3, ListKept DEF IInv, timerctl

LEMMA StutterInv ==
  UNCHANGED vars => (IInv => IInv') /\ (Stopped => Stopped')
<1> SUFFICES ASSUME UNCHANGED vars
             PROVE  (IInv => IInv') /\ (Stopped => Stopped')
  OBVIOUS
<1>1. TypeOK => TypeOK'
  BY DEF TypeOK, vars
<1>2. InOrder => InOrder'
  <2> SUFFICES ASSUME NEW n \in Nat, NEW L \in [0 .. n -> Slots],
                      Linked(L, n, timer0, next), Ordered(L, n, target)
               PROVE  Linked(L, n, timer0', next') /\ Ordered(L, n, target')
    BY DEF InOrder
  <2> QED BY DEF vars
<1> QED BY <1>1, <1>2, ListKept DEF IInv, Stopped, vars, timerctl

LEMMA StepInv ==
  ASSUME IInv \/ Stopped, [Next]_vars
  PROVE  IInv' \/ Stopped'
<1>1. CASE UNCHANGED vars
  BY <1>1, StutterInv
<1>2. CASE Next
  <2>1. IInv
    BY <1>2 DEF Next, Running, Stopped
  <2>2. ASSUME NEW time \in Times, NEW d \in Data,
               ~ handling, WithinHorizon(time), add_timer(time, d)
        PROVE  IInv' \/ Stopped'
    BY <2>1, <2>2, AddTimerInv DEF PastEnd
  <2>3. CASE current_time + TICK <= Horizon /\ Tick
    BY <2>1, <2>3, TickInv DEF Asserted
  <2>4. CASE Expire
    BY <2>1, <2>4, ExpireInv DEF PastEnd
  <2>5. CASE HandlerEnd
    BY <2>1, <2>5, HandlerEndInv
  <2> QED BY <1>2, <2>2, <2>3, <2>4, <2>5 DEF Next
<1> QED BY <1>1, <1>2

LEMMA Invariant == Spec => [](IInv \/ Stopped)
<1>1. (IInv \/ Stopped) /\ [Next]_vars => (IInv \/ Stopped)'
  BY StepInv
<1> QED BY <1>1, InitInv, PTL DEF Spec

(* Below the sentinel no step ends in a fault.                             *)
LEMMA StepBelow ==
  ASSUME Horizon < SENTINEL, IInv, [Next]_vars
  PROVE  IInv' /\ (Expire => timer0 # Sentinel)
<1>1. Horizon \in Nat /\ current_time \in Nat /\ current_time <= Horizon
  BY Constants DEF IInv, TypeOK
<1>2. ASSUME NEW time \in Times, NEW d \in Data,
             ~ handling, WithinHorizon(time), add_timer(time, d)
      PROVE  IInv'
  <2>1. ~ WalksOff(time)
    BY <1>1, Constants DEF WalksOff
  <2> QED BY <1>2, <2>1, AddTimerInv
<1>3. ASSUME current_time + TICK <= Horizon, Tick
      PROVE  IInv'
  <2>1. ~ (current_time' >= ASSERT_LIMIT)
    BY <1>1, <1>3, Constants DEF Tick
  <2> QED BY <1>3, <2>1, TickInv DEF Asserted
<1>4. ASSUME Expire
      PROVE  IInv' /\ timer0 # Sentinel
  <2>1. ~ (current_time >= SENTINEL)
    BY <1>1, Constants
  <2> QED BY <1>4, <2>1, ExpireInv DEF PastEnd
<1>5. ASSUME HandlerEnd
      PROVE  IInv'
  BY <1>5, HandlerEndInv
<1>6. ASSUME UNCHANGED vars
      PROVE  IInv'
  BY <1>6, StutterInv
<1>7. IInv'
  BY <1>2, <1>3, <1>4, <1>5, <1>6 DEF Next
<1> QED BY <1>4, <1>7

LEMMA InvariantBelow ==
  ASSUME Horizon < SENTINEL
  PROVE  Spec => []IInv
<1>1. IInv /\ [Next]_vars => IInv'
  BY StepBelow
<1> QED BY <1>1, InitInv, PTL DEF Spec

-----------------------------------------------------------------------------
(* The properties. *)

LEMMA ChainMembers ==
  HasList => \A s : s \in Chain <=> s \in Slots /\ using[s] /\ s \notin leaked
<1> SUFFICES ASSUME NEW n \in Nat, NEW L \in [0 .. n -> Slots], IsList(L, n)
             PROVE  \A s : s \in Chain <=>
                           s \in Slots /\ using[s] /\ s \notin leaked
  BY DEF HasList
<1>1. \A s : s \in Chain <=> \E k \in 0 .. n : s = L[k]
  BY ChainOfList DEF IsList
<1> QED BY <1>1 DEF IsList, Marked

(* The same of the second state of a step.                                 *)
ChainByFlags ==
  HasList => \A s : s \in Chain <=> s \in Slots /\ using[s] /\ s \notin leaked

LEMMA ChainNext == ChainByFlags'
<1>1. ChainByFlags
  BY ChainMembers DEF ChainByFlags
<1> QED BY <1>1, PTL

LEMMA OrderIsSorted == InOrder => Sorted
<1> SUFFICES ASSUME InOrder PROVE Sorted
  OBVIOUS
<1>1. PICK n \in Nat : \E L \in [0 .. n -> Slots] :
                          Linked(L, n, timer0, next) /\ Ordered(L, n, target)
  BY DEF InOrder
<1>2. PICK L \in [0 .. n -> Slots] :
        Linked(L, n, timer0, next) /\ Ordered(L, n, target)
  BY <1>1
<1>3. /\ L[n] = Sentinel /\ next[Sentinel] = NULL
      /\ \A k \in 0 .. n - 1 : next[L[k]] = L[k + 1]
  BY <1>2 DEF Linked
<1>4. ASSUME NEW k \in 0 .. TIMER_SIZE - 1, Nth[k] # NULL
      PROVE  IF next[Nth[k]] = NULL THEN Nth[k] = Sentinel
             ELSE target[Nth[k]] <= target[next[Nth[k]]]
  <2>1. k \in 0 .. TIMER_SIZE
    BY Constants
  <2>2. Nth[k] = IF k <= n THEN L[k] ELSE NULL
    BY <1>2, <2>1, NthOfList
  <2>3. k \in 0 .. n /\ Nth[k] = L[k]
    BY <1>4, <2>1, <2>2, Constants
  <2>4. CASE k = n
    BY <1>3, <2>3, <2>4
  <2>5. CASE k # n
    <3>1. k \in 0 .. n - 1 /\ k + 1 \in 0 .. n /\ k <= k + 1
      BY <2>3, <2>5
    <3>2. next[L[k]] = L[k + 1] /\ L[k + 1] # NULL
      BY <1>3, <3>1, Constants
    <3>3. target[L[k]] <= target[L[k + 1]]
      BY <1>2, <2>3, <3>1 DEF Ordered
    <3> QED BY <2>3, <3>2, <3>3
  <2> QED BY <2>4, <2>5
<1>5. Sentinel \in Chain
  <2>1. \A s : s \in Chain <=> \E k \in 0 .. n : s = L[k]
    BY <1>2, ChainOfList
  <2>2. n \in 0 .. n
    OBVIOUS
  <2> QED BY <1>3, <2>1, <2>2
<1> QED BY <1>4, <1>5 DEF Sorted

LEMMA IInvSorted == IInv => Sorted
<1>1. HasList => InOrder
  BY DEF HasList, InOrder, IsList
<1> QED BY <1>1, OrderIsSorted DEF IInv

LEMMA IInvImplies == IInv => SlotsAccounted
<1> SUFFICES ASSUME IInv PROVE SlotsAccounted
  OBVIOUS
<1>1. SlotsAccounted
  <2>1. \A s : s \in Chain <=> s \in Slots /\ using[s] /\ s \notin leaked
    BY ChainMembers DEF IInv
  <2>2. \A s \in leaked : using[s]
    <3>1. PICK n \in Nat : \E L \in [0 .. n -> Slots] : IsList(L, n)
      BY DEF IInv, HasList
    <3>2. PICK L \in [0 .. n -> Slots] : IsList(L, n)
      BY <3>1
    <3>3. leaked \subseteq Slots
      BY DEF IInv, TypeOK
    <3> QED BY <3>2, <3>3 DEF IsList, Marked
  <2> QED BY <2>1, <2>2 DEF SlotsAccounted
<1> QED BY <1>1

(* Slots, links, deadlines and the clock stay within their types, whatever *)
(* times are asked for and however far the clock goes.                     *)
THEOREM TypeCorrect == Spec => []TypeOK
<1>1. IInv \/ Stopped => TypeOK
  BY DEF IInv, Stopped
<1> QED BY <1>1, Invariant, PTL

(* The list is in the order of deadlines and ends in the sentinel, whatever *)
(* times are asked for and however far the clock goes.                     *)
THEOREM ListInOrder == Spec => []Sorted
<1>1. IInv \/ Stopped => Sorted
  BY IInvSorted, OrderIsSorted DEF Stopped
<1> QED BY <1>1, Invariant, PTL

(* Neither the walk of add_timer nor the handler's loop goes past the end  *)
(* of the list but for a deadline or a clock value at or beyond the        *)
(* sentinel's.                                                             *)
THEOREM PastTheEndNeedsTheSentinel == Spec => PastTheEndOnlyBeyond
<1>1. ASSUME IInv \/ Stopped, [Next]_vars
      PROVE  [fault' = "null_timer" =>
                \/ handling /\ current_time >= SENTINEL
                \/ \E time \in Times, d \in Data :
                     ~ handling /\ current_time + time >= SENTINEL
                                /\ add_timer(time, d)]_vars
  <2>1. SUFFICES ASSUME Next, fault' = "null_timer"
                 PROVE  \/ handling /\ current_time >= SENTINEL
                        \/ \E time \in Times, d \in Data :
                             ~ handling /\ current_time + time >= SENTINEL
                                        /\ add_timer(time, d)
    BY <1>1
  <2>2. IInv
    BY <1>1, <2>1 DEF Next, Running, Stopped
  <2>3. ~ IInv'
    BY <2>1 DEF IInv
  <2>4. ASSUME NEW time \in Times, NEW d \in Data,
               ~ handling, WithinHorizon(time), add_timer(time, d)
        PROVE  current_time + time >= SENTINEL
    BY <2>2, <2>3, <2>4, AddTimerInv DEF PastEnd
  <2>5. CASE current_time + TICK <= Horizon /\ Tick
    BY <2>1, <2>2, <2>3, <2>5, TickInv DEF Asserted
  <2>6. CASE Expire
    BY <2>2, <2>3, <2>6, ExpireInv DEF PastEnd
  <2>7. CASE HandlerEnd
    BY <2>2, <2>3, <2>7, HandlerEndInv
  <2> QED BY <2>1, <2>4, <2>5, <2>6, <2>7 DEF Next
<1> QED BY <1>1, Invariant, PTL DEF Spec, PastTheEndOnlyBeyond

(* As long as clock and deadlines stay below the sentinel's, no slot is    *)
(* lost and none handed out while its timer is pending.                    *)
THEOREM NoSlotLost ==
  ASSUME Horizon < SENTINEL
  PROVE  Spec => []SlotsAccounted
  BY InvariantBelow, IInvImplies, PTL

-----------------------------------------------------------------------------
(* The refinement. *)

LEMMA InitRefines == init_timer /\ IInv => P!Init
<1> SUFFICES ASSUME init_timer, IInv PROVE P!Init
  OBVIOUS
<1>1. \A s : s \in Chain <=> s = Sentinel
  <2>1. \A s : s \in Chain <=> s \in Slots /\ using[s] /\ s \notin leaked
    BY ChainMembers DEF IInv
  <2> QED BY <2>1, Constants DEF init_timer
<1>2. Chain \ {Sentinel} = {}
  BY <1>1
<1>3. Pending = << >>
  BY <1>2 DEF Pending
<1> QED BY <1>3 DEF init_timer, P!Init

(* When nothing of the list changes, neither do the pending timers.        *)
LEMMA PendingKept ==
  ASSUME HasList, UNCHANGED <<timerctl, leaked>>
  PROVE  UNCHANGED Pending
<1>1. \A s : s \in Chain <=> s \in Slots /\ using[s] /\ s \notin leaked
  BY ChainMembers
<1>2. \A s : s \in Chain' <=> s \in Slots /\ using'[s] /\ s \notin leaked'
  BY ListKept, ChainNext DEF ChainByFlags
<1>3. Chain' = Chain
  BY <1>1, <1>2 DEF timerctl
<1> QED BY <1>3 DEF Pending, timerctl

LEMMA AcceptedRefines ==
  ASSUME IInv, IInv', NEW time \in Times, NEW d \in Data,
         Accepted(time, d), fired' = Garbage,
         UNCHANGED <<current_time, leaked>>
  PROVE  \E t \in Slots, deadline \in 0 .. MAX_TIME : P!Set(t, deadline, d)
<1> DEFINE s == FirstAvailable
           deadline == current_time + time
<1>1. s \in Slots /\ ~ using[s]
  BY FirstAvailableFacts DEF Accepted
<1>2. deadline \in 0 .. MAX_TIME /\ deadline > current_time
  BY Constants DEF Accepted, IInv, TypeOK
<1>3. /\ using' = [using EXCEPT ![s] = TRUE]
      /\ target' = [target EXCEPT ![s] = deadline]
      /\ data' = [data EXCEPT ![s] = d]
  BY DEF Accepted, Insert
<1> HIDE DEF s, deadline
<1>4. \A u : u \in Chain <=> u \in Slots /\ using[u] /\ u \notin leaked
  BY ChainMembers DEF IInv
<1>5. \A u : u \in Chain' <=> u \in Slots /\ using'[u] /\ u \notin leaked'
  BY ChainNext DEF ChainByFlags, IInv
<1>6. Sentinel \in Chain /\ s \notin Chain /\ s \notin leaked
  <2>1. Sentinel \in Chain
    BY IInvSorted DEF Sorted
  <2>2. \A u \in leaked : using[u] \/ u \notin Slots
    BY IInvImplies DEF SlotsAccounted
  <2> QED BY <1>1, <1>4, <2>1, <2>2
<1>7. \A u : u \in Chain' <=> u \in Chain \/ u = s
  BY <1>1, <1>3, <1>4, <1>5, <1>6 DEF IInv, TypeOK
<1> DEFINE D == Chain \ {Sentinel}
<1>8. Chain' \ {Sentinel} = D \cup {s} /\ s \notin D /\ D \subseteq Slots
  BY <1>4, <1>6, <1>7
<1>9. DOMAIN Pending = D /\ \A u \in D : Pending[u] = [deadline |-> target[u], data |-> data[u]]
  BY DEF Pending
<1>10. Pending' = [u \in D \cup {s} |-> [deadline |-> target'[u], data |-> data'[u]]]
  BY <1>8 DEF Pending
<1>11. /\ \A u \in D : target'[u] = target[u] /\ data'[u] = data[u]
       /\ target'[s] = deadline /\ data'[s] = d
  BY <1>1, <1>3, <1>8 DEF IInv, TypeOK
<1> HIDE DEF D
<1>12. Pending' = [u \in DOMAIN Pending \cup {s} |->
                     IF u = s THEN [deadline |-> deadline, data |-> d]
                              ELSE Pending[u]]
  BY <1>8, <1>9, <1>10, <1>11
<1>13. P!Set(s, deadline, d)
  BY <1>2, <1>8, <1>9, <1>12 DEF P!Set
<1> QED BY <1>1, <1>2, <1>13

LEMMA ExpireRefines ==
  ASSUME IInv, IInv', Expire, timer0 # Sentinel
  PROVE  \E t \in Slots : P!Fire(t)
<1>1. PICK n \in Nat : \E L \in [0 .. n -> Slots] : IsList(L, n)
  BY DEF IInv, HasList
<1>2. PICK L \in [0 .. n -> Slots] : IsList(L, n)
  BY <1>1
<1>3. L[0] = timer0 /\ L[n] = Sentinel /\ timer0 \in Slots
  BY <1>2 DEF IsList, Linked
<1>4. \A s : s \in Chain <=> \E k \in 0 .. n : s = L[k]
  BY <1>2, ChainOfList DEF IsList
<1>5. \A s \in Chain : target[timer0] <= target[s]
  <2>1. ASSUME NEW k \in 0 .. n PROVE target[L[0]] <= target[L[k]]
    <3>1. 0 \in 0 .. n /\ 0 <= k
      OBVIOUS
    <3> QED BY <1>2, <3>1 DEF IsList, Ordered
  <2> QED BY <1>3, <1>4, <2>1
<1>6. timer0 \in Chain /\ Chain \subseteq Slots
  <2>1. 0 \in 0 .. n
    OBVIOUS
  <2> QED BY <1>3, <1>4, <2>1
<1>7. /\ using' = [using EXCEPT ![timer0] = FALSE]
      /\ fired' = data[timer0]
      /\ UNCHANGED <<target, data, current_time, leaked>>
      /\ current_time >= target[timer0]
  BY DEF Expire, Release, HeadDue
<1>8. \A u : u \in Chain <=> u \in Slots /\ using[u] /\ u \notin leaked
  BY ChainMembers DEF IInv
<1>9. \A u : u \in Chain' <=> u \in Slots /\ using'[u] /\ u \notin leaked'
  BY ChainNext DEF ChainByFlags, IInv
<1>10. \A u : u \in Chain' <=> u \in Chain /\ u # timer0
  BY <1>3, <1>7, <1>8, <1>9 DEF IInv, TypeOK
<1> DEFINE D == Chain \ {Sentinel}
<1>11. Chain' \ {Sentinel} = D \ {timer0} /\ timer0 \in D
  BY <1>6, <1>10
<1>12. DOMAIN Pending = D /\ \A u \in D : Pending[u] = [deadline |-> target[u], data |-> data[u]]
  BY DEF Pending
<1>13. Pending' = [u \in D \ {timer0} |-> [deadline |-> target[u], data |-> data[u]]]
  BY <1>7, <1>11 DEF Pending
<1>14. D \subseteq Chain
  OBVIOUS
<1> HIDE DEF D
<1>15. Pending' = [u \in DOMAIN Pending \ {timer0} |-> Pending[u]]
  BY <1>12, <1>13
<1>16. target[timer0] <= current_time
  BY <1>3, <1>7, Constants DEF IInv, TypeOK
<1>17. /\ timer0 \in P!Due
       /\ \A u \in P!Due : Pending[timer0].deadline <= Pending[u].deadline
  BY <1>5, <1>11, <1>12, <1>14, <1>16 DEF P!Due
<1>18. fired' = Pending[timer0].data
  BY <1>7, <1>11, <1>12
<1> QED BY <1>3, <1>7, <1>15, <1>17, <1>18 DEF P!Fire

(* At a tick no timer is due: the handler before it has fired them all.    *)
LEMMA NoneDue ==
  ASSUME IInv, ~ handling
  PROVE  P!Due = {}
<1>1. PICK n \in Nat : \E L \in [0 .. n -> Slots] : IsList(L, n)
  BY DEF IInv, HasList
<1>2. PICK L \in [0 .. n -> Slots] : IsList(L, n)
  BY <1>1
<1>3. ASSUME NEW s \in Chain PROVE ~ (target[s] <= current_time)
  <2>1. PICK k \in 0 .. n : s = L[k]
    BY <1>2, ChainOfList DEF IsList
  <2>2. 0 \in 0 .. n /\ 0 <= k /\ L[0] = timer0
    BY <1>2 DEF IsList, Linked
  <2>3. target[timer0] <= target[s]
    BY <1>2, <2>1, <2>2 DEF IsList, Ordered
  <2>4. current_time < target[timer0]
    BY DEF IInv
  <2>5. current_time \in Nat /\ target[timer0] \in Nat /\ target[s] \in Nat
    BY <2>1, Constants DEF IInv, TypeOK
  <2> QED BY <2>3, <2>4, <2>5
<1>4. \A s \in DOMAIN Pending : s \in Chain /\ Pending[s].deadline = target[s]
  BY DEF Pending
<1> QED BY <1>3, <1>4 DEF P!Due

LEMMA StepRefines ==
  ASSUME IInv, IInv', [Next]_vars, Expire => timer0 # Sentinel
  PROVE  [P!Next]_(P!vars)
<1>1. ASSUME NEW time \in Times, NEW d \in Data,
             WithinHorizon(time), add_timer(time, d)
      PROVE  P!Next
  <2>1. fired' = Garbage /\ UNCHANGED <<current_time, leaked>>
    BY <1>1 DEF add_timer
  <2>2. CASE Rejected
    <3>1. UNCHANGED Pending
      BY <2>1, <2>2, PendingKept DEF Rejected, IInv
    <3> QED BY <2>1, <3>1 DEF P!Next, P!Nothing
  <2>3. CASE Accepted(time, d)
    BY <2>1, <2>3, AcceptedRefines DEF P!Next
  <2>4. ~ WalksOff(time)
    BY DEF WalksOff, IInv
  <2> QED BY <1>1, <2>2, <2>3, <2>4, AddTimerOutcome
<1>2. CASE Tick
  <2>1. /\ ~ handling /\ current_time' = current_time + TICK /\ fired' = Garbage
        /\ UNCHANGED <<timerctl, leaked>>
    BY <1>2 DEF Tick
  <2>2. UNCHANGED Pending /\ P!Due = {}
    BY <2>1, PendingKept, NoneDue DEF IInv
  <2> QED BY <2>1, <2>2 DEF P!Next, P!Tick
<1>3. CASE Expire
  BY <1>3, ExpireRefines DEF P!Next
<1>4. CASE HandlerEnd
  <2>1. fired' = Garbage /\ UNCHANGED <<timerctl, current_time, leaked>>
    BY <1>4 DEF HandlerEnd
  <2>2. UNCHANGED Pending
    BY <2>1, PendingKept DEF IInv
  <2> QED BY <2>1, <2>2 DEF P!Next, P!Nothing
<1>5. CASE UNCHANGED vars
  <2>1. UNCHANGED <<timerctl, leaked, current_time, fired>>
    BY <1>5 DEF vars, timerctl
  <2>2. UNCHANGED Pending
    BY <2>1, PendingKept DEF IInv
  <2> QED BY <2>1, <2>2 DEF P!vars
<1> QED BY <1>1, <1>2, <1>3, <1>4, <1>5 DEF Next

(* add_timer and the handler implement the set of pending timers: each     *)
(* fires once, with its own datum, at the first tick at or after its       *)
(* deadline and not after one that is due later, as long as clock and      *)
(* deadlines stay below the sentinel's.                                    *)
THEOREM TimersImplementPending ==
  ASSUME Horizon < SENTINEL
  PROVE  Spec => ImplementsPending
<1>1. init_timer => P!Init
  BY InitInv, InitRefines
<1>2. IInv /\ [Next]_vars => [P!Next]_(P!vars)
  BY StepBelow, StepRefines
<1> QED BY <1>1, <1>2, InvariantBelow, PTL DEF Spec, ImplementsPending, P!Spec
=============================================================================
