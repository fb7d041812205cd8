--------------------------- MODULE Storage_proofs ---------------------------
(***************************************************************************)
(* Proofs about the storage part of start-up, for any number of places,    *)
(* functions, drives, slots and pages.  The table of PCI functions is      *)
(* followed entry by entry (Listed); what becomes of the buffers depends   *)
(* on where start-up is (Buffers), and so does what a sector that was read *)
(* makes of it (Sound).                                                    *)
(***************************************************************************)
EXTENDS Storage, FiniteSetTheorems, WellFoundedInduction, TLAPS

(* A set of naturals that is not empty has a least element. *)
LEMMA LeastElement ==
  ASSUME NEW T, T \subseteq Nat, T # {}
  PROVE  \E x \in T : \A y \in T : x <= y
<1> DEFINE R == {ss \in Nat \X Nat : ss[1] < ss[2]}
<1>1. R = OpToRel(<, Nat)
  BY DEF OpToRel
<1>2. IsWellFoundedOn(R, Nat)
  BY <1>1, NatLessThanWellFounded
<1>3. PICK x \in T : \A y \in T : ~ (<<y, x>> \in R)
  BY <1>2, WFMin
<1>4. \A y \in T : ~ (y < x)
  BY <1>3
<1>5. \A y \in T : x <= y
  BY <1>4
<1> QED BY <1>5

-----------------------------------------------------------------------------
(* Sets in ascending order. *)

Lists(s, n, S) ==
  /\ s \in [1 .. n -> S]
  /\ \A i, j \in 1 .. n : i < j => s[i] < s[j]
  /\ \A x \in S : \E i \in 1 .. n : s[i] = x

Listable(k) ==
  \A S \in SUBSET (0 .. k - 1) : \E n \in Nat : \E s : Lists(s, n, S)

LEMMA AllListable == \A k \in Nat : Listable(k)
<1> DEFINE Bad == {k \in Nat : ~ Listable(k)}
<1>1. SUFFICES ASSUME Bad # {} PROVE FALSE
  OBVIOUS
<1>2. PICK k \in Bad : \A j \in Bad : k <= j
  BY <1>1, LeastElement
<1>3. k # 0
  <2>1. SUFFICES ASSUME k = 0 PROVE Listable(k)
    BY <1>2
  <2>2. ASSUME NEW S \in SUBSET (0 .. k - 1)
        PROVE  \E n \in Nat : \E s : Lists(s, n, S)
    <3> DEFINE s == [i \in 1 .. 0 |-> 0]
    <3>1. S = {}
      BY <2>1
    <3>2. Lists(s, 0, S)
      BY <3>1 DEF Lists
    <3> QED BY <3>2
  <2> QED BY <2>2 DEF Listable
<1>4. k \in Nat /\ k - 1 \in Nat /\ Listable(k - 1)
  BY <1>2, <1>3
<1>5. ASSUME NEW S \in SUBSET (0 .. k - 1)
      PROVE  \E n \in Nat : \E s : Lists(s, n, S)
  <2> DEFINE T == S \ {k - 1}
  <2>1. T \in SUBSET (0 .. (k - 1) - 1)
    BY <1>4
  <2>2. PICK n \in Nat : \E s : Lists(s, n, T)
    BY <1>4, <2>1 DEF Listable
  <2>3. PICK s : Lists(s, n, T)
    BY <2>2
  <2>4. CASE k - 1 \notin S
    <3>1. T = S
      BY <2>4
    <3> QED BY <2>3, <3>1
  <2>5. CASE k - 1 \in S
    <3> DEFINE t == [i \in 1 .. n + 1 |-> IF i = n + 1 THEN k - 1 ELSE s[i]]
    <3>1. \A i \in 1 .. n : s[i] \in T
      BY <2>3 DEF Lists
    <3>2. \A i \in 1 .. n : s[i] \in S /\ s[i] \in Int /\ s[i] < k - 1
      <4>1. \A x \in T : x \in S /\ x \in Int /\ x < k - 1
        BY <1>4, <2>1
      <4> QED BY <3>1, <4>1
    <3>3. t \in [1 .. n + 1 -> S]
      BY <2>5, <3>2
    <3>4. ASSUME NEW i \in 1 .. n + 1, NEW j \in 1 .. n + 1, i < j
          PROVE  t[i] < t[j]
      BY <3>2, <3>4, <2>3 DEF Lists
    <3>5. ASSUME NEW x \in S
          PROVE  \E i \in 1 .. n + 1 : t[i] = x
      <4>1. CASE x = k - 1
        BY <4>1
      <4>2. CASE x # k - 1
        BY <4>2, <2>3 DEF Lists
      <4> QED BY <4>1, <4>2
    <3>6. Lists(t, n + 1, S)
      BY <3>3, <3>4, <3>5 DEF Lists
    <3> QED BY <3>6
  <2> QED BY <2>4, <2>5
<1> QED BY <1>2, <1>5 DEF Listable

(* Ascending lists each element of the set, once. *)
LEMMA AscendingLists ==
  ASSUME NEW S \in SUBSET Functions
  PROVE  /\ Cardinality(S) \in Nat
         /\ Lists(Ascending(S), Cardinality(S), S)
<1>1. FUNCTIONS \in Nat
  BY KindsAssumption
<1>2. PICK n \in Nat : \E s : Lists(s, n, S)
  BY <1>1, AllListable DEF Listable, Functions
<1>3. PICK s : Lists(s, n, S)
  BY <1>2
<1>4. S \subseteq Int
  BY <1>1 DEF Functions
<1>5. ASSUME NEW m \in Nat, NEW t, t \in [1 .. m -> S],
             \A i, j \in 1 .. m : i < j => t[i] < t[j]
      PROVE  t \in Injection(1 .. m, S)
  <2>1. \A i \in 1 .. m : t[i] \in Int
    BY <1>4, <1>5
  <2>2. ASSUME NEW i \in 1 .. m, NEW j \in 1 .. m, t[i] = t[j]
        PROVE  i = j
    <3>1. CASE i < j
      BY <3>1, <2>1, <2>2, <1>5
    <3>2. CASE j < i
      BY <3>2, <2>1, <2>2, <1>5
    <3> QED BY <3>1, <3>2
  <2>3. DOMAIN t = 1 .. m
    BY <1>5
  <2>4. IsInjective(t)
    BY <2>2, <2>3 DEF IsInjective
  <2> QED BY <1>5, <2>4 DEF Injection
<1>6. /\ s \in [1 .. n -> S]
      /\ \A i, j \in 1 .. n : i < j => s[i] < s[j]
      /\ \A x \in S : \E i \in 1 .. n : s[i] = x
  BY <1>3 DEF Lists
<1>7. s \in Injection(1 .. n, S) /\ s \in Surjection(1 .. n, S)
  <2>1. s \in Injection(1 .. n, S)
    BY <1>5, <1>6
  <2> QED BY <2>1, <1>6 DEF Surjection
<1>8. IsFiniteSet(1 .. n) /\ Cardinality(1 .. n) = n
  BY FS_Interval
<1>9. IsFiniteSet(S) /\ Cardinality(S) = n
  BY <1>7, <1>8, FS_Surjection
<1>10. /\ Ascending(S) \in [1 .. n -> S]
       /\ \A i, j \in 1 .. n : i < j => Ascending(S)[i] < Ascending(S)[j]
  BY <1>6, <1>9 DEF Ascending
<1>11. Ascending(S) \in Injection(1 .. n, S)
  BY <1>5, <1>10
<1>12. Ascending(S) \in Surjection(1 .. n, S)
  BY <1>8, <1>9, <1>11, FS_Injection
<1>13. \A x \in S : \E i \in 1 .. n : Ascending(S)[i] = x
  BY <1>12 DEF Surjection
<1> QED BY <1>9, <1>10, <1>13 DEF Lists

-----------------------------------------------------------------------------
(* The walk. *)

(* What is entered for a device are its functions. *)
LEMMA FunctionsOfDevice ==
  ASSUME NEW k \in Kinds
  PROVE  check_device_functions(k) = k.functions /\ k.functions \subseteq Functions
<1>1. /\ k.functions \subseteq Functions
      /\ k.functions # {} => 0 \in k.functions
      /\ k.multi <=> k.functions \ {0} # {}
      /\ k.echoes => k.functions = {0}
  BY KindsAssumption
<1>2. CASE k.functions = {}
  BY <1>1, <1>2 DEF check_device_functions, Answers
<1>3. CASE k.functions # {} /\ k.echoes
  BY <1>1, <1>3 DEF check_device_functions, Answers
<1>4. CASE k.functions # {} /\ ~ k.echoes
  BY <1>1, <1>4 DEF check_device_functions, Answers
<1> QED BY <1>1, <1>2, <1>3, <1>4

EntryType == [bus : 0 .. BUSES - 1, device : 0 .. DEVICES - 1,
              function : Functions]

LEMMA Division ==
  ASSUME NEW p \in Nat, NEW d \in Nat \ {0}
  PROVE  /\ p \div d \in Nat
         /\ p % d \in 0 .. d - 1
         /\ p = d * (p \div d) + (p % d)
OBVIOUS

(* An entry tells the place and the function that it is for. *)
LEMMA EntryIsInjective ==
  ASSUME NEW p \in Places, NEW f \in Functions,
         NEW q \in Places, NEW g \in Functions,
         Entry(p, f) = Entry(q, g)
  PROVE  p = q /\ f = g
<1>1. DEVICES \in Nat \ {0} /\ BUSES \in Nat \ {0}
  BY KindsAssumption
<1>2. p \in Nat /\ q \in Nat
  BY <1>1 DEF Places
<1>3. p \div DEVICES = q \div DEVICES /\ p % DEVICES = q % DEVICES /\ f = g
  BY DEF Entry
<1>4. /\ p = DEVICES * (p \div DEVICES) + (p % DEVICES)
      /\ q = DEVICES * (q \div DEVICES) + (q % DEVICES)
  BY <1>1, <1>2, Division
<1> QED BY <1>3, <1>4

LEMMA EntryIsTyped ==
  ASSUME NEW p \in Places, NEW f \in Functions
  PROVE  Entry(p, f) \in EntryType
<1> DEFINE b == p \div DEVICES
           d == p % DEVICES
<1>1. DEVICES \in Nat \ {0} /\ BUSES \in Nat \ {0}
  BY KindsAssumption
<1>2. p \in Nat /\ p < BUSES * DEVICES
  BY <1>1 DEF Places
<1>3. b \in Nat /\ d \in 0 .. DEVICES - 1 /\ p = DEVICES * b + d
  BY <1>1, <1>2, Division
<1> HIDE DEF b, d
<1>4. b < BUSES
  <2>1. SUFFICES ASSUME BUSES <= b PROVE FALSE
    BY <1>1, <1>3
  <2>2. (b - BUSES) * DEVICES >= 0
    BY <1>1, <1>3, <2>1
  <2>3. (b - BUSES) * DEVICES = DEVICES * b - BUSES * DEVICES
    BY <1>1, <1>3
  <2>4. DEVICES * b \in Int /\ BUSES * DEVICES \in Int
    BY <1>1, <1>3
  <2> QED BY <1>2, <1>3, <2>2, <2>3, <2>4
<1>5. b \in 0 .. BUSES - 1
  BY <1>1, <1>3, <1>4
<1> QED BY <1>3, <1>5 DEF Entry, EntryType, b, d

-----------------------------------------------------------------------------
(* Each entry is for a function of a place passed, each of those has an    *)
(* entry, and no two entries are the same.                                 *)

IsFound(e) ==
  \E p \in Places : \E f \in Functions :
    p < at /\ f \in config[p].functions /\ e = Entry(p, f)

Listed ==
  /\ config \in [Places -> Kinds]
  /\ at \in Nat
  /\ functions \in Seq(EntryType)
  /\ \A n \in DOMAIN functions : IsFound(functions[n])
  /\ \A p \in Places : \A f \in Functions :
       p < at /\ f \in config[p].functions =>
         \E n \in DOMAIN functions : functions[n] = Entry(p, f)
  /\ \A n, m \in DOMAIN functions : functions[n] = functions[m] => n = m

LEMMA ListedMeansFound ==
  ASSUME Listed
  PROVE  FunctionsFound
<1> DEFINE Places_ == {q \in Places : q < at}
           There == UNION {{Entry(p, f) : f \in config[p].functions} : p \in Places_}
<1>1. \A p \in Places : config[p] \in Kinds
  BY DEF Listed
<1>2. \A p \in Places : config[p].functions \subseteq Functions
  BY <1>1, FunctionsOfDevice
<1>3. ASSUME NEW e \in Range(functions)
      PROVE  e \in There
  <2>1. IsFound(e)
    BY <1>3 DEF Listed, Range
  <2> QED BY <2>1 DEF IsFound
<1>4. ASSUME NEW e \in There
      PROVE  e \in Range(functions)
  <2>1. PICK p \in Places : p < at /\ e \in {Entry(p, f) : f \in config[p].functions}
    BY <1>4
  <2>2. PICK f \in config[p].functions : e = Entry(p, f)
    BY <2>1
  <2>3. f \in Functions
    BY <1>2, <2>2
  <2> QED BY <2>1, <2>2, <2>3 DEF Listed, Range
<1>5. Range(functions) = There
  BY <1>3, <1>4
<1> QED BY <1>5 DEF FunctionsFound, Listed

LEMMA CheckDeviceListed ==
  ASSUME Listed, CheckDevice
  PROVE  Listed'
<1> DEFINE S == check_device_functions(config[at])
           found == Ascending(S)
           N == Cardinality(S)
           new == [n \in DOMAIN found |-> Entry(at, found[n])]
<1>1. /\ at \in Places /\ at \in Nat /\ config[at] \in Kinds
      /\ functions' = functions \o new
      /\ at' = at + 1 /\ config' = config
  BY DEF Listed, CheckDevice
<1>2. S = config[at].functions /\ S \in SUBSET Functions
  BY <1>1, FunctionsOfDevice
<1>3. N \in Nat /\ Lists(found, N, S)
  BY <1>2, AscendingLists
<1>4. /\ \A n \in 1 .. N : found[n] \in S
      /\ \A i, j \in 1 .. N : i < j => found[i] < found[j]
      /\ \A x \in S : \E n \in 1 .. N : found[n] = x
      /\ DOMAIN found = 1 .. N
  BY <1>3 DEF Lists
<1> HIDE DEF found, N
<1>5. \A n \in 1 .. N : found[n] \in Functions
  BY <1>2, <1>4
<1>6. /\ DOMAIN new = 1 .. N
      /\ \A n \in 1 .. N : new[n] = Entry(at, found[n]) /\ new[n] \in EntryType
  BY <1>1, <1>4, <1>5, EntryIsTyped
<1>7. new \in Seq(EntryType) /\ Len(new) = N
  <2>1. new \in [1 .. N -> EntryType]
    BY <1>6
  <2> QED BY <1>3, <2>1
<1> HIDE DEF new, S
<1>8. PICK L \in Nat : /\ functions \in Seq(EntryType) /\ L = Len(functions)
                       /\ DOMAIN functions = 1 .. L
  BY DEF Listed
<1>9. /\ functions' \in Seq(EntryType)
      /\ DOMAIN functions' = 1 .. L + N
      /\ \A n \in 1 .. L : functions'[n] = functions[n]
      /\ \A n \in 1 .. N : functions'[L + n] = new[n]
  BY <1>1, <1>3, <1>7, <1>8
<1>10. \A n \in 1 .. L : IsFound(functions[n])
  BY <1>8 DEF Listed
<1>11. ASSUME NEW n \in 1 .. L
       PROVE  IsFound(functions[n])'
  <2>1. PICK p \in Places, f \in Functions :
          p < at /\ f \in config[p].functions /\ functions[n] = Entry(p, f)
    BY <1>10 DEF IsFound
  <2>2. p < at'
    BY <1>1, <2>1, KindsAssumption DEF Places
  <2>3. f \in config'[p].functions /\ functions'[n] = Entry(p, f)
    BY <1>1, <1>9, <2>1
  <2> QED BY <2>2, <2>3 DEF IsFound
<1>12. ASSUME NEW n \in 1 .. N
       PROVE  IsFound(functions[L + n])'
  <2>1. /\ functions'[L + n] = Entry(at, found[n])
        /\ found[n] \in Functions
        /\ found[n] \in config'[at].functions
        /\ at < at'
    <3>1. functions'[L + n] = Entry(at, found[n])
      BY <1>6, <1>9
    <3>2. found[n] \in S /\ found[n] \in Functions
      BY <1>4, <1>5
    <3> QED BY <1>1, <1>2, <3>1, <3>2
  <2>2. at \in Places
    BY <1>1
  <2> QED BY <2>1, <2>2 DEF IsFound
<1>13. \A k \in 1 .. L + N : k \in 1 .. L \/ \E n \in 1 .. N : k = L + n
  <2>1. ASSUME NEW k \in 1 .. L + N, k \notin 1 .. L
        PROVE  k - L \in 1 .. N /\ k = L + (k - L)
    BY <1>3, <1>8, <2>1
  <2> QED BY <2>1
<1>14. ASSUME NEW k \in DOMAIN functions'
       PROVE  IsFound(functions[k])'
  <2>1. CASE k \in 1 .. L
    BY <1>11, <2>1
  <2>2. ASSUME NEW n \in 1 .. N, k = L + n
        PROVE  IsFound(functions[k])'
    <3>1. IsFound(functions[L + n])'
      BY <1>12
    <3> QED BY <2>2, <3>1 DEF IsFound
  <2> QED BY <1>9, <1>13, <2>1, <2>2
<1>15. ASSUME NEW p \in Places, NEW f \in Functions,
              p < at', f \in config'[p].functions
       PROVE  \E n \in DOMAIN functions' : functions'[n] = Entry(p, f)
  <2>1. CASE p < at
    <3>1. PICK n \in 1 .. L : functions[n] = Entry(p, f)
      BY <1>1, <1>8, <1>15, <2>1 DEF Listed
    <3>2. n \in DOMAIN functions' /\ functions'[n] = Entry(p, f)
      BY <1>3, <1>9, <3>1
    <3> QED BY <3>2
  <2>2. CASE p = at
    <3>1. PICK n \in 1 .. N : found[n] = f
      BY <1>1, <1>2, <1>4, <1>15, <2>2
    <3>2. functions'[L + n] = Entry(p, f)
      BY <1>6, <1>9, <2>2, <3>1
    <3>3. L + n \in DOMAIN functions'
      BY <1>3, <1>8, <1>9, <3>1
    <3> QED BY <3>2, <3>3
  <2>3. p \in Int
    BY KindsAssumption DEF Places
  <2> QED BY <1>1, <1>15, <2>1, <2>2, <2>3
<1>16. \A n, m \in 1 .. L : functions'[n] = functions'[m] => n = m
  BY <1>8, <1>9 DEF Listed
<1>17. ASSUME NEW n \in 1 .. N, NEW m \in 1 .. N, functions'[L + n] = functions'[L + m]
       PROVE  n = m
  <2>1. \A f, g \in Functions : Entry(at, f) = Entry(at, g) => f = g
    BY <1>1, EntryIsInjective
  <2>2. /\ functions'[L + n] = Entry(at, found[n])
        /\ functions'[L + m] = Entry(at, found[m])
    BY <1>6, <1>9
  <2>3. found[n] \in Functions /\ found[m] \in Functions
    BY <1>5
  <2>4. found[n] = found[m]
    BY <1>17, <2>1, <2>2, <2>3
  <2>5. found[n] \in Int /\ found[m] \in Int
    BY <1>5, KindsAssumption DEF Functions
  <2> QED BY <1>3, <1>4, <2>4, <2>5
<1>18. ASSUME NEW n \in 1 .. L, NEW m \in 1 .. N
       PROVE  functions'[n] # functions'[L + m]
  <2>1. PICK p \in Places, f \in Functions : p < at /\ functions[n] = Entry(p, f)
    BY <1>10 DEF IsFound
  <2>2. p # at
    BY <1>1, <2>1, KindsAssumption DEF Places
  <2>3. Entry(p, f) # Entry(at, found[m])
    BY <1>1, <1>5, <2>2, EntryIsInjective
  <2> QED BY <1>6, <1>9, <2>1, <2>3
<1>19. ASSUME NEW n \in 1 .. L + N, NEW m \in 1 .. L + N, functions'[n] = functions'[m]
       PROVE  n = m
  BY <1>13, <1>16, <1>17, <1>18, <1>19
<1>20. config' \in [Places -> Kinds] /\ at' \in Nat
  BY <1>1 DEF Listed
<1>21. \A n, m \in DOMAIN functions' : functions'[n] = functions'[m] => n = m
  BY <1>9, <1>19
<1>22. \A n \in DOMAIN functions' : IsFound(functions[n])'
  BY <1>14
<1>23. \A p \in Places : \A f \in Functions :
         p < at' /\ f \in config'[p].functions =>
           \E n \in DOMAIN functions' : functions'[n] = Entry(p, f)
  BY <1>15
<1> QED BY <1>9, <1>20, <1>21, <1>22, <1>23 DEF Listed

-----------------------------------------------------------------------------
(* What the variables hold. *)

Phases == {"idle", "called", "prepared", "issued", "returned"}

Reads == [phase : Phases, block : Blocks,
          area : {"mbr", "boot", "wild", "root"},
          sectors : Nat, slot : Slots \cup {NoSlot}]

(* The call has a slot once its command is prepared. *)
IsRead(r) == r \in Reads /\ (r.phase = "prepared" => r.slot \in Slots)

Disks == [signed : BOOLEAN, fat32 : BOOLEAN, clusters : Clusters]

Typed ==
  /\ drives \in 0 .. MAX_DRIVES
  /\ IsRead(read)
  /\ ci \subseteq Slots /\ sact \subseteq Slots
  /\ disk \in Disks
  /\ owner \in [Pages -> Blocks \cup {"free", "others"}]
  /\ addr \in [Blocks -> Pages \cup {NULL}]
  /\ fault \in {"none", "assert", "wild_port", "null_buffer"}

(* Who has which buffer, where start-up is. *)
Buffers ==
  /\ pc # "boot_read" => \A p \in Pages : owner[p] # "buf"
  /\ pc \in {"pci", "mbr", "mbr_read"} => addr["info"] = NULL
  /\ \A p \in Pages : owner[p] = "mbr_buf" => addr["info"] = NULL

Inv == Listed /\ Typed /\ Buffers

LEMMA Sizes == /\ MAX_DRIVES \in Nat /\ SLOTS \in Nat /\ PAGES \in Nat
               /\ Slots \subseteq Nat /\ Pages \subseteq Nat
               /\ Ports \in Nat /\ Clusters \subseteq Nat
BY StorageAssumption DEF Slots, Pages

LEMMA FirstFitIsPage ==
  ASSUME NEW n
  PROVE  FirstFit(n) \in Pages \cup {NULL}
<1>1. CASE Fitting(n) = {}
  BY <1>1 DEF FirstFit
<1>2. CASE Fitting(n) # {}
  <2>1. Fitting(n) \subseteq Pages /\ Pages \subseteq Nat
    BY Sizes DEF Fitting
  <2>2. \E a \in Fitting(n) : \A b \in Fitting(n) : a <= b
    BY <1>2, <2>1, LeastElement
  <2>3. FirstFit(n) \in Fitting(n)
    BY <1>2, <2>2 DEF FirstFit
  <2> QED BY <2>1, <2>3
<1> QED BY <1>1, <1>2

LEMMA GivenTyped ==
  ASSUME Typed, NEW b \in Blocks, NEW a, NEW n
  PROVE  /\ Given(b, a, n) \in [Pages -> Blocks \cup {"free", "others"}]
         /\ \A p \in Pages : Given(b, a, n)[p] \in {b, owner[p]}
BY DEF Given, Typed

LEMMA FreedTyped ==
  ASSUME NEW own \in [Pages -> Blocks \cup {"free", "others"}], NEW b \in Blocks
  PROVE  /\ Freed(own, b) \in [Pages -> Blocks \cup {"free", "others"}]
         /\ \A p \in Pages : /\ Freed(own, b)[p] # b
                             /\ Freed(own, b)[p] \in {"free", own[p]}
BY DEF Freed, Blocks

(* What a call of read_drive leaves, whatever is read.  *)
LEMMA AllocAndReadTyped ==
  ASSUME Typed, NEW b \in Blocks, NEW area \in {"mbr", "boot", "wild", "root"},
         NEW sectors \in Nat, AllocAndRead(b, area, sectors)
  PROVE  /\ owner' \in [Pages -> Blocks \cup {"free", "others"}]
         /\ addr' \in [Blocks -> Pages \cup {NULL}]
         /\ IsRead(read')
         /\ fault' \in {"none", "assert", "wild_port", "null_buffer"}
         /\ \A p \in Pages : owner'[p] \in {b, owner[p]}
         /\ \A c \in Blocks \ {b} : addr'[c] = addr[c]
<1> DEFINE a == FirstFit(PagesFor(sectors))
<1>1. a \in Pages \cup {NULL}
  BY FirstFitIsPage
<1> HIDE DEF a
<1>2. /\ owner' = Given(b, a, PagesFor(sectors))
      /\ addr' = [addr EXCEPT ![b] = a]
      /\ read' = [phase |-> "called", block |-> b, area |-> area,
                  sectors |-> sectors, slot |-> NoSlot]
      /\ fault' \in IF drives = 0 THEN {"assert", "wild_port"}
                    ELSE IF a = NULL THEN {"null_buffer"} ELSE {"none"}
  BY DEF AllocAndRead, a
<1>3. addr' \in [Blocks -> Pages \cup {NULL}]
  BY <1>1, <1>2 DEF Typed
<1>4. IsRead(read')
  BY <1>2 DEF IsRead, Reads, Phases
<1>5. fault' \in {"none", "assert", "wild_port", "null_buffer"}
  BY <1>2
<1>6. \A c \in Blocks \ {b} : addr'[c] = addr[c]
  BY <1>2 DEF Typed
<1> QED BY <1>2, <1>3, <1>4, <1>5, <1>6, GivenTyped

-----------------------------------------------------------------------------
LEMMA InitInv == Init => Inv
<1>1. SUFFICES ASSUME Init PROVE Inv
  OBVIOUS
<1>2. Listed
  <2>1. functions = << >> /\ at = 0 /\ config \in [Places -> Kinds]
    BY <1>1 DEF Init, PciInit
  <2>2. functions \in Seq(EntryType) /\ DOMAIN functions = {}
    BY <2>1
  <2>3. \A p \in Places : ~ (p < at)
    BY <2>1, KindsAssumption DEF Places
  <2> QED BY <2>1, <2>2, <2>3 DEF Listed
<1>3. Typed
  <2>1. drives \in 0 .. MAX_DRIVES
    BY <1>1, Sizes DEF Init
  <2>2. IsRead(read)
    BY <1>1 DEF Init, Idle, IsRead, Reads, Phases, Blocks
  <2>3. owner \in [Pages -> Blocks \cup {"free", "others"}]
    BY <1>1 DEF Init
  <2>4. addr \in [Blocks -> Pages \cup {NULL}]
    BY <1>1 DEF Init
  <2> QED BY <1>1, <2>1, <2>2, <2>3, <2>4 DEF Init, Typed, Disks
<1>4. Buffers
  <2>1. \A p \in Pages : owner[p] \in {"free", "others"}
    BY <1>1 DEF Init
  <2>2. addr["info"] = NULL
    BY <1>1 DEF Init, Blocks
  <2> QED BY <2>1, <2>2 DEF Buffers
<1> QED BY <1>2, <1>3, <1>4 DEF Inv

-----------------------------------------------------------------------------
(* One step. *)

LEMMA ListedUnchanged ==
  ASSUME Listed, UNCHANGED pci
  PROVE  Listed'
BY DEF Listed, IsFound, pci

LEMMA MemoryUnchanged ==
  ASSUME Typed, UNCHANGED <<owner, addr>>
  PROVE  /\ owner' \in [Pages -> Blocks \cup {"free", "others"}]
         /\ addr' \in [Blocks -> Pages \cup {NULL}]
BY DEF Typed

LEMMA BuffersUnchanged ==
  ASSUME Buffers, UNCHANGED <<pc, memory>>
  PROVE  Buffers'
BY DEF Buffers, memory

(* A step of read_lba48, and what it makes of the registers. *)
LEMMA ReadStepInv ==
  ASSUME Inv, ReadStep
  PROVE  Inv'
<1>1. Listed /\ Typed /\ Buffers
  BY DEF Inv
<1>2. CASE Prepare
  <2>1. IsRead(read')
    <3>1. CASE FreeSlots = {}
      BY <1>1, <1>2, <3>1 DEF Prepare, Returned, Typed, IsRead, Reads, Phases
    <3>2. CASE FreeSlots # {}
      <4> DEFINE s == CHOOSE s \in FreeSlots : \A u \in FreeSlots : s <= u
      <4>1. FreeSlots \subseteq Nat
        BY Sizes DEF FreeSlots
      <4>2. s \in FreeSlots
        BY <3>2, <4>1, LeastElement
      <4>3. s \in Slots
        BY <4>2 DEF FreeSlots
      <4>4. read' = [read EXCEPT !.phase = "prepared", !.slot = s]
        BY <1>2, <3>2 DEF Prepare
      <4> HIDE DEF s
      <4> QED BY <1>1, <4>3, <4>4 DEF Typed, IsRead, Reads, Phases
    <3> QED BY <3>1, <3>2
  <2>2. UNCHANGED <<pci, pc, drives, sact, ci, disk, memory, owner, addr,
                    fault>>
    BY <1>2 DEF Prepare, memory
  <2> QED BY <1>1, <2>1, <2>2, ListedUnchanged, BuffersUnchanged, MemoryUnchanged
          DEF Inv, Typed
<1>3. CASE GiveUp \/ Finish
  <2>1. IsRead(read')
    BY <1>1, <1>3 DEF GiveUp, Finish, Returned, Typed, IsRead, Reads, Phases
  <2>2. UNCHANGED <<pci, pc, drives, sact, ci, disk, memory, owner, addr,
                    fault>>
    BY <1>3 DEF GiveUp, Finish, memory, port
  <2> QED BY <1>1, <2>1, <2>2, ListedUnchanged, BuffersUnchanged DEF Inv, Typed
<1>4. CASE Issue
  <2>1. IsRead(read')
    BY <1>1, <1>4 DEF Issue, Typed, IsRead, Reads, Phases
  <2>2. ci' \subseteq Slots
    <3>1. read.slot \in Slots
      BY <1>1, <1>4 DEF Issue, Typed, IsRead
    <3> QED BY <1>1, <1>4, <3>1 DEF Issue, Typed
  <2>3. UNCHANGED <<pci, pc, drives, sact, disk, memory, owner, addr, fault>>
    BY <1>4 DEF Issue, memory
  <2> QED BY <1>1, <2>1, <2>2, <2>3, ListedUnchanged, BuffersUnchanged
          DEF Inv, Typed
<1> QED BY <1>2, <1>3, <1>4 DEF ReadStep

(* A step of the port or of its drive. *)
LEMMA PortStepInv ==
  ASSUME Inv, Ready \/ Complete \/ Fail
  PROVE  Inv'
<1>1. Listed /\ Typed /\ Buffers
  BY DEF Inv
<1>2. UNCHANGED <<pci, pc, drives, read, sact, disk, owner, addr, fault>>
  BY DEF Ready, Complete, Fail, memory
<1>3. ci' \subseteq Slots
  BY <1>1 DEF Ready, Complete, Fail, Typed
<1>4. Typed'
  BY <1>1, <1>2, <1>3 DEF Typed
<1>5. Buffers'
  BY <1>1, <1>2 DEF Buffers
<1> QED BY <1>1, <1>2, <1>4, <1>5, ListedUnchanged DEF Inv

(* The walk over the functions, and what is found at each. *)
LEMMA WalkInv ==
  ASSUME Inv, Walk \/ Probe \/ Probed
  PROVE  Inv'
<1>1. Listed /\ Typed /\ Buffers
  BY DEF Inv
<1>2. UNCHANGED <<read, port, memory>>
  BY DEF Walk, Probe, Probed
<1>3. Listed'
  <2>1. CASE Walk
    BY <1>1, <2>1, CheckDeviceListed DEF Walk
  <2>2. CASE Probe \/ Probed
    BY <1>1, <2>2, ListedUnchanged DEF Probe, Probed
  <2> QED BY <2>1, <2>2
<1>4. /\ drives' \in 0 .. MAX_DRIVES
      /\ fault' \in {"none", "assert", "wild_port", "null_buffer"}
  <2>1. CASE Walk \/ Probed
    BY <1>1, <2>1 DEF Walk, Probed, Typed
  <2>2. CASE Probe
    <3>1. \/ fault' = "assert" /\ UNCHANGED drives
          \/ UNCHANGED <<drives, fault>>
          \/ \E sata \in 0 .. Ports :
               ~ TableFull(sata) /\ drives' = drives + sata /\ UNCHANGED fault
      BY <2>2 DEF Probe
    <3>2. ASSUME NEW sata \in 0 .. Ports, ~ TableFull(sata), drives' = drives + sata
          PROVE  drives' \in 0 .. MAX_DRIVES
      BY <1>1, <3>2, Sizes DEF TableFull, Typed
    <3>3. /\ drives \in 0 .. MAX_DRIVES
          /\ fault \in {"none", "assert", "wild_port", "null_buffer"}
      BY <1>1 DEF Typed
    <3> QED BY <3>1, <3>2, <3>3
  <2> QED BY <2>1, <2>2
<1>5. Typed'
  BY <1>1, <1>2, <1>4 DEF Typed, port, memory
<1>6. Buffers'
  <2>1. /\ pc \notin {"boot_read"} /\ pc \in {"pci", "mbr", "mbr_read"}
        /\ pc' \in {"pci", "mbr"}
    BY DEF Walk, Probe, Probed
  <2> QED BY <1>1, <1>2, <2>1 DEF Buffers, memory
<1> QED BY <1>3, <1>5, <1>6 DEF Inv

(* What a step of MyOSMain has to keep of Typed, when only the memory, the *)
(* call of read_drive and the fault change.                                *)
LEMMA TypedNext ==
  ASSUME Typed, UNCHANGED <<drives, port>>,
         owner' \in [Pages -> Blocks \cup {"free", "others"}],
         addr' \in [Blocks -> Pages \cup {NULL}],
         IsRead(read'),
         fault' \in {"none", "assert", "wild_port", "null_buffer"}
  PROVE  Typed'
BY DEF Typed, port

LEMMA ReadMbrInv ==
  ASSUME Inv, ReadMbr
  PROVE  Inv'
<1>1. Listed /\ Typed /\ Buffers
  BY DEF Inv
<1>2. /\ pc = "mbr" /\ pc' = "mbr_read"
      /\ AllocAndRead("mbr_buf", "mbr", 1)
      /\ UNCHANGED <<pci, drives, port>>
  BY DEF ReadMbr
<1>3. "mbr_buf" \in Blocks /\ "info" \in Blocks \ {"mbr_buf"}
  BY DEF Blocks
<1>4. /\ owner' \in [Pages -> Blocks \cup {"free", "others"}]
      /\ addr' \in [Blocks -> Pages \cup {NULL}]
      /\ IsRead(read')
      /\ fault' \in {"none", "assert", "wild_port", "null_buffer"}
      /\ \A p \in Pages : owner'[p] \in {"mbr_buf", owner[p]}
      /\ addr'["info"] = addr["info"]
  BY <1>1, <1>2, <1>3, AllocAndReadTyped
<1>5. Buffers'
  BY <1>1, <1>2, <1>4 DEF Buffers
<1> QED BY <1>1, <1>2, <1>4, <1>5, TypedNext, ListedUnchanged DEF Inv

LEMMA CheckMbrInv ==
  ASSUME Inv, CheckMbr
  PROVE  Inv'
<1>1. Listed /\ Typed /\ Buffers
  BY DEF Inv
<1>2. /\ pc = "mbr_read" /\ pc' = "boot"
      /\ UNCHANGED <<pci, drives, read, port>>
  BY DEF CheckMbr
<1>3. CASE UNCHANGED <<memory, fault>>
  <2>1. Typed'
    BY <1>1, <1>2, <1>3 DEF Typed, port, memory
  <2>2. Buffers'
    BY <1>1, <1>2, <1>3 DEF Buffers, memory
  <2> QED BY <1>1, <1>2, <2>1, <2>2, ListedUnchanged DEF Inv
<1>4. CASE \E a : /\ a = FirstFit(1)
                  /\ owner' = Freed(Given("info", a, 1), "mbr_buf")
                  /\ addr' = [addr EXCEPT !["info"] = a]
                  /\ fault' = IF a = NULL THEN "null_buffer" ELSE "none"
  <2>1. PICK a : /\ a = FirstFit(1)
                 /\ owner' = Freed(Given("info", a, 1), "mbr_buf")
                 /\ addr' = [addr EXCEPT !["info"] = a]
                 /\ fault' = IF a = NULL THEN "null_buffer" ELSE "none"
    BY <1>4
  <2>2. a \in Pages \cup {NULL}
    BY <2>1, FirstFitIsPage
  <2>3. "info" \in Blocks /\ "mbr_buf" \in Blocks
    BY DEF Blocks
  <2>4. /\ Given("info", a, 1) \in [Pages -> Blocks \cup {"free", "others"}]
        /\ \A p \in Pages : Given("info", a, 1)[p] \in {"info", owner[p]}
    BY <1>1, <2>3, GivenTyped
  <2>5. /\ owner' \in [Pages -> Blocks \cup {"free", "others"}]
        /\ \A p \in Pages : /\ owner'[p] # "mbr_buf"
                            /\ owner'[p] \in {"free", Given("info", a, 1)[p]}
    BY <2>1, <2>3, <2>4, FreedTyped
  <2>6. addr' \in [Blocks -> Pages \cup {NULL}]
    BY <1>1, <2>1, <2>2 DEF Typed
  <2>7. Typed'
    BY <1>1, <1>2, <2>1, <2>5, <2>6, TypedNext DEF Typed
  <2>8. \A p \in Pages : owner'[p] # "buf"
    BY <1>1, <1>2, <2>4, <2>5 DEF Buffers
  <2>9. Buffers'
    BY <1>2, <2>5, <2>8 DEF Buffers
  <2> QED BY <1>1, <1>2, <2>7, <2>9, ListedUnchanged DEF Inv
<1> QED BY <1>3, <1>4 DEF CheckMbr

LEMMA ReadBootInv ==
  ASSUME Inv, ReadBoot
  PROVE  Inv'
<1>1. Listed /\ Typed /\ Buffers
  BY DEF Inv
<1>2. pc = "boot" /\ UNCHANGED <<pci, drives, port>>
  BY DEF ReadBoot
<1>3. CASE pc' = "main" /\ UNCHANGED <<memory, read, fault>>
  <2>1. Typed'
    BY <1>1, <1>2, <1>3 DEF Typed, port, memory
  <2>2. Buffers'
    BY <1>1, <1>2, <1>3 DEF Buffers, memory
  <2> QED BY <1>1, <1>2, <2>1, <2>2, ListedUnchanged DEF Inv
<1>4. ASSUME NEW area \in {"wild", "boot"},
             pc' = "boot_read", AllocAndRead("buf", area, 1)
      PROVE  Inv'
  <2>1. "buf" \in Blocks /\ "info" \in Blocks \ {"buf"}
    BY DEF Blocks
  <2>2. /\ owner' \in [Pages -> Blocks \cup {"free", "others"}]
        /\ addr' \in [Blocks -> Pages \cup {NULL}]
        /\ IsRead(read')
        /\ fault' \in {"none", "assert", "wild_port", "null_buffer"}
        /\ \A p \in Pages : owner'[p] \in {"buf", owner[p]}
        /\ addr'["info"] = addr["info"]
    BY <1>1, <1>4, <2>1, AllocAndReadTyped
  <2>3. Buffers'
    BY <1>1, <1>4, <2>2 DEF Buffers
  <2> QED BY <1>1, <1>2, <2>2, <2>3, TypedNext, ListedUnchanged DEF Inv
<1> QED BY <1>3, <1>4 DEF ReadBoot

LEMMA CheckBootInv ==
  ASSUME Inv, CheckBoot
  PROVE  Inv'
<1>1. Listed /\ Typed /\ Buffers
  BY DEF Inv
<1>2. pc = "boot_read" /\ UNCHANGED <<pci, drives, read, port, fault>>
  BY DEF CheckBoot
<1>3. PICK a : /\ a \in {FirstFit(1), NULL}
               /\ pc' = IF a = NULL THEN "main" ELSE "root"
               /\ addr' = [addr EXCEPT !["partition"] = a]
               /\ owner' = FreeBuf(Given("partition", a, 1))
  BY DEF CheckBoot
<1>4. a \in Pages \cup {NULL}
  BY <1>3, FirstFitIsPage
<1>5. "partition" \in Blocks /\ "buf" \in Blocks /\ "info" \in Blocks
  BY DEF Blocks
<1>6. /\ Given("partition", a, 1) \in [Pages -> Blocks \cup {"free", "others"}]
      /\ \A p \in Pages : Given("partition", a, 1)[p] \in {"partition", owner[p]}
  BY <1>1, <1>5, GivenTyped
<1>7. /\ owner' \in [Pages -> Blocks \cup {"free", "others"}]
      /\ \A p \in Pages : /\ owner'[p] # "buf"
                          /\ owner'[p] \in {"free", Given("partition", a, 1)[p]}
  BY <1>3, <1>5, <1>6, FreedTyped DEF FreeBuf
<1>8. /\ addr' \in [Blocks -> Pages \cup {NULL}]
      /\ addr'["info"] = addr["info"]
  BY <1>1, <1>3, <1>4, <1>5 DEF Typed
<1>9. Typed'
  BY <1>1, <1>2, <1>7, <1>8, TypedNext DEF Typed
<1>10. pc' \in {"main", "root"}
  BY <1>3
<1>11. \A p \in Pages : owner'[p] \in {"free", "partition", owner[p]}
  BY <1>6, <1>7
<1>12. Buffers'
  BY <1>1, <1>7, <1>8, <1>10, <1>11 DEF Buffers
<1> QED BY <1>1, <1>2, <1>9, <1>12, ListedUnchanged DEF Inv

LEMMA ReadRootInv ==
  ASSUME Inv, ReadRoot
  PROVE  Inv'
<1>1. Listed /\ Typed /\ Buffers
  BY DEF Inv
<1>2. /\ pc = "root" /\ pc' = "root_read"
      /\ UNCHANGED <<pci, drives, port>>
  BY DEF ReadRoot
<1>3. PICK sectors : /\ sectors \in {disk.clusters} \cup Clusters
                     /\ AllocAndRead("dir_buf", "root", sectors)
  BY DEF ReadRoot, Verdicts
<1>4. sectors \in Nat
  BY <1>1, <1>3, Sizes DEF Typed, Disks
<1>5. "dir_buf" \in Blocks /\ "info" \in Blocks \ {"dir_buf"}
  BY DEF Blocks
<1>6. /\ owner' \in [Pages -> Blocks \cup {"free", "others"}]
      /\ addr' \in [Blocks -> Pages \cup {NULL}]
      /\ IsRead(read')
      /\ fault' \in {"none", "assert", "wild_port", "null_buffer"}
      /\ \A p \in Pages : owner'[p] \in {"dir_buf", owner[p]}
      /\ addr'["info"] = addr["info"]
  BY <1>1, <1>3, <1>4, <1>5, AllocAndReadTyped
<1>7. Buffers'
  BY <1>1, <1>2, <1>6 DEF Buffers
<1> QED BY <1>1, <1>2, <1>6, <1>7, TypedNext, ListedUnchanged DEF Inv

LEMMA ListRootInv ==
  ASSUME Inv, ListRoot
  PROVE  Inv'
<1>1. Listed /\ Typed /\ Buffers
  BY DEF Inv
<1>2. /\ pc = "root_read" /\ pc' = "main"
      /\ UNCHANGED <<pci, drives, read, port, memory, fault>>
  BY DEF ListRoot
<1>3. Typed'
  BY <1>1, <1>2 DEF Typed, port, memory
<1>4. Buffers'
  BY <1>1, <1>2 DEF Buffers, memory
<1> QED BY <1>1, <1>2, <1>3, <1>4, ListedUnchanged DEF Inv

LEMMA StepInv == Inv /\ [Next]_vars => Inv'
<1> SUFFICES ASSUME Inv, [Next]_vars PROVE Inv'
  OBVIOUS
<1>1. CASE StartUp
  BY <1>1, WalkInv, ReadMbrInv, CheckMbrInv, ReadBootInv, CheckBootInv,
     ReadRootInv, ListRootInv DEF StartUp
<1>2. CASE ReadStep
  BY <1>2, ReadStepInv
<1>3. CASE Ready \/ Complete \/ Fail
  BY <1>3, PortStepInv
<1>4. CASE UNCHANGED vars
  <2>1. UNCHANGED <<pci, pc, drives, read, port, memory, fault>>
    BY <1>4 DEF vars
  <2>2. Listed /\ Typed /\ Buffers
    BY DEF Inv
  <2>3. Typed'
    BY <2>1, <2>2 DEF Typed, port, memory
  <2> QED BY <2>1, <2>2, <2>3, ListedUnchanged, BuffersUnchanged DEF Inv
<1> QED BY <1>1, <1>2, <1>3, <1>4 DEF Next

-----------------------------------------------------------------------------
(* The table of functions and of drives, the registers, the pages and the  *)
(* pointers to them hold what they should: read_drive prepares its command *)
(* in a slot of the port, and add_drive stays inside its table.            *)
THEOREM TypeCorrect == Spec => []TypeOK
<1>1. Inv => TypeOK
  BY DEF Inv, Listed, Typed, IsRead, Reads, Phases, EntryType, TypeOK
<1> QED BY <1>1, InitInv, StepInv, PTL DEF Spec

(* However many buses and devices there are, the table lists exactly the   *)
(* functions that are there on the places passed, each of them once.       *)
THEOREM EachFunctionOnce == Spec => []FunctionsFound
<1>1. Inv => FunctionsFound
  BY ListedMeansFound DEF Inv
<1> QED BY <1>1, InitInv, StepInv, PTL DEF Spec

(* Whichever checks of the MBR and of the boot sector fail, whatever the   *)
(* pages held before and however much memory there is, the two buffers for *)
(* single sectors are given back, but for the one of an MBR without        *)
(* signature.                                                              *)
THEOREM NoBufferLeft == Spec => []BuffersReturned
<1>1. Inv => BuffersReturned
  BY DEF Inv, Buffers, BuffersReturned
<1> QED BY <1>1, InitInv, StepInv, PTL DEF Spec

-----------------------------------------------------------------------------
(* What start-up finds on a disk whose port is ready, has a slot free and  *)
(* reports no error.                                                       *)

(* Which pages a block has, and where start-up cannot be after a fault. *)
Holdings ==
  /\ fault # "none" => pc # "main"
  /\ \A p \in Pages :
       /\ owner[p] \in {"partition", "dir_buf"} =>
            pc \in {"root", "root_read", "main"}
       /\ owner[p] = "info" => p = addr["info"]
       /\ owner[p] = "buf" => p = addr["buf"]

(* The port works on one command at most, that of the read in progress. *)
PortIdle ==
  /\ ~ tfes
  /\ ci \subseteq {read.slot}
  /\ ci # {} => read.phase = "issued"
  /\ pc \in {"pci", "mbr"} => read.phase = "idle"
  /\ pc \in {"boot", "root", "main"} => read.phase = "returned"

(* A read of one sector that is over has put it into its block. *)
Arrived(b, area) ==
  /\ read.block = b /\ read.area = area /\ read.sectors = 1
  /\ addr[b] \in Pages
  /\ read.phase = "returned" \/ (read.phase = "issued" /\ ci = {}) =>
       Data(b) = <<area, 0>>

Sectors ==
  /\ pc = "mbr_read" => Arrived("mbr_buf", "mbr")
  /\ pc = "boot_read" /\ disk.signed => Arrived("buf", "boot")
  /\ pc \in {"boot", "boot_read"} /\ disk.signed => addr["info"] \in Pages
  /\ pc = "boot" /\ disk.signed => Data("info") = <<"info", 0>>

Mounting ==
  /\ pc \in {"pci", "mbr", "mbr_read", "boot", "boot_read"} =>
       addr["partition"] = NULL
  /\ pc \in {"root", "root_read"} => addr["partition"] # NULL
  /\ pc \in {"root", "root_read", "main"} /\ disk.signed =>
       (addr["partition"] # NULL => disk.fat32)
  /\ pc = "main" /\ disk.signed /\ EnoughMemory /\ disk.fat32 =>
       addr["partition"] # NULL

Sound == PortIdle /\ Sectors /\ Mounting

MInv == /\ Inv /\ PortReady /\ Holdings
        /\ Running /\ ~ stopped => Sound

LEMMA FirstFitIsFree ==
  ASSUME NEW n, FirstFit(n) # NULL
  PROVE  FirstFit(n) \in Fitting(n)
<1>1. Fitting(n) # {}
  BY DEF FirstFit
<1>2. Fitting(n) \subseteq Nat
  BY Sizes DEF Fitting
<1>3. \E a \in Fitting(n) : \A b \in Fitting(n) : a <= b
  BY <1>1, <1>2, LeastElement
<1> QED BY <1>1, <1>3 DEF FirstFit

LEMMA OnePage ==
  /\ PagesFor(1) = 1
  /\ \A a \in Pages : \A p : p \in Extent(a, 1) <=> p = a
  /\ NULL \notin Pages
<1>1. PagesFor(1) = 1
  BY DEF PagesFor
<1>2. ASSUME NEW a \in Pages, NEW p
      PROVE  p \in Extent(a, 1) <=> p = a
  BY Sizes DEF Extent
<1>3. NULL \notin Pages
  BY Sizes DEF NULL
<1> QED BY <1>1, <1>2, <1>3

(* No room for a page means that none is free. *)
LEMMA NoneFree ==
  ASSUME NEW p \in Pages, owner[p] = "free"
  PROVE  FirstFit(1) # NULL
<1>1. p \in Fitting(1)
  BY OnePage DEF Fitting
<1>2. \E a \in Fitting(1) : \A b \in Fitting(1) : a <= b
  <2>1. Fitting(1) \subseteq Nat
    BY Sizes DEF Fitting
  <2> QED BY <1>1, <2>1, LeastElement
<1>3. FirstFit(1) \in Pages
  BY <1>1, <1>2 DEF FirstFit, Fitting
<1> QED BY <1>3, OnePage

(* A read of one sector transfers to its page, and to the next. *)
LEMMA SectorTarget ==
  ASSUME NEW a \in Pages
  PROVE  a \in Extent(a, PagesFor(SectorsRead(1)))
<1>1. PassedCount(1) = 256
  BY DEF PassedCount
<1>2. PrdtEntries(256) = 16
  BY DEF PrdtEntries
<1>3. CommandCount(256) = 16
  BY <1>2 DEF CommandCount
<1>4. PagesFor(16) = 2
  BY DEF PagesFor
<1>5. PagesFor(SectorsRead(1)) = 2
  BY <1>1, <1>3, <1>4 DEF SectorsRead
<1> QED BY <1>5, Sizes DEF Extent

(* What a call of read_drive for one sector leaves. *)
LEMMA AllocAndReadSector ==
  ASSUME Typed, NEW b \in Blocks, NEW area, AllocAndRead(b, area, 1)
  PROVE  /\ \A p \in Pages : \/ owner'[p] = owner[p]
                             \/ owner'[p] = b /\ p = addr'[b]
         /\ \A c \in Blocks \ {b} : addr'[c] = addr[c]
         /\ read' = [phase |-> "called", block |-> b, area |-> area,
                     sectors |-> 1, slot |-> NoSlot]
         /\ fault' = "none" => addr'[b] \in Pages
         /\ UNCHANGED content
<1> DEFINE a == FirstFit(1)
<1>1. a \in Pages \cup {NULL}
  BY FirstFitIsPage
<1> HIDE DEF a
<1>2. /\ owner' = Given(b, a, 1)
      /\ addr' = [addr EXCEPT ![b] = a]
      /\ read' = [phase |-> "called", block |-> b, area |-> area,
                  sectors |-> 1, slot |-> NoSlot]
      /\ fault' \in IF drives = 0 THEN {"assert", "wild_port"}
                    ELSE IF a = NULL THEN {"null_buffer"} ELSE {"none"}
      /\ UNCHANGED content
  BY OnePage DEF AllocAndRead, a
<1>3. addr'[b] = a /\ \A c \in Blocks \ {b} : addr'[c] = addr[c]
  BY <1>2 DEF Typed
<1>4. fault' = "none" => a \in Pages
  BY <1>1, <1>2
<1>5. ASSUME NEW p \in Pages
      PROVE  owner'[p] = owner[p] \/ (owner'[p] = b /\ p = a)
  <2>1. CASE a # NULL /\ p \in Extent(a, 1)
    <3>1. p = a
      BY <1>1, <2>1, OnePage
    <3> QED BY <1>2, <2>1, <3>1 DEF Given
  <2>2. CASE ~ (a # NULL /\ p \in Extent(a, 1))
    BY <1>2, <2>2 DEF Given
  <2> QED BY <2>1, <2>2
<1> QED BY <1>2, <1>3, <1>4, <1>5

(* What CheckMbr leaves. *)
LEMMA CheckMbrMemory ==
  ASSUME Inv, CheckMbr
  PROVE  \/ UNCHANGED <<memory, fault>>
         \/ /\ addr'["info"] \in Pages \cup {NULL}
            /\ \A c \in Blocks \ {"info"} : addr'[c] = addr[c]
            /\ fault' = IF addr'["info"] = NULL THEN "null_buffer" ELSE "none"
            /\ MbrRead /\ addr'["info"] \in Pages =>
                 content'[addr'["info"]] = <<"info", 0>>
            /\ \A p \in Pages :
                 \/ owner'[p] = "free" \/ owner'[p] = owner[p]
                 \/ owner'[p] = "info" /\ p = addr'["info"]
<1> DEFINE a == FirstFit(1)
<1>1. a \in Pages \cup {NULL}
  BY FirstFitIsPage
<1>2. Typed
  BY DEF Inv
<1> SUFFICES ASSUME ~ UNCHANGED <<memory, fault>>
             PROVE  /\ addr'["info"] \in Pages \cup {NULL}
                    /\ \A c \in Blocks \ {"info"} : addr'[c] = addr[c]
                    /\ fault' = IF addr'["info"] = NULL THEN "null_buffer" ELSE "none"
                    /\ MbrRead /\ addr'["info"] \in Pages =>
                         content'[addr'["info"]] = <<"info", 0>>
                    /\ \A p \in Pages :
                         \/ owner'[p] = "free" \/ owner'[p] = owner[p]
                         \/ owner'[p] = "info" /\ p = addr'["info"]
  OBVIOUS
<1>3. /\ owner' = Freed(Given("info", a, 1), "mbr_buf")
      /\ addr' = [addr EXCEPT !["info"] = a]
      /\ content' = [p \in Pages |-> IF p # a THEN content[p]
                                     ELSE IF MbrRead THEN <<"info", 0>>
                                     ELSE <<"raw", 0>>]
      /\ fault' = IF a = NULL THEN "null_buffer" ELSE "none"
  BY DEF CheckMbr
<1> HIDE DEF a
<1>4. addr'["info"] = a /\ \A c \in Blocks \ {"info"} : addr'[c] = addr[c]
  BY <1>2, <1>3 DEF Typed, Blocks
<1>5. ASSUME NEW p \in Pages
      PROVE  \/ owner'[p] = "free" \/ owner'[p] = owner[p]
             \/ owner'[p] = "info" /\ p = a
  <2>1. CASE a # NULL /\ p \in Extent(a, 1)
    <3>1. p = a
      BY <1>1, <2>1, OnePage
    <3> QED BY <1>3, <2>1, <3>1 DEF Given, Freed
  <2>2. CASE ~ (a # NULL /\ p \in Extent(a, 1))
    BY <1>3, <2>2 DEF Given, Freed
  <2> QED BY <2>1, <2>2
<1>6. MbrRead /\ a \in Pages => content'[a] = <<"info", 0>>
  BY <1>3
<1> QED BY <1>1, <1>3, <1>4, <1>5, <1>6

(* What CheckBoot leaves. *)
LEMMA CheckBootMemory ==
  ASSUME Inv, CheckBoot
  PROVE  \E fat32 \in Verdicts("buf", "boot", disk.fat32, BOOLEAN) :
           /\ addr'["partition"] = IF fat32 THEN FirstFit(1) ELSE NULL
           /\ pc' = IF addr'["partition"] = NULL THEN "main" ELSE "root"
           /\ \A c \in Blocks \ {"partition"} : addr'[c] = addr[c]
           /\ \A p \in Pages : /\ owner'[p] \in {"free", "partition", owner[p]}
                               /\ owner'[p] # "buf"
                               /\ addr'["partition"] = NULL /\ owner[p] = "others"
                                    => owner'[p] = "others"
<1>1. PICK fat32 \in Verdicts("buf", "boot", disk.fat32, BOOLEAN) :
        LET a == IF fat32 THEN FirstFit(1) ELSE NULL
        IN  /\ pc' = IF a = NULL THEN "main" ELSE "root"
            /\ addr' = [addr EXCEPT !["partition"] = a]
            /\ owner' = FreeBuf(Given("partition", a, 1))
  BY DEF CheckBoot
<1> DEFINE a == IF fat32 THEN FirstFit(1) ELSE NULL
<1>2. /\ pc' = IF a = NULL THEN "main" ELSE "root"
      /\ addr' = [addr EXCEPT !["partition"] = a]
      /\ owner' = FreeBuf(Given("partition", a, 1))
  BY <1>1
<1> HIDE DEF a
<1>3. Typed
  BY DEF Inv
<1>4. addr'["partition"] = a /\ \A c \in Blocks \ {"partition"} : addr'[c] = addr[c]
  BY <1>2, <1>3 DEF Typed, Blocks
<1>5. ASSUME NEW p \in Pages
      PROVE  /\ owner'[p] \in {"free", "partition", owner[p]}
             /\ owner'[p] # "buf"
             /\ a = NULL /\ owner[p] = "others" => owner'[p] = "others"
  BY <1>2 DEF FreeBuf, Freed, Given
<1> QED BY <1>1, <1>2, <1>4, <1>5 DEF a

-----------------------------------------------------------------------------
LEMMA InitMounting ==
  ASSUME Init, PortReady
  PROVE  MInv
<1>1. Inv
  BY InitInv
<1>2. Holdings
  <2>1. \A p \in Pages : owner[p] \in {"free", "others"}
    BY DEF Init
  <2> QED BY <2>1 DEF Init, Holdings
<1>3. PortIdle
  BY DEF Init, Idle, PortIdle
<1>4. Sectors
  BY DEF Init, Sectors
<1>5. Mounting
  <2>1. addr["partition"] = NULL
    BY DEF Init, Blocks
  <2> QED BY <2>1 DEF Init, Mounting
<1> QED BY <1>1, <1>2, <1>3, <1>4, <1>5 DEF MInv, Sound

LEMMA HoldingsStep ==
  ASSUME Inv, Holdings, Running, StartUp
  PROVE  Holdings'
<1>1. Typed /\ Buffers
  BY DEF Inv
<1>2. {"mbr_buf", "info", "buf", "partition", "dir_buf"} = Blocks
  BY DEF Blocks
<1>3. CASE Walk \/ Probe \/ Probed
  <2>1. UNCHANGED memory /\ pc \in {"pci", "mbr"} /\ pc' \in {"pci", "mbr"}
    BY <1>3 DEF Walk, Probe, Probed
  <2> QED BY <2>1 DEF Holdings, memory
<1>4. CASE ReadMbr
  <2>1. pc = "mbr" /\ pc' = "mbr_read" /\ AllocAndRead("mbr_buf", "mbr", 1)
    BY <1>4 DEF ReadMbr
  <2>2. /\ \A p \in Pages : \/ owner'[p] = owner[p]
                            \/ owner'[p] = "mbr_buf" /\ p = addr'["mbr_buf"]
        /\ addr'["info"] = addr["info"] /\ addr'["buf"] = addr["buf"]
    BY <1>1, <1>2, <2>1, AllocAndReadSector
  <2> QED BY <2>1, <2>2 DEF Holdings
<1>5. CASE CheckMbr
  <2>1. pc = "mbr_read" /\ pc' = "boot"
    BY <1>5 DEF CheckMbr
  <2>2. CASE UNCHANGED <<memory, fault>>
    BY <2>1, <2>2 DEF Holdings, memory
  <2>3. CASE /\ addr'["buf"] = addr["buf"]
             /\ \A p \in Pages :
                  \/ owner'[p] = "free" \/ owner'[p] = owner[p]
                  \/ owner'[p] = "info" /\ p = addr'["info"]
    <3>1. \A p \in Pages : owner[p] # "info" /\ owner[p] # "buf"
      <4>1. addr["info"] \notin Pages
        BY <1>1, <2>1, OnePage DEF Buffers
      <4> QED BY <1>1, <2>1, <4>1 DEF Holdings, Buffers
    <3> QED BY <2>1, <2>3, <3>1 DEF Holdings
  <2> QED BY <1>2, <1>5, <2>2, <2>3, CheckMbrMemory
<1>6. CASE ReadBoot
  <2>1. CASE pc' = "main" /\ UNCHANGED <<memory, read, fault>>
    <3>1. fault = "none"
      BY DEF Running
    <3> QED BY <1>1, <1>6, <2>1, <3>1 DEF Holdings, ReadBoot, memory
  <2>2. ASSUME NEW area, pc' = "boot_read", AllocAndRead("buf", area, 1)
        PROVE  Holdings'
    <3>1. /\ \A p \in Pages : \/ owner'[p] = owner[p]
                              \/ owner'[p] = "buf" /\ p = addr'["buf"]
          /\ addr'["info"] = addr["info"]
      BY <1>1, <1>2, <2>2, AllocAndReadSector
    <3>2. pc = "boot" /\ \A p \in Pages : owner[p] # "buf"
      BY <1>1, <1>6 DEF ReadBoot, Buffers
    <3> QED BY <2>2, <3>1, <3>2 DEF Holdings
  <2> QED BY <1>6, <2>1, <2>2 DEF ReadBoot
<1>7. CASE CheckBoot
  <2>1. /\ pc' \in {"main", "root"}
        /\ addr'["info"] = addr["info"]
        /\ \A p \in Pages : /\ owner'[p] \in {"free", "partition", owner[p]}
                            /\ owner'[p] # "buf"
    BY <1>2, <1>7, CheckBootMemory
  <2>2. pc = "boot_read" /\ UNCHANGED fault /\ fault = "none"
    BY <1>7 DEF CheckBoot, Running
  <2> QED BY <2>1, <2>2 DEF Holdings
<1>8. CASE ReadRoot
  <2>1. PICK sectors : /\ sectors \in {disk.clusters} \cup Clusters
                       /\ AllocAndRead("dir_buf", "root", sectors)
    BY <1>8 DEF ReadRoot, Verdicts
  <2>2. sectors \in Nat
    BY <1>1, <2>1, Sizes DEF Typed, Disks
  <2>3. /\ \A p \in Pages : owner'[p] \in {"dir_buf", owner[p]}
        /\ addr'["info"] = addr["info"] /\ addr'["buf"] = addr["buf"]
    BY <1>1, <1>2, <2>1, <2>2, AllocAndReadTyped
  <2>4. pc' = "root_read" /\ pc = "root"
    BY <1>8 DEF ReadRoot
  <2> QED BY <2>3, <2>4 DEF Holdings
<1>9. CASE ListRoot
  BY <1>9 DEF ListRoot, Holdings, memory, Running
<1> QED BY <1>3, <1>4, <1>5, <1>6, <1>7, <1>8, <1>9 DEF StartUp

(* A step of read_lba48, of which none goes wrong. *)
LEMMA SoundReadStep ==
  ASSUME Inv, PortReady, Sound, ReadStep
  PROVE  Sound'
<1>1. /\ PortIdle /\ Sectors /\ Mounting /\ Typed /\ read \in Reads
      /\ ~ tfes /\ ci \subseteq {read.slot} /\ ci \subseteq Slots
      /\ ci # {} => read.phase = "issued"
      /\ sact # Slots /\ sact \subseteq Slots /\ ~ busy
  BY DEF Inv, Sound, PortIdle, PortReady, Typed, IsRead
<1>2. UNCHANGED <<pc, disk, owner, content, addr>>
  BY DEF ReadStep, Prepare, GiveUp, Issue, Finish, port, memory
<1>3. pc \notin {"pci", "mbr", "boot", "root", "main"}
  BY <1>1 DEF PortIdle, ReadStep, Prepare, GiveUp, Issue, Finish
<1>4. Mounting'
  BY <1>1, <1>2 DEF Mounting, EnoughMemory
<1>5. /\ ~ tfes' /\ ci' \subseteq {read'.slot}
      /\ ci' # {} => read'.phase = "issued"
      /\ UNCHANGED <<read.block, read.area, read.sectors>>
      /\ read'.phase = "returned" \/ (read'.phase = "issued" /\ ci' = {}) =>
           read.phase = "issued" /\ ci = {}
  <2>1. CASE Prepare
    <3>1. read.phase = "called" /\ ~ tfes' /\ UNCHANGED ci /\ ci = {}
      BY <1>1, <2>1 DEF Prepare
    <3>2. FreeSlots # {}
      BY <1>1, <3>1 DEF FreeSlots
    <3>3. PICK s : read' = [read EXCEPT !.phase = "prepared", !.slot = s]
      BY <2>1, <3>2 DEF Prepare
    <3> QED BY <1>1, <3>1, <3>3 DEF Reads
  <2>2. CASE GiveUp
    BY <1>1, <2>2 DEF GiveUp, Hung
  <2>3. CASE Issue
    <3>1. /\ read.phase = "prepared" /\ ci' = ci \cup {read.slot}
          /\ read' = [read EXCEPT !.phase = "issued"] /\ UNCHANGED tfes
      BY <2>3 DEF Issue
    <3> QED BY <1>1, <3>1 DEF Reads
  <2>4. CASE Finish
    <3>1. /\ read.phase = "issued" /\ read.slot \notin ci
          /\ read' = [read EXCEPT !.phase = "returned"] /\ UNCHANGED <<ci, tfes>>
      BY <1>1, <2>4 DEF Finish, Completed, Returned, port
    <3> QED BY <1>1, <3>1 DEF Reads
  <2> QED BY <2>1, <2>2, <2>3, <2>4 DEF ReadStep
<1>6. PortIdle'
  BY <1>2, <1>3, <1>5 DEF PortIdle
<1>7. ASSUME NEW b, NEW area, Arrived(b, area)
      PROVE  Arrived(b, area)'
  BY <1>2, <1>5, <1>7 DEF Arrived, Data
<1>8. Sectors'
  BY <1>1, <1>2, <1>3, <1>7 DEF Sectors
<1> QED BY <1>4, <1>6, <1>8 DEF Sound

(* A step of the port that does not stop it. *)
LEMMA SoundPortStep ==
  ASSUME Inv, PortReady, Sound, Ready \/ Complete \/ Fail, ~ stopped'
  PROVE  Sound'
<1>1. PortIdle /\ Sectors /\ Mounting
  BY DEF Sound
<1>2. Complete
  BY DEF PortReady, Ready, Fail
<1>3. /\ read.phase = "issued" /\ read.slot \in ci
      /\ ci' = ci \ {read.slot}
      /\ content' = [p \in Pages |-> IF p \in Target
                                     THEN <<read.area, p - addr[read.block]>>
                                     ELSE content[p]]
      /\ UNCHANGED <<pc, read, tfes, disk, owner, addr>>
  BY <1>2 DEF Complete, Executing
<1>4. ci' = {} /\ PortIdle'
  BY <1>1, <1>3 DEF PortIdle
<1>5. Mounting'
  BY <1>1, <1>3 DEF Mounting, EnoughMemory
<1>6. ASSUME NEW b, NEW area, Arrived(b, area)
      PROVE  Arrived(b, area)'
  <2>1. /\ addr[b] \in Pages
        /\ read.block = b /\ read.area = area /\ read.sectors = 1
    BY <1>6 DEF Arrived
  <2>2. addr[b] \in Target
    BY <2>1, SectorTarget DEF Target
  <2>3. addr[b] - addr[b] = 0
    <3>1. \A n \in Pages : n - n = 0
      BY Sizes
    <3> QED BY <2>1, <3>1
  <2>4. content'[addr[b]] = <<area, 0>>
    BY <1>3, <2>1, <2>2, <2>3
  <2> QED BY <1>3, <2>1, <2>4 DEF Arrived, Data
<1>7. pc # "boot"
  BY <1>1, <1>3 DEF PortIdle
<1>8. Sectors'
  BY <1>1, <1>3, <1>6, <1>7 DEF Sectors
<1> QED BY <1>4, <1>5, <1>8 DEF Sound

LEMMA SoundReadMbr ==
  ASSUME Inv, Sound, ReadMbr, Running'
  PROVE  Sound'
<1>1. Typed /\ PortIdle /\ Sectors /\ Mounting
  BY DEF Inv, Sound
<1>2. /\ pc = "mbr" /\ pc' = "mbr_read" /\ AllocAndRead("mbr_buf", "mbr", 1)
      /\ UNCHANGED <<ci, tfes, disk>>
  BY DEF ReadMbr, port
<1>3. "mbr_buf" \in Blocks /\ "partition" \in Blocks \ {"mbr_buf"}
  BY DEF Blocks
<1>4. /\ addr'["partition"] = addr["partition"]
      /\ addr'["mbr_buf"] \in Pages
      /\ read' = [phase |-> "called", block |-> "mbr_buf", area |-> "mbr",
                  sectors |-> 1, slot |-> NoSlot]
  BY <1>1, <1>2, <1>3, AllocAndReadSector DEF Running
<1>5. ci = {} /\ ~ tfes
  BY <1>1, <1>2 DEF PortIdle
<1>6. PortIdle'
  BY <1>2, <1>4, <1>5 DEF PortIdle
<1>7. Sectors'
  BY <1>2, <1>4 DEF Sectors, Arrived
<1>8. Mounting'
  BY <1>1, <1>2, <1>4 DEF Mounting
<1> QED BY <1>6, <1>7, <1>8 DEF Sound

LEMMA SoundCheckMbr ==
  ASSUME Inv, Sound, CheckMbr, Running'
  PROVE  Sound'
<1>1. Typed /\ PortIdle /\ Sectors /\ Mounting
  BY DEF Inv, Sound
<1>2. /\ pc = "mbr_read" /\ pc' = "boot" /\ read.phase = "returned"
      /\ UNCHANGED <<read, ci, tfes, disk>>
  BY DEF CheckMbr, port
<1>3. "partition" \in Blocks \ {"info"}
  BY DEF Blocks
<1>4. MbrRead
  BY <1>1, <1>2 DEF Sectors, Arrived, MbrRead
<1>5. PortIdle'
  BY <1>1, <1>2 DEF PortIdle
<1>6. addr'["partition"] = addr["partition"]
  BY <1>3, CheckMbrMemory DEF memory
<1>7. Mounting'
  BY <1>1, <1>2, <1>6 DEF Mounting
<1>8. ASSUME disk.signed
      PROVE  addr'["info"] \in Pages /\ Data("info")' = <<"info", 0>>
  <2>1. /\ addr'["info"] = FirstFit(1)
        /\ fault' = IF FirstFit(1) = NULL THEN "null_buffer" ELSE "none"
        /\ content' = [p \in Pages |-> IF p # FirstFit(1) THEN content[p]
                                       ELSE IF MbrRead THEN <<"info", 0>>
                                       ELSE <<"raw", 0>>]
    <3>1. Verdicts("mbr_buf", "mbr", disk.signed, BOOLEAN) = {TRUE}
      BY <1>4, <1>8, <1>1 DEF Verdicts, MbrRead, Typed, Disks
    <3>2. /\ addr' = [addr EXCEPT !["info"] = FirstFit(1)]
          /\ fault' = IF FirstFit(1) = NULL THEN "null_buffer" ELSE "none"
          /\ content' = [p \in Pages |-> IF p # FirstFit(1) THEN content[p]
                                         ELSE IF MbrRead THEN <<"info", 0>>
                                         ELSE <<"raw", 0>>]
      BY <3>1 DEF CheckMbr
    <3> QED BY <1>1, <3>2 DEF Typed, Blocks
  <2>2. FirstFit(1) \in Pages
    BY <2>1, FirstFitIsPage DEF Running
  <2> QED BY <1>4, <2>1, <2>2 DEF Data
<1>9. Sectors'
  BY <1>2, <1>8 DEF Sectors
<1> QED BY <1>5, <1>7, <1>9 DEF Sound

LEMMA SoundReadBoot ==
  ASSUME Inv, Holdings, Sound, ReadBoot, Running'
  PROVE  Sound'
<1>1. Typed /\ Buffers /\ PortIdle /\ Sectors /\ Mounting
  BY DEF Inv, Sound
<1>2. pc = "boot" /\ UNCHANGED <<ci, tfes, disk>>
  BY DEF ReadBoot, port
<1>3. /\ addr["partition"] = NULL /\ ci = {} /\ ~ tfes /\ read.phase = "returned"
      /\ disk.signed => addr["info"] \in Pages /\ Data("info") = <<"info", 0>>
  BY <1>1, <1>2 DEF PortIdle, Sectors, Mounting
<1>4. CASE FirstFit(1) = NULL
  <2>1. pc' = "main" /\ UNCHANGED <<memory, read>>
    BY <1>4 DEF ReadBoot
  <2>2. PortIdle' /\ Sectors'
    BY <1>1, <1>2, <1>3, <2>1 DEF PortIdle, Sectors
  <2>3. ~ (disk.signed /\ EnoughMemory)
    <3>1. SUFFICES ASSUME disk.signed, EnoughMemory PROVE FALSE
      OBVIOUS
    <3>2. \A p \in Pages : owner[p] # "free"
      BY <1>4, NoneFree
    <3>3. \A p \in Pages : owner[p] # "others" => owner[p] = "info"
      <4>1. addr["info"] # NULL
        BY <1>3, <3>1, OnePage
      <4>2. \A p \in Pages : owner[p] \in Blocks \cup {"free", "others"}
        BY <1>1 DEF Typed
      <4>3. \A p \in Pages :
              owner[p] \notin {"mbr_buf", "buf", "partition", "dir_buf"}
        BY <1>1, <1>2, <4>1 DEF Buffers, Holdings
      <4> QED BY <3>2, <4>2, <4>3 DEF Blocks
    <3>4. owner[0] = "info" /\ owner[1] = "info" /\ 0 \in Pages /\ 1 \in Pages
      BY <3>1, <3>3 DEF EnoughMemory
    <3> QED BY <3>4 DEF Holdings
  <2>4. Mounting'
    BY <1>2, <1>3, <2>1, <2>3 DEF Mounting, EnoughMemory, memory
  <2> QED BY <2>2, <2>4 DEF Sound
<1>5. CASE FirstFit(1) # NULL
  <2>1. pc' = "boot_read"
    BY <1>5 DEF ReadBoot
  <2>2. PICK area : /\ AllocAndRead("buf", area, 1)
                    /\ LbaKnown => area = "boot"
    BY <1>5 DEF ReadBoot
  <2>3. "buf" \in Blocks /\ {"partition", "info"} \subseteq Blocks \ {"buf"}
    BY DEF Blocks
  <2>4. /\ addr'["partition"] = addr["partition"] /\ addr'["info"] = addr["info"]
        /\ addr'["buf"] \in Pages
        /\ read' = [phase |-> "called", block |-> "buf", area |-> area,
                    sectors |-> 1, slot |-> NoSlot]
    BY <1>1, <2>2, <2>3, AllocAndReadSector DEF Running
  <2>5. PortIdle'
    BY <1>2, <1>3, <2>1, <2>4 DEF PortIdle
  <2>6. disk.signed => area = "boot"
    BY <1>3, <2>2, OnePage DEF LbaKnown
  <2>7. Sectors'
    BY <1>2, <1>3, <2>1, <2>4, <2>6 DEF Sectors, Arrived
  <2>8. Mounting'
    BY <1>3, <2>1, <2>4 DEF Mounting
  <2> QED BY <2>5, <2>7, <2>8 DEF Sound
<1> QED BY <1>4, <1>5

LEMMA SoundCheckBoot ==
  ASSUME Inv, Holdings, Sound, CheckBoot
  PROVE  Sound'
<1>1. Typed /\ Buffers /\ PortIdle /\ Sectors /\ Mounting
  BY DEF Inv, Sound
<1>2. /\ pc = "boot_read" /\ read.phase = "returned"
      /\ UNCHANGED <<read, ci, tfes, disk>>
  BY DEF CheckBoot, port
<1>3. PICK fat32 \in Verdicts("buf", "boot", disk.fat32, BOOLEAN) :
        /\ addr'["partition"] = IF fat32 THEN FirstFit(1) ELSE NULL
        /\ pc' = IF addr'["partition"] = NULL THEN "main" ELSE "root"
        /\ \A p \in Pages :
             addr'["partition"] = NULL /\ owner[p] = "others" => owner'[p] = "others"
  BY CheckBootMemory
<1>4. PortIdle'
  BY <1>1, <1>2, <1>3 DEF PortIdle
<1>5. Sectors'
  BY <1>3 DEF Sectors
<1>6. disk.signed => fat32 = disk.fat32
  <2>1. disk.signed => Data("buf") = <<"boot", 0>>
    BY <1>1, <1>2 DEF Sectors, Arrived
  <2> QED BY <1>3, <2>1 DEF Verdicts
<1>7. ASSUME disk.signed, disk.fat32, EnoughMemory', FirstFit(1) = NULL
      PROVE  FALSE
  <2>1. addr'["partition"] = NULL
    BY <1>3, <1>7
  <2>2. \A p \in 0 .. 2 : p \in Pages /\ owner[p] # "others"
    BY <1>3, <1>7, <2>1 DEF EnoughMemory
  <2>3. \A p \in Pages : owner[p] # "free"
    BY <1>7, NoneFree
  <2>4. addr["info"] # NULL
    BY <1>1, <1>2, <1>7, OnePage DEF Sectors
  <2>5. \A p \in Pages : owner[p] \in Blocks \cup {"free", "others"}
    BY <1>1 DEF Typed
  <2>6. \A p \in Pages : owner[p] \notin {"mbr_buf", "partition", "dir_buf"}
    BY <1>1, <1>2, <2>4 DEF Buffers, Holdings
  <2>7. \A p \in 0 .. 2 : owner[p] \in {"info", "buf"}
    BY <2>2, <2>3, <2>5, <2>6 DEF Blocks
  <2>8. \A p \in 0 .. 2 : p = addr["info"] \/ p = addr["buf"]
    BY <2>2, <2>7 DEF Holdings
  <2> QED BY <2>8
<1>8. Mounting'
  BY <1>2, <1>3, <1>6, <1>7 DEF Mounting
<1> QED BY <1>4, <1>5, <1>8 DEF Sound

LEMMA SoundRoot ==
  ASSUME Inv, Sound, ReadRoot \/ ListRoot
  PROVE  Sound'
<1>1. Typed /\ PortIdle /\ Sectors /\ Mounting
  BY DEF Inv, Sound
<1>2. CASE ReadRoot
  <2>1. /\ pc = "root" /\ pc' = "root_read" /\ UNCHANGED <<ci, tfes, disk>>
    BY <1>2 DEF ReadRoot, port
  <2>2. PICK sectors : AllocAndRead("dir_buf", "root", sectors)
    BY <1>2 DEF ReadRoot
  <2>3. /\ read'.slot = NoSlot /\ addr'["partition"] = addr["partition"]
    BY <1>1, <2>2 DEF AllocAndRead, Typed, Blocks
  <2>4. ci = {} /\ ~ tfes
    BY <1>1, <2>1 DEF PortIdle
  <2>5. PortIdle' /\ Sectors'
    BY <2>1, <2>4 DEF PortIdle, Sectors
  <2>6. Mounting'
    BY <1>1, <2>1, <2>3 DEF Mounting
  <2> QED BY <2>5, <2>6 DEF Sound
<1>3. CASE ListRoot
  <2>1. /\ pc = "root_read" /\ pc' = "main" /\ read.phase = "returned"
        /\ UNCHANGED <<read, ci, tfes, disk, memory>>
    BY <1>3 DEF ListRoot, port
  <2>2. PortIdle' /\ Sectors'
    BY <1>1, <2>1 DEF PortIdle, Sectors
  <2>3. Mounting'
    BY <1>1, <2>1 DEF Mounting, memory
  <2> QED BY <2>2, <2>3 DEF Sound
<1> QED BY <1>2, <1>3

LEMMA MountingStep == MInv /\ [Next]_vars => MInv'
<1> SUFFICES ASSUME MInv, [Next]_vars PROVE MInv'
  OBVIOUS
<1>1. /\ Inv /\ PortReady /\ Holdings
      /\ Running /\ ~ stopped => Sound
  BY DEF MInv
<1>2. Inv'
  BY <1>1, StepInv
<1>3. CASE UNCHANGED vars
  <2>1. PortReady' /\ Holdings' /\ (Running /\ ~ stopped => Sound)'
    BY <1>1, <1>3 DEF vars, port, memory, PortReady, Holdings, Running, Sound,
       PortIdle, Sectors, Arrived, Data, Mounting, EnoughMemory
  <2> QED BY <1>2, <2>1 DEF MInv
<1>4. CASE Next
  <2>1. PortReady'
    BY <1>1, <1>4 DEF PortReady, Next, StartUp, ReadStep, Walk, Probe,
       Probed, ReadMbr, CheckMbr, ReadBoot, CheckBoot, ReadRoot, ListRoot,
       Prepare, GiveUp, Issue, Finish, Ready, Complete, Fail, port
  <2>2. Holdings'
    <3>1. CASE StartUp
      BY <1>1, <1>4, <3>1, HoldingsStep DEF Next
    <3>2. CASE ReadStep \/ Ready \/ Complete \/ Fail
      <4>1. UNCHANGED <<pc, owner, addr, fault>>
        BY <3>2 DEF ReadStep, Prepare, GiveUp, Issue, Finish, Ready, Complete,
           Fail, memory
      <4> QED BY <1>1, <4>1 DEF Holdings
    <3> QED BY <1>4, <3>1, <3>2 DEF Next
  <2>3. ASSUME Running', ~ stopped'
        PROVE  Sound'
    <3>1. ~ stopped
      BY <1>4, <2>3 DEF Next, StartUp, ReadStep, Walk, Probe, Probed,
         ReadMbr, CheckMbr, ReadBoot, CheckBoot, ReadRoot, ListRoot, Prepare,
         GiveUp, Issue, Finish, Ready, Complete, Fail, port
    <3>2. Sound
      BY <1>1, <1>4, <3>1 DEF Next
    <3>3. CASE ReadStep
      BY <1>1, <3>2, <3>3, SoundReadStep
    <3>4. CASE Ready \/ Complete \/ Fail
      BY <1>1, <2>3, <3>2, <3>4, SoundPortStep
    <3>5. CASE Walk \/ Probe \/ Probed
      <4>1. /\ UNCHANGED <<read, port, memory>>
            /\ pc = "pci" /\ pc' \in {"pci", "mbr"}
        BY <3>5 DEF Walk, Probe, Probed
      <4> QED BY <3>2, <4>1 DEF Sound, PortIdle, Sectors, Mounting, port, memory
    <3>6. CASE ReadMbr
      BY <1>1, <2>3, <3>2, <3>6, SoundReadMbr
    <3>7. CASE CheckMbr
      BY <1>1, <2>3, <3>2, <3>7, SoundCheckMbr
    <3>8. CASE ReadBoot
      BY <1>1, <2>3, <3>2, <3>8, SoundReadBoot
    <3>9. CASE CheckBoot
      BY <1>1, <3>2, <3>9, SoundCheckBoot
    <3>10. CASE ReadRoot \/ ListRoot
      BY <1>1, <3>2, <3>10, SoundRoot
    <3> QED BY <1>4, <3>3, <3>4, <3>5, <3>6, <3>7, <3>8, <3>9, <3>10
            DEF Next, StartUp
  <2> QED BY <1>2, <2>1, <2>2, <2>3 DEF MInv
<1> QED BY <1>3, <1>4

(* However late a port that is ready and reports no error answers, however *)
(* much memory there is, and although each read of a sector overwrites the *)
(* page behind its own: the first partition of a disk with an MBR is       *)
(* mounted only if it has a FAT32 boot sector, and if it has one and there *)
(* is room for the three blocks, it is mounted.                            *)
THEOREM MountsRight == Spec => MountsWhatIsThere
<1>1. MInv => MountedRight
  BY DEF MInv, Holdings, Running, Sound, Mounting, MountedRight
<1> QED BY <1>1, InitMounting, MountingStep, PTL DEF Spec, MountsWhatIsThere
=============================================================================
