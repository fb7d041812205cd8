------------------------------ MODULE PciWalk ------------------------------
(***************************************************************************)
(* The enumeration of PCI functions of device/pci/pci.c.  The              *)
(* configuration space, read through two ports, is external: at each place *)
(* of a device it answers as the device there does, or not at all.         *)
(***************************************************************************)
EXTENDS Integers, Sequences, FiniteSets, Functions

CONSTANTS BUSES, DEVICES, FUNCTIONS,  \* 256, 32, 8
          Kinds   \* the devices, and the absence of one, a place may hold

Functions == 0 .. FUNCTIONS - 1
Places == 0 .. BUSES * DEVICES - 1

\* A device's functions; whether its header says that it has several; whether
\* it has only one, which answers whatever function is asked; their classes.
ASSUME KindsAssumption ==
  /\ BUSES \in Nat \ {0} /\ DEVICES \in Nat \ {0} /\ FUNCTIONS \in Nat \ {0}
  /\ \A k \in Kinds :
       /\ k.functions \subseteq Functions
       /\ k.functions # {} => 0 \in k.functions
       /\ k.multi <=> k.functions \ {0} # {}
       /\ k.echoes => k.functions = {0}
       /\ k.class \in [Functions -> {"ahci", "bridge", "other"}]

VARIABLES config,     \* what each place holds
          at,         \* the place that check_all_buses looks at next
          functions   \* pci_ctl->functions, count of them

pci == <<config, at, functions>>

\* get_vendor_id(bus, device, f) != 0xFFFF
Answers(k, f) == f \in k.functions \/ k.echoes

(* Mutant: the header type is not looked at. *)
check_all_functions(k) ==
  IF Answers(k, 0) THEN {f \in Functions : Answers(k, f)} ELSE {}

check_device_functions(k) ==
  IF ~ Answers(k, 0) THEN {}
  ELSE {0} \cup {f \in Functions \ {0} : k.multi /\ Answers(k, f)}

(* The table's entry for a function of the device at a place. *)
Entry(p, f) ==
  [bus |-> p \div DEVICES, device |-> p % DEVICES, function |-> f]

\* The loop meets the functions of a device in this order.
Ascending(S) ==
  CHOOSE s \in [1 .. Cardinality(S) -> S] :
    \A n, m \in 1 .. Cardinality(S) : n < m => s[n] < s[m]

(* One turn of the loop over devices. *)
CheckDevice ==
  /\ at \in Places
  /\ LET found == Ascending(check_device_functions(config[at]))
     IN  functions' =
           functions \o [n \in DOMAIN found |-> Entry(at, found[n])]
  /\ at' = at + 1
  /\ UNCHANGED config

Walked == at \notin Places

PciInit == config \in [Places -> Kinds] /\ at = 0 /\ functions = << >>

(* get_class_and_subclass, of a function in the table. *)
Class(e) == config[e.bus * DEVICES + e.device].class[e.function]

-----------------------------------------------------------------------------
(* The table lists every function that is there on the places passed, and  *)
(* no other, once each: a device that answers for functions it does not    *)
(* have is entered once, the second function of one that has two is not    *)
(* missed.                                                                 *)
FunctionsFound ==
  /\ \A n, m \in DOMAIN functions : functions[n] = functions[m] => n = m
  /\ Range(functions) =
       UNION {{Entry(p, f) : f \in config[p].functions} :
                 p \in {q \in Places : q < at}}
=============================================================================
