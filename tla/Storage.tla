------------------------------ MODULE Storage ------------------------------
(***************************************************************************)
(* The storage part of start-up, bootpack.c 162 to 180: the PCI functions, *)
(* the drives on the ports of the AHCI controllers among them, and, on the *)
(* first drive, the three reads of init_mbr and new_fat32_partition.       *)
(*                                                                         *)
(* The port of that drive is external.  It answers a command late, with    *)
(* an error, after which it executes no other, or it is busy, perhaps for  *)
(* good.  Memory is in pages of eight sectors; what a read of them means   *)
(* to its reader is all that is kept of their content.  read_drive returns *)
(* nothing, so that callers use the page whether the read succeeded or not.*)
(***************************************************************************)
EXTENDS PciWalk

CONSTANTS Ports,      \* ports of a controller
          MAX_DRIVES, \* 128
          SLOTS,      \* 32
          PAGES,      \* bound: pages of memory
          Clusters    \* sectors per cluster of FAT file systems

ASSUME StorageAssumption ==
  /\ {MAX_DRIVES, SLOTS, PAGES} \subseteq Nat \ {0}
  /\ Ports \in Nat
  /\ Clusters \subseteq Nat \ {0}

VARIABLES pc,        \* where MyOSMain is
          probed,    \* PCI functions it has asked for their class
          drives,    \* drive_ctl->count
          read,      \* the call of read_lba48 in progress, and where it is
          sact, ci,  \* registers of the port: slots in use
          tfes,      \* bit HBA_PxIS_TFES of is
          busy,      \* ATA_DEV_BUSY or ATA_DEV_DRQ in tfd
          stopped,   \* an error has stopped the port's execution
          disk,      \* what is on the drive
          owner,     \* of each page
          content,   \* of each page
          addr,      \* the local variables that point to blocks
          fault

port == <<sact, ci, tfes, busy, stopped, disk>>
memory == <<owner, content, addr>>
vars == <<pci, pc, probed, drives, read, port, memory, fault>>

Slots == 0 .. SLOTS - 1
Pages == 0 .. PAGES - 1
NULL == -1
NoSlot == -1

Blocks == {"mbr_buf", "info", "buf", "partition", "dir_buf"}

Idle == [phase |-> "idle", block |-> "mbr_buf", area |-> "mbr",
         sectors |-> 0, slot |-> NoSlot]

-----------------------------------------------------------------------------
(* Memory: memman_alloc_4k and memman_free_4k, of whole pages. *)

Extent(a, n) == a .. a + n - 1

PagesFor(sectors) == (sectors + 7) \div 8

Fitting(n) == {a \in Pages : /\ Extent(a, n) \subseteq Pages
                             /\ \A p \in Extent(a, n) : owner[p] = "free"}

\* NULL if there is no room.
FirstFit(n) == IF Fitting(n) = {} THEN NULL
               ELSE CHOOSE a \in Fitting(n) : \A b \in Fitting(n) : a <= b

\* The owners of pages once block b of n pages is allocated at a.
Given(b, a, n) == [p \in Pages |-> IF a # NULL /\ p \in Extent(a, n)
                                   THEN b ELSE owner[p]]

Freed(own, b) == [p \in Pages |-> IF own[p] = b THEN "free" ELSE own[p]]

-----------------------------------------------------------------------------
(* The numbers of a read. *)

\* What read_drive passes for the number of sectors it is asked to read.
PassedCount(sectors) == (sectors * 512) \div 2

\* Entries of the command's table, each but the last of 16 sectors.
PrdtEntries(count) == (count - 1) \div 16 + 1

\* What is left of count when it is put into the command.
CommandCount(count) == count - 16 * (PrdtEntries(count) - 1)

SectorsRead(sectors) == CommandCount(PassedCount(sectors))

-----------------------------------------------------------------------------
(* read_lba48. *)

FreeSlots == {s \in Slots : s \notin sact \cup ci}

Returned == read' = [read EXCEPT !.phase = "returned"]

\* Clears the port's status and prepares a command in a free slot.
Prepare ==
  /\ read.phase = "called"
  /\ tfes' = FALSE
  /\ IF FreeSlots = {} THEN Returned
     ELSE read' = [read EXCEPT
            !.phase = "prepared",
            !.slot = CHOOSE s \in FreeSlots : \A u \in FreeSlots : s <= u]
  /\ UNCHANGED <<pci, pc, probed, drives, sact, ci, busy, stopped, disk,
                 memory, fault>>

(* Mutant: it waits for the port however long it takes. *)
WaitsForGood == FALSE

\* A port busy for a million reads of its status is taken for hung.
Hung == busy

GiveUp ==
  /\ read.phase = "prepared" /\ Hung
  /\ Returned
  /\ UNCHANGED <<pci, pc, probed, drives, port, memory, fault>>

Issue ==
  /\ read.phase = "prepared" /\ ~ busy
  /\ ci' = ci \cup {read.slot}
  /\ read' = [read EXCEPT !.phase = "issued"]
  /\ UNCHANGED <<pci, pc, probed, drives, sact, tfes, busy, stopped, disk,
                 memory, fault>>

(* Mutant: the command is not waited for. *)
NotAwaited == TRUE

\* The loop ends when the command is gone from ci or an error is reported.
Completed == read.slot \notin ci \/ tfes

Finish ==
  /\ read.phase = "issued" /\ Completed
  /\ Returned
  /\ UNCHANGED <<pci, pc, probed, drives, port, memory, fault>>

ReadStep == Prepare \/ GiveUp \/ Issue \/ Finish

-----------------------------------------------------------------------------
(* The port and its drive. *)

Ready ==
  /\ busy /\ busy' = FALSE
  /\ UNCHANGED <<pci, pc, probed, drives, read, sact, ci, tfes, stopped, disk,
                 memory, fault>>

\* The pages that the command transfers to.
Target == Extent(addr[read.block], PagesFor(SectorsRead(read.sectors)))

Executing == read.phase = "issued" /\ read.slot \in ci /\ ~ stopped

Complete ==
  /\ Executing
  /\ ci' = ci \ {read.slot}
  /\ content' = [p \in Pages |-> IF p \in Target
                                 THEN <<read.area, p - addr[read.block]>>
                                 ELSE content[p]]
  /\ UNCHANGED <<pci, pc, probed, drives, read, sact, tfes, busy, stopped,
                 disk, owner, addr, fault>>

Fail ==
  /\ Executing
  /\ tfes' = TRUE
  /\ stopped' = TRUE
  /\ UNCHANGED <<pci, pc, probed, drives, read, sact, ci, busy, disk, memory,
                 fault>>

-----------------------------------------------------------------------------
(* MyOSMain. *)

Walk ==
  /\ pc = "pci" /\ CheckDevice
  /\ UNCHANGED <<pc, probed, drives, read, port, memory, fault>>

(* Mutant: the table of drives is not checked for room. *)
NeverFull(n) == FALSE

\* add_drive asserts room for each of the n drives it is called for.
TableFull(n) == drives + n > MAX_DRIVES

(* get_class_and_subclass of the next function and, for a controller,      *)
(* init_ahci, which registers the drives on its ports.                     *)
Probe ==
  /\ pc = "pci" /\ Walked /\ probed < Len(functions)
  /\ probed' = probed + 1
  /\ CASE Class(functions[probed + 1]) = "bridge" ->
            fault' = "assert" /\ UNCHANGED drives
       [] Class(functions[probed + 1]) = "ahci" ->
            \E sata \in 0 .. Ports :
               IF TableFull(sata)
               THEN fault' = "assert" /\ UNCHANGED drives
               ELSE drives' = drives + sata /\ UNCHANGED fault
       [] OTHER -> UNCHANGED <<drives, fault>>
  /\ UNCHANGED <<pci, pc, read, port, memory>>

Probed ==
  /\ pc = "pci" /\ Walked /\ probed = Len(functions)
  /\ pc' = "mbr"
  /\ UNCHANGED <<pci, probed, drives, read, port, memory, fault>>

(* Allocates block b for so many sectors and calls read_drive on it.  No   *)
(* drive means that drives[0] is raw memory; no block, that the read       *)
(* overwrites what is at address 0.                                        *)
AllocAndRead(b, area, sectors) ==
  LET a == FirstFit(PagesFor(sectors))
  IN  /\ owner' = Given(b, a, PagesFor(sectors))
      /\ addr' = [addr EXCEPT ![b] = a]
      /\ read' = [phase |-> "called", block |-> b, area |-> area,
                  sectors |-> sectors, slot |-> NoSlot]
      /\ fault' \in IF drives = 0 THEN {"assert", "wild_port"}
                    ELSE IF a = NULL THEN {"null_buffer"} ELSE {"none"}
      /\ UNCHANGED content

Data(b) == content[addr[b]]

\* What a test of a page says: the truth if the page was read, else anything.
Verdicts(b, area, truth, all) ==
  IF Data(b) = <<area, 0>> THEN {truth} ELSE all

\* The buffer of init_mbr holds the MBR.
MbrRead == Data("mbr_buf") = <<"mbr", 0>>

ReadMbr ==
  /\ pc = "mbr" /\ pc' = "mbr_read"
  /\ AllocAndRead("mbr_buf", "mbr", 1)
  /\ UNCHANGED <<pci, probed, drives, port>>

(* The rest of init_mbr.  Without the signature it returns NULL, and keeps *)
(* its buffer; what it copies is the partition table if the MBR was read.  *)
CheckMbr ==
  /\ pc = "mbr_read" /\ read.phase = "returned"
  /\ pc' = "boot"
  /\ \E signed \in Verdicts("mbr_buf", "mbr", disk.signed, BOOLEAN) :
       IF ~ signed THEN UNCHANGED <<memory, fault>>
       ELSE LET a == FirstFit(1)
            IN  /\ owner' = Freed(Given("info", a, 1), "mbr_buf")
                /\ addr' = [addr EXCEPT !["info"] = a]
                /\ content' = [p \in Pages |-> IF p # a THEN content[p]
                                               ELSE IF MbrRead THEN <<"info", 0>>
                                               ELSE <<"raw", 0>>]
                /\ fault' = IF a = NULL THEN "null_buffer" ELSE "none"
  /\ UNCHANGED <<pci, probed, drives, read, port>>

\* The lba that MyOSMain takes from the table is the partition's.
LbaKnown == addr["info"] # NULL /\ Data("info") = <<"info", 0>>

ReadBoot ==
  /\ pc = "boot"
  /\ IF FirstFit(1) = NULL
     THEN pc' = "main" /\ UNCHANGED <<memory, read, fault>>
     ELSE /\ pc' = "boot_read"
          /\ AllocAndRead("buf",
               IF LbaKnown THEN "boot" ELSE "wild", 1)
  /\ UNCHANGED <<pci, probed, drives, port>>

(* Mutant: a sector that is no FAT32 boot sector stays in its buffer. *)
KeepBuf(own) == own

FreeBuf(own) == Freed(own, "buf")

\* The checks of new_fat32_partition up to the allocation of the partition.
CheckBoot ==
  /\ pc = "boot_read" /\ read.phase = "returned"
  /\ \E fat32 \in Verdicts("buf", "boot", disk.fat32, BOOLEAN) :
       LET a == IF fat32 THEN FirstFit(1) ELSE NULL
       IN  /\ pc' = IF a = NULL THEN "main" ELSE "root"
           /\ addr' = [addr EXCEPT !["partition"] = a]
           /\ owner' = FreeBuf(Given("partition", a, 1))
  /\ UNCHANGED <<pci, probed, drives, read, port, content, fault>>

\* list_directories; the cluster's size is what the boot sector said.
ReadRoot ==
  /\ pc = "root" /\ pc' = "root_read"
  /\ \E sectors \in Verdicts("buf", "boot", disk.clusters, Clusters) :
       AllocAndRead("dir_buf", "root", sectors)
  /\ UNCHANGED <<pci, probed, drives, port>>

ListRoot ==
  /\ pc = "root_read" /\ read.phase = "returned"
  /\ pc' = "main"
  /\ UNCHANGED <<pci, probed, drives, read, port, memory, fault>>

StartUp ==
  \/ Walk \/ Probe \/ Probed
  \/ ReadMbr \/ CheckMbr \/ ReadBoot \/ CheckBoot \/ ReadRoot \/ ListRoot

-----------------------------------------------------------------------------
Init ==
  /\ PciInit
  /\ pc = "pci" /\ probed = 0 /\ drives = 0
  /\ read = Idle
  /\ sact \in SUBSET Slots /\ ci = {}
  /\ tfes = FALSE /\ busy \in BOOLEAN /\ stopped = FALSE
  /\ disk \in [signed : BOOLEAN, fat32 : BOOLEAN, clusters : Clusters]
  /\ \E n \in 0 .. PAGES :
       owner = [p \in Pages |-> IF p < n THEN "free" ELSE "others"]
  /\ content = [p \in Pages |-> <<"raw", 0>>]
  /\ addr = [b \in Blocks |-> NULL]
  /\ fault = "none"

Running == fault = "none"

Next == Running /\ (StartUp \/ ReadStep \/ Ready \/ Complete \/ Fail)

Spec == Init /\ [][Next]_vars

(* The main task executes; a port that is not stopped answers a command,   *)
(* in one way or the other.  Nothing says that a busy port gets ready.     *)
FairSpec ==
  /\ Spec
  /\ WF_vars(Running /\ (StartUp \/ ReadStep))
  /\ WF_vars(Running /\ (Complete \/ Fail))

-----------------------------------------------------------------------------
TypeOK ==
  /\ functions \in Seq([bus : 0 .. BUSES - 1, device : 0 .. DEVICES - 1,
                        function : Functions])
  /\ drives \in 0 .. MAX_DRIVES
  /\ read.slot \in Slots \cup {NoSlot}
  /\ read.phase \in {"idle", "called", "prepared", "issued", "returned"}
  /\ ci \subseteq Slots /\ sact \subseteq Slots
  /\ owner \in [Pages -> Blocks \cup {"free", "others"}]
  /\ addr \in [Blocks -> Pages \cup {NULL}]
  /\ fault \in {"none", "assert", "wild_port", "null_buffer"}

(* The three longest-lived blocks of start-up can be had. *)
EnoughMemory == \A p \in 0 .. 2 : p \in Pages /\ owner[p] # "others"

PortReady == ~ busy /\ sact # Slots

MountedRight ==
  pc = "main" /\ disk.signed /\ ~ stopped =>
    /\ addr["partition"] # NULL => disk.fat32
    /\ EnoughMemory /\ disk.fat32 => addr["partition"] # NULL

(* The first partition is mounted if and only if it has a FAT32 boot       *)
(* sector, on a disk with an MBR and a port that is ready, has a slot free *)
(* and reports no error: however late it answers, no page is looked at     *)
(* before the sector asked for is in it, and no read into a page that was  *)
(* given back, or behind the one asked for, changes what is found.  If     *)
(* memory is short it may not be mounted.  A port that is busy or fails is *)
(* left out, as the code then looks at what memory held before.            *)
MountsWhatIsThere == PortReady => []MountedRight

(* Of the two buffers for single sectors none is left when start-up ends,  *)
(* whichever of the checks failed and whatever memory there was, but for   *)
(* the one that init_mbr keeps when there is no signature.                 *)
BuffersReturned ==
  pc = "main" => \A p \in Pages :
                    /\ owner[p] # "buf"
                    /\ owner[p] = "mbr_buf" => addr["info"] = NULL

(* Unless a port has stopped on an error (the next command then waits for  *)
(* good), start-up comes to its end: no loop on a register of a port that  *)
(* stays busy or answers late is without one.                              *)
StartsUp == <>(pc = "main" \/ stopped \/ ~ Running)

(* "Read n bytes": the port writes to the block that the read was given,   *)
(* and to no page that anybody else holds.                                 *)
ReadsStayInside ==
  [][\A p \in Pages :
       read.phase = "issued" /\ content'[p] # content[p] =>
          owner[p] \in {read.block, "free"}]_vars
=============================================================================
