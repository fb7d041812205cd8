----------------------------- MODULE Layers_proofs -----------------------------
(***************************************************************************)
(* The start-up of Boot and Layers, for every disk, number of retries,     *)
(* memory and screen: what the kernel finds of the disk, and what the      *)
(* keyboard controller gets, does not depend on failed reads or on how     *)
(* late the controller is; the blocks of memory that start-up uses are     *)
(* apart; and the layers made of them are the picture of Picture.          *)
(***************************************************************************)
EXTENDS Layers, SequenceTheorems, TLAPS

-----------------------------------------------------------------------------
(* Arithmetic of sectors. *)

ValidSector(s) ==
  /\ s = Sector(s.cylinder, s.head, s.sector)
  /\ s.cylinder \in 0 .. CYLS - 1
  /\ s.head \in 0 .. HEADS - 1
  /\ s.sector \in 1 .. SECTORS

LEMMA Monotone ==
  ASSUME NEW a \in Int, NEW b \in Int, a <= b, NEW n \in Nat
  PROVE  a * n <= b * n
<1>1. (b - a) * n >= 0
  OBVIOUS
<1>2. (b - a) * n = b * n - a * n
  OBVIOUS
<1>3. a * n \in Int /\ b * n \in Int
  OBVIOUS
<1> QED BY <1>1, <1>2, <1>3

\* A sector of the cylinders that are read has its place in the cache.
LEMMA NumberInside ==
  ASSUME NEW s, ValidSector(s)
  PROVE  Number(s) \in Cached
<1> DEFINE c == s.cylinder
           h == s.head
<1>1. /\ CYLS \in Nat /\ HEADS \in Nat /\ SECTORS \in Nat
      /\ c \in Nat /\ c + 1 <= CYLS /\ h \in Nat /\ h + 1 <= HEADS
      /\ s.sector \in 1 .. SECTORS
  BY BootAssumption DEF ValidSector
<1> HIDE DEF c, h
<1>2. (c + 1) * HEADS <= CYLS * HEADS
  BY <1>1, Monotone
<1>3. (c + 1) * HEADS = c * HEADS + HEADS /\ c * HEADS \in Nat
  BY <1>1
<1>4. c * HEADS + h + 1 <= CYLS * HEADS /\ CYLS * HEADS \in Nat
  BY <1>1, <1>2, <1>3
<1> DEFINE t == c * HEADS + h
<1>5. t \in Nat /\ t + 1 <= CYLS * HEADS
  BY <1>1, <1>3, <1>4
<1>6. Number(s) = t * SECTORS + s.sector - 1
  BY DEF Number, c, h
<1> HIDE DEF t
<1>7. (t + 1) * SECTORS <= CYLS * HEADS * SECTORS
  BY <1>1, <1>4, <1>5, Monotone
<1>8. (t + 1) * SECTORS = t * SECTORS + SECTORS /\ t * SECTORS \in Nat
  BY <1>1, <1>5
<1>9. CYLS * HEADS * SECTORS \in Nat
  BY <1>1, <1>4
<1> QED BY <1>1, <1>6, <1>7, <1>8, <1>9 DEF Cached

\* readloop goes to the next place; after the last one, to cylinder CYLS.
LEMMA NextNumber ==
  ASSUME NEW s, ValidSector(s)
  PROVE  /\ Number(After(s)) = Number(s) + 1
         /\ \/ ValidSector(After(s))
            \/ /\ After(s).cylinder = CYLS
               /\ Number(After(s)) = CYLS * HEADS * SECTORS
<1> DEFINE c == s.cylinder
           h == s.head
           p == s.sector
<1>1. /\ CYLS \in Nat /\ HEADS \in Nat \ {0} /\ SECTORS \in Nat \ {0}
      /\ c \in 0 .. CYLS - 1 /\ h \in 0 .. HEADS - 1 /\ p \in 1 .. SECTORS
      /\ s = Sector(c, h, p)
  BY BootAssumption DEF ValidSector
<1>2. Number(s) = (c * HEADS + h) * SECTORS + p - 1
  BY DEF Number
<1>3. CASE OnTrack(s)
  <2>1. After(s) = Sector(c, h, p + 1)
    BY <1>1, <1>3 DEF After, Sector
  <2>2. p + 1 \in 1 .. SECTORS
    BY <1>1, <1>3 DEF OnTrack
  <2>3. ValidSector(After(s))
    BY <1>1, <2>1, <2>2 DEF ValidSector, Sector
  <2>4. Number(After(s)) = (c * HEADS + h) * SECTORS + (p + 1) - 1
    BY <2>1 DEF Number, Sector
  <2> QED BY <1>1, <1>2, <2>3, <2>4
<1>4. CASE ~ OnTrack(s) /\ h + 1 < HEADS
  <2>1. After(s) = Sector(c, h + 1, 1) /\ p = SECTORS
    BY <1>1, <1>4 DEF After, OnTrack
  <2>2. ValidSector(After(s))
    BY <1>1, <1>4, <2>1 DEF ValidSector, Sector
  <2>3. Number(After(s)) = (c * HEADS + (h + 1)) * SECTORS + 1 - 1
    BY <2>1 DEF Number, Sector
  <2>4. (c * HEADS + (h + 1)) * SECTORS = (c * HEADS + h) * SECTORS + SECTORS
    BY <1>1
  <2> QED BY <1>1, <1>2, <2>1, <2>2, <2>3, <2>4
<1>5. CASE ~ OnTrack(s) /\ ~ (h + 1 < HEADS)
  <2>1. After(s) = Sector(c + 1, 0, 1) /\ p = SECTORS /\ h = HEADS - 1
    BY <1>1, <1>5 DEF After, OnTrack
  <2>2. Number(After(s)) = ((c + 1) * HEADS + 0) * SECTORS + 1 - 1
    BY <2>1 DEF Number, Sector
  <2>3. ((c + 1) * HEADS + 0) * SECTORS
          = (c * HEADS + (HEADS - 1)) * SECTORS + SECTORS
    BY <1>1
  <2>4. Number(After(s)) = Number(s) + 1
    BY <1>1, <1>2, <2>1, <2>2, <2>3
  <2>5. CASE c + 1 < CYLS
    BY <1>1, <2>1, <2>4, <2>5 DEF ValidSector, Sector
  <2>6. CASE c + 1 = CYLS
    <3>1. After(s).cylinder = CYLS
      BY <2>1, <2>6 DEF Sector
    <3>2. Number(After(s)) = CYLS * HEADS * SECTORS
      BY <1>1, <2>2, <2>6
    <3> QED BY <2>4, <3>1, <3>2
  <2> QED BY <1>1, <2>5, <2>6
<1> QED BY <1>3, <1>4, <1>5

-----------------------------------------------------------------------------
(* The invariant. *)

Loading == {"read", "reset"}
Opening == {"video", "command", "gate", "copy"}
InKernel == {"kernel", "mode", "mode_byte", "mouse", "mouse_byte"}
SettingUp == {"layerctl", "buf", "struct", "content", "loop"}

Size == CYLS * HEADS * SECTORS

\* While the disk is read, every sector before the next one is in its place;
\* afterwards all are, but for the boot sector, which Copy takes from where
\* the BIOS loaded it.
Reading ==
  /\ ValidSector(chs) /\ es = Number(chs)
  /\ low \in [Cached -> Int]
  /\ \A n \in 1 .. es - 1 : low[n] = n

Read ==
  /\ cyls = CYLS
  /\ \A n \in 1 .. Size - 1 : low[n] = n

DiskInv ==
  /\ pc \in Loading => Reading
  /\ pc \in Opening => Read
  /\ pc \in InKernel \cup SettingUp \cup {"null"} => \A n \in Cached : high[n] = n

\* The controller has, or will have when it has taken what was written, the
\* command but not its byte; the command and its byte.
AwaitsByte(c) == kbc = c \/ (kbc = None /\ command = c)
Completes(c) == (kbc = Argument[c] /\ command = c) \/ (kbc = None /\ Done(c))

ControllerInv ==
  /\ pc = "gate" => AwaitsByte("WriteOutputPort")
  /\ pc = "copy" => Completes("WriteOutputPort")
  /\ pc = "mode_byte" => AwaitsByte("WriteMode")
  /\ pc = "mouse" => Completes("WriteMode")
  /\ pc = "mouse_byte" => AwaitsByte("SendToMouse") /\ Done("WriteMode")
  /\ pc \in SettingUp => Completes("SendToMouse") /\ Done("WriteMode")

Inv ==
  /\ pc \in Loading \cup Opening \cup InKernel \cup SettingUp \cup {"halted", "null"}
  /\ DiskInv
  /\ ControllerInv

LEMMA SizeIsNat == /\ Size \in Nat /\ Cached = 0 .. Size - 1
                   /\ CYLS \in Nat \ {0} /\ HEADS \in Nat \ {0}
                   /\ SECTORS \in Nat \ {0, 1}
<1>1. /\ CYLS \in Nat \ {0} /\ HEADS \in Nat \ {0}
      /\ SECTORS \in Nat \ {0, 1}
  BY BootAssumption
<1>2. CYLS * HEADS \in Nat
  BY <1>1
<1>3. CYLS * HEADS * SECTORS \in Nat
  BY <1>1, <1>2
<1> QED BY <1>1, <1>3 DEF Size, Cached

LEMMA InitInv == Init => Inv
<1> SUFFICES ASSUME BootInit PROVE Inv
  BY DEF Init
<1>1. chs = Sector(0, 0, 2) /\ es = 1 /\ low = [n \in Cached |-> Unwritten]
  BY DEF BootInit
<1>2. ValidSector(chs)
  BY <1>1, SizeIsNat DEF ValidSector, Sector
<1>3. Number(chs) = (0 * HEADS + 0) * SECTORS + 2 - 1
  BY <1>1 DEF Number, Sector
<1>4. (0 * HEADS + 0) * SECTORS = 0
  BY SizeIsNat
<1>5. Reading
  BY <1>1, <1>2, <1>3, <1>4 DEF Reading, Unwritten
<1>6. pc = "read"
  BY DEF BootInit
<1> QED BY <1>5, <1>6 DEF Inv, DiskInv, ControllerInv, Loading, Opening, InKernel,
             SettingUp

-----------------------------------------------------------------------------
(* The steps. *)

LEMMA ReadSectorInv == Inv /\ ReadSector => Inv'
<1> SUFFICES ASSUME Inv, ReadSector PROVE Inv'
  OBVIOUS
<1>1. Reading /\ pc = "read"
  BY DEF Inv, DiskInv, Loading, ReadSector, At
<1>2. /\ low' = [low EXCEPT ![es] = Number(chs)]
      /\ es' = es + 1 /\ chs' = After(chs)
      /\ IF chs'.cylinder < CYLS THEN UNCHANGED <<pc, cyls>>
         ELSE pc' = "video" /\ cyls' = chs'.cylinder
      /\ UNCHANGED <<high, controller>>
  BY DEF ReadSector, GoTo
<1>3. es \in Cached /\ es \in Nat
  BY <1>1, NumberInside, SizeIsNat DEF Reading
<1>4. Number(chs') = es'
  BY <1>1, <1>2, NextNumber DEF Reading
<1>5. low' \in [Cached -> Int] /\ \A n \in 1 .. es' - 1 : low'[n] = n
  <2>1. low' \in [Cached -> Int] /\ low'[es] = es
    BY <1>1, <1>2, <1>3 DEF Reading
  <2>2. \A n \in 1 .. es - 1 : low'[n] = n
    BY <1>1, <1>2, <1>3, SizeIsNat DEF Reading
  <2> QED BY <1>2, <1>3, <2>1, <2>2
<1>6. CASE ValidSector(chs')
  <2>1. chs'.cylinder < CYLS
    BY <1>6, SizeIsNat DEF ValidSector
  <2>2. Reading' /\ pc' = "read"
    BY <1>1, <1>2, <1>4, <1>5, <1>6, <2>1 DEF Reading, ValidSector
  <2> QED BY <2>2 DEF Inv, DiskInv, ControllerInv, Loading, Opening, InKernel,
            SettingUp
<1>7. CASE chs'.cylinder = CYLS /\ Number(chs') = Size
  <2>1. pc' = "video" /\ cyls' = CYLS /\ es' = Size
    BY <1>2, <1>4, <1>7, SizeIsNat
  <2>2. Read'
    BY <1>5, <2>1 DEF Read, Size
  <2> QED BY <2>1, <2>2 DEF Inv, DiskInv, ControllerInv, Loading, Opening,
            InKernel, SettingUp
<1> QED BY <1>1, <1>2, <1>6, <1>7, NextNumber DEF Reading, Size

LEMMA LoadingInv == Inv /\ (ReadFails \/ ResetDrive) => Inv'
<1> SUFFICES ASSUME Inv, ReadFails \/ ResetDrive PROVE Inv'
  OBVIOUS
<1>1. /\ pc \in Loading /\ pc' \in Loading \cup {"halted"}
      /\ UNCHANGED <<chs, es, low>>
  BY DEF ReadFails, ResetDrive, At, GoTo, Loading, boot, disk
<1>2. Reading'
  BY <1>1 DEF Inv, DiskInv, Reading
<1> QED BY <1>1, <1>2 DEF Inv, DiskInv, ControllerInv, Loading, Opening, InKernel,
          SettingUp

LEMMA SetVideoInv == Inv /\ SetVideo => Inv'
<1> SUFFICES ASSUME Inv, SetVideo PROVE Inv'
  OBVIOUS
<1>1. pc = "video" /\ pc' = "command" /\ UNCHANGED <<low, cyls>>
  BY DEF SetVideo, At, GoTo, disk
<1>2. Read'
  BY <1>1, SizeIsNat DEF Inv, DiskInv, Read, Size, Opening
<1> QED BY <1>1, <1>2 DEF Inv, DiskInv, ControllerInv, Loading, Opening, InKernel,
          SettingUp

\* A byte written to the controller leaves the rest alone.
LEMMA SendEffect ==
  ASSUME NEW here, NEW byte, NEW there, Send(here, byte, there)
  PROVE  /\ pc = here /\ pc' = there /\ kbc' = byte
         /\ UNCHANGED <<low, high, cyls, command, done>>
         /\ \A c : Done(c)' = Done(c)
  BY DEF Send, At, GoTo, disk, Done, Argument

LEMMA GateInv == Inv /\ (SendCommand \/ SendGate) => Inv'
<1> SUFFICES ASSUME Inv, SendCommand \/ SendGate PROVE Inv'
  OBVIOUS
<1>1. CASE SendCommand
  <2>1. /\ pc = "command" /\ pc' = "gate" /\ kbc' = "WriteOutputPort"
        /\ UNCHANGED <<low, cyls>>
    BY <1>1, SendEffect DEF SendCommand
  <2>2. Read'
    BY <2>1, SizeIsNat DEF Inv, DiskInv, Read, Size, Opening
  <2> QED BY <2>1, <2>2 DEF Inv, DiskInv, ControllerInv, AwaitsByte, Loading,
            Opening, InKernel, SettingUp
<1>2. CASE SendGate
  <2>1. /\ pc = "gate" /\ pc' = "copy" /\ kbc' = Argument["WriteOutputPort"]
        /\ UNCHANGED <<low, cyls, command>> /\ kbc = None
    BY <1>2, SendEffect DEF SendGate, Taken
  <2>2. Read'
    BY <2>1, SizeIsNat DEF Inv, DiskInv, Read, Size, Opening
  <2>3. command' = "WriteOutputPort"
    BY <2>1 DEF Inv, ControllerInv, AwaitsByte, None
  <2>4. Completes("WriteOutputPort")'
    BY <2>1, <2>3 DEF Completes, Argument
  <2> QED BY <2>1, <2>2, <2>4 DEF Inv, DiskInv, ControllerInv, Loading, Opening,
            InKernel, SettingUp
<1> QED BY <1>1, <1>2

LEMMA CopyInv == Inv /\ Copy => Inv'
<1> SUFFICES ASSUME Inv, Copy PROVE Inv'
  OBVIOUS
<1>1. pc = "copy" /\ pc' = "kernel" /\ kbc = None
  BY DEF Copy, At, GoTo, GateSet, Taken
<1>2. Read /\ Done("WriteOutputPort")
  BY <1>1 DEF Inv, DiskInv, ControllerInv, Opening, Completes, Argument, None
<1>3. high' = [n \in Cached |-> IF n < Size THEN CopyOf(n) ELSE high[n]]
  BY <1>2 DEF Copy, Read, Size
<1>4. CopyOf(0) = 0
  <2>1. CopyOf(0) = (0 * HEADS + 0) * SECTORS + 1 - 1
    BY DEF CopyOf, Number, Sector
  <2>2. (0 * HEADS + 0) * SECTORS = 0
    BY SizeIsNat
  <2> QED BY <2>1, <2>2
<1>5. \A n \in Cached \ {0} : CopyOf(n) = n
  BY <1>2, SizeIsNat DEF CopyOf, Read
<1>6. \A n \in Cached : high'[n] = n
  BY <1>3, <1>4, <1>5, SizeIsNat
<1> QED BY <1>1, <1>6 DEF Inv, DiskInv, ControllerInv, Loading, Opening, InKernel,
          SettingUp

\* The controller takes a byte at any time.
LEMMA ControllerTakesInv == Inv /\ ControllerTakes => Inv'
<1> SUFFICES ASSUME Inv, ControllerTakes PROVE Inv'
  OBVIOUS
<1>1. /\ UNCHANGED <<pc, chs, es, low, high, cyls>>
      /\ kbc # None /\ kbc' = None
      /\ IF kbc \in DOMAIN Argument
         THEN command' = kbc /\ UNCHANGED done
         ELSE /\ command' = None
              /\ done' = IF command = None THEN done
                         ELSE done \cup {<<command, kbc>>}
  BY DEF ControllerTakes, disk
<1>2. DOMAIN Argument = {"WriteOutputPort", "WriteMode", "SendToMouse"}
  BY DEF Argument
<1>3. ASSUME NEW c \in DOMAIN Argument, AwaitsByte(c)
      PROVE  AwaitsByte(c)'
  BY <1>1, <1>3 DEF AwaitsByte
<1>4. ASSUME NEW c \in DOMAIN Argument, Completes(c)
      PROVE  Completes(c)'
  <2>1. kbc = Argument[c] /\ command = c
    BY <1>1, <1>4 DEF Completes
  <2>2. kbc \notin DOMAIN Argument /\ command # None
    BY <1>2, <2>1 DEF Argument, None
  <2>3. <<c, Argument[c]>> \in done'
    BY <1>1, <2>1, <2>2
  <2> QED BY <1>1, <2>3 DEF Completes, Done, Argument
<1>5. ASSUME NEW c, Done(c)
      PROVE  Done(c)'
  BY <1>1, <1>5 DEF Done, Argument
<1>6. DiskInv'
  BY <1>1 DEF Inv, DiskInv, Reading, Read
<1>7. ControllerInv'
  BY <1>1, <1>2, <1>3, <1>4, <1>5 DEF Inv, ControllerInv
<1> QED BY <1>1, <1>6, <1>7 DEF Inv

LEMMA DevicesInv == Inv /\ Devices => Inv'
<1> SUFFICES ASSUME Inv, Devices PROVE Inv'
  OBVIOUS
<1> USE DEF Inv, DiskInv, ControllerInv, Loading, Opening, InKernel, SettingUp
<1>1. CASE SendMode
  BY <1>1, SendEffect DEF SendMode, AwaitsByte
<1>2. CASE SendModeByte
  <2>1. /\ pc = "mode_byte" /\ pc' = "mouse" /\ kbc' = Argument["WriteMode"]
        /\ high' = high /\ command' = command /\ kbc = None
    BY <1>2, SendEffect DEF SendModeByte, wait_KBC_sendready, Taken
  <2>2. command' = "WriteMode"
    BY <2>1 DEF AwaitsByte, None
  <2>3. Completes("WriteMode")'
    BY <2>1, <2>2 DEF Completes, Argument
  <2> QED BY <2>1, <2>3
<1>3. CASE SendToMouse
  <2>1. /\ pc = "mouse" /\ pc' = "mouse_byte" /\ kbc' = "SendToMouse"
        /\ high' = high /\ Done("WriteMode")' = Done("WriteMode") /\ kbc = None
    BY <1>3, SendEffect DEF SendToMouse, wait_KBC_sendready, Taken
  <2>2. Done("WriteMode")
    BY <2>1 DEF Completes, Argument, None
  <2>3. AwaitsByte("SendToMouse")'
    BY <2>1 DEF AwaitsByte
  <2> QED BY <2>1, <2>2, <2>3
<1>4. CASE SendEnable
  <2>1. /\ pc = "mouse_byte" /\ pc' = "layerctl" /\ kbc' = Argument["SendToMouse"]
        /\ high' = high /\ command' = command /\ kbc = None
        /\ Done("WriteMode")' = Done("WriteMode")
    BY <1>4, SendEffect DEF SendEnable, wait_KBC_sendready, Taken
  <2>2. command' = "SendToMouse"
    BY <2>1 DEF AwaitsByte, None
  <2>3. Completes("SendToMouse")'
    BY <2>1, <2>2 DEF Completes, Argument
  <2> QED BY <2>1, <2>3
<1> QED BY <1>1, <1>2, <1>3, <1>4 DEF Devices

\* Every other step leaves the disk and the controller alone.
LEMMA OtherInv ==
  ASSUME Inv, UNCHANGED boot,
         \/ pc = "kernel" /\ pc' \in {"halted", "null", "mode"}
         \/ pc \in SettingUp /\ pc' \in SettingUp \cup {"null"}
         \/ pc' = pc
  PROVE  Inv'
<1>1. UNCHANGED <<chs, es, low, high, cyls, kbc, command, done>>
  BY DEF boot, disk, controller
<1>2. DiskInv'
  BY <1>1 DEF Inv, DiskInv, Reading, Read, Loading, Opening, InKernel, SettingUp
<1>3. \A c : /\ AwaitsByte(c)' = AwaitsByte(c)
            /\ Completes(c)' = Completes(c)
            /\ Done(c)' = Done(c)
  BY <1>1 DEF AwaitsByte, Completes, Done, Argument
<1>4. ControllerInv'
  BY <1>3 DEF Inv, ControllerInv, Loading, Opening, InKernel, SettingUp
<1> QED BY <1>2, <1>4 DEF Inv, Loading, Opening, InKernel, SettingUp

LEMMA StepInv == Inv /\ [Next]_vars => Inv'
<1> SUFFICES ASSUME Inv, [Next]_vars PROVE Inv'
  OBVIOUS
<1>1. CASE Boots
  BY <1>1, ReadSectorInv, LoadingInv, SetVideoInv, GateInv, CopyInv
     DEF Boots, BootStep
<1>2. CASE Answers
  BY <1>2, ControllerTakesInv DEF Answers
<1>3. CASE Devices /\ UNCHANGED picture
  BY <1>3, DevicesInv
<1>4. CASE AllocEarlier \/ AllocLayerctl \/ AllocBuf \/ AllocStruct
             \/ AllocContent \/ GiveUpLayer
  <2>1. UNCHANGED boot
    BY <1>4 DEF AllocEarlier, AllocLayerctl, AllocBuf, AllocStruct, AllocContent,
         GiveUpLayer
  <2>2. \/ pc = "kernel" /\ pc' \in {"halted", "null", "mode"}
        \/ pc \in SettingUp /\ pc' \in SettingUp \cup {"null"}
    BY <1>4 DEF AllocEarlier, AllocLayerctl, AllocBuf, AllocStruct, AllocContent,
         GiveUpLayer, At, GoTo, SettingUp
  <2> QED BY <2>1, <2>2, OtherInv
<1>5. CASE Redraw \/ Key \/ MouseReport \/ TaskBox \/ TaskText
  BY <1>5, OtherInv DEF Redraw, Key, MouseReport, TaskBox, TaskText
<1>6. CASE UNCHANGED vars
  BY <1>6, OtherInv DEF vars
<1> QED BY <1>1, <1>2, <1>3, <1>4, <1>5, <1>6 DEF Next, SetsUp

LEMMA Invariant == Spec => []Inv
<1> QED BY InitInv, StepInv, PTL DEF Spec

-----------------------------------------------------------------------------
(* For every disk, whichever reads fail and however late the keyboard      *)
(* controller is, the kernel finds every sector of the cylinders read at   *)
(* its own place: the retries of ipl10 lose and repeat none, and the copy  *)
(* of asmhead waits until the gate is open.                                *)
THEOREM DiskIsCached == Spec => []DiskCached
<1>1. Inv => DiskCached
  BY DEF Inv, DiskInv, DiskCached, Booting, Loading, Opening, InKernel, SettingUp
<1> QED BY <1>1, Invariant, PTL

(* However late the keyboard controller takes what is written to it,       *)
(* init_keyboard and enable_mouse turn both devices on.                    *)
THEOREM DevicesAreOn == Spec => []DevicesOn
<1>1. Inv => DevicesOn
  BY DEF Inv, ControllerInv, DevicesOn, Looping, Taken, Completes, SettingUp,
         Argument, None
<1> QED BY <1>1, Invariant, PTL

-----------------------------------------------------------------------------
(* The memory.  During start-up it is handed out from its beginning on, so *)
(* that what is free is the rest of it, in one piece; the struct of a      *)
(* layer is the last block handed out when the layer's content is asked    *)
(* for, and given back if there is no room for that.                       *)

Below(b, a) == b.addr + b.size <= a

HandedOut ==
  /\ free_num \in {0, 1}
  /\ free_num = 1 => /\ free_info[1].start \in Int /\ free_info[1].size \in Int
                     /\ \A b \in held : Below(b, free_info[1].start)

StructLast ==
  /\ struct.addr \in Int /\ struct.size = LAYER_SIZE
  /\ \A b \in held \ {struct} : Below(b, struct.addr)
  /\ free_num = 1 => free_info[1].start = struct.addr + struct.size

MemInv ==
  /\ \A b \in held : b.addr \in Int /\ b.size \in Int
  /\ NoSharing
  /\ pc \notin {"null", "halted"} =>
       free_info \in [1 .. free_num -> [start : Int, size : Int]] /\ HandedOut
  /\ pc = "content" => StructLast
  /\ pc \in {"command", "gate", "copy"} \cup InKernel \cup SettingUp =>
       vmode \in {"vbe", "vga"}

LEMMA RoundUpIsNat ==
  ASSUME NEW size \in Nat
  PROVE  Mem!RoundUp(size) \in Nat
<1> DEFINE q == (size + PageSize - 1) \div PageSize
<1>1. PageSize \in Nat \ {0}
  BY MemoryAssumption
<1>2. q \in Nat
  BY <1>1
<1> HIDE DEF q
<1>3. q * PageSize \in Nat
  BY <1>1, <1>2
<1> QED BY <1>3 DEF Mem!RoundUp, q

(* A block is taken from the beginning of the free piece, or none is.      *)
LEMMA AllocTakes ==
  ASSUME NEW size \in Nat, Mem!memman_alloc(size), HandedOut, NoSharing,
         free_info \in [1 .. free_num -> [start : Int, size : Int]],
         \A b \in held : b.addr \in Int /\ b.size \in Int
  PROVE  /\ \A b \in held' : b.addr \in Int /\ b.size \in Int
         /\ NoSharing' /\ HandedOut'
         /\ free_info' \in [1 .. free_num' -> [start : Int, size : Int]]
         /\ \/ /\ result' = NULL /\ UNCHANGED held
            \/ /\ result' \in Int
               /\ held' = held \cup {[addr |-> result', size |-> size]}
               /\ \A b \in held : Below(b, result')
               /\ free_num' = 1 => free_info'[1].start = result' + size
<1>1. CASE Mem!LongEnough(size) = {}
  <2>1. result' = NULL /\ UNCHANGED <<free_info, free_num, held>>
    BY <1>1 DEF Mem!memman_alloc, Mem!man
  <2> QED BY <2>1 DEF NoSharing, Mem!NoSharing, Mem!Entries, HandedOut, Below
<1>2. CASE Mem!LongEnough(size) # {}
  <2> DEFINE e == free_info[1]
             a == e.start
             new == [addr |-> a, size |-> size]
  <2>1. PICK k : k \in Mem!LongEnough(size)
    BY <1>2
  <2>2. free_num = 1 /\ Mem!Entries = {1}
    BY <2>1 DEF Mem!LongEnough, Mem!Entries, HandedOut
  <2>3. Mem!LongEnough(size) = {1} /\ e.size >= size
    BY <1>2, <2>2 DEF Mem!LongEnough
  <2>4. Mem!FirstFit(size) = 1
    BY <2>3 DEF Mem!FirstFit
  <2>5. Mem!Take(1, size)
    BY <1>2, <2>4 DEF Mem!memman_alloc
  <2>6. result' = a /\ held' = held \cup {new}
    BY <2>5 DEF Mem!Take
  <2>7. a \in Int /\ \A b \in held : Below(b, a)
    BY <2>2 DEF HandedOut
  <2>8. new.addr = a /\ new.size = size
    OBVIOUS
  <2>9. \/ free_num' = 0 /\ free_info' \in [1 .. 0 -> [start : Int, size : Int]]
        \/ /\ free_num' = 1 /\ free_info'[1].start = a + size
           /\ free_info'[1].size \in Int
           /\ free_info' \in [1 .. 1 -> [start : Int, size : Int]]
    <3>1. CASE Mem!UsedUp(1, size)
      <4>1. free_num' = 0 /\ free_info' = Mem!Removed(1)
        BY <2>2, <2>5, <3>1 DEF Mem!Take
      <4> QED BY <2>2, <4>1 DEF Mem!Removed
    <3>2. CASE ~ Mem!UsedUp(1, size)
      <4>1. free_info' = [free_info EXCEPT ![1] = Mem!Rest(e, size)] /\ free_num' = 1
        BY <2>2, <2>5, <3>2 DEF Mem!Take
      <4>2. /\ Mem!Rest(e, size) \in [start : Int, size : Int]
            /\ Mem!Rest(e, size).start = a + size
        BY <2>2, <2>7 DEF Mem!Rest, Mem!Piece
      <4> HIDE DEF e, a
      <4>3. free_info'[1] = Mem!Rest(e, size)
        BY <2>2, <4>1
      <4>4. free_info' \in [1 .. 1 -> [start : Int, size : Int]]
        BY <2>2, <4>1, <4>2
      <4> QED BY <4>1, <4>2, <4>3, <4>4
    <3> QED BY <3>1, <3>2
  <2> HIDE DEF new, e, a
  <2>10. \A b \in held' : b.addr \in Int /\ b.size \in Int /\ Below(b, a + size)
    <3>1. Below(new, a + size) /\ new.addr \in Int /\ new.size \in Int
      BY <2>7, <2>8 DEF Below
    <3>2. \A b \in held : Below(b, a + size)
      BY <2>7 DEF Below
    <3> QED BY <2>6, <3>1, <3>2
  <2>11. HandedOut'
    <3>1. free_num' = 1 => \A b \in held' : Below(b, free_info'[1].start)
      BY <2>9, <2>10
    <3>2. free_num' = 1 => free_info'[1].start \in Int /\ free_info'[1].size \in Int
      BY <2>7, <2>9
    <3>3. free_num' \in {0, 1}
      BY <2>9
    <3> QED BY <3>1, <3>2, <3>3 DEF HandedOut, Below
  <2>12. NoSharing'
    <3>1. ASSUME NEW b \in held', NEW c \in held', b # c
          PROVE  Mem!Apart(b.addr, b.size, c.addr, c.size)
      <4>1. CASE b \in held /\ c \in held
        BY <3>1, <4>1 DEF NoSharing, Mem!NoSharing
      <4>2. CASE b = new
        <5>1. c \in held
          BY <2>6, <3>1, <4>2
        <5> QED BY <2>7, <2>8, <4>2, <5>1 DEF Below, Mem!Apart
      <4>3. CASE c = new
        <5>1. b \in held
          BY <2>6, <3>1, <4>3
        <5> QED BY <2>7, <2>8, <4>3, <5>1 DEF Below, Mem!Apart
      <4> QED BY <2>6, <4>1, <4>2, <4>3
    <3>2. ASSUME NEW b \in held', NEW i \in 1 .. free_num'
          PROVE  Mem!Apart(b.addr, b.size, free_info'[i].start, free_info'[i].size)
      <4>1. i = 1 /\ free_num' = 1
        BY <2>9
      <4>2. Below(b, a + size) /\ free_info'[1].start = a + size
        BY <2>9, <2>10, <4>1
      <4> QED BY <4>1, <4>2 DEF Below, Mem!Apart
    <3> QED BY <3>1, <3>2 DEF NoSharing, Mem!NoSharing, Mem!Entries, Mem!Apart
  <2>13. free_info' \in [1 .. free_num' -> [start : Int, size : Int]]
    BY <2>9
  <2>14. free_num' = 1 => free_info'[1].start = result' + size
    BY <2>6, <2>9
  <2>15. held' = held \cup {[addr |-> result', size |-> size]}
    BY <2>6 DEF new
  <2>16. \A b \in held' : b.addr \in Int /\ b.size \in Int
    BY <2>10
  <2>17. result' \in Int /\ \A b \in held : Below(b, result')
    BY <2>6, <2>7
  <2> QED BY <2>11, <2>12, <2>13, <2>14, <2>15, <2>16, <2>17
<1> QED BY <1>1, <1>2

(* The struct that is given back as pages is in front of all that is free, *)
(* and behind all that is held.                                            *)
LEMMA StructGivenBack ==
  ASSUME StructLast, HandedOut, NoSharing,
         free_info \in [1 .. free_num -> [start : Int, size : Int]],
         \A b \in held : b.addr \in Int /\ b.size \in Int,
         Mem!memman_free_4k(struct, LAYER_SIZE)
  PROVE  NoSharing' /\ \A b \in held' : b.addr \in Int /\ b.size \in Int
<1> DEFINE addr == struct.addr
           R == Mem!RoundUp(LAYER_SIZE)
<1>1. addr \in Int /\ LAYER_SIZE \in Nat \ {0} /\ R \in Nat
  BY RoundUpIsNat, MemoryAssumption, LayersAssumption DEF StructLast
<1>2. Mem!GiveBack(addr, R) /\ held' = held \ {struct}
  BY DEF Mem!memman_free_4k
<1> HIDE DEF addr, R
<1>3. free_num \in {0, 1}
  BY DEF HandedOut
<1>4. free_num = 1 => /\ free_info[1].start \in Int /\ free_info[1].size \in Int
                      /\ free_info[1].start > addr
  BY <1>1 DEF StructLast, addr, HandedOut
<1>5. Mem!Before(addr) = 0
  <2> DEFINE P(i) == /\ \A k \in 1 .. i : free_info[k].start <= addr
                     /\ i < free_num => free_info[i + 1].start > addr
  <2>1. 0 \in 0 .. free_num /\ P(0)
    BY <1>3, <1>4
  <2>2. \A i \in 0 .. free_num : P(i) => i = 0
    <3>1. ASSUME free_num = 1, P(1) PROVE FALSE
      BY <1>1, <1>4, <3>1
    <3> QED BY <1>3, <3>1
  <2>3. Mem!Before(addr) = CHOOSE i \in 0 .. free_num : P(i)
    BY DEF Mem!Before
  <2> HIDE DEF P
  <2> QED BY <2>1, <2>2, <2>3
<1>6. ~ Mem!JoinsPrevious(addr)
  BY <1>5 DEF Mem!JoinsPrevious
<1>7. \A i \in 1 .. free_num' : /\ free_info'[i].start \in Int
                                /\ free_info'[i].start >= addr
  <2>1. CASE Mem!JoinsNext(addr, R)
    <3>1. free_num = 1
      BY <1>3, <1>5, <2>1 DEF Mem!JoinsNext
    <3>2. Mem!Extend(1, Mem!Piece(addr, free_info[1].size + R))
      BY <1>2, <1>5, <1>6, <2>1 DEF Mem!GiveBack
    <3>3. /\ free_info' = [free_info EXCEPT
                            ![1] = Mem!Piece(addr, free_info[1].size + R)]
          /\ free_num' = 1
      BY <3>1, <3>2 DEF Mem!Extend
    <3>4. free_info'[1] = Mem!Piece(addr, free_info[1].size + R)
      BY <3>1, <3>3
    <3> QED BY <1>1, <3>3, <3>4 DEF Mem!Piece
  <2>2. CASE ~ Mem!JoinsNext(addr, R) /\ free_num < MEMMAN_SIZE
    <3>1. Mem!Insert(1, Mem!Piece(addr, R))
      BY <1>2, <1>5, <1>6, <2>2 DEF Mem!GiveBack
    <3>2. free_num' = free_num + 1 /\ free_info' = Mem!Inserted(1, Mem!Piece(addr, R))
      BY <3>1 DEF Mem!Insert
    <3>3. \A i \in 1 .. free_num + 1 :
            free_info'[i] = IF i = 1 THEN Mem!Piece(addr, R) ELSE free_info[i - 1]
      BY <1>3, <3>2 DEF Mem!Inserted
    <3>4. Mem!Piece(addr, R).start = addr
      BY DEF Mem!Piece
    <3>5. \A i \in 1 .. free_num + 1 : i = 1 \/ (i = 2 /\ free_num = 1)
      BY <1>3
    <3>6. free_info'[1].start = addr
      BY <1>3, <3>3, <3>4
    <3>7. free_num = 1 => free_info'[2] = free_info[1]
      BY <3>3
    <3> QED BY <1>1, <1>4, <3>2, <3>5, <3>6, <3>7
  <2>3. CASE ~ Mem!JoinsNext(addr, R) /\ ~ (free_num < MEMMAN_SIZE)
    <3>1. UNCHANGED <<free_info, free_num>>
      BY <1>2, <1>6, <2>3 DEF Mem!GiveBack, Mem!Leak
    <3> QED BY <1>1, <1>3, <1>4, <3>1
  <2> QED BY <2>1, <2>2, <2>3
<1>8. \A b \in held' : b \in held /\ b.addr \in Int /\ b.size \in Int /\ Below(b, addr)
  BY <1>2 DEF StructLast, addr
<1>9. \A b \in held', i \in 1 .. free_num' :
        Mem!Apart(b.addr, b.size, free_info'[i].start, free_info'[i].size)
  BY <1>1, <1>7, <1>8 DEF Below, Mem!Apart
<1>10. \A b, c \in held' : b # c => Mem!Apart(b.addr, b.size, c.addr, c.size)
  BY <1>8 DEF NoSharing, Mem!NoSharing
<1> QED BY <1>8, <1>9, <1>10 DEF NoSharing, Mem!NoSharing, Mem!Entries, Mem!Apart

\* The sizes of the buffer and of the layers.
LEMMA LayerSizes ==
  ASSUME vmode \in {"vbe", "vga"}
  PROVE  /\ Mem!RoundUp(Width * Height) \in Nat
         /\ Mem!RoundUp(Asked[1] * Asked[2]) \in Nat
<1>1. Width \in Nat /\ Height \in Nat
  BY BootAssumption DEF Width, Height
<1>2. Asked[1] \in Nat /\ Asked[2] \in Nat
  BY <1>1, LayersAssumption DEF Asked
<1>3. \A m, n \in Nat : m * n \in Nat
  OBVIOUS
<1> HIDE DEF Width, Height, Asked
<1> QED BY <1>1, <1>2, <1>3, RoundUpIsNat

LEMMA InitMem == Init => MemInv
<1> SUFFICES ASSUME Init PROVE MemInv
  OBVIOUS
<1>1. /\ free_info = [k \in 1 .. 1 |-> Mem!Piece(Start, End - Start)]
      /\ free_num = 1 /\ held = {} /\ pc = "read"
  BY DEF Init, Mem!memman_init, BootInit
<1>2. /\ Mem!Piece(Start, End - Start) \in [start : Int, size : Int]
      /\ Mem!Piece(Start, End - Start).start \in Int
      /\ Mem!Piece(Start, End - Start).size \in Int
  BY MemoryAssumption DEF Mem!Piece
<1>3. HandedOut
  BY <1>1, <1>2 DEF HandedOut
<1>4. free_info \in [1 .. free_num -> [start : Int, size : Int]]
  BY <1>1, <1>2
<1>5. NoSharing
  BY <1>1 DEF NoSharing, Mem!NoSharing
<1> QED BY <1>1, <1>3, <1>4, <1>5 DEF MemInv, InKernel, SettingUp

\* A step that leaves the memory alone.
LEMMA MemUnchanged ==
  ASSUME MemInv, UNCHANGED <<free_info, free_num, held>>,
         pc' \in {"null", "halted"} \/ pc \notin {"null", "halted"},
         pc' = "content" => pc = "content" /\ UNCHANGED struct,
         pc' \in {"command", "gate", "copy"} \cup InKernel \cup SettingUp =>
           vmode' \in {"vbe", "vga"}
  PROVE  MemInv'
<1>1. NoSharing' /\ HandedOut' = HandedOut
  BY DEF MemInv, NoSharing, Mem!NoSharing, Mem!Entries, Mem!Apart, HandedOut,
         Below
<1>2. pc' = "content" => StructLast'
  BY DEF MemInv, StructLast, Below
<1> QED BY <1>1, <1>2 DEF MemInv

LEMMA BootsMem == MemInv /\ Boots => MemInv'
<1> SUFFICES ASSUME MemInv, Boots PROVE MemInv'
  OBVIOUS
<1>1. UNCHANGED <<free_info, free_num, held>>
  BY DEF Boots, picture, man
<1>2. \/ pc \in {"read", "reset"} /\ pc' \in {"read", "reset", "video", "halted"}
      \/ pc' = "command" /\ vmode' \in {"vbe", "vga"} /\ pc = "video"
      \/ /\ pc \in {"command", "gate", "copy"} /\ vmode' = vmode
         /\ pc' \in {"gate", "copy", "kernel"}
  BY DEF Boots, BootStep, ReadSector, ReadFails, ResetDrive, SetVideo,
         SendCommand, SendGate, Send, Copy, At, GoTo
<1> QED BY <1>1, <1>2, MemUnchanged DEF MemInv, InKernel, SettingUp

LEMMA DevicesMem ==
  MemInv /\ (Answers \/ (Devices /\ UNCHANGED picture)) => MemInv'
<1> SUFFICES ASSUME MemInv, Answers \/ (Devices /\ UNCHANGED picture) PROVE MemInv'
  OBVIOUS
<1>1. UNCHANGED <<free_info, free_num, held, struct, vmode>>
  BY DEF Answers, ControllerTakes, Devices, SendMode, SendModeByte, SendToMouse,
         SendEnable, Send, picture, man
<1>2. \/ pc' = pc
      \/ pc \in InKernel /\ pc' \in InKernel \cup {"layerctl"}
  BY DEF Answers, ControllerTakes, Devices, SendMode, SendModeByte, SendToMouse,
         SendEnable, Send, At, GoTo, InKernel
<1> QED BY <1>1, <1>2, MemUnchanged DEF MemInv, InKernel, SettingUp

LEMMA LoopMem ==
  MemInv /\ (Redraw \/ Key \/ MouseReport \/ TaskBox \/ TaskText) => MemInv'
<1> SUFFICES ASSUME MemInv, Redraw \/ Key \/ MouseReport \/ TaskBox \/ TaskText
             PROVE  MemInv'
  OBVIOUS
<1>1. UNCHANGED <<free_info, free_num, held, struct, vmode, pc>>
  BY DEF Redraw, Key, MouseReport, TaskBox, TaskText, man, boot
<1> QED BY <1>1, MemUnchanged DEF MemInv

LEMMA AllocMem ==
  MemInv /\ (AllocEarlier \/ AllocLayerctl \/ AllocBuf \/ AllocStruct
               \/ AllocContent) => MemInv'
<1> SUFFICES ASSUME MemInv, AllocEarlier \/ AllocLayerctl \/ AllocBuf
                              \/ AllocStruct \/ AllocContent
             PROVE  MemInv'
  OBVIOUS
<1>1. /\ pc \in {"kernel", "layerctl", "buf", "struct", "content"}
      /\ pc' \in {"null", "halted"} \cup InKernel \cup SettingUp
      /\ vmode' = vmode
      /\ pc' = "content" => AllocStruct
  BY DEF AllocEarlier, AllocLayerctl, AllocBuf, AllocStruct, AllocContent, At,
         GoTo, boot, InKernel, SettingUp
<1>2. vmode \in {"vbe", "vga"}
  BY <1>1 DEF MemInv, InKernel, SettingUp
<1>3. PICK size \in Nat : /\ Mem!memman_alloc(size)
                          /\ AllocStruct => size = LAYER_SIZE
  <2>1. Earlier \cup {LAYERCTL_SIZE, LAYER_SIZE} \subseteq Nat
    BY MemoryAssumption, LayersAssumption
  <2>2. CASE AllocEarlier
    BY <2>1, <2>2 DEF AllocEarlier, AllocStruct, At
  <2>3. CASE AllocLayerctl
    BY <2>1, <2>3 DEF AllocLayerctl, AllocStruct, At
  <2>4. CASE AllocBuf
    BY <1>2, <2>4, LayerSizes DEF AllocBuf, AllocStruct, At, Mem!memman_alloc_4k
  <2>5. CASE AllocStruct
    BY <2>1, <2>5 DEF AllocStruct
  <2>6. CASE AllocContent
    BY <1>2, <2>6, LayerSizes
       DEF AllocContent, AllocStruct, At, Mem!memman_alloc_4k
  <2> QED BY <2>2, <2>3, <2>4, <2>5, <2>6
<1>4. /\ \A b \in held' : b.addr \in Int /\ b.size \in Int
      /\ NoSharing' /\ HandedOut'
      /\ free_info' \in [1 .. free_num' -> [start : Int, size : Int]]
      /\ \/ /\ result' = NULL /\ UNCHANGED held
         \/ /\ result' \in Int
            /\ held' = held \cup {[addr |-> result', size |-> size]}
            /\ \A b \in held : Below(b, result')
            /\ free_num' = 1 => free_info'[1].start = result' + size
  BY <1>1, <1>3, AllocTakes DEF MemInv
<1>5. ASSUME pc' = "content" PROVE StructLast'
  <2>1. AllocStruct /\ result' # NULL
    BY <1>1, <1>5 DEF AllocStruct, GoTo, Failed
  <2>2. struct' = [addr |-> result', size |-> LAYER_SIZE] /\ size = LAYER_SIZE
    BY <1>3, <2>1 DEF AllocStruct
  <2>3. held' \ {struct'} \subseteq held
    BY <1>4, <2>1, <2>2
  <2> QED BY <1>4, <2>1, <2>2, <2>3 DEF StructLast, Below
<1> QED BY <1>1, <1>2, <1>4, <1>5 DEF MemInv

LEMMA MemStep == MemInv /\ [Next]_vars => MemInv'
<1> SUFFICES ASSUME MemInv, [Next]_vars PROVE MemInv'
  OBVIOUS
<1>1. CASE GiveUpLayer
  <2>1. /\ pc = "content" /\ pc' = "null"
        /\ Mem!memman_free_4k(struct, LAYER_SIZE)
    BY <1>1 DEF GiveUpLayer, At, GoTo
  <2>2. NoSharing' /\ \A b \in held' : b.addr \in Int /\ b.size \in Int
    BY <2>1, StructGivenBack DEF MemInv
  <2> QED BY <2>1, <2>2 DEF MemInv, InKernel, SettingUp
<1>2. CASE UNCHANGED vars
  <2>1. UNCHANGED <<free_info, free_num, held, struct, vmode, pc>>
    BY <1>2 DEF vars, man, boot
  <2> QED BY <2>1, MemUnchanged DEF MemInv
<1> QED BY <1>1, <1>2, BootsMem, DevicesMem, LoopMem, AllocMem DEF Next, SetsUp

(* No block of memory is handed out twice or still free, whatever memory   *)
(* there is, up to and after the point where alloc_layer gives back as     *)
(* pages the struct that it took as bytes.                                 *)
THEOREM StartUpSharesNoBlock == Spec => []NoSharing
<1>1. MemInv => NoSharing
  BY DEF MemInv
<1> QED BY <1>1, InitMem, MemStep, PTL DEF Spec

-----------------------------------------------------------------------------
(* Points of a layer.  The address of the point (x, y) of a layer of width *)
(* w with its content at c, and how many points there are.                 *)

Point(c, w, x, y) == c + y * w + x

Area(w, h) == w * h

\* The products are met in these lemmas only.
LEMMA PointInside ==
  ASSUME NEW c \in Int, NEW w \in Nat, NEW h \in Nat,
         NEW x \in 0 .. w - 1, NEW y \in 0 .. h - 1
  PROVE  /\ Point(c, w, x, y) \in Int /\ Area(w, h) \in Nat
         /\ c <= Point(c, w, x, y) /\ Point(c, w, x, y) < c + Area(w, h)
<1>1. y \in Nat /\ y + 1 <= h /\ x \in Nat /\ x < w
  OBVIOUS
<1>2. (y + 1) * w <= h * w
  BY <1>1, Monotone
<1>3. (y + 1) * w = y * w + w /\ y * w \in Nat /\ w * h = h * w /\ w * h \in Nat
  BY <1>1
<1> QED BY <1>1, <1>2, <1>3 DEF Point, Area

LEMMA PointUnique ==
  ASSUME NEW c \in Int, NEW w \in Nat, NEW x \in 0 .. w - 1, NEW y \in Int,
         NEW u \in 0 .. w - 1, NEW v \in Int,
         Point(c, w, x, y) = Point(c, w, u, v)
  PROVE  x = u /\ y = v
<1>1. ASSUME NEW a \in 0 .. w - 1, NEW d \in 0 .. w - 1, NEW s \in Int,
             NEW t \in Int, s < t
      PROVE  Point(c, w, a, s) # Point(c, w, d, t)
  <2>1. s + 1 <= t /\ s + 1 \in Int
    BY <1>1
  <2>2. (s + 1) * w <= t * w
    BY <2>1, Monotone
  <2>3. (s + 1) * w = s * w + w /\ s * w \in Int /\ t * w \in Int
    OBVIOUS
  <2> QED BY <2>2, <2>3 DEF Point
<1>2. ~ (y < v) /\ ~ (v < y)
  BY <1>1
<1>3. y = v
  BY <1>2
<1>4. y * w \in Int
  OBVIOUS
<1> QED BY <1>3, <1>4 DEF Point

-----------------------------------------------------------------------------
(* graphic.c *)

Memory == Start .. End - 1

LEMMA FillIs ==
  ASSUME NEW mem, NEW c, NEW w, NEW colour, NEW x0, NEW y0, NEW x1, NEW y1
  PROVE  box_fill8(mem, c, w, colour, x0, y0, x1, y1)
           = [a \in DOMAIN mem |->
                IF \E x \in x0 .. x1 - 1, y \in y0 .. y1 - 1 :
                     a = Point(c, w, x, y)
                THEN colour ELSE mem[a]]
BY DEF box_fill8, Point

(* A box within a layer changes neither what is outside the layer nor what *)
(* is in other rows of it.                                                 *)
Boxed(mem, new, c, w, h, colour, x0, y0, x1, y1) ==
  /\ new = [a \in DOMAIN mem |-> new[a]]
  /\ \A a \in DOMAIN mem :
       (a < c \/ c + Area(w, h) <= a) => new[a] = mem[a]
  /\ \A a \in DOMAIN mem : new[a] \in {colour, mem[a]}
  /\ \A x \in 0 .. w - 1, y \in 0 .. h - 1 :
       Point(c, w, x, y) \in DOMAIN mem =>
         /\ x \in x0 .. x1 - 1 /\ y \in y0 .. y1 - 1 =>
              new[Point(c, w, x, y)] = colour
         /\ y \notin y0 .. y1 - 1 =>
              new[Point(c, w, x, y)] = mem[Point(c, w, x, y)]

LEMMA BoxFilled ==
  ASSUME NEW mem, NEW c \in Int, NEW w \in Nat, NEW h \in Nat, NEW colour,
         NEW x0 \in Nat, NEW y0 \in Nat, NEW x1 \in Int, NEW y1 \in Int,
         x1 <= w, y1 <= h,
         NEW new, new = box_fill8(mem, c, w, colour, x0, y0, x1, y1)
  PROVE  Boxed(mem, new, c, w, h, colour, x0, y0, x1, y1)
<1> DEFINE In(a) == \E x \in x0 .. x1 - 1, y \in y0 .. y1 - 1 :
                      a = Point(c, w, x, y)
<1>1. new = [a \in DOMAIN mem |-> IF In(a) THEN colour ELSE mem[a]]
  BY FillIs
<1>2. \A x \in x0 .. x1 - 1, y \in y0 .. y1 - 1 :
        x \in 0 .. w - 1 /\ y \in 0 .. h - 1
  OBVIOUS
<1>3. ASSUME NEW a \in DOMAIN mem, In(a)
      PROVE  a \in Int /\ c <= a /\ a < c + Area(w, h)
  <2>1. PICK x \in x0 .. x1 - 1, y \in y0 .. y1 - 1 : a = Point(c, w, x, y)
    BY <1>3
  <2>2. x \in 0 .. w - 1 /\ y \in 0 .. h - 1
    BY <1>2
  <2> QED BY <2>1, <2>2, PointInside
<1>4. ASSUME NEW x \in x0 .. x1 - 1, NEW y \in y0 .. y1 - 1
      PROVE  In(Point(c, w, x, y))
  OBVIOUS
<1>5. ASSUME NEW x \in 0 .. w - 1, NEW y \in 0 .. h - 1,
             In(Point(c, w, x, y))
      PROVE  y \in y0 .. y1 - 1
  <2>1. PICK u \in x0 .. x1 - 1, v \in y0 .. y1 - 1 :
               Point(c, w, x, y) = Point(c, w, u, v)
    BY <1>5
  <2>2. y = v
    BY <1>2, <2>1, PointUnique
  <2> QED BY <2>2
<1> HIDE DEF In
<1>6. \A a \in DOMAIN mem : new[a] = IF In(a) THEN colour ELSE mem[a]
  BY <1>1
<1>7. new = [a \in DOMAIN mem |-> new[a]]
  BY <1>1
<1>8. ASSUME NEW a \in DOMAIN mem, a < c \/ c + Area(w, h) <= a
      PROVE  new[a] = mem[a]
  <2>1. ASSUME In(a) PROVE FALSE
    <3>1. a \in Int /\ c <= a /\ a < c + Area(w, h)
      BY <1>3, <2>1
    <3>2. Area(w, h) \in Int
      BY DEF Area
    <3> QED BY <1>8, <3>1, <3>2
  <2> QED BY <1>6, <2>1
<1>9. \A a \in DOMAIN mem : new[a] \in {colour, mem[a]}
  BY <1>6
<1>10. ASSUME NEW x \in 0 .. w - 1, NEW y \in 0 .. h - 1,
              Point(c, w, x, y) \in DOMAIN mem
       PROVE  /\ x \in x0 .. x1 - 1 /\ y \in y0 .. y1 - 1 =>
                   new[Point(c, w, x, y)] = colour
              /\ y \notin y0 .. y1 - 1 =>
                   new[Point(c, w, x, y)] = mem[Point(c, w, x, y)]
  BY <1>4, <1>5, <1>6, <1>10
<1> QED BY <1>7, <1>8, <1>9, <1>10 DEF Boxed

-----------------------------------------------------------------------------
(* layer.c *)

\* A layer as alloc_layer makes it, at the place (x, y) of the screen.
LayerAt(x, y, w, h, c) ==
  [loc_x |-> x, loc_y |-> y, width |-> w, height |-> h, content |-> c]

\* struct LAYERCTL with its buffer at b.
Control(layers, b) ==
  [layers |-> layers, max_x |-> Width, max_y |-> Height, buf |-> b]

LEMMA ScreenTypes ==
  ASSUME vmode \in {"vbe", "vga"}
  PROVE  /\ Width \in Nat \ {0} /\ Height \in Nat \ {0}
         /\ <<Width, Height>> \in
              {SCREEN_SIZE[mode] : mode \in DOMAIN SCREEN_SIZE}
<1>1. SCREEN_SIZE[vmode] \in (Nat \ {0}) \X (Nat \ {0})
  BY BootAssumption
<1>2. /\ SCREEN_SIZE[vmode] = <<Width, Height>>
      /\ Width \in Nat \ {0} /\ Height \in Nat \ {0}
  BY <1>1 DEF Width, Height
<1>3. vmode \in DOMAIN SCREEN_SIZE
  BY BootAssumption
<1> QED BY <1>2, <1>3

(* The points of a layer, which must all be in colour, go to the buffer    *)
(* where the layer is on the screen; nothing else changes.                 *)
Drawn(mem, new, b, lx, ly, w, h, c) ==
  /\ new = [a \in DOMAIN mem |-> new[a]]
  /\ \A a \in DOMAIN mem :
       (a < b \/ b + Area(Width, Height) <= a) => new[a] = mem[a]
  /\ \A x \in 0 .. Width - 1, y \in 0 .. Height - 1 :
       Point(b, Width, x, y) \in DOMAIN mem =>
         new[Point(b, Width, x, y)]
           = IF x - lx \in 0 .. w - 1 /\ y - ly \in 0 .. h - 1
             THEN mem[Point(c, w, x - lx, y - ly)]
             ELSE mem[Point(b, Width, x, y)]

LEMMA LayerDrawn ==
  ASSUME vmode \in {"vbe", "vga"},
         NEW mem, NEW b \in Int,
         ctl.max_x = Width, ctl.max_y = Height, ctl.buf = b,
         NEW lx \in Int, NEW ly \in Int, NEW w \in Nat, NEW h \in Nat,
         NEW c \in Int,
         \A x \in 0 .. w - 1, y \in 0 .. h - 1 :
           mem[Point(c, w, x, y)] # "transparent",
         NEW new, new = Over(mem, LayerAt(lx, ly, w, h, c))
  PROVE  Drawn(mem, new, b, lx, ly, w, h, c)
<1> DEFINE layer == LayerAt(lx, ly, w, h, c)
           P(a) == DrawnAt(mem, layer, a)
<1>1. Width \in Nat \ {0} /\ Height \in Nat \ {0}
  BY ScreenTypes
<1>2. /\ layer.loc_x = lx /\ layer.loc_y = ly /\ layer.width = w
      /\ layer.height = h /\ layer.content = c
  BY DEF LayerAt
<1>3. ctl.max_x = Width /\ ctl.max_y = Height /\ ctl.buf = b
  OBVIOUS
<1> HIDE DEF layer
<1>4. \A p \in (0 .. w - 1) \X (0 .. h - 1) :
        /\ p[1] \in 0 .. w - 1 /\ p[2] \in 0 .. h - 1
        /\ OnScreen(layer, p[1], p[2]) <=>
             /\ lx + p[1] \in 0 .. Width - 1 /\ ly + p[2] \in 0 .. Height - 1
        /\ layer.content + layer.width * p[2] + p[1]
             = Point(c, w, p[1], p[2])
        /\ ctl.buf + (layer.loc_y + p[2]) * ctl.max_x + layer.loc_x + p[1]
             = Point(b, Width, lx + p[1], ly + p[2])
  <2> SUFFICES ASSUME NEW x \in 0 .. w - 1, NEW y \in 0 .. h - 1
               PROVE  /\ OnScreen(layer, x, y) <=>
                           /\ lx + x \in 0 .. Width - 1
                           /\ ly + y \in 0 .. Height - 1
                      /\ layer.content + layer.width * y + x = Point(c, w, x, y)
                      /\ ctl.buf + (layer.loc_y + y) * ctl.max_x
                           + layer.loc_x + x
                           = Point(b, Width, lx + x, ly + y)
    OBVIOUS
  <2>1. OnScreen(layer, x, y) <=> /\ lx + x \in 0 .. Width - 1
                                  /\ ly + y \in 0 .. Height - 1
    BY <1>1, <1>2, <1>3 DEF OnScreen
  <2>2. layer.content + layer.width * y + x = Point(c, w, x, y)
    <3>1. w * y = y * w
      OBVIOUS
    <3> QED BY <1>2, <3>1 DEF Point
  <2>3. Point(b, Width, lx + x, ly + y) = b + (ly + y) * Width + (lx + x)
    BY DEF Point
  <2>4. (ly + y) * Width \in Int
    BY <1>1
  <2>5. b + (ly + y) * Width + (lx + x) = b + (ly + y) * Width + lx + x
    BY <2>4
  <2> QED BY <1>2, <1>3, <2>1, <2>2, <2>3, <2>5
<1>5. ASSUME NEW a, NEW p
      PROVE  p \in P(a) <=>
               /\ p \in (0 .. w - 1) \X (0 .. h - 1)
               /\ lx + p[1] \in 0 .. Width - 1 /\ ly + p[2] \in 0 .. Height - 1
               /\ a = Point(b, Width, lx + p[1], ly + p[2])
  <2>1. p \in P(a) <=>
          /\ p \in (0 .. w - 1) \X (0 .. h - 1)
          /\ OnScreen(layer, p[1], p[2])
          /\ mem[Point(c, w, p[1], p[2])] # "transparent"
          /\ a = Point(b, Width, lx + p[1], ly + p[2])
    BY <1>2, <1>4 DEF DrawnAt
  <2> QED BY <2>1, <1>4
<1>6. new = [a \in DOMAIN mem |->
               IF P(a) = {} THEN mem[a]
               ELSE mem[Point(c, w, (CHOOSE q \in P(a) : TRUE)[1],
                                    (CHOOSE q \in P(a) : TRUE)[2])]]
  <2>1. ASSUME NEW a \in DOMAIN mem, P(a) # {}
        PROVE  LET p == CHOOSE q \in P(a) : TRUE
               IN  layer.content + layer.width * p[2] + p[1]
                     = Point(c, w, p[1], p[2])
    <3> DEFINE p == CHOOSE q \in P(a) : TRUE
    <3>1. p \in P(a)
      BY <2>1
    <3> HIDE DEF p
    <3>2. p \in (0 .. w - 1) \X (0 .. h - 1)
      BY <1>5, <3>1
    <3>3. layer.content + layer.width * p[2] + p[1] = Point(c, w, p[1], p[2])
      BY <1>4, <3>2
    <3> QED BY <3>3 DEF p
  <2> QED BY <2>1 DEF Over, layer
<1> HIDE DEF P
<1>7. ASSUME NEW a \in DOMAIN mem, a < b \/ b + Area(Width, Height) <= a
      PROVE  new[a] = mem[a]
  <2>1. ASSUME NEW p \in P(a) PROVE FALSE
    <3>1. a \in Int /\ b <= a /\ a < b + Area(Width, Height)
      <4>1. /\ lx + p[1] \in 0 .. Width - 1 /\ ly + p[2] \in 0 .. Height - 1
            /\ a = Point(b, Width, lx + p[1], ly + p[2])
        BY <1>5, <2>1
      <4> QED BY <1>1, <4>1, PointInside
    <3>2. Area(Width, Height) \in Int
      BY <1>1 DEF Area
    <3> QED BY <1>7, <3>1, <3>2
  <2> QED BY <1>6, <2>1
<1>8. ASSUME NEW x \in 0 .. Width - 1, NEW y \in 0 .. Height - 1,
             Point(b, Width, x, y) \in DOMAIN mem
      PROVE  new[Point(b, Width, x, y)]
               = IF x - lx \in 0 .. w - 1 /\ y - ly \in 0 .. h - 1
                 THEN mem[Point(c, w, x - lx, y - ly)]
                 ELSE mem[Point(b, Width, x, y)]
  <2> DEFINE a == Point(b, Width, x, y)
             q == <<x - lx, y - ly>>
  <2>1. ASSUME NEW p \in P(a)
        PROVE  p = q /\ x - lx \in 0 .. w - 1 /\ y - ly \in 0 .. h - 1
    <3>1. /\ p \in (0 .. w - 1) \X (0 .. h - 1)
          /\ lx + p[1] \in 0 .. Width - 1 /\ ly + p[2] \in 0 .. Height - 1
          /\ a = Point(b, Width, lx + p[1], ly + p[2])
      BY <1>5
    <3>2. x = lx + p[1] /\ y = ly + p[2]
      <4> DEFINE u == lx + p[1]
                 v == ly + p[2]
      <4>1. /\ u \in 0 .. Width - 1 /\ v \in Int /\ y \in Int
            /\ Point(b, Width, x, y) = Point(b, Width, u, v)
        BY <3>1
      <4> HIDE DEF u, v
      <4>2. x = u /\ y = v
        BY <1>1, <4>1, PointUnique
      <4> QED BY <4>2 DEF u, v
    <3>3. p[1] = x - lx /\ p[2] = y - ly /\ p = <<p[1], p[2]>>
      BY <3>1, <3>2
    <3> QED BY <3>1, <3>3
  <2>2. CASE x - lx \in 0 .. w - 1 /\ y - ly \in 0 .. h - 1
    <3>1. q \in P(a)
      <4>1. /\ q \in (0 .. w - 1) \X (0 .. h - 1)
            /\ q[1] = x - lx /\ q[2] = y - ly
        BY <2>2
      <4>2. lx + q[1] = x /\ ly + q[2] = y
        BY <4>1
      <4> HIDE DEF q
      <4> QED BY <1>5, <4>1, <4>2
    <3>2. (CHOOSE r \in P(a) : TRUE) = q
      BY <2>1, <3>1
    <3>3. new[a] = mem[Point(c, w, q[1], q[2])]
      BY <1>6, <1>8, <3>1, <3>2
    <3> QED BY <2>2, <3>3
  <2>3. CASE ~ (x - lx \in 0 .. w - 1 /\ y - ly \in 0 .. h - 1)
    <3>1. P(a) = {}
      BY <2>1, <2>3
    <3> QED BY <1>6, <1>8, <2>3, <3>1
  <2> QED BY <2>2, <2>3
<1>9. new = [a \in DOMAIN mem |-> new[a]]
  BY <1>6
<1> QED BY <1>7, <1>8, <1>9 DEF Drawn

-----------------------------------------------------------------------------
(* The memory of the layers.  What is free is inside the memory there is,  *)
(* and each block is taken in front of it: buffer, background and mouse    *)
(* come one behind the other.                                              *)

FreeInside ==
  free_num = 1 => /\ Start <= free_info[1].start
                  /\ free_info[1].start + free_info[1].size <= End

\* What is free does not begin before the address.
FreeFrom(a) == free_num = 1 => a <= free_info[1].start

LEMMA AllocFits ==
  ASSUME NEW size \in Nat, Mem!memman_alloc(size), HandedOut, FreeInside,
         free_info \in [1 .. free_num -> [start : Int, size : Int]]
  PROVE  /\ FreeInside'
         /\ \/ /\ result' = NULL /\ UNCHANGED <<free_info, free_num>>
               /\ free_num = 1 => free_info[1].size < size
            \/ /\ free_num = 1 /\ size <= free_info[1].size
               /\ result' \in Int /\ Start <= result' /\ result' + size <= End
               /\ \A a \in Int : a <= result' + size => FreeFrom(a)'
               /\ \A a \in Int : FreeFrom(a) => a <= result'
         /\ \A a \in Int : FreeFrom(a) => FreeFrom(a)'
         /\ \A n \in Nat : (free_num = 1 => free_info[1].size < n)
                             => (free_num' = 1 => free_info'[1].size < n)
<1>1. free_num \in {0, 1}
  BY DEF HandedOut
<1>2. CASE Mem!LongEnough(size) = {}
  <2>1. result' = NULL /\ UNCHANGED <<free_info, free_num>>
    BY <1>2 DEF Mem!memman_alloc, Mem!man
  <2>2. free_num = 1 => free_info[1].size < size
    BY <1>2 DEF Mem!LongEnough, Mem!Entries, HandedOut
  <2> QED BY <2>1, <2>2 DEF FreeInside, FreeFrom
<1>3. CASE Mem!LongEnough(size) # {}
  <2> DEFINE a == free_info[1].start
             n == free_info[1].size
  <2>1. free_num = 1 /\ Mem!Entries = {1} /\ n >= size
        /\ Mem!LongEnough(size) = {1}
    <3>1. PICK k : k \in Mem!LongEnough(size)
      BY <1>3
    <3>2. free_num = 1 /\ Mem!Entries = {1}
      BY <1>1, <3>1 DEF Mem!LongEnough, Mem!Entries
    <3> QED BY <1>3, <3>2 DEF Mem!LongEnough
  <2>2. Mem!FirstFit(size) = 1
    BY <2>1 DEF Mem!FirstFit
  <2>3. Mem!Take(1, size)
    BY <1>3, <2>2 DEF Mem!memman_alloc
  <2>4. result' = a
    BY <2>3 DEF Mem!Take
  <2>5. /\ a \in Int /\ n \in Int /\ Start <= a /\ a + n <= End
        /\ a + size <= a + n
    BY <2>1 DEF HandedOut, FreeInside
  <2>6. free_num' = 1 => /\ free_info'[1].start = a + size
                         /\ free_info'[1].size = n - size
    <3>1. CASE Mem!UsedUp(1, size)
      BY <2>1, <2>3, <3>1 DEF Mem!Take
    <3>2. CASE ~ Mem!UsedUp(1, size)
      <4>1. /\ free_info' = [free_info EXCEPT
                              ![1] = Mem!Rest(free_info[1], size)]
            /\ free_num' = 1
        BY <2>1, <2>3, <3>2 DEF Mem!Take
      <4>2. /\ Mem!Rest(free_info[1], size).start = a + size
            /\ Mem!Rest(free_info[1], size).size = n - size
        BY DEF Mem!Rest, Mem!Piece
      <4>3. free_info'[1] = Mem!Rest(free_info[1], size)
        BY <2>1, <4>1
      <4> QED BY <4>2, <4>3
    <3> QED BY <3>1, <3>2
  <2> HIDE DEF a, n
  <2>7. FreeInside'
    BY <2>5, <2>6, MemoryAssumption DEF FreeInside
  <2>8. ASSUME NEW b \in Int, b <= a + size PROVE FreeFrom(b)'
    BY <2>8, <2>5, <2>6 DEF FreeFrom
  <2>9. ASSUME NEW b \in Int, FreeFrom(b) PROVE b <= a /\ FreeFrom(b)'
    <3>1. b <= a
      BY <2>1, <2>9 DEF FreeFrom, a
    <3> QED BY <2>5, <2>6, <3>1 DEF FreeFrom
  <2>10. ASSUME NEW m \in Nat, n < m PROVE free_num' = 1 => free_info'[1].size < m
    BY <2>5, <2>6, <2>10
  <2>11. a + size <= End /\ a \in Int
    BY <2>5, MemoryAssumption
  <2>12. \A m \in Nat : (free_num = 1 => free_info[1].size < m)
                          => (free_num' = 1 => free_info'[1].size < m)
    BY <2>1, <2>10 DEF n
  <2>13. \A b \in Int : b <= result' + size => FreeFrom(b)'
    BY <2>4, <2>8
  <2>14. free_num = 1 /\ size <= free_info[1].size
    BY <2>1 DEF n
  <2> QED BY <2>4, <2>5, <2>7, <2>9, <2>11, <2>12, <2>13, <2>14
<1> QED BY <1>2, <1>3

\* Pages hold what they are asked for.
LEMMA RoundUpHolds ==
  ASSUME NEW size \in Nat
  PROVE  Mem!RoundUp(size) \in Nat /\ Mem!RoundUp(size) >= size
<1> DEFINE q == (size + PageSize - 1) \div PageSize
           r == (size + PageSize - 1) % PageSize
<1>1. PageSize \in Nat \ {0}
  BY MemoryAssumption
<1>2. q \in Nat /\ r \in 0 .. PageSize - 1
      /\ size + PageSize - 1 = PageSize * q + r
  BY <1>1
<1> HIDE DEF q, r
<1>3. q * PageSize = PageSize * q /\ q * PageSize \in Nat
  BY <1>1, <1>2
<1>4. q * PageSize >= size
  BY <1>1, <1>2, <1>3
<1> QED BY <1>3, <1>4 DEF Mem!RoundUp, q

-----------------------------------------------------------------------------
(* The layers in memory: the buffer at b, the background at c, the mouse   *)
(* at d, one behind the other; the background is all in colour and the     *)
(* mouse all black.                                                        *)

Colours == {"blue", "black", "white"}

MouseWidth == MOUSE_SIZE[1]
MouseHeight == MOUSE_SIZE[2]

Pixels == Area(Width, Height)
MousePixels == Area(MouseWidth, MouseHeight)

Painted(mem, c) ==
  \A x \in 0 .. Width - 1, y \in 0 .. Height - 1 :
    mem[Point(c, Width, x, y)] \in Colours

Black(mem, d) ==
  \A x \in 0 .. MouseWidth - 1, y \in 0 .. MouseHeight - 1 :
    mem[Point(d, MouseWidth, x, y)] = "black"

BackgroundAt(c) == LayerAt(0, 0, Width, Height, c)
MouseAt(x, y, d) == LayerAt(x, y, MouseWidth, MouseHeight, d)

\* init_layerctl has its buffer, or has none and there is none to be had.
BufferOnly ==
  \E b \in Int :
    /\ ctl = Control(<< >>, b)
    /\ \/ free_num = 1 => free_info[1].size < Mem!RoundUp(Width * Height)
       \/ Start <= b /\ FreeFrom(b + Pixels)

BackgroundOnly ==
  \E b, c \in Int :
    /\ ctl = Control(<<BackgroundAt(c)>>, b)
    /\ Start <= b /\ b + Pixels <= c /\ c + Pixels <= End
    /\ FreeFrom(c + Pixels)
    /\ Painted(ram, c)

Layered(b, c, d, x, y) ==
  /\ ctl = Control(<<BackgroundAt(c), MouseAt(x, y, d)>>, b)
  /\ Start <= b /\ b + Pixels <= c /\ c + Pixels <= d /\ d + MousePixels <= End
  /\ Painted(ram, c) /\ Black(ram, d)

Pictured == \E b, c, d, x, y \in Int : Layered(b, c, d, x, y)

PicInv ==
  /\ ram = [a \in Memory |-> ram[a]]
  /\ pc # "loop" => screen = << >> /\ half = {}
  /\ half \subseteq [row : TASK_ROWS, length : TEXT_LENGTHS]
  /\ pc \notin {"null", "halted"} => FreeInside
  /\ pc \in {"struct", "content"} => BufferOnly \/ BackgroundOnly
  /\ pc = "loop" => Pictured

LEMMA Sizes ==
  ASSUME vmode \in {"vbe", "vga"}
  PROVE  /\ Width \in Nat \ {0} /\ Height \in Nat \ {0} /\ Pixels \in Nat
         /\ MouseWidth \in Nat \ {0} /\ MouseHeight \in Nat \ {0}
         /\ MousePixels \in Nat
         /\ Start \in Nat /\ End \in Nat
<1>1. Width \in Nat \ {0} /\ Height \in Nat \ {0}
  BY ScreenTypes
<1>2. MouseWidth \in Nat \ {0} /\ MouseHeight \in Nat \ {0}
  BY LayersAssumption DEF MouseWidth, MouseHeight
<1>3. \A m, n \in Nat : Area(m, n) \in Nat
  BY DEF Area
<1> QED BY <1>1, <1>2, <1>3, MemoryAssumption DEF Pixels, MousePixels

\* The points of the layers have an address of their own in the memory.
LEMMA PointsApart ==
  ASSUME vmode \in {"vbe", "vga"}, NEW b \in Int, NEW c \in Int, NEW d \in Int,
         Start <= b, b + Pixels <= c, c + Pixels <= d, d + MousePixels <= End
  PROVE  /\ \A x \in 0 .. Width - 1, y \in 0 .. Height - 1 :
              /\ Point(b, Width, x, y) \in Memory
              /\ b <= Point(b, Width, x, y) /\ Point(b, Width, x, y) < b + Pixels
              /\ Point(c, Width, x, y) \in Memory
              /\ c <= Point(c, Width, x, y) /\ Point(c, Width, x, y) < c + Pixels
         /\ \A x \in 0 .. MouseWidth - 1, y \in 0 .. MouseHeight - 1 :
              /\ Point(d, MouseWidth, x, y) \in Memory
              /\ d <= Point(d, MouseWidth, x, y)
              /\ Point(d, MouseWidth, x, y) < d + MousePixels
<1>1. /\ Width \in Nat /\ Height \in Nat /\ Pixels \in Nat
      /\ MouseWidth \in Nat /\ MouseHeight \in Nat /\ MousePixels \in Nat
      /\ Start \in Nat /\ End \in Nat
  BY Sizes
<1>2. ASSUME NEW a \in Int, NEW x \in 0 .. Width - 1, NEW y \in 0 .. Height - 1,
             Start <= a, a + Pixels <= End
      PROVE  /\ Point(a, Width, x, y) \in Memory
             /\ a <= Point(a, Width, x, y) /\ Point(a, Width, x, y) < a + Pixels
  <2>1. /\ Point(a, Width, x, y) \in Int
        /\ a <= Point(a, Width, x, y) /\ Point(a, Width, x, y) < a + Pixels
    BY <1>1, PointInside DEF Pixels
  <2> QED BY <1>1, <1>2, <2>1 DEF Memory
<1>3. ASSUME NEW x \in 0 .. MouseWidth - 1, NEW y \in 0 .. MouseHeight - 1
      PROVE  /\ Point(d, MouseWidth, x, y) \in Memory
             /\ d <= Point(d, MouseWidth, x, y)
             /\ Point(d, MouseWidth, x, y) < d + MousePixels
  <2>1. /\ Point(d, MouseWidth, x, y) \in Int
        /\ d <= Point(d, MouseWidth, x, y)
        /\ Point(d, MouseWidth, x, y) < d + MousePixels
    BY <1>1, PointInside DEF MousePixels
  <2> QED BY <1>1, <2>1 DEF Memory
<1>4. /\ Start <= b /\ b + Pixels <= End
      /\ Start <= c /\ c + Pixels <= End
  BY <1>1
<1> QED BY <1>2, <1>3, <1>4

-----------------------------------------------------------------------------
(* Printing changes one row of the background and nothing else.            *)

RowOnly(mem, new, c, row) ==
  /\ new = [a \in Memory |-> new[a]]
  /\ \A a \in Memory : (a < c \/ c + Pixels <= a) => new[a] = mem[a]
  /\ Painted(new, c)
  /\ \A x \in 0 .. Width - 1, y \in 0 .. Height - 1 :
       Height - y \notin TEXT_HEIGHT * (row - 1) + 1 .. TEXT_HEIGHT * row
         => new[Point(c, Width, x, y)] = mem[Point(c, Width, x, y)]

LEMMA RowTwice ==
  ASSUME NEW mem, NEW m, NEW new, NEW c, NEW row,
         RowOnly(mem, m, c, row), RowOnly(m, new, c, row)
  PROVE  RowOnly(mem, new, c, row)
BY DEF RowOnly

LEMMA BoxInRow ==
  ASSUME vmode \in {"vbe", "vga"}, NEW c \in Int, Start <= c, c + Pixels <= End,
         NEW mem, mem = [a \in Memory |-> mem[a]], Painted(mem, c),
         NEW colour \in Colours,
         NEW row \in TASK_ROWS \cup {1}, NEW length \in TEXT_LENGTHS \cup {1}
  PROVE  RowOnly(mem, box_fill8(mem, c, Width, colour,
                                TEXT_X, Height - TEXT_HEIGHT * row,
                                TEXT_X + length,
                                Height - TEXT_HEIGHT * row + TEXT_HEIGHT),
                 c, row)
<1> DEFINE y0 == Height - TEXT_HEIGHT * row
           x1 == TEXT_X + length
           y1 == y0 + TEXT_HEIGHT
           new == box_fill8(mem, c, Width, colour, TEXT_X, y0, x1, y1)
           t == TEXT_HEIGHT * row
<1>1. /\ Width \in Nat /\ Height \in Nat /\ Pixels \in Nat
      /\ Start \in Nat /\ End \in Nat
  BY Sizes
<1>2. /\ TEXT_X \in Nat /\ TEXT_HEIGHT \in Nat /\ length \in Nat
      /\ row \in Nat \ {0}
  BY LayersAssumption
<1>3. TEXT_X + length <= Width /\ t <= Height
  BY LayersAssumption, BootAssumption DEF Width, Height
<1>4. /\ t \in Nat /\ TEXT_HEIGHT <= t
      /\ TEXT_HEIGHT * (row - 1) = t - TEXT_HEIGHT
  <2>1. row - 1 \in Nat /\ TEXT_HEIGHT * (row - 1) \in Nat
    BY <1>2
  <2>2. TEXT_HEIGHT * (row - 1) = TEXT_HEIGHT * row - TEXT_HEIGHT
    BY <1>2
  <2>3. TEXT_HEIGHT * row \in Nat
    BY <1>2
  <2> QED BY <1>2, <2>1, <2>2, <2>3
<1>5. y0 = Height - t /\ y1 = y0 + TEXT_HEIGHT /\ x1 = TEXT_X + length
  OBVIOUS
<1> HIDE DEF t, y0, y1, x1
<1>6. /\ y0 \in Nat /\ y1 <= Height /\ x1 <= Width
      /\ x1 \in Int /\ y1 \in Int
  BY <1>1, <1>2, <1>3, <1>4, <1>5
<1>7. /\ new = [a \in DOMAIN mem |-> new[a]]
      /\ \A a \in DOMAIN mem : (a < c \/ c + Pixels <= a) => new[a] = mem[a]
      /\ \A a \in DOMAIN mem : new[a] \in {colour, mem[a]}
      /\ \A x \in 0 .. Width - 1, y \in 0 .. Height - 1 :
           Point(c, Width, x, y) \in DOMAIN mem =>
             /\ x \in TEXT_X .. x1 - 1 /\ y \in y0 .. y1 - 1 =>
                  new[Point(c, Width, x, y)] = colour
             /\ y \notin y0 .. y1 - 1 =>
                  new[Point(c, Width, x, y)] = mem[Point(c, Width, x, y)]
  <2>1. new = box_fill8(mem, c, Width, colour, TEXT_X, y0, x1, y1)
    OBVIOUS
  <2>2. Pixels = Area(Width, Height)
    BY DEF Pixels
  <2> HIDE DEF new
  <2>3. Boxed(mem, new, c, Width, Height, colour, TEXT_X, y0, x1, y1)
    BY <1>1, <1>2, <1>6, <2>1, BoxFilled
  <2> QED BY <2>2, <2>3 DEF Boxed
<1>8. DOMAIN mem = Memory
  <2>1. DOMAIN [a \in Memory |-> mem[a]] = Memory
    OBVIOUS
  <2> QED BY <2>1
<1> HIDE DEF new
<1>9. ASSUME NEW x \in 0 .. Width - 1, NEW y \in 0 .. Height - 1
      PROVE  /\ new[Point(c, Width, x, y)] \in Colours
             /\ Height - y \notin TEXT_HEIGHT * (row - 1) + 1 .. t =>
                  new[Point(c, Width, x, y)] = mem[Point(c, Width, x, y)]
  <2>1. Point(c, Width, x, y) \in Memory
    <3>1. /\ Point(c, Width, x, y) \in Int /\ c <= Point(c, Width, x, y)
          /\ Point(c, Width, x, y) < c + Pixels
      BY <1>1, PointInside DEF Pixels
    <3> QED BY <1>1, <3>1 DEF Memory
  <2>2. new[Point(c, Width, x, y)] \in Colours
    <3>1. mem[Point(c, Width, x, y)] \in Colours
      BY DEF Painted
    <3> QED BY <1>7, <1>8, <2>1, <3>1
  <2>3. ASSUME Height - y \notin TEXT_HEIGHT * (row - 1) + 1 .. t
        PROVE  y \notin y0 .. y1 - 1
    BY <1>1, <1>2, <1>4, <1>5, <2>3
  <2> QED BY <1>7, <1>8, <2>1, <2>2, <2>3
<1>10. Painted(new, c)
  BY <1>9 DEF Painted
<1>11. /\ new = [a \in Memory |-> new[a]]
       /\ \A a \in Memory : (a < c \/ c + Pixels <= a) => new[a] = mem[a]
  BY <1>7, <1>8
<1> QED BY <1>9, <1>10, <1>11 DEF RowOnly, new, y0, y1, x1, t

-----------------------------------------------------------------------------
(* The steps of the main loop.                                             *)

LEMMA LayersAre ==
  ASSUME NEW b, NEW c, NEW d, NEW x, NEW y, Layered(b, c, d, x, y)
  PROVE  /\ Background = BackgroundAt(c) /\ Mouse = MouseAt(x, y, d)
         /\ Background.content = c /\ Background.width = Width
         /\ Background.height = Height
         /\ Mouse.loc_x = x /\ Mouse.loc_y = y
         /\ ctl.max_x = Width /\ ctl.max_y = Height /\ ctl.buf = b
BY DEF Layered, Background, Mouse, Control, BackgroundAt, MouseAt, LayerAt

\* The picture in the buffer: the mouse over the background.
Buffered(mem, new, b, c, x, y) ==
  /\ new = [a \in Memory |-> new[a]]
  /\ \A a \in Memory : (a < b \/ b + Pixels <= a) => new[a] = mem[a]
  /\ \A u \in 0 .. Width - 1, v \in 0 .. Height - 1 :
       new[Point(b, Width, u, v)]
         = IF u - x \in 0 .. MouseWidth - 1 /\ v - y \in 0 .. MouseHeight - 1
           THEN "black" ELSE mem[Point(c, Width, u, v)]

LEMMA DrawnInBuffer ==
  ASSUME vmode \in {"vbe", "vga"},
         NEW b \in Int, NEW c \in Int, NEW d \in Int, NEW x \in Int, NEW y \in Int,
         Layered(b, c, d, x, y), ram = [a \in Memory |-> ram[a]],
         layerctl_draw
  PROVE  Buffered(ram, ram', b, c, x, y)
<1> DEFINE m == Over(ram, Background)
           new == Over(m, Mouse)
<1>1. /\ Width \in Nat /\ Height \in Nat /\ Pixels \in Nat
      /\ MouseWidth \in Nat /\ MouseHeight \in Nat /\ MousePixels \in Nat
      /\ Start \in Nat /\ End \in Nat
  BY Sizes
<1>2. /\ ctl = Control(<<BackgroundAt(c), MouseAt(x, y, d)>>, b)
      /\ Start <= b /\ b + Pixels <= c /\ c + Pixels <= d /\ d + MousePixels <= End
      /\ Painted(ram, c) /\ Black(ram, d)
  BY DEF Layered
<1>3. DOMAIN ram = Memory
  <2>1. DOMAIN [a \in Memory |-> ram[a]] = Memory
    OBVIOUS
  <2> QED BY <2>1
<1>4. Pixels = Area(Width, Height)
  BY DEF Pixels
<1>5. m = Over(ram, LayerAt(0, 0, Width, Height, c))
  BY LayersAre DEF BackgroundAt
<1>6. new = Over(m, LayerAt(x, y, MouseWidth, MouseHeight, d))
  BY LayersAre DEF MouseAt
<1>7. ram' = new
  BY DEF layerctl_draw
<1> HIDE DEF m, new
<1>8. \A u \in 0 .. Width - 1, v \in 0 .. Height - 1 :
        ram[Point(c, Width, u, v)] # "transparent"
  BY <1>2 DEF Painted, Colours
<1>9. Drawn(ram, m, b, 0, 0, Width, Height, c)
  <2>1. ctl.max_x = Width /\ ctl.max_y = Height /\ ctl.buf = b
    BY LayersAre
  <2>2. 0 \in Int
    OBVIOUS
  <2> QED BY <1>1, <1>5, <1>8, <2>1, <2>2, LayerDrawn
<1>10. /\ m = [a \in Memory |-> m[a]]
       /\ \A a \in Memory : (a < b \/ b + Pixels <= a) => m[a] = ram[a]
  BY <1>3, <1>4, <1>9 DEF Drawn
<1>11. DOMAIN m = Memory
  <2>1. DOMAIN [a \in Memory |-> m[a]] = Memory
    OBVIOUS
  <2> QED BY <1>10, <2>1
<1>12. ASSUME NEW u \in 0 .. Width - 1, NEW v \in 0 .. Height - 1
       PROVE  m[Point(b, Width, u, v)] = ram[Point(c, Width, u, v)]
  <2>1. Point(b, Width, u, v) \in DOMAIN ram
    BY <1>2, <1>3, PointsApart
  <2>2. u - 0 = u /\ v - 0 = v
    OBVIOUS
  <2> QED BY <1>9, <2>1, <2>2 DEF Drawn
<1>13. ASSUME NEW u \in 0 .. MouseWidth - 1, NEW v \in 0 .. MouseHeight - 1
       PROVE  m[Point(d, MouseWidth, u, v)] = "black"
  <2>1. /\ Point(d, MouseWidth, u, v) \in Memory
        /\ d <= Point(d, MouseWidth, u, v)
    BY <1>2, PointsApart
  <2>2. b + Pixels <= Point(d, MouseWidth, u, v)
    <3>1. b + Pixels <= d /\ b + Pixels \in Int
      BY <1>1, <1>2
    <3>2. Point(d, MouseWidth, u, v) \in Int
      BY <2>1 DEF Memory
    <3> QED BY <2>1, <3>1, <3>2
  <2>3. ram[Point(d, MouseWidth, u, v)] = "black"
    BY <1>2 DEF Black
  <2> QED BY <1>10, <2>1, <2>2, <2>3
<1>14. \A u \in 0 .. MouseWidth - 1, v \in 0 .. MouseHeight - 1 :
         m[Point(d, MouseWidth, u, v)] # "transparent"
  BY <1>13
<1>15. Drawn(m, new, b, x, y, MouseWidth, MouseHeight, d)
  BY <1>1, <1>6, <1>14, LayersAre, LayerDrawn
<1>16. /\ new = [a \in Memory |-> new[a]]
       /\ \A a \in Memory : (a < b \/ b + Pixels <= a) => new[a] = m[a]
  BY <1>4, <1>11, <1>15 DEF Drawn
<1>17. ASSUME NEW u \in 0 .. Width - 1, NEW v \in 0 .. Height - 1
       PROVE  new[Point(b, Width, u, v)]
                = IF u - x \in 0 .. MouseWidth - 1 /\ v - y \in 0 .. MouseHeight - 1
                  THEN "black" ELSE ram[Point(c, Width, u, v)]
  <2>1. Point(b, Width, u, v) \in DOMAIN m
    BY <1>2, <1>11, PointsApart
  <2>2. new[Point(b, Width, u, v)]
          = IF u - x \in 0 .. MouseWidth - 1 /\ v - y \in 0 .. MouseHeight - 1
            THEN m[Point(d, MouseWidth, u - x, v - y)]
            ELSE m[Point(b, Width, u, v)]
    BY <1>15, <2>1 DEF Drawn
  <2> QED BY <1>12, <1>13, <2>2
<1> QED BY <1>7, <1>10, <1>16, <1>17 DEF Buffered

LEMMA Prints ==
  ASSUME vmode \in {"vbe", "vga"},
         NEW b \in Int, NEW c \in Int, NEW d \in Int, NEW x \in Int, NEW y \in Int,
         Layered(b, c, d, x, y), ram = [a \in Memory |-> ram[a]],
         half \subseteq [row : TASK_ROWS, length : TEXT_LENGTHS]
  PROVE  /\ Key \/ MouseReport => RowOnly(ram, ram', c, 1)
         /\ TaskBox \/ TaskText => \E row \in TASK_ROWS : RowOnly(ram, ram', c, row)
<1>1. /\ Start <= c /\ c + Pixels <= End /\ Painted(ram, c)
  <2>1. /\ Pixels \in Nat /\ MousePixels \in Nat /\ Start \in Nat /\ End \in Nat
    BY Sizes
  <2> QED BY <2>1 DEF Layered
<1>2. /\ Background.content = c /\ Background.width = Width
      /\ Background.height = Height
  BY LayersAre
<1>3. ASSUME NEW mem, mem = [a \in Memory |-> mem[a]], Painted(mem, c),
             NEW colour \in Colours, NEW row \in TASK_ROWS \cup {1},
             NEW length \in TEXT_LENGTHS
      PROVE  RowOnly(mem, box_fill8(mem, c, Width, colour, TEXT_X, RowAt(row),
                                    TEXT_X + length, RowAt(row) + TEXT_HEIGHT),
                     c, row)
  <2>1. RowAt(row) = Height - TEXT_HEIGHT * row
    BY <1>2 DEF RowAt
  <2>2. length \in TEXT_LENGTHS \cup {1}
    OBVIOUS
  <2> QED BY <1>1, <1>3, <2>1, <2>2, BoxInRow
<1>4. "black" \in Colours /\ "white" \in Colours /\ 1 \in TASK_ROWS \cup {1}
  BY DEF Colours
<1>5. ASSUME NEW length \in TEXT_LENGTHS, NEW lit \in BOOLEAN,
             PrintInBackground(length, lit)
      PROVE  RowOnly(ram, ram', c, 1)
  <2> DEFINE m == box_fill8(ram, c, Width, "black", TEXT_X, RowAt(1),
                            TEXT_X + length, RowAt(1) + TEXT_HEIGHT)
             n == box_fill8(m, c, Width, "white", TEXT_X, RowAt(1),
                            TEXT_X + length, RowAt(1) + TEXT_HEIGHT)
  <2>1. ram' = IF lit THEN n ELSE m
    BY <1>2, <1>5 DEF PrintInBackground, put_ascii_str8_bg, put_ascii_str8
  <2>2. RowOnly(ram, m, c, 1)
    BY <1>1, <1>3, <1>4
  <2> HIDE DEF m
  <2>3. m = [a \in Memory |-> m[a]] /\ Painted(m, c)
    BY <2>2 DEF RowOnly
  <2>4. RowOnly(m, n, c, 1)
    BY <1>3, <1>4, <2>3
  <2> HIDE DEF n
  <2>5. RowOnly(ram, n, c, 1)
    BY <2>2, <2>4, RowTwice
  <2> QED BY <2>1, <2>2, <2>5
<1>6. ASSUME Key \/ MouseReport PROVE RowOnly(ram, ram', c, 1)
  <2>1. PICK length \in TEXT_LENGTHS, lit \in BOOLEAN : PrintInBackground(length, lit)
    BY <1>6 DEF Key, MouseReport
  <2> QED BY <1>5, <2>1
<1>7. ASSUME TaskBox PROVE \E row \in TASK_ROWS : RowOnly(ram, ram', c, row)
  <2>1. PICK row \in TASK_ROWS, length \in TEXT_LENGTHS :
          ram' = box_fill8(ram, c, Width, "black", TEXT_X, RowAt(row),
                           TEXT_X + length, RowAt(row) + TEXT_HEIGHT)
    BY <1>2, <1>7 DEF TaskBox
  <2>2. RowOnly(ram, ram', c, row)
    BY <1>1, <1>3, <1>4, <2>1
  <2> QED BY <2>2
<1>8. ASSUME TaskText PROVE \E row \in TASK_ROWS : RowOnly(ram, ram', c, row)
  <2>1. PICK text \in half :
          ram' = put_ascii_str8(ram, c, Width, TEXT_X, RowAt(text.row),
                                text.length, TRUE)
    BY <1>2, <1>8 DEF TaskText
  <2>2. text.row \in TASK_ROWS /\ text.length \in TEXT_LENGTHS
    OBVIOUS
  <2>3. ram' = box_fill8(ram, c, Width, "white", TEXT_X, RowAt(text.row),
                         TEXT_X + text.length, RowAt(text.row) + TEXT_HEIGHT)
    BY <2>1 DEF put_ascii_str8
  <2>4. RowOnly(ram, ram', c, text.row)
    BY <1>1, <1>3, <1>4, <2>2, <2>3
  <2> QED BY <2>2, <2>4
<1> QED BY <1>6, <1>7, <1>8

\* A report moves the mouse's layer and leaves the rest of ctl alone.
LEMMA MouseMoves ==
  ASSUME NEW b \in Int, NEW c \in Int, NEW d \in Int, NEW x \in Int, NEW y \in Int,
         Layered(b, c, d, x, y), MouseReport
  PROVE  \E u, v \in Int :
           ctl' = Control(<<BackgroundAt(c), MouseAt(u, v, d)>>, b)
<1>1. PICK m \in Moves :
        ctl' = [ctl EXCEPT !.layers[2].loc_x = @ + m[1],
                           !.layers[2].loc_y = @ + m[2]]
  BY DEF MouseReport
<1>2. m[1] \in Int /\ m[2] \in Int
  BY LayersAssumption
<1> DEFINE u == x + m[1]
           v == y + m[2]
           mouse == MouseAt(x, y, d)
<1>3. u \in Int /\ v \in Int
  BY <1>2
<1>4. ctl = Control(<<BackgroundAt(c), mouse>>, b)
  BY DEF Layered
<1>5. [mouse EXCEPT !.loc_x = @ + m[1]] = MouseAt(u, y, d)
  BY DEF MouseAt, LayerAt
<1>6. [MouseAt(u, y, d) EXCEPT !.loc_y = @ + m[2]] = MouseAt(u, v, d)
  BY DEF MouseAt, LayerAt
<1> HIDE DEF u, v, mouse
<1>7. [ctl EXCEPT !.layers[2].loc_x = @ + m[1]]
        = Control(<<BackgroundAt(c), MouseAt(u, y, d)>>, b)
  <2>1. [ctl EXCEPT !.layers[2].loc_x = @ + m[1]]
          = Control(<<BackgroundAt(c), [mouse EXCEPT !.loc_x = @ + m[1]]>>, b)
    BY <1>4 DEF Control
  <2> QED BY <1>5, <2>1
<1>8. [Control(<<BackgroundAt(c), MouseAt(u, y, d)>>, b)
         EXCEPT !.layers[2].loc_y = @ + m[2]]
        = Control(<<BackgroundAt(c), MouseAt(u, v, d)>>, b)
  <2>1. [Control(<<BackgroundAt(c), MouseAt(u, y, d)>>, b)
           EXCEPT !.layers[2].loc_y = @ + m[2]]
          = Control(<<BackgroundAt(c),
                      [MouseAt(u, y, d) EXCEPT !.loc_y = @ + m[2]]>>, b)
    BY DEF Control
  <2> QED BY <1>6, <2>1
<1>9. ctl' = [[ctl EXCEPT !.layers[2].loc_x = @ + m[1]]
                EXCEPT !.layers[2].loc_y = @ + m[2]]
  BY <1>1
<1> QED BY <1>3, <1>7, <1>8, <1>9

LEMMA SameScreen ==
  ASSUME vmode' = vmode
  PROVE  /\ Width' = Width /\ Height' = Height /\ Pixels' = Pixels
         /\ \A layers, b : Control(layers, b)' = Control(layers, b)
         /\ \A c : BackgroundAt(c)' = BackgroundAt(c)
         /\ \A mem, c : Painted(mem, c)' = Painted(mem, c)
<1>1. Width' = Width /\ Height' = Height
  BY DEF Width, Height
<1> QED BY <1>1 DEF Pixels, Control, BackgroundAt, Painted

\* The layers stay where they are when no point of them changes.
LEMMA LayeredNext ==
  ASSUME vmode \in {"vbe", "vga"}, vmode' = vmode,
         NEW b \in Int, NEW c \in Int, NEW d \in Int,
         NEW x \in Int, NEW y \in Int, NEW u \in Int, NEW v \in Int,
         Layered(b, c, d, x, y),
         ctl' = Control(<<BackgroundAt(c), MouseAt(u, v, d)>>, b),
         Painted(ram', c), Black(ram', d)
  PROVE  Layered(b, c, d, u, v)'
<1>1. /\ Pixels' = Pixels
      /\ ctl' = Control(<<BackgroundAt(c), MouseAt(u, v, d)>>, b)'
  BY SameScreen DEF BackgroundAt, LayerAt, Control
<1>2. /\ Start <= b /\ b + Pixels <= c /\ c + Pixels <= d
      /\ d + MousePixels <= End
  BY DEF Layered
<1>3. \A x1 \in 0 .. Width' - 1, y1 \in 0 .. Height' - 1 :
        ram'[Point(c, Width', x1, y1)] \in Colours
  BY SameScreen DEF Painted
<1>4. Black(ram, d)' = Black(ram', d)
  BY DEF Black
<1> QED BY <1>1, <1>2, <1>3, <1>4 DEF Layered, Painted

LEMMA LoopLayered ==
  ASSUME vmode \in {"vbe", "vga"}, vmode' = vmode,
         NEW b \in Int, NEW c \in Int, NEW d \in Int, NEW x \in Int, NEW y \in Int,
         Layered(b, c, d, x, y), ram = [a \in Memory |-> ram[a]],
         half \subseteq [row : TASK_ROWS, length : TEXT_LENGTHS]
  PROVE  /\ Redraw \/ TaskBox \/ TaskText \/ Key =>
              /\ ram' = [a \in Memory |-> ram'[a]]
              /\ Layered(b, c, d, x, y)'
         /\ MouseReport =>
              /\ ram' = [a \in Memory |-> ram'[a]]
              /\ \E u, v \in Int : Layered(b, c, d, u, v)'
<1>1. /\ ctl = Control(<<BackgroundAt(c), MouseAt(x, y, d)>>, b)
      /\ Start <= b /\ b + Pixels <= c /\ c + Pixels <= d /\ d + MousePixels <= End
      /\ Painted(ram, c) /\ Black(ram, d)
  BY DEF Layered
<1>2. /\ Pixels \in Nat /\ MousePixels \in Nat /\ Start \in Nat /\ End \in Nat
  BY Sizes
<1>3. ASSUME NEW row, RowOnly(ram, ram', c, row)
      PROVE  /\ ram' = [a \in Memory |-> ram'[a]]
             /\ Painted(ram', c) /\ Black(ram', d)
  <2>1. ASSUME NEW u \in 0 .. MouseWidth - 1, NEW v \in 0 .. MouseHeight - 1
        PROVE  ram'[Point(d, MouseWidth, u, v)] = "black"
    <3> DEFINE a == Point(d, MouseWidth, u, v)
    <3>1. a \in Memory /\ d <= a
      BY <1>1, PointsApart
    <3>2. a \in Int /\ c + Pixels \in Int
      BY <1>2, <3>1 DEF Memory
    <3> HIDE DEF a
    <3>3. c + Pixels <= a
      BY <1>1, <3>1, <3>2
    <3>4. ram'[a] = ram[a]
      BY <1>3, <3>1, <3>3 DEF RowOnly
    <3> QED BY <1>1, <3>4 DEF a, Black
  <2> QED BY <1>3, <2>1 DEF RowOnly, Black
<1>4. ASSUME Key \/ TaskBox \/ TaskText
      PROVE  /\ ram' = [a \in Memory |-> ram'[a]]
             /\ Layered(b, c, d, x, y)'
  <2>1. PICK row \in TASK_ROWS \cup {1} : RowOnly(ram, ram', c, row)
    BY <1>4, Prints
  <2>2. ctl' = ctl
    BY <1>4 DEF Key, TaskBox, TaskText
  <2> QED BY <1>1, <1>3, <2>1, <2>2, LayeredNext
<1>5. ASSUME MouseReport
      PROVE  /\ ram' = [a \in Memory |-> ram'[a]]
             /\ \E u, v \in Int : Layered(b, c, d, u, v)'
  <2>1. PICK u \in Int, v \in Int :
          ctl' = Control(<<BackgroundAt(c), MouseAt(u, v, d)>>, b)
    BY <1>5, MouseMoves
  <2>2. RowOnly(ram, ram', c, 1)
    BY <1>5, Prints
  <2>3. Layered(b, c, d, u, v)'
    BY <1>1, <1>3, <2>1, <2>2, LayeredNext
  <2> QED BY <1>3, <2>2, <2>3
<1>6. ASSUME Redraw
      PROVE  /\ ram' = [a \in Memory |-> ram'[a]]
             /\ Layered(b, c, d, x, y)'
  <2>1. /\ ram' = [a \in Memory |-> ram'[a]]
        /\ \A a \in Memory : (a < b \/ b + Pixels <= a) => ram'[a] = ram[a]
    BY <1>6, DrawnInBuffer DEF Redraw, Buffered
  <2>2. ASSUME NEW u \in 0 .. Width - 1, NEW v \in 0 .. Height - 1
        PROVE  ram'[Point(c, Width, u, v)] = ram[Point(c, Width, u, v)]
    <3> DEFINE a == Point(c, Width, u, v)
    <3>1. a \in Memory /\ c <= a
      BY <1>1, PointsApart
    <3>2. a \in Int /\ b + Pixels \in Int
      BY <1>2, <3>1 DEF Memory
    <3> HIDE DEF a
    <3>3. b + Pixels <= a
      BY <1>1, <3>1, <3>2
    <3> QED BY <2>1, <3>1, <3>3 DEF a
  <2>3. ASSUME NEW u \in 0 .. MouseWidth - 1, NEW v \in 0 .. MouseHeight - 1
        PROVE  ram'[Point(d, MouseWidth, u, v)] = ram[Point(d, MouseWidth, u, v)]
    <3> DEFINE a == Point(d, MouseWidth, u, v)
    <3>1. a \in Memory /\ d <= a
      BY <1>1, PointsApart
    <3>2. a \in Int
      BY <1>2, <3>1 DEF Memory
    <3> HIDE DEF a
    <3>3. b + Pixels \in Int /\ b + Pixels <= d
      BY <1>1, <1>2
    <3>4. b + Pixels <= a
      BY <3>1, <3>2, <3>3
    <3> QED BY <2>1, <3>1, <3>4 DEF a
  <2>4. Painted(ram', c)
    BY <1>1, <2>2 DEF Painted
  <2>5. Black(ram', d)
    BY <1>1, <2>3 DEF Black
  <2>6. ctl' = ctl
    BY <1>6 DEF Redraw
  <2> QED BY <1>1, <2>1, <2>4, <2>5, <2>6, LayeredNext
<1> QED BY <1>4, <1>5, <1>6

-----------------------------------------------------------------------------
(* Start-up.                                                               *)

LEMMA FullBox ==
  ASSUME NEW c \in Int, NEW w \in Nat, NEW h \in Nat,
         Start <= c, c + Area(w, h) <= End,
         NEW mem, mem = [a \in Memory |-> mem[a]], NEW colour,
         NEW new, new = box_fill8(mem, c, w, colour, 0, 0, w, h)
  PROVE  /\ new = [a \in Memory |-> new[a]]
         /\ \A a \in Memory : (a < c \/ c + Area(w, h) <= a) => new[a] = mem[a]
         /\ \A x \in 0 .. w - 1, y \in 0 .. h - 1 :
              new[Point(c, w, x, y)] = colour
<1>1. DOMAIN mem = Memory
  <2>1. DOMAIN [a \in Memory |-> mem[a]] = Memory
    OBVIOUS
  <2> QED BY <2>1
<1>2. Boxed(mem, new, c, w, h, colour, 0, 0, w, h)
  <2>1. 0 \in Nat /\ w \in Int /\ h \in Int /\ w <= w /\ h <= h
    OBVIOUS
  <2> QED BY <2>1, BoxFilled
<1>3. \A x \in 0 .. w - 1, y \in 0 .. h - 1 : Point(c, w, x, y) \in Memory
  <2>1. ASSUME NEW x \in 0 .. w - 1, NEW y \in 0 .. h - 1
        PROVE  Point(c, w, x, y) \in Memory
    <3>1. /\ Point(c, w, x, y) \in Int /\ Area(w, h) \in Nat
          /\ c <= Point(c, w, x, y) /\ Point(c, w, x, y) < c + Area(w, h)
      BY PointInside
    <3>2. Start \in Int /\ End \in Int
      BY MemoryAssumption
    <3>3. Start <= Point(c, w, x, y) /\ Point(c, w, x, y) <= End - 1
      BY <3>1, <3>2
    <3> QED BY <3>1, <3>2, <3>3 DEF Memory
  <2> QED BY <2>1
<1> QED BY <1>1, <1>2, <1>3 DEF Boxed

\* What alloc_layer clears and MyOSMain fills, the whole layer.
LEMMA Filling ==
  ASSUME NEW c \in Int, NEW w \in Nat, NEW h \in Nat,
         Start <= c, c + Area(w, h) <= End,
         ram = [a \in Memory |-> ram[a]], NEW colour, NEW new,
         new = box_fill8(box_fill8(ram, c, w, "transparent", 0, 0, w, h),
                         c, w, colour, 0, 0, w, h)
  PROVE  /\ new = [a \in Memory |-> new[a]]
         /\ \A a \in Memory : (a < c \/ c + Area(w, h) <= a) => new[a] = ram[a]
         /\ \A x \in 0 .. w - 1, y \in 0 .. h - 1 :
              new[Point(c, w, x, y)] = colour
<1> DEFINE m == box_fill8(ram, c, w, "transparent", 0, 0, w, h)
<1>1. new = box_fill8(m, c, w, colour, 0, 0, w, h)
  OBVIOUS
<1>2. m = box_fill8(ram, c, w, "transparent", 0, 0, w, h)
  OBVIOUS
<1> HIDE DEF m
<1>3. /\ m = [a \in Memory |-> m[a]]
      /\ \A a \in Memory : (a < c \/ c + Area(w, h) <= a) => m[a] = ram[a]
  BY <1>2, FullBox
<1> QED BY <1>1, <1>3, FullBox

\* The background is blue with a white text.
LEMMA BackgroundFilled ==
  ASSUME vmode \in {"vbe", "vga"}, vmode' = vmode, AllocContent,
         NEW b \in Int, ctl = Control(<< >>, b),
         ram = [a \in Memory |-> ram[a]],
         result' \in Int, Start <= result', result' + Pixels <= End
  PROVE  /\ ctl' = Control(<<BackgroundAt(result')>>, b)
         /\ ram' = [a \in Memory |-> ram'[a]]
         /\ Painted(ram', result')
<1> DEFINE c == result'
           m == box_fill8(box_fill8(ram, c, Width, "transparent",
                                    0, 0, Width, Height),
                          c, Width, "blue", 0, 0, Width, Height)
<1>1. /\ Width \in Nat \ {0} /\ Height \in Nat \ {0} /\ Pixels \in Nat
  BY Sizes
<1>2. ctl.layers = << >>
  BY DEF Control
<1>3. Asked[1] = Width /\ Asked[2] = Height
  BY <1>2 DEF Asked
<1> DEFINE layer == [loc_x |-> 0, loc_y |-> 0, width |-> Asked[1],
                     height |-> Asked[2], content |-> result']
<1>4. /\ ctl' = [ctl EXCEPT !.layers = Append(@, layer)]
      /\ ram' = Filled(box_fill8(ram, layer.content, layer.width,
                                 "transparent", 0, 0, layer.width,
                                 layer.height), layer)
  BY DEF AllocContent
<1>5. layer = BackgroundAt(c)
  BY <1>3 DEF BackgroundAt, LayerAt
<1>6. layer.content = c /\ layer.width = Width /\ layer.height = Height
  BY <1>3
<1> HIDE DEF layer
<1>7. ram' = box_fill8(m, c, Width, "white", TEXT_X, TEXT_X, TEXT_X + 1,
                       TEXT_X + TEXT_HEIGHT)
  BY <1>2, <1>4, <1>6 DEF Filled, put_ascii_str8
<1> HIDE DEF c
<1>8. c \in Int /\ Start <= c /\ c + Area(Width, Height) <= End
  BY DEF c, Pixels
<1>9. m = box_fill8(box_fill8(ram, c, Width, "transparent",
                                    0, 0, Width, Height),
                          c, Width, "blue", 0, 0, Width, Height)
  OBVIOUS
<1> HIDE DEF m
<1>10. /\ m = [a \in Memory |-> m[a]]
       /\ \A x \in 0 .. Width - 1, y \in 0 .. Height - 1 :
            m[Point(c, Width, x, y)] = "blue"
  BY <1>1, <1>8, <1>9, Filling
<1>11. DOMAIN m = Memory
  <2>1. DOMAIN [a \in Memory |-> m[a]] = Memory
    OBVIOUS
  <2> QED BY <1>10, <2>1
<1> DEFINE x1 == TEXT_X + 1
           y1 == TEXT_X + TEXT_HEIGHT
<1>12. /\ TEXT_X \in Nat /\ x1 \in Int /\ y1 \in Int
       /\ x1 <= Width /\ y1 <= Height
  <2>1. vmode \in DOMAIN SCREEN_SIZE /\ 1 \in TEXT_LENGTHS \cup {1}
    BY BootAssumption
  <2>2. /\ TEXT_X + 1 <= SCREEN_SIZE[vmode][1]
        /\ TEXT_X + TEXT_HEIGHT <= SCREEN_SIZE[vmode][2]
    BY <2>1, LayersAssumption
  <2>3. TEXT_X \in Nat /\ TEXT_HEIGHT \in Nat
    BY LayersAssumption
  <2> QED BY <2>2, <2>3 DEF Width, Height
<1>13. ram' = box_fill8(m, c, Width, "white", TEXT_X, TEXT_X, x1, y1)
  BY <1>7
<1> HIDE DEF x1, y1
<1>14. Boxed(m, ram', c, Width, Height, "white", TEXT_X, TEXT_X, x1, y1)
  BY <1>1, <1>8, <1>12, <1>13, BoxFilled
<1>15. ASSUME NEW x \in 0 .. Width - 1, NEW y \in 0 .. Height - 1
       PROVE  ram'[Point(c, Width, x, y)] \in Colours
  <2>1. Point(c, Width, x, y) \in Memory
    <3>1. /\ Point(c, Width, x, y) \in Int /\ c <= Point(c, Width, x, y)
          /\ Point(c, Width, x, y) < c + Area(Width, Height)
          /\ Area(Width, Height) \in Nat
      BY <1>1, <1>8, PointInside
    <3> QED BY <1>8, <3>1, MemoryAssumption DEF Memory
  <2>2. ram'[Point(c, Width, x, y)] \in {"white", m[Point(c, Width, x, y)]}
    BY <1>11, <1>14, <2>1 DEF Boxed
  <2> QED BY <1>10, <2>2 DEF Colours
<1>16. ctl' = Control(<<BackgroundAt(c)>>, b)
  <2>1. Append(<< >>, BackgroundAt(c)) = <<BackgroundAt(c)>>
    OBVIOUS
  <2> QED BY <1>4, <1>5, <2>1 DEF Control
<1>17. ram' = [a \in Memory |-> ram'[a]]
  BY <1>11, <1>14 DEF Boxed
<1> QED BY <1>15, <1>16, <1>17 DEF Painted, c

LEMMA AppendSecond ==
  ASSUME NEW p, NEW q
  PROVE  Append(<<p>>, q) = <<p, q>>
<1> DEFINE t == Append(<<p>>, q)
           pq == <<p, q>>
           S == {p, q}
<1>1. Len(t) = 2 /\ t[1] = p /\ t[2] = q
  OBVIOUS
<1>2. Len(pq) = 2 /\ pq[1] = p /\ pq[2] = q
  OBVIOUS
<1>3. t \in Seq(S) /\ pq \in Seq(S)
  <2>1. <<p>> \in Seq(S) /\ q \in S /\ pq \in Seq(S)
    OBVIOUS
  <2> QED BY <2>1, AppendProperties
<1> HIDE DEF t, pq, S
<1>4. \A i \in 1 .. 2 : t[i] = pq[i]
  BY <1>1, <1>2
<1>5. t = pq
  BY <1>1, <1>2, <1>3, <1>4, SeqEqual
<1> QED BY <1>5 DEF t, pq

\* The mouse is a black box behind it.
LEMMA MouseFilled ==
  ASSUME vmode \in {"vbe", "vga"}, vmode' = vmode, AllocContent,
         NEW b \in Int, NEW c \in Int, ctl = Control(<<BackgroundAt(c)>>, b),
         Start <= c, c + Pixels <= result',
         Painted(ram, c), ram = [a \in Memory |-> ram[a]],
         result' \in Int, result' + MousePixels <= End
  PROVE  /\ ctl' = Control(<<BackgroundAt(c), MouseAt(0, 0, result')>>, b)
         /\ ram' = [a \in Memory |-> ram'[a]]
         /\ Painted(ram', c) /\ Black(ram', result')
         /\ \A x \in 0 .. Width - 1, y \in 0 .. Height - 1 :
              ram'[Point(c, Width, x, y)] = ram[Point(c, Width, x, y)]
<1> DEFINE d == result'
<1>1. /\ Width \in Nat \ {0} /\ Height \in Nat \ {0} /\ Pixels \in Nat
      /\ MouseWidth \in Nat \ {0} /\ MouseHeight \in Nat \ {0}
      /\ MousePixels \in Nat /\ Start \in Nat /\ End \in Nat
  BY Sizes
<1>2. ctl.layers = <<BackgroundAt(c)>> /\ ctl.layers # << >>
  BY DEF Control
<1>3. Asked[1] = MouseWidth /\ Asked[2] = MouseHeight
  BY <1>2 DEF Asked, MouseWidth, MouseHeight
<1> DEFINE layer == [loc_x |-> 0, loc_y |-> 0, width |-> Asked[1],
                     height |-> Asked[2], content |-> result']
<1>4. /\ ctl' = [ctl EXCEPT !.layers = Append(@, layer)]
      /\ ram' = Filled(box_fill8(ram, layer.content, layer.width,
                                 "transparent", 0, 0, layer.width,
                                 layer.height), layer)
  BY DEF AllocContent
<1>5. layer = MouseAt(0, 0, d)
  BY <1>3 DEF MouseAt, LayerAt
<1>6. layer.content = d /\ layer.width = MouseWidth /\ layer.height = MouseHeight
  BY <1>3
<1> HIDE DEF layer
<1>7. ram' = box_fill8(box_fill8(ram, d, MouseWidth, "transparent",
                                 0, 0, MouseWidth, MouseHeight),
                       d, MouseWidth, "black", 0, 0, MouseWidth, MouseHeight)
  BY <1>2, <1>4, <1>6 DEF Filled
<1> HIDE DEF d
<1>8. /\ d \in Int /\ Start <= d /\ d + Area(MouseWidth, MouseHeight) <= End
      /\ c + Pixels <= d
  BY <1>1 DEF d, MousePixels
<1>9. /\ ram' = [a \in Memory |-> ram'[a]]
      /\ \A a \in Memory :
           (a < d \/ d + Area(MouseWidth, MouseHeight) <= a) => ram'[a] = ram[a]
      /\ \A x \in 0 .. MouseWidth - 1, y \in 0 .. MouseHeight - 1 :
           ram'[Point(d, MouseWidth, x, y)] = "black"
  BY <1>1, <1>7, <1>8, Filling
<1>10. ASSUME NEW x \in 0 .. Width - 1, NEW y \in 0 .. Height - 1
       PROVE  ram'[Point(c, Width, x, y)] = ram[Point(c, Width, x, y)]
  <2> DEFINE a == Point(c, Width, x, y)
  <2>1. a \in Int /\ c <= a /\ a < c + Pixels
    BY <1>1, PointInside DEF Pixels
  <2>2. d <= End
    BY <1>1, <1>8 DEF MousePixels
  <2> HIDE DEF a
  <2>3. a \in Memory /\ a < d
    <3>1. c + Pixels \in Int
      BY <1>1
    <3>2. a < d
      BY <1>8, <2>1, <3>1
    <3>3. /\ a \in Int /\ Start \in Int /\ End \in Int /\ d \in Int
          /\ Start <= a /\ a < End
      BY <1>1, <1>8, <2>1, <2>2, <3>2
    <3> QED BY <3>2, <3>3 DEF Memory
  <2> QED BY <1>9, <2>3 DEF a
<1>11. ctl' = Control(<<BackgroundAt(c), MouseAt(0, 0, d)>>, b)
  <2>1. Append(<<BackgroundAt(c)>>, MouseAt(0, 0, d))
          = <<BackgroundAt(c), MouseAt(0, 0, d)>>
    BY AppendSecond
  <2> QED BY <1>4, <1>5, <2>1 DEF Control
<1>12. Painted(ram', c)
  BY <1>10 DEF Painted
<1>13. Black(ram', d)
  BY <1>9 DEF Black
<1> QED BY <1>9, <1>10, <1>11, <1>12, <1>13 DEF d

-----------------------------------------------------------------------------
(* The layers of the main loop are an invariant.                           *)

LEMMA InitPic == Init => PicInv
<1> SUFFICES ASSUME Init PROVE PicInv
  OBVIOUS
<1>1. /\ pc = "read" /\ ram = [a \in Memory |-> "garbage"]
      /\ screen = << >> /\ half = {}
  BY DEF Init, BootInit, Memory
<1>2. ram = [a \in Memory |-> ram[a]]
  BY <1>1
<1>3. FreeInside
  <2>1. /\ free_info = [k \in 1 .. 1 |-> Mem!Piece(Start, End - Start)]
        /\ Mem!Piece(Start, End - Start).start = Start
        /\ Mem!Piece(Start, End - Start).size = End - Start
    BY DEF Init, Mem!memman_init, Mem!Piece
  <2> QED BY <2>1, MemoryAssumption DEF FreeInside
<1> QED BY <1>1, <1>2, <1>3 DEF PicInv

\* A step that leaves memory and layers alone.
LEMMA PicUnchanged ==
  ASSUME PicInv, UNCHANGED <<free_info, free_num, ram, ctl, screen, half>>,
         \/ pc' = pc /\ vmode' = vmode
         \/ /\ pc \notin {"loop", "null", "halted"}
            /\ pc' \notin {"struct", "content", "loop"}
  PROVE  PicInv'
<1>1. /\ ram' = [a \in Memory |-> ram'[a]]
      /\ half' \subseteq [row : TASK_ROWS, length : TEXT_LENGTHS]
  BY DEF PicInv
<1>2. FreeInside' = FreeInside
  BY DEF FreeInside
<1>3. CASE pc' = pc /\ vmode' = vmode
  <2>1. /\ BufferOnly' = BufferOnly /\ BackgroundOnly' = BackgroundOnly
        /\ Pictured' = Pictured
    BY <1>3, SameScreen
       DEF BufferOnly, BackgroundOnly, Pictured, Layered, FreeFrom, Black,
           Control, BackgroundAt, LayerAt, Width, Height, Painted, Pixels
  <2> QED BY <1>1, <1>2, <1>3, <2>1 DEF PicInv
<1>4. CASE /\ pc \notin {"loop", "null", "halted"}
           /\ pc' \notin {"struct", "content", "loop"}
  BY <1>1, <1>2, <1>4 DEF PicInv
<1> QED BY <1>3, <1>4

LEMMA EarlyPic ==
  PicInv /\ (Boots \/ Answers \/ (Devices /\ UNCHANGED picture) \/ GiveUpLayer)
    => PicInv'
<1> SUFFICES ASSUME PicInv, Boots \/ Answers \/ (Devices /\ UNCHANGED picture)
                              \/ GiveUpLayer
             PROVE  PicInv'
  OBVIOUS
<1>1. CASE GiveUpLayer
  <2>1. pc = "content" /\ pc' = "null" /\ UNCHANGED <<ram, screen, half>>
    BY <1>1 DEF GiveUpLayer, At, GoTo
  <2> QED BY <2>1 DEF PicInv
<1>2. CASE Boots
  <2>1. UNCHANGED <<free_info, free_num, ram, ctl, screen, half>>
    BY <1>2 DEF Boots, picture, man
  <2>2. /\ pc \in {"read", "reset", "video", "command", "gate", "copy"}
        /\ pc' \in {"read", "reset", "halted", "video", "command", "gate",
                    "copy", "kernel"}
    BY <1>2 DEF Boots, BootStep, ReadSector, ReadFails, ResetDrive, SetVideo,
         SendCommand, SendGate, Send, Copy, At, GoTo
  <2> QED BY <2>1, <2>2, PicUnchanged
<1>3. CASE Answers
  <2>1. UNCHANGED <<free_info, free_num, ram, ctl, screen, half, pc, vmode>>
    BY <1>3 DEF Answers, ControllerTakes, picture, man
  <2> QED BY <2>1, PicUnchanged
<1>4. CASE Devices /\ UNCHANGED picture
  <2>1. UNCHANGED <<free_info, free_num, ram, ctl, screen, half>>
    BY <1>4 DEF picture, man
  <2>2. pc \in InKernel /\ pc' \in InKernel \cup {"layerctl"}
    BY <1>4 DEF Devices, SendMode, SendModeByte, SendToMouse, SendEnable, Send,
         At, GoTo, InKernel
  <2> QED BY <2>1, <2>2, PicUnchanged DEF InKernel
<1> QED BY <1>1, <1>2, <1>3, <1>4

LEMMA AllocPic ==
  MemInv /\ PicInv /\ (AllocEarlier \/ AllocLayerctl) => PicInv'
<1> SUFFICES ASSUME MemInv, PicInv, AllocEarlier \/ AllocLayerctl PROVE PicInv'
  OBVIOUS
<1>1. PICK size \in Nat : Mem!memman_alloc(size)
  BY MemoryAssumption, LayersAssumption DEF AllocEarlier, AllocLayerctl
<1>2. /\ pc \in {"kernel", "layerctl"} /\ pc' \in {"halted", "null", "mode", "buf"}
      /\ UNCHANGED <<ram, screen, half>>
  BY DEF AllocEarlier, AllocLayerctl, At, GoTo
<1>3. /\ HandedOut /\ FreeInside
      /\ free_info \in [1 .. free_num -> [start : Int, size : Int]]
  BY <1>2 DEF MemInv, PicInv
<1>4. FreeInside'
  BY <1>1, <1>3, AllocFits
<1> QED BY <1>2, <1>4 DEF PicInv

LEMMA AllocBufPic == MemInv /\ PicInv /\ AllocBuf => PicInv'
<1> SUFFICES ASSUME MemInv, PicInv, AllocBuf PROVE PicInv'
  OBVIOUS
<1> DEFINE size == Mem!RoundUp(Width * Height)
<1>1. /\ pc = "buf" /\ pc' = "struct" /\ UNCHANGED <<ram, screen, half, vmode>>
      /\ Mem!memman_alloc(size) /\ ctl' = Control(<< >>, result')
  BY DEF AllocBuf, At, GoTo, boot, Mem!memman_alloc_4k, Control
<1>2. /\ HandedOut /\ FreeInside /\ vmode \in {"vbe", "vga"}
      /\ free_info \in [1 .. free_num -> [start : Int, size : Int]]
  BY <1>1 DEF MemInv, PicInv, SettingUp
<1>3. size \in Nat /\ Pixels <= size /\ Pixels \in Nat
  BY <1>2, Sizes, RoundUpHolds DEF Pixels, Area
<1>4. size' = size
  BY <1>1 DEF Width, Height
<1> HIDE DEF size
<1>5. /\ FreeInside'
      /\ \/ /\ result' = NULL /\ UNCHANGED <<free_info, free_num>>
            /\ free_num = 1 => free_info[1].size < size
         \/ /\ result' \in Int /\ Start <= result'
            /\ \A a \in Int : a <= result' + size => FreeFrom(a)'
  BY <1>1, <1>2, <1>3, AllocFits
<1>6. PICK r \in Int : r = result'
  BY <1>5, MemoryAssumption
<1>7. \/ free_num' = 1 => free_info'[1].size < size
      \/ Start <= r /\ FreeFrom(r + Pixels)'
  <2>1. ASSUME Start <= r, \A a \in Int : a <= r + size => FreeFrom(a)'
        PROVE  FreeFrom(r + Pixels)'
    <3> DEFINE a == r + Pixels
    <3>1. a \in Int /\ a <= r + size
      BY <1>3
    <3>2. a' = a
      BY <1>1, SameScreen
    <3> HIDE DEF a
    <3>3. PICK n \in Int : n = a /\ n <= r + size
      BY <3>1
    <3>4. FreeFrom(n)'
      BY <2>1, <3>3
    <3>5. FreeFrom(a)'
      BY <3>2, <3>3, <3>4 DEF FreeFrom
    <3> QED BY <3>5 DEF a
  <2> QED BY <1>5, <1>6, <2>1
<1>8. BufferOnly'
  <2>1. ctl' = Control(<< >>, r)'
    BY <1>1, <1>6, SameScreen
  <2>2. (free_num = 1 => free_info[1].size < Mem!RoundUp(Width * Height))'
          <=> (free_num' = 1 => free_info'[1].size < size)
    BY <1>4 DEF size
  <2> QED BY <1>7, <2>1, <2>2 DEF BufferOnly
<1> QED BY <1>1, <1>5, <1>8 DEF PicInv

\* The end of a layer at a is the same in the next state.
LEMMA FreeBehind ==
  ASSUME vmode \in {"vbe", "vga"}, vmode' = vmode, NEW a \in Int, NEW n \in Int,
         n = a + Pixels, FreeFrom(n)'
  PROVE  FreeFrom(a + Pixels)'
<1>1. (a + Pixels)' = n
  BY SameScreen
<1> HIDE DEF Pixels
<1> QED BY <1>1 DEF FreeFrom

LEMMA AllocStructPic == MemInv /\ PicInv /\ AllocStruct => PicInv'
<1> SUFFICES ASSUME MemInv, PicInv, AllocStruct PROVE PicInv'
  OBVIOUS
<1>1. /\ pc = "struct" /\ pc' \in {"null", "content"}
      /\ UNCHANGED <<ram, ctl, screen, half, vmode>>
      /\ Mem!memman_alloc(LAYER_SIZE)
  BY DEF AllocStruct, At, GoTo, boot
<1>2. /\ HandedOut /\ FreeInside /\ vmode \in {"vbe", "vga"}
      /\ free_info \in [1 .. free_num -> [start : Int, size : Int]]
  BY <1>1 DEF MemInv, PicInv, SettingUp
<1>3. LAYER_SIZE \in Nat
  BY MemoryAssumption, LayersAssumption
<1>4. /\ FreeInside'
      /\ \A a \in Int : FreeFrom(a) => FreeFrom(a)'
      /\ \A n \in Nat : (free_num = 1 => free_info[1].size < n)
                          => (free_num' = 1 => free_info'[1].size < n)
  BY <1>1, <1>2, <1>3, AllocFits
<1>5. Pixels \in Nat /\ Width \in Nat /\ Height \in Nat
  BY <1>2, Sizes
<1>6. ASSUME NEW a \in Int, FreeFrom(a + Pixels) PROVE FreeFrom(a + Pixels)'
  <2>1. PICK n \in Int : n = a + Pixels
    BY <1>5
  <2>2. FreeFrom(n)'
    BY <1>4, <1>6, <2>1
  <2> QED BY <1>1, <1>2, <2>1, <2>2, FreeBehind
<1>7. ASSUME BufferOnly PROVE BufferOnly'
  <2>1. PICK b \in Int :
          /\ ctl = Control(<< >>, b)
          /\ \/ free_num = 1 => free_info[1].size < Mem!RoundUp(Width * Height)
             \/ Start <= b /\ FreeFrom(b + Pixels)
    BY <1>7 DEF BufferOnly
  <2>2. ctl' = Control(<< >>, b)'
    BY <1>1, <2>1, SameScreen
  <2>3. PICK n \in Nat : n = Mem!RoundUp(Width * Height)
    <3>1. Width * Height \in Nat
      BY <1>5
    <3> QED BY <3>1, RoundUpIsNat
  <2>4. Mem!RoundUp(Width * Height)' = n
    BY <1>1, <2>3 DEF Width, Height
  <2>5. \/ (free_num = 1 => free_info[1].size < Mem!RoundUp(Width * Height))'
        \/ Start <= b /\ FreeFrom(b + Pixels)'
    BY <1>4, <1>6, <2>1, <2>3, <2>4
  <2> QED BY <2>2, <2>5 DEF BufferOnly
<1>8. ASSUME BackgroundOnly PROVE BackgroundOnly'
  <2>1. PICK b \in Int, c \in Int :
          /\ ctl = Control(<<BackgroundAt(c)>>, b)
          /\ Start <= b /\ b + Pixels <= c /\ c + Pixels <= End
          /\ FreeFrom(c + Pixels)
          /\ Painted(ram, c)
    BY <1>8 DEF BackgroundOnly
  <2>2. /\ ctl' = Control(<<BackgroundAt(c)>>, b)'
        /\ Painted(ram, c)' /\ Pixels' = Pixels
    BY <1>1, <2>1, SameScreen
       DEF Control, BackgroundAt, LayerAt, Painted
  <2>3. FreeFrom(c + Pixels)'
    BY <1>6, <2>1
  <2> QED BY <2>1, <2>2, <2>3 DEF BackgroundOnly
<1>9. BufferOnly \/ BackgroundOnly
  BY <1>1 DEF PicInv
<1> QED BY <1>1, <1>4, <1>7, <1>8, <1>9 DEF PicInv

\* Once there is memory for the background there is the buffer in front of it.
LEMMA BackgroundPic ==
  ASSUME MemInv, PicInv, AllocContent, BufferOnly
  PROVE  PicInv' /\ pc' = "struct"
<1>1. PICK b \in Int :
        /\ ctl = Control(<< >>, b)
        /\ \/ free_num = 1 => free_info[1].size < Mem!RoundUp(Width * Height)
           \/ Start <= b /\ FreeFrom(b + Pixels)
  BY DEF BufferOnly
<1>2. ctl.layers = << >> /\ Asked = <<Width, Height>>
  BY <1>1 DEF Control, Asked
<1> DEFINE size == Mem!RoundUp(Width * Height)
<1>3. /\ pc = "content" /\ pc' = "struct" /\ UNCHANGED <<screen, half, vmode>>
      /\ Mem!memman_alloc(size) /\ result' # NULL
  BY <1>2 DEF AllocContent, At, GoTo, boot, Mem!memman_alloc_4k, Failed
<1>4. /\ HandedOut /\ FreeInside /\ vmode \in {"vbe", "vga"}
      /\ free_info \in [1 .. free_num -> [start : Int, size : Int]]
      /\ ram = [a \in Memory |-> ram[a]]
  BY <1>3 DEF MemInv, PicInv, SettingUp
<1>5. size \in Nat /\ Pixels <= size /\ Pixels \in Nat
  BY <1>4, Sizes, RoundUpHolds DEF Pixels, Area
<1> HIDE DEF size
<1>6. /\ FreeInside'
      /\ free_num = 1 /\ size <= free_info[1].size
      /\ result' \in Int /\ Start <= result' /\ result' + size <= End
      /\ \A a \in Int : a <= result' + size => FreeFrom(a)'
      /\ \A a \in Int : FreeFrom(a) => a <= result'
  BY <1>3, <1>4, <1>5, AllocFits
<1>7. Start <= b /\ FreeFrom(b + Pixels)
  <2>1. free_info[1].size \in Int
    BY <1>4, <1>6
  <2> QED BY <1>1, <1>5, <1>6, <2>1 DEF size
<1>8. PICK c \in Int : c = result'
  BY <1>6
<1>9. /\ Start <= c /\ b + Pixels <= c /\ c + Pixels <= End
  <2>1. b + Pixels \in Int /\ Start \in Int /\ End \in Int
    BY <1>5, MemoryAssumption
  <2>2. b + Pixels <= c
    BY <1>6, <1>7, <1>8, <2>1
  <2>3. Start <= c /\ c + size <= End
    BY <1>6, <1>8
  <2>4. c + Pixels <= End
    BY <1>5, <2>1, <2>3
  <2> QED BY <2>2, <2>3, <2>4
<1>10. /\ ctl' = Control(<<BackgroundAt(c)>>, b)
       /\ ram' = [a \in Memory |-> ram'[a]]
       /\ Painted(ram', c)
  BY <1>1, <1>3, <1>4, <1>6, <1>8, <1>9, BackgroundFilled
<1>11. FreeFrom(c + Pixels)'
  <2>1. PICK n \in Int : n = c + Pixels
    BY <1>5
  <2>2. n <= result' + size
    <3>1. n <= c + size
      BY <1>5, <2>1
    <3> QED BY <1>8, <3>1
  <2>3. FreeFrom(n)'
    BY <1>6, <2>2
  <2> QED BY <1>3, <1>4, <2>1, <2>3, FreeBehind
<1>12. BackgroundOnly'
  <2>1. /\ Pixels' = Pixels
        /\ ctl' = Control(<<BackgroundAt(c)>>, b)'
    BY <1>3, <1>10, SameScreen DEF Control, BackgroundAt, LayerAt
  <2>2. (Painted(ram, c))'
    BY <1>3, <1>10, SameScreen DEF Painted
  <2> QED BY <1>7, <1>9, <1>11, <2>1, <2>2 DEF BackgroundOnly
<1> QED BY <1>3, <1>6, <1>10, <1>12 DEF PicInv

\* With memory for the mouse too the layers are complete.
LEMMA MousePic ==
  ASSUME MemInv, PicInv, AllocContent, BackgroundOnly
  PROVE  /\ PicInv' /\ pc' = "loop"
         /\ \E b, c, d \in Int :
              /\ Layered(b, c, d, 0, 0)'
              /\ \A x \in 0 .. Width - 1, y \in 0 .. Height - 1 :
                   ram'[Point(c, Width, x, y)] \in Colours
<1>1. PICK b \in Int, c \in Int :
        /\ ctl = Control(<<BackgroundAt(c)>>, b)
        /\ Start <= b /\ b + Pixels <= c /\ c + Pixels <= End
        /\ FreeFrom(c + Pixels)
        /\ Painted(ram, c)
  BY DEF BackgroundOnly
<1>2. ctl.layers = <<BackgroundAt(c)>> /\ ctl.layers # << >>
  BY <1>1 DEF Control
<1>3. Asked = <<MouseWidth, MouseHeight>>
  BY <1>2, LayersAssumption DEF Asked, MouseWidth, MouseHeight
<1> DEFINE size == Mem!RoundUp(MouseWidth * MouseHeight)
<1>4. /\ pc = "content" /\ pc' = "loop" /\ UNCHANGED <<screen, half, vmode>>
      /\ Mem!memman_alloc(size) /\ result' # NULL
  BY <1>2, <1>3 DEF AllocContent, At, GoTo, boot, Mem!memman_alloc_4k, Failed
<1>5. /\ HandedOut /\ FreeInside /\ vmode \in {"vbe", "vga"}
      /\ free_info \in [1 .. free_num -> [start : Int, size : Int]]
      /\ ram = [a \in Memory |-> ram[a]]
  BY <1>4 DEF MemInv, PicInv, SettingUp
<1>6. size \in Nat /\ MousePixels <= size /\ MousePixels \in Nat /\ Pixels \in Nat
  BY <1>5, Sizes, RoundUpHolds DEF MousePixels, Area
<1> HIDE DEF size
<1>7. /\ FreeInside'
      /\ result' \in Int /\ Start <= result' /\ result' + size <= End
      /\ \A a \in Int : FreeFrom(a) => a <= result'
  BY <1>4, <1>5, <1>6, AllocFits
<1>8. PICK d \in Int : d = result'
  BY <1>7
<1>9. /\ Start <= c /\ c + Pixels <= d /\ d + MousePixels <= End
  <2>1. c + Pixels \in Int /\ Start \in Int /\ End \in Int
    BY <1>6, MemoryAssumption
  <2>2. c + Pixels <= d
    BY <1>1, <1>7, <1>8, <2>1
  <2>3. d + size <= End
    BY <1>7, <1>8
  <2>4. d + MousePixels <= End
    BY <1>6, <2>1, <2>3
  <2>5. Start <= c
    BY <1>1, <1>6, <2>1
  <2> QED BY <2>2, <2>4, <2>5
<1>10. /\ ctl' = Control(<<BackgroundAt(c), MouseAt(0, 0, d)>>, b)
       /\ ram' = [a \in Memory |-> ram'[a]]
       /\ Painted(ram', c) /\ Black(ram', d)
  BY <1>1, <1>4, <1>5, <1>7, <1>8, <1>9, MouseFilled
<1>11. Layered(b, c, d, 0, 0)'
  <2>1. /\ Pixels' = Pixels
        /\ ctl' = Control(<<BackgroundAt(c), MouseAt(0, 0, d)>>, b)'
    BY <1>4, <1>10, SameScreen DEF Control, BackgroundAt, LayerAt
  <2>2. Painted(ram, c)' /\ Black(ram, d)'
    BY <1>4, <1>10, SameScreen DEF Painted, Black
  <2> QED BY <1>1, <1>9, <2>1, <2>2 DEF Layered
<1>12. Pictured'
  BY <1>11 DEF Pictured
<1> QED BY <1>4, <1>7, <1>10, <1>11, <1>12 DEF PicInv, Painted

LEMMA LoopPic ==
  ASSUME MemInv, PicInv, Redraw \/ Key \/ MouseReport \/ TaskBox \/ TaskText
  PROVE  PicInv'
<1>1. /\ pc = "loop" /\ pc' = "loop" /\ vmode' = vmode
      /\ free_info' = free_info /\ free_num' = free_num
  BY DEF Redraw, Key, MouseReport, TaskBox, TaskText, At, boot, man
<1>2. /\ vmode \in {"vbe", "vga"}
      /\ ram = [a \in Memory |-> ram[a]] /\ Pictured /\ FreeInside
      /\ half \subseteq [row : TASK_ROWS, length : TEXT_LENGTHS]
  BY <1>1 DEF MemInv, PicInv, SettingUp
<1>3. half' \subseteq [row : TASK_ROWS, length : TEXT_LENGTHS]
  <2>1. CASE Redraw \/ Key \/ MouseReport
    BY <1>2, <2>1 DEF Redraw, Key, MouseReport
  <2>2. CASE TaskBox
    BY <1>2, <2>2 DEF TaskBox
  <2>3. CASE TaskText
    BY <1>2, <2>3 DEF TaskText
  <2> QED BY <2>1, <2>2, <2>3
<1>4. FreeInside'
  BY <1>1, <1>2 DEF FreeInside
<1>5. PICK b \in Int, c \in Int, d \in Int, x \in Int, y \in Int :
        Layered(b, c, d, x, y)
  BY <1>2 DEF Pictured
<1>6. ram' = [a \in Memory |-> ram'[a]] /\ \E u, v \in Int : Layered(b, c, d, u, v)'
  BY <1>1, <1>2, <1>5, LoopLayered
<1>7. Pictured'
  BY <1>6 DEF Pictured
<1> QED BY <1>1, <1>3, <1>4, <1>6, <1>7 DEF PicInv

LEMMA PicStep == MemInv /\ PicInv /\ [Next]_vars => PicInv'
<1> SUFFICES ASSUME MemInv, PicInv, [Next]_vars PROVE PicInv'
  OBVIOUS
<1>1. CASE UNCHANGED vars
  <2>1. UNCHANGED <<free_info, free_num, ram, ctl, screen, half, pc, vmode>>
    BY <1>1 DEF vars, man, boot
  <2> QED BY <2>1, PicUnchanged
<1>2. CASE AllocContent
  <2>1. BufferOnly \/ BackgroundOnly
    BY <1>2 DEF AllocContent, At, PicInv
  <2> QED BY <1>2, <2>1, BackgroundPic, MousePic
<1> QED BY <1>1, <1>2, EarlyPic, AllocPic, AllocBufPic, AllocStructPic, LoopPic
        DEF Next, SetsUp

-----------------------------------------------------------------------------
(* What the main loop has is a Picture.                                    *)

\* The colours of the background that is at c.
ColoursAt(mem, c) ==
  [p \in (0 .. Width - 1) \X (0 .. Height - 1) |->
     mem[Point(c, Width, p[1], p[2])]]

LEMMA PictureIs ==
  ASSUME NEW b, NEW c, NEW d, NEW x, NEW y, Looping, Layered(b, c, d, x, y)
  PROVE  /\ ScreenSize = <<Width, Height>> /\ MousePlace = <<x, y>>
         /\ ScreenPoints = (0 .. Width - 1) \X (0 .. Height - 1)
         /\ BackgroundColours = ColoursAt(ram, c)
BY LayersAre DEF ScreenSize, MousePlace, ScreenPoints, BackgroundColours,
   ColoursAt, Point

LEMMA PictureWillBe ==
  ASSUME vmode' = vmode, NEW b, NEW c, NEW d, NEW x, NEW y,
         Looping', Layered(b, c, d, x, y)'
  PROVE  /\ ScreenSize' = <<Width, Height>> /\ MousePlace' = <<x, y>>
         /\ ScreenPoints' = (0 .. Width - 1) \X (0 .. Height - 1)
         /\ BackgroundColours' = ColoursAt(ram', c)
<1>1. ctl' = Control(<<BackgroundAt(c), MouseAt(x, y, d)>>, b)'
  BY DEF Layered
<1>2. /\ Background'.content = c /\ Mouse'.loc_x = x /\ Mouse'.loc_y = y
      /\ ctl'.max_x = Width' /\ ctl'.max_y = Height'
  BY <1>1 DEF Background, Mouse, Control, BackgroundAt, MouseAt, LayerAt
<1>3. Width' = Width /\ Height' = Height
  BY SameScreen
<1> QED BY <1>2, <1>3 DEF ScreenSize, MousePlace, ScreenPoints,
           BackgroundColours, ColoursAt, Point

\* Before the main loop there is none.
LEMMA NoPicture ==
  ASSUME PicInv, ~ Looping
  PROVE  /\ ScreenSize = <<0, 0>> /\ MousePlace = <<0, 0>>
         /\ BackgroundColours = << >> /\ ColoursShown = << >>
BY DEF PicInv, Looping, ScreenSize, MousePlace, BackgroundColours, ColoursShown

LEMMA NoPictureNext ==
  ASSUME PicInv', ~ Looping'
  PROVE  /\ ScreenSize' = <<0, 0>> /\ MousePlace' = <<0, 0>>
         /\ BackgroundColours' = << >> /\ ColoursShown' = << >>
BY DEF PicInv, Looping, ScreenSize, MousePlace, BackgroundColours, ColoursShown

LEMMA InitMapsToInit == Init => Pic!Init
<1> SUFFICES ASSUME Init PROVE Pic!Init
  OBVIOUS
<1>1. ~ Looping /\ PicInv
  BY InitPic DEF Init, BootInit, Looping
<1> QED BY <1>1, NoPicture DEF Pic!Init, Pic!NotSetUp

(* Each step does to the picture what a step of Picture does, or nothing.  *)

\* The second layer sets the picture up.
LEMMA SetsPictureUp ==
  ASSUME MemInv, PicInv, AllocContent, BackgroundOnly
  PROVE  Pic!SetUp
<1>1. /\ pc = "content" /\ vmode' = vmode /\ screen' = screen
      /\ screen = << >>
  BY DEF AllocContent, At, boot, PicInv
<1>2. vmode \in {"vbe", "vga"}
  BY <1>1 DEF MemInv, SettingUp
<1>3. PICK b \in Int, c \in Int, d \in Int :
        /\ pc' = "loop" /\ Layered(b, c, d, 0, 0)'
        /\ \A x \in 0 .. Width - 1, y \in 0 .. Height - 1 :
             ram'[Point(c, Width, x, y)] \in Colours
  BY MousePic
<1>4. /\ ScreenSize = <<0, 0>> /\ MousePlace = <<0, 0>> /\ ColoursShown = << >>
  BY <1>1, NoPicture DEF Looping
<1>5. /\ ScreenSize' = <<Width, Height>> /\ MousePlace' = <<0, 0>>
      /\ BackgroundColours' = ColoursAt(ram', c)
  BY <1>1, <1>3, PictureWillBe DEF Looping
<1>6. ColoursShown' = << >>
  BY <1>1 DEF ColoursShown
<1>7. <<Width, Height>> \in {SCREEN_SIZE[mode] : mode \in DOMAIN SCREEN_SIZE}
  BY <1>2, ScreenTypes
<1>8. ColoursAt(ram', c) \in [Pic!Grid(<<Width, Height>>) -> Colours]
  BY <1>3 DEF ColoursAt, Pic!Grid
<1> QED BY <1>4, <1>5, <1>6, <1>7, <1>8 DEF Pic!SetUp, Pic!NotSetUp, Colours

\* What changes in a row of the background changes in that row of the picture.
LEMMA PrintsInPicture ==
  ASSUME vmode \in {"vbe", "vga"}, vmode' = vmode, screen' = screen,
         NEW b \in Int, NEW c \in Int, NEW d \in Int,
         NEW x \in Int, NEW y \in Int, NEW u \in Int, NEW v \in Int,
         Looping, Layered(b, c, d, x, y), Looping', Layered(b, c, d, u, v)',
         NEW row, RowOnly(ram, ram', c, row)
  PROVE  /\ ScreenSize # Pic!NotSetUp
         /\ Pic!PrintIn(row)
         /\ MousePlace = <<x, y>> /\ MousePlace' = <<u, v>>
<1>1. /\ ScreenSize = <<Width, Height>> /\ MousePlace = <<x, y>>
      /\ ScreenPoints = (0 .. Width - 1) \X (0 .. Height - 1)
      /\ BackgroundColours = ColoursAt(ram, c)
  BY PictureIs
<1>2. /\ ScreenSize' = <<Width, Height>> /\ MousePlace' = <<u, v>>
      /\ ScreenPoints' = (0 .. Width - 1) \X (0 .. Height - 1)
      /\ BackgroundColours' = ColoursAt(ram', c)
  BY PictureWillBe
<1>3. /\ ctl.max_x = Width /\ ctl'.max_x = Width
  <2>1. ctl'.max_x = Width'
    BY DEF Layered, Control
  <2> QED BY <2>1, LayersAre, SameScreen
<1>4. ColoursShown' = ColoursShown
  BY <1>1, <1>2, <1>3 DEF ColoursShown
<1>5. Pic!Points = (0 .. Width - 1) \X (0 .. Height - 1)
  BY <1>1 DEF Pic!Points, Pic!Grid
<1>6. ColoursAt(ram', c) \in [Pic!Points -> Colours]
  BY <1>5 DEF ColoursAt, RowOnly, Painted
<1>7. ASSUME NEW p \in Pic!Points,
             Height - p[2] \notin TEXT_HEIGHT * (row - 1) + 1 .. TEXT_HEIGHT * row
      PROVE  ColoursAt(ram', c)[p] = ColoursAt(ram, c)[p]
  <2>1. p[1] \in 0 .. Width - 1 /\ p[2] \in 0 .. Height - 1
    BY <1>5
  <2>2. ram'[Point(c, Width, p[1], p[2])] = ram[Point(c, Width, p[1], p[2])]
    BY <1>7, <2>1 DEF RowOnly
  <2> QED BY <1>5, <2>2 DEF ColoursAt
<1>8. Pic!PrintIn(row)
  BY <1>1, <1>2, <1>4, <1>6, <1>7 DEF Pic!PrintIn, Colours
<1>9. ScreenSize # Pic!NotSetUp
  BY <1>1, ScreenTypes DEF Pic!NotSetUp
<1> QED BY <1>1, <1>2, <1>8, <1>9

LEMMA PrintingMaps ==
  ASSUME MemInv, PicInv
  PROVE  /\ Key \/ MouseReport => Pic!MainPrints
         /\ TaskBox \/ TaskText => Pic!TaskPrints
<1> SUFFICES ASSUME Key \/ MouseReport \/ TaskBox \/ TaskText
             PROVE  /\ Key \/ MouseReport => Pic!MainPrints
                    /\ TaskBox \/ TaskText => Pic!TaskPrints
  OBVIOUS
<1>1. /\ pc = "loop" /\ pc' = "loop" /\ vmode' = vmode /\ screen' = screen
  BY DEF Key, MouseReport, TaskBox, TaskText, At, boot
<1>2. /\ vmode \in {"vbe", "vga"}
      /\ ram = [a \in Memory |-> ram[a]] /\ Pictured
      /\ half \subseteq [row : TASK_ROWS, length : TEXT_LENGTHS]
      /\ Looping /\ Looping'
  BY <1>1 DEF MemInv, PicInv, SettingUp, Looping
<1>3. PICK b \in Int, c \in Int, d \in Int, x \in Int, y \in Int :
        Layered(b, c, d, x, y)
  BY <1>2 DEF Pictured
<1>4. ASSUME Key \/ MouseReport PROVE Pic!MainPrints
  <2>1. RowOnly(ram, ram', c, 1)
    BY <1>2, <1>3, <1>4, Prints
  <2>2. PICK u \in Int, v \in Int : Layered(b, c, d, u, v)'
    BY <1>1, <1>2, <1>3, <1>4, LoopLayered
  <2>3. /\ vmode \in {"vbe", "vga"} /\ vmode' = vmode /\ screen' = screen
        /\ Looping /\ Looping'
    BY <1>1, <1>2
  <2>4. /\ ScreenSize # Pic!NotSetUp /\ Pic!PrintIn(1) /\ MousePlace' = <<u, v>>
    BY <1>3, <2>1, <2>2, <2>3, PrintsInPicture
  <2> QED BY <2>4 DEF Pic!MainPrints
<1>5. ASSUME TaskBox \/ TaskText PROVE Pic!TaskPrints
  <2>1. PICK row \in TASK_ROWS : RowOnly(ram, ram', c, row)
    BY <1>2, <1>3, <1>5, Prints
  <2>2. Layered(b, c, d, x, y)'
    BY <1>1, <1>2, <1>3, <1>5, LoopLayered
  <2>3. /\ vmode \in {"vbe", "vga"} /\ vmode' = vmode /\ screen' = screen
        /\ Looping /\ Looping'
    BY <1>1, <1>2
  <2>4. /\ ScreenSize # Pic!NotSetUp /\ Pic!PrintIn(row)
        /\ MousePlace' = MousePlace
    BY <1>3, <2>1, <2>2, <2>3, PrintsInPicture
  <2> QED BY <2>1, <2>4 DEF Pic!TaskPrints
<1> QED BY <1>4, <1>5

\* What is drawn is shown.
LEMMA DrawingMaps == MemInv /\ PicInv /\ Redraw => Pic!Draw
<1> SUFFICES ASSUME MemInv, PicInv, Redraw PROVE Pic!Draw
  OBVIOUS
<1>1. /\ pc = "loop" /\ pc' = "loop" /\ vmode' = vmode /\ ctl' = ctl
      /\ layerctl_draw
  BY DEF Redraw, At, boot
<1>2. /\ vmode \in {"vbe", "vga"}
      /\ ram = [a \in Memory |-> ram[a]] /\ Pictured
      /\ half \subseteq [row : TASK_ROWS, length : TEXT_LENGTHS]
      /\ Looping /\ Looping'
  BY <1>1 DEF MemInv, PicInv, SettingUp, Looping
<1>3. PICK b \in Int, c \in Int, d \in Int, x \in Int, y \in Int :
        Layered(b, c, d, x, y)
  BY <1>2 DEF Pictured
<1>4. Layered(b, c, d, x, y)'
  BY <1>1, <1>2, <1>3, LoopLayered
<1>5. /\ Width \in Nat \ {0} /\ Height \in Nat \ {0} /\ Pixels \in Nat
      /\ MousePixels \in Nat /\ Start \in Nat /\ End \in Nat
      /\ MouseWidth = MOUSE_SIZE[1] /\ MouseHeight = MOUSE_SIZE[2]
  BY <1>2, Sizes DEF MouseWidth, MouseHeight
<1>6. /\ ScreenSize = <<Width, Height>> /\ MousePlace = <<x, y>>
      /\ BackgroundColours = ColoursAt(ram, c)
  BY <1>2, <1>3, PictureIs
<1>7. /\ ScreenSize' = <<Width, Height>> /\ MousePlace' = <<x, y>>
      /\ ScreenPoints' = (0 .. Width - 1) \X (0 .. Height - 1)
      /\ BackgroundColours' = ColoursAt(ram', c)
  BY <1>1, <1>2, <1>4, PictureWillBe
<1>8. /\ ctl.max_x = Width /\ ctl.max_y = Height /\ ctl.buf = b
      /\ ctl'.max_x = Width
  BY <1>1, <1>3, LayersAre
<1>9. /\ \A a \in Memory : (a < b \/ b + Pixels <= a) => ram'[a] = ram[a]
      /\ \A u \in 0 .. Width - 1, v \in 0 .. Height - 1 :
           ram'[Point(b, Width, u, v)]
             = IF u - x \in 0 .. MouseWidth - 1 /\ v - y \in 0 .. MouseHeight - 1
               THEN "black" ELSE ram[Point(c, Width, u, v)]
  <2>1. Buffered(ram, ram', b, c, x, y)
    BY <1>1, <1>2, <1>3, DrawnInBuffer
  <2> QED BY <2>1 DEF Buffered
\* The background stays.
<1>10. ColoursAt(ram', c) = ColoursAt(ram, c)
  <2>1. ASSUME NEW p \in (0 .. Width - 1) \X (0 .. Height - 1)
        PROVE  ram'[Point(c, Width, p[1], p[2])] = ram[Point(c, Width, p[1], p[2])]
    <3> DEFINE a == Point(c, Width, p[1], p[2])
    <3>1. /\ Start <= b /\ b + Pixels <= c /\ c + Pixels <= d
          /\ d + MousePixels <= End
      BY <1>3 DEF Layered
    <3>2. p[1] \in 0 .. Width - 1 /\ p[2] \in 0 .. Height - 1
      OBVIOUS
    <3>3. a \in Memory /\ c <= a
      BY <1>2, <3>1, <3>2, PointsApart
    <3>4. a \in Int /\ b + Pixels \in Int
      BY <1>5, <3>3 DEF Memory
    <3> HIDE DEF a
    <3>5. b + Pixels <= a
      BY <3>1, <3>3, <3>4
    <3> QED BY <1>9, <3>3, <3>5 DEF a
  <2> QED BY <2>1 DEF ColoursAt
\* What is copied to the screen is what is in the buffer.
<1>11. screen' = [n \in 0 .. Width * Height - 1 |-> ram'[b + n]]
  BY <1>1, <1>8 DEF layerctl_draw
<1>12. screen' # << >>
  <2>1. Point(0, Width, 0, 0) < 0 + Area(Width, Height)
    BY <1>5, PointInside
  <2>2. 0 \in 0 .. Width * Height - 1
    <3>1. Width * Height \in Int /\ 0 * Width = 0
      BY <1>5
    <3> QED BY <2>1, <3>1 DEF Point, Area
  <2>3. 0 \in DOMAIN screen'
    BY <1>11, <2>2
  <2> QED BY <2>3
<1>13. ASSUME NEW u \in 0 .. Width - 1, NEW v \in 0 .. Height - 1
       PROVE  screen'[v * Width + u] = ram'[Point(b, Width, u, v)]
  <2>1. /\ Point(0, Width, u, v) \in Int
        /\ 0 <= Point(0, Width, u, v)
        /\ Point(0, Width, u, v) < 0 + Area(Width, Height)
    <3>1. 0 \in Int /\ Width \in Nat /\ Height \in Nat
      BY <1>5
    <3> QED BY <3>1, PointInside
  <2>2. v * Width \in Int /\ Width * Height \in Int
    BY <1>5
  <2>3. v * Width + u \in 0 .. Width * Height - 1
    BY <2>1, <2>2 DEF Point, Area
  <2>4. b + (v * Width + u) = Point(b, Width, u, v)
    BY <2>2 DEF Point
  <2> QED BY <1>11, <2>3, <2>4
<1>14. Pic!Points = (0 .. Width - 1) \X (0 .. Height - 1)
  BY <1>6 DEF Pic!Points, Pic!Grid
<1>15. ASSUME NEW p \in Pic!Points
       PROVE  screen'[p[2] * Width + p[1]]
                = IF Pic!UnderPointer(p) THEN "black" ELSE ColoursAt(ram, c)[p]
  <2>1. /\ p \in (0 .. Width - 1) \X (0 .. Height - 1)
        /\ p[1] \in 0 .. Width - 1 /\ p[2] \in 0 .. Height - 1
    BY <1>14
  <2>2. Pic!UnderPointer(p) <=> /\ p[1] - x \in 0 .. MouseWidth - 1
                                /\ p[2] - y \in 0 .. MouseHeight - 1
    BY <1>5, <1>6 DEF Pic!UnderPointer
  <2>3. ColoursAt(ram, c)[p] = ram[Point(c, Width, p[1], p[2])]
    BY <2>1 DEF ColoursAt
  <2>4. screen'[p[2] * Width + p[1]] = ram'[Point(b, Width, p[1], p[2])]
    BY <1>13, <2>1
  <2> QED BY <1>9, <2>1, <2>2, <2>3, <2>4
<1>16. ColoursShown' = [p \in Pic!Points |->
                          IF Pic!UnderPointer(p) THEN "black"
                          ELSE BackgroundColours[p]]
  <2>1. ColoursShown' = [p \in Pic!Points |-> screen'[p[2] * Width + p[1]]]
    BY <1>7, <1>8, <1>12, <1>14 DEF ColoursShown
  <2> QED BY <1>6, <1>15, <2>1
<1>17. ScreenSize # Pic!NotSetUp
  BY <1>5, <1>6 DEF Pic!NotSetUp
<1> QED BY <1>6, <1>7, <1>10, <1>16, <1>17 DEF Pic!Draw

\* Every other step leaves the picture alone.
LEMMA OthersStutter ==
  ASSUME MemInv, PicInv, PicInv',
         \/ UNCHANGED vars \/ Boots \/ Answers \/ (Devices /\ UNCHANGED picture)
         \/ AllocEarlier \/ AllocLayerctl \/ AllocBuf \/ AllocStruct
         \/ (AllocContent /\ BufferOnly) \/ GiveUpLayer
  PROVE  UNCHANGED Pic!vars
<1>1. CASE UNCHANGED vars \/ Answers
  <2>1. UNCHANGED <<pc, ram, ctl, screen>>
    BY <1>1 DEF vars, boot, Answers, ControllerTakes, picture
  <2> QED BY <2>1 DEF Pic!vars, ScreenSize, BackgroundColours, MousePlace,
             ColoursShown, ScreenPoints, Looping, Background, Mouse
<1>2. CASE \/ Boots \/ (Devices /\ UNCHANGED picture)
           \/ AllocEarlier \/ AllocLayerctl \/ AllocBuf \/ AllocStruct
           \/ (AllocContent /\ BufferOnly) \/ GiveUpLayer
  <2>1. ~ Looping /\ ~ Looping'
    <3>1. CASE Boots
      BY <3>1 DEF Boots, BootStep, ReadSector, ReadFails, ResetDrive, SetVideo,
         SendCommand, SendGate, Send, Copy, At, GoTo, Looping
    <3>2. CASE Devices
      BY <3>2 DEF Devices, SendMode, SendModeByte, SendToMouse, SendEnable,
         Send, At, GoTo, Looping
    <3>3. CASE AllocEarlier \/ AllocLayerctl \/ AllocBuf \/ AllocStruct
                 \/ GiveUpLayer
      BY <3>3 DEF AllocEarlier, AllocLayerctl, AllocBuf, AllocStruct,
         GiveUpLayer, At, GoTo, Looping
    <3>4. CASE AllocContent /\ BufferOnly
      <4>1. pc = "content"
        BY <3>4 DEF AllocContent, At
      <4> QED BY <3>4, <4>1, BackgroundPic DEF Looping
    <3> QED BY <1>2, <3>1, <3>2, <3>3, <3>4
  <2> QED BY <2>1, NoPicture, NoPictureNext DEF Pic!vars
<1> QED BY <1>1, <1>2

LEMMA StepMapsToStep ==
  MemInv /\ PicInv /\ PicInv' /\ [Next]_vars => [Pic!Next]_(Pic!vars)
<1> SUFFICES ASSUME MemInv, PicInv, PicInv', [Next]_vars
             PROVE  [Pic!Next]_(Pic!vars)
  OBVIOUS
<1>1. CASE AllocContent /\ BackgroundOnly
  BY <1>1, SetsPictureUp DEF Pic!Next
<1>2. AllocContent => BufferOnly \/ BackgroundOnly
  BY DEF AllocContent, At, PicInv
<1>3. CASE Key \/ MouseReport \/ TaskBox \/ TaskText
  BY <1>3, PrintingMaps DEF Pic!Next
<1>4. CASE Redraw
  BY <1>4, DrawingMaps DEF Pic!Next
<1> QED BY <1>1, <1>2, <1>3, <1>4, OthersStutter DEF Next, SetsUp

(* Whatever memory start-up finds and however printing, moving and drawing *)
(* alternate, the layers of layer.c make the picture: each drawing shows   *)
(* the mouse where it is, cut off at the borders, over the background; the *)
(* background changes only in the row that is printed.                     *)
THEOREM LayersMakeThePicture == Spec => ImplementsPicture
<1>1. Init => MemInv /\ PicInv
  BY InitMem, InitPic
<1>2. MemInv /\ PicInv /\ [Next]_vars => (MemInv /\ PicInv)'
  BY MemStep, PicStep
<1>3. Init => Pic!Init
  BY InitMapsToInit
<1>4. MemInv /\ PicInv /\ PicInv' /\ [Next]_vars => [Pic!Next]_(Pic!vars)
  BY StepMapsToStep
<1> QED BY <1>1, <1>2, <1>3, <1>4, PTL DEF Spec, ImplementsPicture, Pic!Spec
===============================================================================
