---------------------------------- MODULE Boot ----------------------------------
(***************************************************************************)
(* From the boot sector to the kernel: ipl10.nas, which reads the first    *)
(* cylinders of the floppy disk to DSKCAC0, and asmhead.nas, which sets    *)
(* the screen mode, opens the A20 gate through the keyboard controller and *)
(* copies the disk's data to DSKCAC, above one megabyte.                   *)
(*                                                                         *)
(* The BIOS, the drive and the keyboard controller are external: a read    *)
(* may fail, a screen mode may not be there, and the controller takes what *)
(* is written to it late.  Memory is in sectors, from where the boot       *)
(* sector of the disk would be: `low' from DSKCAC0, `high' from DSKCAC.    *)
(***************************************************************************)
EXTENDS Integers, Sequences

CONSTANTS CYLS,            \* 10
          HEADS, SECTORS,  \* of the disk: 2, 18
          TRIES,           \* 5
          SCREEN_SIZE      \* width and height of the mode "vbe", "vga"

ASSUME BootAssumption ==
  /\ {CYLS, HEADS, TRIES} \subseteq Nat \ {0}
  /\ SECTORS \in Nat /\ SECTORS >= 2
  /\ SCREEN_SIZE \in [{"vbe", "vga"} -> (Nat \ {0}) \X (Nat \ {0})]

VARIABLES pc,        \* where the processor is, to the main loop of the kernel
          chs,       \* registers CH, DH and CL: what to read next
          es,        \* register ES: where to read it to
          tries,     \* register SI: the failures so far
          low, high,
          cyls,      \* BOOTINFO: cylinders read
          vmode,     \* BOOTINFO: scrnx, scrny and vram, by the mode
          kbc,       \* what the keyboard controller has not taken yet
          command,   \* the command whose byte it waits for
          done       \* the commands it has carried out, with their bytes

disk == <<chs, es, tries, low>>
controller == <<kbc, command, done>>
boot == <<disk, high, cyls, vmode, controller>>

Cached == 0 .. CYLS * HEADS * SECTORS - 1     \* sectors of the cache

\* The place of a sector on the disk.
Number(s) == (s.cylinder * HEADS + s.head) * SECTORS + s.sector - 1

Sector(c, h, s) == [cylinder |-> c, head |-> h, sector |-> s]

Unwritten == -1

-----------------------------------------------------------------------------
(* ipl10.nas *)

At(here) == pc = here
GoTo(there) == pc' = there

(* Mutant: the last sector of a track is taken for one beyond it. *)
TrackShort(s) == s.sector + 1 < SECTORS

OnTrack(s) == s.sector + 1 <= SECTORS

\* The sector that readloop reads after s.
After(s) ==
  IF OnTrack(s) THEN [s EXCEPT !.sector = @ + 1]
  ELSE IF s.head + 1 < HEADS THEN Sector(s.cylinder, s.head + 1, 1)
  ELSE Sector(s.cylinder + 1, 0, 1)

\* INT 0x13 has read the sector.
ReadSector ==
  /\ At("read")
  /\ low' = [low EXCEPT ![es] = Number(chs)]
  /\ es' = es + 1
  /\ tries' = 0
  /\ chs' = After(chs)
  /\ IF chs'.cylinder < CYLS
     THEN UNCHANGED <<pc, cyls>>
     ELSE GoTo("video") /\ cyls' = chs'.cylinder
  /\ UNCHANGED <<high, vmode, controller>>

(* Mutant: the failures are counted from 0 again at each retry. *)
CountedAgain == 1

Failures == tries + 1

\* It reports an error.  The fifth time the message is shown, for good.
ReadFails ==
  /\ At("read")
  /\ tries' = Failures
  /\ GoTo(IF Failures >= TRIES THEN "halted" ELSE "reset")
  /\ UNCHANGED <<chs, es, low, high, cyls, vmode, controller>>

ResetDrive == At("reset") /\ GoTo("read") /\ UNCHANGED boot

-----------------------------------------------------------------------------
(* asmhead.nas *)

\* The mode is VBEMODE if the BIOS has it as needed, and 320 by 200 if not;
\* whether it then accepts the mode (4f02) is not asked.
SetVideo ==
  /\ At("video") /\ GoTo("command")
  /\ \E mode \in {"vbe", "vga"} : vmode' = mode
  /\ UNCHANGED <<disk, high, cyls, controller>>

(* The keyboard controller: a command and its byte are written one after   *)
(* the other, to port 0x64 and to port 0x60.                               *)
None == "none"

Argument == [WriteOutputPort |-> "0xdf", WriteMode |-> "KBC_MODE",
             SendToMouse |-> "MOUSECMD_ENABLE"]

\* waitkbdout, wait_KBC_sendready: the input buffer of the controller is empty.
Taken == kbc = None

\* A second byte written before the first was taken would replace it.
Send(here, byte, there) ==
  /\ At(here) /\ GoTo(there)
  /\ kbc' = byte
  /\ UNCHANGED <<disk, high, cyls, vmode, command, done>>

\* The controller takes what was written to it.
ControllerTakes ==
  /\ kbc # None
  /\ kbc' = None
  /\ IF kbc \in DOMAIN Argument
     THEN command' = kbc /\ UNCHANGED done
     ELSE /\ command' = None
          /\ done' = IF command = None THEN done
                     ELSE done \cup {<<command, kbc>>}
  /\ UNCHANGED <<pc, disk, high, cyls, vmode>>

Done(c) == <<c, Argument[c]>> \in done

(* Mutant: the last waitkbdout is left out. *)
NoWait == TRUE

GateSet == Taken

SendCommand == Taken /\ Send("command", "WriteOutputPort", "gate")
SendGate == Taken /\ Send("gate", Argument["WriteOutputPort"], "copy")

\* The boot sector is still at 0x7c00; with the gate closed an address above
\* one megabyte is one below it.
CopyOf(n) == IF n = 0 THEN Number(Sector(0, 0, 1)) ELSE low[n]

\* Protected mode, the kernel to BOTPAK, the disk to DSKCAC.
Copy ==
  /\ At("copy") /\ GateSet
  /\ high' = IF Done("WriteOutputPort")
             THEN [n \in Cached |-> IF n < cyls * HEADS * SECTORS
                                    THEN CopyOf(n) ELSE high[n]]
             ELSE high
  /\ GoTo("kernel")
  /\ UNCHANGED <<disk, cyls, vmode, controller>>

-----------------------------------------------------------------------------
BootInit ==
  /\ pc = "read"
  /\ chs = Sector(0, 0, 2) /\ es = 1 /\ tries = 0
  /\ low = [n \in Cached |-> Unwritten]
  /\ high = [n \in Cached |-> Unwritten]
  /\ cyls = 0
  /\ vmode = "text"
  /\ kbc \in {None, "other"} /\ command = None
  /\ done \in SUBSET {<<"WriteOutputPort", Argument["WriteOutputPort"]>>}

BootStep ==
  \/ ReadSector \/ ReadFails \/ ResetDrive
  \/ SetVideo \/ SendCommand \/ SendGate \/ Copy

-----------------------------------------------------------------------------
Booting == pc \in {"read", "reset", "video", "command", "gate", "copy"}

(* The kernel finds every sector of the cylinders read at its own place of *)
(* the cache, whichever reads failed on the way, however late the keyboard *)
(* controller was and whether the gate was open before or not.             *)
DiskCached ==
  ~ Booting /\ pc # "halted" => \A n \in Cached : high[n] = n
=================================================================================
