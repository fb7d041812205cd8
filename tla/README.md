# A verification project for lycOS

lycOS is a small 32-bit operating system for the PC: a boot loader, a kernel
with a timer, a keyboard and a mouse, preemptive multitasking at several
levels, a memory manager, a drawing loop, and the beginnings of a storage stack
(PCI, AHCI, MBR, FAT32). There are no tests. This directory holds TLA+ modules
that model its kernel, TLC configurations that check them on small instances,
and TLAPS proofs of the properties that matter most.

Paths below are relative to `src/src/`.

## 1. Inventory

| Part | State | Operations | Who calls it |
|---|---|---|---|
| FIFO buffer, `device/buffer.c` | ring `sys_buf`: two indices, a free count, an overflow flag, the consumer's task | `fifo32_init`, `_put`, `_get`, `_data_available` | interrupt handlers put, the main loop gets |
| Scheduler, `multitask/multitask.c` | `taskctl`: flags, level and priority of each task, one array and one index per level, `current_level`, `level_change_flag`; the task register | `task_init`, `new_task`, `run_task`, `task_switch`, `task_sleep` | `MyOSMain`; `fifo32_put` (wakes); the timer handler (switches) |
| Timers, `device/timer.c` | pool of slots, linked list ending in a sentinel, `current_time` | `init_timer`, `add_timer`, `int_handler20` | main loop (redraw), `task_switch` (next switch), IRQ 0 |
| Memory manager, `memory/memory.c` | sorted array of free pieces, counters | `memman_alloc`, `memman_free`, their `_4k` forms, `memman_available` | start-up, layers, storage |
| Main loop, `bootpack.c` 185-222 | its place in the loop, the interrupt flag | test the buffer, sleep, take a datum, redraw | the main task |
| Interrupt handlers, `device/timer.c`, `device/keyboard.c`, `device/mouse.c`, `asm/naskfunc.nas` | none of their own | acknowledge, read a byte, put it | the processor |
| Mouse decoder, `device/mouse.c` | phase, three bytes, button and motion | `mouse_decode` | main loop |
| Layers and graphics, `gui/` | table of layers, a frame buffer | `alloc_layer`, `layerctl_draw`, drawing | start-up, main loop |
| PCI, `device/pci/pci.c` | table of functions | walk of all buses | start-up |
| AHCI, `device/pci/ahci.c` | the controller's registers and command tables | probe, find a slot, read | start-up, drives |
| Drives, MBR, FAT32, `device/pci/drive.c`, `filesystem/` | table of drives, partition data | register, read, parse | start-up |
| Descriptor tables, interrupt controller, serial port, `int/`, `device/serial.c` | constant tables and ports | written once; log output | start-up, everybody (log) |
| Boot loader, `asm/` | registers | read sectors with retries, switch modes, test memory | BIOS |

How they interact. Interrupts are the only concurrency. A handler runs with
interrupts off. `int_handler20` advances the clock, takes the expired timers off
the list, puts their data into `sys_buf` and, if one of them is the switch
timer, ends in `task_switch`, which asks for the next switch timer and jumps to
another task. The keyboard's and the mouse's handlers put one byte each. A put
wakes the main task if it sleeps. The main task takes data with interrupts off;
when there are none it turns interrupts on and sleeps. Whatever else runs (the
idle task, two test tasks) shares nothing with it but the background layer, into
which the test tasks print.

What is hard here:

- the main task goes to sleep with interrupts on, in several writes to the data
  that handlers read and write (lost wake-ups, torn lists);
- two self-perpetuating timers (redraw and switch): each expiry must lead to
  exactly one new timer, through a buffer and a pool that can be full;
- indices that wrap on equality only (ring, round robin) and are moved by
  several functions;
- a linked list whose end is marked by a deadline, with arithmetic in words;
- a free list with four kinds of merge and a limit;
- failures that callers ignore (timers, storage, layers);
- a stream of packets through a buffer that may reject any byte;
- devices that are late or fail at start-up: the floppy disk, the keyboard
  controller, the AHCI port;
- layers as linear addresses, clipped point by point, in memory that the memory
  manager hands out, drawn while tasks print into them.

The properties that make each part correct are those of section 3; the hazards,
each at its line, with the properties aimed at it, are in `PROJECT.json`.

## 2. Modules

Each component has an abstract specification where it promises something that
can be said without its data structures, a detailed one translated from the code,
and an `MC` module that fixes an instance.

| Module | Models | Notes |
|---|---|---|
| `BoundedQueue` | what `sys_buf` promises | a sequence of at most `Size` items, and whether the consumer is awake |
| `Fifo32` | `device/buffer.c` | the struct is the record `fifo`; `Put` and `Get` are its two functions, as operators; the actions are one call each. Initial slots are arbitrary (memory is not cleared) |
| `Multitask` | `multitask/multitask.c` | one call per action; `task_levels` is the array of `struct TASKLEVEL`, stale entries included; `running` is the task register, `farjmp` the jump; `fault` records a failed `ASSERT`, a jump through an entry that is no task, and a jump to the running task's own (busy) TSS |
| `PendingTimers` | what the timers promise | a set of deadlines with data; the due ones fire in order |
| `TimerList` | `device/timer.c` | pool, links and sentinel; a pass of the handler's loop is a step; words have `MAX_TIME + 1` values, and slots not cleared by `init_timer` are an arbitrary set |
| `Kernel` | main loop, handlers, `task_sleep` write by write | composes `Multitask` (instanced) with the abstract queue and the abstract set of timers |
| `Mouse` | `device/mouse.c`, its interrupt, the main loop's part for its bytes | bytes are integers; mouse and wire are external. A byte carries the packet it belongs to as a history, and `clean` and `calm` record what was lost and how fast it moved |
| `Boot` | `asm/ipl10.nas`, `asm/asmhead.nas` | registers `chs`, `es`, `tries`; memory by sectors; BIOS, drive and keyboard controller are external. No `Spec` of its own: `Layers` goes on from it |
| `Picture` | what drawing promises | the colour of each point of the background, the place of the mouse, what is shown |
| `Layers` | `gui/`, start-up to the main loop, what the loop and the test tasks draw | extends `Boot`, instances `MemMan` for its allocations; `ram` is memory byte by byte |
| `Heap` | what the memory manager promises | a set of free addresses and the blocks held |
| `MemMan` | `memory/memory.c` | `free_info` is the array's entries in use; `held` is what callers know |
| `PciWalk` | `device/pci/pci.c` | `config` is the configuration space, external; `functions` is `pci_ctl`'s table with its count as its length; a turn of the loop over devices is a step |
| `Storage` | `device/pci/ahci.c`, `drive.c`, `filesystem/`, and start-up from `init_pci` to the main loop | extends `PciWalk`; `pc` is the place in `MyOSMain`, `read` the call of `read_lba48`, in the steps that the port can come between; port and drive are external |

State and code. The variables have the names of the code's fields. Where a
module's variable is not in the code it is a history or an observation:
`ret` and `result` (return values), `fired` (the datum of the last expired
timer), `leaked` (slots of the timer pool that raw memory marked), `held`, `fault`,
`slice` (what the last switch asked of `add_timer`), `owner`, `content` and `stopped` in `Storage`, and in `Kernel` `pc` and
the locals of `task_sleep` and `remove_task`, `rejected`, and `disturbed` (an
interrupt came while the main task was going to sleep), and in `Layers` `half` (a
text whose box a task has printed).

Granularity. With interrupts off a function is one step: `add_timer`, every
handler (but for the loop of `int_handler20`, in passes that nothing interleaves
with), and the main loop's body. `run_task` from `MyOSMain`, called with interrupts
on, is one step in `Multitask`: the handlers write no level but the current one,
0 at that time, and the created tasks go to level 1. `task_sleep` is one step in
`Multitask` and ten in `Kernel`: reading `current_task`, finding the entry,
`len_tasks`, the index, the flags, each shift, the level, the flag, the jump.
`remove_task`'s two tests of the index are one step in `Kernel`: the index
between them is only observed by a tick that also finds it after them. The
memory manager's calls all come from the main task and touch what no handler
does; a call is one step. The main loop draws with interrupts off, in one step; a
test task prints in two, the box and the text. The points of either are not
interleaved one by one: they lie in a row that nobody else prints into. The boot sector
runs alone; a step is a sector, a reset, or a byte to the controller, which takes
what it was sent at any later time.

## 3. Runs

| Run | Instance | States | Checks |
|---|---|---|---|
| `fifo` | 3 slots, 2 items | 816 | `CountersAgree`, `ImplementsBoundedQueue` |
| `scheduler` | 5 slots, 3 levels, any caller | 41,894 | lists and flags agree, indices inside, `current_task` is the task that runs, the most urgent level runs, no fault, every switch is armed, a switch preempts |
| `scheduler_live` | the calls the kernel makes | 43,151 | `RoundRobin` |
| `timers` | 4 slots, 4-bit words, clock to 7 | 23,325 | sorted list, slots accounted for, no null timer, the refinement, every timer fires |
| `timers_sentinel` | clock past the sentinel | violation | `NoNullTimer` |
| `kernel` | 4 tasks, 3 buffer slots, interrupts anywhere | 5,693 | never more than one redraw, always exactly one switch; unless an interrupt came while the main task fell asleep, no fault, no lost wake-up, redraws, input and other tasks go on forever |
| `kernel_lost_wakeup` | interrupts anywhere | violation | `DataWakes` |
| `memory` | 8 units, pages of 2, 2 entries | 129,831 | entries merged, no sharing, conservation, the refinement |
| `storage` | 4 places on 2 buses, 2 functions each, 2 slots, 3 pages | 245,456 | every function found once, sector buffers given back, a FAT32 partition mounted if and only if it is there, start-up ends |
| `storage_overrun` | the same | violation | `ReadsStayInside` |
| `mouse` | 3 buffer slots, 3 packets, one key | 574,265 | reports are what was sent; after losses the decoder finds the packets again |
| `layers` | 2 cylinders of 2 tracks of 2 sectors, screens of 3 by 3 and 2 by 3 points, 39 bytes | 31,310 | disk cached, devices on, no memory shared, the refinement of `Picture`, the kernel is entered, the layers come to be |

The types of `Fifo32`, `Multitask` and `MemMan`, and `PastTheEndOnlyBeyond` of `TimerList`,
are proved (section 4) and not checked by a run.

Each property of a passing run has a mutant: an operator beside the one it
replaces, marked "Mutant" in its comment, with which TLC finds the property
violated. None of them is used by the specifications themselves.

Bounds, and why they are enough.

- Ring of three slots: each of the four rest and wrap positions of the two
  indices meets every fill level; the proof covers every size.
- Scheduler: with five slots a level holds up to four tasks, so that entries go
  before, at and after the index with others left on both sides; with three
  levels one lies between the main task's and the idle task's. `scheduler` uses
  a `VIEW` that drops the entries past the end of each level and the size of the
  slice; nothing reads the former while `IndexInside` holds, which the same run
  checks, and of the latter only whether it is positive matters. The liveness run has no
  view. Priorities above 0 differ in length of time only, so one is enough.
- Timers: three slots besides the sentinel allow an insertion at the head, in
  the middle and before the sentinel, equal deadlines, and a pool that is full;
  times include 0, odd ones that fall between two ticks, and one that does not
  fit a word. `Horizon` bounds the clock and the deadlines: 7 keeps both below the
  sentinel's 12, 15 does not. The run `timers` says what holds for the first
  3.5 days (the clock counts milliseconds, 10 per tick, and the sentinel's deadline is
  0x12345678); `timers_sentinel` what comes then; that nothing else brings it about is
  proved (`PastTheEndNeedsTheSentinel`).
- Kernel: a buffer of three slots fills, so that the redraw datum is
  rejected in some behaviours and not in others. The pool has room for three timers; two are ever
  pending. The code's pool has 1000 slots, of which raw memory may take any number:
  the model assumes that it leaves these.
- Memory: with two list entries, two free pieces fill the list, and the third is
  merged with either or lost; blocks of one unit, one page, two pages and three
  units are handed out.

- Storage: the places hold nothing, a device of two functions, the second a
  controller, or a bridge that echoes; so controllers follow each other, a
  bridge comes before and after them, and three drives overflow the
  table. Two slots let a command that failed keep one while the other is used or
  was in use already. Three pages are all that start-up ever holds at
  once, and every smaller amount of memory is an initial state too. Clusters of eight sectors take one page.
- Mouse: a buffer of three slots holds a packet, and loses any part of one. The
  packets are an ordinary one with a byte that equals an acknowledgement, one with the
  most negative motion and a byte that looks like the first of a packet, and one that
  overflowed, with such a byte too; the key's code also looks so.
- Layers: every carry of the sector's number occurs (sector, head, cylinder),
  at two of each, and five failures in a row stop the boot sector or fewer do not. The mouse,
  two by two, goes over each border and corner of the screen, and beyond the right
  border of the narrower one altogether; `Locations` bounds it. There is memory
  for all, or not for the mouse, or not for the background (`Earlier`, which stands
  for what was allocated before: timers, tasks, the stack of the idle task and
  `sys_buf`). Text is one point wide and high, in three rows.

`CHECK_DEADLOCK FALSE` appears in the runs of `Kernel`, where a fault stops the
system, in those of `Storage`, which ends with start-up, and in that of `Layers`,
which ends when the disk cannot be read or a layer is null.

### What the violations show

Three runs end in a counterexample, each a disagreement between the code and
what it says of itself; `PROJECT.json` quotes the lines.

- `kernel_lost_wakeup`: a datum put after `io_sti` in the main loop and before
  `remove_task` clears the active flag wakes nobody. If the datum was the redraw
  timer's, drawing stops until there is input. The same window has two more
  ends. A wake-up between the two writes of `switch_task_level` is cleared
  away (`WokenIsScheduled`, with which the same configuration is violated too): the
  main task, active and listed, never runs again. And a tick between the two writes of
  `remove_task` to the list's length and its index makes `task_switch` jump through an
  entry that is no task. One correction (turn interrupts on only after the task has slept)
  removes all three; `disturbed` marks the behaviours that need it, and the
  run `kernel` shows that without them nothing is lost.
- `timers_sentinel`: the sentinel's deadline, 0x12345678, is inside the range
  of the clock, which reaches it after about 3.5 days.
- `storage_overrun`: `read_drive` passes words for sectors, and `read_lba48`
  puts what is left of that into the command: every read transfers 8 KB, over the page
  behind a buffer for one sector. TLC's trace is the shortest: the MBR, read into the
  only free page, goes over the next one, which somebody else holds. On a longer path
  the boot sector, read into the page that `init_mbr` gave back, overwrites the partition
  table behind it, which by then has been used (`MountsWhatIsThere`).

Two more disagreements are not runs. `run_task`'s comment (multitask.c:151) allows a
running task to be moved to another level; with the constant `SelfMove` TRUE the
same configuration violates `CurrentIsRunning`, so the other runs and the theorems
assume that no caller does it, as none does. And a read that failed is not told
from one that succeeded, because `read_drive` returns nothing: `Storage` lets what
the page then holds mean anything. After an error the port is stopped and
the next read waits for good, which is why `StartsUp` leaves a stopped port out.
`MountsWhatIsThere` leaves out a port that fails or is busy at the start: there the code
looks at what memory held before, and may mount or not.

### Fairness

- `Multitask!FairSpec`: weak fairness of `task_switch`, because the timer
  interrupt keeps coming and each switch asks for the next (`SliceArmed`, and
  `OneSwitch` in `Kernel`). Callers have no fairness.
- `TimerList!FairSpec`: weak fairness of the tick (the hardware) and of the
  handler's steps (the processor).
- `Kernel!FairSpec`: weak fairness of the end of a handler; strong fairness of
  the main task's steps, of ticks, and of each pending timer's expiry. The main
  task's steps are disabled again and again by ticks, and a tick by each
  handler, but the hardware gives neither up: the processor executes between two
  interrupts, and an interrupt raised while they are off comes when they are on.
  Expiry is fair because a deadline is finite (`EventuallyFires`). The input
  devices have no fairness.
- `Storage!FairSpec`: weak fairness of the main task (during start-up it is
  active at level 0, and shares nothing with the handlers here), and of the port's answer to a command, with success
  or an error. A port that is busy may stay so for good. The spin of a million
  reads in `read_lba48` is abstracted to a choice: it ends when the port is ready, or
  gives up while it is busy.

- `Mouse!FairSpec`: weak fairness of the main loop's steps, which nothing
  disables, as interrupts only add to the buffer; that the main task gets to run is
  `Kernel`'s `InputTaken`. That the mouse goes on sending, and
  at last slowly, is the premise of `Realigns` and not of the specification.
- `Layers!FairSpec`: weak fairness of the boot sector's and start-up's steps,
  which are all that runs, and of the keyboard controller's taking a byte.

With the buffer full of input the redraw datum is rejected and lost for good
(`OneRedraw` counts it in `rejected`); `KeepsRedrawing` excepts that.

## 4. Proofs

For every value of the constants that satisfies the modules' assumptions
(sizes positive, at least two slots and levels, priorities positive; in `Kernel` the
tasks and levels of `MyOSMain` and two free timers, one for the redraw and one for
the switch):

| Module | Theorem | Says |
|---|---|---|
| `Fifo32_proofs` | `RingInvariant` | `TypeOK` and `CountersAgree` always hold |
| | `RingRefinesQueue` | `Fifo32` implements `BoundedQueue` |
| `Multitask_proofs` | `ListsAgree`, `IndicesInside` | `ListsMatchFlags`, `IndexInside` |
| | `DispatchIsRight`, `NoJumpAstray` | `CurrentIsRunning`, `NoFault` |
| | `UrgentFirst`, `SwitchIsArmed`, `SwitchIsFair` | `PriorityRespected`, `SliceArmed`, `SwitchPreempts` |
| `TimerList_proofs` | `TypeCorrect`, `ListInOrder` | `TypeOK`, `Sorted` |
| | `PastTheEndNeedsTheSentinel` | `PastTheEndOnlyBeyond` |
| | `NoSlotLost`, `TimersImplementPending` | below the sentinel's deadline: `SlotsAccounted`, `TimerList` implements `PendingTimers` |
| `Kernel_proofs` | `RedrawIsOne`, `SwitchToCome` | `OneRedraw`, `OneSwitch` |
| | `TypeCorrect`, `NoFaultUndisturbed`, `WakeUpsAreKept` | `TypeOK`, `NoFault`, `WakeUpsKept` |
| `MemMan_proofs` | `TypeCorrect`, `PiecesMerged`, `NoBlockShared` | `TypeOK`, `Coalesced`, `NoSharing` |
| | `MemManRefinesHeap` | `MemMan` implements `Heap` |
| | `MemoryIsConserved` | `Conserved` |
| `Mouse_proofs` | `DecoderIsFaithful` | `Faithful` |
| `Layers_proofs` | `DiskIsCached`, `DevicesAreOn`, `StartUpSharesNoBlock` | `DiskCached`, `DevicesOn`, `NoSharing` |
| | `LayersMakeThePicture` | `Layers` implements `Picture` |
| `Storage_proofs` | `TypeCorrect`, `EachFunctionOnce` | `TypeOK`, `FunctionsFound` |
| | `NoBufferLeft`, `MountsRight` | `BuffersReturned`, `MountsWhatIsThere` |

Ring. `TypeOK` with `CountersAgree` is inductive. For the refinement, the
contents of the ring are a function on the item positions; a put extends it by one,
because the slot written is the one `CountersAgree` computes, and a get shifts it.

Scheduler. The inductive invariant adds to the properties what they leave out:
that the lists hold no duplicates across levels, that `current_level` is
occupied, that priorities of listed tasks are positive, that the idle task is always
listed (so that a level is always found), and that the task the
index of `current_level` points at is the one in the task register. The
theorems assume `~ SelfMove`: no call moves the running task to another level,
as no caller in the repository does. A run with `SelfMove`
TRUE shows that they need it. The main lemma on lists says what `remove_task` does to the
position of every other task; that no list overflows its array follows from a
counting argument: a list without duplicates that misses a task has room.
`SwitchPreempts` follows from the same invariant: a level of several
tasks lists two different ones at its index and behind it.

Timers. The invariant says that there is a function `L` from `0 .. n` to slots, without
repetition, that starts at `t0`, follows `next` and ends in the sentinel, along which
the timeouts do not decrease; a slot is marked if `L` takes it or raw memory
left it so. An insertion or a removal is then a function one longer or shorter, and
what the walk of `add_timer` has passed is a prefix of it. The `CHOOSE`s and recursive
functions of the module (`Nth`, `Chain`) are related to `L` once, by induction on its
indices. `TypeCorrect`, `ListInOrder` and `PastTheEndNeedsTheSentinel` hold whatever
`Horizon` is: as long as no fault has come, a walk passes only deadlines that the list
holds, so it meets the sentinel before its NULL, and goes past it only for a deadline, or
with a clock, that is not below the sentinel's, 0x12345678. `NoSlotLost` and
`TimersImplementPending` assume `Horizon < SENTINEL`, that no deadline and no clock value
gets there, because a handler that does releases the sentinel's own slot. The code does
not test this; `timers_sentinel` shows what happens.
For the refinement the pending timers are those of `L` but the sentinel, and the handler,
which fires from the head, fires the earliest because `L` is in order.

Main loop. The invariant has one case for each place where the redraw timer can be, and
one for each where the switch can be. That a switch due is never lost needs more:
`task_switch` must find a task with a positive time whatever `task_sleep` has left half
written. So the invariant says that the last level always lists the idle task, which no step of
`task_sleep` touches, and that whatever an entry names, stale or shifted halfway,
is a task with a priority or no task at all (the jump is then a `fault`, and the run ends). It says nothing of indices and lengths,
which an interrupt may see torn; the first two theorems thus hold in the window that the
other properties of `Kernel` except.

For those others a second invariant describes the scheduler's lists whole, as long as no
interrupt has come in that window. Its four phases are the places of the main task: awake
(active and running, up to the write of its flag in `task_sleep`), leaving (the writes that
follow), asleep (in no list, with an empty buffer, a test task running) and woken (listed
again by a put, with `level_change_flag` set until a switch comes). Each phase is left only
for the next, and `WakeUpsKept` is read off them. What holds in the window too is that the
main task's level has one entry while it is active (`Counted`).

Memory. The inductive invariant joins `TypeOK`, `Coalesced` and `NoSharing`.
The lemmas are about a block between two neighbouring pieces: where `Before` puts
it, what it may touch, and that merging keeps all others apart. For the refinement the
free addresses are the union of the pieces; a run of free addresses lies in one
piece, because pieces never touch (so a request that fits no piece
fits nowhere), and the heads of runs are exactly the pieces' starts (so a full list is
as many runs). Conservation speaks of sums over `free_info` and over the
blocks held. A sum is a recursive function whose value no induction theorem reaches here
(see below), but one that is pinned down by its equation: two functions that satisfy it differ
first on some smallest set, which is impossible. Since pieces and blocks are apart,
the function that counts the addresses of a set of them satisfies it. Both sums are thus
cardinalities, and what a call does to the addresses is what the refinement has proved.

Mouse. While nothing is lost the invariant says that a function gives each byte in the
buffer its packet and position, that consecutive mouse bytes are consecutive positions,
whatever lies between them, that the last one put is where the mouse stands
and the first the one the decoder waits for (at the start, the acknowledgement). The rest is arithmetic on bytes: that the
bits of the first byte and the two motion bytes give back the signed motion, and that
the first byte passes the decoder's test.

Start-up. While the disk is read the invariant says that ES is the place of the
sector that CH, DH and CL name, and that every place below it holds its sector; the
lemma it rests on is that readloop's carries add one to that place, for any number of heads
and sectors. For the controller it says, at each place of the program counter, which
command has no byte yet and which has both, taken or about to be; that the kernel's later
steps leave disk and controller alone is the rest. For the memory it says that start-up
has been handed its blocks one after the other from the beginning of the memory, with at
most one piece left behind them, and that a layer's structure is the last block
handed out when it is given back, as a page although it was allotted less: what is given
back too much belongs to nobody. `MemoryAssumption` is that of the memory
manager.

Picture. A second invariant of the start-up says where the layers are: the buffer, the
background's content and the mouse's lie one behind the other in the memory, because each
block is taken from the front of the one free piece; a background that has been granted
shows that the buffer in front of it, which `init_layerctl` does not test, was granted too.
In it the background has only colours that are drawn, and the mouse is
black all over. So each point of the three has an address of its own (`PointUnique`,
`PointsApart`: the arithmetic of products is met in these lemmas only), a box in one
changes nothing of the others (`BoxFilled`), and what `layerctl_draw` leaves at a point of the
buffer is the mouse's colour there or else the background's (`LayerDrawn`, once for each layer).
The assumptions on sizes (`LayersAssumption`) are that text fits on the screen.

Storage. The table of functions is followed one device at a time: an entry tells its
place and function, by division, so that entries for different places differ; those of one device
differ because `Ascending` lists a set without repetition, the existence of which is an
induction over the least number for which it fails. Buffers need only an
invariant with a line for each place of the program counter. For what is mounted another
says, as long as the port has not failed, that the port has at most the command of
the read in progress (`PortIdle`), that a read of one sector that is over has put it at the
beginning of its block (`Sectors`), and what has been concluded from it (`Mounting`). That there
is room is a count: of three pages nobody else holds at most two are taken, by the partition
table and the buffer, so that `FirstFit` finds the third.

Induction. The library's theorems on induction and recursion take an operator, which the
provers here cannot instantiate. Where a proof needs one it takes the least element of the
set of counterexamples (`LeastElement`, from the theorem that the naturals are well
founded, which takes none).

Only model-checked: liveness (`RoundRobin`, `EventuallyFires`,
`KeepsRedrawing`, `InputTaken`, `OthersRun`, `Realigns`, `StartsUp`, `StartUpGoesOn`), which the
prover does not reach.

## 5. Not modelled, and why

- The serial port's output, fonts, what texts say, the palette: data without
  control.
- The descriptor tables, the interrupt controller's and the interval timer's
  set-up: constants written once. What a byte that waits in the keyboard controller
  before start-up does is up to the hardware: the author's note at bootpack.c:99 says that
  start-up may hang where interrupts are enabled, and no property claims that it does not
  (of `StartUpGoesOn`, `KernelEntered` ends before and `LayersComeUp` begins after).
- The assembly stubs of the handlers, the registers of protected mode, the move of the
  kernel's data section: straight lines of single instructions. `memtest_sub`, whose
  result is `MemMan`'s `End`.
- What the code does after a null pointer: `Layers` and `Storage` stop there.
  The table of layers is never full, as `MyOSMain` asks for two.
- Ticks lost while interrupts are off (the clock then runs late): `TimerList`'s
  clock counts ticks handled, not real time.
- `release_layer` and `iterate_fat`: empty in the source.
- In the storage stack: the addresses of registers (`get_bar`) and the layout of
  commands; `start_cmd`, `stop_cmd` and `port_rebase`, which nothing calls; what
  directories contain; a boot sector with clusters of 0 sectors; a failure to allocate
  the tables of functions or drives, whose results are not tested either.

## 6. Plan

In order of weight:

1. done: the ring, the scheduler, the timers, the memory manager, each with its
   abstract specification and instance; the main loop over them.
2. done: `PciWalk` and `Storage`, from the buses to the root directory.
3. done: `Mouse`, over a buffer that drops bytes.
4. done: `Boot` and `Layers`, from the boot sector to the picture.
5. `memtest_sub` and the packing of descriptors against their definitions.
6. done: proofs of the safety properties of each module and of the four refinements.
   What is left to model checking is liveness.
