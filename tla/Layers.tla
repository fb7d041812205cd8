--------------------------------- MODULE Layers ---------------------------------
(***************************************************************************)
(* From the boot sector to the picture: the kernel that Boot starts        *)
(* allocates the layers of gui/layer.c with the memory manager, MemMan;    *)
(* its main loop moves the mouse, prints and draws, and the tasks of       *)
(* MyOSMain print into the background, where they may be preempted.  `ram' *)
(* is the memory that is managed, a byte at each address, so that layers   *)
(* whose memory overlapped would show it.                                  *)
(*                                                                         *)
(* The main loop works on a datum with interrupts off; which datum comes   *)
(* when, when the tasks run, and what the mouse reports is left to Kernel  *)
(* and Mouse.  MyOSMain tests no layer for being null: it then writes      *)
(* anywhere, and the model stops.                                          *)
(***************************************************************************)
EXTENDS Boot

CONSTANTS MEMMAN_SIZE, Start, End, PageSize, Requests, NULL,  \* as in MemMan
          Earlier,         \* bytes allocated before the layers
          LAYERCTL_SIZE, LAYER_SIZE,       \* sizes of the structures
          MOUSE_SIZE,      \* width and height of the mouse's layer: 8, 16
          TEXT_X, TEXT_HEIGHT,             \* 8, 16
          TEXT_LENGTHS,    \* widths of the texts printed
          TASK_ROWS,       \* rows of text from the last, where tasks print: 10, 9
          Moves,           \* motions that the mouse reports
          Locations        \* bound: where it may move to

ASSUME MemoryAssumption ==
  /\ MEMMAN_SIZE \in Nat \ {0}
  /\ Start \in Nat \ {0} /\ End \in Nat /\ Start < End
  /\ PageSize \in Nat \ {0}
  /\ NULL \in Int /\ NULL < Start
  /\ Requests \subseteq Nat \ {0}
ASSUME LayersAssumption ==
  /\ MOUSE_SIZE \in (Nat \ {0}) \X (Nat \ {0})
  /\ {TEXT_X, TEXT_HEIGHT} \cup TEXT_LENGTHS \subseteq Nat
  /\ TASK_ROWS \subseteq Nat \ {0}
  /\ Moves \subseteq Int \X Int
  /\ Earlier \cup {LAYERCTL_SIZE, LAYER_SIZE} \subseteq Requests
  /\ \A mode \in DOMAIN SCREEN_SIZE, n \in TEXT_LENGTHS \cup {1} :
       /\ TEXT_X + n <= SCREEN_SIZE[mode][1]
       /\ TEXT_X + TEXT_HEIGHT <= SCREEN_SIZE[mode][2]
       /\ \A row \in TASK_ROWS \cup {1} :
            TEXT_HEIGHT * row <= SCREEN_SIZE[mode][2]
  /\ <<0, 0>> \in Locations

VARIABLES free_info, free_num, max_free, lost_size, lost_num, held, result,
          ram,
          ctl,      \* struct LAYERCTL with its layers, once there is one
          struct,   \* the block alloc_layer has for its struct LAYER
          screen,   \* what was copied to vram, << >> before
          half      \* the texts whose background a task has printed

man == <<free_info, free_num, max_free, lost_size, lost_num, held, result>>
vars == <<pc, boot, man, ram, ctl, struct, screen, half>>

Mem == INSTANCE MemMan

Width == SCREEN_SIZE[vmode][1]       \* binfo->scrnx
Height == SCREEN_SIZE[vmode][2]

Background == ctl.layers[1]
Mouse == ctl.layers[2]

-----------------------------------------------------------------------------
(* graphic.c, on the content of a layer. *)

box_fill8(mem, content, xsize, colour, x0, y0, x1, y1) ==
  [a \in DOMAIN mem |->
     IF \E x \in x0 .. x1 - 1, y \in y0 .. y1 - 1 : a = content + y * xsize + x
     THEN colour ELSE mem[a]]

\* The lit points of the font, here all of the characters' or none.
put_ascii_str8(mem, content, xsize, x, y, length, lit) ==
  IF lit THEN box_fill8(mem, content, xsize, "white",
                        x, y, x + length, y + TEXT_HEIGHT)
         ELSE mem

put_ascii_str8_bg(mem, content, xsize, x, y, length, lit) ==
  put_ascii_str8(box_fill8(mem, content, xsize, "black",
                           x, y, x + length, y + TEXT_HEIGHT),
                 content, xsize, x, y, length, lit)

-----------------------------------------------------------------------------
(* Start-up of the kernel: the keyboard controller, the two layers. *)

\* memman_alloc returned null.
Failed == result' = NULL

\* The timers, the tasks, a stack and sys_buf; only the last is asserted.
AllocEarlier ==
  /\ At("kernel")
  /\ \E size \in Earlier : Mem!memman_alloc(size)
  /\ IF Failed THEN pc' \in {"halted", "null"} ELSE GoTo("mode")
  /\ UNCHANGED <<boot, ram, ctl, struct, screen, half>>

(* Mutants: wait_KBC_sendready returns at once; it waits for a command to  *)
(* be carried out, whose byte it keeps back.                               *)
ReadyAtOnce == TRUE

WaitsForAnswer == Taken /\ command = None

wait_KBC_sendready == Taken

\* init_keyboard, enable_mouse
SendMode == wait_KBC_sendready /\ Send("mode", "WriteMode", "mode_byte")

SendModeByte ==
  wait_KBC_sendready /\ Send("mode_byte", Argument["WriteMode"], "mouse")

SendToMouse ==
  wait_KBC_sendready /\ Send("mouse", "SendToMouse", "mouse_byte")

SendEnable ==
  wait_KBC_sendready /\ Send("mouse_byte", Argument["SendToMouse"], "layerctl")

AllocLayerctl ==
  /\ At("layerctl")
  /\ Mem!memman_alloc(LAYERCTL_SIZE)
  /\ GoTo(IF Failed THEN "null" ELSE "buf")
  /\ UNCHANGED <<boot, ram, ctl, struct, screen, half>>

\* init_layerctl
AllocBuf ==
  /\ At("buf") /\ GoTo("struct")
  /\ Mem!memman_alloc_4k(Width * Height)
  /\ ctl' = [layers |-> << >>, max_x |-> Width, max_y |-> Height,
             buf |-> result']
  /\ UNCHANGED <<boot, ram, struct, screen, half>>

\* alloc_layer up to its second allocation.
AllocStruct ==
  /\ At("struct")
  /\ Mem!memman_alloc(LAYER_SIZE)
  /\ struct' = [addr |-> result', size |-> LAYER_SIZE]
  /\ GoTo(IF Failed THEN "null" ELSE "content")
  /\ UNCHANGED <<boot, ram, ctl, screen, half>>

\* The layer asked for: the background, then the mouse.
Asked == IF ctl.layers = << >> THEN <<Width, Height>> ELSE MOUSE_SIZE

\* What MyOSMain draws into it; its text counts as one point wide.
Filled(mem, layer) ==
  LET Box(colour) == box_fill8(mem, layer.content, layer.width, colour,
                               0, 0, layer.width, layer.height)
  IN  IF ctl.layers = << >>
      THEN put_ascii_str8(Box("blue"), layer.content, layer.width,
                          TEXT_X, TEXT_X, 1, TRUE)
      ELSE Box("black")

\* There is memory for the content, which is cleared, and the layer is used.
AllocContent ==
  /\ At("content")
  /\ Mem!memman_alloc_4k(Asked[1] * Asked[2]) /\ ~ Failed
  /\ LET layer == [loc_x |-> 0, loc_y |-> 0, width |-> Asked[1],
                   height |-> Asked[2], content |-> result']
     IN  /\ ctl' = [ctl EXCEPT !.layers = Append(@, layer)]
         /\ ram' = Filled(box_fill8(ram, layer.content, layer.width,
                                    "transparent", 0, 0, layer.width,
                                    layer.height), layer)
  /\ GoTo(IF ctl.layers = << >> THEN "struct" ELSE "loop")
  /\ UNCHANGED <<boot, struct, screen, half>>

\* There is none: the struct is given back, as if it were pages.
GiveUpLayer ==
  /\ At("content") /\ GoTo("null")
  /\ Mem!LongEnough(Mem!RoundUp(Asked[1] * Asked[2])) = {}
  /\ Mem!memman_free_4k(struct, LAYER_SIZE)
  /\ UNCHANGED <<boot, ram, ctl, struct, screen, half>>

-----------------------------------------------------------------------------
(* layerctl_draw *)

(* Mutant: a column to the right of the screen is not left out. *)
OpenRight(layer, x, y) ==
  /\ layer.loc_y + y < ctl.max_y
  /\ layer.loc_x + x >= 0 /\ layer.loc_y + y >= 0

OnScreen(layer, x, y) ==
  /\ layer.loc_y + y < ctl.max_y /\ layer.loc_x + x < ctl.max_x
  /\ layer.loc_x + x >= 0 /\ layer.loc_y + y >= 0

\* The points of a layer that are drawn at address a of the buffer.
DrawnAt(mem, layer, a) ==
  {p \in (0 .. layer.width - 1) \X (0 .. layer.height - 1) :
     /\ OnScreen(layer, p[1], p[2])
     /\ mem[layer.content + layer.width * p[2] + p[1]] # "transparent"
     /\ a = ctl.buf + (layer.loc_y + p[2]) * ctl.max_x + layer.loc_x + p[1]}

Over(mem, layer) ==
  [a \in DOMAIN mem |->
     LET points == DrawnAt(mem, layer, a)
         p == CHOOSE q \in points : TRUE
     IN  IF points = {} THEN mem[a]
         ELSE mem[layer.content + layer.width * p[2] + p[1]]]

layerctl_draw ==
  /\ ram' = Over(Over(ram, Background), Mouse)
  /\ screen' = [n \in 0 .. ctl.max_x * ctl.max_y - 1 |-> ram'[ctl.buf + n]]

-----------------------------------------------------------------------------
(* The main loop. *)

\* The redraw timer's datum.
Redraw ==
  /\ At("loop")
  /\ layerctl_draw
  /\ UNCHANGED <<pc, boot, man, ctl, struct, half>>

RowAt(row) == Background.height - TEXT_HEIGHT * row

PrintInBackground(length, lit) ==
  ram' = put_ascii_str8_bg(ram, Background.content, Background.width, TEXT_X,
                           RowAt(1), length, lit)

\* A byte of the keyboard.
Key ==
  /\ At("loop")
  /\ \E length \in TEXT_LENGTHS, lit \in BOOLEAN :
       PrintInBackground(length, lit)
  /\ UNCHANGED <<pc, boot, man, ctl, struct, screen, half>>

\* A byte of the mouse's that completes a packet.
MouseReport ==
  /\ At("loop")
  /\ \E length \in TEXT_LENGTHS, lit \in BOOLEAN :
       PrintInBackground(length, lit)
  /\ \E m \in Moves :
       /\ <<Mouse.loc_x + m[1], Mouse.loc_y + m[2]>> \in Locations
       /\ ctl' = [ctl EXCEPT !.layers[2].loc_x = @ + m[1],
                             !.layers[2].loc_y = @ + m[2]]
  /\ UNCHANGED <<pc, boot, man, struct, screen, half>>

(* multitask_test and multitask_test2: the box, and what is written in it; *)
(* the main loop may come between the two.                                 *)
TaskBox ==
  /\ At("loop")
  /\ \E row \in TASK_ROWS, length \in TEXT_LENGTHS :
       /\ \A text \in half : text.row # row
       /\ half' = half \cup {[row |-> row, length |-> length]}
       /\ ram' = box_fill8(ram, Background.content, Background.width, "black",
                           TEXT_X, RowAt(row), TEXT_X + length,
                           RowAt(row) + TEXT_HEIGHT)
  /\ UNCHANGED <<pc, boot, man, ctl, struct, screen>>

TaskText ==
  /\ At("loop")
  /\ \E text \in half :
       /\ half' = half \ {text}
       /\ ram' = put_ascii_str8(ram, Background.content, Background.width,
                                TEXT_X, RowAt(text.row), text.length, TRUE)
  /\ UNCHANGED <<pc, boot, man, ctl, struct, screen>>

-----------------------------------------------------------------------------
Init ==
  /\ BootInit
  /\ Mem!memman_init
  /\ ram = [a \in Start .. End - 1 |-> "garbage"]
  /\ ctl = << >> /\ struct = << >> /\ screen = << >> /\ half = {}

picture == <<man, ram, ctl, struct, screen, half>>

Boots == BootStep /\ UNCHANGED picture

Answers == ControllerTakes /\ UNCHANGED picture

Devices == SendMode \/ SendModeByte \/ SendToMouse \/ SendEnable

SetsUp ==
  \/ Devices /\ UNCHANGED picture
  \/ AllocEarlier \/ AllocLayerctl \/ AllocBuf \/ AllocStruct
  \/ AllocContent \/ GiveUpLayer

Next == Boots \/ Answers \/ SetsUp
          \/ Redraw \/ Key \/ MouseReport \/ TaskBox \/ TaskText

Spec == Init /\ [][Next]_vars

(* The processor goes on, and the keyboard controller takes what it is     *)
(* sent.                                                                   *)
FairSpec == Spec /\ WF_vars(Boots) /\ WF_vars(Answers) /\ WF_vars(SetsUp)

-----------------------------------------------------------------------------
(* No two blocks of memory overlap, and none is in the free list, when a   *)
(* layer is given back as a page although it was less.                     *)
NoSharing == Mem!NoSharing

Looping == pc = "loop"

(* The keyboard controller gets each command with its byte, however late   *)
(* it takes them: when it has nothing more to take, both devices are on.   *)
DevicesOn == Looping /\ Taken => Done("WriteMode") /\ Done("SendToMouse")

\* What the main loop has of the picture, before it nothing.
ScreenPoints == (0 .. ctl.max_x - 1) \X (0 .. ctl.max_y - 1)

ScreenSize == IF Looping THEN <<ctl.max_x, ctl.max_y>> ELSE <<0, 0>>

BackgroundColours ==
  IF Looping
  THEN [p \in ScreenPoints |->
          ram[Background.content + p[2] * ctl.max_x + p[1]]]
  ELSE << >>

MousePlace == IF Looping THEN <<Mouse.loc_x, Mouse.loc_y>> ELSE <<0, 0>>

ColoursShown ==
  IF screen = << >> THEN << >>
  ELSE [p \in ScreenPoints |-> screen[p[2] * ctl.max_x + p[1]]]

Pic == INSTANCE Picture WITH
  Sizes <- {SCREEN_SIZE[mode] : mode \in DOMAIN SCREEN_SIZE},
  Pointer <- MOUSE_SIZE,
  Rows <- TASK_ROWS,
  Colours <- {"blue", "black", "white"},
  size <- ScreenSize,
  background <- BackgroundColours,
  pointer <- MousePlace,
  shown <- ColoursShown

(* The layers, whatever memory they were given, make the picture: the      *)
(* mouse over the background, cut off at the borders, gone from where it   *)
(* was; printing, also by a task that is preempted in the middle of it,    *)
(* moving and drawing do not disturb each other.                           *)
ImplementsPicture == Pic!Spec

(* Boot sector and asmhead come to the kernel, or stop with an error after *)
(* the fifth failure to read a sector: neither the retries nor the waits   *)
(* for the keyboard controller go on for good.                             *)
KernelEntered == <>(pc \in {"kernel", "halted"})

(* Once the kernel, past bootpack.c 102, has come to init_keyboard, both   *)
(* devices are told and both layers come to be, or an allocation of theirs *)
(* has failed.  Nothing is claimed of lines 99 to 102, where interrupts    *)
(* are enabled: the author's note says that start-up may hang there, which *)
(* is up to the hardware.  Lines 134 to 184 are Storage's, which goes on   *)
(* from here; this module goes on from them.                               *)
LayersComeUp == pc = "mode" ~> pc \in {"loop", "null"}

(* Start-up goes on, before those lines and after them. *)
StartUpGoesOn == KernelEntered /\ LayersComeUp
=================================================================================
