--------------------------------- MODULE Picture ---------------------------------
(***************************************************************************)
(* What the drawing of lycOS promises: the mouse is a black box over the   *)
(* background, wherever it is, in part or altogether outside the screen    *)
(* too, and leaves no trail.  Text changes the row of the background that  *)
(* belongs to its printer only, and what is shown changes only when it is  *)
(* drawn.                                                                  *)
(***************************************************************************)
EXTENDS Integers

CONSTANTS Sizes,             \* widths and heights that the screen may have
          Pointer,           \* width and height of the mouse
          TEXT_HEIGHT,
          Rows,              \* rows of text, from the last, that tasks print
          Colours

VARIABLES size,        \* of the screen, from the time it is set up
          background,  \* the colour of each point
          pointer,     \* where the mouse is
          shown        \* the colour of each point on the screen

vars == <<size, background, pointer, shown>>

NotSetUp == <<0, 0>>

Grid(s) == (0 .. s[1] - 1) \X (0 .. s[2] - 1)
Points == Grid(size)

Init ==
  /\ size = NotSetUp
  /\ background = << >> /\ pointer = <<0, 0>> /\ shown = << >>

SetUp ==
  /\ size = NotSetUp
  /\ size' \in Sizes
  /\ background' \in [Grid(size') -> Colours]
  /\ UNCHANGED <<pointer, shown>>

\* Only the points of a row of text change.
PrintIn(row) ==
  /\ background' \in [Points -> Colours]
  /\ \A p \in Points :
       size[2] - p[2] \notin TEXT_HEIGHT * (row - 1) + 1 .. TEXT_HEIGHT * row
         => background'[p] = background[p]
  /\ UNCHANGED <<size, shown>>

\* The main loop prints in the last row; a report of the mouse also moves it.
MainPrints ==
  /\ size # NotSetUp
  /\ PrintIn(1)
  /\ pointer' \in Int \X Int

TaskPrints ==
  /\ size # NotSetUp
  /\ \E row \in Rows : PrintIn(row)
  /\ UNCHANGED pointer

UnderPointer(p) ==
  /\ p[1] - pointer[1] \in 0 .. Pointer[1] - 1
  /\ p[2] - pointer[2] \in 0 .. Pointer[2] - 1

Draw ==
  /\ size # NotSetUp
  /\ shown' = [p \in Points |-> IF UnderPointer(p) THEN "black"
                                ELSE background[p]]
  /\ UNCHANGED <<size, background, pointer>>

Next == SetUp \/ MainPrints \/ TaskPrints \/ Draw

Spec == Init /\ [][Next]_vars
==================================================================================
