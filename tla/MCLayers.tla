------------------------------- MODULE MCLayers -------------------------------
(***************************************************************************)
(* Two cylinders of two tracks of two sectors.  Screens of three by three  *)
(* points and of two by three; a mouse of two by two that goes over every  *)
(* border of the screen.  Pages of four bytes, and memory that is just     *)
(* enough, or not for the mouse, or not for the background.                *)
(***************************************************************************)
EXTENDS Layers

MCScreenSize == [mode \in {"vbe", "vga"} |->
                   IF mode = "vbe" THEN <<3, 3>> ELSE <<2, 3>>]
MCMoves == {<<-1, 0>>, <<3, 0>>, <<-2, 0>>, <<0, -1>>, <<0, 3>>, <<0, -2>>}
MCLocations == {-1, 0, 2} \X {-1, 0, 2}
MCMouseSize == <<2, 2>>
===============================================================================
