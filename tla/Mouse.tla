--------------------------------- MODULE Mouse ---------------------------------
(***************************************************************************)
(* The bytes of the mouse, from its interrupt through sys_buf to the       *)
(* decoder of device/mouse.c.  The mouse and its wire are external: it     *)
(* acknowledges the command that enables it and then sends packets of      *)
(* three bytes, of which the full buffer may reject any.                   *)
(*                                                                         *)
(* Bytes are integers, as the decoder tests their bits.  In sys_buf each   *)
(* is a record: `data' is the word that the code puts there; `pos' and     *)
(* `packet', which the code does not have, say which byte of which packet  *)
(* it is.                                                                  *)
(***************************************************************************)
EXTENDS Integers, Sequences

CONSTANTS
  BUF_SIZE,     \* capacity of sys_buf
  Packets,      \* what the mouse may send: records as in MousePacket
  Keys          \* bytes of the keyboard

MousePacket == [button : 0 .. 7, dx : -256 .. 255, dy : -256 .. 255,
                overflow : BOOLEAN]

ASSUME MouseAssumption ==
  /\ BUF_SIZE \in Nat \ {0}
  /\ Packets \subseteq MousePacket
  /\ Keys \subseteq 0 .. 255

VARIABLES sending,  \* bytes of the packet under way that are still to come
          buf,      \* what sys_buf holds, oldest first
          if_flag,  \* the interrupt flag of the main task
          dec,      \* struct MOUSE_DECODE: phase, the bytes it has got of a packet,
                    \* and what the last call of mouse_decode reported, if it did
          last,     \* the last byte that the decoder was given
          clean,    \* nothing of the mouse's was rejected, no packet overflowed
          calm      \* the last byte that came was put, from a Slow packet

vars == <<sending, buf, if_flag, dec, last, clean, calm>>

MOUSE_DATA_BIAS == 512
MOUSE_DATA_MIN == 512
MOUSE_DATA_MAX == 767
KEYBOARD_DATA_BIAS == 256
REDRAW == 1
ACK == 250                  \* 0xfa

Bit(byte, weight) == (byte \div weight) % 2 = 1

-----------------------------------------------------------------------------
(* The mouse. *)

Byte(value, pos, packet) == [value |-> value, pos |-> pos, packet |-> packet]

Flag(condition, weight) == IF condition THEN weight ELSE 0

Bytes(p) ==
  << Byte(8 + p.button + Flag(p.dx < 0, 16) + Flag(p.dy < 0, 32)
            + Flag(p.overflow, 64), 1, p),
     Byte(p.dx % 256, 2, p),
     Byte(p.dy % 256, 3, p) >>

Rest == [button |-> 0, dx |-> 0, dy |-> 0, overflow |-> FALSE]

\* The acknowledgement; what follows it is the first byte of a packet.
Acknowledge == Byte(ACK, 3, Rest)

-----------------------------------------------------------------------------
(* The decoder. *)

(* Mutant: any byte is taken for the first of a packet. *)
AnyFirst(byte) == TRUE

\* (data & 0xc8) == 0x08
LooksFirst(byte) == Bit(byte, 8) /\ byte < 64

(* Mutant: the sign bits are tested in the wrong order. *)
ExtendSwapped(byte, sign, weight) ==
  IF Bit(sign, 48 - weight) THEN byte - 256 ELSE byte

\* value |= 0xffffff00, as a signed integer
Extend(byte, sign, weight) == IF Bit(sign, weight) THEN byte - 256 ELSE byte

Nothing == [button |-> 0, x |-> 0, y |-> 0]

\* A byte in `phase' after the bytes of `got': the state of the decoder after
\* it, and what it reports (with the result 0: Nothing).
mouse_decode(phase, got, byte) ==
  CASE phase = 0 ->
         [phase |-> IF byte = ACK THEN 1 ELSE 0, got |-> << >>,
          reports |-> FALSE, report |-> Nothing]
    [] phase = 1 ->
         [phase |-> IF LooksFirst(byte) THEN 2 ELSE 1,
          got |-> IF LooksFirst(byte) THEN <<byte>> ELSE << >>,
          reports |-> FALSE, report |-> Nothing]
    [] phase = 2 ->
         [phase |-> 3, got |-> Append(got, byte),
          reports |-> FALSE, report |-> Nothing]
    [] phase = 3 ->
         [phase |-> 1, got |-> << >>, reports |-> TRUE,
          report |-> [button |-> got[1] % 8,
                      x |-> Extend(got[2], got[1], 16),
                      y |-> - Extend(byte, got[1], 32)]]

-----------------------------------------------------------------------------
(* Interrupts come while the main loop is not working off the buffer. *)

Full == Len(buf) = BUF_SIZE

\* fifo32_put(&sys_buf, data): a full buffer rejects it.
Put(data, byte) ==
  buf' = IF Full THEN buf
         ELSE Append(buf, [data |-> data, pos |-> byte.pos,
                           packet |-> byte.packet])

\* Less than eight counts each way: no byte of the motion looks first.
Slow(p) == ~ p.overflow /\ p.dx \in -7 .. 7 /\ p.dy \in -7 .. 7

\* int_handler2c, for the next byte of the packet or the first of a new one.
MouseInterrupt ==
  /\ if_flag
  /\ \E bytes \in IF sending = << >> THEN {Bytes(p) : p \in Packets}
                                     ELSE {sending} :
       /\ sending' = Tail(bytes)
       /\ Put(Head(bytes).value + MOUSE_DATA_BIAS, Head(bytes))
       /\ clean' = (clean /\ ~ Full /\ ~ Head(bytes).packet.overflow)
       /\ calm' = (~ Full /\ Slow(Head(bytes).packet))
  /\ UNCHANGED <<if_flag, dec, last>>

\* int_handler21, and int_handler20 for the redraw timer (how often that
\* comes is Kernel's concern).
OtherInterrupt ==
  /\ if_flag
  /\ \E data \in {REDRAW} \cup {k + KEYBOARD_DATA_BIAS : k \in Keys} :
       Put(data, Acknowledge)
  /\ UNCHANGED <<sending, if_flag, dec, last, clean, calm>>

-----------------------------------------------------------------------------
(* The main loop. *)

(* Mutant: the bounds of the mouse's data include the keyboard's. *)
AnyBiased(data) == data >= KEYBOARD_DATA_BIAS /\ data <= MOUSE_DATA_MAX

IsMouse(data) == data >= MOUSE_DATA_MIN /\ data <= MOUSE_DATA_MAX

\* io_cli, a datum, and what the loop does with it.
Take ==
  /\ buf # << >>
  /\ if_flag' = FALSE
  /\ buf' = Tail(buf)
  /\ IF IsMouse(Head(buf).data)
     THEN /\ dec' = mouse_decode(dec.phase, dec.got,
                                (Head(buf).data - MOUSE_DATA_BIAS) % 256)
          /\ last' = [pos |-> Head(buf).pos, packet |-> Head(buf).packet]
     ELSE UNCHANGED <<dec, last>>
  /\ UNCHANGED <<sending, clean, calm>>

\* The buffer is empty: io_sti, task_sleep.
Sleep ==
  /\ ~ if_flag /\ buf = << >>
  /\ if_flag' = TRUE
  /\ UNCHANGED <<sending, buf, dec, last, clean, calm>>

-----------------------------------------------------------------------------
\* The mouse has acknowledged enable_mouse; start-up goes on.
Init ==
  /\ sending = << >>
  /\ buf = << [data |-> ACK + MOUSE_DATA_BIAS, pos |-> 3, packet |-> Rest] >>
  /\ if_flag = TRUE
  /\ dec = [phase |-> 0, got |-> << >>, reports |-> FALSE, report |-> Nothing]
  /\ last = [pos |-> 3, packet |-> Rest]
  /\ clean = TRUE /\ calm = TRUE

Next == MouseInterrupt \/ OtherInterrupt \/ Take \/ Sleep

Spec == Init /\ [][Next]_vars

(* The main task is woken by a put and runs before the tasks at the lower  *)
(* levels (Kernel's InputTaken).                                           *)
FairSpec == Spec /\ WF_vars(Take) /\ WF_vars(Sleep)

-----------------------------------------------------------------------------
Aligned == dec.phase # 0 => dec.phase = (last.pos % 3) + 1

(* As long as no byte was rejected and no packet overflowed, the decoder   *)
(* stands where the mouse does, whatever else went through the buffer and  *)
(* whatever bytes the motion gave, and reports each packet when its last   *)
(* byte is taken: buttons and motion as sent, y downwards.                 *)
Faithful ==
  clean =>
    /\ Aligned
    /\ dec.phase # 0 /\ last.packet # Rest =>
         (dec.reports <=> last.pos = 3)
    /\ dec.reports =>
         /\ dec.report.button = last.packet.button
         /\ dec.report.x = last.packet.dx
         /\ dec.report.y = - last.packet.dy

(* After any loss the decoder finds the packets again, for good, once no   *)
(* more bytes are lost and the mouse, which goes on sending, moves by less *)
(* than eight counts between two packets.                                  *)
Realigns ==
  /\ <>[]calm
  /\ []<>(sending = << >>) /\ []<>(sending # << >>)
  => <>[]Aligned
================================================================================
