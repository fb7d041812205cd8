------------------------------ MODULE Mouse_proofs ------------------------------
(***************************************************************************)
(* The decoder reports what the mouse sent: for every capacity of sys_buf, *)
(* all packets that the mouse can send, with any bytes of the keyboard and *)
(* redraws among them.                                                     *)
(***************************************************************************)
EXTENDS Mouse, TLAPS

-----------------------------------------------------------------------------
(* The bytes of a packet, and what the decoder makes of them.              *)

First(p) == 8 + p.button + Flag(p.dx < 0, 16) + Flag(p.dy < 0, 32)
              + Flag(p.overflow, 64)
Second(p) == p.dx % 256
Third(p) == p.dy % 256

\* The value of the byte at a position; the acknowledgement apart.
ValueAt(p, pos) ==
  CASE pos = 1 -> First(p) [] pos = 2 -> Second(p) [] pos = 3 -> Third(p)

\* A packet whose motion is in range.
Sound(p) == p \in MousePacket /\ ~ p.overflow

LEMMA FirstSums ==
  ASSUME NEW b \in 0 .. 7, NEW s \in {0, 16}, NEW t \in {0, 32}
  PROVE  LET v == 8 + b + s + t
         IN  /\ v \in 0 .. 63 /\ v % 8 = b
             /\ Bit(v, 8)
             /\ Bit(v, 16) <=> s = 16
             /\ Bit(v, 32) <=> t = 32
<1>1. CASE s = 0 /\ t = 0    BY <1>1 DEF Bit
<1>2. CASE s = 16 /\ t = 0   BY <1>2 DEF Bit
<1>3. CASE s = 0 /\ t = 32   BY <1>3 DEF Bit
<1>4. CASE s = 16 /\ t = 32  BY <1>4 DEF Bit
<1> QED BY <1>1, <1>2, <1>3, <1>4

(* The first byte of a packet in range looks like one, and has the buttons *)
(* and the signs.                                                          *)
LEMMA FirstByte ==
  ASSUME NEW p, Sound(p)
  PROVE  /\ First(p) \in 0 .. 255 /\ LooksFirst(First(p))
         /\ First(p) % 8 = p.button
         /\ Bit(First(p), 16) <=> p.dx < 0
         /\ Bit(First(p), 32) <=> p.dy < 0
<1> DEFINE s == Flag(p.dx < 0, 16)
           t == Flag(p.dy < 0, 32)
<1>1. p.button \in 0 .. 7 /\ p.dx \in Int /\ p.dy \in Int
  BY DEF Sound, MousePacket
<1>2. s \in {0, 16} /\ t \in {0, 32} /\ (s = 16 <=> p.dx < 0) /\ (t = 32 <=> p.dy < 0)
  BY DEF Flag
<1>3. First(p) = 8 + p.button + s + t
  BY <1>1, <1>2 DEF First, Sound, Flag
<1> HIDE DEF s, t
<1> QED BY <1>1, <1>2, <1>3, FirstSums DEF LooksFirst

(* Each byte of the motion with its sign is the motion again.              *)
LEMMA MotionByte ==
  ASSUME NEW p, Sound(p)
  PROVE  /\ Second(p) \in 0 .. 255 /\ Third(p) \in 0 .. 255
         /\ Extend(Second(p), First(p), 16) = p.dx
         /\ Extend(Third(p), First(p), 32) = p.dy
<1>1. p.dx \in -256 .. 255 /\ p.dy \in -256 .. 255
  BY DEF Sound, MousePacket
<1>2. ASSUME NEW d \in -256 .. 255
      PROVE  d % 256 \in 0 .. 255 /\ d = IF d < 0 THEN (d % 256) - 256 ELSE d % 256
  OBVIOUS
<1>3. Second(p) \in 0 .. 255 /\ Third(p) \in 0 .. 255
  BY <1>1, <1>2 DEF Second, Third
<1>4. Extend(Second(p), First(p), 16) = p.dx
  BY <1>1, <1>2, FirstByte DEF Extend, Second
<1>5. Extend(Third(p), First(p), 32) = p.dy
  BY <1>1, <1>2, FirstByte DEF Extend, Third
<1> QED BY <1>3, <1>4, <1>5

-----------------------------------------------------------------------------
(* The invariant.  As long as nothing is lost, the words of the mouse in   *)
(* sys_buf follow each other as the bytes of its packets do, from the last *)
(* byte that the decoder was given to the byte that the mouse sends next.  *)
(* g[k] is the mouse's byte that is the last after k more words are taken. *)

Place == [pos : 1 .. 3, packet : MousePacket]
Word == [data : Int, pos : 1 .. 3, packet : MousePacket]

PlaceOf(e) == [pos |-> e.pos, packet |-> e.packet]

Follows(q, r) == r.pos = (q.pos % 3) + 1 /\ (r.pos # 1 => r.packet = q.packet)

Given(q) == Sound(q.packet) /\ q.pos \in 1 .. 3

Carries(e) == e.data = ValueAt(e.packet, e.pos) + MOUSE_DATA_BIAS

\* What is still to come after a byte.
Sends(q) ==
  CASE q.pos = 1 -> << Byte(Second(q.packet), 2, q.packet),
                       Byte(Third(q.packet), 3, q.packet) >>
    [] q.pos = 2 -> << Byte(Third(q.packet), 3, q.packet) >>
    [] q.pos = 3 -> << >>

\* A word of the mouse comes after the byte q; the acknowledgement is excepted.
InOrder(q, e, ack) ==
  IsMouse(e.data) => ack \/ (/\ Follows(q, PlaceOf(e)) /\ Given(PlaceOf(e))
                             /\ Carries(e))

\* The buffer b from the byte q on; fresh: its first word is an acknowledgement.
Tracked(g, b, fresh, q, s) ==
  /\ g \in [0 .. Len(b) -> Place] /\ g[0] = q
  /\ \A k \in 1 .. Len(b) :
       /\ g[k] = IF IsMouse(b[k].data) THEN PlaceOf(b[k]) ELSE g[k - 1]
       /\ InOrder(g[k - 1], b[k], fresh /\ k = 1)
  /\ Given(g[Len(b)]) /\ s = Sends(g[Len(b)])

\* The decoder after the byte q.
Decoded(d, q) ==
  /\ d.phase \in 0 .. 3 /\ d.reports \in BOOLEAN
  /\ d.phase = 0 => /\ q = [pos |-> 3, packet |-> Rest] /\ d.got = << >>
                    /\ d.reports = FALSE
  /\ d.phase = 1 => /\ q.pos = 3 /\ d.got = << >>
                    /\ d.reports \/ q.packet = Rest
                    /\ d.reports => /\ d.report.button = q.packet.button
                                    /\ d.report.x = q.packet.dx
                                    /\ d.report.y = - q.packet.dy
  /\ d.phase = 2 => /\ q.pos = 1 /\ d.got = << First(q.packet) >>
                    /\ d.reports = FALSE
  /\ d.phase = 3 => /\ q.pos = 2 /\ d.reports = FALSE
                    /\ d.got[1] = First(q.packet) /\ d.got[2] = Second(q.packet)

AckWord == [data |-> ACK + MOUSE_DATA_BIAS, pos |-> 3, packet |-> Rest]

AckFirst == buf # << >> /\ buf[1] = AckWord

IInv ==
  clean => /\ buf \in Seq(Word)
           /\ \E g : Tracked(g, buf, dec.phase = 0, last, sending)
           /\ Decoded(dec, last)
           /\ dec.phase = 0 => AckFirst

-----------------------------------------------------------------------------
(* The decoder. *)

LEMMA ValueIs ==
  ASSUME NEW q, Given(q)
  PROVE  ValueAt(q.packet, q.pos) \in 0 .. 255
<1>1. Sound(q.packet) /\ q.pos \in {1, 2, 3}
  BY DEF Given
<1>2. /\ First(q.packet) \in 0 .. 255 /\ Second(q.packet) \in 0 .. 255
      /\ Third(q.packet) \in 0 .. 255
  BY <1>1, FirstByte, MotionByte
<1> QED BY <1>1, <1>2, Zenon DEF ValueAt

\* mouse_decode, phase by phase.
LEMMA DecodePhases ==
  ASSUME NEW got, NEW byte
  PROVE  /\ mouse_decode(0, got, ACK) =
              [phase |-> 1, got |-> << >>, reports |-> FALSE, report |-> Nothing]
         /\ LooksFirst(byte) =>
              mouse_decode(1, got, byte) =
                [phase |-> 2, got |-> <<byte>>, reports |-> FALSE,
                 report |-> Nothing]
         /\ mouse_decode(2, got, byte) =
              [phase |-> 3, got |-> Append(got, byte), reports |-> FALSE,
               report |-> Nothing]
         /\ mouse_decode(3, got, byte) =
              [phase |-> 1, got |-> << >>, reports |-> TRUE,
               report |-> [button |-> got[1] % 8,
                           x |-> Extend(got[2], got[1], 16),
                           y |-> - Extend(byte, got[1], 32)]]
<1>1. 0 # 1 /\ 0 # 2 /\ 0 # 3 /\ 1 # 2 /\ 1 # 3 /\ 2 # 3
  OBVIOUS
<1> QED BY <1>1, Zenon DEF mouse_decode

LEMMA DecodesAck ==
  ASSUME NEW d, NEW q, Decoded(d, q), d.phase = 0
  PROVE  Decoded(mouse_decode(d.phase, d.got, ACK), [pos |-> 3, packet |-> Rest])
         /\ mouse_decode(d.phase, d.got, ACK).phase = 1
<1> DEFINE e == mouse_decode(d.phase, d.got, ACK)
<1>1. e = [phase |-> 1, got |-> << >>, reports |-> FALSE, report |-> Nothing]
  BY DecodePhases
<1> HIDE DEF e
<1>2. Decoded(e, [pos |-> 3, packet |-> Rest]) /\ e.phase = 1
  BY <1>1 DEF Decoded
<1> QED BY <1>2 DEF e

(* Each byte that comes in its turn takes the decoder one phase further,   *)
(* the third with the packet's report.                                     *)
LEMMA Decodes ==
  ASSUME NEW d, NEW q, Decoded(d, q), d.phase # 0,
         NEW r, Given(r), Follows(q, r)
  PROVE  /\ Decoded(mouse_decode(d.phase, d.got, ValueAt(r.packet, r.pos)), r)
         /\ mouse_decode(d.phase, d.got, ValueAt(r.packet, r.pos)).phase # 0
<1> DEFINE e == mouse_decode(d.phase, d.got, ValueAt(r.packet, r.pos))
<1>1. d.phase \in {1, 2, 3} /\ Sound(r.packet)
  BY DEF Decoded, Given
<1>2. ASSUME d.phase = 1 PROVE Decoded(e, r) /\ e.phase # 0
  <2>1. q.pos = 3 /\ d.got = << >> /\ r.pos = 1
    BY <1>2 DEF Decoded, Follows
  <2>2. ValueAt(r.packet, r.pos) = First(r.packet)
    BY <2>1 DEF ValueAt
  <2>3. e = [phase |-> 2, got |-> <<First(r.packet)>>, reports |-> FALSE,
             report |-> Nothing]
    <3>1. LooksFirst(First(r.packet))
      BY <1>1, FirstByte
    <3>2. e = mouse_decode(1, d.got, First(r.packet))
      BY <1>2, <2>2
    <3> HIDE DEF e
    <3> QED BY <3>1, <3>2, DecodePhases
  <2> HIDE DEF e
  <2> QED BY <2>1, <2>3 DEF Decoded
<1>3. ASSUME d.phase = 2 PROVE Decoded(e, r) /\ e.phase # 0
  <2>1. q.pos = 1 /\ d.got = <<First(q.packet)>> /\ r.pos = 2 /\ r.packet = q.packet
    BY <1>3 DEF Decoded, Follows
  <2>2. ValueAt(r.packet, r.pos) = Second(r.packet)
    BY <2>1 DEF ValueAt
  <2>3. /\ Append(d.got, Second(r.packet))[1] = First(r.packet)
        /\ Append(d.got, Second(r.packet))[2] = Second(r.packet)
    BY <2>1
  <2>4. e = [phase |-> 3, got |-> Append(d.got, Second(r.packet)),
             reports |-> FALSE, report |-> Nothing]
    BY <1>3, <2>2, DecodePhases
  <2> HIDE DEF e
  <2> QED BY <2>1, <2>3, <2>4 DEF Decoded
<1>4. ASSUME d.phase = 3 PROVE Decoded(e, r) /\ e.phase # 0
  <2>1. /\ q.pos = 2 /\ r.pos = 3 /\ r.packet = q.packet
        /\ d.got[1] = First(q.packet) /\ d.got[2] = Second(q.packet)
    BY <1>4 DEF Decoded, Follows
  <2>2. ValueAt(r.packet, r.pos) = Third(r.packet)
    BY <2>1 DEF ValueAt
  <2>3. /\ d.got[1] = First(r.packet) /\ d.got[2] = Second(r.packet)
    BY <2>1
  <2>4. /\ d.got[1] % 8 = r.packet.button
        /\ Extend(d.got[2], d.got[1], 16) = r.packet.dx
        /\ Extend(Third(r.packet), d.got[1], 32) = r.packet.dy
    BY <1>1, <2>3, FirstByte, MotionByte
  <2>5. e = [phase |-> 1, got |-> << >>, reports |-> TRUE,
             report |-> [button |-> r.packet.button, x |-> r.packet.dx,
                         y |-> - r.packet.dy]]
    BY <1>4, <2>2, <2>4, DecodePhases
  <2> HIDE DEF e
  <2> QED BY <2>1, <2>5 DEF Decoded
<1> QED BY <1>1, <1>2, <1>3, <1>4

-----------------------------------------------------------------------------
(* The buffer. *)

LEMMA OtherPut ==
  ASSUME NEW b \in Seq(Word), NEW e \in Word, ~ IsMouse(e.data),
         NEW fresh \in BOOLEAN,
         NEW q, NEW s, NEW g, Tracked(g, b, fresh, q, s)
  PROVE  \E h : Tracked(h, Append(b, e), fresh, q, s)
<1> DEFINE n == Len(b)
           h == [k \in 0 .. n + 1 |-> IF k <= n THEN g[k] ELSE g[n]]
<1>1. /\ n \in Nat /\ Len(Append(b, e)) = n + 1
      /\ \A k \in 1 .. n : Append(b, e)[k] = b[k]
      /\ Append(b, e)[n + 1] = e
  OBVIOUS
<1>2. /\ g \in [0 .. n -> Place] /\ g[0] = q
      /\ Given(g[n]) /\ s = Sends(g[n])
  BY DEF Tracked
<1>3. /\ h \in [0 .. n + 1 -> Place] /\ h[n + 1] = g[n]
      /\ \A k \in 0 .. n : h[k] = g[k]
  BY <1>1, <1>2
<1> HIDE DEF h
<1>4. ASSUME NEW k \in 1 .. n + 1
      PROVE  /\ h[k] = IF IsMouse(Append(b, e)[k].data)
                       THEN PlaceOf(Append(b, e)[k]) ELSE h[k - 1]
             /\ InOrder(h[k - 1], Append(b, e)[k], fresh /\ k = 1)
  <2>1. CASE k <= n
    <3>1. k \in 1 .. n /\ k \in 0 .. n /\ k - 1 \in 0 .. n
      BY <1>1, <2>1
    <3>2. /\ g[k] = IF IsMouse(b[k].data) THEN PlaceOf(b[k]) ELSE g[k - 1]
          /\ InOrder(g[k - 1], b[k], fresh /\ k = 1)
      BY <3>1 DEF Tracked
    <3>3. Append(b, e)[k] = b[k] /\ h[k] = g[k] /\ h[k - 1] = g[k - 1]
      BY <1>1, <1>3, <3>1
    <3> QED BY <3>2, <3>3
  <2>2. CASE k = n + 1
    <3>1. Append(b, e)[k] = e /\ h[k] = g[n] /\ h[k - 1] = g[n]
      BY <1>1, <1>3, <2>2
    <3> QED BY <3>1 DEF InOrder
  <2> QED BY <1>1, <2>1, <2>2
<1>5. Tracked(h, Append(b, e), fresh, q, s)
  BY <1>1, <1>2, <1>3, <1>4 DEF Tracked
<1> QED BY <1>5

LEMMA MousePut ==
  ASSUME NEW b \in Seq(Word), NEW e \in Word, IsMouse(e.data),
         NEW fresh \in BOOLEAN,
         NEW q, NEW s, NEW g, Tracked(g, b, fresh, q, s),
         Follows(g[Len(b)], PlaceOf(e)), Given(PlaceOf(e)), Carries(e),
         NEW r, r = Sends(PlaceOf(e))
  PROVE  \E h : Tracked(h, Append(b, e), fresh, q, r)
<1> DEFINE n == Len(b)
           h == [k \in 0 .. n + 1 |-> IF k <= n THEN g[k] ELSE PlaceOf(e)]
<1>1. /\ n \in Nat /\ Len(Append(b, e)) = n + 1
      /\ \A k \in 1 .. n : Append(b, e)[k] = b[k]
      /\ Append(b, e)[n + 1] = e
  OBVIOUS
<1>2. g \in [0 .. n -> Place] /\ g[0] = q
  BY DEF Tracked
<1>3. PlaceOf(e) \in Place
  BY DEF PlaceOf, Word, Place
<1>4. /\ h \in [0 .. n + 1 -> Place] /\ h[n + 1] = PlaceOf(e)
      /\ \A k \in 0 .. n : h[k] = g[k]
  BY <1>1, <1>2, <1>3
<1> HIDE DEF h
<1>5. ASSUME NEW k \in 1 .. n + 1
      PROVE  /\ h[k] = IF IsMouse(Append(b, e)[k].data)
                       THEN PlaceOf(Append(b, e)[k]) ELSE h[k - 1]
             /\ InOrder(h[k - 1], Append(b, e)[k], fresh /\ k = 1)
  <2>1. CASE k <= n
    <3>1. k \in 1 .. n /\ k \in 0 .. n /\ k - 1 \in 0 .. n
      BY <1>1, <2>1
    <3>2. /\ g[k] = IF IsMouse(b[k].data) THEN PlaceOf(b[k]) ELSE g[k - 1]
          /\ InOrder(g[k - 1], b[k], fresh /\ k = 1)
      BY <3>1 DEF Tracked
    <3>3. Append(b, e)[k] = b[k] /\ h[k] = g[k] /\ h[k - 1] = g[k - 1]
      BY <1>1, <1>4, <3>1
    <3> QED BY <3>2, <3>3
  <2>2. CASE k = n + 1
    <3>1. Append(b, e)[k] = e /\ h[k] = PlaceOf(e) /\ h[k - 1] = g[n]
      BY <1>1, <1>4, <2>2
    <3> QED BY <3>1 DEF InOrder
  <2> QED BY <1>1, <2>1, <2>2
<1>6. Tracked(h, Append(b, e), fresh, q, r)
  <2>1. h[0] = q
    BY <1>1, <1>2, <1>4
  <2> QED BY <1>1, <1>4, <1>5, <2>1 DEF Tracked
<1> QED BY <1>6

AfterHead(g, b, fresh, q, s) ==
  /\ \E h : Tracked(h, Tail(b), FALSE, g[1], s)
  /\ InOrder(q, Head(b), fresh)
  /\ IsMouse(Head(b).data) => g[1] = PlaceOf(Head(b))
  /\ ~ IsMouse(Head(b).data) => g[1] = q

LEMMA HeadTaken ==
  ASSUME NEW b \in Seq(Word), b # << >>, NEW fresh \in BOOLEAN,
         NEW q, NEW s, NEW g, Tracked(g, b, fresh, q, s)
  PROVE  AfterHead(g, b, fresh, q, s)
<1> DEFINE n == Len(b)
           h == [k \in 0 .. n - 1 |-> g[k + 1]]
<1>1. /\ n \in Nat /\ n >= 1 /\ Len(Tail(b)) = n - 1 /\ Head(b) = b[1]
      /\ \A k \in 1 .. n - 1 : Tail(b)[k] = b[k + 1]
  OBVIOUS
<1>2. /\ g \in [0 .. n -> Place] /\ g[0] = q
      /\ Given(g[n]) /\ s = Sends(g[n])
  BY DEF Tracked
<1>3. /\ h \in [0 .. n - 1 -> Place]
      /\ \A k \in 0 .. n - 1 : h[k] = g[k + 1]
  BY <1>1, <1>2
<1> HIDE DEF h
<1>4. ASSUME NEW k \in 1 .. n - 1
      PROVE  /\ h[k] = IF IsMouse(Tail(b)[k].data)
                       THEN PlaceOf(Tail(b)[k]) ELSE h[k - 1]
             /\ InOrder(h[k - 1], Tail(b)[k], FALSE /\ k = 1)
  <2>1. k + 1 \in 1 .. n /\ k \in 0 .. n - 1 /\ k - 1 \in 0 .. n - 1 /\ k + 1 # 1
    BY <1>1
  <2>2. /\ g[k + 1] = IF IsMouse(b[k + 1].data) THEN PlaceOf(b[k + 1])
                                                ELSE g[(k + 1) - 1]
        /\ InOrder(g[(k + 1) - 1], b[k + 1], fresh /\ k + 1 = 1)
    BY <2>1 DEF Tracked
  <2>3. (k + 1) - 1 = k /\ (k - 1) + 1 = k
    OBVIOUS
  <2>4. Tail(b)[k] = b[k + 1] /\ h[k] = g[k + 1] /\ h[k - 1] = g[k]
    BY <1>1, <1>3, <2>1, <2>3
  <2> QED BY <2>1, <2>2, <2>3, <2>4 DEF InOrder
<1>5. h[0] = g[1] /\ h[n - 1] = g[n]
  BY <1>1, <1>3
<1>6. Tracked(h, Tail(b), FALSE, g[1], s)
  BY <1>1, <1>2, <1>3, <1>4, <1>5 DEF Tracked
<1>7. 1 \in 1 .. n /\ 1 - 1 = 0
  BY <1>1
<1>8. /\ g[1] = IF IsMouse(b[1].data) THEN PlaceOf(b[1]) ELSE g[0]
      /\ InOrder(g[0], b[1], fresh)
  BY <1>7 DEF Tracked, InOrder
<1> QED BY <1>1, <1>2, <1>6, <1>8 DEF AfterHead

-----------------------------------------------------------------------------
(* The mouse sends the bytes of a packet one after the other.              *)
LEMMA NextByte ==
  ASSUME NEW q, Given(q),
         NEW bytes \in IF Sends(q) = << >> THEN {Bytes(p) : p \in Packets}
                                           ELSE {Sends(q)},
         ~ Head(bytes).packet.overflow
  PROVE  LET r == PlaceOf(Head(bytes))
         IN  /\ Follows(q, r) /\ Given(r) /\ Tail(bytes) = Sends(r)
             /\ Head(bytes).value = ValueAt(r.packet, r.pos)
<1>1. q.pos \in {1, 2, 3} /\ Sound(q.packet)
  BY DEF Given
<1>2. CASE q.pos = 3
  <2>1. Sends(q) = << >>
    BY <1>2 DEF Sends
  <2>2. PICK p \in Packets : bytes = Bytes(p)
    BY <2>1
  <2>3. /\ Head(bytes) = Byte(First(p), 1, p)
        /\ Tail(bytes) = << Byte(Second(p), 2, p), Byte(Third(p), 3, p) >>
    BY <2>2 DEF Bytes, First, Second, Third
  <2>4. Sound(p)
    BY <2>3, MouseAssumption DEF Sound, Byte
  <2> QED BY <1>2, <2>3, <2>4
          DEF PlaceOf, Byte, Follows, Given, Sends, ValueAt
<1>3. CASE q.pos = 1
  <2>1. Sends(q) = << Byte(Second(q.packet), 2, q.packet),
                      Byte(Third(q.packet), 3, q.packet) >>
    BY <1>3 DEF Sends
  <2>2. bytes = Sends(q)
    BY <2>1
  <2>3. /\ Head(bytes) = Byte(Second(q.packet), 2, q.packet)
        /\ Tail(bytes) = << Byte(Third(q.packet), 3, q.packet) >>
    BY <2>1, <2>2
  <2> QED BY <1>1, <1>3, <2>3
          DEF PlaceOf, Byte, Follows, Given, Sends, ValueAt
<1>4. CASE q.pos = 2
  <2>1. Sends(q) = << Byte(Third(q.packet), 3, q.packet) >>
    BY <1>4 DEF Sends
  <2>2. bytes = Sends(q)
    BY <2>1
  <2>3. Head(bytes) = Byte(Third(q.packet), 3, q.packet) /\ Tail(bytes) = << >>
    BY <2>1, <2>2
  <2> QED BY <1>1, <1>4, <2>3
          DEF PlaceOf, Byte, Follows, Given, Sends, ValueAt
<1> QED BY <1>1, <1>2, <1>3, <1>4

LEMMA WordIs ==
  ASSUME NEW value, NEW pos, NEW packet,
         Given(PlaceOf([data |-> value, pos |-> pos, packet |-> packet])),
         Carries([data |-> value, pos |-> pos, packet |-> packet])
  PROVE  /\ [data |-> value, pos |-> pos, packet |-> packet] \in Word
         /\ IsMouse(value)
<1>1. pos \in 1 .. 3 /\ packet \in MousePacket
  BY DEF PlaceOf, Given, Sound
<1>2. ValueAt(packet, pos) \in 0 .. 255
  BY ValueIs DEF PlaceOf
<1>3. value \in 512 .. 767
  BY <1>2 DEF Carries, MOUSE_DATA_BIAS
<1> QED BY <1>1, <1>3 DEF Word, IsMouse, MOUSE_DATA_MIN, MOUSE_DATA_MAX

LEMMA InitInv == Init => IInv
<1> SUFFICES ASSUME Init PROVE IInv
  OBVIOUS
<1> DEFINE q == [pos |-> 3, packet |-> Rest]
           g == [k \in 0 .. 1 |-> q]
<1>1. Sound(Rest) /\ Rest \in MousePacket
  BY DEF Rest, Sound, MousePacket
<1>2. AckWord \in Word /\ IsMouse(AckWord.data) /\ PlaceOf(AckWord) = q
  BY <1>1 DEF AckWord, Word, ACK, MOUSE_DATA_BIAS, IsMouse, MOUSE_DATA_MIN,
     MOUSE_DATA_MAX, PlaceOf
<1>3. buf = <<AckWord>> /\ last = q /\ dec.phase = 0 /\ sending = << >>
  BY DEF Init, AckWord
<1>4. /\ buf \in Seq(Word) /\ Len(buf) = 1 /\ buf[1] = AckWord /\ buf # << >>
  BY <1>2, <1>3
<1>5. g \in [0 .. 1 -> Place]
  BY <1>1 DEF Place
<1>6. Given(q) /\ Sends(q) = << >>
  BY <1>1 DEF Given, Sends
<1>7. Tracked(g, buf, TRUE, last, sending)
  <2>1. g[0] = q /\ g[1] = q
    OBVIOUS
  <2> HIDE DEF g, q
  <2> QED BY <1>2, <1>3, <1>4, <1>5, <1>6, <2>1 DEF Tracked, InOrder
<1>8. Decoded(dec, last)
  BY DEF Init, Decoded
<1> QED BY <1>3, <1>4, <1>7, <1>8 DEF IInv, AckFirst

LEMMA MouseStep == IInv /\ MouseInterrupt => IInv'
<1> SUFFICES ASSUME IInv, MouseInterrupt, clean' PROVE IInv'
  BY DEF IInv
<1>1. PICK bytes \in IF sending = << >> THEN {Bytes(p) : p \in Packets}
                                        ELSE {sending} :
        /\ sending' = Tail(bytes)
        /\ Put(Head(bytes).value + MOUSE_DATA_BIAS, Head(bytes))
        /\ clean' = (clean /\ ~ Full /\ ~ Head(bytes).packet.overflow)
  BY DEF MouseInterrupt
<1>2. clean /\ ~ Full /\ ~ Head(bytes).packet.overflow
  BY <1>1, Zenon
<1>3. /\ buf \in Seq(Word) /\ Decoded(dec, last)
      /\ dec.phase = 0 => AckFirst
  BY <1>2 DEF IInv
<1>4. PICK g : Tracked(g, buf, dec.phase = 0, last, sending)
  BY <1>2 DEF IInv
<1> DEFINE q == g[Len(buf)]
           e == [data |-> Head(bytes).value + MOUSE_DATA_BIAS,
                 pos |-> Head(bytes).pos, packet |-> Head(bytes).packet]
<1>5. Given(q) /\ sending = Sends(q)
  BY <1>4 DEF Tracked
<1>6. /\ Follows(q, PlaceOf(Head(bytes))) /\ Given(PlaceOf(Head(bytes)))
      /\ Tail(bytes) = Sends(PlaceOf(Head(bytes)))
      /\ Head(bytes).value = ValueAt(Head(bytes).packet, Head(bytes).pos)
  BY <1>1, <1>2, <1>5, NextByte DEF PlaceOf
<1>7. PlaceOf(e) = PlaceOf(Head(bytes)) /\ Carries(e)
  BY <1>6 DEF PlaceOf, Carries
<1>8. Given(PlaceOf(e))
  BY <1>6, <1>7
<1>9. e \in Word /\ IsMouse(e.data)
  BY <1>7, <1>8, WordIs
<1>10. buf' = Append(buf, e) /\ UNCHANGED <<dec, last>>
  BY <1>1, <1>2 DEF Put, MouseInterrupt
<1>11. buf' \in Seq(Word) /\ (AckFirst => AckFirst')
  BY <1>3, <1>9, <1>10 DEF AckFirst
<1> HIDE DEF e, q
<1>12. \E h : Tracked(h, Append(buf, e), dec.phase = 0, last, sending')
  <2>1. (dec.phase = 0) \in BOOLEAN
    OBVIOUS
  <2>2. Follows(g[Len(buf)], PlaceOf(e)) /\ Given(PlaceOf(e))
        /\ sending' = Sends(PlaceOf(e))
    BY <1>1, <1>6, <1>7 DEF q
  <2> QED BY <1>3, <1>4, <1>7, <1>9, <2>1, <2>2, MousePut
<1> QED BY <1>3, <1>10, <1>11, <1>12 DEF IInv

LEMMA OtherStep == IInv /\ OtherInterrupt => IInv'
<1> SUFFICES ASSUME IInv, OtherInterrupt, clean PROVE IInv'
  BY DEF IInv, OtherInterrupt
<1>1. PICK data \in {REDRAW} \cup {k + KEYBOARD_DATA_BIAS : k \in Keys} :
        Put(data, Acknowledge)
  BY DEF OtherInterrupt
<1>2. data \in Int /\ data <= 511
  BY MouseAssumption DEF REDRAW, KEYBOARD_DATA_BIAS
<1>3. ~ IsMouse(data)
  BY <1>2 DEF IsMouse, MOUSE_DATA_MIN
<1>4. UNCHANGED <<sending, dec, last>> /\ clean' = clean
  BY DEF OtherInterrupt
<1>5. /\ buf \in Seq(Word) /\ Decoded(dec, last)
      /\ dec.phase = 0 => AckFirst
      /\ \E g : Tracked(g, buf, dec.phase = 0, last, sending)
  BY DEF IInv
<1>6. CASE buf' = buf
  BY <1>4, <1>5, <1>6 DEF IInv, AckFirst
<1>7. ASSUME NEW e \in Word, ~ IsMouse(e.data), buf' = Append(buf, e) PROVE IInv'
  <2>1. buf' \in Seq(Word) /\ (AckFirst => AckFirst')
    BY <1>5, <1>7 DEF AckFirst
  <2>2. (dec.phase = 0) \in BOOLEAN
    OBVIOUS
  <2>3. \E h : Tracked(h, buf', dec.phase = 0, last, sending)
    BY <1>5, <1>7, <2>2, OtherPut
  <2> QED BY <1>4, <1>5, <2>1, <2>3 DEF IInv
<1>8. buf' = buf \/ buf' = Append(buf, [data |-> data, pos |-> 3, packet |-> Rest])
  BY <1>1 DEF Put, Acknowledge, Byte
<1>9. [data |-> data, pos |-> 3, packet |-> Rest] \in Word
  BY <1>2 DEF Word, Rest, MousePacket
<1> QED BY <1>3, <1>6, <1>7, <1>8, <1>9

(* The decoder is given the acknowledgement, then each byte in its turn.   *)
LEMMA TakeStep == IInv /\ Take => IInv'
<1> SUFFICES ASSUME IInv, Take, clean PROVE IInv'
  BY DEF IInv, Take
<1> DEFINE e == Head(buf)
<1>1. /\ buf \in Seq(Word) /\ Decoded(dec, last)
      /\ dec.phase = 0 => AckFirst
      /\ buf # << >> /\ buf' = Tail(buf) /\ UNCHANGED <<sending, clean>>
  BY DEF IInv, Take
<1>2. PICK g : Tracked(g, buf, dec.phase = 0, last, sending)
  BY DEF IInv
<1>3. /\ buf' \in Seq(Word) /\ e \in Word /\ e = buf[1]
  BY <1>1
<1>4. (dec.phase = 0) \in BOOLEAN
  OBVIOUS
<1>5. /\ \E h : Tracked(h, Tail(buf), FALSE, g[1], sending)
      /\ InOrder(last, e, dec.phase = 0)
      /\ IsMouse(e.data) => g[1] = PlaceOf(e)
      /\ ~ IsMouse(e.data) => g[1] = last
  <2> DEFINE fresh == dec.phase = 0
  <2> HIDE DEF fresh
  <2>1. /\ buf \in Seq(Word) /\ buf # << >> /\ fresh \in BOOLEAN
        /\ Tracked(g, buf, fresh, last, sending)
    BY <1>1, <1>2, <1>4 DEF fresh
  <2>2. AfterHead(g, buf, fresh, last, sending)
    BY <2>1, HeadTaken
  <2> QED BY <2>2 DEF AfterHead, fresh
<1> HIDE DEF e
<1>6. SUFFICES last' = g[1] /\ Decoded(dec', last') /\ dec'.phase # 0
  BY <1>1, <1>3, <1>5 DEF IInv
<1>7. ASSUME dec.phase = 0
      PROVE  /\ IsMouse(e.data) /\ (e.data - MOUSE_DATA_BIAS) % 256 = ACK
             /\ PlaceOf(e) = [pos |-> 3, packet |-> Rest]
  BY <1>1, <1>3, <1>7 DEF AckFirst, AckWord, PlaceOf, IsMouse, MOUSE_DATA_MIN,
     MOUSE_DATA_MAX, MOUSE_DATA_BIAS, ACK
<1>8. CASE IsMouse(e.data)
  <2> DEFINE byte == (e.data - MOUSE_DATA_BIAS) % 256
  <2>1. dec' = mouse_decode(dec.phase, dec.got, byte) /\ last' = PlaceOf(e)
    BY <1>8 DEF Take, PlaceOf, e
  <2>2. last' = g[1]
    BY <1>5, <1>8, <2>1
  <2>3. CASE dec.phase = 0
    BY <1>1, <1>7, <2>1, <2>2, <2>3, DecodesAck
  <2>4. CASE dec.phase # 0
    <3>1. Follows(last, PlaceOf(e)) /\ Given(PlaceOf(e)) /\ Carries(e)
      BY <1>5, <1>8, <2>4 DEF InOrder
    <3>2. byte = ValueAt(e.packet, e.pos)
      <4>1. ValueAt(e.packet, e.pos) \in 0 .. 255
        BY <3>1, ValueIs DEF PlaceOf
      <4> QED BY <3>1, <4>1 DEF Carries, MOUSE_DATA_BIAS
    <3>3. ValueAt(e.packet, e.pos) = ValueAt(PlaceOf(e).packet, PlaceOf(e).pos)
      BY DEF PlaceOf
    <3>4. Decoded(dec, last)
      BY <1>1
    <3>5. /\ Decoded(mouse_decode(dec.phase, dec.got, byte), PlaceOf(e))
          /\ mouse_decode(dec.phase, dec.got, byte).phase # 0
      BY <2>4, <3>1, <3>2, <3>3, <3>4, Decodes
    <3> QED BY <2>1, <2>2, <3>5
  <2> QED BY <2>3, <2>4
<1>9. CASE ~ IsMouse(e.data)
  <2>1. UNCHANGED <<dec, last>>
    BY <1>9 DEF Take, e
  <2> QED BY <1>1, <1>5, <1>7, <1>9, <2>1
<1> QED BY <1>8, <1>9

LEMMA StepInv == IInv /\ [Next]_vars => IInv'
<1> SUFFICES ASSUME IInv, [Next]_vars PROVE IInv'
  OBVIOUS
<1>1. CASE Sleep \/ UNCHANGED vars
  <2>1. UNCHANGED <<sending, buf, dec, last, clean>>
    BY <1>1 DEF Sleep, vars
  <2> QED BY <2>1 DEF IInv, AckFirst
<1> QED BY <1>1, MouseStep, OtherStep, TakeStep DEF Next

(* As long as no byte is rejected and no packet overflows, the decoder is  *)
(* in step with the mouse and reports each packet as it was sent, whatever *)
(* bytes the motion gives and whatever else sys_buf holds.                 *)
THEOREM DecoderIsFaithful == Spec => []Faithful
<1>1. IInv => Faithful
  <2> SUFFICES ASSUME IInv, clean PROVE Faithful
    BY DEF Faithful
  <2>1. Decoded(dec, last) /\ dec.phase \in {0, 1, 2, 3}
    BY DEF IInv, Decoded
  <2>2. Aligned
    BY <2>1 DEF Decoded, Aligned
  <2>3. dec.phase # 0 /\ last.packet # Rest => (dec.reports <=> last.pos = 3)
    BY <2>1 DEF Decoded
  <2>4. dec.reports => /\ dec.report.button = last.packet.button
                       /\ dec.report.x = last.packet.dx
                       /\ dec.report.y = - last.packet.dy
    BY <2>1 DEF Decoded
  <2> QED BY <2>2, <2>3, <2>4 DEF Faithful
<1> QED BY <1>1, InitInv, StepInv, PTL DEF Spec
=================================================================================
