---------------------------- MODULE MouseProofs ----------------------------
(***************************************************************************)
(* For screens, rings and movements of any size: while the negotiation     *)
(* runs, the answers that are outstanding are those of the commands        *)
(* written so far, so that the poll for the identity gets it; from then on *)
(* the driver has of a packet what the device has sent, and behind a lost  *)
(* byte it is one byte late until the next header.                         *)
(***************************************************************************)
EXTENDS Mouse, SequenceTheorems, TLAPS

Event == [type : {"move", "click", "release", "scroll"}, button : 0 .. 2]

(* What TypeOK leaves to the others.                                       *)
Typed ==
  /\ TypeOK
  /\ mouse_intelli \in BOOLEAN /\ has_wheel \in BOOLEAN /\ wheel_on \in BOOLEAN
  /\ lost \in BOOLEAN /\ noisy \in BOOLEAN
  /\ event_queue \in Seq(Event)
  /\ early \in Nat /\ misread \in 0 .. 2
  /\ ~lost => misread = 0

(* Before the interrupts are let in nothing is assembled or sent.          *)
Quiet ==
  /\ ~Ready => mouse_cycle = 0 /\ packet = << >> /\ ~lost /\ pointer = <<abs_x, abs_y>>
  /\ init_pc <= IdPoll => ~mouse_intelli

(* How many answers are outstanding at a step of mouse_init().             *)
Owed(pc) ==
  IF pc = 2 THEN 3
  ELSE IF pc \in {3, 18} THEN 2
  ELSE IF pc \in {4, 6, 8, 10, 12, 14, 16, 19, 21, 23, 25} THEN 1
  ELSE 0

Identity == IF wheel_on THEN 3 ELSE 0
Negotiated ==
  early = 0 =>
    /\ Len(answers) = Owed(init_pc)
    /\ init_pc = IdPoll - 1 => answers[2] = Identity
    /\ init_pc = IdPoll => answers[1] = Identity
    /\ init_pc > IdPoll => mouse_intelli = wheel_on

(* The packet on the wire is that of a movement, and while no byte is lost *)
(* it leads from where the driver has the pointer to where it should be.   *)
Carries(move, buttons, wheel) ==
  /\ packet = Packet(move, buttons, wheel)
  /\ early = 0 /\ ~lost => pointer = MovedTo(<<abs_x, abs_y>>, move)
Sending ==
  IF packet = << >> THEN sent = 0
  ELSE /\ sent < Len(packet)
       /\ \E move \in Motion, buttons \in Buttons, wheel \in Wheel : Carries(move, buttons, wheel)

(* Behind a loss the driver is a byte late, or waits for a header.         *)
Late == misread = 0 /\ mouse_cycle = IF sent = 0 THEN LastByte ELSE sent - 1
Waiting == misread <= 1 /\ mouse_cycle = 0 /\ sent > 0
Searching == early = 0 /\ lost /\ ~noisy => Late \/ Waiting

IInv == Typed /\ Quiet /\ Negotiated /\ Sending /\ InStep /\ Searching /\ EventsAlternate

-----------------------------------------------------------------------------
(* Numbers.                                                                *)
LEMMA ByteIs == BYTE \in {64, 128, 256} /\ Byte = 0 .. BYTE - 1
  BY MouseAssumption DEF Byte

LEMMA LowBits == \A b \in Byte : b % 8 \in 0 .. 7 /\ b % 16 \in 0 .. 15
  BY MouseAssumption DEF Byte

LEMMA SmallBytes == \A n \in 0 .. 63 : n \in Byte
  BY MouseAssumption DEF Byte

LEMMA HeaderBits ==
  \A b \in 0 .. 7, s, t \in {0, 1} :
    /\ b + 8 + 16 * s + 32 * t \in 0 .. 63
    /\ ((b + 8 + 16 * s + 32 * t) \div 8) % 2 = 1
    /\ ((b + 8 + 16 * s + 32 * t) \div 16) % 2 = s
    /\ ((b + 8 + 16 * s + 32 * t) \div 32) % 2 = t
  OBVIOUS

(* Nine bits and a sign give the movement back.                            *)
LEMMA SignedIs ==
  \A m \in -BYTE .. BYTE - 1 : m % BYTE \in Byte /\ Signed(m < 0, m % BYTE) = m
<1>1. CASE BYTE = 64
  BY <1>1 DEF Signed, Byte
<1>2. CASE BYTE = 128
  BY <1>2 DEF Signed, Byte
<1>3. CASE BYTE = 256
  BY <1>3 DEF Signed, Byte
<1> QED
  BY <1>1, <1>2, <1>3, ByteIs

LEMMA SignedType ==
  ASSUME NEW b \in Byte, NEW negative \in BOOLEAN
  PROVE  Signed(negative, b) \in -BYTE .. BYTE - 1
  BY ByteIs DEF Signed

LEMMA ClampType ==
  ASSUME NEW size \in Nat \ {0}, NEW v \in Int
  PROVE  Clamp(v, size) \in 0 .. size - 1
  BY DEF Clamp

LEMMA MovedType ==
  ASSUME NEW x \in Int, NEW y \in Int, NEW dx \in Int, NEW dy \in Int
  PROVE  /\ MovedTo(<<x, y>>, <<dx, dy>>)[1] \in 0 .. WIDTH - 1
         /\ MovedTo(<<x, y>>, <<dx, dy>>)[2] \in 0 .. HEIGHT - 1
  BY ClampType, MouseAssumption DEF MovedTo

-----------------------------------------------------------------------------
(* mouse_init(): which steps write, and what.                              *)
Writes == {1, 5, 7, 9, 11, 13, 15, 17, 20, 22, 24}
LEMMA ScriptIs ==
  /\ Len(Script) = 25
  /\ \A i \in 1 .. 25 : Script[i].op = "write" <=> i \in Writes
  /\ \A i \in 1 .. 25 : Script[i].op = "read" <=> i \notin Writes
  /\ \A i \in Writes : /\ Script[i].cmd = "reset" <=> i = 1
                       /\ Script[i].cmd = "80" <=> i = 15
                       /\ Script[i].cmd = "id" <=> i = 17
<1>1. /\ Len(Script) = 25
      /\ Script[1] = Write("reset") /\ Script[5] = Write("rate") /\ Script[7] = Write("200")
      /\ Script[9] = Write("rate") /\ Script[11] = Write("100") /\ Script[13] = Write("rate")
      /\ Script[15] = Write("80") /\ Script[17] = Write("id") /\ Script[20] = Write("rate")
      /\ Script[22] = Write("100") /\ Script[24] = Write("enable")
  BY DEF Script
<1>2. \A i \in 1 .. 25 \ Writes : Script[i] = Read
  BY DEF Script, Writes
<1>3. \A i \in Writes : Script[i].op = "write"
  BY <1>1 DEF Write, Writes
<1>4. Read.op = "read"
  BY DEF Read
<1>5. \A i \in Writes : /\ Script[i].cmd = "reset" <=> i = 1
                        /\ Script[i].cmd = "80" <=> i = 15
                        /\ Script[i].cmd = "id" <=> i = 17
  BY <1>1 DEF Write, Writes
<1>6. Writes \subseteq 1 .. 25 /\ \A i \in 1 .. 25 \ Writes : Script[i].op = "read"
  BY <1>2, <1>4 DEF Writes
<1> HIDE DEF Writes
<1> QED
  BY ONLY <1>1, <1>3, <1>5, <1>6

-----------------------------------------------------------------------------
(* The device's packets.                                                   *)
LEMMA PacketIs ==
  ASSUME NEW move \in Motion, NEW buttons \in Buttons, NEW wheel \in Wheel, wheel_on \in BOOLEAN,
         NEW p, p = Packet(move, buttons, wheel)
  PROVE  /\ p \in Seq(Byte) /\ Len(p) = IF wheel_on THEN 4 ELSE 3
         /\ Bit(p[1], 8)
         /\ Signed(Bit(p[1], 16), p[2]) = move[1]
         /\ Signed(Bit(p[1], 32), p[3]) = move[2]
<1> DEFINE s == IF move[1] < 0 THEN 1 ELSE 0
           t == IF move[2] < 0 THEN 1 ELSE 0
<1>1. /\ move[1] \in -BYTE .. BYTE - 1 /\ move[2] \in -BYTE .. BYTE - 1
      /\ buttons \in 0 .. 7 /\ wheel \in 0 .. 15
  BY MouseAssumption
<1>2. Header(move, buttons) = buttons + 8 + 16 * s + 32 * t
  BY <1>1, ByteIs DEF Header
<1>3. /\ Header(move, buttons) \in Byte
      /\ Bit(Header(move, buttons), 8)
      /\ Bit(Header(move, buttons), 16) <=> move[1] < 0
      /\ Bit(Header(move, buttons), 32) <=> move[2] < 0
  <2>1. s \in {0, 1} /\ t \in {0, 1} /\ (s = 1 <=> move[1] < 0) /\ (t = 1 <=> move[2] < 0)
    OBVIOUS
  <2> HIDE DEF s, t
  <2>2. /\ Header(move, buttons) \in 0 .. 63 /\ s \in {0, 1} /\ t \in {0, 1}
        /\ Bit(Header(move, buttons), 8)
        /\ Bit(Header(move, buttons), 16) <=> s = 1
        /\ Bit(Header(move, buttons), 32) <=> t = 1
    BY ONLY <1>1, <1>2, <2>1, HeaderBits DEF Bit
  <2> QED
    <3>1. Header(move, buttons) \in Byte
      <4>1. Header(move, buttons) \in 0 .. 63
        BY <2>2
      <4> QED
        BY ONLY <4>1, SmallBytes
    <3> QED
      BY ONLY <2>1, <2>2, <3>1
<1>4. /\ move[1] % BYTE \in Byte /\ Signed(move[1] < 0, move[1] % BYTE) = move[1]
      /\ move[2] % BYTE \in Byte /\ Signed(move[2] < 0, move[2] % BYTE) = move[2]
      /\ wheel \in Byte
  <2>1. wheel \in Byte
    BY ONLY <1>1, ByteIs
  <2> QED
    BY ONLY <1>1, <2>1, SignedIs
<1>5. /\ p \in Seq(Byte) /\ Len(p) = IF wheel_on THEN 4 ELSE 3
      /\ p[1] = Header(move, buttons) /\ p[2] = move[1] % BYTE /\ p[3] = move[2] % BYTE
  <2> DEFINE h == Header(move, buttons)
             x == move[1] % BYTE
             y == move[2] % BYTE
  <2>1. p = <<h, x, y>> \o (IF wheel_on THEN <<wheel>> ELSE << >>)
    BY DEF Packet
  <2>2. h \in Byte /\ x \in Byte /\ y \in Byte /\ wheel \in Byte
    BY <1>3, <1>4
  <2> HIDE DEF h, x, y
  <2>5. p \in Seq(Byte) /\ Len(p) = (IF wheel_on THEN 4 ELSE 3) /\ p[1] = h /\ p[2] = x /\ p[3] = y
    <3>1. CASE wheel_on
      BY <2>1, <2>2, <3>1
    <3>2. CASE ~wheel_on
      BY <2>1, <2>2, <3>2
    <3> QED
      BY <3>1, <3>2
  <2> QED
    BY <2>5 DEF h, x, y
<1> QED
  BY <1>3, <1>4, <1>5 DEF Signed

-----------------------------------------------------------------------------
(* The ring of events.                                                     *)
RingType(q) == q \in Seq(Event) /\ Len(q) < MOUSE_EVENT_QUEUE_SIZE

LEMMA TailAlternates ==
  ASSUME NEW q \in Seq(Event), q # << >>, NEW k, NEW down \in BOOLEAN, Alternates(q, k, down)
  PROVE  Alternates(Tail(q), k, down)
<1> DEFINE t == Tail(q)
<1>1. /\ t \in Seq(Event) /\ Len(q) \in Nat /\ Len(q) > 0 /\ Len(t) = Len(q) - 1
      /\ \A i \in 1 .. Len(t) : t[i] = q[i + 1]
  OBVIOUS
<1> HIDE DEF t
<1>2. ASSUME NEW i \in 1 .. Len(t), NEW j \in 1 .. Len(t) + 1, Follows(t, k, i, j)
      PROVE  Follows(q, k, i + 1, j + 1)
  <2> SUFFICES ASSUME NEW m \in (i + 1) + 1 .. (j + 1) - 1 PROVE ~IsButton(q[m], k)
    BY DEF Follows
  <2>1. m - 1 \in i + 1 .. j - 1 /\ m - 1 \in 1 .. Len(t) /\ t[m - 1] = q[(m - 1) + 1] /\ (m - 1) + 1 = m
    BY <1>1
  <2> QED
    BY <1>2, <2>1 DEF Follows
<1>3. ASSUME NEW i \in 1 .. Len(t), NEW j \in 1 .. Len(t),
             i < j, IsButton(t[i], k), IsButton(t[j], k), Follows(t, k, i, j)
      PROVE  t[i].type # t[j].type
  <2>1. i + 1 \in 1 .. Len(q) /\ j + 1 \in 1 .. Len(q) /\ i + 1 < j + 1 /\ j \in 1 .. Len(t) + 1
        /\ t[i] = q[i + 1] /\ t[j] = q[j + 1]
    BY <1>1, <1>3
  <2>2. Follows(q, k, i + 1, j + 1)
    BY <1>2, <1>3, <2>1
  <2> QED
    BY <1>3, <2>1, <2>2 DEF Alternates
<1>4. ASSUME NEW i \in 1 .. Len(t), IsButton(t[i], k), Follows(t, k, i, Len(t) + 1)
      PROVE  t[i].type = "click" <=> down
  <2>1. i + 1 \in 1 .. Len(q) /\ Len(t) + 1 \in 1 .. Len(t) + 1 /\ (Len(t) + 1) + 1 = Len(q) + 1
        /\ t[i] = q[i + 1]
    BY <1>1
  <2>2. Follows(q, k, i + 1, (Len(t) + 1) + 1)
    BY <1>2, <1>4, <2>1
  <2> QED
    BY <1>4, <2>1, <2>2 DEF Alternates
<1>5. Alternates(t, k, down)
  BY <1>3, <1>4 DEF Alternates
<1> QED
  BY <1>5 DEF t

(* A button event that is added tells of a change, any other of none.      *)
LEMMA AppendAlternates ==
  ASSUME NEW q \in Seq(Event), NEW e \in Event, NEW k,
         NEW before \in BOOLEAN, NEW now \in BOOLEAN, Alternates(q, k, before),
         IF IsButton(e, k) THEN now # before /\ (e.type = "click" <=> now) ELSE now = before
  PROVE  Alternates(Append(q, e), k, now)
<1> DEFINE r == Append(q, e)
           n == Len(q)
<1>1. /\ n \in Nat /\ r \in Seq(Event) /\ Len(r) = n + 1 /\ r[n + 1] = e
      /\ \A i \in 1 .. n : r[i] = q[i]
  OBVIOUS
<1> HIDE DEF r
<1>2. ASSUME NEW i \in 1 .. n, NEW j \in 1 .. n + 1
      PROVE  Follows(r, k, i, j) <=> Follows(q, k, i, j)
  <2>1. \A m \in i + 1 .. j - 1 : m \in 1 .. n /\ r[m] = q[m]
    BY <1>1
  <2> QED
    BY <2>1 DEF Follows
<1>3. ASSUME NEW i \in 1 .. n + 1, NEW j \in 1 .. n + 1,
             i < j, IsButton(r[i], k), IsButton(r[j], k), Follows(r, k, i, j)
      PROVE  r[i].type # r[j].type
  <2>1. i \in 1 .. n /\ r[i] = q[i] /\ Follows(q, k, i, j)
    BY <1>1, <1>2, <1>3
  <2>2. CASE j \in 1 .. n
    <3>1. r[j] = q[j]
      BY <1>1, <2>2
    <3> QED
      BY <1>3, <2>1, <2>2, <3>1 DEF Alternates
  <2>3. CASE j = n + 1
    <3>1. q[i].type = "click" <=> before
      BY <1>3, <2>1, <2>3 DEF Alternates
    <3>2. r[j] = e /\ IsButton(e, k)
      BY <1>1, <1>3, <2>3
    <3> QED
      BY <2>1, <3>1, <3>2
  <2> QED
    BY <1>1, <2>2, <2>3
<1>4. ASSUME NEW i \in 1 .. n + 1, IsButton(r[i], k), Follows(r, k, i, Len(r) + 1)
      PROVE  r[i].type = "click" <=> now
  <2>1. CASE i = n + 1
    BY <1>1, <1>4, <2>1
  <2>2. CASE i \in 1 .. n
    <3>1. n + 1 \in i + 1 .. (Len(r) + 1) - 1
      BY <1>1, <2>2
    <3>2. ~IsButton(e, k)
      BY <1>1, <1>4, <3>1 DEF Follows
    <3>3. Follows(r, k, i, n + 1)
      <4>1. \A m \in i + 1 .. (n + 1) - 1 : m \in i + 1 .. (Len(r) + 1) - 1
        BY <1>1, <2>2
      <4> QED
        BY <1>4, <4>1 DEF Follows
    <3>4. Follows(q, k, i, n + 1)
      BY <1>1, <1>2, <2>2, <3>3
    <3> QED
      BY <1>1, <1>4, <2>2, <3>2, <3>4 DEF Alternates
  <2> QED
    BY <1>1, <2>1, <2>2
<1>5. Alternates(r, k, now)
  BY <1>1, <1>3, <1>4 DEF Alternates
<1> QED
  BY <1>5 DEF r

LEMMA PushAlternates ==
  ASSUME NEW q, RingType(q), NEW e \in Event, NEW k,
         NEW before \in BOOLEAN, NEW now \in BOOLEAN, Alternates(q, k, before),
         IF IsButton(e, k) THEN now # before /\ (e.type = "click" <=> now) ELSE now = before
  PROVE  Alternates(Push(q, e), k, now)
<1> DEFINE r == IF Len(q) < MOUSE_EVENT_QUEUE_SIZE - 1 THEN q ELSE Tail(q)
<1>1. q \in Seq(Event) /\ Len(q) \in Nat
  BY DEF RingType
<1>2. CASE Len(q) < MOUSE_EVENT_QUEUE_SIZE - 1
  BY <1>1, <1>2, AppendAlternates DEF Push
<1>3. CASE ~(Len(q) < MOUSE_EVENT_QUEUE_SIZE - 1)
  <2>1. q # << >>
    BY <1>1, <1>3, MouseAssumption
  <2>2. Tail(q) \in Seq(Event) /\ Alternates(Tail(q), k, before)
    BY <1>1, <2>1, TailAlternates
  <2> QED
    BY <1>3, <2>2, AppendAlternates DEF Push
<1> QED
  BY <1>2, <1>3

LEMMA PushType ==
  ASSUME NEW q, RingType(q), NEW e \in Event
  PROVE  RingType(Push(q, e))
<1>1. q \in Seq(Event) /\ Len(q) \in Nat /\ Len(q) < MOUSE_EVENT_QUEUE_SIZE
  BY DEF RingType
<1>2. CASE Len(q) < MOUSE_EVENT_QUEUE_SIZE - 1
  BY <1>1, <1>2, MouseAssumption DEF Push, RingType
<1>3. CASE ~(Len(q) < MOUSE_EVENT_QUEUE_SIZE - 1)
  <2>1. q # << >>
    BY <1>1, <1>3, MouseAssumption
  <2>2. Tail(q) \in Seq(Event) /\ Len(Tail(q)) = Len(q) - 1
    BY <1>1, <2>1
  <2> QED
    BY <1>1, <1>3, <2>2, MouseAssumption DEF Push, RingType
<1> QED
  BY <1>2, <1>3

(* What one button adds to the ring, and what that is to another.          *)
LEMMA ButtonEventsAlternate ==
  ASSUME NEW q, RingType(q), NEW k \in {1, 2}, NEW before, NEW now
  PROVE  /\ RingType(ButtonEvents(q, k, before, now))
         /\ Alternates(q, k, Bit(before, k)) => Alternates(ButtonEvents(q, k, before, now), k, Bit(now, k))
         /\ \A j \in {1, 2} \ {k}, down \in BOOLEAN :
              Alternates(q, j, down) => Alternates(ButtonEvents(q, k, before, now), j, down)
<1> DEFINE b == Bit(before, k)
           n == Bit(now, k)
           click == [type |-> "click", button |-> k]
           release == [type |-> "release", button |-> k]
           r == ButtonEvents(q, k, before, now)
<1>1. b \in BOOLEAN /\ n \in BOOLEAN
  BY DEF Bit
<1>2. /\ click \in Event /\ IsButton(click, k) /\ click.type = "click"
      /\ release \in Event /\ IsButton(release, k) /\ release.type # "click"
      /\ \A j \in {1, 2} \ {k} : ~IsButton(click, j) /\ ~IsButton(release, j)
  BY DEF Event, IsButton
<1>3. r = IF b = n THEN q ELSE IF n THEN Push(q, click) ELSE Push(q, release)
  BY <1>1 DEF ButtonEvents, PushIf
<1> HIDE DEF b, n, click, release, r
<1>4. RingType(r)
  BY <1>2, <1>3, PushType
<1>5. ASSUME Alternates(q, k, b) PROVE Alternates(r, k, n)
  <2>1. CASE b = n
    BY <1>3, <1>5, <2>1
  <2>2. CASE b # n /\ n
    <3>1. Alternates(Push(q, click), k, n)
      BY <1>1, <1>2, <1>5, <2>2, PushAlternates
    <3> QED
      BY <1>3, <2>2, <3>1
  <2>3. CASE b # n /\ ~n
    <3>1. Alternates(Push(q, release), k, n)
      BY <1>1, <1>2, <1>5, <2>3, PushAlternates
    <3> QED
      BY <1>3, <2>3, <3>1
  <2> QED
    BY <1>1, <2>1, <2>2, <2>3
<1>6. ASSUME NEW j \in {1, 2} \ {k}, NEW down \in BOOLEAN, Alternates(q, j, down)
      PROVE  Alternates(r, j, down)
  <2>1. Alternates(Push(q, click), j, down) /\ Alternates(Push(q, release), j, down)
    BY <1>2, <1>6, PushAlternates
  <2> QED
    BY <1>3, <1>6, <2>1
<1> QED
  BY <1>4, <1>5, <1>6 DEF b, n, r

-----------------------------------------------------------------------------
(* The handler.                                                            *)
DriverType ==
  /\ mouse_cycle \in 0 .. LastByte /\ Len(packet_buf) = mouse_cycle
  /\ packet_buf \in Seq(Byte)
  /\ abs_x \in 0 .. WIDTH - 1 /\ abs_y \in 0 .. HEIGHT - 1
  /\ mouse_buttons \in 0 .. 7 /\ mouse_scroll \in -8 .. 7
  /\ RingType(event_queue)

LEMMA TypedDriver == Typed => DriverType
  BY DEF Typed, TypeOK, DriverType, RingType

(* The movement that the driver reads from a packet.                       *)
Read3(p) == <<Signed(Bit(p[1], 16), p[2]), Signed(Bit(p[1], 32), p[3])>>

LEMMA ProcessPacketKeeps ==
  ASSUME DriverType, EventsAlternate, mouse_intelli \in BOOLEAN,
         NEW p \in Seq(Byte), Len(p) = LastByte + 1, ProcessPacket(p)
  PROVE  /\ abs_x' \in 0 .. WIDTH - 1 /\ abs_y' \in 0 .. HEIGHT - 1
         /\ mouse_buttons' \in 0 .. 7 /\ mouse_scroll' \in -8 .. 7
         /\ RingType(event_queue') /\ EventsAlternate'
         /\ <<abs_x', abs_y'>> = MovedTo(<<abs_x, abs_y>>, Read3(p))
<1> DEFINE to == MovedTo(<<abs_x, abs_y>>, Read3(p))
           now == p[1] % 8
           low == IF mouse_intelli THEN p[4] % 16 ELSE 0
           scroll == IF low >= 8 THEN low - 16 ELSE low
           moved == PushIf(p[2] # 0 \/ p[3] # 0, event_queue, [type |-> "move", button |-> 0])
           left == ButtonEvents(moved, 1, mouse_buttons, now)
           right == ButtonEvents(left, 2, mouse_buttons, now)
<1>1. /\ abs_x' = to[1] /\ abs_y' = to[2] /\ mouse_buttons' = now /\ mouse_scroll' = scroll
      /\ event_queue' = PushIf(scroll # 0, right, [type |-> "scroll", button |-> 0])
  BY DEF ProcessPacket, Read3
<1>2. p[1] \in Byte /\ p[2] \in Byte /\ p[3] \in Byte /\ (mouse_intelli => p[4] \in Byte)
  BY DEF LastByte
<1>3. /\ Signed(Bit(p[1], 16), p[2]) \in Int /\ Signed(Bit(p[1], 32), p[3]) \in Int
      /\ abs_x \in Int /\ abs_y \in Int
  <2>1. Bit(p[1], 16) \in BOOLEAN /\ Bit(p[1], 32) \in BOOLEAN
    BY DEF Bit
  <2>2. /\ Signed(Bit(p[1], 16), p[2]) \in -BYTE .. BYTE - 1
        /\ Signed(Bit(p[1], 32), p[3]) \in -BYTE .. BYTE - 1
    BY <1>2, <2>1, SignedType
  <2> QED
    BY <2>2, ByteIs, MouseAssumption DEF DriverType
<1>4. to[1] \in 0 .. WIDTH - 1 /\ to[2] \in 0 .. HEIGHT - 1 /\ to = <<to[1], to[2]>>
  <2>1. to[1] \in 0 .. WIDTH - 1 /\ to[2] \in 0 .. HEIGHT - 1
    BY <1>3, MovedType DEF Read3
  <2>2. to = <<to[1], to[2]>>
    BY DEF MovedTo
  <2> QED
    BY <2>1, <2>2
<1>5. now \in 0 .. 7
  BY <1>2, LowBits
<1>6. low \in 0 .. 15
  BY <1>2, LowBits
<1> HIDE DEF low
<1>7. scroll \in -8 .. 7
  BY <1>6
<1>8. /\ RingType(moved)
      /\ \A k \in {1, 2} : Alternates(moved, k, Bit(mouse_buttons, k))
  <2> DEFINE e == [type |-> "move", button |-> 0]
  <2>1. e \in Event /\ \A k : ~IsButton(e, k)
    BY DEF Event, IsButton
  <2> HIDE DEF e
  <2>2. RingType(event_queue) /\ \A k \in {1, 2} : /\ Bit(mouse_buttons, k) \in BOOLEAN
                                                   /\ Alternates(event_queue, k, Bit(mouse_buttons, k))
    BY DEF EventsAlternate, DriverType, Bit
  <2>3. RingType(Push(event_queue, e))
        /\ \A k \in {1, 2} : Alternates(Push(event_queue, e), k, Bit(mouse_buttons, k))
    BY <2>1, <2>2, PushType, PushAlternates
  <2>4. moved = event_queue \/ moved = Push(event_queue, e)
    BY DEF PushIf, e
  <2> HIDE DEF moved
  <2> QED
    BY <2>2, <2>3, <2>4
<1> HIDE DEF to, now, scroll, moved
<1>9. RingType(left) /\ Alternates(left, 1, Bit(now, 1)) /\ Alternates(left, 2, Bit(mouse_buttons, 2))
  <2>1. Bit(mouse_buttons, 2) \in BOOLEAN
    BY DEF Bit
  <2> QED
    BY <1>8, <2>1, ButtonEventsAlternate
<1> HIDE DEF left
<1>10. RingType(right) /\ Alternates(right, 1, Bit(now, 1)) /\ Alternates(right, 2, Bit(now, 2))
  <2>1. Bit(now, 1) \in BOOLEAN
    BY DEF Bit
  <2> QED
    BY <1>9, <2>1, ButtonEventsAlternate
<1> HIDE DEF right
<1>11. RingType(event_queue') /\ \A k \in {1, 2} : Alternates(event_queue', k, Bit(now, k))
  <2> DEFINE e == [type |-> "scroll", button |-> 0]
  <2>1. e \in Event /\ \A k : ~IsButton(e, k)
    BY DEF Event, IsButton
  <2>2. event_queue' = right \/ event_queue' = Push(right, e)
    BY <1>1 DEF PushIf
  <2> HIDE DEF e
  <2>3. \A k \in {1, 2} : Bit(now, k) \in BOOLEAN /\ Alternates(right, k, Bit(now, k))
    BY <1>10 DEF Bit
  <2>4. RingType(Push(right, e)) /\ \A k \in {1, 2} : Alternates(Push(right, e), k, Bit(now, k))
    BY <1>10, <2>1, <2>3, PushType, PushAlternates
  <2> QED
    BY <1>10, <2>2, <2>3, <2>4
<1>12. EventsAlternate'
  BY <1>1, <1>11 DEF EventsAlternate
<1> QED
  BY <1>1, <1>4, <1>5, <1>7, <1>11, <1>12 DEF to

LEMMA HandlerKeeps ==
  ASSUME DriverType, EventsAlternate, mouse_intelli \in BOOLEAN, mouse_intelli' = mouse_intelli,
         NEW byte \in Byte, HandleInterrupt(byte)
  PROVE  DriverType' /\ EventsAlternate'
<1>1. LastByte' = LastByte /\ LastByte \in {2, 3} /\ mouse_cycle \in 0 .. LastByte
      /\ Len(packet_buf) = mouse_cycle /\ packet_buf \in Seq(Byte)
  BY DEF LastByte, DriverType
<1>2. CASE NoHeader(byte)
  BY <1>1, <1>2 DEF HandleInterrupt, DriverType, EventsAlternate
<1>3. CASE ~NoHeader(byte) /\ mouse_cycle < LastByte
  BY <1>1, <1>3 DEF HandleInterrupt, DriverType, EventsAlternate
<1>4. CASE ~NoHeader(byte) /\ ~(mouse_cycle < LastByte)
  <2>1. /\ Append(packet_buf, byte) \in Seq(Byte) /\ Len(Append(packet_buf, byte)) = LastByte + 1
        /\ ProcessPacket(Append(packet_buf, byte)) /\ packet_buf' = << >> /\ mouse_cycle' = 0
    BY <1>1, <1>4 DEF HandleInterrupt
  <2>2. /\ abs_x' \in 0 .. WIDTH - 1 /\ abs_y' \in 0 .. HEIGHT - 1
        /\ mouse_buttons' \in 0 .. 7 /\ mouse_scroll' \in -8 .. 7
        /\ RingType(event_queue') /\ EventsAlternate'
    BY <2>1, ProcessPacketKeeps
  <2> QED
    BY <1>1, <2>1, <2>2 DEF DriverType
<1> QED
  BY <1>2, <1>3, <1>4

-----------------------------------------------------------------------------
(* The negotiation.                                                        *)
LEMMA OwedIs ==
  /\ \A pc \in 1 .. 25 \ Writes : Owed(pc) \in Nat /\ Owed(pc + 1) = Owed(pc) - 1
  /\ \A pc \in Writes : Owed(pc) = 0 /\ Owed(pc + 1) = IF pc = 1 THEN 3 ELSE IF pc = 17 THEN 2 ELSE 1
  /\ Owed(26) = 0 /\ Owed(27) = 0
  BY DEF Owed, Writes

LEMMA ReadyIs == /\ Ready <=> init_pc > 26
                 /\ Ready' <=> init_pc' > 26
  BY ScriptIs DEF Ready

(* Where mouse_init() is when it writes or polls.                          *)
LEMMA PcIs ==
  ASSUME IInv, init_pc <= Len(Script)
  PROVE  /\ init_pc \in 1 .. 25 /\ ~Ready
         /\ Script[init_pc].op = "write" => init_pc \in Writes
         /\ Script[init_pc].op = "read" => init_pc \in 1 .. 25 \ Writes
<1>1. init_pc \in 1 .. 25
  <2>1. TypeOK
    BY DEF IInv, Typed
  <2>2. init_pc \in 1 .. Len(Script) + 2
    BY <2>1 DEF TypeOK
  <2> QED
    BY <2>2, ScriptIs
<1>2. ~Ready
  BY <1>1, ReadyIs
<1> QED
  BY ONLY <1>1, <1>2, ScriptIs

LEMMA InitHolds == Init => IInv
<1> SUFFICES ASSUME Init PROVE IInv
  OBVIOUS
<1> USE DEF Init
<1>1. WIDTH \div 2 \in 0 .. WIDTH - 1 /\ HEIGHT \div 2 \in 0 .. HEIGHT - 1
  BY MouseAssumption
<1>2. ~Ready /\ init_pc = 1 /\ init_pc \in 1 .. Len(Script) + 2
  BY ScriptIs, ReadyIs
<1>3. Typed
  <2>1. LastByte = 2 /\ event_queue \in Seq(Event) /\ Len(event_queue) = 0
        /\ packet_buf \in Seq(Byte) /\ Len(packet_buf) = 0 /\ answers \in Seq(Byte)
    BY DEF LastByte
  <2>2. 0 < MOUSE_EVENT_QUEUE_SIZE
    BY MouseAssumption
  <2>3. TypeOK
    BY <1>1, <1>2, <2>1, <2>2 DEF TypeOK
  <2>4. /\ mouse_intelli \in BOOLEAN /\ has_wheel \in BOOLEAN /\ wheel_on \in BOOLEAN
        /\ lost \in BOOLEAN /\ noisy \in BOOLEAN
    BY Zenon
  <2>5. early \in Nat /\ misread \in 0 .. 2 /\ misread = 0
    OBVIOUS
  <2> QED
    BY ONLY <2>1, <2>3, <2>4, <2>5 DEF Typed
<1>4. Quiet /\ Negotiated /\ Sending /\ InStep /\ Searching
  BY <1>2 DEF Quiet, Negotiated, Owed, IdPoll, Sending, InStep, Searching
<1>5. EventsAlternate
  BY DEF EventsAlternate, Alternates
<1> QED
  BY <1>3, <1>4, <1>5 DEF IInv

(* A step of mouse_init() changes nothing that interrupts work on.         *)
LEMMA NegotiationKeeps ==
  ASSUME IInv, ~Ready, init_pc' \in 1 .. 27, init_pc' <= IdPoll => ~mouse_intelli',
         mouse_intelli' \in BOOLEAN, wheel_on' \in BOOLEAN,
         answers' \in Seq(Byte), early' \in Nat, Negotiated',
         early' = 0 => early = 0,
         UNCHANGED <<mouse_cycle, packet_buf, abs_x, abs_y, mouse_buttons, mouse_scroll, event_queue,
                     has_wheel, packet, sent, pointer, lost, noisy, misread>>
  PROVE  IInv'
<1>1. /\ mouse_cycle = 0 /\ packet_buf = << >> /\ packet = << >> /\ sent = 0 /\ ~lost
      /\ pointer = <<abs_x, abs_y>> /\ misread = 0
  BY DEF IInv, Quiet, Sending, Typed, TypeOK
<1>2. Typed'
  <2>1. init_pc' \in 1 .. Len(Script) + 2
    BY ScriptIs
  <2>2. LastByte' \in {2, 3}
    BY DEF LastByte
  <2> QED
    BY <1>1, <2>1, <2>2 DEF IInv, Typed, TypeOK
<1>3. Quiet' /\ Sending' /\ Searching' /\ EventsAlternate'
  BY <1>1 DEF Quiet, Sending, Searching, IInv, EventsAlternate
<1>4. InStep'
  <2>1. packet_buf = SubSeq(packet, 1, sent)
    BY <1>1
  <2> QED
    BY <1>1, <2>1 DEF InStep
<1> QED
  BY <1>2, <1>3, <1>4 DEF IInv

LEMMA WriteKeeps == IInv /\ WriteCommand => IInv'
<1> SUFFICES ASSUME IInv, WriteCommand PROVE IInv'
  OBVIOUS
<1> DEFINE cmd == Script[init_pc].cmd
           reply == CASE cmd = "reset" -> <<ACK, BAT, 0>>
                      [] cmd = "id"    -> <<ACK, IF wheel_on THEN 3 ELSE 0>>
                      [] OTHER         -> <<ACK>>
<1>1. init_pc \in Writes /\ init_pc \in 1 .. 25 /\ ~Ready /\ init_pc' = init_pc + 1
  BY PcIs DEF WriteCommand
<1>2. (cmd = "reset" <=> init_pc = 1) /\ (cmd = "80" <=> init_pc = 15) /\ (cmd = "id" <=> init_pc = 17)
  BY <1>1, ScriptIs
<1>3. answers' = answers \o reply /\ wheel_on' = IF cmd = "80" THEN has_wheel ELSE wheel_on
  BY DEF WriteCommand
<1>4. wheel_on \in BOOLEAN /\ has_wheel \in BOOLEAN /\ mouse_intelli \in BOOLEAN
      /\ answers \in Seq(Byte) /\ early \in Nat
      /\ mouse_intelli' = mouse_intelli /\ early' = early
  BY DEF IInv, Typed, TypeOK, WriteCommand, faults
<1> HIDE DEF cmd
<1>5. /\ reply \in Seq(Byte) /\ Len(reply) = IF init_pc = 1 THEN 3 ELSE IF init_pc = 17 THEN 2 ELSE 1
      /\ init_pc = 17 => reply[2] = Identity
  <2>1. ACK \in Byte /\ BAT \in Byte /\ 0 \in Byte /\ 3 \in Byte
    BY MouseAssumption DEF ACK, BAT, Byte
  <2>2. CASE init_pc = 1
    BY <1>2, <2>1, <2>2
  <2>3. CASE init_pc = 17
    <3>1. reply = <<ACK, Identity>>
      BY <1>2, <2>3 DEF Identity
    <3>2. Identity \in Byte
      BY <2>1 DEF Identity
    <3> HIDE DEF reply
    <3> QED
      BY <2>1, <2>3, <3>1, <3>2
  <2>4. CASE init_pc # 1 /\ init_pc # 17
    BY <1>2, <2>1, <2>4
  <2> QED
    BY <2>2, <2>3, <2>4
<1> HIDE DEF reply
<1>6. answers' \in Seq(Byte)
  BY <1>3, <1>4, <1>5
<1>7. Negotiated'
  <2> SUFFICES ASSUME early = 0
               PROVE  /\ Len(answers') = Owed(init_pc')
                      /\ init_pc' = IdPoll - 1 => answers'[2] = Identity'
                      /\ init_pc' = IdPoll => answers'[1] = Identity'
                      /\ init_pc' > IdPoll => mouse_intelli' = wheel_on'
    BY <1>4 DEF Negotiated
  <2>1. Len(answers) = 0 /\ Owed(init_pc') = Len(reply)
    BY <1>1, <1>5, OwedIs DEF IInv, Negotiated
  <2>2. answers' = reply
    BY <1>3, <1>4, <1>5, <2>1
  <2>3. init_pc' # IdPoll /\ (init_pc' = IdPoll - 1 => init_pc = 17)
        /\ (init_pc' > IdPoll => init_pc > IdPoll /\ init_pc # 15)
    BY <1>1 DEF Writes, IdPoll
  <2>4. init_pc = 17 => Identity' = Identity
    BY <1>2, <1>3 DEF Identity
  <2>5. init_pc > IdPoll => mouse_intelli = wheel_on
    BY DEF IInv, Negotiated
  <2> QED
    BY <1>2, <1>3, <1>4, <1>5, <2>1, <2>2, <2>3, <2>4, <2>5
<1>8. init_pc' \in 1 .. 27 /\ (init_pc' <= IdPoll => ~mouse_intelli')
  BY <1>1, <1>4 DEF IInv, Quiet, IdPoll
<1> QED
  BY <1>1, <1>3, <1>4, <1>6, <1>7, <1>8, NegotiationKeeps DEF WriteCommand, faults

LEMMA ReadAnswerKeeps == IInv /\ ReadAnswer => IInv'
<1> SUFFICES ASSUME IInv, ReadAnswer PROVE IInv'
  OBVIOUS
<1>1. init_pc \in 1 .. 25 \ Writes /\ ~Ready /\ init_pc' = init_pc + 1
  BY PcIs DEF ReadAnswer, Polling, Polled
<1>2. /\ wheel_on \in BOOLEAN /\ mouse_intelli \in BOOLEAN /\ answers \in Seq(Byte) /\ early \in Nat
      /\ early' = early /\ wheel_on' = wheel_on /\ answers # << >> /\ answers' = Tail(answers)
      /\ mouse_intelli' = IF init_pc = IdPoll THEN Head(answers) = 3 ELSE mouse_intelli
  BY DEF IInv, Typed, TypeOK, ReadAnswer, Polled
<1>3. /\ answers' \in Seq(Byte) /\ Len(answers) \in Nat \ {0} /\ Len(answers') = Len(answers) - 1
      /\ Head(answers) = answers[1] /\ (Len(answers) > 1 => answers'[1] = answers[2])
  BY <1>2
<1>4. Negotiated'
  <2> SUFFICES ASSUME early = 0
               PROVE  /\ Len(answers') = Owed(init_pc')
                      /\ init_pc' = IdPoll - 1 => answers'[2] = Identity'
                      /\ init_pc' = IdPoll => answers'[1] = Identity'
                      /\ init_pc' > IdPoll => mouse_intelli' = wheel_on'
    BY <1>2 DEF Negotiated
  <2>1. Len(answers) = Owed(init_pc) /\ Owed(init_pc') = Owed(init_pc) - 1
    BY <1>1, OwedIs DEF IInv, Negotiated
  <2>2. Identity' = Identity
    BY <1>2 DEF Identity
  <2>3. init_pc' # IdPoll - 1
    BY <1>1 DEF Writes, IdPoll
  <2>4. ASSUME init_pc' = IdPoll PROVE answers'[1] = Identity'
    <3>1. init_pc = 18 /\ IdPoll = 19
      BY <1>1, <2>4 DEF IdPoll
    <3>2. Len(answers) = 2 /\ answers[2] = Identity
      BY <2>1, <3>1 DEF Owed, IInv, Negotiated
    <3> QED
      BY <1>3, <2>2, <3>2
  <2>5. ASSUME init_pc' > IdPoll PROVE mouse_intelli' = wheel_on'
    <3>1. CASE init_pc = IdPoll
      <4>1. answers[1] = IF wheel_on THEN 3 ELSE 0
        BY <3>1 DEF IInv, Negotiated, Identity
      <4> QED
        BY <1>2, <1>3, <3>1, <4>1
    <3>2. CASE init_pc > IdPoll
      BY <1>1, <1>2, <3>2 DEF IInv, Negotiated, IdPoll
    <3> QED
      BY <1>1, <2>5, <3>1, <3>2 DEF IdPoll
  <2> QED
    BY <1>3, <2>1, <2>3, <2>4, <2>5
<1>5. init_pc' \in 1 .. 27 /\ (init_pc' <= IdPoll => ~mouse_intelli') /\ mouse_intelli' \in BOOLEAN
  <2>1. init_pc' <= IdPoll => init_pc # IdPoll /\ init_pc <= IdPoll
    BY <1>1 DEF IdPoll
  <2>2. init_pc <= IdPoll => ~mouse_intelli
    BY DEF IInv, Quiet
  <2>3. mouse_intelli' \in BOOLEAN /\ (init_pc # IdPoll => mouse_intelli' = mouse_intelli)
    BY <1>2
  <2> QED
    BY <1>1, <2>1, <2>2, <2>3
<1> QED
  BY <1>1, <1>2, <1>3, <1>4, <1>5, NegotiationKeeps DEF ReadAnswer, Polled

LEMMA ReadEarlyKeeps == ASSUME IInv, NEW byte \in {0, 3}, ReadEarly(byte) PROVE IInv'
<1>1. init_pc \in 1 .. 25 /\ ~Ready /\ init_pc' = init_pc + 1
  BY PcIs DEF ReadEarly, Polling, Polled
<1>2. /\ wheel_on \in BOOLEAN /\ mouse_intelli \in BOOLEAN /\ answers \in Seq(Byte) /\ early \in Nat
      /\ early' = early + 1 /\ wheel_on' = wheel_on /\ answers' = answers
      /\ mouse_intelli' = IF init_pc = IdPoll THEN byte = 3 ELSE mouse_intelli
  BY DEF IInv, Typed, TypeOK, ReadEarly, Polled
<1>3. Negotiated' /\ early' \in Nat /\ early' # 0
  BY <1>2 DEF Negotiated
<1>4. init_pc' \in 1 .. 27 /\ (init_pc' <= IdPoll => ~mouse_intelli') /\ mouse_intelli' \in BOOLEAN
  <2>1. init_pc' <= IdPoll => init_pc # IdPoll /\ init_pc <= IdPoll
    BY <1>1 DEF IdPoll
  <2>2. init_pc <= IdPoll => ~mouse_intelli
    BY DEF IInv, Quiet
  <2>3. mouse_intelli' \in BOOLEAN /\ (init_pc # IdPoll => mouse_intelli' = mouse_intelli)
    BY <1>2
  <2> QED
    BY <1>1, <2>1, <2>2, <2>3
<1> QED
  BY <1>1, <1>2, <1>3, <1>4, NegotiationKeeps DEF ReadEarly, Polled

LEMMA DrainKeeps == ASSUME IInv, NEW escaped \in 0 .. MaxEarly, Drain(escaped) PROVE IInv'
<1>1. init_pc = 26 /\ ~Ready /\ init_pc' = 27
  BY ScriptIs, ReadyIs DEF Drain
<1>2. /\ wheel_on \in BOOLEAN /\ mouse_intelli \in BOOLEAN /\ answers \in Seq(Byte) /\ early \in Nat
      /\ early' = early /\ wheel_on' = wheel_on /\ mouse_intelli' = mouse_intelli
      /\ escaped \in 0 .. Len(answers) /\ answers' = SubSeq(answers, Len(answers) - escaped + 1, Len(answers))
  BY DEF IInv, Typed, TypeOK, Drain, faults
<1>3. answers' \in Seq(Byte) /\ Len(answers') = escaped
  BY <1>2
<1>4. Negotiated'
  <2>1. early = 0 => Len(answers) = 0 /\ mouse_intelli = wheel_on
    BY <1>1, OwedIs DEF IInv, Negotiated, IdPoll
  <2> QED
    BY <1>1, <1>2, <1>3, <2>1, OwedIs DEF Negotiated, IdPoll
<1> QED
  BY <1>1, <1>2, <1>3, <1>4, NegotiationKeeps DEF Drain, faults, IdPoll

-----------------------------------------------------------------------------
(* The device and the handler.                                             *)
LEMMA PrefixGrows ==
  ASSUME NEW S, NEW p \in Seq(S), NEW n \in 0 .. Len(p) - 1
  PROVE  Append(SubSeq(p, 1, n), p[n + 1]) = SubSeq(p, 1, n + 1)
<1> DEFINE a == SubSeq(p, 1, n)
           b == SubSeq(p, 1, n + 1)
<1>1. /\ a \in Seq(S) /\ Len(a) = n /\ \A i \in 1 .. n : a[i] = p[i]
      /\ b \in Seq(S) /\ Len(b) = n + 1 /\ \A i \in 1 .. n + 1 : b[i] = p[i]
      /\ n \in Nat /\ p[n + 1] \in S
  OBVIOUS
<1> HIDE DEF a, b
<1>2. /\ Append(a, p[n + 1]) \in Seq(S) /\ Len(Append(a, p[n + 1])) = n + 1
      /\ \A i \in 1 .. n + 1 : Append(a, p[n + 1])[i] = p[i]
  BY <1>1
<1>3. Append(a, p[n + 1]) = b
  BY <1>1, <1>2
<1> QED
  BY <1>3 DEF a, b

LEMMA WholePrefix ==
  ASSUME NEW S, NEW p \in Seq(S)
  PROVE  SubSeq(p, 1, Len(p)) = p
<1> DEFINE b == SubSeq(p, 1, Len(p))
<1>1. b \in Seq(S) /\ Len(b) = Len(p) /\ \A i \in 1 .. Len(p) : b[i] = p[i]
  OBVIOUS
<1> HIDE DEF b
<1>2. b = p
  BY <1>1
<1> QED
  BY <1>2 DEF b

(* What is on the wire, and where it leads.                                *)
LEMMA SendingIs ==
  ASSUME IInv, packet # << >>
  PROVE  /\ packet \in Seq(Byte) /\ Len(packet) = (IF wheel_on THEN 4 ELSE 3)
         /\ sent \in 0 .. Len(packet) - 1 /\ Bit(packet[1], 8)
         /\ packet[sent + 1] \in Byte
         /\ early = 0 /\ ~lost => pointer = MovedTo(<<abs_x, abs_y>>, Read3(packet))
         /\ Ready
         /\ sent \in Nat /\ sent < Len(packet) /\ Len(packet) \in {3, 4}
         /\ SentAll <=> sent + 1 = Len(packet)
<1>1. wheel_on \in BOOLEAN /\ sent \in 0 .. 3 /\ sent < Len(packet) /\ Ready
  <2>1. wheel_on \in BOOLEAN /\ TypeOK /\ Quiet /\ Sending
    BY DEF IInv, Typed
  <2>2. Ready
    BY <2>1 DEF Quiet
  <2> QED
    BY <2>1, <2>2 DEF TypeOK, Sending
<1>2. PICK move \in Motion, buttons \in Buttons, wheel \in Wheel : Carries(move, buttons, wheel)
  BY DEF IInv, Sending
<1>3. /\ packet = Packet(move, buttons, wheel)
      /\ early = 0 /\ ~lost => pointer = MovedTo(<<abs_x, abs_y>>, move)
  BY <1>2 DEF Carries
<1>4. /\ packet \in Seq(Byte) /\ Len(packet) = IF wheel_on THEN 4 ELSE 3
      /\ Bit(packet[1], 8)
      /\ Signed(Bit(packet[1], 16), packet[2]) = move[1]
      /\ Signed(Bit(packet[1], 32), packet[3]) = move[2]
  BY ONLY <1>1, <1>3, PacketIs
<1>5. move = Read3(packet)
  <2>1. move = <<move[1], move[2]>>
    BY MouseAssumption
  <2> QED
    BY <1>4, <2>1 DEF Read3
<1>6. Len(packet) \in {3, 4} /\ sent \in Nat /\ sent \in 0 .. Len(packet) - 1
  BY <1>1, <1>4
<1>7. packet[sent + 1] \in Byte
  BY <1>4, <1>6
<1> QED
  BY <1>1, <1>3, <1>4, <1>5, <1>6, <1>7 DEF SentAll

LEMMA StartKeeps ==
  ASSUME IInv, NEW move \in Motion, NEW buttons \in Buttons, NEW wheel \in Wheel,
         StartPacket(move, buttons, wheel)
  PROVE  IInv'
<1>1. /\ Typed /\ Ready /\ packet = << >> /\ sent = 0 /\ packet' = Packet(move, buttons, wheel)
      /\ pointer' = MovedTo(pointer, move) /\ Ready' /\ sent' = sent
  BY ReadyIs DEF IInv, Sending, StartPacket, driver
<1>2. UNCHANGED <<driver, has_wheel, wheel_on, answers, sent, faults>>
  BY DEF StartPacket
<1>3. Typed'
  BY <1>1, <1>2 DEF Typed, TypeOK, LastByte, driver, faults
<1>4. Len(packet') \in {3, 4} /\ packet' # << >>
  <2>1. wheel_on \in BOOLEAN
    BY <1>1 DEF Typed
  <2>2. Packet(move, buttons, wheel) \in Seq(Byte)
        /\ Len(Packet(move, buttons, wheel)) = IF wheel_on THEN 4 ELSE 3
    BY <2>1, PacketIs
  <2> QED
    BY <1>1, <2>1, <2>2
<1>5. early = 0 /\ ~lost => pointer = <<abs_x, abs_y>> /\ mouse_cycle = 0 /\ packet_buf = << >>
  <2>1. early = 0 /\ ~lost => pointer = <<abs_x, abs_y>> /\ mouse_cycle = 0
    BY <1>1 DEF IInv, InStep
  <2>2. packet_buf \in Seq(Byte) /\ Len(packet_buf) = mouse_cycle
    BY <1>1 DEF Typed, TypeOK
  <2> QED
    BY <2>1, <2>2
<1>6. Carries(move, buttons, wheel)'
  BY <1>1, <1>2, <1>5 DEF Carries, Packet, driver, faults
<1>7. Sending'
  BY <1>1, <1>4, <1>6 DEF Sending
<1>8. Quiet' /\ Negotiated' /\ Searching' /\ EventsAlternate'
  <2>1. Quiet /\ Negotiated /\ Searching /\ EventsAlternate
    BY DEF IInv
  <2> QED
    BY <1>1, <1>2, <2>1
    DEF Quiet, Negotiated, Identity, Searching, Late, Waiting, LastByte, EventsAlternate, driver, faults
<1>9. InStep'
  <2>1. packet_buf = << >> => packet_buf = SubSeq(packet', 1, 0)
    BY <1>4
  <2> QED
    BY <1>1, <1>2, <1>4, <1>5, <2>1 DEF InStep, driver, faults
<1> QED
  BY <1>3, <1>7, <1>8, <1>9 DEF IInv

(* The handler's part of the types, and that of the others.                *)
LEMMA HandledTyped ==
  ASSUME Typed, DriverType', init_pc' = init_pc, mouse_intelli' = mouse_intelli,
         has_wheel' = has_wheel, wheel_on' = wheel_on, answers' \in Seq(Byte), sent' \in 0 .. 3,
         early' = early, lost' \in BOOLEAN, noisy' \in BOOLEAN, misread' \in 0 .. 2,
         ~lost' => misread' = 0
  PROVE  Typed'
<1>1. TypeOK /\ early \in Nat /\ mouse_intelli \in BOOLEAN /\ has_wheel \in BOOLEAN /\ wheel_on \in BOOLEAN
  BY DEF Typed
<1>2. TypeOK' /\ event_queue' \in Seq(Event)
  BY <1>1 DEF TypeOK, DriverType, RingType
<1> QED
  BY <1>1, <1>2 DEF Typed

LEMMA AnswerByteKeeps == IInv /\ AnswerByte => IInv'
<1> SUFFICES ASSUME IInv, AnswerByte PROVE IInv'
  OBVIOUS
<1>1. /\ Typed /\ DriverType /\ Quiet /\ Negotiated /\ Sending /\ EventsAlternate /\ Ready
      /\ answers # << >> /\ answers' = Tail(answers) /\ HandleInterrupt(Head(answers))
      /\ UNCHANGED <<init_pc, mouse_intelli, has_wheel, wheel_on, packet, sent, pointer, faults>>
  BY TypedDriver DEF IInv, AnswerByte
<1>2. /\ answers \in Seq(Byte) /\ answers' \in Seq(Byte) /\ Head(answers) \in Byte
      /\ Len(answers) \in Nat \ {0} /\ mouse_intelli \in BOOLEAN
      /\ init_pc \in 1 .. 27 /\ init_pc > 26
  <2>1. TypeOK /\ mouse_intelli \in BOOLEAN /\ Len(Script) = 25 /\ init_pc > 26
    BY <1>1, ScriptIs, ReadyIs DEF Typed
  <2>2. answers \in Seq(Byte) /\ init_pc \in 1 .. Len(Script) + 2
    BY <2>1 DEF TypeOK
  <2> QED
    BY <1>1, <2>1, <2>2
<1>3. early # 0 /\ early' # 0
  BY <1>1, <1>2, OwedIs DEF Negotiated, faults
<1>4. DriverType' /\ EventsAlternate'
  BY <1>1, <1>2, HandlerKeeps
<1>5. Typed'
  <2>1. /\ lost \in BOOLEAN /\ noisy \in BOOLEAN /\ misread \in 0 .. 2 /\ (~lost => misread = 0)
        /\ sent \in 0 .. 3
    BY <1>1 DEF Typed, TypeOK
  <2>2. UNCHANGED <<init_pc, mouse_intelli, has_wheel, wheel_on, sent, early, lost, noisy, misread>>
    BY <1>1 DEF faults
  <2> QED
    BY <1>1, <1>2, <1>4, <2>1, <2>2, HandledTyped
<1>6. Ready'
  BY <1>1, ReadyIs
<1>7. Quiet' /\ Negotiated' /\ InStep' /\ Searching'
  BY <1>2, <1>1, <1>3, <1>6 DEF Quiet, Negotiated, InStep, Searching, IdPoll
<1>8. Sending'
  BY <1>1, <1>3 DEF Sending, Carries, Packet, faults
<1> QED
  BY <1>4, <1>5, <1>7, <1>8 DEF IInv

(* What a byte of a packet does while none was lost: the driver has it, or *)
(* the whole packet.                                                       *)
LEMMA InStepByte ==
  ASSUME IInv, PacketByte, early = 0, ~lost
  PROVE  IF SentAll
         THEN mouse_cycle' = 0 /\ packet_buf' = << >> /\ <<abs_x', abs_y'>> = pointer
         ELSE /\ mouse_cycle' = sent + 1 /\ packet_buf' = SubSeq(packet, 1, sent + 1)
              /\ abs_x' = abs_x /\ abs_y' = abs_y
<1> DEFINE byte == packet[sent + 1]
<1>1. packet # << >> /\ HandleInterrupt(byte)
  BY DEF PacketByte
<1>2. /\ packet \in Seq(Byte) /\ Len(packet) = (IF wheel_on THEN 4 ELSE 3)
      /\ sent \in 0 .. Len(packet) - 1 /\ Bit(packet[1], 8) /\ byte \in Byte
      /\ pointer = MovedTo(<<abs_x, abs_y>>, Read3(packet)) /\ Ready
  BY <1>1, SendingIs
<1>s. /\ sent \in Nat /\ sent < Len(packet) /\ Len(packet) \in {3, 4}
      /\ SentAll <=> sent + 1 = Len(packet)
  BY <1>1, SendingIs
<1>3. mouse_intelli = wheel_on /\ mouse_intelli \in BOOLEAN /\ DriverType /\ EventsAlternate
  BY <1>2, ReadyIs, TypedDriver DEF IInv, Typed, Negotiated, IdPoll, TypeOK
<1>4. mouse_cycle = sent /\ packet_buf = SubSeq(packet, 1, sent)
  BY <1>2 DEF IInv, InStep
<1>5. Len(packet) = LastByte + 1 /\ LastByte \in {2, 3}
  BY <1>2, <1>3 DEF LastByte
<1>6. ~NoHeader(byte)
  BY <1>2, <1>4 DEF NoHeader
<1>7. Append(packet_buf, byte) = SubSeq(packet, 1, sent + 1)
  BY <1>2, <1>4, PrefixGrows
<1>8. CASE SentAll
  <2>1. sent + 1 = Len(packet) /\ ~(mouse_cycle < LastByte)
    BY <1>s, <1>4, <1>5, <1>8
  <2>2. Append(packet_buf, byte) = packet
    BY <1>2, <1>7, <2>1, WholePrefix
  <2>3. ProcessPacket(packet) /\ packet_buf' = << >> /\ mouse_cycle' = 0
    BY <1>1, <1>6, <2>1, <2>2 DEF HandleInterrupt
  <2>4. <<abs_x', abs_y'>> = MovedTo(<<abs_x, abs_y>>, Read3(packet))
    BY <1>2, <1>3, <1>5, <2>3, ProcessPacketKeeps
  <2> QED
    BY <1>2, <1>8, <2>3, <2>4
<1>9. CASE ~SentAll
  <2>1. mouse_cycle < LastByte
    BY <1>s, <1>4, <1>5, <1>9
  <2> QED
    BY <1>1, <1>4, <1>6, <1>7, <1>9, <2>1 DEF HandleInterrupt
<1> QED
  BY <1>8, <1>9

(* What it does behind a loss.                                             *)
LEMMA SearchingByte ==
  ASSUME IInv, PacketByte, early = 0, lost, lost'
  PROVE  ~noisy' => Late' \/ Waiting'
<1> SUFFICES ASSUME ~noisy' PROVE Late' \/ Waiting'
  OBVIOUS
<1> DEFINE byte == packet[sent + 1]
<1>1. /\ packet # << >> /\ HandleInterrupt(byte)
      /\ ~(SentAll /\ mouse_cycle' = 0) /\ ~noisy /\ ~(sent > 0 /\ Bit(byte, 8))
      /\ misread' = IF Completes /\ misread < 2 THEN misread + 1 ELSE misread
      /\ sent' = (IF SentAll THEN 0 ELSE sent + 1) /\ mouse_intelli' = mouse_intelli
  BY DEF PacketByte, Advance
<1>2. /\ Len(packet) = (IF wheel_on THEN 4 ELSE 3)
      /\ sent \in 0 .. Len(packet) - 1 /\ Bit(packet[1], 8) /\ Ready
  BY <1>1, SendingIs
<1>s. /\ sent \in Nat /\ sent < Len(packet) /\ Len(packet) \in {3, 4}
      /\ SentAll <=> sent + 1 = Len(packet)
  BY <1>1, SendingIs
<1>3. mouse_intelli = wheel_on /\ mouse_intelli \in BOOLEAN /\ DriverType /\ misread \in 0 .. 2
  BY <1>2, ReadyIs, TypedDriver DEF IInv, Typed, Negotiated, IdPoll, TypeOK
<1>4. /\ Len(packet) = LastByte + 1 /\ LastByte \in {2, 3} /\ LastByte' = LastByte
      /\ mouse_cycle \in 0 .. LastByte
  BY <1>1, <1>2, <1>3 DEF LastByte, DriverType
<1>5. Late \/ Waiting
  BY <1>1 DEF IInv, Searching
<1>6. CASE Late /\ sent = 0
  <2>1. mouse_cycle' = 0 /\ misread' = 1 /\ sent' = 1
    BY <1>1, <1>4, <1>6 DEF Late, HandleInterrupt, NoHeader, Completes, SentAll
  <2> QED
    BY <2>1 DEF Waiting
<1>7. CASE Late /\ sent > 1
  <2>1. mouse_cycle = sent - 1 /\ mouse_cycle > 0 /\ mouse_cycle < LastByte /\ misread = 0
    BY <1>2, <1>4, <1>7 DEF Late
  <2>2. mouse_cycle' = sent /\ misread' = 0
    BY <1>1, <1>2, <1>4, <2>1 DEF HandleInterrupt, NoHeader, Completes
  <2>3. Late'
    <3>1. CASE SentAll
      BY <1>1, <1>s, <1>4, <2>2, <3>1 DEF Late
    <3>2. CASE ~SentAll
      BY <1>1, <1>s, <1>4, <2>2, <3>2 DEF Late
    <3> QED
      BY <3>1, <3>2
  <2> QED
    BY <2>3
<1>8. CASE mouse_cycle = 0 /\ sent > 0 /\ misread <= 1
  <2>1. NoHeader(byte) /\ ~Completes
    BY <1>1, <1>4, <1>8 DEF NoHeader, Completes
  <2>2. mouse_cycle' = 0 /\ misread' = misread
    BY <1>1, <1>8, <2>1 DEF HandleInterrupt
  <2>3. sent' = sent + 1
    BY <1>1, <2>2
  <2> QED
    BY <1>2, <1>8, <2>2, <2>3 DEF Waiting
<1> QED
  BY <1>2, <1>3, <1>5, <1>6, <1>7, <1>8 DEF Late, Waiting

LEMMA PacketByteKeeps == IInv /\ PacketByte => IInv'
<1> SUFFICES ASSUME IInv, PacketByte PROVE IInv'
  OBVIOUS
<1> DEFINE byte == packet[sent + 1]
           over == lost /\ SentAll /\ mouse_cycle' = 0
<1>1. /\ packet # << >> /\ HandleInterrupt(byte)
      /\ lost' = (lost /\ ~over)
      /\ noisy' = (lost' /\ (noisy \/ (sent > 0 /\ Bit(byte, 8))))
      /\ misread' = IF ~lost' THEN 0 ELSE IF Completes /\ misread < 2 THEN misread + 1 ELSE misread
      /\ pointer' = IF over THEN <<abs_x', abs_y'>> ELSE pointer
      /\ packet' = IF SentAll THEN << >> ELSE packet
      /\ sent' = IF SentAll THEN 0 ELSE sent + 1
      /\ UNCHANGED <<init_pc, mouse_intelli, has_wheel, wheel_on, answers, early>>
  BY DEF PacketByte, Advance
<1>2. /\ packet \in Seq(Byte) /\ Len(packet) = (IF wheel_on THEN 4 ELSE 3)
      /\ sent \in 0 .. Len(packet) - 1 /\ byte \in Byte /\ Ready
  BY <1>1, SendingIs
<1>s. /\ sent \in Nat /\ sent < Len(packet) /\ Len(packet) \in {3, 4}
      /\ SentAll <=> sent + 1 = Len(packet)
  BY <1>1, SendingIs
<1>3. /\ Typed /\ DriverType /\ EventsAlternate /\ mouse_intelli \in BOOLEAN /\ wheel_on \in BOOLEAN
      /\ lost \in BOOLEAN /\ noisy \in BOOLEAN /\ misread \in 0 .. 2 /\ answers \in Seq(Byte)
  BY TypedDriver DEF IInv, Typed, TypeOK
<1>4. DriverType' /\ EventsAlternate'
  BY <1>1, <1>2, <1>3, HandlerKeeps
<1>5. Ready' /\ (SentAll <=> sent + 1 = Len(packet))
  BY <1>1, <1>2, ReadyIs DEF SentAll
<1>6. Typed'
  <2>1. sent' \in 0 .. 3
    BY <1>1, <1>2, <1>3, <1>5
  <2>2. lost' \in BOOLEAN /\ noisy' \in BOOLEAN
    BY <1>1, <1>3
  <2>3. misread' \in 0 .. 2 /\ (~lost' => misread' = 0)
    BY <1>1, <1>3
  <2> QED
    BY <1>1, <1>3, <1>4, <2>1, <2>2, <2>3, HandledTyped
<1>7. Quiet' /\ Negotiated'
  <2>1. Quiet /\ Negotiated
    BY DEF IInv
  <2> QED
    BY <1>1, <1>5, <2>1 DEF Quiet, Negotiated, Identity
<1>8. ~lost => /\ ~lost' /\ pointer' = pointer
               /\ early = 0 => IF SentAll
                               THEN mouse_cycle' = 0 /\ packet_buf' = << >> /\ <<abs_x', abs_y'>> = pointer
                               ELSE /\ mouse_cycle' = sent + 1 /\ packet_buf' = SubSeq(packet, 1, sent + 1)
                                    /\ abs_x' = abs_x /\ abs_y' = abs_y
  BY <1>1, InStepByte
<1>9. lost /\ ~lost' => SentAll /\ mouse_cycle' = 0 /\ pointer' = <<abs_x', abs_y'>>
  BY <1>1, <1>3
<1> HIDE DEF byte, over
<1>10. Sending'
  <2>1. CASE SentAll
    BY <1>1, <2>1 DEF Sending
  <2>2. CASE ~SentAll
    <3>1. PICK move \in Motion, buttons \in Buttons, wheel \in Wheel : Carries(move, buttons, wheel)
      BY <1>1 DEF IInv, Sending
    <3>2. early' = 0 /\ ~lost' => pointer' = MovedTo(<<abs_x', abs_y'>>, move)
      BY <1>1, <1>3, <1>8, <1>9, <2>2, <3>1 DEF Carries
    <3>3. packet' = Packet(move, buttons, wheel)'
      BY <1>1, <2>2, <3>1 DEF Carries, Packet
    <3>4. Carries(move, buttons, wheel)'
      BY <3>2, <3>3 DEF Carries
    <3>5. packet' # << >> /\ sent' < Len(packet')
      BY <1>1, <1>s, <2>2
    <3> QED
      BY <3>4, <3>5 DEF Sending
  <2> QED
    BY <2>1, <2>2
<1>11. InStep'
  <2> SUFFICES ASSUME early = 0, ~lost'
               PROVE  /\ mouse_cycle' = sent' /\ packet_buf' = SubSeq(packet', 1, sent')
                      /\ packet' = << >> => <<abs_x', abs_y'>> = pointer'
    BY <1>1 DEF InStep
  <2>1. SentAll => /\ mouse_cycle' = 0 /\ packet_buf' = << >> /\ pointer' = <<abs_x', abs_y'>>
    <3>1. Len(packet_buf') = mouse_cycle' /\ packet_buf' \in Seq(Byte)
      BY <1>4 DEF DriverType
    <3> QED
      BY <1>3, <1>8, <1>9, <3>1
  <2>2. CASE SentAll
    BY <1>1, <2>1, <2>2
  <2>3. CASE ~SentAll
    BY <1>1, <1>3, <1>8, <1>9, <2>3
  <2> QED
    BY <2>2, <2>3
<1>12. Searching'
  <2> SUFFICES ASSUME early = 0, lost', ~noisy' PROVE Late' \/ Waiting'
    BY <1>1 DEF Searching
  <2>1. lost
    BY <1>1, <1>3
  <2> QED
    BY <2>1, SearchingByte
<1> QED
  BY <1>4, <1>6, <1>7, <1>10, <1>11, <1>12 DEF IInv

LEMMA LoseByteKeeps == IInv /\ LoseByte => IInv'
<1> SUFFICES ASSUME IInv, LoseByte PROVE IInv'
  OBVIOUS
<1>1. /\ packet # << >> /\ ~lost /\ lost' = TRUE
      /\ packet' = IF SentAll THEN << >> ELSE packet
      /\ sent' = IF SentAll THEN 0 ELSE sent + 1
      /\ UNCHANGED <<driver, has_wheel, wheel_on, answers, pointer, early, noisy, misread>>
  BY DEF LoseByte, Advance
<1>2. /\ Len(packet) = (IF wheel_on THEN 4 ELSE 3) /\ sent \in 0 .. Len(packet) - 1 /\ Ready
  BY <1>1, SendingIs
<1>s. /\ sent \in Nat /\ sent < Len(packet) /\ Len(packet) \in {3, 4}
      /\ SentAll <=> sent + 1 = Len(packet)
  BY <1>1, SendingIs
<1>3. Typed /\ DriverType /\ misread = 0 /\ wheel_on \in BOOLEAN
  BY <1>1, TypedDriver DEF IInv, Typed
<1>4. Ready' /\ (SentAll <=> sent + 1 = Len(packet)) /\ sent' \in 0 .. 3
  BY <1>1, <1>2, <1>3, ReadyIs DEF SentAll, driver
<1>5. Typed'
  BY <1>1, <1>3, <1>4 DEF Typed, TypeOK, LastByte, driver
<1>6. Quiet' /\ Negotiated' /\ EventsAlternate' /\ InStep'
  <2>1. Quiet /\ Negotiated /\ EventsAlternate
    BY DEF IInv
  <2> QED
    BY <1>1, <1>4, <2>1 DEF Quiet, Negotiated, Identity, EventsAlternate, InStep, driver
<1>7. Sending'
  <2>1. CASE SentAll
    BY <1>1, <2>1 DEF Sending
  <2>2. CASE ~SentAll
    <3>1. PICK move \in Motion, buttons \in Buttons, wheel \in Wheel : Carries(move, buttons, wheel)
      BY <1>1 DEF IInv, Sending
    <3>2. Carries(move, buttons, wheel)'
      BY <1>1, <2>2, <3>1 DEF Carries, Packet
    <3>3. packet' # << >> /\ sent' < Len(packet')
      BY <1>1, <1>s, <2>2
    <3> QED
      BY <3>2, <3>3 DEF Sending
  <2> QED
    BY <2>1, <2>2
<1>8. Searching'
  <2> SUFFICES ASSUME early = 0 PROVE Late'
    BY <1>1 DEF Searching, driver
  <2>1. mouse_cycle = sent /\ mouse_intelli = wheel_on
    BY <1>1, <1>2, ReadyIs DEF IInv, InStep, Negotiated, IdPoll, Typed, TypeOK
  <2>2. Len(packet) = LastByte + 1 /\ LastByte' = LastByte /\ LastByte \in Nat
    BY <1>1, <1>2, <1>3, <2>1 DEF LastByte, driver
  <2>3. misread' = 0 /\ mouse_cycle' = sent
    BY <1>1, <1>3, <2>1 DEF driver
  <2>4. CASE SentAll
    BY <1>1, <1>s, <2>2, <2>3, <2>4 DEF Late
  <2>5. CASE ~SentAll
    BY <1>1, <1>s, <2>2, <2>3, <2>5 DEF Late
  <2> QED
    BY <2>4, <2>5
<1> QED
  BY <1>5, <1>6, <1>7, <1>8 DEF IInv

(* The getters leave what the handler works on.                            *)
LEMMA GettersKeep ==
  ASSUME IInv, UNCHANGED <<init_pc, mouse_intelli, mouse_cycle, packet_buf, abs_x, abs_y, mouse_buttons,
                           device, faults>>,
         event_queue' \in Seq(Event), Len(event_queue') < MOUSE_EVENT_QUEUE_SIZE,
         mouse_scroll' \in -8 .. 7, EventsAlternate'
  PROVE  IInv'
<1>1. Typed /\ Quiet /\ Negotiated /\ Sending /\ InStep /\ Searching
  BY DEF IInv
<1>2. Typed'
  BY <1>1 DEF Typed, TypeOK, LastByte, device, faults
<1>3. Quiet' /\ Negotiated' /\ InStep' /\ Searching'
  BY <1>1, ReadyIs
  DEF Quiet, Negotiated, Identity, InStep, Searching, Late, Waiting, LastByte, device, faults
<1>4. Sending'
  BY <1>1 DEF Sending, Carries, Packet, device, faults
<1> QED
  BY <1>2, <1>3, <1>4 DEF IInv

LEMMA GetEventKeeps == IInv /\ GetEvent => IInv'
<1> SUFFICES ASSUME IInv, GetEvent PROVE IInv'
  OBVIOUS
<1>1. /\ event_queue \in Seq(Event) /\ event_queue # << >> /\ event_queue' = Tail(event_queue)
      /\ Len(event_queue) < MOUSE_EVENT_QUEUE_SIZE /\ mouse_buttons' = mouse_buttons
      /\ mouse_scroll' = mouse_scroll /\ mouse_scroll \in -8 .. 7
  BY DEF IInv, Typed, TypeOK, GetEvent
<1>2. event_queue' \in Seq(Event) /\ Len(event_queue') < MOUSE_EVENT_QUEUE_SIZE
  BY <1>1, MouseAssumption
<1>3. EventsAlternate'
  <2> SUFFICES ASSUME NEW k \in {1, 2} PROVE Alternates(event_queue', k, Bit(mouse_buttons', k))
    BY DEF EventsAlternate
  <2>1. Alternates(event_queue, k, Bit(mouse_buttons, k)) /\ Bit(mouse_buttons, k) \in BOOLEAN
    BY DEF IInv, EventsAlternate, Bit
  <2>2. Alternates(Tail(event_queue), k, Bit(mouse_buttons, k))
    BY <1>1, <2>1, TailAlternates
  <2> QED
    BY <1>1, <2>2
<1> QED
  BY <1>1, <1>2, <1>3, GettersKeep DEF GetEvent

LEMMA GetScrollKeeps == IInv /\ GetScroll => IInv'
<1> SUFFICES ASSUME IInv, GetScroll PROVE IInv'
  OBVIOUS
<1>1. event_queue \in Seq(Event) /\ Len(event_queue) < MOUSE_EVENT_QUEUE_SIZE /\ EventsAlternate
  BY DEF IInv, Typed, TypeOK
<1>2. event_queue' = event_queue /\ mouse_buttons' = mouse_buttons /\ mouse_scroll' = 0
  BY DEF GetScroll
<1>3. EventsAlternate' /\ mouse_scroll' \in -8 .. 7
  BY <1>1, <1>2 DEF EventsAlternate
<1> QED
  BY <1>1, <1>2, <1>3, GettersKeep DEF GetScroll

LEMMA StepKeeps == IInv /\ [Next]_vars => IInv'
<1> SUFFICES ASSUME IInv, [Next]_vars PROVE IInv'
  OBVIOUS
<1>1. CASE UNCHANGED vars
  <2>1. UNCHANGED <<driver, device, faults>>
    BY <1>1 DEF vars
  <2>2. event_queue' \in Seq(Event) /\ Len(event_queue') < MOUSE_EVENT_QUEUE_SIZE
        /\ mouse_scroll' \in -8 .. 7 /\ EventsAlternate'
    BY <2>1 DEF driver, IInv, Typed, TypeOK, EventsAlternate
  <2> QED
    BY <2>1, <2>2, GettersKeep DEF driver
<1>2. ASSUME NEW byte \in {0, 3}, ReadEarly(byte) PROVE IInv'
  BY <1>2, ReadEarlyKeeps
<1>3. ASSUME NEW escaped \in 0 .. MaxEarly, Drain(escaped) PROVE IInv'
  BY <1>3, DrainKeeps
<1>4. ASSUME NEW move \in Motion, NEW buttons \in Buttons, NEW wheel \in Wheel,
             StartPacket(move, buttons, wheel)
      PROVE  IInv'
  BY <1>4, StartKeeps
<1> QED
  BY <1>1, <1>2, <1>3, <1>4, WriteKeeps, ReadAnswerKeeps, AnswerByteKeeps, PacketByteKeeps,
     LoseByteKeeps, GetEventKeeps, GetScrollKeeps DEF Next

LEMMA Invariance == Spec => []IInv
  BY InitHolds, StepKeeps, PTL DEF Spec

-----------------------------------------------------------------------------
(* On a screen and with a ring of any size, whatever moves: if every poll  *)
(* of the negotiation got its answer, driver and device agree on the size  *)
(* of a packet, and without a lost byte on what of it was sent and where   *)
(* the pointer is; clicks and releases alternate even where bytes are lost *)
(* and polls end early (mouse.c:82-146, 179-263).                          *)
THEOREM DriverFollowsDevice == Spec => []MouseInv
<1>1. IInv => MouseInv
  <2> SUFFICES ASSUME IInv PROVE MouseInv
    OBVIOUS
  <2>1. TypeOK /\ InStep /\ EventsAlternate /\ Negotiated /\ answers \in Seq(Byte) /\ init_pc \in 1 .. 27
    <3>1. TypeOK /\ InStep /\ EventsAlternate /\ Negotiated
      BY DEF IInv, Typed
    <3>2. answers \in Seq(Byte) /\ init_pc \in 1 .. Len(Script) + 2
      BY <3>1 DEF TypeOK
    <3> QED
      BY <3>1, <3>2, ScriptIs
  <2>2. Ready /\ early = 0 => mouse_intelli = wheel_on /\ answers = << >>
    <3> SUFFICES ASSUME Ready, early = 0 PROVE mouse_intelli = wheel_on /\ answers = << >>
      OBVIOUS
    <3>1. init_pc = 27
      BY <2>1, ReadyIs
    <3>2. Len(answers) = 0 /\ mouse_intelli = wheel_on
      BY <2>1, <3>1, OwedIs DEF Negotiated, IdPoll
    <3> QED
      BY <2>1, <3>2
  <2> QED
    BY <2>1, <2>2 DEF MouseInv, Agreed
<1> QED
  BY <1>1, Invariance, PTL

(* The search for a header behind a lost byte costs one packet at most, on *)
(* devices of either kind (mouse.c:247-252).                               *)
THEOREM LossCostsOnePacket == Spec => []Recovers
<1>1. IInv => Recovers
  BY DEF IInv, Typed, Searching, Late, Waiting, Recovers
<1> QED
  BY <1>1, Invariance, PTL
=============================================================================
