------------------------------- MODULE Mouse -------------------------------
(***************************************************************************)
(* The PS/2 mouse of kernel/mouse.c: the negotiation of mouse_init(), the  *)
(* assembler that its interrupt handler is, position, buttons, wheel and   *)
(* the ring of events; with the device at the other end of the wire.       *)
(*                                                                         *)
(* A byte is a number below BYTE.  The device answers every command in     *)
(* order, if sometimes late, and sends a packet of three bytes, or of four *)
(* when it has switched its wheel on.  A byte can be lost on its way.  The *)
(* handler and the system calls run with interrupts off: one step each.    *)
(***************************************************************************)
EXTENDS Integers, Sequences

CONSTANTS
  BYTE,                   \* values of a byte; 256 in the code, 64 has every bit it looks at
  WIDTH, HEIGHT,          \* of the screen, 1024 and 768 in the code
  MOUSE_EVENT_QUEUE_SIZE, \* 32 in the code
  Motion,                 \* pairs of 9-bit movements, x to the right and y upwards
  Buttons,                \* what can be held down, as the low bits of a header
  Wheel,                  \* the fourth byte of a packet
  MaxEarly                \* bound of the model: polls of mouse_init() that end too early

ASSUME MouseAssumption ==
  /\ BYTE \in {64, 128, 256}
  /\ WIDTH \in Nat \ {0} /\ HEIGHT \in Nat \ {0}
  /\ MOUSE_EVENT_QUEUE_SIZE \in Nat \ {0, 1}
  /\ Motion \subseteq (-BYTE .. BYTE - 1) \X (-BYTE .. BYTE - 1)
  /\ Buttons \subseteq 0 .. 7
  /\ Wheel \subseteq 0 .. 15 /\ 0 \in Wheel
  /\ MaxEarly \in Nat

VARIABLES
  \* the driver
  init_pc,                    \* the next step of mouse_init(); past its end, interrupts arrive
  mouse_intelli, mouse_cycle,
  packet_buf,                 \* the bytes assembled so far
  abs_x, abs_y,
  mouse_buttons, mouse_scroll,
  event_queue,                \* from queue_head to queue_tail
  \* the device
  has_wheel, wheel_on,
  answers,                    \* its answers that nobody has read
  packet, sent,               \* the packet it is sending, and how much of it
  pointer,                    \* where its movements should have led
  \* what went wrong
  early,                      \* polls that ended without an answer
  lost,                       \* a byte was lost, and the driver has not found a header since
  noisy,                      \* since then a byte that is no header looked like one
  misread                     \* packets since then that the device did not send, up to 2

driver == <<init_pc, mouse_intelli, mouse_cycle, packet_buf, abs_x, abs_y, mouse_buttons, mouse_scroll, event_queue>>
device == <<has_wheel, wheel_on, answers, packet, sent, pointer>>
faults == <<early, lost, noisy, misread>>
vars == <<driver, device, faults>>

Byte == 0 .. BYTE - 1
Bit(b, mask) == (b \div mask) % 2 = 1
ACK == 250 % BYTE
BAT == 170 % BYTE

Clamp(v, size) == IF v < 0 THEN 0 ELSE IF v > size - 1 THEN size - 1 ELSE v
(* Where a movement leads on the screen, whose y points down.              *)
MovedTo(at, move) == <<Clamp(at[1] + move[1], WIDTH), Clamp(at[2] - move[2], HEIGHT)>>

(***************************************************************************)
(* mouse_init(): commands and polls.                                       *)
(***************************************************************************)
Write(cmd) == [op |-> "write", cmd |-> cmd]
Read == [op |-> "read", cmd |-> "none"]
Script ==
  <<Write("reset"), Read, Read, Read,
    Write("rate"), Read, Write("200"), Read,
    Write("rate"), Read, Write("100"), Read,
    Write("rate"), Read, Write("80"), Read,
    Write("id"), Read, Read,
    Write("rate"), Read, Write("100"), Read,
    Write("enable"), Read>>
(* The poll whose byte is taken for the device's identity.                 *)
IdPoll == 19
Polling == init_pc <= Len(Script) /\ Script[init_pc].op = "read"
Ready == init_pc > Len(Script) + 1

Init ==
  /\ init_pc = 1
  /\ mouse_intelli = FALSE /\ mouse_cycle = 0 /\ packet_buf = << >>
  /\ abs_x = WIDTH \div 2 /\ abs_y = HEIGHT \div 2
  /\ mouse_buttons = 0 /\ mouse_scroll = 0 /\ event_queue = << >>
  /\ has_wheel \in BOOLEAN /\ wheel_on = FALSE
  /\ answers = << >> /\ packet = << >> /\ sent = 0
  /\ pointer = <<WIDTH \div 2, HEIGHT \div 2>>
  /\ early = 0 /\ lost = FALSE /\ noisy = FALSE /\ misread = 0

(* mouse_write(), and the device's answer.  A device with a wheel switches *)
(* it on behind the rates 200, 100 and 80.                                 *)
WriteCommand ==
  /\ init_pc <= Len(Script) /\ Script[init_pc].op = "write"
  /\ init_pc' = init_pc + 1
  /\ LET cmd == Script[init_pc].cmd
     IN  /\ wheel_on' = IF cmd = "80" THEN has_wheel ELSE wheel_on
         /\ answers' = answers \o
              CASE cmd = "reset" -> <<ACK, BAT, 0>>
                [] cmd = "id"    -> <<ACK, IF wheel_on THEN 3 ELSE 0>>
                [] OTHER         -> <<ACK>>
  /\ UNCHANGED <<mouse_intelli, mouse_cycle, packet_buf, abs_x, abs_y, mouse_buttons, mouse_scroll,
                 event_queue, has_wheel, packet, sent, pointer, faults>>

Polled(byte) ==
  /\ init_pc' = init_pc + 1
  /\ mouse_intelli' = IF init_pc = IdPoll THEN byte = 3 ELSE mouse_intelli
  /\ UNCHANGED <<mouse_cycle, packet_buf, abs_x, abs_y, mouse_buttons, mouse_scroll, event_queue,
                 has_wheel, wheel_on, packet, sent, pointer, lost, noisy, misread>>

ReadAnswer ==
  /\ Polling /\ answers # << >>
  /\ Polled(Head(answers))
  /\ answers' = Tail(answers)
  /\ UNCHANGED early

(* A poll that times out, or that sees the byte of a key, which IRQ1 then  *)
(* takes: it returns what is in the port, and the answer comes later.      *)
ReadEarly(byte) ==
  /\ Polling /\ early < MaxEarly
  /\ Polled(byte)
  /\ early' = early + 1
  /\ UNCHANGED answers

(* The drain, which ends when the port is empty at the moment: answers     *)
(* that are late escape it.                                                *)
Drain(escaped) ==
  /\ init_pc = Len(Script) + 1
  /\ escaped \in 0 .. Len(answers)
  /\ init_pc' = init_pc + 1
  /\ answers' = SubSeq(answers, Len(answers) - escaped + 1, Len(answers))
  /\ UNCHANGED <<mouse_intelli, mouse_cycle, packet_buf, abs_x, abs_y, mouse_buttons, mouse_scroll,
                 event_queue, has_wheel, wheel_on, packet, sent, pointer, faults>>

(***************************************************************************)
(* The device: a packet, byte by byte.                                     *)
(***************************************************************************)
Header(move, buttons) ==
  buttons + 8 + (IF move[1] < 0 THEN 16 ELSE 0) + (IF move[2] < 0 THEN 32 ELSE 0)

Packet(move, buttons, wheel) ==
  <<Header(move, buttons), move[1] % BYTE, move[2] % BYTE>> \o (IF wheel_on THEN <<wheel>> ELSE << >>)

StartPacket(move, buttons, wheel) ==
  /\ Ready /\ answers = << >> /\ packet = << >>
  /\ wheel_on \/ wheel = 0
  /\ packet' = Packet(move, buttons, wheel)
  /\ pointer' = MovedTo(pointer, move)
  /\ UNCHANGED <<driver, has_wheel, wheel_on, answers, sent, faults>>

(***************************************************************************)
(* The handler.                                                            *)
(***************************************************************************)
Push(queue, event) ==
  Append(IF Len(queue) < MOUSE_EVENT_QUEUE_SIZE - 1 THEN queue ELSE Tail(queue), event)
PushIf(cond, queue, event) == IF cond THEN Push(queue, event) ELSE queue

(* Mutant: the sign of a movement is taken from its own top bit. *)
MutSigned(negative, b) == IF b >= BYTE \div 2 THEN b - BYTE ELSE b

(* dx and dy: nine bits, the sign is in the header.                        *)
Signed(negative, b) == IF negative THEN b - BYTE ELSE b

(* The click and release events of a button, from what was down before; a  *)
(* button is its mask.                                                     *)
ButtonEvents(queue, k, before, now) ==
  PushIf(~Bit(now, k) /\ Bit(before, k),
         PushIf(Bit(now, k) /\ ~Bit(before, k), queue, [type |-> "click", button |-> k]),
         [type |-> "release", button |-> k])

(* mouse_process_packet(); prev_buttons is what mouse_buttons was.         *)
ProcessPacket(p) ==
  LET move    == <<Signed(Bit(p[1], 16), p[2]), Signed(Bit(p[1], 32), p[3])>>
      to      == MovedTo(<<abs_x, abs_y>>, move)
      buttons == p[1] % 8
      low     == IF mouse_intelli THEN p[4] % 16 ELSE 0
      scroll  == IF low >= 8 THEN low - 16 ELSE low
      moved   == PushIf(p[2] # 0 \/ p[3] # 0, event_queue, [type |-> "move", button |-> 0])
      clicked == ButtonEvents(ButtonEvents(moved, 1, mouse_buttons, buttons), 2, mouse_buttons, buttons)
  IN  /\ abs_x' = to[1] /\ abs_y' = to[2]
      /\ mouse_buttons' = buttons
      /\ mouse_scroll' = scroll
      /\ event_queue' = PushIf(scroll # 0, clicked, [type |-> "scroll", button |-> 0])

LastByte == IF mouse_intelli THEN 3 ELSE 2

(* Mutant: a byte that is no header is taken for one. *)
MutNoHeader(byte) == FALSE

(* A byte where a header should be, without the bit that every header has. *)
NoHeader(byte) == mouse_cycle = 0 /\ ~Bit(byte, 8)

HandleInterrupt(byte) ==
  IF NoHeader(byte)
  THEN UNCHANGED <<mouse_cycle, packet_buf, abs_x, abs_y, mouse_buttons, mouse_scroll, event_queue>>
  ELSE IF mouse_cycle < LastByte
  THEN /\ packet_buf' = Append(packet_buf, byte)
       /\ mouse_cycle' = mouse_cycle + 1
       /\ UNCHANGED <<abs_x, abs_y, mouse_buttons, mouse_scroll, event_queue>>
  ELSE /\ ProcessPacket(Append(packet_buf, byte))
       /\ packet_buf' = << >>
       /\ mouse_cycle' = 0

Completes == mouse_cycle = LastByte

(* A late answer arrives like a byte of the stream.                        *)
AnswerByte ==
  /\ Ready /\ answers # << >>
  /\ HandleInterrupt(Head(answers))
  /\ answers' = Tail(answers)
  /\ UNCHANGED <<init_pc, mouse_intelli, has_wheel, wheel_on, packet, sent, pointer, faults>>

SentAll == sent + 1 = Len(packet)
Advance ==
  /\ packet' = IF SentAll THEN << >> ELSE packet
  /\ sent' = IF SentAll THEN 0 ELSE sent + 1
  /\ UNCHANGED <<has_wheel, wheel_on, answers>>

(* IRQ12 with the next byte of the packet.  When driver and device are     *)
(* both at the start of a packet again, a loss is over; the pointer is     *)
(* counted from where the driver has it.                                   *)
PacketByte ==
  /\ packet # << >>
  /\ LET byte == packet[sent + 1]
         over == lost /\ SentAll /\ mouse_cycle' = 0
     IN  /\ HandleInterrupt(byte)
         /\ lost' = (lost /\ ~over)
         /\ noisy' = (lost' /\ (noisy \/ (sent > 0 /\ Bit(byte, 8))))
         /\ misread' = IF ~lost' THEN 0
                       ELSE IF Completes /\ misread < 2 THEN misread + 1 ELSE misread
         /\ pointer' = IF over THEN <<abs_x', abs_y'>> ELSE pointer
  /\ Advance
  /\ UNCHANGED <<init_pc, mouse_intelli, early>>

(* A byte that no interrupt brings; one loss at a time.                    *)
LoseByte ==
  /\ packet # << >> /\ ~lost
  /\ lost' = TRUE
  /\ Advance
  /\ UNCHANGED <<driver, pointer, early, noisy, misread>>

(* mouse_get_event() and mouse_get_scroll(), which clears what it returns. *)
GetEvent ==
  /\ Ready /\ event_queue # << >>
  /\ event_queue' = Tail(event_queue)
  /\ UNCHANGED <<init_pc, mouse_intelli, mouse_cycle, packet_buf, abs_x, abs_y, mouse_buttons, mouse_scroll,
                 device, faults>>

GetScroll ==
  /\ Ready /\ mouse_scroll # 0
  /\ mouse_scroll' = 0
  /\ UNCHANGED <<init_pc, mouse_intelli, mouse_cycle, packet_buf, abs_x, abs_y, mouse_buttons, event_queue,
                 device, faults>>

Next ==
  \/ WriteCommand
  \/ ReadAnswer
  \/ \E byte \in {0, 3} : ReadEarly(byte)
  \/ \E escaped \in 0 .. MaxEarly : Drain(escaped)
  \/ \E move \in Motion, buttons \in Buttons, wheel \in Wheel : StartPacket(move, buttons, wheel)
  \/ AnswerByte
  \/ PacketByte
  \/ LoseByte
  \/ GetEvent
  \/ GetScroll

Spec == Init /\ [][Next]_vars

-----------------------------------------------------------------------------
TypeOK ==
  /\ init_pc \in 1 .. Len(Script) + 2
  /\ mouse_cycle \in 0 .. LastByte /\ Len(packet_buf) = mouse_cycle
  /\ packet_buf \in Seq(Byte)
  /\ abs_x \in 0 .. WIDTH - 1 /\ abs_y \in 0 .. HEIGHT - 1
  /\ mouse_buttons \in 0 .. 7 /\ mouse_scroll \in -8 .. 7
  /\ Len(event_queue) < MOUSE_EVENT_QUEUE_SIZE
  /\ answers \in Seq(Byte) /\ sent \in 0 .. 3

(* If every poll got its answer, driver and device agree on the size of a  *)
(* packet, and no answer is left to be taken for movement.                 *)
Agreed == Ready /\ early = 0 => mouse_intelli = wheel_on /\ answers = << >>

(* If moreover no byte was lost, the driver has of a packet what the       *)
(* device has sent of it, and between two packets the pointer is where the *)
(* movements led.                                                          *)
InStep ==
  Ready /\ early = 0 /\ ~lost =>
    /\ mouse_cycle = sent /\ packet_buf = SubSeq(packet, 1, sent)
    /\ packet = << >> => <<abs_x, abs_y>> = pointer

IsButton(e, k) == e.type \in {"click", "release"} /\ e.button = k
(* The next event of button k behind place i is at place j.                *)
Follows(q, k, i, j) == \A m \in i + 1 .. j - 1 : ~IsButton(q[m], k)

(* Clicks and releases of a button alternate, and the last one says        *)
(* whether it is down: with lost bytes, misread packets and a ring that    *)
(* drops its oldest events.                                                *)
Alternates(q, k, down) ==
  /\ \A i, j \in 1 .. Len(q) :
       i < j /\ IsButton(q[i], k) /\ IsButton(q[j], k) /\ Follows(q, k, i, j) => q[i].type # q[j].type
  /\ \A i \in 1 .. Len(q) :
       IsButton(q[i], k) /\ Follows(q, k, i, Len(q) + 1) => (q[i].type = "click" <=> down)
EventsAlternate == \A k \in {1, 2} : Alternates(event_queue, k, Bit(mouse_buttons, k))

(* Wheel negotiation, assembly, nine-bit movements and events agree with   *)
(* the device (mouse.c:82-146, 179-233, 242-263).                          *)
MouseInv == TypeOK /\ Agreed /\ InStep /\ EventsAlternate

(* "Discard and wait for the next byte that looks like a valid header":    *)
(* after a lost byte one packet at most is misread before the two are in   *)
(* step again, if no other byte looks like a header (mouse.c:247-252).     *)
Recovers == early = 0 /\ lost /\ ~noisy => misread <= 1
=============================================================================
