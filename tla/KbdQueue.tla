------------------------------ MODULE KbdQueue ------------------------------
(***************************************************************************)
(* The keyboard event queue of kernel/keyboard.c: a ring of SIZE slots     *)
(* written by the IRQ1 handler and read by kbd_queue_pop().                *)
(*                                                                         *)
(* The handler runs with interrupts off, so a push is one step.  A pop is  *)
(* as many steps as it has memory accesses: the build has no -O flag, so   *)
(* every mention of queue_head or queue_tail is a load of its own, and an  *)
(* interrupt may come between any two of them.  pc names the next access   *)
(* of the pop, head_reg, type_reg and ch_reg what it has loaded so far.    *)
(*                                                                         *)
(* Two ways to call it.  The desktop reads through int 0x80, whose gate    *)
(* turns interrupts off (masked); the boot menu, the text shell and the    *)
(* games it runs call it directly, and an interrupt pushes between two     *)
(* accesses.  Between two calls the ring may overrun in any case.          *)
(***************************************************************************)
EXTENDS Naturals

CONSTANTS
  SIZE,        \* KBD_EVENT_QUEUE_SIZE, 64 in the code
  Char,        \* characters of a KBD_EV_CHAR event
  NUL,         \* the character 0 that goes with every other event
  Key,         \* KBD_EV_LEFT .. KBD_EV_ENTER: the events without a character
  MayOverrun   \* an interrupt inside a pop may find the ring full, too

ASSUME SizeAssumption == SIZE \in Nat /\ SIZE >= 2
ASSUME EventAssumption == NUL \notin Char /\ "CHAR" \notin Key /\ "NONE" \notin Key
ASSUME EnvAssumption == MayOverrun \in BOOLEAN

CharEvent == [type : {"CHAR"}, ch : Char]
KeyEvent == [type : Key, ch : {NUL}]
Event == CharEvent \cup KeyEvent
NoEvent == [type |-> "NONE", ch |-> NUL]

Slot == 0 .. SIZE - 1
Type == Key \cup {"CHAR", "NONE"}
Step == {"idle", "check", "compare", "type_ix", "type", "ch_ix", "ch",
         "adv_ix", "adv"}

VARIABLES
  event_queue,  \* the ring
  queue_head,   \* next slot to read
  queue_tail,   \* next slot to write
  pc,           \* next memory access of the reader, "idle" outside a call
  call,         \* which function the reader is in
  masked,       \* it was called through int 0x80, with interrupts off
  count,        \* pops left to keyboard_get_char()
  head_reg,     \* queue_head as the reader last loaded it
  type_reg,     \* type the pop has read
  ch_reg,       \* ch the pop has read
  last          \* event the last completed pop returned

ring == <<event_queue, queue_head, queue_tail>>
reader == <<pc, call, masked, count, head_reg, type_reg, ch_reg, last>>
vars == <<ring, reader>>

(* Mutant: the wrap-around is forgotten. *)
MutSuccNoWrap(i) == i + 1
Succ(i) == (i + 1) % SIZE
Empty == queue_head = queue_tail
Full == Succ(queue_tail) = queue_head

(***************************************************************************)
(* keyboard_init(), and the reader before its first call.                  *)
(***************************************************************************)
Init ==
  /\ event_queue = [i \in Slot |-> NoEvent]
  /\ queue_head = 0
  /\ queue_tail = 0
  /\ pc = "idle"
  /\ call = "event"
  /\ masked = TRUE
  /\ count = 0
  /\ head_reg = 0
  /\ type_reg = "NONE"
  /\ ch_reg = NUL
  /\ last = NoEvent

(* Mutant: the push does not make room, so a full ring looks empty. *)
MutPushKeepsFull(e) ==
  /\ queue_head' = queue_head
  /\ event_queue' = [event_queue EXCEPT ![queue_tail] = e]
  /\ queue_tail' = Succ(queue_tail)

(***************************************************************************)
(* kbd_queue_push(): a full ring loses its oldest event, which moves       *)
(* queue_head, the reader's index, from inside the interrupt.              *)
(***************************************************************************)
Push(e) ==
  /\ queue_head' = IF Full THEN Succ(queue_head) ELSE queue_head
  /\ event_queue' = [event_queue EXCEPT ![queue_tail] = e]
  /\ queue_tail' = Succ(queue_tail)

Interruptible == masked => pc = "idle"
InsidePop == pc \notin {"idle", "check"}

Interrupt(e) ==
  /\ Interruptible
  /\ InsidePop /\ Full => MayOverrun
  /\ Push(e)
  /\ UNCHANGED reader

(***************************************************************************)
(* The reader.  keyboard_get_event() is one pop, keyboard_get_char() pops  *)
(* until it meets a character or an empty ring, SIZE times at most.  Both  *)
(* are called both ways.                                                   *)
(***************************************************************************)
GetEvent ==
  /\ pc = "idle"
  /\ pc' = "check"
  /\ call' = "event"
  /\ masked' \in BOOLEAN
  /\ count' = 1
  /\ UNCHANGED <<ring, head_reg, type_reg, ch_reg, last>>

(* Mutant: keyboard_get_char() pops at most SIZE - 2 times. *)
MutGetCharTwoShort ==
  /\ pc = "idle"
  /\ pc' = "check"
  /\ call' = "char"
  /\ masked' \in BOOLEAN
  /\ count' = SIZE - 2
  /\ UNCHANGED <<ring, head_reg, type_reg, ch_reg, last>>

GetChar ==
  /\ pc = "idle"
  /\ pc' = "check"
  /\ call' = "char"
  /\ masked' \in BOOLEAN
  /\ count' = SIZE
  /\ UNCHANGED <<ring, head_reg, type_reg, ch_reg, last>>

(* A load of queue_head into a register, at each of the four places. *)
LoadHead(from, to) ==
  /\ pc = from
  /\ pc' = to
  /\ head_reg' = queue_head
  /\ UNCHANGED <<ring, call, masked, count, type_reg, ch_reg, last>>

(* if (queue_head == queue_tail) return KBD_EV_NONE *)
FoundEmpty ==
  /\ pc = "compare"
  /\ head_reg = queue_tail
  /\ pc' = "idle"
  /\ last' = NoEvent
  /\ UNCHANGED <<ring, call, masked, count, head_reg, type_reg, ch_reg>>

FoundEvent ==
  /\ pc = "compare"
  /\ head_reg # queue_tail
  /\ pc' = "type_ix"
  /\ UNCHANGED <<ring, call, masked, count, head_reg, type_reg, ch_reg, last>>

LoadType ==
  /\ pc = "type"
  /\ type_reg' = event_queue[head_reg].type
  /\ pc' = "ch_ix"
  /\ UNCHANGED <<ring, call, masked, count, head_reg, ch_reg, last>>

(* Mutant: ch is read from the slot after the one type came from. *)
MutLoadCharNext ==
  /\ pc = "ch"
  /\ ch_reg' = event_queue[Succ(head_reg)].ch
  /\ pc' = "adv_ix"
  /\ UNCHANGED <<ring, call, masked, count, head_reg, type_reg, last>>

LoadChar ==
  /\ pc = "ch"
  /\ ch_reg' = event_queue[head_reg].ch
  /\ pc' = "adv_ix"
  /\ UNCHANGED <<ring, call, masked, count, head_reg, type_reg, last>>

(* queue_head = (queue_head + 1) % SIZE, and the return of the pop: an     *)
(* event other than a character makes keyboard_get_char() pop again.       *)
Advance ==
  /\ pc = "adv"
  /\ queue_head' = Succ(head_reg)
  /\ last' = [type |-> type_reg, ch |-> ch_reg]
  /\ count' = count - 1
  /\ pc' = IF call = "char" /\ type_reg # "CHAR" /\ count > 1 THEN "check" ELSE "idle"
  /\ UNCHANGED <<event_queue, queue_tail, call, masked, head_reg, type_reg, ch_reg>>

Pop ==
  \/ LoadHead("check", "compare")
  \/ FoundEmpty
  \/ FoundEvent
  \/ LoadHead("type_ix", "type")
  \/ LoadType
  \/ LoadHead("ch_ix", "ch")
  \/ LoadChar
  \/ LoadHead("adv_ix", "adv")
  \/ Advance

Reader == GetEvent \/ GetChar \/ Pop

Next == (\E e \in Event : Interrupt(e)) \/ Reader

Spec == Init /\ [][Next]_vars

-----------------------------------------------------------------------------
(* The events of a ring q between head h and tail t, oldest first. *)
Distance(h, t) == IF h <= t THEN t - h ELSE t + SIZE - h
At(h, i) == (h + i - 1) % SIZE
Items(q, h, t) == [i \in 1 .. Distance(h, t) |-> q[At(h, i)]]

Length == Distance(queue_head, queue_tail)
Contents == Items(event_queue, queue_head, queue_tail)

(* Every index stays inside the ring and every slot holds an event, for    *)
(* any interleaving of kbd_queue_push() and kbd_queue_pop().               *)
TypeOK ==
  /\ event_queue \in [Slot -> [type : Type, ch : Char \cup {NUL}]]
  /\ queue_head \in Slot
  /\ queue_tail \in Slot
  /\ pc \in Step
  /\ call \in {"event", "char"}
  /\ masked \in BOOLEAN
  /\ count \in 0 .. SIZE
  /\ head_reg \in Slot
  /\ type_reg \in Type
  /\ ch_reg \in Char \cup {NUL}
  /\ last \in [type : Type, ch : Char \cup {NUL}]

(* keyboard.c's ring is a drop-oldest FIFO of SIZE - 1 events whose reads  *)
(* take effect when kbd_queue_pop() compares or advances.                  *)
Fifo == INSTANCE DropOldestQueue
          WITH Capacity <- SIZE - 1, Entry <- Event, NoEntry <- NoEvent,
               queue <- Contents, last <- last
IsDropOldestQueue == Fifo!Spec

(* "Pops the next event, or returns KBD_EV_NONE if empty" (keyboard.c:62): *)
(* a pop reports an empty ring only when the ring is empty.  That is so    *)
(* unless an interrupt overruns the ring inside a pop (MayOverrun).        *)
NoneMeansEmpty == [][FoundEmpty => Empty]_vars

(* Under int 0x80 keyboard_get_char() gives up only when no character is   *)
(* waiting: SIZE pops are enough to discard whatever a ring of SIZE - 1    *)
(* events holds.                                                           *)
GetCharFindsChar ==
  [][ (masked /\ call = "char" /\ pc # "idle" /\ pc' = "idle" /\ last'.type # "CHAR")
        => \A i \in 1 .. Length' : Contents'[i].type # "CHAR" ]_vars

-----------------------------------------------------------------------------
(* The slots between queue_head and queue_tail. *)
Live == IF queue_head <= queue_tail
        THEN {i \in Slot : queue_head <= i /\ i < queue_tail}
        ELSE {i \in Slot : queue_head <= i \/ i < queue_tail}

(* What a pop knows between two of its accesses while no interrupt inside  *)
(* it overruns the ring, pushes or not: its registers are the slot at      *)
(* queue_head, that slot is live, and type and character of what it read   *)
(* last come from one push; and a masked keyboard_get_char() has more pops *)
(* left than there are events (keyboard.c:68-75, 218).                     *)
ReaderInv ==
  /\ pc # "idle" => count >= 1
  /\ \A i \in Live : event_queue[i] \in Event
  /\ last \in Event \cup {NoEvent}
  /\ pc \in {"compare", "type", "ch", "adv"} => head_reg = queue_head
  /\ pc \in {"type_ix", "type", "ch_ix", "ch", "adv_ix", "adv"} => ~Empty
  /\ pc \in {"ch_ix", "ch", "adv_ix", "adv"} => type_reg = event_queue[queue_head].type
  /\ pc \in {"adv_ix", "adv"} => ch_reg = event_queue[queue_head].ch
  /\ masked /\ call = "char" /\ pc # "idle" => count > Length
=============================================================================
