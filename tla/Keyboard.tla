------------------------------ MODULE Keyboard ------------------------------
(***************************************************************************)
(* The keyboard driver, kernel/keyboard.c: the IRQ1 handler decodes scan   *)
(* codes (set 1) byte by byte and pushes events on its queue.  The queue   *)
(* is the drop-oldest FIFO that KbdQueue implements: nothing the decoder   *)
(* does depends on how the ring is read.                                   *)
(*                                                                         *)
(* A byte is a key with a make or break bit, or the prefix 0xE0.  The      *)
(* hardware is external: held is the set of keys that are down, wire the   *)
(* bytes the controller has not handed over yet.  A key of the grey        *)
(* cluster sends a prefixed code, wrapped in a prefixed "fake" release and *)
(* press of Shift when Shift is down; PrintScreen sends a prefixed press   *)
(* of Shift when it is not.                                                *)
(*                                                                         *)
(* What the typist means is kept beside it in history variables, from keys *)
(* and not from bytes: the handler never reads them.                       *)
(***************************************************************************)
EXTENDS Naturals, Sequences, FiniteSets

CONSTANTS
  SIZE,     \* KBD_EVENT_QUEUE_SIZE
  NUL,      \* the character of an event without one
  MaxHeld,  \* bound: keys down at once
  Letter,   \* keys whose character CapsLock changes
  Symbol,   \* keys whose character Shift alone changes
  Silent,   \* keys below 0x3A whose table entry is 0, as Ctrl and Alt
  Nav,      \* arrows, Home, End, Del of the keypad
  GreyCode, \* the keys of the grey cluster, with the Nav code each sends
  Editing   \* Tab, Backspace, Enter

Shift == {"LSHIFT", "RSHIFT"}

Grey == DOMAIN GreyCode
Classes == <<Letter, Symbol, Silent, Nav, Editing, Shift, Grey, {"CAPS"}, {"PRTSC"}, {"E0"}>>

ASSUME KeysAssumption ==
  /\ SIZE \in Nat /\ SIZE >= 2
  /\ \A i, j \in DOMAIN Classes : i # j => Classes[i] \cap Classes[j] = {}
  /\ GreyCode \in [Grey -> Nav]
  /\ {"CHAR", "NONE"} \cap (Nav \cup Editing) = {}
  /\ NUL \notin (Letter \cup Symbol) \X BOOLEAN

(* A character is the key and whether it is the shifted one. *)
Char == (Letter \cup Symbol) \X BOOLEAN

CharEvent == [type : {"CHAR"}, ch : Char]
KeyEvent == [type : Nav \cup Editing, ch : {NUL}]
Event == CharEvent \cup KeyEvent
NoEvent == [type |-> "NONE", ch |-> NUL]

VARIABLES
  queue, last,                        \* the event queue and what was read last
  shift_state, caps_state, extended,  \* the decoder
  held, wire,                         \* the hardware
  shifting,  \* history: the Shift keys pressed since one was last released
  locked,    \* history: CapsLock was pressed an odd number of times
  meant,     \* history: the event the last keystroke stands for, if any
  pushed     \* history: what was pushed since that keystroke

Q == INSTANCE DropOldestQueue WITH Capacity <- SIZE - 1, Entry <- Event, NoEntry <- NoEvent

events == <<queue, last>>
decoder == <<shift_state, caps_state, extended>>
typist == <<shifting, locked, meant>>
vars == <<events, decoder, held, wire, typist, pushed>>

-----------------------------------------------------------------------------
(* The hardware. *)
E0 == [key |-> "E0", brk |-> FALSE]
Make(k) == [key |-> k, brk |-> FALSE]
Break(k) == [key |-> k, brk |-> TRUE]
HeldShift == held \cap Shift
Fake(Code(_)) ==
  IF HeldShift = {} THEN << >> ELSE <<E0, Code(CHOOSE s \in HeldShift : TRUE)>>

(* What pressing a key stands for, as the typist sees the modifiers.       *)
Shifted(k) == IF k \in Letter THEN (shifting # {}) # locked ELSE shifting # {}
Meaning(k) ==
  CASE k \in Nav \cup Editing -> <<[type |-> k, ch |-> NUL]>>
    [] k \in Grey -> <<[type |-> GreyCode[k], ch |-> NUL]>>
    [] k \in Letter \cup Symbol -> <<[type |-> "CHAR", ch |-> <<k, Shifted(k)>>]>>
    [] OTHER -> << >>

Down(k, codes) ==
  /\ held' = held \cup {k}
  /\ wire' = codes
  /\ meant' = Meaning(k)
  /\ shifting' = IF k \in Shift THEN shifting \cup {k} ELSE shifting
  /\ locked' = IF k = "CAPS" THEN ~locked ELSE locked

Press ==
  /\ wire = << >>
  /\ \/ \E k \in Letter \cup Symbol \cup Silent \cup Nav \cup Editing \cup Shift \cup {"CAPS"} :
          Down(k, <<Make(k)>>)
     \/ \E g \in Grey : Down(g, Fake(Break) \o <<E0, Make(GreyCode[g])>>)
     \/ Down("PRTSC", IF HeldShift = {} THEN <<E0, Make("LSHIFT"), E0, Make("PRTSC")>>
                      ELSE <<E0, Make("PRTSC")>>)
  /\ Cardinality(held') <= MaxHeld
  /\ pushed' = << >>
  /\ UNCHANGED <<events, decoder>>

Release(k) ==
  /\ wire = << >>
  /\ held' = held \ {k}
  /\ wire' = IF k = "PRTSC" THEN <<E0, Break(k), E0, Break("LSHIFT")>>
             ELSE IF k \in Grey THEN <<E0, Break(GreyCode[k])>> \o Fake(Make)
             ELSE <<Break(k)>>
  /\ shifting' = IF k \in Shift THEN {} ELSE shifting
  /\ meant' = << >>
  /\ pushed' = << >>
  /\ UNCHANGED <<events, decoder, locked>>

-----------------------------------------------------------------------------
(***************************************************************************)
(* keyboard_handle_interrupt(), one disjunct per way out of it.            *)
(***************************************************************************)
PushEvent(type, ch) ==
  /\ Q!Push([type |-> type, ch |-> ch])
  /\ pushed' = Append(pushed, [type |-> type, ch |-> ch])
PushNothing == UNCHANGED <<events, pushed>>

PrefixByte(b) ==
  /\ b = E0
  /\ extended' = TRUE
  /\ PushNothing
  /\ UNCHANGED <<shift_state, caps_state>>

(* Mutant: the prefix is not cleared by a byte that is no navigation key. *)
MutExtendedByteSticks(b) ==
  /\ extended
  /\ b # E0
  /\ extended' = ~(b.key \in Nav)
  /\ IF b.key \in Nav /\ ~b.brk THEN PushEvent(b.key, NUL) ELSE PushNothing
  /\ UNCHANGED <<shift_state, caps_state>>

ExtendedByte(b) ==
  /\ extended
  /\ b # E0
  /\ extended' = FALSE
  /\ IF b.key \in Nav /\ ~b.brk THEN PushEvent(b.key, NUL) ELSE PushNothing
  /\ UNCHANGED <<shift_state, caps_state>>

(* Mutant: a release is looked at before the prefix is. *)
MutBreakByteIgnoresPrefix(b) ==
  /\ b.brk
  /\ shift_state' = (shift_state /\ b.key \notin Shift)
  /\ PushNothing
  /\ extended' = FALSE
  /\ UNCHANGED caps_state

BreakByte(b) ==
  /\ ~extended
  /\ b.brk
  /\ shift_state' = (shift_state /\ b.key \notin Shift)
  /\ PushNothing
  /\ UNCHANGED <<caps_state, extended>>

ModifierByte(b) ==
  /\ ~extended
  /\ \/ \E s \in Shift : b = Make(s) /\ shift_state' = TRUE /\ UNCHANGED caps_state
     \/ b = Make("CAPS") /\ caps_state' = ~caps_state /\ UNCHANGED shift_state
  /\ PushNothing
  /\ UNCHANGED extended

(* Mutant: CapsLock and Shift together give the shifted letter, too. *)
MutCharOfEither(k) == <<k, shift_state \/ (k \in Letter /\ caps_state)>>

(* The characters of the two tables, with CapsLock inverting letters. *)
CharOf(k) == <<k, IF k \in Letter THEN shift_state # caps_state ELSE shift_state>>

KeyByte(b) ==
  /\ ~extended
  /\ ~b.brk
  /\ \/ b.key \in Nav \cup Editing /\ PushEvent(b.key, NUL)
     \/ b.key \in Letter \cup Symbol /\ PushEvent("CHAR", CharOf(b.key))
     \/ b.key \in Silent /\ PushNothing
  /\ UNCHANGED decoder

HandleInterrupt ==
  /\ wire # << >>
  /\ wire' = Tail(wire)
  /\ LET b == Head(wire)
     IN  PrefixByte(b) \/ ExtendedByte(b) \/ BreakByte(b) \/ ModifierByte(b) \/ KeyByte(b)
  /\ UNCHANGED <<held, typist>>

Read == (Q!Pop \/ Q!PopNone) /\ UNCHANGED <<decoder, held, wire, typist, pushed>>

Init ==
  /\ Q!Init
  /\ shift_state = FALSE
  /\ caps_state = FALSE
  /\ extended = FALSE
  /\ held = {}
  /\ wire = << >>
  /\ shifting = {} /\ locked = FALSE
  /\ meant = << >> /\ pushed = << >>

Next == Press \/ (\E k \in held : Release(k)) \/ HandleInterrupt \/ Read

Spec == Init /\ [][Next]_vars

-----------------------------------------------------------------------------
TypeOK ==
  /\ queue \in Seq(Event) /\ Len(queue) < SIZE
  /\ last \in Event \cup {NoEvent}
  /\ {shift_state, caps_state, extended} \subseteq BOOLEAN

(* The variables have their types, and between two keystrokes the decoder  *)
(* is in step with the keyboard: it waits for no second byte, and believes *)
(* Shift is down only if a Shift key is.  The fake Shift codes of the grey *)
(* keys must not reach it (keyboard.c:100-131).                            *)
DecoderInStep ==
  /\ TypeOK
  /\ wire = << >> => ~extended /\ (shift_state => HeldShift # {})

(* The modifiers between two keystrokes: Shift is on exactly while a Shift *)
(* key has been held since either was last released (the driver keeps one  *)
(* bit for two keys, so releasing one clears it), and CapsLock is on after *)
(* an odd number of presses (keyboard.c:120-142), fake Shift codes or not. *)
ModifiersHold ==
  wire = << >> => (shift_state <=> shifting # {}) /\ (caps_state <=> locked)

(* A keystroke gives the one event it stands for and no other, however     *)
(* many bytes it is sent in: the grey keys one key each, a character as    *)
(* Shift and CapsLock are for the typist, PrintScreen, Ctrl and every      *)
(* release nothing (keyboard.c:96-196).                                    *)
KeystrokeGivesEvent == wire = << >> => pushed = meant
=============================================================================
