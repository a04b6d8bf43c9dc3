--------------------------- MODULE KeyboardProofs ---------------------------
(***************************************************************************)
(* For keys of any number, in the order of any typist: what the interrupt  *)
(* handler of the keyboard pushes, and that its decoder never loses step.  *)
(*                                                                         *)
(* Between two keystrokes the claim is DecoderInStep.  It is not inductive:*)
(* within a keystroke the decoder is ahead of some of its bytes.  WireInv  *)
(* says what can still be on the wire, and that the rest of it brings the  *)
(* decoder back.                                                           *)
(***************************************************************************)
EXTENDS Keyboard, TLAPS

(* Shift is believed down only if a Shift key is.                          *)
Sound == shift_state => HeldShift # {}

(* The decoder's modifiers are the typist's.                               *)
Agree == (shift_state <=> shifting # {}) /\ (caps_state <=> locked)

(* A byte for a decoder that has seen no prefix, and what it will do there.*)
Plain(b) ==
  /\ b # E0
  /\ \/ ~b.brk /\ (b.key \in Shift => HeldShift # {}) /\ Sound
     \/ b.brk /\ b.key \notin held /\ (shift_state /\ b.key \notin Shift => HeldShift # {})

PlainKey == Letter \cup Symbol \cup Silent \cup Nav \cup Editing \cup Shift \cup {"CAPS"}

MakeDue(b) ==
  /\ b.key \in PlainKey
  /\ meant = Meaning(b.key)
  /\ IF b.key \in Shift THEN shifting # {} ELSE shift_state <=> shifting # {}
  /\ IF b.key = "CAPS" THEN caps_state <=> ~locked ELSE caps_state <=> locked

BreakDue(b) ==
  /\ meant = << >>
  /\ IF b.key \in Shift THEN shifting = {} ELSE shift_state <=> shifting # {}
  /\ caps_state <=> locked

Due(b) == pushed = << >> /\ (~b.brk => MakeDue(b)) /\ (b.brk => BreakDue(b))

(* What a code behind a prefix pushes; one that pushes nothing; and the    *)
(* last one of a keystroke.                                                *)
Gives(b) == IF b.key \in Nav /\ ~b.brk THEN <<[type |-> b.key, ch |-> NUL]>> ELSE << >>
Mute(b) == b # E0 /\ Gives(b) = << >>
Rest(b) == b # E0 /\ Sound /\ Agree /\ pushed = << >> /\ meant = Gives(b)

(* One prefixed code, and two.                                             *)
WireInv ==
  \/ wire = << >> /\ ~extended /\ Sound /\ Agree /\ pushed = meant
  \/ \E b : wire = <<b>> /\ ~extended /\ Plain(b) /\ Due(b)
  \/ \E b : wire = <<b>> /\ extended /\ Rest(b)
  \/ \E b : wire = <<E0, b>> /\ ~extended /\ Rest(b)
  \/ \E b, c : wire = <<b, E0, c>> /\ extended /\ Mute(b) /\ Rest(c)
  \/ \E b, c : wire = <<E0, b, E0, c>> /\ ~extended /\ Mute(b) /\ Rest(c)

IInv == TypeOK /\ locked \in BOOLEAN /\ WireInv

(* A key has one class, so that one case of Meaning fits it.               *)
LEMMA OneClass ==
  /\ Shift \cap (Letter \cup Symbol \cup Silent \cup Nav \cup Editing \cup Grey \cup {"CAPS", "PRTSC", "E0"}) = {}
  /\ Nav \cap (Letter \cup Symbol \cup Silent \cup Editing \cup Grey \cup {"CAPS", "PRTSC", "E0"}) = {}
  /\ Editing \cap (Letter \cup Symbol \cup Silent \cup Grey \cup {"CAPS", "PRTSC", "E0"}) = {}
  /\ Grey \cap (Letter \cup Symbol \cup Silent \cup {"CAPS", "PRTSC", "E0"}) = {}
  /\ Silent \cap (Letter \cup Symbol \cup {"CAPS", "PRTSC", "E0"}) = {}
  /\ "CAPS" \notin Letter \cup Symbol \cup {"PRTSC", "E0"}
  /\ "PRTSC" \notin Letter \cup Symbol
  /\ "E0" \notin Letter \cup Symbol
<1>1. \A i, j \in 1 .. 10 : i # j => Classes[i] \cap Classes[j] = {}
  BY KeysAssumption DEF Classes
<1>2. /\ Classes[1] = Letter /\ Classes[2] = Symbol /\ Classes[3] = Silent /\ Classes[4] = Nav
      /\ Classes[5] = Editing /\ Classes[6] = Shift /\ Classes[7] = Grey
      /\ Classes[8] = {"CAPS"} /\ Classes[9] = {"PRTSC"} /\ Classes[10] = {"E0"}
  BY DEF Classes
<1>3. /\ Shift \cap Letter = {} /\ Shift \cap Symbol = {} /\ Shift \cap Silent = {} /\ Shift \cap Nav = {}
      /\ Shift \cap Editing = {} /\ Shift \cap Grey = {} /\ Shift \cap {"CAPS"} = {}
      /\ Shift \cap {"PRTSC"} = {} /\ Shift \cap {"E0"} = {}
  BY <1>1, <1>2
<1>4. /\ Nav \cap Letter = {} /\ Nav \cap Symbol = {} /\ Nav \cap Silent = {} /\ Nav \cap Editing = {}
      /\ Nav \cap Grey = {} /\ Nav \cap {"CAPS"} = {} /\ Nav \cap {"PRTSC"} = {} /\ Nav \cap {"E0"} = {}
  BY <1>1, <1>2
<1>5. /\ Editing \cap Letter = {} /\ Editing \cap Symbol = {} /\ Editing \cap Silent = {}
      /\ Editing \cap Grey = {} /\ Editing \cap {"CAPS"} = {} /\ Editing \cap {"PRTSC"} = {}
      /\ Editing \cap {"E0"} = {}
  BY <1>1, <1>2
<1>6. /\ Grey \cap Letter = {} /\ Grey \cap Symbol = {} /\ Grey \cap Silent = {} /\ Grey \cap {"CAPS"} = {}
      /\ Grey \cap {"PRTSC"} = {} /\ Grey \cap {"E0"} = {}
  BY <1>1, <1>2
<1>7. /\ Silent \cap Letter = {} /\ Silent \cap Symbol = {} /\ Silent \cap {"CAPS"} = {}
      /\ Silent \cap {"PRTSC"} = {} /\ Silent \cap {"E0"} = {}
  BY <1>1, <1>2
<1>8. /\ {"CAPS"} \cap Letter = {} /\ {"CAPS"} \cap Symbol = {}
      /\ {"PRTSC"} \cap Letter = {} /\ {"PRTSC"} \cap Symbol = {}
      /\ {"E0"} \cap Letter = {} /\ {"E0"} \cap Symbol = {}
  BY <1>1, <1>2
<1> QED
  BY <1>3, <1>4, <1>5, <1>6, <1>7, <1>8

LEMMA MeaningOf ==
  /\ \A k \in Nav \cup Editing : Meaning(k) = <<[type |-> k, ch |-> NUL]>>
  /\ \A k \in Grey : Meaning(k) = <<[type |-> GreyCode[k], ch |-> NUL]>>
  /\ \A k \in Letter \cup Symbol : Meaning(k) = <<[type |-> "CHAR", ch |-> <<k, Shifted(k)>>]>>
  /\ \A k \in Silent \cup Shift \cup {"CAPS", "PRTSC"} : Meaning(k) = << >>
BY OneClass DEF Meaning

LEMMA PushTyped ==
  ASSUME TypeOK, NEW e \in Event, Q!Push(e)
  PROVE  queue' \in Seq(Event) /\ Len(queue') < SIZE /\ last' \in Event \cup {NoEvent}
<1>1. CASE Len(queue) < SIZE - 1
  BY <1>1, KeysAssumption DEF TypeOK, Q!Push
<1>2. CASE ~(Len(queue) < SIZE - 1)
  <2>1. queue # << >>
    BY <1>2, KeysAssumption DEF TypeOK
  <2>2. Tail(queue) \in Seq(Event) /\ Len(Tail(queue)) = Len(queue) - 1
    BY <2>1 DEF TypeOK
  <2> QED
    BY <1>2, <2>2, KeysAssumption DEF TypeOK, Q!Push
<1> QED
  BY <1>1, <1>2

LEMMA CharTyped ==
  ASSUME TypeOK, NEW k \in Letter \cup Symbol
  PROVE  [type |-> "CHAR", ch |-> CharOf(k)] \in Event
<1>1. (shift_state # caps_state) \in BOOLEAN /\ shift_state \in BOOLEAN
  BY DEF TypeOK
<1>2. CharOf(k) \in Char
  BY <1>1 DEF CharOf, Char
<1> QED
  BY <1>2 DEF Event, CharEvent

(* A byte pushes one event, or none.                                       *)
LEMMA HandlerPushes ==
  ASSUME TypeOK, HandleInterrupt
  PROVE  (\E e \in Event : Q!Push(e)) \/ UNCHANGED events
<1> DEFINE b == Head(wire)
<1>1. \A k \in Nav \cup Editing : [type |-> k, ch |-> NUL] \in Event
  BY DEF Event, KeyEvent
<1>2. CASE PrefixByte(b)
  BY <1>2 DEF PrefixByte, PushNothing
<1>3. CASE ExtendedByte(b)
  BY <1>1, <1>3 DEF ExtendedByte, PushEvent, PushNothing
<1>4. CASE BreakByte(b)
  BY <1>4 DEF BreakByte, PushNothing
<1>5. CASE ModifierByte(b)
  BY <1>5 DEF ModifierByte, PushNothing
<1>6. CASE KeyByte(b)
  BY <1>1, <1>6, CharTyped DEF KeyByte, PushEvent, PushNothing
<1> QED
  BY <1>2, <1>3, <1>4, <1>5, <1>6 DEF HandleInterrupt

LEMMA DecoderTyped ==
  ASSUME TypeOK, HandleInterrupt
  PROVE  {shift_state', caps_state', extended'} \subseteq BOOLEAN
  BY DEF TypeOK, HandleInterrupt, PrefixByte, ExtendedByte, BreakByte, ModifierByte, KeyByte, decoder

LEMMA TypedStep == TypeOK /\ [Next]_vars => TypeOK'
<1> SUFFICES ASSUME TypeOK, [Next]_vars PROVE TypeOK'
  OBVIOUS
<1>1. CASE Press
  BY <1>1 DEF Press, TypeOK, events, decoder
<1>2. ASSUME NEW k \in held, Release(k) PROVE TypeOK'
  BY <1>2 DEF Release, TypeOK, events, decoder
<1>3. CASE HandleInterrupt
  <2>1. queue' \in Seq(Event) /\ Len(queue') < SIZE /\ last' \in Event \cup {NoEvent}
    BY <1>3, HandlerPushes, PushTyped DEF events, TypeOK
  <2> QED
    BY <1>3, <2>1, DecoderTyped DEF TypeOK
<1>4. CASE Read
  <2>1. CASE Q!Pop
    <3>1. Head(queue) \in Event /\ Tail(queue) \in Seq(Event) /\ Len(Tail(queue)) = Len(queue) - 1
      BY <2>1 DEF Q!Pop, TypeOK
    <3> QED
      BY <1>4, <2>1, <3>1, KeysAssumption DEF Read, Q!Pop, TypeOK, decoder
  <2>2. CASE Q!PopNone
    BY <1>4, <2>2 DEF Read, Q!PopNone, TypeOK, decoder
  <2> QED
    BY <1>4, <2>1, <2>2 DEF Read
<1>5. CASE UNCHANGED vars
  BY <1>5 DEF vars, events, decoder, TypeOK
<1> QED
  BY <1>1, <1>2, <1>3, <1>4, <1>5 DEF Next

LEMMA TypedInit == Init => TypeOK
<1> SUFFICES ASSUME Init PROVE TypeOK
  OBVIOUS
<1>1. queue = << >> /\ last = NoEvent
  BY DEF Init, Q!Init
<1>2. << >> \in Seq(Event) /\ Len(<< >>) = 0
  OBVIOUS
<1>3. queue \in Seq(Event) /\ Len(queue) < SIZE
  BY <1>1, <1>2, KeysAssumption
<1>4. {shift_state, caps_state, extended} \subseteq BOOLEAN
  BY DEF Init
<1> QED
  BY <1>1, <1>3, <1>4 DEF TypeOK

-----------------------------------------------------------------------------
LEMMA TwoCodes ==
  ASSUME NEW a, NEW b, NEW c, NEW d
  PROVE  <<a, b>> \o <<c, d>> = <<a, b, c, d>>
<1> DEFINE S == {a, b, c, d}
<1>1. <<a, b>> \in Seq(S) /\ <<c, d>> \in Seq(S) /\ <<a, b, c, d>> \in Seq(S)
  OBVIOUS
<1> HIDE DEF S
<1> DEFINE t == <<a, b>> \o <<c, d>>
           u == <<a, b, c, d>>
<1>2. t \in Seq(S) /\ Len(t) = 4 /\ u \in Seq(S) /\ Len(u) = 4
  BY <1>1
<1>3. \A i \in 1 .. 4 : t[i] = u[i]
  <2>1. t[1] = a /\ t[2] = b
    BY <1>1
  <2>2. t[3] = c /\ t[4] = d
    BY <1>1
  <2> QED
    BY <2>1, <2>2
<1> HIDE DEF t, u
<1>4. t = u
  BY <1>2, <1>3
<1> QED
  BY <1>4 DEF t, u

(* The codes a keystroke is made of.                                       *)
LEMMA PressWire ==
  ASSUME TypeOK, locked \in BOOLEAN, WireInv, Press
  PROVE  WireInv' /\ locked' \in BOOLEAN
<1>1. wire = << >> /\ ~extended /\ Sound /\ Agree
  BY DEF Press, WireInv
<1>2. UNCHANGED <<shift_state, caps_state, extended>> /\ pushed' = << >>
  BY DEF Press, decoder
<1>3. ASSUME held \subseteq held' PROVE Sound'
  BY <1>1, <1>2, <1>3 DEF Sound, HeldShift
<1>4. ASSUME NEW k \in PlainKey, Down(k, <<Make(k)>>)
      PROVE  WireInv' /\ locked' \in BOOLEAN
  <2>1. Sound' /\ (k \in Shift => HeldShift' # {})
    BY <1>3, <1>4 DEF HeldShift, Down
  <2>2. Make(k) # E0 /\ Make(k).key = k /\ ~Make(k).brk
    BY OneClass DEF Make, E0, PlainKey
  <2>3. Plain(Make(k))'
    BY <2>1, <2>2 DEF Plain
  <2>4. /\ shifting' = IF k \in Shift THEN shifting \cup {k} ELSE shifting
        /\ locked' = IF k = "CAPS" THEN ~locked ELSE locked
        /\ meant' = Meaning(k)
    BY <1>4 DEF Down
  <2>5. meant' = Meaning(k)'
    <3>1. CASE k \in Shift \cup {"CAPS"}
      BY <2>4, <3>1, MeaningOf, OneClass DEF Meaning
    <3>2. CASE k \notin Shift \cup {"CAPS"}
      BY <2>4, <3>2 DEF Meaning, Shifted
    <3> QED
      BY <3>1, <3>2
  <2>6. IF k \in Shift THEN shifting' # {} ELSE shift_state' <=> shifting' # {}
    BY <1>1, <1>2, <2>4 DEF Agree
  <2>7. IF k = "CAPS" THEN caps_state' <=> ~locked' ELSE caps_state' <=> locked'
    BY <1>1, <1>2, <2>4 DEF Agree
  <2>8. Due(Make(k))'
    BY <1>2, <2>2, <2>5, <2>6, <2>7 DEF Due, MakeDue
  <2>9. wire' = <<Make(k)>> /\ locked' \in BOOLEAN
    BY <1>4 DEF Down
  <2> QED
    BY <1>1, <1>2, <2>3, <2>8, <2>9 DEF WireInv
<1>5. ASSUME NEW k, k \notin Shift, k # "CAPS", NEW codes, Down(k, codes)
      PROVE  Sound' /\ Agree' /\ locked' \in BOOLEAN /\ wire' = codes /\ meant' = Meaning(k)
  BY <1>1, <1>2, <1>3, <1>5 DEF Down, Agree
<1>6. ASSUME NEW g \in Grey, Down(g, Fake(Break) \o <<E0, Make(GreyCode[g])>>)
      PROVE  WireInv' /\ locked' \in BOOLEAN
  <2>1. g \notin Shift /\ g # "CAPS" /\ GreyCode[g] \in Nav
    BY OneClass, KeysAssumption
  <2>2. /\ Sound' /\ Agree' /\ locked' \in BOOLEAN
        /\ wire' = Fake(Break) \o <<E0, Make(GreyCode[g])>> /\ meant' = Meaning(g)
    BY <1>5, <1>6, <2>1
  <2>3. Make(GreyCode[g]) # E0 /\ meant' = Gives(Make(GreyCode[g]))
    BY <2>1, <2>2, OneClass, MeaningOf DEF Make, E0, Gives
  <2>4. Rest(Make(GreyCode[g]))'
    BY <1>2, <2>2, <2>3 DEF Rest, Gives
  <2>5. CASE HeldShift = {}
    <3>1. wire' = <<E0, Make(GreyCode[g])>>
      BY <2>2, <2>5 DEF Fake
    <3> QED
      BY <1>1, <1>2, <2>2, <2>4, <3>1 DEF WireInv
  <2>6. CASE HeldShift # {}
    <3> DEFINE s == CHOOSE x \in HeldShift : TRUE
    <3>1. s \in Shift
      BY <2>6 DEF HeldShift
    <3>2. Fake(Break) = <<E0, Break(s)>>
      BY <2>6 DEF Fake
    <3> HIDE DEF s
    <3>3. wire' = <<E0, Break(s), E0, Make(GreyCode[g])>>
      BY <2>2, <3>2, TwoCodes
    <3>4. Mute(Break(s))
      BY DEF Break, E0, Mute, Gives
    <3> QED
      BY <1>1, <1>2, <2>2, <2>4, <3>3, <3>4 DEF WireInv
  <2> QED
    BY <2>5, <2>6
<1>7. ASSUME Down("PRTSC", IF HeldShift = {} THEN <<E0, Make("LSHIFT"), E0, Make("PRTSC")>>
                           ELSE <<E0, Make("PRTSC")>>)
      PROVE  WireInv' /\ locked' \in BOOLEAN
  <2>1. "PRTSC" \notin Shift /\ "PRTSC" # "CAPS"
    BY OneClass
  <2>2. /\ Sound' /\ Agree' /\ locked' \in BOOLEAN /\ meant' = << >>
        /\ wire' = IF HeldShift = {} THEN <<E0, Make("LSHIFT"), E0, Make("PRTSC")>>
                   ELSE <<E0, Make("PRTSC")>>
    BY <1>5, <1>7, <2>1, MeaningOf
  <2>3. Mute(Make("LSHIFT")) /\ Mute(Make("PRTSC"))
    BY OneClass DEF Mute, Make, E0, Gives, Shift
  <2>4. Rest(Make("PRTSC"))'
    BY <1>2, <2>2, <2>3 DEF Rest, Gives, Mute
  <2> QED
    BY <1>1, <1>2, <2>2, <2>3, <2>4 DEF WireInv
<1> QED
  BY <1>4, <1>6, <1>7 DEF Press, PlainKey

LEMMA ReleaseWire ==
  ASSUME WireInv, NEW k \in held, Release(k)
  PROVE  WireInv'
<1>1. wire = << >> /\ ~extended /\ Sound /\ Agree
  BY DEF Release, WireInv
<1>2. /\ UNCHANGED <<shift_state, caps_state, extended, locked>> /\ held' = held \ {k}
      /\ meant' = << >> /\ pushed' = << >>
      /\ shifting' = IF k \in Shift THEN {} ELSE shifting
  BY DEF Release, decoder
<1>3. k \notin Shift => HeldShift' = HeldShift /\ Sound' /\ Agree'
  BY <1>1, <1>2 DEF Sound, HeldShift, Agree
<1>4. CASE k = "PRTSC"
  <2>1. wire' = <<E0, Break(k), E0, Break("LSHIFT")>>
    BY <1>4 DEF Release
  <2>2. Sound' /\ Agree' /\ Mute(Break(k)) /\ Mute(Break("LSHIFT"))
    BY <1>3, <1>4, OneClass DEF Break, E0, Mute, Gives
  <2>3. Rest(Break("LSHIFT"))'
    BY <1>2, <2>2 DEF Rest, Mute, Gives
  <2> QED
    BY <1>1, <1>2, <2>1, <2>2, <2>3 DEF WireInv
<1>5. CASE k # "PRTSC" /\ k \in Grey
  <2>1. wire' = <<E0, Break(GreyCode[k])>> \o Fake(Make)
    BY <1>5 DEF Release
  <2>2. Sound' /\ Agree' /\ Mute(Break(GreyCode[k]))
    BY <1>3, <1>5, OneClass DEF Break, E0, Mute, Gives
  <2>3. CASE HeldShift = {}
    <3>1. wire' = <<E0, Break(GreyCode[k])>>
      BY <2>1, <2>3 DEF Fake
    <3>2. Rest(Break(GreyCode[k]))'
      BY <1>2, <2>2 DEF Rest, Mute, Gives
    <3> QED
      BY <1>1, <1>2, <3>1, <3>2 DEF WireInv
  <2>4. CASE HeldShift # {}
    <3>1. PICK s \in Shift : Fake(Make) = <<E0, Make(s)>>
      BY <2>4 DEF Fake, HeldShift
    <3>2. wire' = <<E0, Break(GreyCode[k]), E0, Make(s)>>
      BY <2>1, <3>1, TwoCodes
    <3>3. Make(s).key = s /\ s \notin Nav /\ s # "E0"
      BY OneClass DEF Make
    <3>4. Make(s) # E0 /\ Make(s).key \notin Nav
      BY <3>3 DEF E0
    <3>5. Mute(Make(s))
      BY <3>4 DEF Mute, Gives
    <3>6. Rest(Make(s))'
      BY <1>2, <2>2, <3>5 DEF Rest, Mute, Gives
    <3> QED
      BY <1>1, <1>2, <2>2, <3>2, <3>6 DEF WireInv
  <2> QED
    BY <2>3, <2>4
<1>6. CASE k # "PRTSC" /\ k \notin Grey
  <2>1. wire' = <<Break(k)>>
    BY <1>6 DEF Release
  <2>2. Break(k) # E0 /\ Break(k).key = k /\ Break(k).brk
    BY DEF Break, E0
  <2>3. Plain(Break(k))'
    BY <1>1, <1>2, <1>3, <2>2 DEF Plain, Sound
  <2>4. Due(Break(k))'
    BY <1>1, <1>2, <2>2 DEF Due, BreakDue, Agree
  <2> QED
    BY <1>1, <1>2, <2>1, <2>3, <2>4 DEF WireInv
<1> QED
  BY <1>4, <1>5, <1>6

(* A byte that is due, in a decoder that has seen no prefix, does what it  *)
(* stands for.                                                             *)
LEMMA HandlePlain ==
  ASSUME TypeOK, locked \in BOOLEAN, HandleInterrupt, NEW b, b = Head(wire),
         ~extended, Plain(b), Due(b)
  PROVE  ~extended' /\ Sound' /\ Agree' /\ pushed' = meant'
<1>1. HeldShift' = HeldShift /\ held' = held /\ UNCHANGED <<shifting, locked, meant>>
  BY DEF HandleInterrupt, HeldShift, typist
<1>2. BreakByte(b) \/ ModifierByte(b) \/ KeyByte(b)
  BY DEF Plain, HandleInterrupt, PrefixByte, ExtendedByte
<1>3. CASE BreakByte(b)
  <2>1. /\ b.brk /\ ~extended' /\ pushed' = pushed /\ caps_state' = caps_state
        /\ shift_state' = (shift_state /\ b.key \notin Shift)
    BY <1>3 DEF BreakByte, PushNothing
  <2>2. Sound'
    BY <1>1, <2>1 DEF Plain, Sound
  <2>3. BreakDue(b) /\ pushed = << >>
    BY <2>1 DEF Due
  <2> QED
    BY <1>1, <2>1, <2>2, <2>3 DEF BreakDue, Agree
<1>4. CASE ModifierByte(b)
  <2>1. \A k : Make(k).key = k /\ ~Make(k).brk
    BY DEF Make
  <2>2. /\ ~extended' /\ pushed' = pushed /\ ~b.brk
        /\ \/ b.key \in Shift /\ shift_state' = TRUE /\ caps_state' = caps_state
           \/ b.key = "CAPS" /\ caps_state' = ~caps_state /\ shift_state' = shift_state
    BY <1>4, <2>1 DEF ModifierByte, PushNothing
  <2>3. MakeDue(b) /\ pushed = << >>
    BY <2>2 DEF Due
  <2>4. "CAPS" \notin Shift
    BY DEF Shift
  <2>5. Sound'
    BY <1>1, <2>2, <2>4 DEF Plain, Sound
  <2>6. meant = << >>
    BY <2>2, <2>3, MeaningOf DEF MakeDue
  <2>7. Agree'
    BY <1>1, <2>2, <2>3, <2>4 DEF MakeDue, Agree, TypeOK
  <2> QED
    BY <1>1, <2>2, <2>3, <2>5, <2>6, <2>7
<1>5. CASE KeyByte(b)
  <2>1. ~b.brk /\ UNCHANGED <<shift_state, caps_state, extended>>
    BY <1>5 DEF KeyByte, decoder
  <2>2. MakeDue(b) /\ pushed = << >>
    BY <2>1 DEF Due
  <2>3. b.key \in Nav \cup Editing \cup Letter \cup Symbol \cup Silent
    BY <1>5 DEF KeyByte
  <2>4. b.key \notin Shift /\ b.key # "CAPS"
    BY <2>3, OneClass
  <2>5. Sound' /\ Agree' /\ Agree
    BY <1>1, <2>1, <2>2, <2>4 DEF Plain, Sound, MakeDue, Agree
  <2>6. \A e : Append(<< >>, e) = <<e>>
    OBVIOUS
  <2>7. pushed' = Meaning(b.key)
    <3>1. CASE b.key \in Nav \cup Editing
      <4>1. PushEvent(b.key, NUL)
        BY <1>5, <3>1, OneClass DEF KeyByte
      <4> QED
        BY <2>2, <2>6, <3>1, <4>1, MeaningOf DEF PushEvent
    <3>2. CASE b.key \in Letter \cup Symbol
      <4>1. PushEvent("CHAR", CharOf(b.key))
        BY <1>5, <3>2, OneClass DEF KeyByte
      <4>2. CharOf(b.key) = <<b.key, Shifted(b.key)>>
        <5>1. shift_state = (shifting # {}) /\ caps_state = locked
          BY <2>5 DEF Agree, TypeOK
        <5> QED
          BY <5>1 DEF CharOf, Shifted
      <4> QED
        BY <2>2, <2>6, <3>2, <4>1, <4>2, MeaningOf DEF PushEvent
    <3>3. CASE b.key \in Silent
      <4>1. PushNothing
        BY <1>5, <3>3, OneClass DEF KeyByte
      <4> QED
        BY <2>2, <3>3, <4>1, MeaningOf DEF PushNothing
    <3> QED
      BY <2>3, <3>1, <3>2, <3>3
  <2> QED
    BY <1>1, <2>1, <2>2, <2>5, <2>7, OneClass DEF MakeDue, Plain
<1> QED
  BY <1>2, <1>3, <1>4, <1>5

(* The decoder takes one byte off the wire.                                *)
LEMMA HandleWire ==
  ASSUME TypeOK, locked \in BOOLEAN, WireInv, HandleInterrupt
  PROVE  WireInv' /\ locked' \in BOOLEAN
<1> DEFINE b == Head(wire)
<1>1. /\ wire # << >> /\ wire' = Tail(wire) /\ held' = held /\ HeldShift' = HeldShift
      /\ UNCHANGED <<shifting, locked, meant>>
  BY DEF HandleInterrupt, HeldShift, typist
<1>2. b = E0 /\ ~extended => extended' /\ UNCHANGED <<shift_state, caps_state, pushed>>
  <2>1. E0.key \notin Nav \cup Editing \cup Shift \cup Letter \cup Symbol \cup Silent /\ ~E0.brk
    BY OneClass DEF E0
  <2>2. \A s : Make(s).key = s
    BY DEF Make
  <2>3. E0 # Make("CAPS")
    BY DEF E0, Make
  <2> QED
    BY <2>1, <2>2, <2>3
    DEF HandleInterrupt, PrefixByte, ExtendedByte, BreakByte, ModifierByte, KeyByte, PushNothing
<1>3. b # E0 /\ extended /\ pushed = << >>
        => ~extended' /\ UNCHANGED <<shift_state, caps_state>> /\ pushed' = Gives(b)
  <2> SUFFICES ASSUME b # E0, extended, pushed = << >>
               PROVE  ~extended' /\ UNCHANGED <<shift_state, caps_state>> /\ pushed' = Gives(b)
    OBVIOUS
  <2>1. ExtendedByte(b)
    BY DEF HandleInterrupt, PrefixByte, BreakByte, ModifierByte, KeyByte
  <2>2. \A e : Append(<< >>, e) = <<e>>
    OBVIOUS
  <2> QED
    BY <2>1, <2>2 DEF ExtendedByte, PushEvent, PushNothing, Gives
<1>4. ASSUME UNCHANGED <<shift_state, caps_state>>
      PROVE  (Sound => Sound') /\ (Agree => Agree')
  BY <1>1, <1>4 DEF Sound, Agree
<1>5. CASE \E c : wire = <<c>> /\ ~extended /\ Plain(c) /\ Due(c)
  BY <1>1, <1>5, HandlePlain DEF WireInv
<1>6. CASE \E c : wire = <<c>> /\ extended /\ Rest(c)
  BY <1>1, <1>3, <1>4, <1>6 DEF WireInv, Rest
<1>7. CASE \E c : wire = <<E0, c>> /\ ~extended /\ Rest(c)
  BY <1>1, <1>2, <1>4, <1>7 DEF WireInv, Rest
<1>8. CASE \E c, d : wire = <<c, E0, d>> /\ extended /\ Mute(c) /\ Rest(d)
  BY <1>1, <1>3, <1>4, <1>8 DEF WireInv, Rest, Mute
<1>9. CASE \E c, d : wire = <<E0, c, E0, d>> /\ ~extended /\ Mute(c) /\ Rest(d)
  BY <1>1, <1>2, <1>4, <1>9 DEF WireInv, Rest, Mute
<1> QED
  BY <1>1, <1>5, <1>6, <1>7, <1>8, <1>9 DEF WireInv

LEMMA IInvStep == IInv /\ [Next]_vars => IInv'
<1> SUFFICES ASSUME IInv, [Next]_vars PROVE WireInv' /\ locked' \in BOOLEAN
  BY TypedStep DEF IInv
<1>1. CASE Read \/ UNCHANGED vars
  <2>1. UNCHANGED <<decoder, held, wire, typist, pushed>>
    BY <1>1 DEF Read, vars
  <2> QED
    BY <2>1 DEF IInv, decoder, typist, WireInv, Plain, Sound, HeldShift, Agree, Due, MakeDue,
      BreakDue, Rest, Mute, Gives, Meaning, Shifted
<1>2. ASSUME NEW k \in held, Release(k) PROVE WireInv' /\ locked' \in BOOLEAN
  BY <1>2, ReleaseWire DEF IInv, Release
<1> QED
  BY <1>1, <1>2, PressWire, HandleWire DEF IInv, Next

LEMMA Invariance == Spec => []IInv
<1>1. Init => WireInv /\ locked \in BOOLEAN
  BY DEF Init, WireInv, Sound, Agree
<1> QED
  BY <1>1, TypedInit, IInvStep, PTL DEF Spec, IInv

(* Whatever the keys and whenever they go down and up, the fake Shift      *)
(* codes of the grey keys included: between two keystrokes the decoder     *)
(* waits for no second byte and believes in no Shift key that is up.       *)
THEOREM DecoderStaysInStep == Spec => []DecoderInStep
<1>1. IInv => DecoderInStep
  BY DEF IInv, WireInv, DecoderInStep, Sound
<1> QED
  BY <1>1, Invariance, PTL

(* For any keys: Shift is on exactly while a Shift key has been held since *)
(* either was last released, and CapsLock after an odd number of presses.  *)
THEOREM ModifiersAreTheTypists == Spec => []ModifiersHold
<1>1. IInv => ModifiersHold
  BY DEF IInv, WireInv, ModifiersHold, Agree
<1> QED
  BY <1>1, Invariance, PTL

(* For any keys: when the last byte of a keystroke has been handled, what  *)
(* was pushed is the event the keystroke stands for, once, or nothing.     *)
THEOREM EachKeystrokeOnce == Spec => []KeystrokeGivesEvent
<1>1. IInv => KeystrokeGivesEvent
  BY DEF IInv, WireInv, KeystrokeGivesEvent
<1> QED
  BY <1>1, Invariance, PTL
=============================================================================
