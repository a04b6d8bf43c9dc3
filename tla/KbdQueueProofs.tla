--------------------------- MODULE KbdQueueProofs ---------------------------
(***************************************************************************)
(* Theorems about KbdQueue for every ring size and every set of events.    *)
(* TypeOK holds however the ring is called; the others while no interrupt  *)
(* inside a pop overruns the ring (~MayOverrun), pushes or not.            *)
(***************************************************************************)
EXTENDS KbdQueue, Sequences, TLAPS

(* The index arithmetic of push and pop: % SIZE over one lap. *)
LEMMA SuccDef ==
  \A i \in Slot : Succ(i) = IF i = SIZE - 1 THEN 0 ELSE i + 1
BY SizeAssumption DEF Slot, Succ

LEMMA SuccSlot == \A i \in Slot : Succ(i) \in Slot
BY SuccDef, SizeAssumption DEF Slot

(* Every step keeps the indices, the registers and the slots in range,     *)
(* and count positive inside a call.                                       *)
Typed == TypeOK /\ (pc # "idle" => count >= 1)

LEMMA TypedStep == Typed /\ [Next]_vars => Typed'
<1> SUFFICES ASSUME Typed, [Next]_vars PROVE Typed'
  OBVIOUS
<1> USE SizeAssumption, SuccSlot DEF Typed, TypeOK
<1>1. ASSUME NEW e \in Event, Interrupt(e) PROVE Typed'
  <2>1. e \in [type : Type, ch : Char \cup {NUL}]
    BY DEF Event, CharEvent, KeyEvent, Type
  <2>2. QED
    BY <1>1, <2>1 DEF Interrupt, Push, reader
<1>2. CASE GetEvent
  BY <1>2 DEF GetEvent, ring, Step
<1>3. CASE GetChar
  BY <1>3 DEF GetChar, ring, Step
<1>4. ASSUME NEW from \in Step, NEW to \in Step \ {"idle"},
             from # "idle", LoadHead(from, to)
      PROVE  Typed'
  BY <1>4 DEF LoadHead, ring, Step
<1>5. CASE FoundEmpty
  BY <1>5 DEF FoundEmpty, NoEvent, ring, Step, Type
<1>6. CASE FoundEvent
  BY <1>6 DEF FoundEvent, ring, Step
<1>7. CASE LoadType
  BY <1>7 DEF LoadType, ring, Step
<1>8. CASE LoadChar
  BY <1>8 DEF LoadChar, ring, Step
<1>9. CASE Advance
  BY <1>9 DEF Advance, Step
<1>10. CASE UNCHANGED vars
  BY <1>10 DEF vars, ring, reader
<1>11. QED
  BY <1>1, <1>2, <1>3, <1>4, <1>5, <1>6, <1>7, <1>8, <1>9, <1>10
  DEF Next, Reader, Pop, Step

LEMMA TypedInit == Init => Typed
BY SizeAssumption DEF Init, Typed, TypeOK, Slot, Step, Type, NoEvent

(* For any interleaving of the interrupt and the reader, overrun or not,   *)
(* no index leaves the ring.                                               *)
THEOREM TypeCorrect == Spec => []TypeOK
<1>1. Typed => TypeOK
  BY DEF Typed
<1>2. QED
  BY <1>1, TypedInit, TypedStep, PTL DEF Spec

-----------------------------------------------------------------------------
(***************************************************************************)
(* Reads without an overrun.  ReaderInv is what makes them atomic: a     *)
(* reader inside a pop holds the index of a live slot, and a push, which   *)
(* writes the slot at queue_tail, leaves every live slot but the oldest.   *)
(***************************************************************************)
Atomic == ~MayOverrun /\ Typed /\ ReaderInv

LEMMA ReaderInvPush ==
  ASSUME Atomic, NEW e \in Event, Interrupt(e)
  PROVE  ReaderInv'
<1> USE SizeAssumption, SuccDef DEF Atomic, Typed, TypeOK, Interrupt, Push, reader
<1>1. \A i \in Live' : event_queue'[i] \in Event
  <2>1. \A i \in Live' : i \in Live \/ i = queue_tail
    BY DEF Live, Slot, Full
  <2>2. queue_tail \in Slot /\ Live' \subseteq Slot
    BY DEF Live
  <2>3. QED
    BY <2>1, <2>2 DEF ReaderInv
<1>2. ASSUME InsidePop PROVE ~Full
  BY <1>2, EnvAssumption
<1>3. ASSUME InsidePop, ~Empty
      PROVE  ~Empty' /\ event_queue'[queue_head'] = event_queue[queue_head]
  BY <1>2, <1>3 DEF Empty, Full, Slot
<1>4. masked => pc = "idle"
  BY DEF Interruptible
<1>5. QED
  BY <1>1, <1>2, <1>3, <1>4 DEF ReaderInv, InsidePop

LEMMA ReaderInvAdvance ==
  ASSUME Atomic, Advance
  PROVE  ReaderInv'
<1> USE SizeAssumption, SuccDef DEF Atomic, Typed, TypeOK, Advance, ReaderInv
<1>1. queue_head \in Live
  BY DEF Live, Empty, Slot
<1>2. Live' \subseteq Live
  BY DEF Live, Empty, Slot
<1>3. last' = event_queue[queue_head]
  BY <1>1 DEF Slot
<1>4. last' \in Event
  BY <1>1, <1>3
<1>5. ~Empty /\ queue_head' = Succ(queue_head) /\ queue_tail' = queue_tail
  OBVIOUS
<1>6. Length' = Length - 1 /\ Length \in Nat
  <2>1. queue_head \in Slot /\ queue_tail \in Slot /\ queue_head # queue_tail
    BY <1>5 DEF Empty
  <2> HIDE DEF Atomic, Typed, TypeOK, Advance, ReaderInv
  <2>2. QED
    BY <1>5, <2>1 DEF Length, Distance, Slot
<1>7. QED
  BY <1>2, <1>4, <1>6

LEMMA ReaderInvStep == Atomic /\ [Next]_vars => ReaderInv'
<1> SUFFICES ASSUME Atomic, [Next]_vars PROVE ReaderInv'
  OBVIOUS
<1> USE SizeAssumption DEF Atomic, Typed, TypeOK
<1>1. ASSUME NEW e \in Event, Interrupt(e) PROVE ReaderInv'
  BY <1>1, ReaderInvPush
<1>2. CASE GetEvent
  BY <1>2 DEF GetEvent, ring, ReaderInv, Live, Empty, Length
<1>3. CASE GetChar
  <2>1. Length < SIZE
    BY DEF Length, Distance, Slot
  <2>2. QED
    BY <1>3, <2>1 DEF GetChar, ring, ReaderInv, Live, Empty, Length
<1>4. CASE LoadHead("check", "compare")
  BY <1>4 DEF LoadHead, ring, ReaderInv, Live, Empty, Length
<1>5. CASE LoadHead("type_ix", "type")
  BY <1>5 DEF LoadHead, ring, ReaderInv, Live, Empty, Length
<1>6. CASE LoadHead("ch_ix", "ch")
  BY <1>6 DEF LoadHead, ring, ReaderInv, Live, Empty, Length
<1>7. CASE LoadHead("adv_ix", "adv")
  BY <1>7 DEF LoadHead, ring, ReaderInv, Live, Empty, Length
<1>8. CASE FoundEmpty
  BY <1>8 DEF FoundEmpty, ring, ReaderInv, Live, Empty, Length
<1>9. CASE FoundEvent
  BY <1>9 DEF FoundEvent, ring, ReaderInv, Live, Empty, Length
<1>10. CASE LoadType
  BY <1>10 DEF LoadType, ring, ReaderInv, Live, Empty, Length
<1>11. CASE LoadChar
  BY <1>11 DEF LoadChar, ring, ReaderInv, Live, Empty, Length
<1>12. CASE Advance
  BY <1>12, ReaderInvAdvance
<1>13. CASE UNCHANGED vars
  BY <1>13 DEF vars, ring, reader, ReaderInv, Live, Empty, Length
<1>14. QED
  BY <1>1, <1>2, <1>3, <1>4, <1>5, <1>6, <1>7, <1>8, <1>9, <1>10, <1>11,
     <1>12, <1>13
  DEF Next, Reader, Pop

LEMMA AtomicStep == Atomic /\ [Next]_vars => Atomic'
BY TypedStep, ReaderInvStep DEF Atomic

LEMMA AtomicInit == ~MayOverrun /\ Init => Atomic
<1>1. Init => ReaderInv
  BY SizeAssumption DEF Init, ReaderInv, Live, Slot
<1>2. QED
  BY <1>1, TypedInit DEF Atomic

(* No push inside a pop takes from a reader what it is reading:            *)
(* between two accesses of a pop its registers are the slot at queue_head, *)
(* that slot is live, and what is live holds events that were pushed.      *)
THEOREM ReadsAreAtomic == ~MayOverrun /\ Spec => []ReaderInv
<1>1. Atomic => ReaderInv
  BY DEF Atomic
<1>2. QED
  BY <1>1, AtomicInit, AtomicStep, PTL DEF Spec

(* While no interrupt overruns the ring inside a pop, KBD_EV_NONE means    *)
(* that it is empty, whatever is pushed between two accesses.              *)
THEOREM NoneIsTrue == ~MayOverrun /\ Spec => NoneMeansEmpty
<1>1. Atomic /\ [Next]_vars => [FoundEmpty => Empty]_vars
  BY DEF Atomic, ReaderInv, FoundEmpty, Empty
<1>2. QED
  BY <1>1, AtomicInit, AtomicStep, PTL DEF Spec, NoneMeansEmpty

-----------------------------------------------------------------------------
(***************************************************************************)
(* The ring implements DropOldestQueue.  First what Items() is, by slots:  *)
(* one lap of % SIZE relates a position in the queue to its slot.          *)
(***************************************************************************)
LEMMA ModLap ==
  \A x \in 0 .. 2 * SIZE - 1 : x % SIZE = IF x < SIZE THEN x ELSE x - SIZE
BY SizeAssumption

LEMMA AtDef ==
  ASSUME NEW h \in Slot, NEW i \in 1 .. SIZE
  PROVE  At(h, i) = IF h + i - 1 < SIZE THEN h + i - 1 ELSE h + i - 1 - SIZE
<1> DEFINE x == h + i - 1
<1>1. x \in 0 .. 2 * SIZE - 1
  BY SizeAssumption DEF Slot
<1>2. x % SIZE = IF x < SIZE THEN x ELSE x - SIZE
  <2> HIDE DEF x
  <2> QED BY <1>1, ModLap
<1>3. At(h, i) = x % SIZE
  BY DEF At
<1>4. x = h + i - 1
  OBVIOUS
<1> HIDE DEF x
<1>5. QED
  BY <1>1, <1>2, <1>3, <1>4, SizeAssumption DEF Slot

LEMMA AtSlot ==
  ASSUME NEW h \in Slot, NEW i \in 1 .. SIZE
  PROVE  At(h, i) \in Slot
BY AtDef, SizeAssumption DEF Slot

SlotValue == [type : Type, ch : Char \cup {NUL}]

LEMMA ItemsType ==
  ASSUME NEW q \in [Slot -> SlotValue], NEW h \in Slot, NEW t \in Slot
  PROVE  /\ Distance(h, t) \in 0 .. SIZE - 1
         /\ Items(q, h, t) \in Seq(SlotValue)
         /\ Len(Items(q, h, t)) = Distance(h, t)
         /\ \A i \in 1 .. Distance(h, t) :
              At(h, i) \in Slot /\ Items(q, h, t)[i] = q[At(h, i)]
<1> DEFINE n == Distance(h, t)
           s == Items(q, h, t)
<1>1. n \in 0 .. SIZE - 1
  BY SizeAssumption DEF Distance, Slot
<1>2. \A i \in 1 .. n : At(h, i) \in Slot
  <2> TAKE i \in 1 .. n
  <2>1. i \in 1 .. SIZE
    BY <1>1, SizeAssumption
  <2>2. QED
    BY <2>1, AtSlot
<1>3. s = [i \in 1 .. n |-> q[At(h, i)]]
  BY DEF Items
<1>4. \A i \in 1 .. n : q[At(h, i)] \in SlotValue
  BY <1>2
<1> HIDE DEF n, s
<1>5. s \in [1 .. n -> SlotValue]
  BY <1>3, <1>4
<1>6. s \in Seq(SlotValue) /\ Len(s) = n
  BY <1>1, <1>5
<1>7. QED
  BY <1>1, <1>2, <1>3, <1>6 DEF n, s

LEMMA ItemsAppend ==
  ASSUME NEW q \in [Slot -> SlotValue], NEW h \in Slot, NEW t \in Slot,
         NEW e \in SlotValue, Succ(t) # h
  PROVE  Items([q EXCEPT ![t] = e], h, Succ(t)) = Append(Items(q, h, t), e)
<1> DEFINE n == Distance(h, t)
           p == [q EXCEPT ![t] = e]
           u == Succ(t)
<1>0. p \in [Slot -> SlotValue] /\ u \in Slot
  BY SuccSlot
<1>1. n \in 0 .. SIZE - 2 /\ Distance(h, u) = n + 1
  <2>1. CASE t = SIZE - 1
    BY <2>1, SuccDef, SizeAssumption DEF Distance, Slot
  <2>2. CASE t # SIZE - 1
    <3>1. u = t + 1 /\ u # h
      BY <2>2, SuccDef
    <3> HIDE DEF u
    <3>2. QED
      BY <3>1, <2>2, <1>0, SizeAssumption DEF Distance, Slot
  <2>3. QED
    BY <2>1, <2>2
<1>2. At(h, n + 1) = t
  BY <1>1, AtDef, SizeAssumption DEF Distance, Slot
<1>3. \A i \in 1 .. n : At(h, i) # t
  <2> TAKE i \in 1 .. n
  <2>1. i \in 1 .. SIZE
    BY <1>1, SizeAssumption
  <2>2. At(h, i) = IF h + i - 1 < SIZE THEN h + i - 1 ELSE h + i - 1 - SIZE
    BY <2>1, AtDef
  <2>3. QED
    BY <2>1, <2>2, <1>1, SizeAssumption DEF Distance, Slot
<1>4. \A i \in 1 .. n + 1 : p[At(h, i)] = IF i = n + 1 THEN e ELSE q[At(h, i)]
  BY <1>1, <1>2, <1>3, ItemsType
<1> DEFINE s == Items(q, h, t)
           r == Items(p, h, u)
<1>5. r \in Seq(SlotValue) /\ Len(r) = n + 1 /\ \A i \in 1 .. n + 1 : r[i] = p[At(h, i)]
  <2> HIDE DEF p, u, n
  <2>1. /\ r \in Seq(SlotValue)
        /\ Len(r) = Distance(h, u)
        /\ \A i \in 1 .. Distance(h, u) : r[i] = p[At(h, i)]
    BY <1>0, ItemsType
  <2>2. QED
    BY <1>1, <2>1
<1>6. s \in Seq(SlotValue) /\ Len(s) = n /\ \A i \in 1 .. n : s[i] = q[At(h, i)]
  BY ItemsType
<1> HIDE DEF n, p, u, s, r
<1>7. \A i \in 1 .. n + 1 : r[i] = Append(s, e)[i]
  BY <1>1, <1>4, <1>5, <1>6
<1>8. Append(s, e) \in Seq(SlotValue) /\ Len(Append(s, e)) = n + 1
  BY <1>6
<1>9. r = Append(s, e)
  BY <1>1, <1>5, <1>7, <1>8
<1>10. QED
  BY <1>9 DEF p, u, s, r

LEMMA ItemsTail ==
  ASSUME NEW q \in [Slot -> SlotValue], NEW h \in Slot, NEW t \in Slot, h # t
  PROVE  /\ Items(q, h, t) # << >>
         /\ Head(Items(q, h, t)) = q[h]
         /\ Items(q, Succ(h), t) = Tail(Items(q, h, t))
<1> DEFINE n == Distance(h, t)
           g == Succ(h)
<1>0. g \in Slot
  BY SuccSlot
<1>1. n \in 1 .. SIZE - 1 /\ Distance(g, t) = n - 1
  BY SuccDef, SizeAssumption DEF Distance, Slot
<1>2. \A i \in 1 .. n - 1 : At(g, i) = At(h, i + 1)
  <2> TAKE i \in 1 .. n - 1
  <2>1. i \in 1 .. SIZE /\ i + 1 \in 1 .. SIZE
    BY <1>1, SizeAssumption
  <2>2. At(g, i) = IF g + i - 1 < SIZE THEN g + i - 1 ELSE g + i - 1 - SIZE
    BY <2>1, <1>0, AtDef
  <2>3. At(h, i + 1) = IF h + i < SIZE THEN h + i ELSE h + i - SIZE
    BY <2>1, AtDef, SizeAssumption DEF Slot
  <2>4. g = IF h = SIZE - 1 THEN 0 ELSE h + 1
    BY SuccDef
  <2> HIDE DEF g
  <2>5. QED
    BY <2>1, <2>2, <2>3, <2>4, SizeAssumption DEF Slot
<1>3. At(h, 1) = h
  BY AtDef, SizeAssumption DEF Slot
<1> DEFINE s == Items(q, h, t)
           r == Items(q, g, t)
<1>4. r \in Seq(SlotValue) /\ Len(r) = n - 1 /\ \A i \in 1 .. n - 1 : r[i] = q[At(g, i)]
  <2> HIDE DEF n, g
  <2>1. /\ Items(q, g, t) \in Seq(SlotValue) /\ Len(Items(q, g, t)) = Distance(g, t)
        /\ \A i \in 1 .. Distance(g, t) : Items(q, g, t)[i] = q[At(g, i)]
    <3>1. q \in [Slot -> SlotValue] /\ g \in Slot /\ t \in Slot
      BY <1>0
    <3>2. QED
      BY ONLY <3>1, ItemsType
  <2>2. QED
    BY ONLY <1>1, <2>1
<1>5. s \in Seq(SlotValue) /\ Len(s) = n /\ \A i \in 1 .. n : s[i] = q[At(h, i)]
  BY ItemsType
<1> HIDE DEF n, g, s, r
<1>6. s # << >> /\ Head(s) = q[h]
  <2>1. s \in Seq(SlotValue) /\ Len(s) = n
    BY <1>5
  <2>2. 1 \in 1 .. n /\ n # 0
    BY <1>1
  <2>3. s[1] = q[h]
    BY <1>3, <1>5, <2>2
  <2>4. s # << >>
    BY <2>1, <2>2
  <2> QED
    BY <2>1, <2>3, <2>4
<1>7. Tail(s) \in Seq(SlotValue) /\ Len(Tail(s)) = n - 1
      /\ \A i \in 1 .. n - 1 : Tail(s)[i] = s[i + 1]
  BY <1>1, <1>5, <1>6
<1>8. \A i \in 1 .. n - 1 : r[i] = Tail(s)[i]
  BY <1>1, <1>2, <1>4, <1>5, <1>7
<1>9. r = Tail(s)
  BY <1>1, <1>4, <1>7, <1>8
<1>10. QED
  BY <1>6, <1>9 DEF g, s, r

LEMMA ContentsType ==
  ASSUME Typed
  PROVE  /\ Contents \in Seq(SlotValue)
         /\ Len(Contents) = Length
         /\ Length \in 0 .. SIZE - 1
         /\ Empty <=> Contents = << >>
         /\ Full <=> Length = SIZE - 1
<1>1. /\ event_queue \in [Slot -> SlotValue]
      /\ queue_head \in Slot
      /\ queue_tail \in Slot
  BY DEF Typed, TypeOK, SlotValue
<1>2. /\ Contents \in Seq(SlotValue)
      /\ Len(Contents) = Length
      /\ Length \in 0 .. SIZE - 1
  BY <1>1, ItemsType DEF Contents, Length
<1>3. Empty <=> Length = 0
  BY <1>1, SizeAssumption DEF Empty, Length, Distance, Slot
<1>4. Full <=> Length = SIZE - 1
  BY <1>1, SuccDef, SizeAssumption DEF Full, Length, Distance, Slot
<1>5. QED
  BY <1>2, <1>3, <1>4

LEMMA PushRefines ==
  ASSUME Typed, NEW e \in Event, Interrupt(e)
  PROVE  Fifo!Push(e)
<1>1. /\ event_queue \in [Slot -> SlotValue]
      /\ queue_head \in Slot
      /\ queue_tail \in Slot
      /\ e \in SlotValue
  BY DEF Typed, TypeOK, SlotValue, Event, CharEvent, KeyEvent, Type
<1>2. last' = last
  BY DEF Interrupt, reader
<1>3. CASE ~Full
  <2>1. Contents' = Append(Contents, e)
    BY <1>1, <1>3, ItemsAppend DEF Interrupt, Push, Contents, Full
  <2>2. Len(Contents) < SIZE - 1
    BY <1>3, ContentsType, SizeAssumption
  <2>3. QED
    BY <1>2, <2>1, <2>2 DEF Fifo!Push
<1>4. CASE Full
  <2>1. queue_head # queue_tail /\ Succ(queue_tail) # Succ(queue_head)
    BY <1>1, <1>4, SuccDef, SizeAssumption DEF Full, Slot
  <2>2. Items(event_queue, Succ(queue_head), queue_tail) = Tail(Contents)
    BY <1>1, <2>1, ItemsTail DEF Contents
  <2>3. Contents' = Append(Tail(Contents), e)
    <3>1. Contents' = Items([event_queue EXCEPT ![queue_tail] = e],
                            Succ(queue_head), Succ(queue_tail))
      BY <1>4 DEF Interrupt, Push, Contents
    <3>2. Succ(queue_head) \in Slot
      BY <1>1, SuccSlot
    <3>3. Items([event_queue EXCEPT ![queue_tail] = e],
                Succ(queue_head), Succ(queue_tail))
            = Append(Items(event_queue, Succ(queue_head), queue_tail), e)
      <4> HIDE DEF Full
      <4> QED BY <1>1, <2>1, <3>2, ItemsAppend
    <3>4. QED
      BY <2>2, <3>1, <3>3
  <2>4. ~(Len(Contents) < SIZE - 1)
    BY <1>4, ContentsType, SizeAssumption
  <2>5. QED
    BY <1>2, <2>3, <2>4 DEF Fifo!Push
<1>5. QED
  BY <1>3, <1>4

LEMMA AdvanceRefines ==
  ASSUME Atomic, Advance
  PROVE  Fifo!Pop
<1>1. /\ event_queue \in [Slot -> SlotValue]
      /\ queue_head \in Slot
      /\ queue_tail \in Slot
  BY DEF Atomic, Typed, TypeOK, SlotValue
<1>2. /\ queue_head # queue_tail
      /\ head_reg = queue_head
      /\ type_reg = event_queue[queue_head].type
      /\ ch_reg = event_queue[queue_head].ch
  BY DEF Atomic, ReaderInv, Advance, Empty
<1>3. last' = event_queue[queue_head]
  BY <1>1, <1>2 DEF Advance, SlotValue
<1>4. /\ Contents # << >>
      /\ Head(Contents) = event_queue[queue_head]
      /\ Contents' = Tail(Contents)
  BY <1>1, <1>2, ItemsTail DEF Contents, Advance
<1>5. QED
  BY <1>3, <1>4 DEF Fifo!Pop

LEMMA StepRefines == Atomic /\ [Next]_vars => [Fifo!Next]_(Fifo!vars)
<1> SUFFICES ASSUME Atomic, [Next]_vars PROVE [Fifo!Next]_(Fifo!vars)
  OBVIOUS
<1> DEFINE Same == Contents' = Contents /\ last' = last
<1>1. ASSUME NEW e \in Event, Interrupt(e) PROVE Fifo!Next
  BY <1>1, PushRefines DEF Atomic, Fifo!Next
<1>2. CASE Advance
  BY <1>2, AdvanceRefines DEF Fifo!Next
<1>3. CASE FoundEmpty
  <2>1. Empty
    BY <1>3 DEF Atomic, ReaderInv, FoundEmpty, Empty
  <2>2. Contents = << >>
    BY <2>1, ContentsType DEF Atomic
  <2>3. QED
    BY <1>3, <2>2 DEF FoundEmpty, ring, Contents, Fifo!PopNone, Fifo!Next
<1>4. ASSUME \/ GetEvent \/ GetChar \/ FoundEvent \/ LoadType \/ LoadChar
             \/ LoadHead("check", "compare") \/ LoadHead("type_ix", "type")
             \/ LoadHead("ch_ix", "ch") \/ LoadHead("adv_ix", "adv")
             \/ UNCHANGED vars
      PROVE  Same
  BY <1>4 DEF GetEvent, GetChar, FoundEvent, LoadType, LoadChar, LoadHead,
              ring, reader, vars, Contents
<1>5. Same => UNCHANGED Fifo!vars
  BY DEF Fifo!vars
<1>6. QED
  BY <1>1, <1>2, <1>3, <1>4, <1>5 DEF Next, Reader, Pop

LEMMA InitRefines == Init => Fifo!Init
<1> SUFFICES ASSUME Init PROVE Fifo!Init
  OBVIOUS
<1>1. Empty
  BY DEF Init, Empty
<1>2. Contents = << >>
  BY <1>1, TypedInit, ContentsType
<1>3. QED
  BY <1>2 DEF Init, Fifo!Init

(* While no interrupt overruns it inside a pop the ring of keyboard.c is a *)
(* drop-oldest FIFO of SIZE - 1 events, for every SIZE, with interrupts on *)
(* and off.                                                                *)
THEOREM RingRefinesQueue == ~MayOverrun /\ Spec => IsDropOldestQueue
<1>1. Spec => Init /\ [][Next]_vars
  BY DEF Spec
<1>2. QED
  BY <1>1, InitRefines, StepRefines, AtomicInit, AtomicStep, PTL
  DEF IsDropOldestQueue, Fifo!Spec

(* A keyboard_get_char() that interrupts cannot enter returns 0 only when  *)
(* no character is waiting: its SIZE pops are enough.                      *)
THEOREM GetCharComplete == ~MayOverrun /\ Spec => GetCharFindsChar
<1> DEFINE Gives == (masked /\ call = "char" /\ pc # "idle" /\ pc' = "idle" /\ last'.type # "CHAR")
                       => \A i \in 1 .. Length' : Contents'[i].type # "CHAR"
<1>2. Atomic /\ [Next]_vars => [Gives]_vars
  <2> SUFFICES ASSUME Atomic, Next, masked, call = "char", pc # "idle",
                      pc' = "idle", last'.type # "CHAR"
               PROVE  Length' = 0
    BY SizeAssumption
  <2>1. Length \in 0 .. SIZE - 1 /\ count \in Nat
    BY ContentsType DEF Atomic, Typed, TypeOK
  <2>2. ~Advance
    <3> SUFFICES ASSUME Advance PROVE FALSE
      OBVIOUS
    <3>1. type_reg # "CHAR" /\ ~(count > 1)
      BY DEF Advance
    <3>2. count > Length /\ ~Empty
      BY DEF Atomic, ReaderInv, Advance
    <3>3. Length # 0
      <4>1. queue_head \in Slot /\ queue_tail \in Slot /\ queue_head # queue_tail
        BY <3>2 DEF Empty, Atomic, Typed, TypeOK
      <4>2. QED
        BY <4>1, SizeAssumption DEF Length, Distance, Slot
    <3>4. QED
      BY <2>1, <3>1, <3>2, <3>3
  <2>3. FoundEmpty
    BY <2>2 DEF Next, Reader, Pop, Interrupt, Interruptible, GetEvent, GetChar,
                FoundEvent, LoadType, LoadChar, LoadHead
  <2>4. queue_head' = queue_tail' /\ queue_head' = queue_head
    BY <2>3 DEF FoundEmpty, Atomic, ReaderInv, ring
  <2>5. QED
    BY <2>4, SizeAssumption DEF Length, Distance, Atomic, Typed, TypeOK, Slot
<1>3. QED
  BY <1>2, AtomicInit, AtomicStep, PTL DEF Spec, GetCharFindsChar
=============================================================================
