----------------------------- MODULE IpcProofs -----------------------------
(***************************************************************************)
(* Processes: for any number of slots, any quantum and any set of calls,   *)
(* the table, the ready list and current_proc agree, pids are unique and   *)
(* memory is owned exactly by the live processes.  The five facts are      *)
(* inductive together: each step of process_schedule() needs the list to   *)
(* hold READY processes only, without repetition, to keep current_proc the *)
(* only RUNNING one, and the other way round.                              *)
(*                                                                         *)
(* Ports: for any number of them and of messages, the processes still      *)
(* behave as Process says when composed with the ports, so that its        *)
(* invariants carry over; and head, tail and count of a port stay in step, *)
(* so that each port is a bounded FIFO.                                    *)
(***************************************************************************)
EXTENDS Ipc, Integers, TLAPS

IInv ==
  /\ TypeOK
  /\ ReadyListExact
  /\ OneRunning
  /\ PidsUnique
  /\ MemoryMatchesState

(* A list without repetition that holds exactly the slots that are READY.  *)
Exact(q, st) ==
  /\ \A i, j \in 1 .. Len(q) : q[i] = q[j] => i = j
  /\ \A s \in Slot : st[s] = "READY" <=> \E i \in 1 .. Len(q) : q[i] = s

(* enqueue_ready(): what a push at the front does to a list. *)
LEMMA PushFront ==
  ASSUME NEW S, NEW q \in Seq(S), NEW x \in S
  PROVE  /\ <<x>> \o q \in Seq(S)
         /\ Len(<<x>> \o q) = Len(q) + 1
         /\ (<<x>> \o q)[1] = x
         /\ \A i \in 1 .. Len(q) : (<<x>> \o q)[i + 1] = q[i]
  OBVIOUS

(* The other end of process_schedule(): what is left of a list. *)
LEMMA PopFront ==
  ASSUME NEW S, NEW q \in Seq(S), q # << >>
  PROVE  /\ Head(q) \in S
         /\ Head(q) = q[1]
         /\ Len(q) \in Nat \ {0}
         /\ Tail(q) \in Seq(S)
         /\ Len(Tail(q)) = Len(q) - 1
         /\ \A i \in 1 .. Len(q) - 1 : Tail(q)[i] = q[i + 1]
  OBVIOUS

(* Making a slot READY that was not keeps the list exact. *)
LEMMA PushExact ==
  ASSUME NEW st, NEW q \in Seq(Slot), NEW x \in Slot, Exact(q, st), st[x] # "READY",
         NEW st2, st2[x] = "READY",
         \A s \in Slot : s # x => (st2[s] = "READY" <=> st[s] = "READY")
  PROVE  Exact(<<x>> \o q, st2)
<1> DEFINE r == <<x>> \o q
<1>1. /\ Len(q) \in Nat
      /\ Len(r) = Len(q) + 1
      /\ r[1] = x
      /\ \A i \in 1 .. Len(q) : r[i + 1] = q[i]
  BY PushFront
<1>2. \A i \in 1 .. Len(q) : q[i] \in Slot /\ q[i] # x
  BY DEF Exact
<1> HIDE DEF r
<1>3. \A i \in 1 .. Len(r) : i = 1 \/ (i - 1 \in 1 .. Len(q) /\ r[i] = q[i - 1])
  <2> TAKE i \in 1 .. Len(r)
  <2> SUFFICES ASSUME i # 1 PROVE i - 1 \in 1 .. Len(q) /\ r[i] = q[i - 1]
    OBVIOUS
  <2>1. i - 1 \in 1 .. Len(q) /\ (i - 1) + 1 = i
    BY <1>1
  <2> QED
    BY <1>1, <2>1
<1>4. \A i, j \in 1 .. Len(r) : r[i] = r[j] => i = j
  <2> SUFFICES ASSUME NEW i \in 1 .. Len(r), NEW j \in 1 .. Len(r), r[i] = r[j]
               PROVE  i = j
    OBVIOUS
  <2>1. i \in Nat /\ j \in Nat
    OBVIOUS
  <2>2. CASE i = 1 \/ j = 1
    BY <1>1, <1>2, <1>3, <2>2
  <2>3. CASE i # 1 /\ j # 1
    <3>1. i - 1 = j - 1
      BY <1>3, <2>3 DEF Exact
    <3> QED
      BY <2>1, <3>1
  <2> QED
    BY <2>2, <2>3
<1>5. \A s \in Slot : st2[s] = "READY" <=> \E i \in 1 .. Len(r) : r[i] = s
  <2> TAKE s \in Slot
  <2>1. CASE s = x
    BY <1>1, <2>1
  <2>2. CASE s # x
    <3>1. ASSUME st2[s] = "READY" PROVE \E i \in 1 .. Len(r) : r[i] = s
      <4>1. PICK i \in 1 .. Len(q) : q[i] = s
        BY <2>2, <3>1 DEF Exact
      <4>2. i + 1 \in 1 .. Len(r) /\ r[i + 1] = s
        BY <1>1, <4>1
      <4> QED
        BY <4>2
    <3>2. ASSUME NEW i \in 1 .. Len(r), r[i] = s PROVE st2[s] = "READY"
      BY <1>1, <1>3, <2>2, <3>2 DEF Exact
    <3> QED
      BY <3>1, <3>2
  <2> QED
    BY <2>1, <2>2
<1> QED
  BY <1>4, <1>5 DEF Exact, r

(* Taking the first one off the list, and off READY, keeps it exact. *)
LEMMA PopExact ==
  ASSUME NEW st, NEW q \in Seq(Slot), q # << >>, Exact(q, st),
         NEW st2, st2[Head(q)] # "READY",
         \A s \in Slot : s # Head(q) => (st2[s] = "READY" <=> st[s] = "READY")
  PROVE  Exact(Tail(q), st2)
<1> DEFINE r == Tail(q)
<1>1. /\ Len(q) \in Nat \ {0}
      /\ Head(q) = q[1]
      /\ Len(r) = Len(q) - 1
      /\ \A i \in 1 .. Len(q) - 1 : r[i] = q[i + 1]
  BY PopFront
<1> HIDE DEF r
<1>2. \A i \in 1 .. Len(r) : i + 1 \in 1 .. Len(q) /\ i + 1 # 1 /\ r[i] = q[i + 1]
  BY <1>1
<1>3. \A i, j \in 1 .. Len(r) : r[i] = r[j] => i = j
  <2> SUFFICES ASSUME NEW i \in 1 .. Len(r), NEW j \in 1 .. Len(r), r[i] = r[j]
               PROVE  i = j
    OBVIOUS
  <2>1. i + 1 = j + 1
    BY <1>2 DEF Exact
  <2> QED
    BY <2>1
<1>4. \A s \in Slot : st2[s] = "READY" <=> \E i \in 1 .. Len(r) : r[i] = s
  <2> TAKE s \in Slot
  <2>1. ASSUME st2[s] = "READY" PROVE \E i \in 1 .. Len(r) : r[i] = s
    <3>1. s # q[1] /\ st[s] = "READY"
      BY <1>1, <2>1
    <3>2. PICK i \in 1 .. Len(q) : q[i] = s
      BY <3>1 DEF Exact
    <3>3. i - 1 \in 1 .. Len(r) /\ (i - 1) + 1 = i
      BY <1>1, <3>1, <3>2
    <3>4. r[i - 1] = s
      BY <1>2, <3>2, <3>3
    <3> QED
      BY <3>3, <3>4
  <2>2. ASSUME NEW i \in 1 .. Len(r), r[i] = s PROVE st2[s] = "READY"
    <3>1. i + 1 \in 1 .. Len(q) /\ q[i + 1] = s /\ i + 1 # 1
      BY <1>2, <2>2
    <3>2. 1 \in 1 .. Len(q)
      BY <1>1
    <3>3. s # q[1]
      BY <3>1, <3>2 DEF Exact
    <3> QED
      BY <1>1, <3>1, <3>3 DEF Exact
  <2> QED
    BY <2>1, <2>2
<1> QED
  BY <1>3, <1>4 DEF Exact, r

-----------------------------------------------------------------------------
(* What every caller of process_schedule() hands it: a table st, ticks and *)
(* a current process cur that agree with the list.                         *)
Consistent(st, ticks, cur) ==
  /\ st \in [Slot -> State]
  /\ ticks \in [Slot -> 0 .. QUANTUM]
  /\ cur \in Slot \cup {NobodyHere}
  /\ Exact(ready_list, st)
  /\ \A s \in Slot : st[s] = "RUNNING" => s = cur
  /\ cur # NobodyHere => st[cur] \in {"RUNNING", "BLOCKED"}

(* What process_schedule() leaves, whether it switches or not. *)
Scheduled(st) ==
  /\ state' \in [Slot -> State]
  /\ ticks_remaining' \in [Slot -> 0 .. QUANTUM]
  /\ ready_list' \in Seq(Slot)
  /\ current_proc' \in Slot \cup {NobodyHere}
  /\ cpu' \in Slot \cup {NobodyHere}
  /\ ReadyListExact'
  /\ OneRunning'
  /\ \A s \in Slot : /\ state'[s] \in Alive <=> st[s] \in Alive
                     /\ state'[s] = "UNUSED" <=> st[s] = "UNUSED"

LEMMA SwitchKeeps ==
  ASSUME NEW STATE st, NEW STATE ticks, NEW STATE cur,
         TypeOK, Consistent(st, ticks, cur), Switch(st, ticks, cur)
  PROVE  Scheduled(st)
<1> USE ProcessAssumption DEF Consistent
<1> DEFINE next == Head(ready_list)
           rest == Tail(ready_list)
           mid == [s \in Slot |-> IF s = next THEN "RUNNING" ELSE st[s]]
<1>1. ready_list \in Seq(Slot) /\ ready_list # << >>
  BY DEF TypeOK, Switch
<1>2. /\ next \in Slot
      /\ rest \in Seq(Slot)
      /\ Len(ready_list) \in Nat \ {0}
      /\ next = ready_list[1]
  BY <1>1, PopFront
<1>3. st[next] = "READY" /\ next # cur
  <2>1. 1 \in 1 .. Len(ready_list)
    BY <1>2
  <2>2. st[next] = "READY"
    BY <1>2, <2>1 DEF Exact
  <2> QED
    BY <1>2, <2>2
<1> HIDE DEF next, rest
<1>4. /\ mid[next] = "RUNNING"
      /\ \A s \in Slot : s # next => mid[s] = st[s]
  BY <1>2
<1>5. Exact(rest, mid)
  BY <1>1, <1>4, PopExact DEF rest, next
<1>6. /\ state' = [s \in Slot |-> IF s = next THEN "RUNNING"
                                 ELSE IF s = cur /\ st[s] = "RUNNING" THEN "READY" ELSE st[s]]
      /\ ticks_remaining' = [ticks EXCEPT ![next] = QUANTUM]
      /\ current_proc' = next
      /\ cpu' = next
      /\ ready_list' = IF Preempted(st, cur) THEN <<cur>> \o rest ELSE rest
  BY DEF Switch, next, rest
<1>7. /\ state' \in [Slot -> State]
      /\ ticks_remaining' \in [Slot -> 0 .. QUANTUM]
      /\ current_proc' \in Slot \cup {NobodyHere}
      /\ cpu' \in Slot \cup {NobodyHere}
  BY <1>2, <1>6 DEF State
<1>8. OneRunning'
  BY <1>2, <1>6 DEF OneRunning
<1>9. \A s \in Slot : /\ state'[s] \in Alive <=> st[s] \in Alive
                      /\ state'[s] = "UNUSED" <=> st[s] = "UNUSED"
  BY <1>3, <1>6 DEF Alive
<1>10. ready_list' \in Seq(Slot) /\ Exact(ready_list', state')
  <2>1. CASE Preempted(st, cur)
    <3>1. cur \in Slot /\ st[cur] = "RUNNING"
      BY <2>1 DEF Preempted
    <3>2. mid[cur] # "READY" /\ state'[cur] = "READY"
      BY <1>3, <1>4, <1>6, <3>1
    <3>3. \A s \in Slot : s # cur => (state'[s] = "READY" <=> mid[s] = "READY")
      BY <1>6
    <3>4. Exact(<<cur>> \o rest, state')
      <4> HIDE DEF mid
      <4> QED
        BY <1>2, <1>5, <3>1, <3>2, <3>3, PushExact
    <3> QED
      BY <1>2, <1>6, <2>1, <3>1, <3>4, PushFront
  <2>2. CASE ~Preempted(st, cur)
    <3>1. state' = mid
      BY <1>6, <2>2 DEF Preempted
    <3> QED
      BY <1>2, <1>5, <1>6, <2>2, <3>1
  <2> QED
    BY <2>1, <2>2
<1>11. ReadyListExact'
  BY <1>10 DEF ReadyListExact, Exact
<1> QED
  BY <1>7, <1>8, <1>9, <1>10, <1>11 DEF Scheduled

LEMMA ScheduleKeeps ==
  ASSUME NEW STATE st, NEW STATE ticks, NEW STATE cur,
         TypeOK, Consistent(st, ticks, cur), Schedule(st, ticks, cur)
  PROVE  Scheduled(st)
<1>1. CASE Switch(st, ticks, cur)
  BY <1>1, SwitchKeeps
<1>2. CASE NothingReady(st, ticks, cur)
  BY <1>2 DEF NothingReady, Consistent, Scheduled, TypeOK, Exact, ReadyListExact, OneRunning
<1> QED
  BY <1>1, <1>2 DEF Schedule

(* A creation or a fork, whatever becomes of it. *)
LEMMA NewProcessKeeps ==
  ASSUME IInv, NEW s \in Slot, NEW outcome \in Outcome, NewProcess(s, outcome),
         UNCHANGED <<current_proc, cpu, in_service>>
  PROVE  IInv'
<1> USE ProcessAssumption
<1>0. ready_list \in Seq(Slot) /\ Exact(ready_list, state)
  BY DEF IInv, TypeOK, ReadyListExact, Exact
<1>3. /\ state' = [state EXCEPT ![s] = IF outcome = "ok" THEN "READY" ELSE "UNUSED"]
      /\ ready_list' = IF outcome = "ok" THEN <<s>> \o ready_list ELSE ready_list
      /\ state \in [Slot -> State]
      /\ state[s] = "UNUSED"
  BY DEF NewProcess, IInv, TypeOK, FirstOf, UnusedSlots
<1>4. ready_list' \in Seq(Slot) /\ Exact(ready_list', state')
  <2>2. CASE outcome = "ok"
    <3>1. /\ state[s] # "READY"
          /\ state'[s] = "READY"
          /\ \A t \in Slot : t # s => (state'[t] = "READY" <=> state[t] = "READY")
      BY <1>3, <2>2
    <3>2. Exact(<<s>> \o ready_list, state')
      BY <1>0, <3>1, PushExact
    <3> QED
      BY <1>0, <1>3, <2>2, <3>2, PushFront
  <2>3. CASE outcome # "ok"
    <3>1. state' = state
      BY <1>3, <2>3
    <3> QED
      BY <1>0, <1>3, <2>3, <3>1
  <2> QED
    BY <2>2, <2>3
<1> USE DEF IInv, TypeOK, Outcome
<1>1. state[s] = "UNUSED" /\ s # current_proc
  BY DEF NewProcess, FirstOf, UnusedSlots, OneRunning
<1>2. Acquired(outcome) \ Released(outcome) = IF outcome = "ok" THEN Memory ELSE {}
  BY DEF Acquired, Released, Memory
<1>5. TypeOK'
  BY <1>2, <1>4 DEF NewProcess, State
<1>6. ReadyListExact'
  BY <1>4 DEF ReadyListExact, Exact
<1>7. OneRunning'
  BY <1>1, <1>3 DEF OneRunning
<1>8. PidsUnique'
  BY DEF NewProcess, PidsUnique
<1>9. MemoryMatchesState'
  BY <1>2 DEF NewProcess, MemoryMatchesState, Alive
<1> QED
  BY <1>5, <1>6, <1>7, <1>8, <1>9

(* A step that ends in process_schedule() without creating anything. *)
LEMMA ScheduledKeeps ==
  ASSUME IInv, NEW STATE st, Scheduled(st),
         UNCHANGED <<pid, next_pid>>,
         \A s \in Slot : st[s] = "UNUSED" <=> state[s] = "UNUSED",
         memory' \in [Slot -> SUBSET Memory],
         \A s \in Slot : memory'[s] = IF st[s] \in Alive THEN Memory ELSE {},
         in_service' \in BOOLEAN
  PROVE  IInv'
<1>1. TypeOK'
  BY DEF IInv, TypeOK, Scheduled
<1>2. PidsUnique'
  BY DEF IInv, PidsUnique, Scheduled
<1>3. MemoryMatchesState'
  BY DEF MemoryMatchesState, Scheduled
<1> QED
  BY <1>1, <1>2, <1>3 DEF IInv, Scheduled

LEMMA StepKeeps == IInv /\ [Next]_vars => IInv'
<1> SUFFICES ASSUME IInv, [Next]_vars PROVE IInv'
  OBVIOUS
<1> USE ProcessAssumption
<1>0. Exact(ready_list, state)
  BY DEF IInv, ReadyListExact, Exact
<1>1. CASE Create
  BY <1>1, NewProcessKeeps DEF Create
<1>2. CASE Fork
  BY <1>2, NewProcessKeeps DEF Fork
<1>3. CASE Launch
  <2>1. Consistent(state, ticks_remaining, current_proc)
    BY <1>0 DEF IInv, TypeOK, OneRunning, Consistent
  <2>2. Scheduled(state)
    BY <1>3, <2>1, ScheduleKeeps DEF IInv, Launch
  <2> QED
    BY <1>3, <2>2, ScheduledKeeps DEF IInv, TypeOK, MemoryMatchesState, Launch
<1>4. CASE Exit
  <2> DEFINE st == [state EXCEPT ![current_proc] = "ZOMBIE"]
  <2>1. current_proc \in Slot /\ state[current_proc] \in {"RUNNING", "BLOCKED"}
    BY <1>4 DEF Exit, IInv, TypeOK, OneRunning
  <2>2. st \in [Slot -> State] /\ \A s \in Slot : st[s] = "READY" <=> state[s] = "READY"
    BY <2>1 DEF IInv, TypeOK, State
  <2>3. Consistent(st, ticks_remaining, NobodyHere)
    BY <1>0, <2>1, <2>2 DEF IInv, TypeOK, OneRunning, Consistent, Exact
  <2>4. Scheduled(st)
    BY <1>4, <2>3, ScheduleKeeps DEF IInv, Exit
  <2>5. \A s \in Slot : st[s] = "UNUSED" <=> state[s] = "UNUSED"
    BY <2>1 DEF IInv, TypeOK
  <2>6. /\ memory' \in [Slot -> SUBSET Memory]
        /\ \A s \in Slot : memory'[s] = IF st[s] \in Alive THEN Memory ELSE {}
    BY <1>4, <2>1 DEF Exit, IInv, TypeOK, MemoryMatchesState, Alive
  <2> HIDE DEF st
  <2> QED
    BY <1>4, <2>4, <2>5, <2>6, ScheduledKeeps DEF Exit, IInv, TypeOK
<1>5. ASSUME NEW p \in 0 .. MaxPid, WaitPid(p) PROVE IInv'
  <2>1. PICK s \in Slot : state[s] = "ZOMBIE" /\ state' = [state EXCEPT ![s] = "UNUSED"]
    BY <1>5 DEF WaitPid, FirstOf, Zombies
  <2>2. /\ pid' = pid /\ ticks_remaining' = ticks_remaining /\ memory' = memory
        /\ ready_list' = ready_list /\ current_proc' = current_proc
        /\ next_pid' = next_pid /\ cpu' = cpu /\ in_service' = in_service
    BY <1>5 DEF WaitPid
  <2>3. TypeOK'
    BY <2>1, <2>2 DEF IInv, TypeOK, State
  <2>4. ReadyListExact'
    BY <2>1, <2>2 DEF IInv, TypeOK, ReadyListExact
  <2>5. OneRunning'
    BY <2>1, <2>2 DEF IInv, TypeOK, OneRunning
  <2>6. PidsUnique'
    BY <2>1, <2>2 DEF IInv, TypeOK, PidsUnique
  <2>7. MemoryMatchesState'
    BY <2>1, <2>2 DEF IInv, TypeOK, MemoryMatchesState, Alive
  <2> QED
    BY <2>3, <2>4, <2>5, <2>6, <2>7 DEF IInv
<1>6. CASE Block
  <2> DEFINE st == [state EXCEPT ![current_proc] = "BLOCKED"]
  <2>1. current_proc \in Slot /\ state[current_proc] \in {"RUNNING", "BLOCKED"}
    BY <1>6 DEF Block, IInv, TypeOK, OneRunning
  <2>2. st \in [Slot -> State] /\ \A s \in Slot : st[s] = "READY" <=> state[s] = "READY"
    BY <2>1 DEF IInv, TypeOK, State
  <2>3. Consistent(st, ticks_remaining, current_proc)
    BY <1>0, <2>1, <2>2 DEF IInv, TypeOK, OneRunning, Consistent, Exact
  <2>4. Scheduled(st)
    BY <1>6, <2>3, ScheduleKeeps DEF IInv, Block
  <2>5. \A s \in Slot : st[s] = "UNUSED" <=> state[s] = "UNUSED"
    BY <2>1 DEF IInv, TypeOK
  <2>7. \A s \in Slot : st[s] \in Alive <=> state[s] \in Alive
    BY <2>1 DEF IInv, TypeOK, Alive
  <2>6. /\ memory' \in [Slot -> SUBSET Memory]
        /\ \A s \in Slot : memory'[s] = IF st[s] \in Alive THEN Memory ELSE {}
    <3>1. memory' = memory
      BY <1>6 DEF Block
    <3>2. memory \in [Slot -> SUBSET Memory]
      BY DEF IInv, TypeOK
    <3>3. \A s \in Slot : memory[s] = IF state[s] \in Alive THEN Memory ELSE {}
      BY DEF IInv, MemoryMatchesState
    <3> HIDE DEF st
    <3>4. \A s \in Slot : memory'[s] = IF st[s] \in Alive THEN Memory ELSE {}
      BY <2>7, <3>1, <3>3
    <3> QED
      BY <3>1, <3>2, <3>4
  <2> HIDE DEF st
  <2> QED
    <3>1. UNCHANGED <<pid, next_pid>> /\ in_service' \in BOOLEAN
      BY <1>6 DEF Block, IInv, TypeOK
    <3> QED
      BY <2>4, <2>5, <2>6, <3>1, ScheduledKeeps
<1>7. CASE Tick
  <2>1. Ticked \in [Slot -> 0 .. QUANTUM]
    BY DEF Ticked, Preempted, IInv, TypeOK
  <2>2. Consistent(state, Ticked, current_proc)
    BY <1>0, <2>1 DEF IInv, TypeOK, OneRunning, Consistent
  <2>3. Scheduled(state)
    BY <1>7, <2>2, ScheduleKeeps DEF IInv, Tick
  <2>4. in_service' \in BOOLEAN
    BY <1>7 DEF Tick, Expired, Preempted
  <2> QED
    BY <1>7, <2>3, <2>4, ScheduledKeeps DEF IInv, TypeOK, MemoryMatchesState, Tick
<1>8. CASE UNCHANGED vars
  BY <1>8 DEF IInv, TypeOK, ReadyListExact, OneRunning, PidsUnique, MemoryMatchesState,
              vars, table
<1> QED
  BY <1>1, <1>2, <1>3, <1>4, <1>5, <1>6, <1>7, <1>8 DEF Next

LEMMA InitHolds == Init => IInv
<1> SUFFICES ASSUME Init PROVE IInv
  OBVIOUS
<1> USE ProcessAssumption DEF Init
<1>1. TypeOK
  <2>1. state \in [Slot -> State] /\ pid \in [Slot -> Nat] /\ memory \in [Slot -> SUBSET Memory]
    BY DEF State
  <2>2. ticks_remaining \in [Slot -> 0 .. QUANTUM]
    OBVIOUS
  <2>3. ready_list \in Seq(Slot)
    OBVIOUS
  <2>4. next_pid \in Nat \ {0} /\ current_proc \in {NobodyHere} /\ cpu \in {NobodyHere}
    OBVIOUS
  <2>5. in_service \in BOOLEAN
    OBVIOUS
  <2> QED
    BY <2>1, <2>2, <2>3, <2>4, <2>5 DEF TypeOK
<1>2. ReadyListExact
  BY DEF ReadyListExact
<1>3. OneRunning /\ PidsUnique /\ MemoryMatchesState
  BY DEF OneRunning, PidsUnique, MemoryMatchesState, Alive
<1> QED
  BY <1>1, <1>2, <1>3 DEF IInv

LEMMA Invariance == Spec => []IInv
  BY InitHolds, StepKeeps, PTL DEF Spec

(* TypeOK for every size of the table: no function of process.c leaves a   *)
(* field, the list or current_proc outside its range.                      *)
THEOREM ProcessTypes == Spec => []TypeOK
  BY Invariance, PTL DEF IInv

(* No order of creations, forks, exits, reaps, blocks and ticks loses a    *)
(* READY process from the list or puts one on it twice.                    *)
THEOREM ReadyListIsExact == Spec => []ReadyListExact
  BY Invariance, PTL DEF IInv

(* process_schedule() never leaves two processes RUNNING.                  *)
THEOREM OnlyOneRuns == Spec => []OneRunning
  BY Invariance, PTL DEF IInv

(* alloc_process() never gives two unreaped processes the same pid.        *)
THEOREM NoPidTwice == Spec => []PidsUnique
  BY Invariance, PTL DEF IInv

(* No failure path of process_create() or process_fork() leaks, and        *)
(* process_exit() frees everything.                                        *)
THEOREM NoProcessLeaks == Spec => []MemoryMatchesState
  BY Invariance, PTL DEF IInv

-----------------------------------------------------------------------------
(* The index arithmetic of a port: % over one lap of the ring.             *)
LEMMA WrapOnce ==
  \A i \in 0 .. 2 * IPC_QUEUE_MAX - 1 :
    Wrap(i) = IF i < IPC_QUEUE_MAX THEN i ELSE i - IPC_QUEUE_MAX
BY IpcAssumption DEF Wrap

LEMMA IpcStep == [IpcNext]_ipcvars => [Next]_vars
  BY DEF IpcNext, ProcessStep, IpcSend, IpcNotify, Send, Dequeue, ReceiveEmpty, Next, ipcvars

(* ipc.c changes a process only by what ipc_receive() does to the caller:  *)
(* with ports, the processes are still those of Process.                   *)
THEOREM PortsAreProcesses == IpcSpec => Spec
  BY IpcStep, PTL DEF IpcSpec, IpcInit, Spec

(* Blocking on a port, sends and notices leave the ready list exact and at *)
(* most one process RUNNING.                                               *)
THEOREM PortsKeepTables == IpcSpec => [](ReadyListExact /\ OneRunning)
  BY PortsAreProcesses, Invariance, PTL DEF IInv

-----------------------------------------------------------------------------
(* What every call keeps: the tail is count places behind the head.        *)
InStep == \A p \in Port : tail[p] = Wrap(head[p] + count[p])

PortInv == PortsTypeOK /\ InStep

LEMMA PortInit == IpcInit => PortInv
<1> SUFFICES ASSUME IpcInit PROVE PortInv
  OBVIOUS
<1>1. PortsTypeOK
  BY IpcAssumption DEF IpcInit, PortsTypeOK, Entry, Index
<1>2. \A p \in Port : head[p] = 0 /\ tail[p] = 0 /\ count[p] = 0
  BY DEF IpcInit
<1>3. Wrap(0) = 0 /\ 0 + 0 = 0
  BY WrapOnce, IpcAssumption
<1> QED
  BY <1>1, <1>2, <1>3 DEF PortInv, InStep

(* ipc_send() and ipc_notify() on any port.                                *)
LEMMA SendKeeps ==
  ASSUME PortInv, NEW p \in Port, NEW m \in Entry, Send(p, m)
  PROVE  PortInv'
<1> USE IpcAssumption
<1>1. blocked_pid' \in [Port -> Nat]
  BY DEF PortInv, PortsTypeOK, Send
<1>2. CASE count[p] >= IPC_QUEUE_MAX
  <2>1. UNCHANGED <<queue, head, tail, count>>
    BY <1>2 DEF Send, Enqueue
  <2> QED
    BY <1>1, <2>1 DEF PortInv, PortsTypeOK, InStep
<1>3. CASE ~(count[p] >= IPC_QUEUE_MAX)
  <2>1. /\ queue' = [queue EXCEPT ![p][tail[p]] = m]
        /\ tail' = [tail EXCEPT ![p] = Wrap(@ + 1)]
        /\ count' = [count EXCEPT ![p] = @ + 1]
        /\ head' = head
    BY <1>3 DEF Send, Enqueue
  <2>2. /\ head[p] \in 0 .. IPC_QUEUE_MAX - 1
        /\ tail[p] \in 0 .. IPC_QUEUE_MAX - 1
        /\ count[p] \in 0 .. IPC_QUEUE_MAX - 1
        /\ tail[p] = Wrap(head[p] + count[p])
    BY <1>3 DEF PortInv, PortsTypeOK, Index, InStep
  <2>3. Wrap(tail[p] + 1) \in Index /\ Wrap(tail[p] + 1) = Wrap(head[p] + (count[p] + 1))
    BY <2>2, WrapOnce DEF Index
  <2>4. PortsTypeOK'
    BY <1>1, <2>1, <2>2, <2>3 DEF PortInv, PortsTypeOK
  <2>5. InStep'
    <3> SUFFICES ASSUME NEW r \in Port PROVE tail'[r] = Wrap(head'[r] + count'[r])
      BY DEF InStep
    <3>1. CASE r = p
      BY <2>1, <2>3, <3>1 DEF PortInv, PortsTypeOK
    <3>2. CASE r # p
      BY <2>1, <3>2 DEF PortInv, PortsTypeOK, InStep
    <3> QED
      BY <3>1, <3>2
  <2> QED
    BY <2>4, <2>5 DEF PortInv
<1> QED
  BY <1>2, <1>3

(* ipc_receive() of a message.                                             *)
LEMMA DequeueKeeps ==
  ASSUME PortInv, NEW p \in Port, Dequeue(p)
  PROVE  PortInv'
<1> USE IpcAssumption
<1>1. /\ head' = [head EXCEPT ![p] = Wrap(@ + 1)]
      /\ count' = [count EXCEPT ![p] = @ - 1]
      /\ UNCHANGED <<queue, tail, blocked_pid>>
  BY DEF Dequeue
<1>2. /\ head[p] \in 0 .. IPC_QUEUE_MAX - 1
      /\ count[p] \in 1 .. IPC_QUEUE_MAX
      /\ tail[p] = Wrap(head[p] + count[p])
  BY DEF PortInv, PortsTypeOK, Index, InStep, Dequeue
<1>3. Wrap(head[p] + 1) \in Index /\ Wrap(Wrap(head[p] + 1) + (count[p] - 1)) = tail[p]
  BY <1>2, WrapOnce DEF Index
<1>4. PortsTypeOK'
  BY <1>1, <1>2, <1>3 DEF PortInv, PortsTypeOK
<1>5. InStep'
  <2> SUFFICES ASSUME NEW r \in Port PROVE tail'[r] = Wrap(head'[r] + count'[r])
    BY DEF InStep
  <2>1. CASE r = p
    BY <1>1, <1>3, <2>1 DEF PortInv, PortsTypeOK
  <2>2. CASE r # p
    BY <1>1, <2>2 DEF PortInv, PortsTypeOK, InStep
  <2> QED
    BY <2>1, <2>2
<1> QED
  BY <1>4, <1>5 DEF PortInv

LEMMA PortStep == IInv /\ PortInv /\ [IpcNext]_ipcvars => PortInv'
<1> SUFFICES ASSUME IInv, PortInv, [IpcNext]_ipcvars PROVE PortInv'
  OBVIOUS
<1>1. CASE UNCHANGED ports
  BY <1>1 DEF PortInv, PortsTypeOK, InStep, ports
<1>2. CASE IpcSend
  BY <1>2, SendKeeps DEF IpcSend, Entry
<1>3. CASE IpcNotify
  BY <1>3, SendKeeps DEF IpcNotify, Entry, FirstOf
<1>4. ASSUME NEW p \in Port, Dequeue(p) PROVE PortInv'
  BY <1>4, DequeueKeeps
<1>5. ASSUME NEW p \in Port, ReceiveEmpty(p) PROVE PortInv'
  <2>1. current_proc \in Slot
    BY <1>5 DEF ReceiveEmpty, Block, IInv, TypeOK
  <2>2. pid[current_proc] \in Nat
    BY <2>1 DEF IInv, TypeOK
  <2> QED
    BY <1>5, <2>2 DEF ReceiveEmpty, PortInv, PortsTypeOK, InStep
<1> QED
  BY <1>1, <1>2, <1>3, <1>4, <1>5 DEF IpcNext, ProcessStep, ipcvars

LEMMA PortInvariance == IpcSpec => [](IInv /\ PortInv)
<1>1. IpcSpec => []IInv
  BY PortsAreProcesses, Invariance, PTL
<1> QED
  BY <1>1, PortInit, PortStep, PTL DEF IpcSpec

(* No call takes an index of a port, its count or its waiter out of range. *)
THEOREM PortTypes == IpcSpec => []PortsTypeOK
  BY PortInvariance, PTL DEF PortInv

-----------------------------------------------------------------------------
(* c messages of a ring q, from index h on.                                *)
Items(q, h, c) == [i \in 1 .. c |-> q[Wrap(h + i - 1)]]

LEMMA ItemsSeq ==
  ASSUME NEW q \in [Index -> Entry], NEW h \in Index, NEW c \in 0 .. IPC_QUEUE_MAX
  PROVE  /\ Items(q, h, c) \in Seq(Entry)
         /\ Len(Items(q, h, c)) = c
         /\ \A i \in 1 .. c : Items(q, h, c)[i] = q[Wrap(h + i - 1)]
<1>1. \A i \in 1 .. c : Wrap(h + i - 1) \in Index
  BY WrapOnce, IpcAssumption DEF Index
<1> QED
  BY <1>1 DEF Items

LEMMA ContentsSeq ==
  ASSUME PortInv, NEW p \in Port
  PROVE  /\ Contents(p) \in Seq(Entry)
         /\ Len(Contents(p)) = count[p]
<1>1. Contents(p) = Items(queue[p], head[p], count[p])
  BY DEF Contents, Items
<1> QED
  BY <1>1, ItemsSeq DEF PortInv, PortsTypeOK

(* A message accepted is the last of its port's, and moves no other.       *)
LEMMA EnqueueAppends ==
  ASSUME PortInv, NEW p \in Port, NEW m \in Entry, Send(p, m), ~(count[p] >= IPC_QUEUE_MAX)
  PROVE  /\ Contents(p)' = Append(Contents(p), m)
         /\ \A r \in Port \ {p} : Contents(r)' = Contents(r)
<1>1. /\ queue' = [queue EXCEPT ![p][tail[p]] = m]
      /\ count' = [count EXCEPT ![p] = @ + 1]
      /\ head' = head
  BY DEF Send, Enqueue
<1>2. /\ head[p] \in 0 .. IPC_QUEUE_MAX - 1
      /\ count[p] \in 0 .. IPC_QUEUE_MAX - 1
      /\ queue[p] \in [Index -> Entry]
      /\ queue \in [Port -> [Index -> Entry]]
      /\ tail[p] \in Index
      /\ tail[p] = Wrap(head[p] + count[p])
      /\ head \in [Port -> Index] /\ count \in [Port -> 0 .. IPC_QUEUE_MAX]
  BY IpcAssumption DEF PortInv, PortsTypeOK, Index, InStep
<1>3. \A r \in Port \ {p} : Contents(r)' = Contents(r)
  BY <1>1, <1>2 DEF Contents
<1>4. \A i \in 1 .. count[p] : /\ Wrap(head[p] + i - 1) \in Index
                               /\ Wrap(head[p] + i - 1) # tail[p]
  BY <1>2, WrapOnce, IpcAssumption DEF Index
<1> DEFINE old == Items(queue[p], head[p], count[p])
           new == Items(queue'[p], head[p], count[p] + 1)
<1>5. Contents(p) = old /\ Contents(p)' = new
  BY <1>1, <1>2 DEF Contents, Items
<1>6. queue'[p] = [queue[p] EXCEPT ![tail[p]] = m]
  BY <1>1, <1>2
<1>7. /\ old \in Seq(Entry) /\ Len(old) = count[p]
      /\ \A i \in 1 .. count[p] : old[i] = queue[p][Wrap(head[p] + i - 1)]
  <2>1. head[p] \in Index /\ count[p] \in 0 .. IPC_QUEUE_MAX
    BY <1>2
  <2> QED
    BY <1>2, <2>1, ItemsSeq
<1>8. /\ new \in Seq(Entry) /\ Len(new) = count[p] + 1
      /\ \A i \in 1 .. count[p] + 1 : new[i] = queue'[p][Wrap(head[p] + i - 1)]
  <2>1. head[p] \in Index /\ count[p] + 1 \in 0 .. IPC_QUEUE_MAX
    BY <1>2, IpcAssumption DEF Index
  <2>2. queue'[p] \in [Index -> Entry]
    BY <1>2, <1>6
  <2> QED
    BY <2>1, <2>2, ItemsSeq
<1> HIDE DEF old, new
<1>9. \A i \in 1 .. count[p] : new[i] = old[i]
  BY <1>2, <1>4, <1>6, <1>7, <1>8
<1>10. new[count[p] + 1] = m
  BY <1>2, <1>6, <1>8
<1>11. new = Append(old, m)
  BY <1>2, <1>7, <1>8, <1>9, <1>10
<1> QED
  BY <1>3, <1>5, <1>11

(* A message received is the first of its port's.                          *)
LEMMA DequeueTakesFirst ==
  ASSUME PortInv, NEW p \in Port, Dequeue(p)
  PROVE  /\ Contents(p) # << >>
         /\ Contents(p)' = Tail(Contents(p))
         /\ \A r \in Port \ {p} : Contents(r)' = Contents(r)
<1>1. /\ head' = [head EXCEPT ![p] = Wrap(@ + 1)]
      /\ count' = [count EXCEPT ![p] = @ - 1]
      /\ queue' = queue
  BY DEF Dequeue
<1>2. /\ head[p] \in 0 .. IPC_QUEUE_MAX - 1
      /\ count[p] \in 1 .. IPC_QUEUE_MAX
      /\ head \in [Port -> Index] /\ count \in [Port -> 0 .. IPC_QUEUE_MAX]
  BY IpcAssumption DEF PortInv, PortsTypeOK, Index, Dequeue
<1>3. \A r \in Port \ {p} : Contents(r)' = Contents(r)
  BY <1>1, <1>2 DEF Contents
<1>4. \A i \in 1 .. count[p] - 1 : Wrap(Wrap(head[p] + 1) + i - 1) = Wrap(head[p] + (i + 1) - 1)
  BY <1>2, WrapOnce, IpcAssumption
<1> DEFINE old == Items(queue[p], head[p], count[p])
           new == Items(queue[p], Wrap(head[p] + 1), count[p] - 1)
<1>5. Contents(p) = old /\ Contents(p)' = new
  BY <1>1, <1>2 DEF Contents, Items
<1>6. queue[p] \in [Index -> Entry]
  BY DEF PortInv, PortsTypeOK
<1>7. /\ old \in Seq(Entry) /\ Len(old) = count[p]
      /\ \A i \in 1 .. count[p] : old[i] = queue[p][Wrap(head[p] + i - 1)]
  <2>1. head[p] \in Index /\ count[p] \in 0 .. IPC_QUEUE_MAX
    BY <1>2
  <2> QED
    BY <1>6, <2>1, ItemsSeq
<1>8. /\ new \in Seq(Entry) /\ Len(new) = count[p] - 1
      /\ \A i \in 1 .. count[p] - 1 : new[i] = queue[p][Wrap(Wrap(head[p] + 1) + i - 1)]
  <2>1. Wrap(head[p] + 1) \in Index /\ count[p] - 1 \in 0 .. IPC_QUEUE_MAX
    BY <1>2, WrapOnce, IpcAssumption DEF Index
  <2> QED
    BY <1>6, <2>1, ItemsSeq
<1> HIDE DEF old, new
<1>9. \A i \in 1 .. count[p] - 1 : new[i] = old[i + 1]
  <2> SUFFICES ASSUME NEW i \in 1 .. count[p] - 1 PROVE new[i] = old[i + 1]
    OBVIOUS
  <2>1. i + 1 \in 1 .. count[p] /\ i \in 1 .. count[p] - 1
    BY <1>2, IpcAssumption
  <2>2. old[i + 1] = queue[p][Wrap(head[p] + (i + 1) - 1)]
    BY <1>7, <2>1
  <2>3. new[i] = queue[p][Wrap(Wrap(head[p] + 1) + i - 1)]
    BY <1>8, <2>1
  <2> QED
    BY <1>4, <2>1, <2>2, <2>3
<1>10. old # << >> /\ new = Tail(old)
  BY <1>2, <1>7, <1>8, <1>9
<1> QED
  BY <1>3, <1>5, <1>10

LEMMA FifoStep ==
  PortInv /\ [IpcNext]_ipcvars => [Fifo!Next]_([p \in Port |-> Contents(p)])
<1> SUFFICES ASSUME PortInv, [IpcNext]_ipcvars
             PROVE  Fifo!Next \/ \A p \in Port : Contents(p)' = Contents(p)
  OBVIOUS
<1>1. ASSUME NEW p \in Port, NEW m \in Entry, Send(p, m)
      PROVE  Fifo!Next \/ \A r \in Port : Contents(r)' = Contents(r)
  <2>1. CASE count[p] >= IPC_QUEUE_MAX
    BY <1>1, <2>1 DEF Send, Enqueue, Contents
  <2>2. CASE ~(count[p] >= IPC_QUEUE_MAX)
    <3>1. /\ Contents(p)' = Append(Contents(p), m)
          /\ \A r \in Port \ {p} : Contents(r)' = Contents(r)
      BY <1>1, <2>2, EnqueueAppends
    <3>2. Len(Contents(p)) < IPC_QUEUE_MAX
      BY <2>2, ContentsSeq, IpcAssumption DEF PortInv, PortsTypeOK
    <3>3. Fifo!Accept(p, m)
      BY <3>1, <3>2 DEF Fifo!Accept
    <3> QED
      BY <3>3 DEF Fifo!Next
  <2> QED
    BY <2>1, <2>2
<1>2. ASSUME NEW p \in Port, Dequeue(p) PROVE Fifo!Next
  BY <1>2, DequeueTakesFirst DEF Fifo!Deliver, Fifo!Next
<1>3. ASSUME UNCHANGED <<queue, head, count>>
      PROVE  \A p \in Port : Contents(p)' = Contents(p)
  BY <1>3 DEF Contents
<1>4. CASE IpcSend
  BY <1>1, <1>4 DEF IpcSend, Entry
<1>5. CASE IpcNotify
  BY <1>1, <1>5 DEF IpcNotify, Entry, FirstOf
<1> QED
  BY <1>2, <1>3, <1>4, <1>5 DEF IpcNext, ProcessStep, ReceiveEmpty, ipcvars, ports

LEMMA FifoInit == IpcInit => Fifo!Init
<1> SUFFICES ASSUME IpcInit, NEW p \in Port PROVE Contents(p) = << >>
  BY DEF Fifo!Init
<1>1. PortInv /\ count[p] = 0
  BY PortInit DEF IpcInit
<1> QED
  BY <1>1, ContentsSeq

(* Whoever sends, notifies and receives in whatever order, and however     *)
(* often the ring comes round: what ipc_receive() takes from a port is the *)
(* oldest message the port accepted, each once.                            *)
THEOREM PortsImplementFifo == IpcSpec => PortsAreFifo
<1>1. IpcSpec => [](IInv /\ PortInv)
  BY PortInvariance
<1> QED
  BY <1>1, FifoInit, FifoStep, PTL DEF IpcSpec, PortsAreFifo, Fifo!Spec

-----------------------------------------------------------------------------
LEMMA WaiterStep == IInv /\ PortInv /\ WaiterSeesEmpty /\ [IpcNext]_ipcvars => WaiterSeesEmpty'
<1> SUFFICES ASSUME IInv, PortInv, WaiterSeesEmpty, [IpcNext]_ipcvars PROVE WaiterSeesEmpty'
  OBVIOUS
<1>0. blocked_pid \in [Port -> Nat] /\ count \in [Port -> 0 .. IPC_QUEUE_MAX]
  BY DEF PortInv, PortsTypeOK
<1>1. ASSUME NEW p \in Port, NEW m \in Entry, Send(p, m) PROVE WaiterSeesEmpty'
  <2>1. blocked_pid' = [blocked_pid EXCEPT ![p] = 0]
    BY <1>1 DEF Send
  <2>2. \A r \in Port \ {p} : count'[r] = count[r]
    BY <1>0, <1>1 DEF Send, Enqueue
  <2> QED
    BY <1>0, <2>1, <2>2 DEF WaiterSeesEmpty
<1>2. ASSUME NEW p \in Port, Dequeue(p) PROVE WaiterSeesEmpty'
  <2>1. blocked_pid' = blocked_pid /\ count' = [count EXCEPT ![p] = @ - 1] /\ count[p] > 0
    BY <1>2 DEF Dequeue
  <2> QED
    BY <1>0, <2>1 DEF WaiterSeesEmpty
<1>3. ASSUME NEW p \in Port, ReceiveEmpty(p) PROVE WaiterSeesEmpty'
  <2>1. /\ count' = count /\ count[p] = 0
        /\ blocked_pid' = [blocked_pid EXCEPT ![p] = pid[current_proc]]
    BY <1>3 DEF ReceiveEmpty
  <2> QED
    BY <1>0, <2>1 DEF WaiterSeesEmpty
<1>4. CASE UNCHANGED ports
  BY <1>4 DEF ports, WaiterSeesEmpty
<1>5. CASE IpcSend
  BY <1>1, <1>5 DEF IpcSend, Entry
<1>6. CASE IpcNotify
  BY <1>1, <1>6 DEF IpcNotify, Entry, FirstOf
<1> QED
  BY <1>2, <1>3, <1>4, <1>5, <1>6 DEF IpcNext, ProcessStep, ipcvars

(* For any number of ports and of processes, whoever is down as waiting on *)
(* a port waits on an empty one.                                           *)
THEOREM WaitersWaitOnNothing == IpcSpec => []WaiterSeesEmpty
<1>1. IpcSpec => [](IInv /\ PortInv)
  BY PortInvariance
<1>2. IpcInit => WaiterSeesEmpty
  BY DEF IpcInit, WaiterSeesEmpty
<1> QED
  BY <1>1, <1>2, WaiterStep, PTL DEF IpcSpec
=============================================================================
