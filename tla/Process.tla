------------------------------ MODULE Process ------------------------------
(***************************************************************************)
(* Processes and the scheduler: kernel/process.c, the timer branch of      *)
(* kernel/idt.c, and pit_tick() of kernel/pit.c.                           *)
(*                                                                         *)
(* Interrupts are off in every handler, and nothing preempts kmain() while *)
(* current_proc is NULL, so each function below is one step.               *)
(*                                                                         *)
(* process_context_switch() is taken at its C interface: it gives the CPU  *)
(* to the process it is passed and does not return.  What the assembly     *)
(* does with the registers is not modelled (README, Not modelled).         *)
(*                                                                         *)
(* current_proc is what the kernel believes, cpu is whose code executes.   *)
(***************************************************************************)
EXTENDS Naturals, Sequences

CONSTANTS
  PROCESS_MAX,    \* slots of the process table, 32 in the code
  QUANTUM,        \* PROCESS_TIME_QUANTUM, 10 in the code
  Calls,          \* system calls and faults the user programs make
  KmainSchedules, \* kmain() calls process_schedule() (the shipped one does not)
  NobodyHere,     \* the NULL of current_proc; kmain() when it has the CPU
  MaxPid          \* bound of the model: no process is created past this pid

Slot == 1 .. PROCESS_MAX
Call == {"exit", "fork", "exec", "waitpid", "receive"}

ASSUME ProcessAssumption ==
  /\ PROCESS_MAX \in Nat \ {0}
  /\ QUANTUM \in Nat \ {0}
  /\ MaxPid \in Nat
  /\ Calls \subseteq Call
  /\ KmainSchedules \in BOOLEAN
  /\ NobodyHere \notin Slot

State == {"UNUSED", "READY", "RUNNING", "BLOCKED", "ZOMBIE"}
Alive == {"READY", "RUNNING", "BLOCKED"}
(* What a process owns, in the order process_create() allocates it. *)
Memory == {"page_dir", "user_stack", "kernel_stack"}
(* Which allocation of a creation fails, if one does. *)
Outcome == {"ok", "no_page_dir", "no_user_stack", "no_kernel_stack"}

VARIABLES
  state, pid, ticks_remaining, memory,  \* the fields of process_table
  ready_list,                           \* the linked list, as a sequence
  current_proc, next_pid,
  cpu,                                  \* whose instructions execute
  in_service                            \* IRQ0 delivered and not acknowledged

table == <<state, pid, ticks_remaining, memory>>
vars == <<table, ready_list, current_proc, next_pid, cpu, in_service>>

Init ==
  /\ state = [s \in Slot |-> "UNUSED"]
  /\ pid = [s \in Slot |-> 0]
  /\ ticks_remaining = [s \in Slot |-> 0]
  /\ memory = [s \in Slot |-> {}]
  /\ ready_list = << >>
  /\ current_proc = NobodyHere
  /\ next_pid = 1
  /\ cpu = NobodyHere
  /\ in_service = FALSE

UnusedSlots == {s \in Slot : state[s] = "UNUSED"}
(* A scan of the table stops at the first slot that fits. *)
FirstOf(s, slots) == s \in slots /\ \A t \in slots : s <= t

(***************************************************************************)
(* process_create() and the part process_fork() shares with it.            *)
(***************************************************************************)
Acquired(outcome) ==
  CASE outcome = "no_page_dir" -> {}
    [] outcome = "no_user_stack" -> {"page_dir"}
    [] outcome = "no_kernel_stack" -> {"page_dir", "user_stack"}
    [] outcome = "ok" -> Memory

(* Mutant: the last error path forgets to free the user stack. *)
MutReleasedKeepsStack(outcome) ==
  CASE outcome = "no_page_dir" -> {}
    [] outcome \in {"no_user_stack", "no_kernel_stack"} -> {"page_dir"}
    [] outcome = "ok" -> {}

(* What the error paths free. *)
Released(outcome) ==
  CASE outcome = "no_page_dir" -> {}
    [] outcome = "no_user_stack" -> {"page_dir"}
    [] outcome = "no_kernel_stack" -> {"user_stack", "page_dir"}
    [] outcome = "ok" -> {}

(* Mutant: alloc_process() hands out next_pid without moving it on. *)
MutNewProcessSamePid(s, outcome) ==
  /\ FirstOf(s, UnusedSlots)
  /\ pid' = [pid EXCEPT ![s] = next_pid]
  /\ next_pid' = next_pid
  /\ memory' = [memory EXCEPT ![s] = Acquired(outcome) \ Released(outcome)]
  /\ ticks_remaining' = [ticks_remaining EXCEPT ![s] = IF outcome = "ok" THEN QUANTUM ELSE 0]
  /\ state' = [state EXCEPT ![s] = IF outcome = "ok" THEN "READY" ELSE "UNUSED"]
  /\ ready_list' = IF outcome = "ok" THEN <<s>> \o ready_list ELSE ready_list

(* alloc_process() takes the first unused slot and a pid, which a failure  *)
(* later on does not give back; enqueue_ready() pushes at the front.       *)
NewProcess(s, outcome) ==
  /\ FirstOf(s, UnusedSlots)
  /\ pid' = [pid EXCEPT ![s] = next_pid]
  /\ next_pid' = next_pid + 1
  /\ memory' = [memory EXCEPT ![s] = Acquired(outcome) \ Released(outcome)]
  /\ ticks_remaining' = [ticks_remaining EXCEPT ![s] = IF outcome = "ok" THEN QUANTUM ELSE 0]
  /\ state' = [state EXCEPT ![s] = IF outcome = "ok" THEN "READY" ELSE "UNUSED"]
  /\ ready_list' = IF outcome = "ok" THEN <<s>> \o ready_list ELSE ready_list

MayCall(c) == cpu # NobodyHere /\ c \in Calls

(* From kmain(), or from elf_load() under SYS_EXEC. *)
Create ==
  /\ cpu = NobodyHere \/ MayCall("exec")
  /\ next_pid <= MaxPid
  /\ \E s \in Slot, outcome \in Outcome : NewProcess(s, outcome)
  /\ UNCHANGED <<current_proc, cpu, in_service>>

(* SYS_FORK; a caller the kernel no longer knows is refused. *)
Fork ==
  /\ MayCall("fork")
  /\ current_proc # NobodyHere
  /\ next_pid <= MaxPid
  /\ \E s \in Slot, outcome \in Outcome : NewProcess(s, outcome)
  /\ UNCHANGED <<current_proc, cpu, in_service>>

(***************************************************************************)
(* process_schedule(), called with the table and current_proc as the       *)
(* caller left them (st, ticks, cur).                                      *)
(***************************************************************************)
Preempted(st, cur) == cur # NobodyHere /\ st[cur] = "RUNNING"

(* Mutant: the list is not moved past the process that is taken from it. *)
MutSwitchLeavesHead(st, ticks, cur) ==
  LET next == Head(ready_list) IN
  /\ ready_list # << >>
  /\ ready_list' = IF Preempted(st, cur) THEN <<cur>> \o ready_list ELSE ready_list
  /\ state' = [s \in Slot |-> IF s = next THEN "RUNNING"
                              ELSE IF s = cur /\ st[s] = "RUNNING" THEN "READY" ELSE st[s]]
  /\ ticks_remaining' = [ticks EXCEPT ![next] = QUANTUM]
  /\ current_proc' = next
  /\ cpu' = next

(* Mutant: the process that loses the CPU keeps its state. *)
MutSwitchKeepsState(st, ticks, cur) ==
  LET next == Head(ready_list) IN
  /\ ready_list # << >>
  /\ ready_list' = Tail(ready_list)
  /\ state' = [st EXCEPT ![next] = "RUNNING"]
  /\ ticks_remaining' = [ticks EXCEPT ![next] = QUANTUM]
  /\ current_proc' = next
  /\ cpu' = next

(* Mutant: the new quantum is added to what was left of the last one. *)
MutSwitchOverQuantum(st, ticks, cur) ==
  LET next == Head(ready_list) IN
  /\ ready_list # << >>
  /\ ready_list' = IF Preempted(st, cur) THEN <<cur>> \o Tail(ready_list) ELSE Tail(ready_list)
  /\ state' = [s \in Slot |-> IF s = next THEN "RUNNING"
                              ELSE IF s = cur /\ st[s] = "RUNNING" THEN "READY" ELSE st[s]]
  /\ ticks_remaining' = [ticks EXCEPT ![next] = @ + QUANTUM]
  /\ current_proc' = next
  /\ cpu' = next

Switch(st, ticks, cur) ==
  LET next == Head(ready_list) IN
  /\ ready_list # << >>
  /\ ready_list' = IF Preempted(st, cur) THEN <<cur>> \o Tail(ready_list) ELSE Tail(ready_list)
  /\ state' = [s \in Slot |-> IF s = next THEN "RUNNING"
                              ELSE IF s = cur /\ st[s] = "RUNNING" THEN "READY" ELSE st[s]]
  /\ ticks_remaining' = [ticks EXCEPT ![next] = QUANTUM]
  /\ current_proc' = next
  /\ cpu' = next

NothingReady(st, ticks, cur) ==
  /\ ready_list = << >>
  /\ state' = st
  /\ ticks_remaining' = ticks
  /\ current_proc' = cur
  /\ UNCHANGED <<ready_list, cpu>>

Schedule(st, ticks, cur) == Switch(st, ticks, cur) \/ NothingReady(st, ticks, cur)

(* The first call, the one the launch path of process_asm.s is there for. *)
Launch ==
  /\ KmainSchedules
  /\ cpu = NobodyHere
  /\ Schedule(state, ticks_remaining, current_proc)
  /\ UNCHANGED <<pid, memory, next_pid, in_service>>

(* SYS_EXIT, or a page fault: process_exit() on the process the kernel     *)
(* believes in, whose stacks it is running on.                             *)
Exit ==
  /\ MayCall("exit")
  /\ current_proc # NobodyHere
  /\ memory' = [memory EXCEPT ![current_proc] = {}]
  /\ Schedule([state EXCEPT ![current_proc] = "ZOMBIE"], ticks_remaining, NobodyHere)
  /\ UNCHANGED <<pid, next_pid, in_service>>

(* process_waitpid(): the first zombie that matches; 0 stands for its -1,  *)
(* any process.                                                            *)
Zombies(p) == {s \in Slot : state[s] = "ZOMBIE" /\ p \in {0, pid[s]}}
WaitPid(p) ==
  /\ MayCall("waitpid")
  /\ \E s \in Slot : FirstOf(s, Zombies(p)) /\ state' = [state EXCEPT ![s] = "UNUSED"]
  /\ UNCHANGED <<pid, ticks_remaining, memory, ready_list, current_proc, next_pid, cpu, in_service>>

(* The end of ipc_receive() on an empty port.                              *)
Block ==
  /\ MayCall("receive")
  /\ current_proc # NobodyHere
  /\ Schedule([state EXCEPT ![current_proc] = "BLOCKED"], ticks_remaining, current_proc)
  /\ UNCHANGED <<pid, memory, next_pid, in_service>>

(***************************************************************************)
(* The timer interrupt.  pit_tick() takes one tick from a running process  *)
(* and schedules when none is left; if that switches, it does not return,  *)
(* and the interrupt is never acknowledged.  Otherwise it is acknowledged  *)
(* and the handler schedules whatever the quantum says.  A tick while      *)
(* current_proc is NULL changes nothing here.                              *)
(***************************************************************************)
Ticked ==
  IF Preempted(state, current_proc)
  THEN [ticks_remaining EXCEPT ![current_proc] = IF @ > 0 THEN @ - 1 ELSE 0]
  ELSE ticks_remaining

Expired == Preempted(state, current_proc) /\ Ticked[current_proc] = 0

Tick ==
  /\ ~in_service
  /\ current_proc # NobodyHere
  /\ Schedule(state, Ticked, current_proc)
  /\ in_service' = (Expired /\ ready_list # << >>)
  /\ UNCHANGED <<pid, memory, next_pid>>

Next ==
  \/ Create
  \/ Fork
  \/ Launch
  \/ Exit
  \/ \E p \in 0 .. MaxPid : WaitPid(p)
  \/ Block
  \/ Tick

Spec == Init /\ [][Next]_vars

-----------------------------------------------------------------------------
TypeOK ==
  /\ state \in [Slot -> State]
  /\ pid \in [Slot -> Nat]
  /\ ticks_remaining \in [Slot -> 0 .. QUANTUM]
  /\ memory \in [Slot -> SUBSET Memory]
  /\ ready_list \in Seq(Slot)
  /\ current_proc \in Slot \cup {NobodyHere}
  /\ next_pid \in Nat \ {0}
  /\ cpu \in Slot \cup {NobodyHere}
  /\ in_service \in BOOLEAN

(* The ready list, linked through proc->next by five callers, holds every  *)
(* READY process exactly once and nothing else (process.c:38, 203).        *)
ReadyListExact ==
  /\ \A i, j \in 1 .. Len(ready_list) : ready_list[i] = ready_list[j] => i = j
  /\ \A s \in Slot : state[s] = "READY" <=> \E i \in 1 .. Len(ready_list) : ready_list[i] = s

(* At most one process is RUNNING, the one current_proc points to, and     *)
(* current_proc never points to a process that waits, ended or was reaped. *)
OneRunning ==
  /\ \A s \in Slot : state[s] = "RUNNING" => s = current_proc
  /\ current_proc # NobodyHere => state[current_proc] \in {"RUNNING", "BLOCKED"}

(* A pid names one process, from process_create() or process_fork() until  *)
(* process_waitpid() reaps it: slots are reused, pids are not.             *)
PidsUnique ==
  /\ \A s, t \in Slot : state[s] # "UNUSED" /\ state[t] # "UNUSED" /\ pid[s] = pid[t] => s = t
  /\ \A s \in Slot : pid[s] < next_pid

(* A live process owns a directory and both stacks; a failed creation, an  *)
(* exit and a reap leave nothing allocated (process.c:81-117, 167-181).    *)
MemoryMatchesState ==
  \A s \in Slot : memory[s] = IF state[s] \in Alive THEN Memory ELSE {}
=============================================================================
