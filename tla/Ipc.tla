-------------------------------- MODULE Ipc --------------------------------
(***************************************************************************)
(* Message ports: kernel/ipc.c, composed with the processes that use them. *)
(*                                                                         *)
(* A system call runs with interrupts off, so ipc_send(), ipc_receive()    *)
(* and ipc_notify() are one step each; process_schedule() at the end of    *)
(* ipc_receive() returns only when it has nobody to switch to.             *)
(***************************************************************************)
EXTENDS Process

CONSTANTS
  Port,           \* the ports in use, of the IPC_PORT_MAX (64) there are
  IPC_QUEUE_MAX,  \* messages a port holds, 16 in the code
  Msg,            \* messages a program sends
  Notice          \* the message ipc_notify() builds

ASSUME IpcAssumption == Port \subseteq Nat /\ IPC_QUEUE_MAX \in Nat \ {0}

VARIABLES queue, head, tail, count,  \* the ring of each port
          blocked_pid                \* the pid waiting on each port, 0 for -1

ports == <<queue, head, tail, count, blocked_pid>>
ipcvars == <<vars, ports>>

Entry == Msg \cup {Notice}
Index == 0 .. IPC_QUEUE_MAX - 1
(* Mutant: the wrap-around is forgotten. *)
MutWrapNever(i) == i
Wrap(i) == i % IPC_QUEUE_MAX

IpcInit ==
  /\ Init
  /\ queue = [p \in Port |-> [i \in Index |-> Notice]]
  /\ head = [p \in Port |-> 0]
  /\ tail = [p \in Port |-> 0]
  /\ count = [p \in Port |-> 0]
  /\ blocked_pid = [p \in Port |-> 0]

(* Mutant: a full queue is not refused. *)
MutEnqueueUnbounded(p, m) ==
  /\ queue' = [queue EXCEPT ![p][tail[p]] = m]
  /\ tail' = [tail EXCEPT ![p] = Wrap(@ + 1)]
  /\ count' = [count EXCEPT ![p] = IF @ < IPC_QUEUE_MAX THEN @ + 1 ELSE @]
  /\ UNCHANGED head

Enqueue(p, m) ==
  IF count[p] >= IPC_QUEUE_MAX
  THEN UNCHANGED <<queue, head, tail, count>>
  ELSE /\ queue' = [queue EXCEPT ![p][tail[p]] = m]
       /\ tail' = [tail EXCEPT ![p] = Wrap(@ + 1)]
       /\ count' = [count EXCEPT ![p] = @ + 1]
       /\ UNCHANGED head

(* Mutant: the waiter is forgotten only when the queue is full. *)
MutSendKeepsWaiter(p, m) ==
  /\ blocked_pid' = [blocked_pid EXCEPT ![p] = IF count[p] >= IPC_QUEUE_MAX THEN 0 ELSE @]
  /\ Enqueue(p, m)
  /\ UNCHANGED vars

(* ipc_send() forgets who waits on the port, whether or not there is room  *)
(* for the message, and makes nobody ready.                                *)
Send(p, m) ==
  /\ blocked_pid' = [blocked_pid EXCEPT ![p] = 0]
  /\ Enqueue(p, m)
  /\ UNCHANGED vars

IpcSend == cpu # NobodyHere /\ \E p \in Port, m \in Msg : Send(p, m)

(* ipc_notify() sends to the first port whose waiter is the pid it is      *)
(* given; none is an error.  Any number may be given: the pid of a process *)
(* that has exited since it waited, or 0xFFFFFFFF, the -1 of a port that   *)
(* nobody waits on (0 here), which finds the first of those.               *)
IpcNotify ==
  /\ cpu # NobodyHere
  /\ \E target \in 0 .. MaxPid, p \in Port :
       /\ FirstOf(p, {q \in Port : blocked_pid[q] = target})
       /\ Send(p, Notice)

(* ipc_receive() with a message waiting. *)
Dequeue(p) ==
  /\ cpu # NobodyHere
  /\ count[p] > 0
  /\ head' = [head EXCEPT ![p] = Wrap(@ + 1)]
  /\ count' = [count EXCEPT ![p] = @ - 1]
  /\ UNCHANGED <<queue, tail, blocked_pid, vars>>

(* ipc_receive() with nothing to receive: the one place that blocks. *)
ReceiveEmpty(p) ==
  /\ count[p] = 0
  /\ Block
  /\ blocked_pid' = [blocked_pid EXCEPT ![p] = pid[current_proc]]
  /\ UNCHANGED <<queue, head, tail, count>>

ProcessStep ==
  /\ \/ Create
     \/ Fork
     \/ Launch
     \/ Exit
     \/ \E p \in 0 .. MaxPid : WaitPid(p)
     \/ Tick
  /\ UNCHANGED ports

IpcNext ==
  \/ ProcessStep
  \/ IpcSend
  \/ IpcNotify
  \/ \E p \in Port : Dequeue(p)
  \/ \E p \in Port : ReceiveEmpty(p)

IpcSpec == IpcInit /\ [][IpcNext]_ipcvars

-----------------------------------------------------------------------------
(* The messages of a port, oldest first. *)
Contents(p) == [i \in 1 .. count[p] |-> queue[p][Wrap(head[p] + i - 1)]]

PortsTypeOK ==
  /\ queue \in [Port -> [Index -> Entry]]
  /\ head \in [Port -> Index]
  /\ tail \in [Port -> Index]
  /\ count \in [Port -> 0 .. IPC_QUEUE_MAX]
  /\ blocked_pid \in [Port -> Nat]

(* Whoever ipc.c remembers as waiting on a port waits on an empty one: a   *)
(* message never lies in a port behind the back of a receiver that is      *)
(* still down as waiting there, so that a later ipc_notify() for it cannot *)
(* go to a port it has been served on (ipc.c:34-41, 73-75).                *)
WaiterSeesEmpty == \A p \in Port : blocked_pid[p] # 0 => count[p] = 0

(* ipc.c keeps head, tail and count of a port in step, so that each port   *)
(* is a FIFO that refuses what it cannot hold, whoever sends, notifies and *)
(* receives in whatever order.                                             *)
Fifo == INSTANCE BoundedFifo
          WITH Capacity <- IPC_QUEUE_MAX, queue <- [p \in Port |-> Contents(p)]
PortsAreFifo == Fifo!Spec
=============================================================================
