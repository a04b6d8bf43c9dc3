---------------------------- MODULE BoundedFifo ----------------------------
(***************************************************************************)
(* What an IPC port promises: messages arrive in the order they were sent, *)
(* each once; a sender is refused while the port holds Capacity messages,  *)
(* and nothing already accepted is lost.  Ipc implements it.               *)
(***************************************************************************)
EXTENDS Naturals, Sequences

CONSTANTS
  Port,      \* the ports
  Capacity,  \* messages a port can hold
  Entry      \* what can be sent

VARIABLE queue  \* of each port: accepted and not yet received, oldest first

Init == queue = [p \in Port |-> << >>]

Accept(p, e) ==
  /\ Len(queue[p]) < Capacity
  /\ queue' = [queue EXCEPT ![p] = Append(@, e)]

Deliver(p) ==
  /\ queue[p] # << >>
  /\ queue' = [queue EXCEPT ![p] = Tail(@)]

Next == \E p \in Port : Deliver(p) \/ \E e \in Entry : Accept(p, e)

Spec == Init /\ [][Next]_queue
=============================================================================
