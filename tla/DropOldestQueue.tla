-------------------------- MODULE DropOldestQueue --------------------------
(***************************************************************************)
(* What an input queue of the kernel promises its reader: a bounded FIFO   *)
(* that never blocks its writer.  A writer that finds the queue full       *)
(* pushes the oldest entry out; a reader takes the oldest entry, or is     *)
(* told that there is none, and a read takes one entry at most.            *)
(* KbdQueue implements it, under the conditions stated there.              *)
(***************************************************************************)
EXTENDS Naturals, Sequences

CONSTANTS
  Capacity,  \* entries the queue can hold, at least one
  Entry,     \* what can be pushed
  NoEntry    \* what a reader of an empty queue is given

VARIABLES
  queue,  \* the entries, oldest first
  last    \* what the last completed read returned

vars == <<queue, last>>

Init ==
  /\ queue = << >>
  /\ last = NoEntry

Push(e) ==
  /\ queue' = IF Len(queue) < Capacity
              THEN Append(queue, e)
              ELSE Append(Tail(queue), e)
  /\ UNCHANGED last

Pop ==
  /\ queue # << >>
  /\ last' = Head(queue)
  /\ queue' = Tail(queue)

PopNone ==
  /\ queue = << >>
  /\ last' = NoEntry
  /\ UNCHANGED queue

Next == (\E e \in Entry : Push(e)) \/ Pop \/ PopNone

Spec == Init /\ [][Next]_vars
=============================================================================
