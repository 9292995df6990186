-------------------------------- MODULE Fifo --------------------------------
(***************************************************************************)
(* What pcb-queueADT.h promises of a queue of processes: enqueue adds at   *)
(* the end and returns 0, or -1 when the queue is full; dequeue takes the  *)
(* oldest one, or returns NULL when the queue is empty.                    *)
(***************************************************************************)
EXTENDS Integers, Sequences

CONSTANTS Procs, Capacity, Null

VARIABLES
    items,   \* the processes in the queue, the oldest first
    result   \* what the last call returned

Init == items = <<>> /\ result = 0

Enqueue(p) ==
    \/ /\ Len(items) < Capacity
       /\ items' = Append(items, p)
       /\ result' = 0
    \/ /\ Len(items) = Capacity
       /\ items' = items
       /\ result' = -1

Dequeue ==
    \/ items # <<>> /\ result' = Head(items) /\ items' = Tail(items)
    \/ items = <<>> /\ result' = Null /\ items' = items

Next == Dequeue \/ \E p \in Procs : Enqueue(p)

Spec == Init /\ [][Next]_<<items, result>>
=============================================================================
