------------------------------ MODULE PCBQueue ------------------------------
(***************************************************************************)
(* The ring of pointers behind every ready queue and the queue of dead     *)
(* processes (Kernel/scheduler/pcb-queueADT.c).  The number of entries is  *)
(* kept in a uint8_t while the ring has MAX_PROCESSES = 1024 places, so    *)
(* the ring is what its header says only while the counter does not wrap.  *)
(***************************************************************************)
EXTENDS Integers, Sequences

CONSTANTS
    Procs,          \* the processes
    MaxProcesses,   \* MAX_PROCESSES, the places of the ring
    SizeMod,        \* the counter of entries wraps here (2^8 in the code)
    Null            \* the NULL that dequeue returns, and what memory holds at first

ASSUME RingOK ==
    /\ MaxProcesses \in Nat /\ MaxProcesses > 0
    /\ SizeMod \in Nat /\ SizeMod > 0
    /\ Null \notin Procs

Places == 0 .. MaxProcesses - 1

VARIABLES
    queue,    \* queue[i]
    head,     \* where the next process goes
    tail,     \* where the oldest process is
    size,     \* the counter
    result    \* what the last call returned

qvars == <<queue, head, tail, size, result>>

(* new_PCBQueueADT; it does not clear the places, which Null stands for. *)
QInit ==
    /\ queue = [i \in Places |-> Null]
    /\ head = 0 /\ tail = 0 /\ size = 0
    /\ result = 0

NextPlacePast(i) == i + 1       \* mutant: the index never wraps
NextPlaceShort(i) ==            \* mutant: the last place is skipped
    IF i + 2 < MaxProcesses THEN i + 1 ELSE 0
NextPlace(i) == (i + 1) % MaxProcesses

(* enqueue_process *)
Enqueue(p) ==
    \/ /\ size = MaxProcesses
       /\ result' = -1
       /\ UNCHANGED <<queue, head, tail, size>>
    \/ /\ size # MaxProcesses
       /\ queue' = [queue EXCEPT ![head] = p]
       /\ head' = NextPlace(head)
       /\ size' = (size + 1) % SizeMod
       /\ result' = 0
       /\ UNCHANGED tail

(* dequeue_process *)
DequeueUnchecked ==   \* mutant: takes from an empty queue too
    /\ result' = queue[tail]
    /\ tail' = NextPlace(tail)
    /\ size' = IF size = 0 THEN SizeMod - 1 ELSE size - 1
    /\ UNCHANGED <<queue, head>>
Dequeue ==
    \/ /\ size = 0
       /\ result' = Null
       /\ UNCHANGED <<queue, head, tail, size>>
    \/ /\ size # 0
       /\ result' = queue[tail]
       /\ tail' = NextPlace(tail)
       /\ size' = size - 1
       /\ UNCHANGED <<queue, head>>

QNext == Dequeue \/ \E p \in Procs : Enqueue(p)

QSpec == QInit /\ [][QNext]_qvars

(* The kernel while it queues fewer processes than the counter can count. *)
CountedNext == Dequeue \/ (size + 1 < SizeMod /\ \E p \in Procs : Enqueue(p))

CountedSpec == QInit /\ [][CountedNext]_qvars

-----------------------------------------------------------------------------
QTypeOK ==
    /\ queue \in [Places -> Procs \cup {Null}]
    /\ head \in Places /\ tail \in Places
    /\ size \in 0 .. SizeMod - 1
    /\ result \in Procs \cup {Null, 0, -1}

(* The counter agrees with the two ends of the ring, and every place between
   them holds a process: no entry is overwritten or read before it is written. *)
Place(i) == (tail + i - 1) % MaxProcesses
RingShape ==
    /\ size <= MaxProcesses
    /\ head = (tail + size) % MaxProcesses
    /\ \A i \in 1 .. size : queue[Place(i)] \in Procs

(* The ring is the queue of the header. *)
Items == [i \in 1 .. size |-> queue[Place(i)]]
Promise == INSTANCE Fifo WITH items <- Items, result <- result, Capacity <- MaxProcesses
KeepsPromise == Promise!Spec

=============================================================================
