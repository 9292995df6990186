------------------------- MODULE CountingSemaphore -------------------------
(***************************************************************************)
(* What the semaphores of the kernel promise: a process gets past a wait   *)
(* by taking a unit that is there, or because the semaphore is closed.     *)
(***************************************************************************)
EXTENDS Integers

CONSTANTS Procs, Sems, Closed, NoSem, Values

VARIABLES
    count,    \* count[s], the units of semaphore s, or Closed
    asking    \* asking[p], the semaphore process p waits for, or NoSem

Init == /\ count = [s \in Sems |-> Closed]
        /\ asking = [p \in Procs |-> NoSem]

Open(s, v) == /\ count[s] = Closed
              /\ count' = [count EXCEPT ![s] = v]
              /\ UNCHANGED asking

Close(s) == count' = [count EXCEPT ![s] = Closed] /\ UNCHANGED asking

Ask(p, s) == /\ asking[p] = NoSem /\ count[s] = 0
             /\ asking' = [asking EXCEPT ![p] = s]
             /\ UNCHANGED count

Take(p, s) == /\ asking[p] \in {NoSem, s}
              /\ count[s] # Closed /\ count[s] > 0
              /\ count' = [count EXCEPT ![s] = @ - 1]
              /\ asking' = [asking EXCEPT ![p] = NoSem]

Leave(p) == /\ asking[p] # NoSem /\ count[asking[p]] = Closed
            /\ asking' = [asking EXCEPT ![p] = NoSem]
            /\ UNCHANGED count

Post(s) == /\ count[s] # Closed
           /\ count' = [count EXCEPT ![s] = @ + 1]
           /\ UNCHANGED asking

Next ==
    \/ \E s \in Sems : Close(s) \/ Post(s) \/ \E v \in Values : Open(s, v)
    \/ \E p \in Procs : Leave(p) \/ \E s \in Sems : Ask(p, s) \/ Take(p, s)

Spec == Init /\ [][Next]_<<count, asking>>
=============================================================================
