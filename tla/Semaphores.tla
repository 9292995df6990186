----------------------------- MODULE Semaphores -----------------------------
(***************************************************************************)
(* The semaphores of the kernel (Kernel/semaphores/semaphores.c) and what  *)
(* the processes that use them may undergo: to be preempted, blocked,      *)
(* unblocked and killed at any moment.                                     *)
(*                                                                         *)
(* A handler runs with interrupts off, so a system call is one step up to  *)
(* the call_int_20 in which sem_wait gives the processor away; what comes  *)
(* after it is done in the step that dispatches the process again.  The    *)
(* choice of the next process is the scheduler's (Processes): here any     *)
(* ready one.  READY is for RUNNING too.                                   *)
(***************************************************************************)
EXTENDS Integers, FiniteSets

CONSTANTS
    Procs,           \* the pids of the processes; one that ends is not replaced
    MaxSemaphores,   \* MAX_SEMAPHORES
    MaxProcesses,    \* MAX_PROCESSES, the places of waiting_processes
    NotAProcess,     \* NOT_A_PROCESS
    Idle,            \* the idle process, which uses no semaphore
    Closed,          \* the count of a semaphore that is not in use
    ValueBound       \* bound: posts keep a value up to this

ASSUME SemaphoresOK ==
    /\ IsFiniteSet(Procs) /\ NotAProcess \notin Procs /\ Idle \notin Procs
    /\ MaxSemaphores \in Nat
    /\ MaxProcesses \in Nat /\ Cardinality(Procs) < MaxProcesses
    /\ ValueBound \in Nat /\ Closed \notin Nat

Sems   == 0 .. MaxSemaphores - 1
Places == 0 .. MaxProcesses - 1
NoSem  == -1

VARIABLES
    used,       \* used[s]: state is SEMAPHORE_USED
    value,      \* value[s]
    waiting,    \* waiting[s], the ring waiting_processes
    first,      \* current_index[s]: the next one to wake
    last,       \* last_index[s]: the next free place
    state,      \* state[p] in the process table
    at,         \* at[p]: the semaphore in whose sem_wait p is, or NoSem
    running,    \* the process that runs, or Idle
    calm        \* history: nothing but a post or a close has touched a waiter

semaphores == <<used, value, waiting, first, last>>
vars == <<used, value, waiting, first, last, state, at, running, calm>>

Init ==
    /\ used = [s \in Sems |-> FALSE]
    /\ value = [s \in Sems |-> 0]
    /\ waiting = [s \in Sems |-> [i \in Places |-> NotAProcess]]
    /\ first = [s \in Sems |-> 0]
    /\ last = [s \in Sems |-> 0]
    /\ state = [p \in Procs |-> "READY"]
    /\ at = [p \in Procs |-> NoSem]
    /\ running = Idle
    /\ calm = TRUE

-----------------------------------------------------------------------------
NextIndexPast(i) == i + 1      \* mutant: the index never wraps
NextIndex(i) == (i + 1) % MaxProcesses

(* wake_up_process, of processes that do not sleep, and block_process. *)
Awake(st, set) == [p \in Procs |-> IF p \in set /\ st[p] = "BLOCKED" THEN "READY" ELSE st[p]]
Stopped(p) == IF state[p] = "READY" THEN [state EXCEPT ![p] = "BLOCKED"] ELSE state

(* The loop of sem_wait, entered by p, or gone on with when p runs again. *)
Queued(p, s) ==
    /\ waiting' = [waiting EXCEPT ![s][last[s]] = p]
    /\ last' = [last EXCEPT ![s] = NextIndex(@)]
    /\ state' = Stopped(p)
    /\ at' = [at EXCEPT ![p] = s]
    /\ running' = Idle
    /\ UNCHANGED <<used, value, first>>
Taken(p, s) ==
    /\ value' = [value EXCEPT ![s] = @ - 1]
    /\ at' = [at EXCEPT ![p] = NoSem]
    /\ running' = p
    /\ UNCHANGED <<used, waiting, first, last, state>>
Left(p) ==
    /\ at' = [at EXCEPT ![p] = NoSem]
    /\ running' = p
    /\ UNCHANGED <<semaphores, state>>

(* sem_wait, up to its return or to call_int_20. *)
Wait(p, s) ==
    /\ running = p /\ used[s]
    /\ \/ value[s] > 0 /\ Taken(p, s) /\ UNCHANGED calm
       \/ /\ value[s] = 0 /\ Queued(p, s)
          /\ calm' = (calm /\ state[p] = "READY")

(* The scheduler gives the processor to p; one that is in sem_wait goes on
   there, whatever woke it. *)
GoOnOnce(p, s) ==       \* mutant: an if in the place of the while
    \/ used[s] /\ Taken(p, s)
    \/ ~used[s] /\ Left(p)
GoOn(p, s) ==
    \/ used[s] /\ value[s] > 0 /\ Taken(p, s)
    \/ used[s] /\ value[s] = 0 /\ Queued(p, s)
    \/ ~used[s] /\ Left(p)
Dispatch(p) ==
    /\ state[p] = "READY" /\ running # p
    /\ \/ at[p] = NoSem /\ running' = p /\ UNCHANGED <<semaphores, state, at>>
       \/ at[p] # NoSem /\ GoOn(p, at[p])
    /\ UNCHANGED calm

(* The processor leaves a dead process while no other is ready. *)
DispatchIdle ==
    /\ running # Idle /\ \A p \in Procs : state[p] # "READY"
    /\ running' = Idle
    /\ UNCHANGED <<semaphores, state, at, calm>>

(* sem_post, when the table is st; hand is the process it should wake. *)
PostedKept(s, st) ==        \* mutant: the woken process stays in the ring
    LET hand == waiting[s][first[s]] IN
    /\ value' = [value EXCEPT ![s] = @ + 1]
    /\ first' = [first EXCEPT ![s] = IF hand = NotAProcess THEN @ ELSE NextIndex(@)]
    /\ state' = Awake(st, {hand})
    /\ UNCHANGED <<used, waiting, last>>
PostedUnread(s, st) ==      \* mutant: posts to a semaphore with units wake nobody
    LET hand == IF value[s] = 0 THEN waiting[s][first[s]] ELSE NotAProcess IN
    /\ value' = [value EXCEPT ![s] = @ + 1]
    /\ waiting' = [waiting EXCEPT ![s][first[s]] = IF hand = NotAProcess THEN @ ELSE NotAProcess]
    /\ first' = [first EXCEPT ![s] = IF hand = NotAProcess THEN @ ELSE NextIndex(@)]
    /\ state' = Awake(st, {hand})
    /\ UNCHANGED <<used, last>>
Posted(s, st) ==
    LET hand == waiting[s][first[s]] IN
    /\ value' = [value EXCEPT ![s] = @ + 1]
    /\ waiting' = [waiting EXCEPT ![s][first[s]] = NotAProcess]
    /\ first' = [first EXCEPT ![s] = IF hand = NotAProcess THEN @ ELSE NextIndex(@)]
    /\ state' = Awake(st, {hand})
    /\ UNCHANGED <<used, last>>

Post(p, s) ==
    /\ running = p /\ used[s] /\ value[s] < ValueBound
    /\ Posted(s, state)
    /\ UNCHANGED <<at, running, calm>>

(* create_sem: the first free one. *)
Open(p, v) ==
    /\ running = p
    /\ \E s \in Sems :
        /\ ~used[s] /\ \A r \in 0 .. s - 1 : used[r]
        /\ used' = [used EXCEPT ![s] = TRUE]
        /\ value' = [value EXCEPT ![s] = v]
    /\ UNCHANGED <<waiting, first, last, state, at, running, calm>>

(* destroy_sem: those between the two indices are woken. *)
Ahead(s, k) == (first[s] + k) % MaxProcesses
Between(s)  == (last[s] - first[s] + MaxProcesses) % MaxProcesses
Listed(s)   == {waiting[s][Ahead(s, k)] : k \in 0 .. Between(s) - 1}
Close(p, s) ==
    /\ running = p /\ used[s]
    /\ state' = Awake(state, Listed(s))
    /\ used' = [used EXCEPT ![s] = FALSE]
    /\ value' = [value EXCEPT ![s] = 0]
    /\ waiting' = [waiting EXCEPT ![s] = [i \in Places |-> NotAProcess]]
    /\ first' = [first EXCEPT ![s] = 0]
    /\ last' = [last EXCEPT ![s] = 0]
    /\ UNCHANGED <<at, running, calm>>

(* block_process and wake_up_process, called by p for another process. *)
Block(p, q) ==
    /\ running = p /\ q # p /\ state[q] = "READY"
    /\ state' = Stopped(q)
    /\ calm' = (calm /\ at[q] = NoSem)
    /\ UNCHANGED <<semaphores, at, running>>
Unblock(p, q) ==
    /\ running = p /\ q # p /\ state[q] = "BLOCKED"
    /\ state' = Awake(state, {q})
    /\ calm' = (calm /\ at[q] = NoSem)
    /\ UNCHANGED <<semaphores, at, running>>

(* kill_process, by sys_kill, sys_exit or Ctrl+C.  It posts the semaphore on
   which q is waited for, if any: s is what wait_process has put there, which
   is not followed here and may be any. *)
Killed(q) == [state EXCEPT ![q] = "TERMINATED"]
Kill(q, s) ==
    /\ \/ /\ s \in Sems => ~used[s]
          /\ state' = Killed(q)
          /\ UNCHANGED semaphores
       \/ /\ s \in Sems /\ used[s] /\ value[s] < ValueBound
          /\ Posted(s, Killed(q))
    /\ calm' = (calm /\ (at[q] = NoSem \/ state[q] = "TERMINATED"))
    /\ UNCHANGED <<at, running>>

Next ==
    \/ DispatchIdle
    \/ \E p \in Procs :
        \/ Dispatch(p)
        \/ \E v \in 0 .. ValueBound : Open(p, v)
        \/ \E s \in Sems : Wait(p, s) \/ Post(p, s) \/ Close(p, s)
        \/ \E q \in Procs : Block(p, q) \/ Unblock(p, q)
        \/ \E s \in Sems \cup {NoSem} : Kill(p, s)

Spec == Init /\ [][Next]_vars

(* The timer keeps ticking and every level of priority may be drawn: a process
   that stays ready runs in the end (NoStarvation of Processes). *)
FairSpec == Spec /\ \A p \in Procs : WF_vars(Dispatch(p))

-----------------------------------------------------------------------------
TypeOK ==
    /\ used \in [Sems -> BOOLEAN]
    /\ value \in [Sems -> 0 .. ValueBound]
    /\ waiting \in [Sems -> [Places -> Procs \cup {NotAProcess}]]
    /\ first \in [Sems -> Places] /\ last \in [Sems -> Places]
    /\ state \in [Procs -> {"READY", "BLOCKED", "TERMINATED"}]
    /\ at \in [Procs -> Sems \cup {NoSem}]
    /\ running \in Procs \cup {Idle}
    /\ calm \in BOOLEAN

Waiters(s) == {p \in Procs : at[p] = s /\ state[p] = "BLOCKED"}
Woken(s)   == {p \in Procs : at[p] = s /\ state[p] = "READY"}

(* The ring of a semaphore lists, each once, exactly the processes that are
   blocked in its sem_wait, and has no one outside its two indices: through
   wrapping, closing with processes inside and opening again under the same
   number (sem_wait, sem_post, destroy_sem). *)
RingListsWaiters ==
    calm => \A s \in Sems :
        /\ Listed(s) = Waiters(s)
        /\ Cardinality(Waiters(s)) = Between(s)
        /\ \A k \in Between(s) .. MaxProcesses - 1 :
              waiting[s][Ahead(s, k)] = NotAProcess

(* No process sleeps in sem_wait beside units that nobody is on the way to
   take: sem_post wakes as many as it adds units, whoever comes in between. *)
NoLostWakeup ==
    calm => \A s \in Sems :
        Waiters(s) = {} \/ value[s] <= Cardinality(Woken(s))

(* Whatever is blocked, unblocked or killed, nobody passes sem_wait without a
   unit unless the semaphore was closed, and no unit is lost or made up: the
   loop around call_int_20 makes a wake-up out of turn harmless. *)
Count == [s \in Sems |-> IF used[s] THEN value[s] ELSE Closed]
Promise == INSTANCE CountingSemaphore WITH
    count <- Count, asking <- at, Values <- 0 .. ValueBound
KeepsPromise == Promise!Spec

(* Units that are posted while processes wait do not stay there: they are
   taken, or nobody waits any more, or the semaphore is closed. *)
PostedIsTaken ==
    \A s \in Sems :
        used[s] /\ value[s] > 0 /\ Waiters(s) # {}
            ~> ~used[s] \/ value[s] = 0 \/ Waiters(s) = {} \/ ~calm

=============================================================================
