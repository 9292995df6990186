------------------------------ MODULE Processes ------------------------------
(***************************************************************************)
(* The process table, the ready queues, the scheduler and the sleep        *)
(* manager of the kernel (Kernel/scheduler/), as one machine.              *)
(*                                                                         *)
(* System calls and interrupts enter the kernel through interrupt gates,   *)
(* so a handler runs with interrupts off and is one step, up to its call   *)
(* of scheduler().  A semaphore is here only what it does to the table: it *)
(* blocks the running process (SemBlock) and wakes some other (SemPost, or *)
(* the waiter that a kill posts).  Foreground, parents and children are    *)
(* left to other modules: CtrlC takes any process as the foreground one,   *)
(* and whether the caller still has a child slot is an input of Create.    *)
(***************************************************************************)
EXTENDS Integers, Sequences, FiniteSets

CONSTANTS
    MaxProcesses,    \* MAX_PROCESSES, the slots of process_table and sleep_queue
    PriorityLevels,  \* PRIORITY_LEVELS
    Naps,            \* the lengths, in ticks, of the sleeps that are asked for
    Outcomes,        \* how the allocations of create_process may end
    CountMod,        \* process_count wraps here (2^32 in the code)
    PidBound,        \* bound: processes are created while next_pid < PidBound
    QueueBound       \* bound: the length up to which system calls fill a queue

ASSUME ConstantsOK ==
    /\ MaxProcesses \in Nat /\ MaxProcesses > 1
    /\ PriorityLevels \in Nat /\ PriorityLevels > 0
    /\ Naps \subseteq Nat \ {0}
    /\ Outcomes \subseteq {"ok", "no stack", "no child slot"}
    /\ CountMod \in Nat /\ CountMod > MaxProcesses
    /\ PidBound \in Nat /\ PidBound > 1
    /\ QueueBound \in Nat

Slots      == 0 .. MaxProcesses - 1
Idle       == 0        \* process_table[0]; its pid is 0 as well
Shell      == 1        \* the slot, and the pid, of the first process
Priorities == 0 .. PriorityLevels - 1
States     == {"READY", "RUNNING", "BLOCKED", "SLEEPING", "TERMINATED"}
Free       == [pid |-> 0, left |-> 0]   \* an empty entry of sleep_queue

VARIABLES
    pid,            \* pid[s], 0 for a slot that was never used
    state,          \* state[s]
    previous,       \* previous[s], where a wake-up takes the process back to
    priority,       \* priority[s]
    stack,          \* "none" (no stack_base), "raw" (allocated), "frame" (can be resumed)
    readyQ,         \* process_queues
    termQ,          \* terminated_processes_queue
    current,        \* current_process
    nextPid,        \* next_pid
    processCount,   \* process_count
    systemRunning,  \* system_running
    sleepQ          \* sleep_queue; left is sleep_time - ticks, never below 0

table == <<pid, state, previous, priority, stack>>
vars  == <<pid, state, previous, priority, stack, readyQ, termQ, current,
           nextPid, processCount, systemRunning, sleepQ>>

Entries(q) == {q[i] : i \in 1 .. Len(q)}

(* When main() enables interrupts: the idle process has been set up and the
   shell created by it; every other slot is TERMINATED. *)
Init ==
    /\ pid = [s \in Slots |-> IF s = Shell THEN 1 ELSE 0]
    /\ state = [s \in Slots |-> IF s \in {Idle, Shell} THEN "READY" ELSE "TERMINATED"]
    /\ previous = [s \in Slots |-> IF s \in {Idle, Shell} THEN "TERMINATED" ELSE "READY"]
    /\ priority = [s \in Slots |-> 0]
    /\ stack = [s \in Slots |-> IF s \in {Idle, Shell} THEN "frame" ELSE "none"]
    /\ readyQ = [l \in Priorities |-> IF l = 0 THEN <<Shell>> ELSE <<>>]
    /\ termQ = <<>>
    /\ current = Idle
    /\ nextPid = 2
    /\ processCount = 2
    /\ systemRunning = TRUE
    /\ sleepQ = [i \in Slots |-> Free]

-----------------------------------------------------------------------------
(* The scheduler.  A handler hands it the table and the queues it has made. *)

(* free_terminated_processes: what is left of the processes in the queue. *)
ReapedUnmarked(st, tq) == st     \* mutant: the slot keeps its state
Reaped(st, tq) ==
    [s \in Slots |-> IF s \in Entries(tq) THEN "TERMINATED" ELSE st[s]]

CountAfter(tq) == (processCount - Len(tq)) % CountMod

Resumable(x) == IF x = "RUNNING" THEN "READY" ELSE x

(* set_next_process: the process that was running goes to the end of its
   queue; one that is blocked, asleep or dead does not. *)
PreemptedNever(st) == st         \* mutant: what ran stays RUNNING
Preempted(st) ==
    [s \in Slots |-> IF s = current THEN Resumable(st[s]) ELSE st[s]]
RequeuedFirst(st, rq) ==         \* mutant: what ran goes to the front
    [rq EXCEPT ![priority[current]] =
        IF st[current] = "RUNNING" /\ current # Idle THEN <<current>> \o @ ELSE @]
Requeued(st, rq) ==
    IF st[current] = "RUNNING" /\ current # Idle
    THEN [rq EXCEPT ![priority[current]] = Append(@, current)]
    ELSE rq
Saved(stk, tq) ==
    [s \in Slots |-> CASE s \in Entries(tq) -> "none"
                       [] s \notin Entries(tq) /\ s = current -> "frame"
                       [] OTHER -> stk[s]]

(* get_next_process: the entries of queue l it would not throw away, and the
   order in which it scans the queues from the level it has drawn. *)
RunnableHead(st, rq, l) ==       \* mutant: one entry is tried, not all
    {i \in {1} : Len(rq[l]) > 0 /\ st[rq[l][i]] = "READY" /\ priority[rq[l][i]] = l}
Runnable(st, rq, l) ==
    {i \in 1 .. Len(rq[l]) : st[rq[l][i]] = "READY" /\ priority[rq[l][i]] = l}
Turn(start, l) == (l - start + PriorityLevels) % PriorityLevels

Dispatch(s, st) ==
    /\ current' = s
    /\ state' = [st EXCEPT ![s] = "RUNNING"]

TakeEntry(start, st, rq, l, i) ==
    /\ \A j \in Runnable(st, rq, l) : i <= j
    /\ \A m \in Priorities :
          Turn(start, m) < Turn(start, l) => Runnable(st, rq, m) = {}
    /\ readyQ' = [m \in Priorities |->
          CASE m = l -> SubSeq(rq[l], i + 1, Len(rq[l]))
            [] m # l /\ Turn(start, m) < Turn(start, l) -> <<>>
            [] OTHER -> rq[m]]
    /\ Dispatch(rq[l][i], st)

TakeIdle(st, rq) ==
    /\ \A m \in Priorities : Runnable(st, rq, m) = {}
    /\ readyQ' = [m \in Priorities |-> <<>>]
    /\ Dispatch(Idle, st)

GetNext(start, st, rq) ==
    \/ \E l \in Priorities : \E i \in Runnable(st, rq, l) : TakeEntry(start, st, rq, l, i)
    \/ TakeIdle(st, rq)

(* scheduler: the queues are left alone when the system stops, and the idle
   process that is resumed then only turns the machine off. *)
HasRunningProcesses(count) == systemRunning /\ count > 1
Scheduler(start, st, rq, tq) ==
    /\ termQ' = <<>>
    /\ processCount' = CountAfter(tq)
    /\ stack' = Saved(stack, tq)
    /\ \/ /\ HasRunningProcesses(CountAfter(tq))
          /\ UNCHANGED systemRunning
          /\ GetNext(start, Preempted(Reaped(st, tq)), Requeued(Reaped(st, tq), rq))
       \/ /\ ~HasRunningProcesses(CountAfter(tq))
          /\ systemRunning' = FALSE
          /\ state' = Reaped(st, tq)
          /\ readyQ' = rq
          /\ UNCHANGED current

-----------------------------------------------------------------------------
(* Helpers that change the table, shared by the handlers. *)

(* block_process and sleep_process (as is "BLOCKED" or "SLEEPING") refuse a
   process that is dead or already there, and keep where it came from. *)
Suspended(s, as) ==
    IF state[s] \in {"TERMINATED", as} THEN state ELSE [state EXCEPT ![s] = as]
Remembered(s, as) ==
    IF state[s] \in {"TERMINATED", as}
    THEN previous
    ELSE [previous EXCEPT ![s] = Resumable(state[s])]

(* wake_up_process on a BLOCKED process: a sleeper whose time has not come
   goes back to sleep (is_sleeping_time_expired clears an entry that is due,
   and takes a missing one for one that is). *)
Expired(s) == \A i \in Slots : sleepQ[i].pid = pid[s] => sleepQ[i].left = 0
WakesToReady(s) == "READY"       \* mutant: forgets that it was asleep
WakesTo(s) ==
    CASE previous[s] # "SLEEPING" -> previous[s]
      [] previous[s] = "SLEEPING" /\ Expired(s) -> "READY"
      [] OTHER -> "SLEEPING"
Woken(st, s) == IF st[s] = "BLOCKED" THEN [st EXCEPT ![s] = WakesTo(s)] ELSE st
WokenQueueTop(st, s) ==          \* mutant: always the first queue
    IF st[s] = "BLOCKED" /\ WakesTo(s) = "READY"
    THEN [readyQ EXCEPT ![0] = Append(@, s)]
    ELSE readyQ
WokenQueue(st, s) ==
    IF st[s] = "BLOCKED" /\ WakesTo(s) = "READY"
    THEN [readyQ EXCEPT ![priority[s]] = Append(@, s)]
    ELSE readyQ
WokenSleepQKept(st, s) == sleepQ \* mutant: the entry that is due is kept
WokenSleepQ(st, s) ==
    [i \in Slots |->
        IF /\ st[s] = "BLOCKED" /\ previous[s] = "SLEEPING"
           /\ sleepQ[i].pid = pid[s] /\ sleepQ[i].left = 0
        THEN Free ELSE sleepQ[i]]

(* A system call is made by the process that runs.  One that Ctrl+C has
   killed goes on until the next call of scheduler(). *)
InSyscall == systemRunning /\ current # Idle

(* The slots that a search by pid can find: pid 0 is the idle process. *)
Named == {s \in Slots : pid[s] # 0 \/ s = Idle}

-----------------------------------------------------------------------------
(* The timer interrupt: timer_handler wakes the sleepers that are due, in the
   order of their entries, and scheduler() draws the level start. *)

Aged == [i \in Slots |->
            IF sleepQ[i].left > 0 THEN [sleepQ[i] EXCEPT !.left = @ - 1] ELSE sleepQ[i]]
IsSleeping(s) == state[s] = "SLEEPING"
Due == {s \in Slots : IsSleeping(s)
                       /\ \E i \in Slots : Aged[i] = [pid |-> pid[s], left |-> 0]}
EntryOf(s) == CHOOSE i \in Slots : sleepQ[i].pid = pid[s]
InEntryOrder(D) ==
    {w \in [1 .. Cardinality(D) -> D] :
        /\ \A s \in D : \E k \in 1 .. Cardinality(D) : w[k] = s
        /\ \A j, k \in 1 .. Cardinality(D) : j < k => EntryOf(w[j]) < EntryOf(w[k])}
ReadyAt(l) == {s \in Due : previous[s] = "READY" /\ priority[s] = l}
UnsleptNobody == state           \* mutant: the pid is cleared before it is used
Unslept == [s \in Slots |-> IF s \in Due THEN previous[s] ELSE state[s]]

Tick(start) ==
    /\ systemRunning
    /\ sleepQ' = [i \in Slots |->
          IF \E s \in Due : Aged[i] = [pid |-> pid[s], left |-> 0] THEN Free ELSE Aged[i]]
    /\ \E woken \in [Priorities -> UNION {InEntryOrder(D) : D \in SUBSET Due}] :
          /\ \A l \in Priorities : woken[l] \in InEntryOrder(ReadyAt(l))
          /\ Scheduler(start, Unslept, [l \in Priorities |-> readyQ[l] \o woken[l]], termQ)
    /\ UNCHANGED <<pid, previous, priority, nextPid>>

(* sys_sched_yield, and the switch of any call that has nothing else to do. *)
Yield(start) ==
    /\ InSyscall
    /\ Scheduler(start, state, readyQ, termQ)
    /\ UNCHANGED <<pid, previous, priority, nextPid, sleepQ>>

(* sys_sleep, when sleep_queue has an empty entry (else it returns -1). *)
Sleep(start, n) ==
    /\ InSyscall
    /\ \E i \in Slots :
          /\ sleepQ[i].pid = 0
          /\ \A j \in 0 .. i - 1 : sleepQ[j].pid # 0
          /\ sleepQ' = [sleepQ EXCEPT ![i] = [pid |-> pid[current], left |-> n]]
    /\ previous' = Remembered(current, "SLEEPING")
    /\ Scheduler(start, Suspended(current, "SLEEPING"), readyQ, termQ)
    /\ UNCHANGED <<pid, priority, nextPid>>

(* sem_wait on a semaphore whose value is 0. *)
SemBlock(start) ==
    /\ InSyscall
    /\ previous' = Remembered(current, "BLOCKED")
    /\ Scheduler(start, Suspended(current, "BLOCKED"), readyQ, termQ)
    /\ UNCHANGED <<pid, priority, nextPid, sleepQ>>

(* sem_post, called by the running process or by the keyboard interrupt,
   finds s at the head of the semaphore's queue.  (The queues of semaphores
   are not here: a pid may stay in one long after its process was unblocked
   by other means, so s is any BLOCKED process.) *)
SemPost(s) ==
    /\ systemRunning
    /\ s # Idle /\ state[s] = "BLOCKED"
    /\ Len(readyQ[priority[s]]) < QueueBound
    /\ state' = Woken(state, s)
    /\ readyQ' = WokenQueue(state, s)
    /\ sleepQ' = WokenSleepQ(state, s)
    /\ UNCHANGED <<pid, previous, priority, stack, termQ, current, nextPid,
                   processCount, systemRunning>>

(* sys_block_process, sys_unblock_process and sys_toggle_block, which refuse
   pids from MAX_PROCESSES on, and the caller itself. *)
Targetable(s) == s \in Named /\ pid[s] < MaxProcesses /\ s # current

Block(s) ==
    /\ InSyscall /\ Targetable(s)
    /\ state[s] \notin {"TERMINATED", "BLOCKED"}
    /\ previous' = Remembered(s, "BLOCKED")
    /\ state' = Suspended(s, "BLOCKED")
    /\ UNCHANGED <<pid, priority, stack, readyQ, termQ, current, nextPid,
                   processCount, systemRunning, sleepQ>>

Unblock(s) ==
    /\ InSyscall /\ Targetable(s)
    /\ state[s] = "BLOCKED"
    /\ Len(readyQ[priority[s]]) < QueueBound
    /\ state' = Woken(state, s)
    /\ readyQ' = WokenQueue(state, s)
    /\ sleepQ' = WokenSleepQ(state, s)
    /\ UNCHANGED <<pid, previous, priority, stack, termQ, current, nextPid,
                   processCount, systemRunning>>

Toggle(s) ==
    \/ state[s] = "BLOCKED" /\ Unblock(s)
    \/ state[s] # "BLOCKED" /\ Block(s)

SetPriorityUnchecked(s, l) ==    \* mutant: accepts a level past the last
    /\ InSyscall /\ s = current
    /\ priority' = [priority EXCEPT ![s] = l + 1]
    /\ UNCHANGED <<pid, state, previous, stack, readyQ, termQ, current, nextPid,
                   processCount, systemRunning, sleepQ>>

(* change_priority: the entry in the old queue stays behind.  (On a dead
   process it sets a field that only set_new_process touches again.) *)
SetPriority(s, l) ==
    /\ InSyscall /\ s \in Named /\ state[s] # "TERMINATED"
    /\ priority[s] # l
    /\ Len(readyQ[l]) < QueueBound
    /\ priority' = [priority EXCEPT ![s] = l]
    /\ readyQ' = IF state[s] = "READY" THEN [readyQ EXCEPT ![l] = Append(@, s)] ELSE readyQ
    /\ UNCHANGED <<pid, state, previous, stack, termQ, current, nextPid,
                   processCount, systemRunning, sleepQ>>

(* create_process in the first TERMINATED slot.  When the stack cannot be
   allocated, or the caller has no child slot left, it returns -1 after the
   slot has been written. *)
StackOf(outcome) ==
    CASE outcome = "ok" -> "frame"
      [] outcome = "no child slot" -> "raw"
      [] OTHER -> "none"

Create(outcome) ==
    /\ InSyscall
    /\ processCount < MaxProcesses
    /\ nextPid < PidBound /\ Len(readyQ[0]) < QueueBound
    /\ \E s \in Slots \ {Idle} :
          /\ state[s] = "TERMINATED"
          /\ \A r \in 1 .. s - 1 : state[r] # "TERMINATED"
          /\ pid' = [pid EXCEPT ![s] = nextPid]
          /\ state' = [state EXCEPT ![s] = "READY"]
          /\ previous' = [previous EXCEPT ![s] = "TERMINATED"]
          /\ priority' = [priority EXCEPT ![s] = 0]
          /\ stack' = [stack EXCEPT ![s] = StackOf(outcome)]
          /\ readyQ' = IF outcome = "ok" THEN [readyQ EXCEPT ![0] = Append(@, s)] ELSE readyQ
    /\ nextPid' = nextPid + 1
    /\ processCount' = IF outcome = "ok" THEN processCount + 1 ELSE processCount
    /\ UNCHANGED <<termQ, current, systemRunning, sleepQ>>

(* kill_process(pid[s]): the semaphore that a waiter w has put in the PCB is
   posted (w = s stands for nobody waiting, or nobody to be woken).  It does
   not look at the state of s. *)
Marked(s) == [state EXCEPT ![s] = "TERMINATED"]
Waiters(s) ==
    {s} \cup {w \in Slots \ {Idle} : state[w] = "BLOCKED" /\ Len(readyQ[priority[w]]) < QueueBound}

(* sys_kill; sys_exit is the kill of the caller. *)
Kill(start, s, w) ==
    /\ InSyscall /\ pid[s] # 0 /\ w \in Waiters(s)
    /\ Scheduler(start, Woken(Marked(s), w), WokenQueue(Marked(s), w), Append(termQ, s))
    /\ sleepQ' = WokenSleepQ(Marked(s), w)
    /\ UNCHANGED <<pid, previous, priority, nextPid>>

(* The keyboard interrupt on Ctrl+C: kill_foreground_process, and no switch:
   what was running, the dead process maybe, runs on. *)
CtrlC(s, w) ==
    /\ systemRunning
    /\ pid[s] > 1 /\ w \in Waiters(s)
    /\ Len(termQ) < QueueBound
    /\ state' = Woken(Marked(s), w)
    /\ readyQ' = WokenQueue(Marked(s), w)
    /\ sleepQ' = WokenSleepQ(Marked(s), w)
    /\ termQ' = Append(termQ, s)
    /\ UNCHANGED <<pid, previous, priority, stack, current, nextPid,
                   processCount, systemRunning>>

(* The idle process, once the system is stopped: cli; hlt. *)
Halted == ~systemRunning /\ UNCHANGED vars

-----------------------------------------------------------------------------
Ticks == \E start \in Priorities : Tick(start)

Switches == \E start \in Priorities :
    \/ Yield(start)
    \/ SemBlock(start)
    \/ \E n \in Naps : Sleep(start, n)
    \/ \E s, w \in Slots : Kill(start, s, w)

Changes ==
    \/ \E s \in Slots : Block(s) \/ Unblock(s) \/ Toggle(s) \/ SemPost(s)
    \/ \E s \in Slots, l \in Priorities : SetPriority(s, l)
    \/ \E outcome \in Outcomes : Create(outcome)
    \/ \E s, w \in Slots : CtrlC(s, w)

Next == Ticks \/ Switches \/ Changes \/ Halted

Spec == Init /\ [][Next]_vars

(* The timer keeps ticking, and every level is drawn again and again:
   get_random_priority gives each of them a positive weight. *)
FairSpec == Spec /\ \A start \in Priorities : WF_vars(Tick(start))

-----------------------------------------------------------------------------
(* The types.  A wake-up never takes a process back to RUNNING. *)
TypeOK ==
    /\ pid \in [Slots -> Nat]
    /\ state \in [Slots -> States]
    /\ previous \in [Slots -> States \ {"RUNNING"}]
    /\ priority \in [Slots -> Priorities]
    /\ stack \in [Slots -> {"none", "raw", "frame"}]
    /\ readyQ \in [Priorities -> Seq(Slots)]
    /\ termQ \in Seq(Slots)
    /\ current \in Slots
    /\ nextPid \in Nat
    /\ processCount \in 0 .. CountMod - 1
    /\ systemRunning \in BOOLEAN
    /\ sleepQ \in [Slots -> [pid : Nat, left : Nat]]

(* Only the current process is RUNNING; and a process that is current while
   the system runs is RUNNING, or has been killed by Ctrl+C and will be taken
   away by the next call of scheduler(). *)
SingleRunner ==
    /\ \A s \in Slots : state[s] = "RUNNING" => s = current
    /\ InSyscall => state[current] = "RUNNING" \/ current \in Entries(termQ)

(* A process that is READY, and has a frame to be resumed from, is in the
   queue of its own priority: whatever blocks, wakes, renices and kills came
   before, and whatever entries the scheduler threw away, it is not lost. *)
NoLostReady ==
    \A s \in Slots \ {Idle} :
        state[s] = "READY" /\ stack[s] = "frame" => s \in Entries(readyQ[priority[s]])

(* The entry of a sleeper lasts as long as its sleep: a process that went to
   sleep by itself has exactly one, and one that is awake has none (a later
   wake-up would clear the wrong entry and end another sleep). *)
SleepEntries ==
    \A s \in Slots \ {Idle} :
        LET mine == {i \in Slots : sleepQ[i].pid = pid[s]}
        IN /\ state[s] = "SLEEPING" /\ previous[s] = "READY" => Cardinality(mine) = 1
           /\ state[s] \in {"READY", "RUNNING"} => mine = {}

(* The processor idles only when no process can run.  (sys_unblock_process and
   sys_setpriority accept pid 0: then the idle process is in a queue like any
   other, and this promise is suspended.) *)
IdleQueued == \E l \in Priorities : Idle \in Entries(readyQ[l])
Startable(s) == state[s] = "READY" /\ stack[s] = "frame"
IdleIsLastResort ==
    [][current # Idle /\ current' = Idle /\ ~IdleQueued
        => \A s \in Slots \ {Idle} : ~Startable(s)']_vars

(* Nobody is taken out of its sleep before its time, not even by being blocked
   and unblocked: it becomes READY only if its entry is due on this very step. *)
Asleep(s) == state[s] = "SLEEPING" \/ (state[s] = "BLOCKED" /\ previous[s] = "SLEEPING")
NoEarlyWake ==
    [][\A s \in Slots : Asleep(s) /\ pid'[s] = pid[s] /\ state'[s] \in {"READY", "RUNNING"}
        => \A i \in Slots : sleepQ[i].pid = pid[s] => sleepQ[i].left <= 1]_vars

(* When every stack could be allocated, only processes with a frame run. *)
RunsOnItsFrame == \A s \in Slots : state[s] = "RUNNING" => stack[s] = "frame"

(* Whatever its priority, a READY process is dispatched, unless it is blocked,
   killed or moved to another level first. *)
NoStarvation ==
    \A s \in Slots \ {Idle}, l \in Priorities :
        (Startable(s) /\ priority[s] = l) ~>
            (~systemRunning \/ state[s] # "READY" \/ priority[s] # l)

(* A process that went to sleep by itself does not sleep for ever. *)
SleepersWake ==
    \A s \in Slots \ {Idle} :
        (state[s] = "SLEEPING" /\ previous[s] = "READY") ~>
            (~systemRunning \/ state[s] # "SLEEPING")

(* sleep-manager.h:13: a sleep is for the number of seconds given.  A SLEEPING
   process without an entry in sleep_queue is never woken. *)
SleepIsFinite ==
    \A s \in Slots : state[s] = "SLEEPING" => \E i \in Slots : sleepQ[i].pid = pid[s]

(* processes.h:162: has_running_processes() is 1 when there are processes
   running, so the system stops only when the idle process is alone. *)
StopsOnlyWhenAlone ==
    systemRunning \/ \A s \in Slots \ {Idle} : state[s] = "TERMINATED"

=============================================================================
