------------------------------- MODULE Family -------------------------------
(***************************************************************************)
(* Fathers and children in Kernel/scheduler/processes.c: the creation and  *)
(* the end of a process as its family sees them, wait_process and the      *)
(* semaphore it makes, the exit status, and the foreground, which goes to  *)
(* a child when it is created and back to the father when it ends.  Slots  *)
(* of the table are used again while others still hold their numbers.      *)
(*                                                                         *)
(* One system call is one step, up to the switch it may end in.  What the  *)
(* scheduler does besides is in Processes: here any ready process may run. *)
(* Rings of semaphores (Semaphores) are sequences here.  READY is for      *)
(* RUNNING too; UNQUEUED is a process that create_process gave up half     *)
(* way: READY in the table and in no queue.                                *)
(***************************************************************************)
EXTENDS Integers, Sequences, SequencesExt, FiniteSets

CONSTANTS
    MaxSlot,        \* the last slot, MAX_PROCESSES - 1
    MaxChildren,    \* MAX_CHILDREN
    MaxSemaphores,  \* MAX_SEMAPHORES
    PidBound,       \* bound: pids below this are given out
    UnitBound       \* bound: units of one semaphore

ASSUME FamilyOK ==
    /\ MaxSlot \in Nat /\ MaxSlot >= 1
    /\ MaxChildren \in Nat /\ MaxChildren >= 1
    /\ MaxSemaphores \in Nat
    /\ PidBound \in Nat /\ PidBound >= 2
    /\ UnitBound \in Nat /\ UnitBound >= 1

Slots   == 0 .. MaxSlot
Idle    == 0
Shell   == 1
Pids    == 0 .. PidBound - 1
Sems    == 0 .. MaxSemaphores - 1
NoSem   == -1
Closed  == -1
Unset   == -1                   \* exit_status of a process that never called exit
Alive   == 1                    \* history: the process has not ended
NoCall  == [slot |-> Idle, sem |-> NoSem, pid |-> 0]

VARIABLES
    pid, state, father, children, status, semOf, flag,  \* fields of the PCBs
    foreground,   \* foreground_process
    nextPid,      \* next_pid
    dead,         \* the slots in terminated_processes_queue
    running,      \* current_process; Idle also while nobody has been chosen
    units,        \* units[k] of semaphore k, or Closed
    ring,         \* ring[k]: the pids that wait in semaphore k
    call,         \* call[s]: the wait_process that the process in s is in
    answer,       \* answer[s]: what its last blocking wait_process told it
    stack,        \* history: the processes the foreground was handed down
    tokenCalm, waitCalm,  \* history: nothing of Disorder has happened
    ended         \* history: the status with which each pid ended, or Alive

tables == <<pid, state, father, children, status, semOf, flag, foreground, nextPid>>
waits  == <<units, ring, call, answer>>
ghosts == <<stack, tokenCalm, waitCalm, ended>>
vars   == <<tables, dead, running, waits, ghosts>>

(* After main: init in slot 0 has made the shell and the shell is in front. *)
Init ==
    /\ pid = [s \in Slots |-> IF s = Shell THEN 1 ELSE 0]
    /\ state = [s \in Slots |-> IF s \in {Idle, Shell} THEN "READY" ELSE "TERMINATED"]
    /\ father = [s \in Slots |-> Idle]
    /\ children = [s \in Slots |-> IF s = Idle THEN <<Shell>> ELSE <<>>]
    /\ status = [s \in Slots |-> Unset]
    /\ semOf = [s \in Slots |-> NoSem]
    /\ flag = [s \in Slots |-> s = Shell]
    /\ foreground = 1 /\ nextPid = 2
    /\ dead = {} /\ running = Idle
    /\ units = [k \in Sems |-> Closed] /\ ring = [k \in Sems |-> <<>>]
    /\ call = [s \in Slots |-> NoCall] /\ answer = [s \in Slots |-> Unset]
    /\ stack = <<1>> /\ tokenCalm = TRUE /\ waitCalm = TRUE
    /\ ended = [p \in Pids |-> Alive]

-----------------------------------------------------------------------------
SlotOf(p) == {s \in Slots : pid[s] = p}

(* block_process, wake_up_process and free_terminated_processes, on table st. *)
Stopped(st, s)  == [st EXCEPT ![s] = IF @ = "READY" THEN "BLOCKED" ELSE @]
Awake(st, pids) == [s \in Slots |-> IF pid[s] \in pids /\ st[s] = "BLOCKED" THEN "READY" ELSE st[s]]
Reaped(st)      == [s \in Slots |-> IF s \in dead THEN "TERMINATED" ELSE st[s]]

(* The caller s gives the processor away: the dead are cleared, somebody else
   is dispatched later. *)
SwitchedAway == running' = Idle /\ dead' = {}

(* The part of wait_process that blocks s until slot i, process p, ends; st,
   sems and calls are the table, sem_wait_id and calls so far. *)
FreeSems == {k \in Sems : units[k] = Closed}
Blocks(s, i, p, st, sems, calls) ==
    LET k == CHOOSE k \in FreeSems : \A r \in FreeSems : k <= r IN
    /\ units' = [units EXCEPT ![k] = 0]
    /\ ring' = [ring EXCEPT ![k] = <<pid[s]>>]
    /\ semOf' = [sems EXCEPT ![i] = k]
    /\ state' = Reaped(Stopped(st, s))
    /\ call' = [calls EXCEPT ![s] = [slot |-> i, sem |-> k, pid |-> p]]
    /\ SwitchedAway

(* create_process takes the first TERMINATED slot; not the one the caller runs
   in (bound: a caller that Ctrl+C has killed could). *)
FreeSlots == {i \in Slots \ {Idle} : state[i] = "TERMINATED"}
NewSlot   == CHOOSE i \in FreeSlots : \A j \in FreeSlots : i <= j

(* What a creation can upset: a slot taken while a wait_process still refers
   to it, or before the dead process in it is cleared; the foreground given to
   a process that is then given up, or by one that Ctrl+C has killed. *)
Owed(i) == \E w \in Slots : call[w] # NoCall /\ call[w].slot = i
CreationDisturbs(s, i, front, fits) ==
    /\ tokenCalm' = (tokenCalm /\ ~(front /\ (~fits \/ i \in dead \/ state[s] = "TERMINATED")))
    /\ waitCalm' = (waitCalm /\ ~Owed(i) /\ i \notin dead)

(* sys_create_process by the process in s; memory is whether there was room
   for a stack.  The foreground moves before the failures are found out.  When
   it is asked to be in the foreground the caller waits for it, though it may
   not have got the foreground itself. *)
KeepsFlag(s, front) == flag     \* mutant: the father keeps the foreground too
HandsOver(s, front) == [flag EXCEPT ![s] = @ /\ ~front]
Create(s, asked, memory) ==
    /\ running = s /\ s # Idle /\ nextPid < PidBound
    /\ FreeSlots # {} /\ NewSlot # s
    /\ LET i     == NewSlot
           p     == nextPid
           front == asked /\ flag[s]
           fits  == memory /\ Len(children[s]) < MaxChildren
           st    == [state EXCEPT ![i] = IF fits THEN "READY" ELSE "UNQUEUED"]
           sems  == [semOf EXCEPT ![i] = NoSem]
           calls == [call EXCEPT ![i] = NoCall]
       IN
       /\ pid' = [pid EXCEPT ![i] = p] /\ nextPid' = nextPid + 1
       /\ father' = [father EXCEPT ![i] = s]
       /\ children' = [children EXCEPT ![i] = <<>>, ![s] = IF fits THEN Append(@, i) ELSE @]
       /\ status' = [status EXCEPT ![i] = Unset]
       /\ answer' = [answer EXCEPT ![i] = Unset]
       /\ flag' = [HandsOver(s, front) EXCEPT ![i] = front]
       /\ foreground' = IF front THEN p ELSE foreground
       /\ stack' = IF front THEN Append(stack, p) ELSE stack
       /\ CreationDisturbs(s, i, front, fits)
       /\ UNCHANGED ended
       /\ \/ asked /\ fits /\ FreeSems # {} /\ Blocks(s, i, p, st, sems, calls)
          \/ /\ ~(asked /\ fits /\ FreeSems # {})
             /\ state' = st /\ semOf' = sems /\ call' = calls
             /\ UNCHANGED <<units, ring, running, dead>>

(* sys_wait for process p.  One that has ended, or that somebody waits for
   already, is not waited for (nothing changes: no step). *)
Wait(s, p) ==
    /\ running = s /\ s # Idle /\ p # 0 /\ p # pid[s]
    /\ FreeSems # {}
    /\ \E i \in SlotOf(p) :
        /\ state[i] # "TERMINATED" /\ semOf[i] = NoSem
        /\ Blocks(s, i, p, state, semOf, call)
    /\ UNCHANGED <<pid, father, children, status, flag, foreground, nextPid, answer, ghosts>>

-----------------------------------------------------------------------------
(* kill_process of the process in slot i: the foreground goes to the father,
   the children to the idle process as long as that has room, and who waits
   for i is posted. *)
Orphans(i) ==
    LET room == MaxChildren - Len(children[Idle]) IN
    SubSeq(children[i], 1, IF Len(children[i]) < room THEN Len(children[i]) ELSE room)
Adopted(i) == [s \in Slots |-> IF s \in ToSet(Orphans(i)) THEN Idle ELSE father[s]]
PostedNone(i) == {}     \* mutant: the end of a process posts nobody
PostedTo(i) == IF semOf[i] = NoSem \/ units[semOf[i]] = Closed THEN {} ELSE {semOf[i]}

(* What a death can upset: a process below the top of the stack ends, a
   foreground process that has ended is killed again, or the foreground process
   or one below it changes fathers. *)
DeathDisturbs(i) ==
    \/ flag[i] /\ state[i] = "TERMINATED"
    \/ state[i] # "TERMINATED" /\ pid[i] \in ToSet(stack) /\ pid[i] # Last(stack)
    \/ \E c \in ToSet(Orphans(i)) : state[c] # "TERMINATED" /\ pid[c] \in ToSet(stack)

GivesBack(i) == [flag EXCEPT ![father[i]] = @ \/ flag[i]]
WokenBy(i)   == {Head(ring[k]) : k \in {k \in PostedTo(i) : ring[k] # <<>>}}
Without(i)   == Awake([state EXCEPT ![i] = "TERMINATED"], WokenBy(i))
Ends(i, exit) ==
    /\ status' = [status EXCEPT ![i] = exit]
    /\ flag' = GivesBack(i)
    /\ foreground' = IF flag[i] THEN pid[father[i]] ELSE foreground
    /\ children' = [children EXCEPT ![Idle] = @ \o Orphans(i)]
    /\ father' = Adopted(i)
    /\ \A k \in PostedTo(i) : units[k] < UnitBound
    /\ units' = [k \in Sems |-> IF k \in PostedTo(i) THEN units[k] + 1 ELSE units[k]]
    /\ ring' = [k \in Sems |-> IF k \in PostedTo(i) /\ ring[k] # <<>> THEN Tail(ring[k]) ELSE ring[k]]
    /\ ended' = [ended EXCEPT ![pid[i]] = exit]
    /\ stack' = IF stack # <<>> /\ pid[i] = Last(stack) /\ state[i] # "TERMINATED"
                THEN Front(stack) ELSE stack
    /\ tokenCalm' = (tokenCalm /\ ~DeathDisturbs(i))
    /\ UNCHANGED <<pid, semOf, nextPid, call, answer, waitCalm>>

(* sys_exit, sys_kill and the Ctrl+C of the keyboard; the first two switch,
   the last leaves the dead process running if it was the current one. *)
Exit(s, exit) ==
    /\ running = s /\ s # Idle
    /\ Ends(s, exit) /\ state' = Reaped(Without(s)) /\ SwitchedAway
Kill(s, i) ==
    /\ running = s /\ s # Idle /\ pid[i] # 0
    /\ Ends(i, status[i]) /\ state' = Reaped(Without(i)) /\ SwitchedAway
CtrlC ==
    /\ foreground > 1
    /\ \E i \in SlotOf(foreground) :
        Ends(i, status[i]) /\ state' = Without(i) /\ dead' = dead \cup {i}
    /\ UNCHANGED running

-----------------------------------------------------------------------------
(* The scheduler gives the processor to s; one that is in wait_process goes on
   after its sem_wait: it destroys the semaphore that the SLOT holds now and
   reads the status of who is there now. *)
TookAnyhow(u) == u - 1      \* mutant: the semaphore is not checked again
Took(u) == IF u = Closed THEN u ELSE u - 1
StatusBefore(i) == Unset    \* mutant: the status read before the wait is kept
StatusOf(i) == status[i]
Back(s) ==
    LET c == call[s]
        k == semOf[c.slot]
    IN
    /\ units' = [x \in Sems |-> IF x = k THEN Closed
                                ELSE IF x = c.sem THEN Took(units[x]) ELSE units[x]]
    /\ ring' = [x \in Sems |-> IF x = k THEN <<>> ELSE ring[x]]
    /\ state' = Reaped(IF k = NoSem THEN state ELSE Awake(state, ToSet(ring[k])))
    /\ semOf' = [semOf EXCEPT ![c.slot] = NoSem]
    /\ answer' = [answer EXCEPT ![s] = StatusOf(c.slot)]
    /\ call' = [call EXCEPT ![s] = NoCall]
    /\ running' = s /\ dead' = {}
Dispatch(s) ==
    /\ s # Idle /\ running # s /\ state[s] = "READY" /\ s \notin dead
    /\ \/ /\ call[s] = NoCall
          /\ running' = s /\ dead' = {} /\ state' = Reaped(state)
          /\ UNCHANGED <<semOf, waits>>
       \/ /\ call[s] # NoCall /\ units[call[s].sem] # 0
          /\ Back(s)
       \/ /\ call[s] # NoCall /\ units[call[s].sem] = 0
          /\ ring' = [ring EXCEPT ![call[s].sem] = Append(@, pid[s])]
          /\ state' = Reaped(Stopped(state, s))
          /\ SwitchedAway
          /\ UNCHANGED <<semOf, units, call, answer>>
    /\ UNCHANGED <<pid, father, children, status, flag, foreground, nextPid, ghosts>>

Next ==
    \/ CtrlC
    \/ \E s \in Slots :
        \/ Dispatch(s)
        \/ Exit(s, 0)
        \/ \E asked, memory \in BOOLEAN : Create(s, asked, memory)
        \/ \E p \in Pids : Wait(s, p)
        \/ \E i \in Slots : Kill(s, i)

Spec == Init /\ [][Next]_vars

(* The timer keeps ticking: a process that stays ready runs in the end
   (NoStarvation of Processes). *)
FairSpec == Spec /\ \A s \in Slots : WF_vars(Dispatch(s))

-----------------------------------------------------------------------------
TypeOK ==
    /\ pid \in [Slots -> Pids] /\ nextPid \in 2 .. PidBound /\ foreground \in Pids
    /\ state \in [Slots -> {"READY", "BLOCKED", "TERMINATED", "UNQUEUED"}]
    /\ father \in [Slots -> Slots] /\ children \in [Slots -> Seq(Slots)]
    /\ status \in [Slots -> {Unset, 0}] /\ answer \in [Slots -> {Unset, 0}]
    /\ semOf \in [Slots -> Sems \cup {NoSem}] /\ flag \in [Slots -> BOOLEAN]
    /\ dead \subseteq Slots /\ running \in Slots
    /\ units \in [Sems -> {Closed} \cup 0 .. UnitBound] /\ ring \in [Sems -> Seq(Pids)]
    /\ call \in [Slots -> [slot : Slots, sem : Sems \cup {NoSem}, pid : Pids]]
    /\ stack \in Seq(Pids) /\ tokenCalm \in BOOLEAN /\ waitCalm \in BOOLEAN
    /\ ended \in [Pids -> {Alive, Unset, 0}]

Live(s) == state[s] # "TERMINATED"

(* The foreground is handed down and back like a stack: the one process that
   has is_foreground is alive, it is foreground_process, and it is the last one
   that was given the foreground and has not ended; the one it came from gets
   it back (create_process, kill_process).  The code keeps this through slots
   that are used again, as long as DeathDisturbs and CreationDisturbs say that
   nothing of what upsets it has happened. *)
InFront == IF stack = <<>> THEN 0 ELSE Last(stack)
ForegroundIsAStack ==
    tokenCalm =>
        /\ foreground = InFront
        /\ \A s \in Slots : Live(s) => (flag[s] <=> pid[s] = foreground)
        /\ \E s \in Slots : Live(s) /\ pid[s] = foreground

(* Nobody sleeps in wait_process for a process that has ended: the semaphore it
   sleeps in is the one of the slot it waits for, which still holds that
   process, alive, and it is alone in the ring (wait_process, kill_process). *)
SleepsForTheLiving ==
    waitCalm => \A w \in Slots : state[w] = "BLOCKED" =>
        LET c == call[w] IN
        /\ c # NoCall /\ pid[c.slot] = c.pid /\ Live(c.slot)
        /\ semOf[c.slot] = c.sem /\ units[c.sem] = 0 /\ ring[c.sem] = <<pid[w]>>

(* A wait_process that has blocked returns when the process it was for has
   ended, never before, and with the status it ended with. *)
WaitTellsTheEnd ==
    [][\A w \in Slots :
        waitCalm' /\ call[w] # NoCall /\ call'[w] = NoCall /\ pid'[w] = pid[w] =>
            ended[call[w].pid] # Alive /\ answer'[w] = ended[call[w].pid]]_vars

(* Who waits for a process that has ended gets out of wait_process, unless it
   ends itself: the end is never missed. *)
EndIsNoticed ==
    \A w \in Slots :
        call[w] # NoCall /\ Live(w) /\ ended[call[w].pid] # Alive
            ~> call[w] = NoCall \/ ~Live(w) \/ ~waitCalm
=============================================================================
