-------------------------------- MODULE Pipes --------------------------------
(***************************************************************************)
(* The pipes of the kernel (Kernel/pipes/pipes.c) and the system calls     *)
(* that read, write, open and close them.  Each is a ring of bytes with    *)
(* two semaphores; pipe 0 is standard input.                               *)
(*                                                                         *)
(* A handler runs with interrupts off.  The loops of read and write are    *)
(* taken byte by byte, and cpu keeps everybody else out until the call     *)
(* blocks or ends; so does a process that Ctrl+C has ended while it ran,   *)
(* until the timer switches it away.  Rings of semaphores (Semaphores) are *)
(* sequences here, and any ready process may run (Processes).  The shell   *)
(* makes the other processes (bound: the rest of Family is left to it).    *)
(***************************************************************************)
EXTENDS Integers, Sequences, SequencesExt, FiniteSets

CONSTANTS
    Procs, Shell,      \* the processes, by pid
    Nobody,            \* no process
    MaxPipes,          \* MAX_AMOUNT_PIPES
    BufferSize,        \* PIPE_BUFFER_SIZE
    MaxSemaphores,     \* MAX_SEMAPHORES
    Bytes, Zero,       \* the bytes, and the one of an empty place
    EndingBytes,       \* CHAR_INTERRUPT and CHAR_EOF, which end a read
    Texts,             \* the sequences of bytes that processes write
    Counts             \* the numbers of bytes that are asked for in one read

ASSUME PipesOK ==
    /\ IsFiniteSet(Procs) /\ Shell \in Procs /\ Nobody \notin Procs
    /\ MaxPipes \in Nat /\ MaxPipes >= 1
    /\ BufferSize \in Nat /\ BufferSize >= 2
    /\ MaxSemaphores \in Nat /\ MaxSemaphores >= 2
    /\ Zero \in Bytes /\ EndingBytes \subseteq Bytes
    /\ Texts \subseteq Seq(Bytes) /\ <<>> \notin Texts
    /\ Counts \subseteq Nat \ {0}

STDIN == 0
Fds   == {STDIN} \cup 3 .. MaxPipes - 1     \* 1 and 2 are the screen
Sems  == 0 .. MaxSemaphores - 1
Places == 0 .. BufferSize - 1
Free   == -1                                \* no semaphore, or the units of one that is free
NoCall == [op |-> "none", fd |-> STDIN, sem |-> Free, todo |-> <<>>]

VARIABLES
    used, buffer, read_pos, write_pos, read_sem, write_sem,   \* the pipes
    units, ring,      \* the semaphores: their units, or Free, and who waits
    state,            \* state[p]: also "WAITING" in wait_process, "NEW" before it is created,
                      \* "STILLBORN" in the table but never to run
    awaited,          \* the process that the shell is in wait_process for, or Nobody
    front,            \* foreground_process
    call,             \* call[p]: the read or write that p is in
    cpu,              \* who is inside a handler, or has ended and still runs, or Nobody
    moved,            \* the last byte that was read, or written to an open pipe, and by whom
    calm, steady, smooth      \* history: see Reuses, the deaths and Start

pipes == <<used, buffer, read_pos, write_pos, read_sem, write_sem>>
procs == <<state, awaited, front>>
pvars == <<pipes, units, ring, procs, call, cpu, moved, calm, steady, smooth>>

PInit ==
    /\ used = [f \in Fds |-> f = STDIN]
    /\ buffer = [f \in Fds |-> [i \in Places |-> Zero]]
    /\ read_pos = [f \in Fds |-> 0] /\ write_pos = [f \in Fds |-> 0]
    /\ read_sem = [f \in Fds |-> 0] /\ write_sem = [f \in Fds |-> IF f = STDIN THEN 1 ELSE 0]
    /\ units = [k \in Sems |-> CASE k = 0 -> 0 [] k = 1 -> BufferSize - 1 [] OTHER -> Free]
    /\ ring = [k \in Sems |-> <<>>]
    /\ state = [p \in Procs |-> IF p = Shell THEN "READY" ELSE "NEW"]
    /\ awaited = Nobody /\ front = Shell
    /\ call = [p \in Procs |-> NoCall]
    /\ cpu = Nobody /\ moved = [by |-> "process", byte |-> Zero]
    /\ calm = TRUE /\ steady = TRUE /\ smooth = TRUE

-----------------------------------------------------------------------------
(* wake_up_process wakes the BLOCKED; sem_post of k, when the states are st. *)
Awake(st, set) == [p \in Procs |-> IF p \in set /\ st[p] = "BLOCKED" THEN "READY" ELSE st[p]]
OnlyFromZero(k, u) == ring[k] # <<>> /\ u[k] = 0      \* mutant: a second post wakes nobody
SomebodyToWake(k, u) == ring[k] # <<>>
Posted(k, u, st) ==
    IF k = Free \/ u[k] = Free
    THEN units' = u /\ UNCHANGED ring /\ state' = st
    ELSE /\ units' = [u EXCEPT ![k] = @ + 1]
         /\ ring' = IF SomebodyToWake(k, u) THEN [ring EXCEPT ![k] = Tail(@)] ELSE ring
         /\ state' = IF SomebodyToWake(k, u) THEN Awake(st, {Head(ring[k])}) ELSE st

(* destroy_sem of the semaphores in ks. *)
WakesNobody(ks) == state' = state       \* mutant: who waits is forgotten
WakesAll(ks) == state' = Awake(state, UNION {ToSet(ring[k]) : k \in ks})
Destroyed(ks) ==
    /\ units' = [k \in Sems |-> IF k \in ks THEN Free ELSE units[k]]
    /\ ring' = [k \in Sems |-> IF k \in ks THEN <<>> ELSE ring[k]]
    /\ WakesAll(ks)
FreeSems == {k \in Sems : units[k] = Free}
Lowest(set) == CHOOSE k \in set : \A r \in set : k <= r

(* A process that was inside a pipe when that was closed and has not run since
   is cut off; a semaphore that is given out then can be one it still means. *)
InPipe(p) == call[p] # NoCall /\ state[p] # "TERMINATED"
UnitsOf(k) == IF k = Free THEN Free ELSE units[k]
IsFree(k) == UnitsOf(k) = Free
Cut(p) == InPipe(p) /\ call[p].sem # Free /\ IsFree(call[p].sem)
Reuses == calm' = (calm /\ \A p \in Procs : ~Cut(p))

(* Who is outside the kernel and may run. *)
Outside(p) == call[p] = NoCall /\ (cpu = p \/ (cpu = Nobody /\ state[p] = "READY"))

(* The timer: who has ended is switched away, for good. *)
Tick ==
    /\ \E p \in Procs : cpu = p /\ call[p] = NoCall
    /\ cpu' = Nobody
    /\ UNCHANGED <<pipes, units, ring, procs, call, moved, calm, steady, smooth>>

(* sys_open, create_pipe.  A semaphore that was the last one is taken and given
   back. *)
UnusedPipes == {f \in Fds \ {STDIN} : ~used[f]}
KeepsHalf(k) == [units EXCEPT ![k] = 0]     \* mutant: it is not given back
GivesBackHalf(k) == units
Open(p) ==
    /\ Outside(p) /\ UnusedPipes # {}
    /\ LET f  == Lowest(UnusedPipes)
           k1 == IF FreeSems = {} THEN Free ELSE Lowest(FreeSems)
           k2 == IF FreeSems \subseteq {k1} THEN Free ELSE Lowest(FreeSems \ {k1})
       IN
       /\ read_pos' = [read_pos EXCEPT ![f] = 0]
       /\ write_pos' = [write_pos EXCEPT ![f] = 0]
       /\ buffer' = [buffer EXCEPT ![f] = [i \in Places |-> Zero]]
       /\ read_sem' = [read_sem EXCEPT ![f] = k1]
       /\ write_sem' = [write_sem EXCEPT ![f] = k2]
       /\ \/ /\ k2 # Free
             /\ used' = [used EXCEPT ![f] = TRUE]
             /\ units' = [units EXCEPT ![k1] = 0, ![k2] = BufferSize - 1]
          \/ /\ k2 = Free
             /\ units' = GivesBackHalf(k1)
             /\ UNCHANGED used
    /\ Reuses
    /\ UNCHANGED <<ring, procs, call, cpu, moved, steady, smooth>>

(* sys_close, close_pipe: the bytes in it are lost, who waits in it is woken. *)
Close(p, f) ==
    /\ Outside(p) /\ f # STDIN /\ used[f]
    /\ Destroyed({read_sem[f], write_sem[f]})
    /\ used' = [used EXCEPT ![f] = FALSE]
    /\ read_pos' = [read_pos EXCEPT ![f] = 0]
    /\ write_pos' = [write_pos EXCEPT ![f] = 0]
    /\ buffer' = [buffer EXCEPT ![f] = [i \in Places |-> Zero]]
    /\ UNCHANGED <<read_sem, write_sem, awaited, front, call, cpu, moved, calm, steady, smooth>>

-----------------------------------------------------------------------------
(* sys_read of n bytes and sys_write of a text, up to their first byte.  Only
   the process in front may read standard input; that is asked once. *)
Enters(p, op, f, todo) ==
    /\ Outside(p) /\ used[f]
    /\ call' = [call EXCEPT ![p] = [op |-> op, fd |-> f, sem |-> Free, todo |-> todo]]
    /\ cpu' = p
    /\ UNCHANGED <<pipes, units, ring, procs, moved, calm, steady, smooth>>
IsForeground(p) == front = p
Read(p, f, n) == (f = STDIN => IsForeground(p)) /\ Enters(p, "read", f, [i \in 1 .. n |-> Zero])
Write(p, f, text) == Enters(p, "write", f, text)

(* The next byte of p's call.  It may run on, or again after it was woken; it
   then waits for the semaphore it was blocked in, else for the one that the
   pipe has now.  sys_read looks at the pipe again for every byte. *)
MayGoOn(p) == \/ cpu = p /\ call[p] # NoCall
              \/ cpu = Nobody /\ state[p] = "READY" /\ call[p].sem # Free
SemFor(p) == IF call[p].sem # Free THEN call[p].sem
             ELSE IF call[p].op = "read" THEN read_sem[call[p].fd] ELSE write_sem[call[p].fd]
Refused(p) == call[p].op = "read" /\ call[p].sem = Free /\ ~used[call[p].fd]

(* p leaves its call; if it has ended it goes on alone until the timer. *)
Leaver(p) == IF state[p] = "TERMINATED" THEN p ELSE Nobody
GivesUp(p) ==
    /\ MayGoOn(p) /\ Refused(p)
    /\ call' = [call EXCEPT ![p] = NoCall] /\ cpu' = Leaver(p)
    /\ UNCHANGED <<pipes, units, ring, procs, moved, calm, steady, smooth>>

(* sem_wait puts p in the ring and gives the processor away; a p that has ended
   cannot be blocked, its pid stays in the ring and takes a wake-up. *)
Blocks(p) ==
    /\ MayGoOn(p) /\ ~Refused(p)
    /\ LET k == SemFor(p) IN
       /\ UnitsOf(k) = 0
       /\ ring' = [ring EXCEPT ![k] = Append(@, p)]
       /\ \/ /\ state[p] # "TERMINATED"
             /\ state' = [state EXCEPT ![p] = "BLOCKED"]
             /\ call' = [call EXCEPT ![p].sem = k]
             /\ UNCHANGED steady
          \/ /\ state[p] = "TERMINATED"
             /\ call' = [call EXCEPT ![p] = NoCall]
             /\ steady' = FALSE
             /\ UNCHANGED state
    /\ cpu' = Nobody
    /\ UNCHANGED <<pipes, units, awaited, front, moved, calm, smooth>>

(* sem_wait lets p pass when there is a unit, or when the semaphore is free. *)
Passes(p) == MayGoOn(p) /\ ~Refused(p) /\ UnitsOf(SemFor(p)) # 0
TakenAnyhow(k) == [units EXCEPT ![k] = @ - 1]       \* mutant: also of a free semaphore
Taken(k) == IF IsFree(k) THEN units ELSE [units EXCEPT ![k] = @ - 1]

(* p goes on with the rest of its call, or leaves it. *)
Proceeds(p, last) ==
    /\ call' = [call EXCEPT ![p] = IF last THEN NoCall
                                   ELSE [call[p] EXCEPT !.sem = Free, !.todo = Tail(@)]]
    /\ cpu' = IF last THEN Leaver(p) ELSE p

PostsItself(f) == read_sem[f]       \* mutant: a read posts the readers
PostsWriters(f) == write_sem[f]
Takes(p) ==
    /\ call[p].op = "read" /\ Passes(p)
    /\ LET f == call[p].fd
           b == buffer[f][read_pos[f]]
       IN
       /\ moved' = [by |-> "process", byte |-> b]
       /\ read_pos' = [read_pos EXCEPT ![f] = (@ + 1) % BufferSize]
       /\ Posted(PostsWriters(f), Taken(SemFor(p)), state)
       /\ Proceeds(p, Len(call[p].todo) = 1 \/ b \in EndingBytes)
    /\ UNCHANGED <<used, buffer, write_pos, read_sem, write_sem, awaited, front, calm, steady, smooth>>

SlotAhead(f) == (write_pos[f] + 1) % BufferSize     \* mutant: the position moves first
SlotToWrite(f) == write_pos[f]
Puts(f, b, who) ==
    /\ buffer' = [buffer EXCEPT ![f][SlotToWrite(f)] = b]
    /\ write_pos' = [write_pos EXCEPT ![f] = (@ + 1) % BufferSize]
    /\ moved' = IF used[f] THEN [by |-> who, byte |-> b] ELSE moved
Gives(p) ==
    /\ call[p].op = "write" /\ Passes(p)
    /\ Puts(call[p].fd, Head(call[p].todo), "process")
    /\ Posted(read_sem[call[p].fd], Taken(SemFor(p)), state)
    /\ Proceeds(p, Len(call[p].todo) = 1)
    /\ UNCHANGED <<used, read_pos, read_sem, write_sem, awaited, front, calm, steady, smooth>>

GoOn(p) == GivesUp(p) \/ Blocks(p) \/ Takes(p) \/ Gives(p)

-----------------------------------------------------------------------------
(* sys_create_process by the shell of q, asked to be in the foreground or not.
   Only then does it wait for q, and q gets the foreground from a father that
   has it, before it is known whether q is born: there is a stack and room
   among the children.  When it is not, or no semaphore is left to wait in, the
   shell goes on at once; smooth is that this never happened to a q that was
   asked to be in the foreground. *)
Start(q, asked) ==
    /\ Outside(Shell) /\ state[q] = "NEW"
    /\ front' = IF asked /\ front = Shell THEN q ELSE front
    /\ \E born, waits \in BOOLEAN :
        /\ waits => asked /\ born
        /\ state' = [state EXCEPT ![q] = IF born THEN "READY" ELSE "STILLBORN",
                                  ![Shell] = IF waits THEN "WAITING" ELSE @]
        /\ awaited' = IF waits THEN q ELSE awaited
        /\ smooth' = (smooth /\ (asked => waits))
    /\ UNCHANGED <<pipes, units, ring, call, cpu, moved, calm, steady>>

(* The end of q: its father has the foreground back and is woken, q stays in
   the rings it was in. *)
Dead(q) == [state EXCEPT ![q] = "TERMINATED", ![Shell] = IF awaited = q THEN "READY" ELSE @]
Ends(q) ==
    /\ q # Shell /\ state[q] \notin {"NEW", "TERMINATED"}
    /\ awaited' = IF awaited = q THEN Nobody ELSE awaited
    /\ front' = IF front = q THEN Shell ELSE front
    /\ call' = [call EXCEPT ![q] = NoCall]

(* sys_exit of p, which is switched away, and sys_kill of q by p, which may
   leave a wake-up for q to get lost. *)
Exit(p) ==
    /\ Outside(p) /\ cpu' = Nobody
    /\ \/ Ends(p) /\ state' = Dead(p)
       \/ state[p] = "TERMINATED" /\ UNCHANGED <<procs, call>>
    /\ UNCHANGED <<pipes, units, ring, moved, calm, steady, smooth>>
Kill(p, q) ==
    /\ Outside(p) /\ p # q /\ Ends(q) /\ state' = Dead(q)
    /\ cpu' = Nobody
    /\ steady' = (steady /\ call[q] = NoCall)
    /\ UNCHANGED <<pipes, units, ring, moved, calm, smooth>>

-----------------------------------------------------------------------------
PTypeOK ==
    /\ used \in [Fds -> BOOLEAN] /\ buffer \in [Fds -> [Places -> Bytes]]
    /\ read_pos \in [Fds -> Places] /\ write_pos \in [Fds -> Places]
    /\ read_sem \in [Fds -> Sems \cup {Free}] /\ write_sem \in [Fds -> Sems \cup {Free}]
    /\ units \in [Sems -> {Free} \cup Nat] /\ ring \in [Sems -> Seq(Procs)]
    /\ state \in [Procs -> {"NEW", "STILLBORN", "READY", "BLOCKED", "WAITING", "TERMINATED"}]
    /\ awaited \in Procs \cup {Nobody} /\ front \in Procs
    /\ call \in [Procs -> [op : {"none", "read", "write"}, fd : Fds, sem : Sems \cup {Free}, todo : Seq(Bytes)]]
    /\ cpu \in Procs \cup {Nobody} /\ moved \in [by : {"process", "keyboard"}, byte : Bytes]
    /\ calm \in BOOLEAN /\ steady \in BOOLEAN /\ smooth \in BOOLEAN
=============================================================================
