------------------------------ MODULE Terminal ------------------------------
(***************************************************************************)
(* The keyboard, the pipes and the processes together: kd_handler writes   *)
(* the characters to standard input without blocking, and Ctrl+C ends the  *)
(* process in front before it writes its own; it switches nobody away.     *)
(***************************************************************************)
EXTENDS Pipes, Keyboard

CONSTANT Scenes     \* bounds: what a behaviour makes use of, one of these

ASSUME ScenesOK ==
    \A s \in Scenes : /\ s.procs \subseteq Procs     \* the processes that are created
                     /\ s.keys \subseteq Codes      \* the keys that are pressed, to type Bytes
                     /\ s.pipes \in Nat            \* the pipes in use at the same time
                     /\ s.in \subseteq Fds          \* the pipes that processes read from ...
                     /\ s.out \subseteq Fds         \* ... and those that they write to
                     /\ s.fails \in BOOLEAN        \* whether the creation of a process can fail
                     /\ IsFiniteSet(s.lines)        \* the lines of the shell (Shell), {} without it

VARIABLE scene

vars == <<pvars, modifiers, scene>>

(* write_pipe_nonblocking of one byte, when the states are st: when there is
   no room the byte is lost. *)
SemValue(k) == IF IsFree(k) THEN 0 ELSE units[k]
HasRoom == SemValue(write_sem[STDIN]) > 0
Typed(b, st) ==
    IF HasRoom
    THEN /\ Puts(STDIN, b, "keyboard")
         /\ Posted(read_sem[STDIN], Taken(write_sem[STDIN]), st)
    ELSE state' = st /\ UNCHANGED <<buffer, write_pos, moved, units, ring>>

(* kd_handler, outside the handlers.  Ctrl+C does not end the shell; the process
   that it ends may be the one that is running, and then runs on to the tick. *)
Interruptible == \A p \in Procs : cpu = p => call[p] = NoCall
Key(key, release) ==
    /\ Interruptible /\ key \in scene.keys
    /\ \/ Modifies(key, release) /\ UNCHANGED pvars
       \/ /\ Types(key, release, CharOf(key)) /\ CharOf(key) \in Bytes
          /\ \/ /\ IsCtrlC(key) /\ front # Shell
                /\ Ends(front)
                /\ Typed(Interrupt, Dead(front))
                /\ cpu' = cpu \/ (Outside(front) /\ cpu' = front)
                /\ steady' = (steady /\ (call[front] = NoCall \/ SemFor(front) = read_sem[STDIN]))
             \/ /\ ~(IsCtrlC(key) /\ front # Shell)
                /\ Typed(CharOf(key), state)
                /\ UNCHANGED <<awaited, front, call, cpu, steady>>
          /\ UNCHANGED <<used, read_pos, read_sem, write_sem, calm, smooth>>

Init == PInit /\ KInit /\ scene \in Scenes

Acts(p) ==
    \/ Cardinality({f \in Fds : used[f]}) <= scene.pipes /\ Open(p)
    \/ Exit(p) \/ GoOn(p)
    \/ \E f \in Fds : \/ Close(p, f)
                      \/ f \in scene.in /\ \E n \in Counts : Read(p, f, n)
                      \/ f \in scene.out /\ \E text \in Texts : Write(p, f, text)
    \/ \E q \in Procs : Kill(p, q)
Kernel ==
    \/ Tick
    \/ \E p \in Procs : Acts(p)
    \/ \E q \in scene.procs, asked \in BOOLEAN :
        Start(q, asked) /\ (scene.fails \/ (smooth' /\ state'[q] = "READY"))

Next ==
    /\ \/ Kernel /\ UNCHANGED modifiers
       \/ \E key \in Codes, release \in BOOLEAN : Key(key, release)
    /\ UNCHANGED scene

Spec == Init /\ [][Next]_vars

-----------------------------------------------------------------------------
TypeOK ==
    /\ PTypeOK
    /\ capslock \in BOOLEAN /\ shift \in BOOLEAN /\ ctrl \in BOOLEAN /\ alt \in BOOLEAN

Open0 == {f \in Fds : used[f]}

(* The semaphores of a pipe that is open agree with its positions: one counts
   the bytes in it, the other the room (read_pipe, write_pipe and their
   nonblocking kind), as long as none was given out again too early. *)
UnitsCountBytes ==
    calm => \A f \in Open0 :
        /\ units[read_sem[f]] = (write_pos[f] - read_pos[f]) % BufferSize
        /\ units[write_sem[f]] = BufferSize - 1 - units[read_sem[f]]

(* No semaphore is lost and none is shared: those in use are two for each open
   pipe (create_pipe, its failure half way, close_pipe). *)
SemaphoresHaveOwners ==
    LET kept == {read_sem[f] : f \in Open0} \cup {write_sem[f] : f \in Open0}
    IN  /\ {k \in Sems : units[k] # Free} = kept
        /\ Cardinality(kept) = 2 * Cardinality(Open0)

(* Where there is a unit nobody is left blocked, unless somebody who was woken
   for it has still to run: no byte, and no room, waits unnoticed.  This is so as
   long as no process that has ended is left in a ring, where it swallows a
   wake-up (steady).  Ctrl+C on who is blocked for a character leaves none: the
   one that it writes takes it out.  Three things do: sys_kill of who is inside
   a call, Ctrl+C on who is in a call on another semaphore, and a process that
   Ctrl+C ended while it ran and that sem_wait puts in a ring before the tick. *)
NobodyIsDeaf ==
    calm /\ steady =>
        \A f \in Open0 : \A k \in {read_sem[f], write_sem[f]} :
            units[k] > 0 /\ (\E p \in ToSet(ring[k]) : state[p] = "BLOCKED")
                => \E p \in Procs : state[p] = "READY" /\ call[p].sem = k

(* Who is blocked in a pipe is in the ring of the semaphore of that pipe that its
   call needs, once, and the pipe is open: whoever is inside when it is closed
   gets out (close_pipe, destroy_sem, sem_wait). *)
NobodyIsStranded ==
    calm => \A p \in Procs : state[p] = "BLOCKED" =>
        LET f == call[p].fd
            k == IF call[p].op = "read" THEN read_sem[f] ELSE write_sem[f]
        IN  /\ used[f] /\ call[p].sem = k
            /\ \E i \in 1 .. Len(ring[k]) : \A j \in 1 .. Len(ring[k]) : ring[k][j] = p <=> j = i

(* The pipes as channels.  Two things are not what the header promises: a process
   writes to standard input, and a read that a close cut off gets a byte that
   nobody wrote. *)
content == [f \in Fds |-> IF used[f]
    THEN [i \in 1 .. units[read_sem[f]] |-> buffer[f][(read_pos[f] + i - 1) % BufferSize]]
    ELSE <<>>]
reading == [p \in Procs |-> IF InPipe(p) /\ call[p].op = "read" /\ call[p].sem # Free
                            THEN call[p].fd ELSE Free]
Channel == INSTANCE ByteChannel
    WITH open <- Open0, Channels <- Fds, Capacity <- BufferSize - 1, NoChannel <- Free, Input <- STDIN
WritesInput == (\E b \in Bytes : Channel!Adds(STDIN, b, "process")) /\ UNCHANGED reading
ReadsMadeUp ==
    /\ \E p \in Procs : /\ reading[p] # Free /\ reading[p] \notin Open0
                         /\ reading' = [reading EXCEPT ![p] = Free]
    /\ moved'.by = "process"
    /\ UNCHANGED <<Open0, content>>

(* A step that leaves these alone leaves the channels alone. *)
Touched == ~UNCHANGED <<pipes, units, moved, call, state>>

(* Through reads, writes, keys, ends and closes a pipe is a bounded queue of
   bytes: what is read is what was written, nothing lost, repeated or
   reordered; except for WritesInput, and ReadsMadeUp for who is inside when the
   pipe is closed. *)
Delivers ==
    [][calm' /\ Touched => Channel!Next \/ WritesInput \/ ReadsMadeUp]_<<Open0, content, moved, reading>>

(* What pipes.h says of read_pipe and write_pipe: a read blocks until data is
   written and returns the bytes that it read, and nobody writes to standard input
   but the keyboard. *)
KeepsToTheHeader == [][calm' /\ Touched => Channel!Next]_<<Open0, content, moved, reading>>
=============================================================================
