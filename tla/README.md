# A verification project for the kernel

TLA+ models of the kernel in this repository, the TLC configurations that
check them on small instances, and theorems about them that TLAPS checks for
every instance. The reference is the code: each definition is a translation of
lines that `PROJECT.json` names under `map`.

    tlc -workers 2 -config Processes.cfg MCProcesses
    tlapm ProcessesProofs.tla

## The system

| Component | Where | State | Operations | Hard because |
|---|---|---|---|---|
| Process table, scheduler | `Kernel/scheduler/processes.c`, `scheduler.c` | `process_table`, three ready queues, the queue of the dead, `current_process`, `process_count`, `system_running` | create, kill, wait, block, unblock, toggle, set priority, the dispatch done by `scheduler()` | every operation may fall between any two steps of any process; queues keep stale entries on purpose; the dead are cleared at the next switch |
| Sleep manager | `sleep-manager.c`, `timer_handler` | `sleep_queue` | sleep, wake the sleepers at a tick, `is_sleeping_time_expired` | a sleeper may be blocked, unblocked, killed while it sleeps; its state and its entry are in two tables |
| Queue of PCBs | `pcb-queueADT.c` | a ring with `head`, `tail`, `size` | enqueue, dequeue | wrapping of three counters of different width |
| Semaphores | `Kernel/semaphores/semaphores.c` | 512 semaphores, each with a value and a ring of pids | create, wait, post, destroy | the waiter goes on later, in a loop, in a world that has changed |
| Families | `processes.c` | `father`, `children`, `sem_wait_id`, `exit_status`, `foreground_process` | `wait_process`, what create and kill do to these | slots are used again while others hold pointers to them |
| Pipes | `pipes.c` | byte rings with two semaphores each | create, read, write, write without blocking, close | an interrupt writes, processes read; closing under a reader; semaphores that are given out again |
| Keyboard, standard input | `keyboard-driver.c` | four modifiers; pipe 0 | `kd_handler` | an interrupt that kills the process in front and writes to a pipe |
| Memory managers | `memory-manager.c`, `buddymm.c` | lists of blocks | alloc, free, state | splitting and merging in any order; sizes that wrap |
| Philosophers | `programs/phylo.c` | a state and a semaphore for each, a global semaphore | sit down, eat, add, remove, leave | philosophers come and go, and are killed wherever they are |
| Shell, its programs | `shell.c`, `shell-programs.c` | the line, a pipe | read a line, run a program or a pipeline | programs that outlive the line, a foreground that must come back |

How they interact: a program enters the kernel by `int 0x80`, the timer and the
keyboard by IRQ 0 and 1. All go through interrupt gates
(`idtLoader.c:24-48`), so a handler runs with interrupts off to its end, or to
`call_int_20`, which switches to another process in the middle of it. `sem_wait`
is what puts `call_int_20` inside a loop; pipes and `wait_process` are built on
semaphores; semaphores and the sleep manager act on the process table through
`block_process`, `wake_up_process`, `sleep_process` and `unsleep_process`.

What makes each correct: the table has one runner, loses nobody who is ready
and starves nobody; a sleeper wakes, once and not early; a queue is first in,
first out; a semaphore counts and loses no wake-up; `wait_process` returns when
the child has ended, with that child's status; a pipe delivers each byte once
and in order; blocks of memory do not overlap; the philosophers exclude their
neighbours and do not stop.

## The plan

1. `Processes` (table, scheduler, sleep manager) - done, with proofs.
2. `PCBQueue`, an implementation of `Fifo` - done, with proofs.
3. `Semaphores`, an implementation of `CountingSemaphore` - done, with proofs,
   of the rings and the wake-ups too.
4. `Family` - done, with proofs of all its safety.
5. `Pipes`, `Keyboard`, their composition `Terminal` as an implementation of
   `ByteChannel`, and `Shell` on top - done, with proofs, the refinement included.
6. `FirstFit` and `Buddy`, with the promise of `Allocator` - done, with proofs of
   all their safety.
7. `Phylo` - done, with proofs of all its safety.
8. Left: liveness is for TLC only; the hazards without a property (see *Not
   modelled*) would need widths of the fields in `Processes` and `Semaphores`.

## The modules

    Processes                    MCProcesses, ProcessesProofs
    PCBQueue (implements Fifo)   MCPCBQueue, PCBQueueProofs
    Semaphores (implements       MCSemaphores, SemaphoresProofs
      CountingSemaphore)
    Family                       MCFamily, FamilyProofs
    Pipes, Keyboard              |
    Terminal = both of them      | TerminalProofs
      (implements ByteChannel)
    Shell over Terminal          MCTerminal, ShellProofs
    Allocator                    |
    FirstFit, Buddy over it      MCMemory, MemoryProofs
    Phylo                        PhyloProofs
    PCBQueue, MCMemory, Phylo    MCStructures

**`Processes`** models the table, the ready queues, the scheduler and the sleep
manager. A handler is one step, since interrupts are off in it; when it ends in
`scheduler()`, the dispatch is in the same step.

- `pid, state, previous, priority, stack` are fields of the PCBs, by slot; slot
  0 is the idle process, slot 1 the shell. `stack` keeps only whether there is a
  stack, and whether a process can be resumed from it.
- `readyQ, termQ` are the queues, as sequences of slots. They are unbounded
  here, since the wrapping of their counter is the matter of `PCBQueue`.
- `sleepQ` keeps the time still to go in the place of the tick to wake at, so
  that `ticks` needs no variable; it stays at 0 for an entry that is due and was
  not taken, which is all that the code compares.
- `Tick` is IRQ 0 (`timer_handler`, then `scheduler`), `Yield`, `Sleep`, `Kill`
  the system calls that switch, `Block`, `Unblock`, `SetPriority`, `Create` those
  that do not, `CtrlC` the keyboard interrupt. `Reaped`, `Preempted`, `Requeued`,
  `TakeEntry`, `TakeIdle` are the stages of `scheduler()`.
- A semaphore is here what it does to the table: `SemBlock`, `SemPost`, and the
  waiter that a kill posts. Any BLOCKED process may be the one: more than the
  code does, so what holds here holds with any use of semaphores.
- `CtrlC` takes any process but the shell as the foreground one, and whether the
  creator still has a child slot is an input of `Create`: again more than the
  code does, until `Family` follows these.
- Left out: a change of the priority of a dead process, which sets a field that
  the next creation overwrites.

**`PCBQueue`** is the ring, with a counter that wraps at `SizeMod`. `Fifo` is what
its header says. `CountedSpec` is the ring while fewer than `SizeMod` processes
are in it; `QSpec` is the ring without that restriction.

**`Semaphores`** models the 512 semaphores and the rings of pids. `Wait` is
`sem_wait` up to its return or to `call_int_20`; `Dispatch` is the switch to a
process, which goes on in the loop of `sem_wait` (`GoOn`) if it was there. The
choice of the next process is any ready one, and READY stands for RUNNING too.
`Kill` is `kill_process`, with the post of the semaphore that somebody waits on
for that process: any semaphore or none, more than the code does. `Block` and
`Unblock` are the system calls by which a process interferes with a waiter.
Processes that sleep are left to `Processes`. Rings overflow as in the code: the
entry that is overwritten is lost. `calm` is a history variable: it is true
while nobody was blocked, unblocked or killed inside `sem_wait`, and no dead
process went into it. `CountingSemaphore` is the abstract semaphore: a count, or
closed, and who asks for what.

**`Family`** models what `create_process`, `kill_process` and `wait_process` do to
fathers and children, in a table whose slots are used again. `Create`, `Wait`,
`Exit`, `Kill`, `CtrlC` are the system calls and the keyboard; `Dispatch` lets any
ready process run, and finishes the `wait_process` it is in (`Back`), which uses
the slot number that it kept. UNQUEUED is a process that `create_process` gave up
half way. Three things are history, not code: `stack`, the processes that the
foreground was handed down; `ended`, the status with which each ended; and
`tokenCalm` and `waitCalm`, which become false at what is known to upset the
promises (`CreationDisturbs`, `DeathDisturbs`; see below).

**`Pipes`** models `sys_open`, `sys_close`, `sys_read` and `sys_write` on pipes:
positions, buffers, the two semaphores, which are taken from a table and given
back. A call is `Enters` and then steps of `GoOn`, one for each byte or each time
that it blocks: `sem_wait` may give the processor away in each. `cpu` is the
process that is in the middle of a call, if it has not given the processor away,
or one that Ctrl+C has ended while it ran: it runs on, makes calls and may still
enter the ring of a semaphore (`Blocks`), until the timer switches it away
(`Tick`). `Start` is `create_process` as the shell calls it, with what can become
of it: the foreground is handed over first; then the process may turn out to have
no stack or no place among the children, and is in the table but will never run
(STILLBORN); and `wait_process` may return at once for want of a semaphore.
**`Keyboard`** is `kd_handler` up to the character: modifiers and the table
of characters, with keys of each kind. **`Terminal`** composes them: `Key` is the
whole interrupt, with the process that Ctrl+C ends, which is not switched away,
and the write that does not block. `content`, `reading` and which pipes are open
map it to **`ByteChannel`**, which is what `pipes.h` promises: bounded queues of
bytes that can be closed, where processes write to all but standard input, only
the keyboard writes there (`Type`), and a read gets a byte that was written. The
code does two things more, which `Delivers` (but not `KeepsToTheHeader`) names beside the steps of
`ByteChannel`: `WritesInput` and `ReadsMadeUp`. Three variables are history.
`calm`: no semaphore was given out again while a process was still inside a pipe
that had had it. `steady`: no process that has ended was left in the ring of a
semaphore. `smooth`: every program that was asked to be in the foreground was
created and waited for.

**`Shell`** composes the shell and its programs with the terminal: `ReadsLine` is
`read_line`, `Opens`, `Right`, `Left` and `Closes` are `execute_pipe` in its order,
`Launches` is `process_handler` and its outcomes, a full table and those of
`Start`, and `Echo`, `Loop` and `Cat` are
the programs, by what they read and write. A line is only its length, and any
command of the scene when it is complete. `getc` takes the -1 of `sys_read` for a
success (`gnaio.c:258`, the value is unsigned): `Getchar` gives any character
then. What is shown on the screen is left out.

**`Allocator`** is what both memory managers promise: blocks that do not share a
byte (`NoOverlap`). `careful` is
history: everybody has freed only what it held, which the header asks of callers.
So is `modest`: nobody was given a block of more than the whole memory, which is
for the manager to refuse; it is in no promise, only in what is checked and proved
of the first-fit manager beyond the promise that it breaks. **`FirstFit`** is
`memory-manager.c`; its `Word` stands for 2^64, where sizes and addresses wrap.
**`Buddy`** is `buddymm.c`: headers that stay in memory after a block is given out
(they are what `memory_free` reads), linked lists as sequences, `Unlinked` with
the wrong line 59. `Joined` is one round of the loop of `memory_free`, `merge`
included, and does nothing once the loop has ended; `ReleaseBlock` takes
`MaxOrder` rounds, and each that joins raises the order, so these are enough
(`LoopEnds`, proved). The sums that `memory_state_get` is compared with are
recursive functions, over the orders and over the places where a block may begin.
`FFreeAgain` of `FirstFit` is a program that frees what it does not hold.

**`Phylo`** models the philosophers and the host. What is done while the global
semaphore is held is one step with taking it, where nobody else looks at what
it touches; what is looked at (the host's commands, philosophers that have just
been created) are steps of their own. `orderly`, `fed`, `served` and `unhindered`
are history variables, for what `create_philosopher`, `remove_philosopher` and
`remove_all_philosophers` are known to upset. The host's program is in the
foreground, and Ctrl+C there would end the host wherever it is, with the global
semaphore held or not, and leave the philosophers behind: it has no step here, nor
has what a philosopher that was passed over does once the program has ended.

The `MC` modules are what TLC runs, and the `Proofs` modules hold the proofs.
`MCMemory` puts the two managers side by side, of which a build has one.
`MCStructures` does so with the parts that share no state with any other: a behaviour
is about the ring, the memory or the table of philosophers (`chosen`), and the
rest stays as it began.

## The runs

| Run | What it shows |
|---|---|
| `processes` | 3 slots (idle, shell, one more that is used twice), 2 levels, sleeps of 2 ticks, stacks that may be refused. One runner (`SingleRunner`); no ready process out of its queue (`NoLostReady`); sleepers and entries together (`SleepEntries`); idling only when nobody can run (`IdleIsLastResort`); no early waking (`NoEarlyWake`). 2.4 million states. |
| `processes_live` | As above, sleeps of 1 tick, no refused stack, no program that names pid 0, a fair timer: no starvation (`NoStarvation`), sleepers wake (`SleepersWake`), nobody runs on a freed stack (`RunsOnItsFrame`). |
| `sleep_forever` | Violated: `SleepIsFinite`. A sleeper that is blocked and unblocked before its time sleeps for ever (see below). |
| `stop` | Violated: `StopsOnlyWhenAlone`. A process that has ended is killed again, and the system stops with the shell alive. |
| `queue_wrap` | Violated: `KeepsPromise`, with a counter that wraps at 3 in a ring of 4, as 256 does in 1024. |
| `semaphores` | 3 processes at 1 semaphore, closed and opened again: whatever is blocked, unblocked and killed, it implements a counting semaphore (`KeepsPromise`); while nothing but posts and closes touches the waiters, the ring lists exactly them (`RingListsWaiters`), no wake-up is lost (`NoLostWakeup`) and posted units are taken (`PostedIsTaken`). 905 thousand states. |
| `family` | 4 slots, 5 pids, 2 child slots, 2 semaphores: the foreground is handed down and back like a stack (`ForegroundIsAStack`); who sleeps in `wait_process` sleeps for a process that lives (`SleepsForTheLiving`); it is told the end of that process (`WaitTellsTheEnd`) and gets out (`EndIsNoticed`). |
| `terminal` | Keyboard, pipes, the shell, its programs and processes that do what they like, in six scenes, with creations that fail and Ctrl+C at any time: semaphores agree with positions (`UnitsCountBytes`) and are not lost (`SemaphoresHaveOwners`); nobody sleeps over a unit (`NobodyIsDeaf`) or in a closed pipe (`NobodyIsStranded`); each pipe is a channel of bytes but for two named steps (`Delivers`); when the prompt comes back no pipe is open, who is in front has not ended, and it is the shell unless a foreground creation failed (`PromptIsClean`). 720 thousand states. |
| `terminal_header` | Violated: `KeepsToTheHeader`, which is `Delivers` without the two steps. A reader of a pipe that is closed returns a byte nobody wrote. |
| `structures` | *The ring*, of 4 places, filled, emptied and wrapped: it keeps its shape (`RingShape`) and implements `Fifo` (`KeepsPromise`), `-1` when full and `NULL` when empty included. *Both memory managers*, in 256 bytes: no overlap, of the first-fit manager while it has granted nothing larger than the memory (`NothingShared`); used memory is held memory, with the same exception (`UsedMemoryIsHeld`); the buddy manager always partitions the memory (`Partitioned`), joins what can be joined (`NothingToJoin`) and, while some block is split, reports the rest (`ReportsWhenSplit`). *The table*, of 3 philosophers and a fourth: neighbours exclude each other (`NeighboursNeverEatTogether`), the hungry have a reason (`HungryHasAReason`), no deadlock (`SomebodyCanGoOn`), nobody stays behind (`NobodyIsLeftBehind`). 1.3 million states. |
| `memory_oversize` | Violated: `NoOverlap`. A size that wraps to 0 is granted, and its address again. |
| `memory_report` | Violated: `Reports`. With nothing allocated nothing is reported free. |

`SleepersWake` and `sleep_forever` do not contradict each other: the first is of
a process that went to sleep by itself (`previous` is READY), the second of one
that a wake-up has put back to sleep.

### Bounds

`PidBound` ends creation after two processes besides the shell: the second uses
the slot of the first, which is the interesting case; the 16 bits of `next_pid`
are never reached. `QueueBound` keeps system calls from filling a queue that
already has an entry, while the scheduler and the timer add without bound:
stale entries and an entry behind them do occur. `CountMod` stands for the 2^32
of `process_count`, and is above the number of slots, so that falling below zero
shows. `Naps` of two ticks let a sleeper be touched both before and at its time.
In `Semaphores`, `ValueBound` bounds the posts that are made, and two units
against two waiters is the case where one can be lost; the semaphores of the
code have 32 bits. The run has one semaphore: that an entry left in the ring of one
may wake a waiter of another is covered by the theorem `Counting`, which is of any number.

In `Family`, five pids in four slots make every slot but the shell's be used
again, with a father, a child and a grandchild alive at once; two child slots and
two semaphores run out. `UnitBound` ends only posts to a semaphore that already
has two units.

`Terminal` has buffers of 3 places, which hold 2 bytes: they fill, empty and
wrap. It has five pipes, of which 0 is standard input and 1 and 2 are never
opened, as in the code, and five semaphores, which are those of two pipes and one
more: the third pipe gets one and not the other. The processes and inputs that
one behaviour uses are a scene, since all at once are too many. There are six.
Without the shell's programs: (1) all kinds of keys and a shell that
reads; (2) three processes around one pipe, with Ctrl+C, and (3) two around a pipe
and standard input, with Ctrl+C; no creation fails in these; (4) two processes that
run out of semaphores and write to standard
input. With them: (5) `loop | cat`, waited for, with Ctrl+C; (6) all lines
(`echo | cat`, `loop | cat`, `cat`), in the foreground and the
background, with Ctrl+D and room for one program, so that one half of a pipeline
cannot be created. In 4, 5 and 6 a creation may fail after the foreground was
handed over. The run `terminal` has all six, `terminal_header` has
scene 2. `echo` writes one character, and lines have at most two, the line
of one character and the full line included. Symmetry is of the two processes
besides the shell.

In `structures`, the ring is filled up to its last place and its counter does not
wrap. The sizes of blocks are one that fits exactly, one that must be rounded up,
two large ones and one (1021 of 1024) that wraps to 0 when it is rounded;
the buddy levels are 5 to 8. `FramesBound` is reached. The fourth
philosopher comes and goes without bound. The least number is 3, the smallest
table in which left and right are different neighbours; in the code it is 5, and 13 the largest
(`phylo.c:9-10`).

### Fairness

`WF(Tick(start))` for every level `start`. The timer interrupt never stops while
the system runs, and `get_random_priority` gives each level a positive weight
(`processes.c:176-198`): a level that the timer's scheduler may draw for ever is
drawn in the end. Nothing is assumed of programs. In `Semaphores`, `WF(Dispatch(p))`
is what `NoStarvation` shows of the scheduler: a process that stays ready runs. The same holds
for `WF(Dispatch(s))` in `Family`.

### Deadlock

Checked for `processes`, `processes_live`, `sleep_forever`, `stop`,
`queue_wrap` and `semaphores`. A stopped system is not one: its
idle process halts (`Halted`). The others really may stop: in `Family` when every
process waits or has ended, in `Terminal` when all wait for keys that a scene does
not have, in `FirstFit` when a block cannot be had, in `Phylo` when the program has
ended, or as told below; what must not stop there is said by `EndIsNoticed`,
`NobodyIsDeaf` and `SomebodyCanGoOn`.

## What the violated runs show

- **`sleep_forever`.** `wake_up_process` on a blocked sleeper whose time has not
  come sets `state` to SLEEPING (`processes.c:542`) and leaves `previous` at
  SLEEPING. When its time comes, `wake_up_sleeping_processes` clears its entry
  and `unsleep_process` restores `previous`: SLEEPING again, with no entry left.
  `sleep-manager.h:13` says that a sleep is for a number of seconds.
- **`stop`.** `kill_process` accepts a process that has ended; it is queued and
  counted out a second time. `processes.h:162` says that
  `has_running_processes` is 1 while there are processes running.
- **`queue_wrap`.** `pcb-queueADT.h:18` promises 0 for a process that was queued
  and -1 for a full queue. With a counter of 8 bits the 256th entry empties the
  queue. As every block and unblock of a ready process leaves one more entry,
  256 such pairs within a time slice are enough.
- **`terminal_header`.** `pipes.h:50` says that `read_pipe` blocks "until data is
  written to the pipe", and line 56 that it returns the number of bytes
  "actually read". When its pipe is closed `sem_wait` returns without a unit
  (`semaphores.c:111-114`), and `read_pipe` goes on as if there was one
  (`pipes.c:162-166`): it returns a byte that nobody wrote (`ReadsMadeUp`).
- **`memory_oversize`.** `memory-manager.h:48-54` promises a block of at least the
  size that was asked for, or NULL. A size within 7 of 2^64 becomes 0 in the
  rounding (`memory-manager.c:53`), is granted, and the next request has the
  same address.
- **`memory_report`.** `memory-manager.h:74-75` promises the current usage. The
  loop at `buddymm.c:182` leaves out the largest order: when the whole memory is
  one free block, all of it is reported as used. So it is from the start.

Places without a run of their own where the models follow the code and a document says otherwise:

- `pipes.h:65` says of `write_pipe`: "Cannot write to STDIN pipe." The test at
  `pipes.c:176` lets it pass, and so does `sys_write` (`syscalls.c:39`). This is
  `WritesInput`, which `KeepsToTheHeader` forbids as well; scene 4 has it. (Line 95
  says the same of the kind that does not block, with which the keyboard
  driver writes all that is typed: that it does is the design, and `Type`.)
- `pipes.h:50` also means that a read goes on once data is written. A process that is
  killed in the ring of the pipe's
  semaphore stays there, and one that Ctrl+C has ended while it ran may enter the
  ring before the tick: `kill_foreground_process` switches nobody away
  (`processes.c:373-380`), and `block_process` does not block the dead. The next
  `sem_post` takes its entry and wakes nobody (`semaphores.c:138-141`).
  `NobodyIsDeaf` excepts it (`steady`), and fails without that.
- `memory-manager.h:13-17` and `39-40` speak of the region that is managed. Only the
  start of a new fragment is compared with `MEMORY_END`
  (`memory-manager.c:66`): the last one may end behind it.

## What the models had to except

Some properties hold only while something has not happened, and history variables
say what. What they except is what the code does, and TLC shows it when the
exception is removed. Where a document promises otherwise, that is told above.

- `tokenCalm`: a foreground process whose creation fails after it has taken the
  foreground (`processes.c:259-297`) leaves nobody in front. As `children_count`
  never decreases, this happens to the shell after 64 commands. A process
  that Ctrl+C has killed and that still runs to the tick may create a
  foreground child; one that ended may be killed again and give the
  foreground away a second time; an idle process that adopts children by slot may
  change the father of somebody unrelated.
- `waitCalm`: a slot that a `wait_process` still refers to is taken by a new
  process.
- `calm` (pipes): a process that was woken by the closing of its pipe, and has
  not run yet, goes on with the next pipe that gets the same semaphores.
- `steady`: a process that has ended is left in a ring, and the next byte wakes
  nobody. Ctrl+C on one that is blocked for a character does
  not leave it there, since it types a character as well. Three things do:
  `sys_kill` of who is inside a call, Ctrl+C on who is in a call on another
  semaphore, and `sem_wait` of a process that Ctrl+C has ended while it ran.
- `smooth`: a program that was to be in the foreground could not be created, or no
  semaphore was left to wait for it. The foreground has moved by then and the
  prompt is back: the shell does not read, until Ctrl+C gives the foreground back
  (`PromptIsClean` says that it always can). This is the first case of
  `tokenCalm` as the shell meets it.
- `careful`: somebody freed what it did not hold, which the header forbids.
- `modest`: the first-fit manager has granted a block of more than the whole
  memory (`memory_oversize`).
- `orderly`: `remove_all_philosophers` passes over one that has not begun
  (`phylo.c:177`), which then runs with a global semaphore that is closed.
- `fed`: a philosopher that is removed at its meal leaves a neighbour hungry with
  nobody eating (`phylo.c:147-171`), and one that is added may part the hungry
  from the eating (`phylo.c:127-131`).
- `served`, `unhindered`: a philosopher killed in the ring of the global
  semaphore swallows a wake-up; and the host that waits in a philosopher's own
  semaphore (`phylo.c:156`) takes its unit.

Two more are in the formulas themselves: `Delivers` allows `WritesInput` and
`ReadsMadeUp`, of which `terminal_header` shows the second; and `ReportsWhenSplit`
leaves out the state in which the memory is one free block, which `memory_report` shows.

## The proofs

All are for every value of the constants, from the assumptions named in the
modules (`ConstantsOK`, `RingOK`, `SemaphoresOK`, `FamilyOK`, `PipesOK`,
`ShellOK`, `AllocatorOK`, `FirstFitOK`, `BuddyOK`, `PhyloOK`): sizes are positive, markers
such as NULL are not processes, and, for semaphores, there are fewer processes
than places in a ring. `PipesOK` says that there are finitely many processes, since
those who were woken are counted, and that a buffer has at least two places.
`BuddyOK` says that the memory is of a power of two (2 MiB in the code,
`memory-manager.h:13-17`) and that a
header is smaller than the smallest block. Every safety property that a passing
run checks is proved.

- **`ProcessesProofs`**: `TypesCorrect`, `OneRuns`, `NoneLost`. The inductive
  invariant is the conjunction of the three. `SingleRunner` needs to say who may
  be current without being RUNNING: a process that Ctrl+C has killed, which is
  in `termQ`. `NoLostReady` needs both others: at a switch the process that was
  running becomes READY and must be requeued, and the entries that
  `get_next_process` throws away must not be good ones; that nobody but the
  current process is RUNNING is what makes the requeuing of one enough.
  In its second half `SleepersListed`, `NoneWokenEarly`, `IdlesOnlyAlone`, and
  `FramesForAll` where no creation fails. An entry of `sleep_queue` holds a
  pid, so the invariant `SleepInv` needs that a pid is given out once
  (`PidsGivenOnce`); `Agrees` then says, for each state and previous state of a
  process, how many entries it has. That the idle process neither sleeps nor is
  killed (`IdleStays`) and `NoLostReady` after the switch give the third.
- **`PCBQueueProofs`**: `ShapeKept`, `RingIsQueue`. `RingShape` is inductive with
  the types: `head` is `tail + size` around the ring. `Wrapped` and `Around`
  remove `%`; `EnqueueKeeps` and `DequeueKeeps` then compare the entries, seen as
  a sequence, with `Append` and `Tail`. Assumed is what the counter needs, that it
  does not wrap (`CountedSpec`); without that the theorem is false, which the run
  `queue_wrap` shows.
- **`SemaphoresProofs`**: `TypesCorrect`, `Counting`. Every step of the
  implementation is a step of the abstract semaphore or a stutter. The
  invariant adds to the types that the process which runs is not inside
  `sem_wait` (`RunnerIsOut`): otherwise a call could replace what it asks for.
  In its second half `RingsListWaiters`, `NoneLeftAsleep`. The invariant is,
  for each semaphore, that its ring is exactly its waiters (`RingIs`) and that as
  many of them have been woken as it has units, or all (`Served`). It is stated
  over `Entry(s, k)`, the ring seen from its first place, so that a post removes
  entry 0 and a wait adds one at the end; `%` appears only in the lemmas that
  say so. That there are fewer processes than places keeps the ring from
  running over.
- **`FamilyProofs`**: `TypeCorrect`, `ForegroundCorrect`, `WaitersCorrect` and the
  action property `WaitCorrect`. The invariant has three parts. Always: a pid is
  given out once, who runs is not in `wait_process` (`Numbers`), and the semaphore of a slot is
  in use and no other slot's (`SemsAreHeld`). While `tokenCalm`: every process
  of the stack is alive in a slot of its own, its father there is the one before,
  and the last is the only one alive with the flag (`TokenIsPassedDown`): the
  pids grow along the stack, so a slot that is used again cannot be one of it.
  While `waitCalm`: the slot that a `wait_process` refers to still holds its
  process, and either that lives and the waiter is alone in the ring of its
  semaphore, or it has ended and its unit is there (`WaitsInOrder`). The last is
  what makes the status right that is read by slot, later.
- **`TerminalProofs`**: `TypeCorrect`, `UnitsCorrect`, `OwnersCorrect`, `NoneDeaf`,
  `NoneStranded`, and the refinement `PipesDeliver`. The proofs are about `PStep`,
  which leaves open which bytes are typed, asked for and written, so that they
  hold of the shell's steps too. `PInv` has always: who is in a call has the
  processor or a semaphore it was blocked in (`CallsOK`); who has the processor is in
  no ring (`AloneOK`), so that one that Ctrl+C has ended puts its pid there once;
  who is in front has not ended, and while `smooth` it is the shell or who the
  shell waits for (`FrontOK`); the semaphores in use are those of the open pipes, each its own
  (`OwnersOK`); a ring lists the blocked of its semaphore, once (`RingsOK`). While
  `calm` a call is in the semaphore of its pipe, or the pipe is closed and nobody
  has its semaphores (`CutOK`): this is what allows a woken process to go on by
  the number of the semaphore; and the units count the bytes (`UnitsOK`). While also
  `steady`, no more units than woken processes are in a semaphore that somebody is blocked in
  (`DeafOK`), which is what a lost wake-up would break. In the refinement a read
  is `Tail` and a write is `Append` of the bytes between the two positions
  (`HeldTail`, `HeldAppend`), closing empties the channel, `WritesInput` and
  `ReadsMadeUp` are the two exceptions, all else stutters.
- **`ShellProofs`**: `ShellTypesCorrect`, `PromptComesBack`, `PipesOfTheShell`,
  `ShellDelivers`. The steps of the shell and its programs are `PStep`s, so `PInv`
  holds with its theorems. `SessionOK` adds which pipe is open at each place of
  `execute_pipe`, with creations that fail and halves that are interrupted, and
  that the shell is in a read only while it reads a line. Whoever is in front has not
  ended in every behaviour; that it is the shell, or who it waits for, while `smooth`.
- **`MemoryProofs`**, first part: `FirstFitTypes`, `FirstFitNeverOverlaps`,
  `FirstFitCountsWhatIsHeld`. The invariant
  `Separate` says that fragments lie one after the other below `open`, and that
  each block held is in one fragment, which is marked as used and is nobody
  else's. It holds while `careful` and `modest`: no size is larger than the
  memory then, so that neither its rounding nor the new `open` wraps. Without
  `modest` the theorems are false of this manager (`memory_oversize`); the buddy
  manager's need no such condition. For `used_memory` the sum over the used fragments
  is carried along as a function (`Sums`): a step changes it from one fragment on;
  it stays below `open`, so it does not wrap (`SumsFit`); and it is what the
  recursive function in `UsedMemoryIsHeld` gives (`TakenIsSum`). The prover
  has no induction: these go by the least number for which the claim
  fails (`Least`, from the well-foundedness of finite sets under inclusion).
  Second part, the buddy manager: `BuddyKeepsThePartition`. The invariant `BInv`
  is that the blocks in the lists and those that are held tile the memory
  (`HeapOK`, `Tiles`): each begins at a multiple of its size (`Placed`), ends
  before the next one begins, and they cover it; a listed one is in the list of
  its header's order, once; a held one has room for its header and what was asked for (`HeldFits`). The
  arithmetic is in a few lemmas: sizes divide each other, a block and its buddy
  are the halves of a block of the next order (`BuddyHalves`), and what begins at
  the buddy is not larger (`BuddyBegins`). `SplitHeap` is the splitting of
  `memory_alloc`. For `memory_free`, `LoopOK` is the invariant of the loop: the
  heap and the block at hand, which is in no list, tile the memory. A round keeps
  it (`JoinedKeeps`), and after the last one nothing joins (`LoopEnds`). The wrong
  mark of `remove_block` (line 59) touches no order, so the partition survives it;
  what is joined is known only without it (`whole`: `AllFree`, `Unjoined`).
  `ReportsAreTrue` is of the states in which some block is split; it needs
  that nothing is lost in bytes: `Balanced`, the lists and
  the holders add up to the memory. A split and a join keep the sum
  (`TotalSplits`, `Worth`); sums over orders and cells are functions that are
  known step by step, which is where the least counterexample stands for induction.

  At the end, of `MCMemory`'s system: `MemoryIsNotShared`, `FragmentsAreFragments`,
  `UsedMemoryIsCounted`, `MemoryStaysPartitioned`, `HalvesAreJoined`,
  `ReportsAreTrue`, its properties in the run `structures` as they stand there. The
  manager that was not built stays as it began (`MInv`).
- **`PhyloProofs`**: `NeighboursExclude`, `HungryHaveReasons`, `NoneLeftBehind`.
  The invariant holds while `remove_all_philosophers` has passed
  nobody over (`orderly`); what it says of the hungry also while `fed`.
  A philosopher's place says its state (`StateIsPlace`);
  its semaphore has a unit only when it eats and does not know it yet
  (`SemIsTold`); the host adds and removes at the end of the table
  (`HostAtTheEnd`), so that who sits down or gets up is between the first and the
  last; and seating one whose neighbours do not eat keeps exclusion. The table
  turns without `%` through `Left` and `Right`.
  In its second half `PhyloTypes` and `NoneLockedUp`. The first is of every
  behaviour, disorderly ones too: `TInv` says that one at most is at the table
  while its unit is away (`TableIsHeld`), that a unit in a philosopher's
  semaphore is for one that was told to eat (`HungryAwaits`), and what
  the host counts (`HostCounts`). The second needs `Going`: who is in the ring
  of the table wants it, once; when its unit is there although the ring is not
  empty, somebody who was woken is on the way, and when it is away somebody is at
  the table (`RingOfTable`); and a philosopher is in its own ring only while it
  is hungry, and has its unit when it was told to eat (`OwnRing`). If nobody could
  go on, all at the table would be hungry with nobody eating, against `HungryHasAReason`.

Only model-checked: `NoStarvation`, `SleepersWake`, `PostedIsTaken` and
`EndIsNoticed`, which are liveness under fairness and out of the prover's reach.

## Not modelled

The boot loader (third-party), the video driver, the clock, the random generator
(its result is a free choice), the module loader, formatting and strings in the C
library of the user programs, the tests (clients whose calls the models make in
every order), and the parts of the shell that parse arguments and print. Its
built-in commands that are one system call (kill, block, nice, mem, ps) are in
the kernel's modules as that call. `read_pipe_nonblocking` has no caller.
Faults of width stay out of the models: `next_pid` wraps after 65535 creations, pid
1025 is `NOT_A_PROCESS` for the semaphores, and `cat` and `filter` write past their
buffers with long input (`shell-programs.c:151, 255`). `idle_process` reads eight
bytes of the one-byte `system_running` (`scheduler-asm.asm:58`); `Halted` takes it
to read the byte. A killed sleeper's entry stays in `sleep_queue`, which may fill
up: no property is about that.
