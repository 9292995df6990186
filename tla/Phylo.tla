-------------------------------- MODULE Phylo --------------------------------
(***************************************************************************)
(* The dining philosophers of Userland/UserCodeModule/programs/phylo.c:    *)
(* one process for each philosopher, and the host that adds and removes    *)
(* them at the user's command.                                             *)
(*                                                                         *)
(* What is done while the global semaphore is held is one step, and so is  *)
(* taking it: states, pids and count are only touched meanwhile, but for   *)
(* what Begin and Next show.  Semaphores are those of Semaphores: a post   *)
(* wakes the first in the ring, who then tries again.  A philosopher's     *)
(* sleep takes any time.  Ctrl+C, which ends a host that is in front and   *)
(* leaves its philosophers alive, is left out.                             *)
(***************************************************************************)
EXTENDS Integers, Sequences, FiniteSets

CONSTANTS
    MIN_PHILOSOPHERS, MAX_PHILOSOPHERS,
    Host,           \* the process of run_philosophers
    Gone,           \* the entry of a killed process in a ring
    Table           \* the global semaphore

ASSUME PhyloOK ==
    /\ MIN_PHILOSOPHERS \in Nat \ {0} /\ MAX_PHILOSOPHERS \in Nat
    /\ MIN_PHILOSOPHERS <= MAX_PHILOSOPHERS
    /\ Host \notin Nat /\ Gone \notin Nat /\ Table \notin Nat /\ Host # Gone

Philosophers == 0 .. MAX_PHILOSOPHERS - 1
Processes    == Philosophers \cup {Host}
Sems         == Philosophers \cup {Table}
Closed       == -1                  \* the value of a semaphore that is closed

VARIABLES
    philosopher_states,
    philosopher_count,
    pc,         \* pc[i]: where philosopher i is, "none" when there is no such process
    at, job, idx,   \* where the host is, what for, and for which philosopher
    value, ring,    \* the semaphores: their value, and who waits
    orderly, fed, served, unhindered    \* history: see PassesOn, Create and RemoveOne

table == <<philosopher_states, philosopher_count, pc>>
host  == <<at, job, idx>>
sems  == <<value, ring>>
ghosts == <<orderly, fed, served, unhindered>>
vars  == <<table, host, sems, ghosts>>

Init ==
    /\ philosopher_states = [i \in Philosophers |-> "NONE"]
    /\ philosopher_count = 0
    /\ pc = [i \in Philosophers |-> "none"]
    /\ at = "lock" /\ job = "start" /\ idx = 0
    /\ value = [k \in Sems |-> IF k = Table THEN 1 ELSE Closed]
    /\ ring = [k \in Sems |-> <<>>]
    /\ orderly = TRUE /\ fed = TRUE /\ served = TRUE /\ unhindered = TRUE

RIGHT_OF(x) == (x + 1) % philosopher_count
LEFT_OF(x)  == (x + philosopher_count - 1) % philosopher_count

-----------------------------------------------------------------------------
(* sem_wait of k by p, which is not in the ring: p passes, or it blocks. *)
PassesFree(p, k) ==     \* mutant: the unit is not taken
    (\A i \in 1 .. Len(ring[k]) : ring[k][i] # p) /\ value[k] # 0 /\ UNCHANGED sems
Passes(p, k) ==
    /\ \A i \in 1 .. Len(ring[k]) : ring[k][i] # p
    /\ value[k] # 0
    /\ value' = IF value[k] = Closed THEN value ELSE [value EXCEPT ![k] = @ - 1]
    /\ UNCHANGED ring
Blocks(p, k) ==
    /\ \A i \in 1 .. Len(ring[k]) : ring[k][i] # p
    /\ value[k] = 0
    /\ ring' = [ring EXCEPT ![k] = Append(@, p)]
    /\ UNCHANGED value

(* sem_post of the semaphores in ks, when the values are v and the rings r. *)
PostedTo(ks, v, r) ==
    /\ value' = [k \in Sems |-> IF k \in ks /\ v[k] # Closed THEN v[k] + 1 ELSE v[k]]
    /\ ring' = [k \in Sems |-> IF k \in ks /\ v[k] # Closed /\ r[k] # <<>> THEN Tail(r[k]) ELSE r[k]]
Post(ks) == PostedTo(ks, value, ring)

-----------------------------------------------------------------------------
(* philosopher_process. *)
Begin(i) ==
    /\ pc[i] = "new"
    /\ philosopher_states' = [philosopher_states EXCEPT ![i] = "THINKING"]
    /\ pc' = [pc EXCEPT ![i] = "think"]
    /\ UNCHANGED <<philosopher_count, host, sems, ghosts>>

(* The sem_waits of philosopher i: where it is, for what, and where it goes. *)
WaitsFor(i) == CASE pc[i] \in {"think", "eat"} -> Table [] pc[i] = "await" -> i
Sits(i) ==
    /\ pc[i] \in {"think", "eat", "await"}
    /\ Passes(i, WaitsFor(i))
    /\ pc' = [pc EXCEPT ![i] = CASE @ = "think" -> "pick" [] @ = "eat" -> "put" [] @ = "await" -> "eat"]
    /\ UNCHANGED <<philosopher_states, philosopher_count, host, ghosts>>
Queues(i) ==
    /\ pc[i] \in {"think", "eat", "await"}
    /\ Blocks(i, WaitsFor(i))
    /\ UNCHANGED <<table, host, ghosts>>

(* pick_up_forks: i eats if none of its neighbours does. *)
MayEat(i) ==
    /\ philosopher_states[LEFT_OF(i)] # "EATING"
    /\ philosopher_states[RIGHT_OF(i)] # "EATING"
PickUp(i) ==
    /\ pc[i] = "pick"
    /\ philosopher_states' = [philosopher_states EXCEPT ![i] = IF MayEat(i) THEN "EATING" ELSE "HUNGRY"]
    /\ Post(IF MayEat(i) THEN {i, Table} ELSE {Table})
    /\ pc' = [pc EXCEPT ![i] = "await"]
    /\ UNCHANGED <<philosopher_count, host, ghosts>>

(* put_down_forks: each neighbour that is hungry eats, if its other neighbour
   does not; beyond is that one. *)
NobodyStarts(st, i, beyond) == FALSE                \* mutant: nobody is told
Starts(st, i, beyond) == st[i] = "HUNGRY" /\ st[beyond] # "EATING"
PutDown(i) ==
    /\ pc[i] = "put"
    /\ LET l  == LEFT_OF(i)
           r  == RIGHT_OF(i)
           s1 == [philosopher_states EXCEPT ![i] = "THINKING"]
           left == Starts(s1, l, LEFT_OF(l))
           s2 == IF left THEN [s1 EXCEPT ![l] = "EATING"] ELSE s1
           right == Starts(s2, r, RIGHT_OF(r))
       IN
       /\ philosopher_states' = IF right THEN [s2 EXCEPT ![r] = "EATING"] ELSE s2
       /\ Post({Table} \cup {x \in {l} : left} \cup {x \in {r} : right})
    /\ pc' = [pc EXCEPT ![i] = "think"]
    /\ UNCHANGED <<philosopher_count, host, ghosts>>

-----------------------------------------------------------------------------
(* The host.  It takes the global semaphore before it adds or removes. *)
HostTakes ==
    /\ at = "lock"
    /\ \/ Passes(Host, Table) /\ at' = "inside"
       \/ Blocks(Host, Table) /\ UNCHANGED at
    /\ UNCHANGED <<table, job, idx, ghosts>>

(* Where remove_all_philosophers(max) begins. *)
SecondLast(max) == max - 2      \* mutant: off by one
LastOf(max) == max - 1

Goes(place, what, i) == at' = place /\ job' = what /\ idx' = i

(* create_philosopher, which may fail for want of a semaphore or a process; at
   the start those that are there are removed then.  The new one comes between
   the first and the last: it may part a hungry one from the neighbour that eats,
   whom it waits for (fed: this has not happened). *)
Parts ==
    /\ philosopher_count > 0
    /\ {philosopher_states[0], philosopher_states[philosopher_count - 1]} = {"HUNGRY", "EATING"}
Create(succeeds) ==
    /\ at = "inside" /\ job \in {"start", "add"}
    /\ \/ /\ succeeds
          /\ pc' = [pc EXCEPT ![idx] = "new"]
          /\ philosopher_count' = philosopher_count + 1
          /\ PostedTo({Table}, [value EXCEPT ![idx] = 0], ring)
          /\ IF job = "start" /\ idx + 1 < MIN_PHILOSOPHERS
             THEN Goes("lock", "start", idx + 1) ELSE Goes("read", job, idx)
          /\ fed' = (fed /\ ~Parts)
       \/ /\ ~succeeds
          /\ Post({Table})
          /\ IF job = "start" THEN Goes("next", "leave", LastOf(idx)) ELSE Goes("read", job, idx)
          /\ UNCHANGED <<pc, philosopher_count, fed>>
    /\ UNCHANGED <<philosopher_states, orderly, served, unhindered>>

(* run_philosophers: a command of the user.  (One that is refused changes
   nothing: no step.) *)
Command ==
    /\ at = "read"
    /\ \/ philosopher_count < MAX_PHILOSOPHERS /\ Goes("lock", "add", philosopher_count)
       \/ philosopher_count > MIN_PHILOSOPHERS /\ Goes("lock", "remove", philosopher_count - 1)
       \/ Goes("next", "leave", LastOf(philosopher_count))
    /\ UNCHANGED <<table, sems, ghosts>>

(* remove_philosopher: while both neighbours eat the host waits, in the
   philosopher's own semaphore; then the philosopher is killed, wherever it is,
   and leaves its entries in the rings.  fed: none was killed at its meal, after
   which a neighbour may be hungry for nobody's sake.  served: none was killed
   in the ring of the global semaphore, where its entry swallows a wake-up. *)
NeverWaits(i) == FALSE          \* mutant: it does not wait
MustWait(i) ==
    philosopher_states[LEFT_OF(i)] = "EATING" /\ philosopher_states[RIGHT_OF(i)] = "EATING"
WithoutProcess(i, r) ==
    [k \in Sems |-> IF k = i THEN <<>> ELSE [n \in 1 .. Len(r[k]) |-> IF r[k][n] = i THEN Gone ELSE r[k][n]]]
QueuesForTable(i) == \E n \in 1 .. Len(ring[Table]) : ring[Table][n] = i
RemoveOne ==
    /\ at = "inside" /\ job \in {"remove", "leave"}
    /\ \/ /\ MustWait(idx)
          /\ Post({Table})
          /\ at' = "wait" /\ unhindered' = FALSE
          /\ UNCHANGED <<table, job, idx, orderly, fed, served>>
       \/ /\ ~MustWait(idx)
          /\ pc' = [pc EXCEPT ![idx] = "none"]
          /\ philosopher_states' = [philosopher_states EXCEPT ![idx] = "NONE"]
          /\ philosopher_count' = philosopher_count - 1
          /\ PostedTo({Table}, [value EXCEPT ![idx] = Closed], WithoutProcess(idx, ring))
          /\ IF job = "leave" THEN Goes("next", job, idx - 1) ELSE Goes("read", job, idx)
          /\ fed' = (fed /\ philosopher_states[idx] # "EATING")
          /\ served' = (served /\ ~QueuesForTable(idx))
          /\ UNCHANGED <<orderly, unhindered>>
HostWaits ==
    /\ at = "wait"
    /\ \/ Passes(Host, idx) /\ at' = "lock"
       \/ Blocks(Host, idx) /\ UNCHANGED at
    /\ UNCHANGED <<table, job, idx, ghosts>>

(* remove_all_philosophers: those that have not begun are passed over, they are
   NONE; the end, which closes the global semaphore. *)
PassesOn ==
    /\ at = "next" /\ idx >= 0
    /\ \/ philosopher_states[idx] # "NONE" /\ at' = "lock" /\ UNCHANGED <<idx, orderly>>
       \/ /\ philosopher_states[idx] = "NONE"
          /\ idx' = idx - 1 /\ orderly' = (orderly /\ pc[idx] = "none")
          /\ UNCHANGED at
    /\ UNCHANGED <<table, job, sems, fed, served, unhindered>>
Leave ==
    /\ at = "next" /\ idx < 0
    /\ at' = "gone"
    /\ value' = [value EXCEPT ![Table] = Closed] /\ ring' = [ring EXCEPT ![Table] = <<>>]
    /\ UNCHANGED <<table, job, idx, ghosts>>

HostActs == (\E ok \in BOOLEAN : Create(ok)) \/ RemoveOne \/ HostWaits \/ PassesOn \/ Leave
HostSteps == HostTakes \/ HostActs \/ Command
Philosopher(i) == Begin(i) \/ Sits(i) \/ Queues(i) \/ PickUp(i) \/ PutDown(i)

(* Bound: what a philosopher that was passed over does after the end is left
   out (at # "gone"). *)
Next == at # "gone" /\ (HostSteps \/ \E i \in Philosophers : Philosopher(i))

Spec == Init /\ [][Next]_vars

-----------------------------------------------------------------------------
TypeOK ==
    /\ philosopher_states \in [Philosophers -> {"NONE", "THINKING", "HUNGRY", "EATING"}]
    /\ philosopher_count \in 0 .. MAX_PHILOSOPHERS
    /\ pc \in [Philosophers -> {"none", "new", "think", "pick", "await", "eat", "put"}]
    /\ at \in {"lock", "inside", "read", "wait", "next", "gone"}
    /\ job \in {"start", "add", "remove", "leave"} /\ idx \in -1 .. MAX_PHILOSOPHERS - 1
    /\ value \in [Sems -> {Closed, 0, 1}]
    /\ ring \in [Sems -> Seq(Processes \cup {Gone})]
    /\ orderly \in BOOLEAN /\ fed \in BOOLEAN /\ served \in BOOLEAN /\ unhindered \in BOOLEAN

Seated == 0 .. philosopher_count - 1

(* Two philosophers who sit next to each other never eat at the same time, even
   as others are added and removed and neighbours change, as long as
   remove_all_philosophers passes nobody over (pick_up_forks, put_down_forks,
   remove_philosopher). *)
NeighboursNeverEatTogether ==
    orderly => \A i \in Seated : RIGHT_OF(i) # i => ~(pc[i] \in {"eat", "put"} /\ pc[RIGHT_OF(i)] \in {"eat", "put"})

(* Nobody is hungry for nothing: between two uses of the table a hungry
   philosopher has a neighbour who eats (put_down_forks tells those who may).
   Three things that the code does are excepted from there on: a philosopher was
   removed at its meal (remove_philosopher); one was added between a hungry one
   and the neighbour who ate (create_philosopher); remove_all_philosophers
   passed one over. *)
HungryHasAReason ==
    orderly /\ fed =>
        \A i \in Seated : philosopher_states[i] = "HUNGRY" =>
            "EATING" \in {philosopher_states[LEFT_OF(i)], philosopher_states[RIGHT_OF(i)]}

(* The philosophers and the host never lock each other up: one of them can go on.
   Excepted are the sessions in which remove_philosopher has killed one in the
   ring of the global semaphore, whose entry then swallows a wake-up (served), or
   has waited in a philosopher's own semaphore and may have taken its unit
   (unhindered), after either of which 'q' may not end the program; and those in
   which HungryHasAReason is excepted (orderly, fed). *)
Waiting(p) == \E k \in Sems : \E n \in 1 .. Len(ring[k]) : ring[k][n] = p
SomebodyCanGoOn ==
    orderly /\ fed /\ served /\ unhindered =>
        \/ at \in {"inside", "next", "gone"}
        \/ at \in {"lock", "wait"} /\ ~Waiting(Host)
        \/ \E i \in Philosophers : pc[i] # "none" /\ ~Waiting(i)

(* Nobody is left at the table when the program ends, but who had not begun when
   remove_all_philosophers came by.  (The program ends by itself here; Ctrl+C on
   the host would leave all of them.) *)
NobodyIsLeftBehind == at = "gone" /\ orderly => \A i \in Philosophers : pc[i] = "none"
=============================================================================
