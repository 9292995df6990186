-------------------------- MODULE SemaphoresProofs --------------------------
(***************************************************************************)
(* For any number of processes, semaphores and places of their rings, and  *)
(* whatever processes are blocked, unblocked or killed: the semaphores     *)
(* keep their types and are counting semaphores.  The steps of the         *)
(* implementation are matched with those of the abstract semaphore one by  *)
(* one; that a process which runs waits for nothing is needed for that.    *)
(***************************************************************************)
EXTENDS Semaphores, FiniteSetTheorems, FunctionTheorems, TLAPS

RunnerIsOut == running \in Procs => at[running] = NoSem
IInv == TypeOK /\ RunnerIsOut

(* The table of processes and the indices of the rings. *)
LEMMA Constants ==
    /\ MaxProcesses \in Nat /\ MaxProcesses > 0
    /\ MaxSemaphores \in Nat /\ ValueBound \in Nat
  <1>1. Cardinality(Procs) \in Nat
    BY SemaphoresOK, FS_CardinalityType DEF SemaphoresOK
  <1>2. QED BY <1>1, SemaphoresOK DEF SemaphoresOK

LEMMA Indices == \A i \in Places : NextIndex(i) \in Places
  BY Constants DEF Places, NextIndex

LEMMA Tables ==
    ASSUME NEW st \in [Procs -> {"READY", "BLOCKED", "TERMINATED"}]
    PROVE  \A set : Awake(st, set) \in [Procs -> {"READY", "BLOCKED", "TERMINATED"}]
  BY DEF Awake

(* What the parts of the handlers do to the types and to the abstraction. *)
LEMMA TakenStep ==
    ASSUME IInv, NEW p \in Procs, NEW s \in Sems, at[p] \in {NoSem, s},
           used[s], value[s] > 0, Taken(p, s), calm' \in BOOLEAN
    PROVE  IInv' /\ Promise!Take(p, s)
<1>1. value[s] \in 0 .. ValueBound /\ value[s] - 1 \in 0 .. ValueBound
  BY Constants DEF IInv, RunnerIsOut, TypeOK
<1>2. IInv'
  BY <1>1 DEF IInv, RunnerIsOut, TypeOK, Taken
<1>3. Count[s] = value[s] /\ Count[s] # Closed /\ Count[s] > 0
  BY <1>1, SemaphoresOK DEF Count, SemaphoresOK
<1>4. Count' = [Count EXCEPT ![s] = @ - 1]
  BY DEF Count, Taken, IInv, RunnerIsOut, TypeOK
<1>5. QED BY <1>2, <1>3, <1>4 DEF Promise!Take, Taken

LEMMA QueuedStep ==
    ASSUME IInv, NEW p \in Procs, NEW s \in Sems, at[p] \in {NoSem, s},
           used[s], value[s] = 0, Queued(p, s), calm' \in BOOLEAN
    PROVE  IInv' /\ [Promise!Next]_<<Count, at>>
<1>1. last[s] \in Places /\ NextIndex(last[s]) \in Places
  BY Indices DEF IInv, RunnerIsOut, TypeOK
<1>2. IInv'
  BY <1>1, SemaphoresOK DEF SemaphoresOK, IInv, RunnerIsOut, TypeOK, Queued, Stopped
<1>3. Count' = Count
  BY DEF Count, Queued
<1>4. Count[s] = 0
  BY DEF Count
<1>5. CASE at[p] = s
  BY <1>2, <1>3, <1>5 DEF Queued, IInv, RunnerIsOut, TypeOK
<1>6. CASE at[p] = NoSem
  <2>1. Promise!Ask(p, s)
    BY <1>3, <1>4, <1>6 DEF Promise!Ask, Queued
  <2>2. QED BY <1>2, <2>1 DEF Promise!Next
<1>7. QED BY <1>5, <1>6

LEMMA PostedStep ==
    ASSUME IInv, NEW s \in Sems, used[s], value[s] < ValueBound,
           NEW st \in [Procs -> {"READY", "BLOCKED", "TERMINATED"}],
           Posted(s, st), UNCHANGED <<at, running>>, calm' \in BOOLEAN
    PROVE  IInv' /\ Promise!Post(s)
<1>1. /\ value[s] + 1 \in 0 .. ValueBound
      /\ first[s] \in Places /\ NextIndex(first[s]) \in Places
  BY Constants, Indices DEF IInv, RunnerIsOut, TypeOK
<1>2. /\ value' = [value EXCEPT ![s] = @ + 1]
      /\ waiting' = [waiting EXCEPT ![s][first[s]] = NotAProcess]
      /\ first' \in [Sems -> Places]
      /\ state' \in [Procs -> {"READY", "BLOCKED", "TERMINATED"}]
      /\ UNCHANGED <<used, last>>
  BY <1>1, Tables DEF Posted, IInv, RunnerIsOut, TypeOK
<1>3. IInv'
  BY <1>1, <1>2 DEF IInv, RunnerIsOut, TypeOK
<1>4. Count[s] # Closed
  BY SemaphoresOK DEF Count, IInv, RunnerIsOut, TypeOK, SemaphoresOK
<1>5. Count' = [Count EXCEPT ![s] = @ + 1]
  BY <1>2 DEF Count, IInv, RunnerIsOut, TypeOK
<1>6. QED BY <1>3, <1>4, <1>5 DEF Promise!Post

-----------------------------------------------------------------------------
LEMMA Initially == Init => IInv /\ Promise!Init
<1> SUFFICES ASSUME Init PROVE IInv /\ Promise!Init
  OBVIOUS
<1>1. IInv
  BY Constants, SemaphoresOK DEF Init, IInv, TypeOK, RunnerIsOut, SemaphoresOK, Places
<1>2. Promise!Init
  BY DEF Init, Count, Promise!Init
<1>3. QED BY <1>1, <1>2

LEMMA StepKeeps ==
    IInv /\ [Next]_vars => IInv' /\ [Promise!Next]_<<Count, at>>
<1> SUFFICES ASSUME IInv, [Next]_vars
             PROVE  IInv' /\ [Promise!Next]_<<Count, at>>
  OBVIOUS
<1>1. CASE UNCHANGED vars
  BY <1>1 DEF vars, IInv, RunnerIsOut, TypeOK, Count
<1>2. CASE DispatchIdle
  BY <1>2, SemaphoresOK DEF SemaphoresOK, DispatchIdle, semaphores, IInv, RunnerIsOut, TypeOK, Count
<1>3. ASSUME NEW p \in Procs, Dispatch(p)
      PROVE  IInv' /\ [Promise!Next]_<<Count, at>>
  <2>1. calm' \in BOOLEAN
    BY <1>3 DEF Dispatch, IInv, RunnerIsOut, TypeOK
  <2>2. CASE at[p] = NoSem /\ running' = p /\ UNCHANGED <<semaphores, state, at>>
    BY <2>1, <2>2 DEF semaphores, IInv, RunnerIsOut, TypeOK, Count
  <2>3. CASE at[p] # NoSem /\ GoOn(p, at[p])
    <3> DEFINE s == at[p]
    <3>1. s \in Sems
      BY <2>3 DEF IInv, RunnerIsOut, TypeOK
    <3>2. CASE used[s] /\ value[s] > 0 /\ Taken(p, s)
      BY <2>1, <3>1, <3>2, TakenStep DEF Promise!Next
    <3>3. CASE used[s] /\ value[s] = 0 /\ Queued(p, s)
      BY <2>1, <3>1, <3>3, QueuedStep
    <3>4. CASE ~used[s] /\ Left(p)
      <4>1. IInv' /\ Count' = Count
        BY <2>1, <3>4 DEF Left, semaphores, IInv, RunnerIsOut, TypeOK, Count
      <4>2. Promise!Leave(p)
        BY <2>3, <3>1, <3>4, <4>1 DEF Promise!Leave, Count, Left
      <4>3. QED BY <4>1, <4>2 DEF Promise!Next
    <3>5. QED BY <2>3, <3>2, <3>3, <3>4 DEF GoOn
  <2>4. QED BY <1>3, <2>2, <2>3 DEF Dispatch
<1>4. ASSUME NEW p \in Procs, NEW v \in 0 .. ValueBound, Open(p, v)
      PROVE  IInv' /\ [Promise!Next]_<<Count, at>>
  <2>1. PICK s \in Sems : /\ ~used[s]
                          /\ used' = [used EXCEPT ![s] = TRUE]
                          /\ value' = [value EXCEPT ![s] = v]
    BY <1>4 DEF Open
  <2>2. IInv'
    BY <1>4, <2>1 DEF Open, IInv, RunnerIsOut, TypeOK
  <2>3. Count' = [Count EXCEPT ![s] = v] /\ Count[s] = Closed
    BY <2>1 DEF Count, IInv, RunnerIsOut, TypeOK
  <2>4. Promise!Open(s, v)
    BY <1>4, <2>3 DEF Open, Promise!Open
  <2>5. QED BY <2>2, <2>4 DEF Promise!Next
<1>5. ASSUME NEW p \in Procs, NEW s \in Sems, Wait(p, s)
      PROVE  IInv' /\ [Promise!Next]_<<Count, at>>
  <2>1. calm' \in BOOLEAN
    BY <1>5 DEF Wait, IInv, RunnerIsOut, TypeOK
  <2>2. at[p] = NoSem /\ used[s]
    BY <1>5 DEF Wait, IInv, RunnerIsOut
  <2>3. CASE value[s] > 0 /\ Taken(p, s)
    BY <2>1, <2>2, <2>3, TakenStep DEF Promise!Next
  <2>4. CASE value[s] = 0 /\ Queued(p, s)
    BY <2>1, <2>2, <2>4, QueuedStep
  <2>5. QED BY <1>5, <2>3, <2>4 DEF Wait
<1>6. ASSUME NEW p \in Procs, NEW s \in Sems, Post(p, s)
      PROVE  IInv' /\ [Promise!Next]_<<Count, at>>
  <2>1. /\ used[s] /\ value[s] < ValueBound /\ Posted(s, state)
        /\ UNCHANGED <<at, running>> /\ calm' \in BOOLEAN
        /\ state \in [Procs -> {"READY", "BLOCKED", "TERMINATED"}]
    BY <1>6 DEF Post, IInv, RunnerIsOut, TypeOK
  <2>2. QED BY <2>1, PostedStep DEF Promise!Next
<1>7. ASSUME NEW p \in Procs, NEW s \in Sems, Close(p, s)
      PROVE  IInv' /\ [Promise!Next]_<<Count, at>>
  <2>1. state' \in [Procs -> {"READY", "BLOCKED", "TERMINATED"}]
    BY <1>7, Tables DEF Close, IInv, RunnerIsOut, TypeOK
  <2>2. 0 \in Places
    BY Constants DEF Places
  <2>3. IInv'
    BY <1>7, <2>1, <2>2, Constants DEF Close, IInv, RunnerIsOut, TypeOK
  <2>4. Count' = [Count EXCEPT ![s] = Closed]
    BY <1>7 DEF Close, Count, IInv, RunnerIsOut, TypeOK
  <2>5. Promise!Close(s)
    BY <1>7, <2>4 DEF Close, Promise!Close
  <2>6. QED BY <2>3, <2>5 DEF Promise!Next
<1>8. ASSUME NEW p \in Procs, NEW q \in Procs, Block(p, q) \/ Unblock(p, q)
      PROVE  IInv' /\ [Promise!Next]_<<Count, at>>
  <2>1. state' \in [Procs -> {"READY", "BLOCKED", "TERMINATED"}]
    BY <1>8, Tables DEF Block, Unblock, Stopped, IInv, RunnerIsOut, TypeOK
  <2>2. QED BY <1>8, <2>1 DEF Block, Unblock, semaphores, IInv, RunnerIsOut, TypeOK, Count
<1>9. ASSUME NEW p \in Procs, NEW s \in Sems \cup {NoSem}, Kill(p, s)
      PROVE  IInv' /\ [Promise!Next]_<<Count, at>>
  <2>1. /\ Killed(p) \in [Procs -> {"READY", "BLOCKED", "TERMINATED"}]
        /\ UNCHANGED <<at, running>> /\ calm' \in BOOLEAN
    BY <1>9 DEF Kill, Killed, IInv, RunnerIsOut, TypeOK
  <2>2. CASE state' = Killed(p) /\ UNCHANGED semaphores
    BY <2>1, <2>2 DEF semaphores, IInv, RunnerIsOut, TypeOK, Count
  <2>3. CASE s \in Sems /\ used[s] /\ value[s] < ValueBound /\ Posted(s, Killed(p))
    BY <2>1, <2>3, PostedStep DEF Promise!Next
  <2>4. QED BY <1>9, <2>2, <2>3 DEF Kill
<1>10. QED
  BY <1>1, <1>2, <1>3, <1>4, <1>5, <1>6, <1>7, <1>8, <1>9 DEF Next

(* Every variable stays within its type: no index leaves its ring and no value
   falls below zero, whoever is killed or woken out of turn. *)
THEOREM TypesCorrect == Spec => []TypeOK
<1>1. IInv => TypeOK
  BY DEF IInv
<1>2. QED BY <1>1, Initially, StepKeeps, PTL DEF Spec

(* Nobody gets past sem_wait without a unit, or the semaphore closed. *)
THEOREM Counting == Spec => KeepsPromise
<1>1. QED BY Initially, StepKeeps, PTL DEF Spec, KeepsPromise, Promise!Spec

-----------------------------------------------------------------------------
(* As long as nothing but posts and closes has touched a waiter, the ring of
   each semaphore lists exactly those who wait in it, and nobody waits beside
   units that no one is on the way to take.

   A ring is seen from its first entry on: Entry(s, k) is k places after it.
   In that view sem_wait appends an entry, sem_post drops entry 0 and moves the
   others by one, and the wrapping of the indices is gone. *)
Entry(s, k) == waiting[s][Ahead(s, k)]

RingIs(s) ==
    /\ \A k \in 0 .. Between(s) - 1 : Entry(s, k) \in Waiters(s)
    /\ \A j, k \in 0 .. Between(s) - 1 : Entry(s, j) = Entry(s, k) => j = k
    /\ \A p \in Waiters(s) : \E k \in 0 .. Between(s) - 1 : Entry(s, k) = p
    /\ \A k \in Between(s) .. MaxProcesses - 1 : Entry(s, k) = NotAProcess

(* The indices without %. *)
LEMMA Turns ==
    ASSUME NEW f \in Places, NEW l \in Places
    PROVE  /\ \A k \in Places : (f + k) % MaxProcesses =
                    IF f + k < MaxProcesses THEN f + k ELSE f + k - MaxProcesses
           /\ (l - f + MaxProcesses) % MaxProcesses =
                    IF l >= f THEN l - f ELSE l - f + MaxProcesses
           /\ NextIndex(l) = IF l + 1 < MaxProcesses THEN l + 1 ELSE 0
<1>1. \A x \in 0 .. 2 * MaxProcesses - 1 :
          x % MaxProcesses = IF x < MaxProcesses THEN x ELSE x - MaxProcesses
  BY Constants
<1>2. ASSUME NEW k \in Places
      PROVE  (f + k) % MaxProcesses =
                 IF f + k < MaxProcesses THEN f + k ELSE f + k - MaxProcesses
  <2>1. f + k \in 0 .. 2 * MaxProcesses - 1
    BY Constants DEF Places
  <2>2. QED BY <1>1, <2>1, Constants DEF Places
<1>3. (l - f + MaxProcesses) % MaxProcesses =
          IF l >= f THEN l - f ELSE l - f + MaxProcesses
  <2>1. l - f + MaxProcesses \in 0 .. 2 * MaxProcesses - 1
    BY Constants DEF Places
  <2>2. QED BY <1>1, <2>1, Constants DEF Places
<1>4. NextIndex(l) = IF l + 1 < MaxProcesses THEN l + 1 ELSE 0
  <2>1. l + 1 \in 0 .. 2 * MaxProcesses - 1
    BY Constants DEF Places
  <2>2. QED BY <1>1, <2>1, Constants DEF Places, NextIndex
<1>5. QED BY <1>2, <1>3, <1>4

(* Going once around the ring from the first entry meets every place once, and
   the last index after all entries. *)
LEMMA OnceAround ==
    ASSUME TypeOK, NEW s \in Sems
    PROVE  /\ Between(s) \in Places
           /\ Ahead(s, Between(s)) = last[s]
           /\ \A k \in Places : Ahead(s, k) \in Places
           /\ \A j, k \in Places : Ahead(s, j) = Ahead(s, k) => j = k
           /\ Ahead(s, 0) = first[s]
<1>1. first[s] \in Places /\ last[s] \in Places
  BY DEF TypeOK
<1>2. /\ \A k \in Places : Ahead(s, k) = IF first[s] + k < MaxProcesses
                                         THEN first[s] + k ELSE first[s] + k - MaxProcesses
      /\ Between(s) = IF last[s] >= first[s] THEN last[s] - first[s]
                      ELSE last[s] - first[s] + MaxProcesses
  BY <1>1, Turns DEF Ahead, Between
<1>3. Between(s) \in Places
  BY <1>1, <1>2, Constants DEF Places
<1>4. QED BY <1>1, <1>2, <1>3, Constants DEF Places

(* As many wait as there are entries. *)
LEMMA AsManyWait ==
    ASSUME TypeOK, NEW s \in Sems, RingIs(s)
    PROVE  /\ IsFiniteSet(Waiters(s))
           /\ Cardinality(Waiters(s)) = Between(s)
<1> DEFINE n == Between(s)
           f == [k \in 0 .. n - 1 |-> Entry(s, k)]
<1>1. n \in Nat
  BY OnceAround, Constants DEF Places
<1>2. /\ f \in [0 .. n - 1 -> Waiters(s)]
      /\ \A a, b \in 0 .. n - 1 : f[a] = f[b] => a = b
      /\ \A t \in Waiters(s) : \E k \in 0 .. n - 1 : f[k] = t
  BY DEF RingIs
<1>3. ExistsBijection(0 .. n - 1, Waiters(s))
  BY <1>2, Fun_IsBij DEF ExistsBijection
<1>4. IsFiniteSet(0 .. n - 1) /\ Cardinality(0 .. n - 1) = n
  BY <1>1, FS_Interval
<1>5. QED BY <1>3, <1>4, FS_Bijection

(* A ring that no step touches, and whose waiters stay, stays as it is. *)
LEMMA RingStays ==
    ASSUME NEW s \in Sems, RingIs(s), waiting'[s] = waiting[s],
           first'[s] = first[s], last'[s] = last[s], Waiters(s)' = Waiters(s)
    PROVE  RingIs(s)'
<1>1. Between(s)' = Between(s) /\ \A k : Entry(s, k)' = Entry(s, k)
  BY DEF Between, Entry, Ahead
<1>2. QED BY <1>1 DEF RingIs

(* sem_wait: one entry more. *)
LEMMA RingGrows ==
    ASSUME TypeOK, NEW s \in Sems, NEW p \in Procs, RingIs(s),
           state[p] = "READY", at[p] \in {NoSem, s}, Queued(p, s)
    PROVE  RingIs(s)'
<1> DEFINE n == Between(s)
<1>1. /\ waiting' = [waiting EXCEPT ![s][last[s]] = p]
      /\ last' = [last EXCEPT ![s] = NextIndex(@)]
      /\ state' = [state EXCEPT ![p] = "BLOCKED"]
      /\ at' = [at EXCEPT ![p] = s]
      /\ first' = first
  BY DEF Queued, Stopped
<1>2. Waiters(s)' = Waiters(s) \cup {p} /\ p \notin Waiters(s)
  BY <1>1 DEF Waiters, TypeOK
<1>3. n + 1 \in Places
  <2>1. IsFiniteSet(Waiters(s)) /\ Cardinality(Waiters(s)) = n
    BY AsManyWait
  <2>2. Cardinality(Waiters(s) \cup {p}) = n + 1
    BY <1>2, <2>1, FS_AddElement
  <2>3. Waiters(s) \cup {p} \in SUBSET Procs
    BY DEF Waiters
  <2>4. IsFiniteSet(Procs) /\ Cardinality(Procs) < MaxProcesses
    BY SemaphoresOK DEF SemaphoresOK
  <2>5. Cardinality(Waiters(s) \cup {p}) <= Cardinality(Procs)
    BY <2>3, <2>4, FS_Subset
  <2>6. n \in Places /\ Cardinality(Procs) \in Nat
    BY <2>4, OnceAround, FS_CardinalityType
  <2>7. n + 1 <= Cardinality(Procs)
    BY <2>2, <2>5
  <2>8. QED BY <2>4, <2>6, <2>7, Constants DEF Places
<1>4. Between(s)' = n + 1
  <2>1. first[s] \in Places /\ last[s] \in Places /\ NextIndex(last[s]) \in Places
    BY Indices DEF TypeOK
  <2>2. last'[s] = NextIndex(last[s]) /\ first'[s] = first[s]
    BY <1>1 DEF TypeOK
  <2>3. NextIndex(last[s]) = IF last[s] + 1 < MaxProcesses THEN last[s] + 1 ELSE 0
    BY <2>1, Turns
  <2>4. n = IF last[s] >= first[s] THEN last[s] - first[s]
            ELSE last[s] - first[s] + MaxProcesses
    BY <2>1, Turns DEF Between
  <2>5. Between(s)' = IF last'[s] >= first[s] THEN last'[s] - first[s]
                      ELSE last'[s] - first[s] + MaxProcesses
    BY <2>1, <2>2, Turns DEF Between
  <2>6. QED BY <1>3, <2>1, <2>2, <2>3, <2>4, <2>5, Constants DEF Places
<1>5. \A k \in Places : Entry(s, k)' = IF k = n THEN p ELSE Entry(s, k)
  <2>1. \A k : Ahead(s, k)' = Ahead(s, k)
    BY <1>1 DEF Ahead
  <2>2. \A k \in Places : Ahead(s, k) \in Places /\ (Ahead(s, k) = last[s] <=> k = n)
    BY OnceAround
  <2>3. \A i \in Places : waiting'[s][i] = IF i = last[s] THEN p ELSE waiting[s][i]
    BY <1>1 DEF TypeOK
  <2>4. QED BY <2>1, <2>2, <2>3 DEF Entry
<1>6. n \in Nat /\ 0 .. n \subseteq Places
  BY <1>3, OnceAround, Constants DEF Places
<1>7. \A k \in 0 .. n : Entry(s, k)' \in Waiters(s)'
  BY <1>2, <1>5, <1>6 DEF RingIs
<1>8. \A j, k \in 0 .. n : Entry(s, j)' = Entry(s, k)' => j = k
  BY <1>2, <1>5, <1>6 DEF RingIs
<1>9. \A q \in Waiters(s)' : \E k \in 0 .. n : Entry(s, k)' = q
  BY <1>2, <1>5, <1>6 DEF RingIs
<1>10. \A k \in n + 1 .. MaxProcesses - 1 : Entry(s, k)' = NotAProcess
  BY <1>5, <1>6, Constants DEF RingIs, Places
<1>11. QED BY <1>4, <1>6, <1>7, <1>8, <1>9, <1>10 DEF RingIs

(* sem_post: entry 0 is dropped and woken, the others move by one. *)
LEMMA RingDrops ==
    ASSUME TypeOK, NEW s \in Sems, RingIs(s),
           NEW st \in [Procs -> {"READY", "BLOCKED", "TERMINATED"}],
           \A p \in Waiters(s) : st[p] = "BLOCKED",
           \A p \in Procs : at[p] = s /\ st[p] = "BLOCKED" => p \in Waiters(s),
           Posted(s, st), at' = at
    PROVE  RingIs(s)'
<1> DEFINE n == Between(s)
           hand == waiting[s][first[s]]
<1>1. /\ waiting' = [waiting EXCEPT ![s][first[s]] = NotAProcess]
      /\ first' = [first EXCEPT ![s] = IF hand = NotAProcess THEN @ ELSE NextIndex(@)]
      /\ last' = last
      /\ state' = Awake(st, {hand})
  BY DEF Posted
<1>2. n \in Places /\ hand = Entry(s, 0)
  BY OnceAround DEF Entry
<1>3. NotAProcess \notin Waiters(s)
  BY SemaphoresOK DEF Waiters, SemaphoresOK
<1>4. CASE n = 0
  <2>1. hand = NotAProcess /\ Waiters(s) = {}
    BY <1>2, <1>4, Constants DEF RingIs, Places
  <2>2. waiting'[s] = waiting[s] /\ first'[s] = first[s] /\ last'[s] = last[s]
    BY <1>1, <2>1 DEF TypeOK
  <2>3. Waiters(s)' = {}
    BY <1>1, <2>1 DEF Waiters, Awake
  <2>4. QED BY <2>1, <2>2, <2>3, RingStays
<1>5. CASE n # 0
  <2>1. hand \in Waiters(s) /\ hand # NotAProcess /\ n \in Nat /\ n > 0
    BY <1>2, <1>3, <1>5, Constants DEF RingIs, Places
  <2>2. Waiters(s)' = Waiters(s) \ {hand}
    BY <1>1, <2>1 DEF Waiters, Awake
  <2>3. first'[s] = NextIndex(first[s]) /\ last'[s] = last[s] /\ first[s] \in Places /\ last[s] \in Places
    BY <1>1, <2>1 DEF TypeOK
  <2>4. first'[s] \in Places /\ first'[s] = IF first[s] + 1 < MaxProcesses THEN first[s] + 1 ELSE 0
    BY <2>3, Turns, Indices
  <2>5. Between(s)' = n - 1
    <3>1. n = IF last[s] >= first[s] THEN last[s] - first[s] ELSE last[s] - first[s] + MaxProcesses
      BY <2>3, Turns DEF Between
    <3>2. Between(s)' = IF last[s] >= first'[s] THEN last[s] - first'[s]
                        ELSE last[s] - first'[s] + MaxProcesses
      BY <2>3, <2>4, Turns DEF Between
    <3>3. QED BY <2>1, <2>3, <2>4, <3>1, <3>2, Constants DEF Places
  <2>6. \A k \in Places : Entry(s, k)' = IF k = MaxProcesses - 1 THEN NotAProcess ELSE Entry(s, k + 1)
    <3>1. ASSUME NEW k \in Places
          PROVE  Ahead(s, k)' = IF k = MaxProcesses - 1 THEN first[s] ELSE Ahead(s, k + 1)
      <4>1. Ahead(s, k)' = IF first'[s] + k < MaxProcesses THEN first'[s] + k ELSE first'[s] + k - MaxProcesses
        BY <2>4, Turns DEF Ahead
      <4>2. CASE k = MaxProcesses - 1
        BY <2>3, <2>4, <4>1, <4>2, Constants DEF Places
      <4>3. CASE k # MaxProcesses - 1
        <5>1. k + 1 \in Places
          BY <4>3, Constants DEF Places
        <5>2. Ahead(s, k + 1) = IF first[s] + (k + 1) < MaxProcesses THEN first[s] + (k + 1)
                                ELSE first[s] + (k + 1) - MaxProcesses
          BY <2>3, <5>1, Turns DEF Ahead
        <5>3. QED BY <2>3, <2>4, <4>1, <4>3, <5>2, Constants DEF Places
      <4>4. QED BY <4>2, <4>3
    <3>2. \A i \in Places : waiting'[s][i] = IF i = first[s] THEN NotAProcess ELSE waiting[s][i]
      BY <1>1 DEF TypeOK
    <3>3. ASSUME NEW k \in Places, k # MaxProcesses - 1
          PROVE  Ahead(s, k + 1) \in Places /\ Ahead(s, k + 1) # first[s]
      <4>1. k + 1 \in Places /\ 0 \in Places /\ k + 1 # 0
        BY <3>3, Constants DEF Places
      <4>2. QED BY <4>1, OnceAround
    <3>4. QED BY <2>3, <3>1, <3>2, <3>3 DEF Entry
  <2>7. \A k \in 0 .. n - 2 : k \in Places /\ k # MaxProcesses - 1 /\ k + 1 \in 0 .. n - 1
    BY <1>2, <2>1, Constants DEF Places
  <2>8. \A k \in 0 .. n - 2 : Entry(s, k)' = Entry(s, k + 1)
    BY <2>6, <2>7
  <2>9. 0 \in 0 .. n - 1
    BY <2>1
  <2>10. \A k \in 0 .. n - 2 : Entry(s, k)' \in Waiters(s)'
    <3>1. ASSUME NEW k \in 0 .. n - 2
          PROVE  Entry(s, k + 1) \in Waiters(s) /\ Entry(s, k + 1) # hand
      <4>1. k + 1 \in 0 .. n - 1 /\ k + 1 # 0
        BY <2>7
      <4>2. QED BY <1>2, <2>9, <4>1 DEF RingIs
    <3>2. QED BY <2>2, <2>8, <3>1
  <2>11. \A j, k \in 0 .. n - 2 : Entry(s, j)' = Entry(s, k)' => j = k
    <3>1. ASSUME NEW j \in 0 .. n - 2, NEW k \in 0 .. n - 2, Entry(s, j + 1) = Entry(s, k + 1)
          PROVE  j = k
      <4>1. j + 1 = k + 1
        BY <2>7, <3>1 DEF RingIs
      <4>2. QED BY <4>1
    <3>2. QED BY <2>8, <3>1
  <2>12. \A q \in Waiters(s)' : \E k \in 0 .. n - 2 : Entry(s, k)' = q
    <3>1. SUFFICES ASSUME NEW q \in Waiters(s), q # hand
                   PROVE  \E k \in 0 .. n - 2 : Entry(s, k)' = q
      BY <2>2
    <3>2. PICK m \in 0 .. n - 1 : Entry(s, m) = q
      BY DEF RingIs
    <3>3. m # 0
      BY <1>2, <3>1, <3>2
    <3>4. m - 1 \in 0 .. n - 2 /\ (m - 1) + 1 = m
      BY <2>1, <3>3
    <3>5. Entry(s, m - 1)' = q
      BY <2>8, <3>2, <3>4
    <3>6. QED BY <3>4, <3>5
  <2>13. \A k \in n - 1 .. MaxProcesses - 1 : Entry(s, k)' = NotAProcess
    <3>1. ASSUME NEW k \in n - 1 .. MaxProcesses - 1
          PROVE  Entry(s, k)' = NotAProcess
      <4>1. k \in Places
        BY <2>1, Constants DEF Places
      <4>2. k = MaxProcesses - 1 \/ k + 1 \in n .. MaxProcesses - 1
        BY <2>1, Constants
      <4>3. QED BY <2>6, <4>1, <4>2 DEF RingIs
    <3>2. QED BY <3>1
  <2>14. Between(s)' = n - 1 /\ (n - 1) - 1 = n - 2
    BY <2>1, <2>5
  <2>15. QED BY <2>10, <2>11, <2>12, <2>13, <2>14 DEF RingIs
<1>6. QED BY <1>4, <1>5

(* destroy_sem, and a ring that was never used: no entries. *)
LEMMA RingEmpty ==
    ASSUME NEW s \in Sems, waiting'[s] = [i \in Places |-> NotAProcess],
           first'[s] = 0, last'[s] = 0, Waiters(s)' = {}
    PROVE  RingIs(s)'
<1>1. 0 \in Places
  BY Constants DEF Places
<1>2. Between(s)' = 0
  BY <1>1, Turns, Constants DEF Between
<1>3. \A k \in Places : Ahead(s, k)' \in Places
  BY <1>1, Turns, Constants DEF Ahead, Places
<1>4. \A k \in Places : Entry(s, k)' = NotAProcess
  BY <1>3 DEF Entry
<1>5. QED BY <1>2, <1>4, Constants DEF RingIs, Places

-----------------------------------------------------------------------------
(* Units are there only for those who were woken for them. *)
Served(s) == Waiters(s) = {} \/ (used[s] /\ value[s] <= Cardinality(Woken(s)))

Good(s) == RingIs(s) /\ Served(s)
RInv == IInv /\ (calm => \A s \in Sems : Good(s))

LEMMA Finite ==
    ASSUME NEW s \in Sems
    PROVE  IsFiniteSet(Woken(s)) /\ Cardinality(Woken(s)) \in Nat
<1>1. Woken(s) \in SUBSET Procs /\ IsFiniteSet(Procs)
  BY SemaphoresOK DEF Woken, SemaphoresOK
<1>2. QED BY <1>1, FS_Subset, FS_CardinalityType

LEMMA ListedAre ==
    ASSUME TypeOK, NEW s \in Sems, RingIs(s)
    PROVE  /\ Listed(s) = Waiters(s)
           /\ waiting[s][first[s]] \in Waiters(s) \cup {NotAProcess}
           /\ waiting[s][first[s]] = NotAProcess => Waiters(s) = {}
<1>1. Between(s) \in Places /\ waiting[s][first[s]] = Entry(s, 0)
  BY OnceAround DEF Entry
<1>2. Listed(s) = Waiters(s)
  BY DEF Listed, RingIs, Entry
<1>3. NotAProcess \notin Waiters(s)
  BY SemaphoresOK DEF Waiters, SemaphoresOK
<1>4. CASE Between(s) = 0
  BY <1>1, <1>2, <1>4, Constants DEF RingIs, Places
<1>5. CASE Between(s) # 0
  <2>1. 0 \in 0 .. Between(s) - 1
    BY <1>1, <1>5, Constants DEF Places
  <2>2. QED BY <1>1, <1>2, <1>3, <2>1 DEF RingIs
<1>6. QED BY <1>4, <1>5

(* What a step does not touch stays good. *)
LEMMA Untouched ==
    ASSUME NEW s \in Sems, Good(s), waiting'[s] = waiting[s], first'[s] = first[s],
           last'[s] = last[s], used'[s] = used[s], value'[s] = value[s],
           Waiters(s)' = Waiters(s), Woken(s)' = Woken(s)
    PROVE  Good(s)'
<1>1. RingIs(s)'
  BY RingStays DEF Good
<1>2. QED BY <1>1 DEF Good, Served

LEMMA QueuedGood ==
    ASSUME TypeOK, TypeOK', NEW s \in Sems, NEW p \in Procs, NEW t \in Sems, Good(t),
           state[p] = "READY", at[p] \in {NoSem, s}, used[s], value[s] = 0, Queued(p, s)
    PROVE  Good(t)'
<1>1. /\ waiting' = [waiting EXCEPT ![s][last[s]] = p]
      /\ last' = [last EXCEPT ![s] = NextIndex(@)]
      /\ state' = [state EXCEPT ![p] = "BLOCKED"]
      /\ at' = [at EXCEPT ![p] = s]
      /\ UNCHANGED <<used, value, first>>
  BY DEF Queued, Stopped
<1>2. CASE t = s
  <2>1. RingIs(s)'
    BY <1>2, RingGrows DEF Good
  <2>2. IsFiniteSet(Woken(s)') /\ Cardinality(Woken(s)') \in Nat
    <3>1. Woken(s)' \in SUBSET Procs /\ IsFiniteSet(Procs)
      BY SemaphoresOK DEF Woken, SemaphoresOK
    <3>2. QED BY <3>1, FS_Subset, FS_CardinalityType
  <2>3. used'[s] /\ value'[s] = 0
    BY <1>1
  <2>4. QED BY <1>2, <2>1, <2>2, <2>3 DEF Good, Served
<1>3. CASE t # s
  <2>1. /\ waiting'[t] = waiting[t] /\ last'[t] = last[t]
        /\ Waiters(t)' = Waiters(t) /\ Woken(t)' = Woken(t)
    BY <1>1, <1>3 DEF Waiters, Woken, TypeOK, Sems, NoSem
  <2>2. QED BY <1>1, <2>1, Untouched
<1>4. QED BY <1>2, <1>3

LEMMA TakenGood ==
    ASSUME TypeOK, NEW s \in Sems, NEW p \in Procs, NEW t \in Sems, Good(t),
           at[p] = NoSem \/ (at[p] = s /\ state[p] = "READY"), used[s], value[s] > 0, Taken(p, s)
    PROVE  Good(t)'
<1>1. /\ value' = [value EXCEPT ![s] = @ - 1]
      /\ at' = [at EXCEPT ![p] = NoSem]
      /\ UNCHANGED <<used, waiting, first, last, state>>
  BY DEF Taken
<1>2. Waiters(t)' = Waiters(t)
  BY <1>1 DEF Waiters, TypeOK, Sems, NoSem
<1>3. CASE t = s
  <2>1. RingIs(s)'
    BY <1>1, <1>2, <1>3, RingStays DEF Good
  <2>2. value'[s] = value[s] - 1 /\ value[s] \in Nat
    BY <1>1, Constants DEF TypeOK
  <2>3. Cardinality(Woken(s)') >= Cardinality(Woken(s)) - 1 /\ Cardinality(Woken(s)') \in Nat
    <3>1. IsFiniteSet(Woken(s)) /\ Cardinality(Woken(s)) \in Nat
      BY Finite
    <3>2. Woken(s)' = Woken(s) \ {p}
      BY <1>1 DEF Woken, TypeOK, Sems, NoSem
    <3>3. /\ IsFiniteSet(Woken(s) \ {p})
          /\ Cardinality(Woken(s) \ {p}) = IF p \in Woken(s) THEN Cardinality(Woken(s)) - 1
                                                               ELSE Cardinality(Woken(s))
      BY <3>1, FS_RemoveElement
    <3>4. Cardinality(Woken(s) \ {p}) \in Nat
      BY <3>3, FS_CardinalityType
    <3>5. QED BY <3>1, <3>2, <3>3, <3>4
  <2>4. Cardinality(Woken(s)) \in Nat
    BY Finite
  <2>5. CASE Waiters(s) = {}
    BY <1>2, <1>3, <2>1, <2>5 DEF Good, Served
  <2>6. CASE value[s] <= Cardinality(Woken(s))
    <3>1. value'[s] <= Cardinality(Woken(s)')
      BY <2>2, <2>3, <2>4, <2>6
    <3>2. QED BY <1>1, <1>3, <2>1, <3>1 DEF Good, Served
  <2>7. QED BY <1>3, <2>5, <2>6 DEF Good, Served
<1>4. CASE t # s
  <2>1. Woken(t)' = Woken(t) /\ value'[t] = value[t]
    BY <1>1, <1>4 DEF Woken, TypeOK, Sems, NoSem
  <2>2. QED BY <1>1, <1>2, <2>1, Untouched
<1>5. QED BY <1>3, <1>4

LEMMA PostedGood ==
    ASSUME TypeOK, TypeOK', NEW s \in Sems, NEW t \in Sems, Good(s), Good(t), used[s],
           NEW st \in [Procs -> {"READY", "BLOCKED", "TERMINATED"}],
           \A p \in Procs : at[p] # NoSem => st[p] = state[p],
           Posted(s, st), at' = at
    PROVE  Good(t)'
<1> DEFINE hand == waiting[s][first[s]]
<1>1. /\ value' = [value EXCEPT ![s] = @ + 1]
      /\ waiting' = [waiting EXCEPT ![s][first[s]] = NotAProcess]
      /\ first' = [first EXCEPT ![s] = IF hand = NotAProcess THEN @ ELSE NextIndex(@)]
      /\ UNCHANGED <<used, last>>
      /\ state' = Awake(st, {hand})
  BY DEF Posted
<1>2. /\ hand \in Waiters(s) \cup {NotAProcess}
      /\ hand = NotAProcess => Waiters(s) = {}
  BY ListedAre DEF Good
<1>3. \A p \in Procs, r \in Sems : at[p] = r => st[p] = state[p] /\ at[p] # NoSem
  BY DEF Sems, NoSem
<1>4. \A p \in Procs : state'[p] = IF p = hand /\ st[p] = "BLOCKED" THEN "READY" ELSE st[p]
  BY <1>1 DEF Awake
<1>5. CASE t = s
  <2>1. RingIs(s)'
    <3>1. /\ \A p \in Waiters(s) : st[p] = "BLOCKED"
          /\ \A p \in Procs : at[p] = s /\ st[p] = "BLOCKED" => p \in Waiters(s)
      BY <1>3 DEF Waiters
    <3>2. QED BY <3>1, RingDrops DEF Good
  <2>2. CASE hand = NotAProcess
    <3>1. Waiters(s)' = {}
      BY <1>2, <1>3, <1>4, <2>2, SemaphoresOK DEF Waiters, SemaphoresOK
    <3>2. QED BY <1>5, <2>1, <3>1 DEF Good, Served
  <2>3. CASE hand # NotAProcess
    <3>1. hand \in Procs /\ at[hand] = s /\ state[hand] = "BLOCKED" /\ st[hand] = "BLOCKED"
      BY <1>2, <1>3, <2>3 DEF Waiters
    <3>2. Woken(s)' = Woken(s) \cup {hand} /\ hand \notin Woken(s)
      BY <1>3, <1>4, <3>1 DEF Woken
    <3>3. IsFiniteSet(Woken(s)) /\ Cardinality(Woken(s)) \in Nat
      BY Finite
    <3>4. Cardinality(Woken(s) \cup {hand}) = Cardinality(Woken(s)) + 1
      BY <3>2, <3>3, FS_AddElement
    <3>5. hand \in Waiters(s)
      BY <3>1 DEF Waiters
    <3>6. value[s] <= Cardinality(Woken(s)) /\ value[s] \in Nat
      BY <1>5, <3>5, Constants DEF Good, Served, TypeOK
    <3>7. value'[s] = value[s] + 1 /\ used'[s]
      BY <1>1 DEF TypeOK
    <3>8. value'[s] <= Cardinality(Woken(s)')
      BY <3>2, <3>3, <3>4, <3>6, <3>7
    <3>9. QED BY <1>5, <2>1, <3>7, <3>8 DEF Good, Served
  <2>4. QED BY <2>2, <2>3
<1>6. CASE t # s
  <2>1. /\ waiting'[t] = waiting[t] /\ first'[t] = first[t] /\ last'[t] = last[t]
        /\ used'[t] = used[t] /\ value'[t] = value[t]
    BY <1>1, <1>6 DEF TypeOK
  <2>2. \A p \in Procs : at[p] = t => state'[p] = state[p]
    BY <1>2, <1>3, <1>4, <1>6, SemaphoresOK DEF Waiters, SemaphoresOK
  <2>3. Waiters(t)' = Waiters(t) /\ Woken(t)' = Woken(t)
    BY <2>2 DEF Waiters, Woken
  <2>4. QED BY <2>1, <2>3, Untouched
<1>7. QED BY <1>5, <1>6

LEMMA ClosedGood ==
    ASSUME TypeOK, NEW p \in Procs, NEW s \in Sems, NEW t \in Sems, Good(s), Good(t), Close(p, s)
    PROVE  Good(t)'
<1>1. Listed(s) = Waiters(s)
  BY ListedAre DEF Good
<1>2. /\ state' = Awake(state, Waiters(s))
      /\ used' = [used EXCEPT ![s] = FALSE]
      /\ value' = [value EXCEPT ![s] = 0]
      /\ waiting' = [waiting EXCEPT ![s] = [i \in Places |-> NotAProcess]]
      /\ first' = [first EXCEPT ![s] = 0]
      /\ last' = [last EXCEPT ![s] = 0]
      /\ at' = at
  BY <1>1 DEF Close
<1>3. CASE t = s
  <2>1. Waiters(s)' = {}
    BY <1>2 DEF Waiters, Awake
  <2>2. waiting'[s] = [i \in Places |-> NotAProcess] /\ first'[s] = 0 /\ last'[s] = 0
    BY <1>2 DEF TypeOK
  <2>3. QED BY <1>3, <2>1, <2>2, RingEmpty DEF Good, Served
<1>4. CASE t # s
  <2>1. /\ waiting'[t] = waiting[t] /\ first'[t] = first[t] /\ last'[t] = last[t]
        /\ used'[t] = used[t] /\ value'[t] = value[t]
    BY <1>2, <1>4 DEF TypeOK
  <2>2. Waiters(t)' = Waiters(t) /\ Woken(t)' = Woken(t)
    BY <1>2, <1>4 DEF Waiters, Woken, Awake, TypeOK
  <2>3. QED BY <2>1, <2>2, Untouched
<1>5. QED BY <1>3, <1>4

-----------------------------------------------------------------------------
LEMMA RInitially == Init => RInv
<1> SUFFICES ASSUME Init, NEW s \in Sems
             PROVE  Good(s)
  BY Initially DEF RInv
<1>1. TypeOK /\ first[s] = 0 /\ last[s] = 0 /\ waiting[s] = [i \in Places |-> NotAProcess]
  BY Initially DEF Init, IInv
<1>2. Waiters(s) = {}
  BY DEF Init, Waiters, Sems, NoSem
<1>3. 0 \in Places
  BY Constants DEF Places
<1>4. Between(s) = 0
  BY <1>1, <1>3, Turns, Constants DEF Between
<1>5. \A k \in Places : Entry(s, k) = NotAProcess
  BY <1>1, OnceAround DEF Entry
<1>6. QED BY <1>2, <1>4, <1>5, Constants DEF Good, RingIs, Served, Places

LEMMA RStepKeeps == RInv /\ [Next]_vars => RInv'
<1> SUFFICES ASSUME RInv, [Next]_vars PROVE RInv'
  OBVIOUS
<1>1. IInv' /\ TypeOK /\ TypeOK' /\ RunnerIsOut
  BY StepKeeps DEF RInv, IInv
<1> SUFFICES ASSUME calm', NEW t \in Sems
             PROVE  Good(t)'
  BY <1>1 DEF RInv
<1> USE <1>1
(* What a step that leaves every semaphore and its waiters alone does. *)
<1>2. ASSUME calm, UNCHANGED semaphores, Waiters(t)' = Waiters(t), Woken(t)' = Woken(t)
      PROVE  Good(t)'
  BY <1>2, Untouched DEF RInv, semaphores
<1>3. CASE UNCHANGED vars
  <2>1. calm /\ UNCHANGED <<semaphores, at, state>>
    BY <1>3 DEF vars, semaphores
  <2>2. QED BY <1>2, <2>1 DEF Waiters, Woken
<1>4. CASE DispatchIdle
  <2>1. calm /\ UNCHANGED <<semaphores, at, state>>
    BY <1>4 DEF DispatchIdle
  <2>2. QED BY <1>2, <2>1 DEF Waiters, Woken
<1>5. ASSUME NEW p \in Procs, Dispatch(p)
      PROVE  Good(t)'
  <2>1. calm /\ state[p] = "READY"
    BY <1>5 DEF Dispatch
  <2>2. CASE at[p] = NoSem /\ running' = p /\ UNCHANGED <<semaphores, state, at>>
    BY <1>2, <2>1, <2>2 DEF Waiters, Woken
  <2>3. CASE at[p] # NoSem /\ GoOn(p, at[p])
    <3> DEFINE s == at[p]
    <3>1. s \in Sems /\ Good(t) /\ Good(s)
      BY <2>1, <2>3 DEF RInv, TypeOK
    <3>2. CASE used[s] /\ value[s] > 0 /\ Taken(p, s)
      BY <2>1, <3>1, <3>2, TakenGood
    <3>3. CASE used[s] /\ value[s] = 0 /\ Queued(p, s)
      BY <2>1, <3>1, <3>3, QueuedGood
    <3>4. CASE ~used[s] /\ Left(p)
      <4>1. at' = [at EXCEPT ![p] = NoSem] /\ UNCHANGED <<semaphores, state>>
        BY <3>4 DEF Left
      <4>2. Waiters(t)' = Waiters(t)
        BY <2>1, <4>1 DEF Waiters, TypeOK, Sems, NoSem
      <4>3. CASE t = s
        <5>1. Waiters(t) = {}
          BY <3>1, <3>4, <4>3 DEF Good, Served
        <5>2. RingIs(t)'
          BY <3>1, <4>1, <4>2, RingStays DEF Good, semaphores
        <5>3. QED BY <4>2, <5>1, <5>2 DEF Good, Served
      <4>4. CASE t # s
        <5>1. Woken(t)' = Woken(t)
          BY <4>1, <4>4 DEF Woken, TypeOK, Sems, NoSem
        <5>2. QED BY <1>2, <2>1, <4>1, <4>2, <5>1
      <4>5. QED BY <4>3, <4>4
    <3>5. QED BY <2>3, <3>2, <3>3, <3>4 DEF GoOn
  <2>4. QED BY <1>5, <2>2, <2>3 DEF Dispatch
<1>6. ASSUME NEW p \in Procs, NEW v \in 0 .. ValueBound, Open(p, v)
      PROVE  Good(t)'
  <2>1. PICK s \in Sems : /\ ~used[s]
                          /\ used' = [used EXCEPT ![s] = TRUE]
                          /\ value' = [value EXCEPT ![s] = v]
    BY <1>6 DEF Open
  <2>2. calm /\ UNCHANGED <<waiting, first, last, state, at>>
    BY <1>6 DEF Open
  <2>3. Good(t) /\ Waiters(t)' = Waiters(t) /\ Woken(t)' = Woken(t)
    BY <2>2 DEF RInv, Waiters, Woken
  <2>4. RingIs(t)'
    BY <2>2, <2>3, RingStays DEF Good
  <2>5. Served(t)'
    BY <2>1, <2>3 DEF Good, Served, TypeOK
  <2>6. QED BY <2>4, <2>5 DEF Good
<1>7. ASSUME NEW p \in Procs, NEW s \in Sems, Wait(p, s)
      PROVE  Good(t)'
  <2>1. calm /\ at[p] = NoSem /\ used[s]
    BY <1>7 DEF Wait, RunnerIsOut
  <2>2. CASE value[s] > 0 /\ Taken(p, s)
    BY <2>1, <2>2, TakenGood DEF RInv
  <2>3. CASE value[s] = 0 /\ Queued(p, s) /\ state[p] = "READY"
    BY <2>1, <2>3, QueuedGood DEF RInv
  <2>4. QED BY <1>7, <2>2, <2>3 DEF Wait
<1>8. ASSUME NEW p \in Procs, NEW s \in Sems, Post(p, s)
      PROVE  Good(t)'
  <2>1. /\ calm /\ used[s] /\ Posted(s, state) /\ at' = at
        /\ state \in [Procs -> {"READY", "BLOCKED", "TERMINATED"}]
    BY <1>8 DEF Post, TypeOK
  <2>2. Good(s) /\ Good(t)
    BY <2>1 DEF RInv
  <2>3. QED BY <2>1, <2>2, PostedGood
<1>9. ASSUME NEW p \in Procs, NEW s \in Sems, Close(p, s)
      PROVE  Good(t)'
  <2>1. calm
    BY <1>9 DEF Close
  <2>2. QED BY <1>9, <2>1, ClosedGood DEF RInv
<1>10. ASSUME NEW p \in Procs, NEW q \in Procs, Block(p, q) \/ Unblock(p, q)
       PROVE  Good(t)'
  <2>1. /\ calm /\ at[q] = NoSem /\ UNCHANGED <<semaphores, at>>
        /\ \A r \in Procs \ {q} : state'[r] = state[r]
    BY <1>10 DEF Block, Unblock, Stopped, Awake, TypeOK
  <2>2. Waiters(t)' = Waiters(t) /\ Woken(t)' = Woken(t)
    BY <2>1 DEF Waiters, Woken, Sems, NoSem
  <2>3. QED BY <1>2, <2>1, <2>2
<1>11. ASSUME NEW q \in Procs, NEW s \in Sems \cup {NoSem}, Kill(q, s)
       PROVE  Good(t)'
  <2>1. /\ calm /\ at' = at
        /\ at[q] = NoSem \/ state[q] = "TERMINATED"
        /\ Killed(q) \in [Procs -> {"READY", "BLOCKED", "TERMINATED"}]
    BY <1>11 DEF Kill, Killed, TypeOK
  <2>2. \A r \in Procs : at[r] # NoSem => Killed(q)[r] = state[r]
    BY <2>1 DEF Killed, TypeOK
  <2>3. CASE state' = Killed(q) /\ UNCHANGED semaphores
    <3>1. Waiters(t)' = Waiters(t) /\ Woken(t)' = Woken(t)
      BY <2>1, <2>2, <2>3 DEF Waiters, Woken, Sems, NoSem
    <3>2. QED BY <1>2, <2>1, <2>3, <3>1
  <2>4. CASE s \in Sems /\ used[s] /\ Posted(s, Killed(q))
    <3>1. Good(s) /\ Good(t)
      BY <2>1, <2>4 DEF RInv
    <3>2. QED BY <2>1, <2>2, <2>4, <3>1, PostedGood
  <2>5. QED BY <1>11, <2>3, <2>4 DEF Kill
<1>12. QED
  BY <1>3, <1>4, <1>5, <1>6, <1>7, <1>8, <1>9, <1>10, <1>11 DEF Next

(* The ring of a semaphore lists each of its waiters once and nobody else,
   however its indices have wrapped and whoever was inside when it was closed,
   as long as nobody inside is blocked, unblocked or killed by others. *)
THEOREM RingsListWaiters == Spec => []RingListsWaiters
<1>1. RInv => RingListsWaiters
  <2>1. SUFFICES ASSUME RInv, calm, NEW s \in Sems
                 PROVE  /\ Listed(s) = Waiters(s)
                        /\ Cardinality(Waiters(s)) = Between(s)
                        /\ \A k \in Between(s) .. MaxProcesses - 1 :
                              waiting[s][Ahead(s, k)] = NotAProcess
    BY DEF RingListsWaiters
  <2>2. TypeOK /\ RingIs(s)
    BY <2>1 DEF RInv, IInv, Good
  <2>3. QED BY <2>2, ListedAre, AsManyWait DEF RingIs, Entry
<1>2. QED BY <1>1, RInitially, RStepKeeps, PTL DEF Spec

(* Nobody sleeps in sem_wait beside a unit that nobody was woken for. *)
THEOREM NoneLeftAsleep == Spec => []NoLostWakeup
<1>1. RInv => NoLostWakeup
  BY DEF RInv, Good, Served, NoLostWakeup
<1>2. QED BY <1>1, RInitially, RStepKeeps, PTL DEF Spec
=============================================================================
