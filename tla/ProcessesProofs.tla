--------------------------- MODULE ProcessesProofs ---------------------------
(***************************************************************************)
(* Theorems about Processes, for every number of slots and levels.  Its    *)
(* types, that at most one process runs, and that no READY process is lost *)
(* by the queues are proved together: IInv is inductive, each of its parts *)
(* alone is not (NoLostReady needs to know that a process that is current  *)
(* and not RUNNING is about to be reaped, and both need the types).  What  *)
(* concerns sleepers, the idle process and frames follows, with SleepInv.  *)
(***************************************************************************)
EXTENDS Processes, FiniteSetTheorems, TLAPS

IInv == TypeOK /\ SingleRunner /\ NoLostReady

(* What the handlers hand to scheduler() satisfies: what IInv says of the
   table, but for the process that is current. *)
Handed(st, rq, tq) ==
    /\ st \in [Slots -> States]
    /\ rq \in [Priorities -> Seq(Slots)]
    /\ tq \in Seq(Slots)
    /\ \A s \in Slots : st[s] = "RUNNING" => s = current
    /\ current # Idle /\ st[current] = "READY" => current \in Entries(tq)
    /\ \A s \in Slots \ {Idle} :
          st[s] = "READY" /\ stack[s] = "frame" => s \in Entries(rq[priority[s]])

-----------------------------------------------------------------------------
(* What the assumption on the constants gives. *)
LEMMA Constants ==
    /\ Idle \in Slots /\ Shell \in Slots
    /\ 0 \in Priorities
    /\ MaxProcesses \in Nat /\ CountMod \in Nat /\ CountMod > MaxProcesses /\ MaxProcesses > 1
    /\ Naps \subseteq Nat
<1>1. MaxProcesses \in Nat /\ CountMod \in Nat /\ CountMod > MaxProcesses /\ MaxProcesses > 1
  BY ConstantsOK DEF ConstantsOK
<1>2. Idle \in Slots /\ Shell \in Slots
  BY <1>1 DEF Slots, Idle, Shell
<1>3. PriorityLevels \in Nat /\ PriorityLevels > 0
  BY ConstantsOK DEF ConstantsOK
<1>4. 0 \in Priorities
  BY <1>3 DEF Priorities
<1>5. Naps \subseteq Nat
  BY ConstantsOK DEF ConstantsOK
<1>6. QED BY <1>1, <1>2, <1>4, <1>5

-----------------------------------------------------------------------------
(* Sequences: what the queues keep. *)

LEMMA EntriesAppend ==
    ASSUME NEW q \in Seq(Slots), NEW s \in Slots
    PROVE  /\ Append(q, s) \in Seq(Slots)
           /\ Entries(Append(q, s)) = Entries(q) \cup {s}
  BY DEF Entries

LEMMA EntriesConcat ==
    ASSUME NEW q \in Seq(Slots), NEW r \in Seq(Slots)
    PROVE  /\ q \o r \in Seq(Slots)
           /\ Entries(q) \subseteq Entries(q \o r)
           /\ Entries(r) \subseteq Entries(q \o r)
<1>1. q \o r \in Seq(Slots)
  OBVIOUS
<1>2. Entries(q) \subseteq Entries(q \o r)
  BY DEF Entries
<1>3. ASSUME NEW i \in 1 .. Len(r)
      PROVE  r[i] \in Entries(q \o r)
  <2>1. Len(q) + i \in 1 .. Len(q \o r) /\ (q \o r)[Len(q) + i] = r[i]
    OBVIOUS
  <2>2. QED BY <2>1 DEF Entries
<1>4. QED BY <1>1, <1>2, <1>3 DEF Entries

LEMMA EntriesTail ==
    ASSUME NEW q \in Seq(Slots), NEW i \in 1 .. Len(q)
    PROVE  /\ SubSeq(q, i + 1, Len(q)) \in Seq(Slots)
           /\ \A j \in 1 .. Len(q) : j > i => q[j] \in Entries(SubSeq(q, i + 1, Len(q)))
<1>1. SubSeq(q, i + 1, Len(q)) \in Seq(Slots)
  OBVIOUS
<1>2. ASSUME NEW j \in 1 .. Len(q), j > i
      PROVE  q[j] \in Entries(SubSeq(q, i + 1, Len(q)))
  <2>1. Len(SubSeq(q, i + 1, Len(q))) = Len(q) - i
    OBVIOUS
  <2>2. j - i \in 1 .. Len(q) - i /\ SubSeq(q, i + 1, Len(q))[j - i] = q[j]
    BY <1>2
  <2>3. QED BY <2>1, <2>2 DEF Entries
<1>3. QED BY <1>1, <1>2

-----------------------------------------------------------------------------
(* The scheduler. *)

(* get_next_process leaves exactly one process RUNNING, the current one, and
   throws away no entry of a process that stays READY. *)
LEMMA GetNextKeeps ==
    ASSUME priority \in [Slots -> Priorities],
           NEW start \in Priorities,
           NEW st \in [Slots -> States],
           \A s \in Slots : st[s] # "RUNNING",
           NEW rq \in [Priorities -> Seq(Slots)],
           GetNext(start, st, rq)
    PROVE  /\ state' \in [Slots -> States]
           /\ readyQ' \in [Priorities -> Seq(Slots)]
           /\ current' \in Slots
           /\ state'[current'] = "RUNNING"
           /\ \A s \in Slots : state'[s] = "RUNNING" => s = current'
           /\ \A s \in Slots : s # current' => state'[s] = st[s]
           /\ \A s \in Slots :
                 state'[s] = "READY" /\ s \in Entries(rq[priority[s]])
                    => s \in Entries(readyQ'[priority[s]])
<1> USE DEF States
<1>1. ASSUME NEW s \in Slots, Dispatch(s, st)
      PROVE  /\ state' \in [Slots -> States]
             /\ current' \in Slots
             /\ state'[current'] = "RUNNING"
             /\ \A r \in Slots : state'[r] = "RUNNING" => r = current'
             /\ \A r \in Slots : r # current' => state'[r] = st[r]
  BY <1>1 DEF Dispatch
<1>2. CASE \E l \in Priorities : \E i \in Runnable(st, rq, l) : TakeEntry(start, st, rq, l, i)
  <2>0. PICK l \in Priorities : \E i \in Runnable(st, rq, l) : TakeEntry(start, st, rq, l, i)
    BY <1>2
  <2>1. PICK i \in Runnable(st, rq, l) : TakeEntry(start, st, rq, l, i)
    BY <2>0
  <2>2. rq[l] \in Seq(Slots) /\ i \in 1 .. Len(rq[l]) /\ rq[l][i] \in Slots
    BY DEF Runnable
  <2>3. /\ SubSeq(rq[l], i + 1, Len(rq[l])) \in Seq(Slots)
        /\ \A j \in 1 .. Len(rq[l]) :
              j > i => rq[l][j] \in Entries(SubSeq(rq[l], i + 1, Len(rq[l])))
    BY <2>2, EntriesTail
  <2>4. /\ readyQ' \in [Priorities -> Seq(Slots)]
        /\ readyQ'[l] = SubSeq(rq[l], i + 1, Len(rq[l]))
        /\ \A m \in Priorities : m # l /\ ~(Turn(start, m) < Turn(start, l)) => readyQ'[m] = rq[m]
    BY <2>1, <2>3 DEF TakeEntry
  <2>5. ASSUME NEW s \in Slots, state'[s] = "READY", s \in Entries(rq[priority[s]])
        PROVE  s \in Entries(readyQ'[priority[s]])
    <3>1. s # rq[l][i] /\ st[s] = "READY"
      BY <2>1, <2>2, <2>5 DEF TakeEntry, Dispatch
    <3>2. PICK k \in 1 .. Len(rq[priority[s]]) : rq[priority[s]][k] = s
      BY <2>5 DEF Entries
    <3>3. k \in Runnable(st, rq, priority[s])
      BY <3>1, <3>2 DEF Runnable
    <3>4. CASE priority[s] = l
      <4>1. k > i
        BY <2>1, <2>2, <3>1, <3>2, <3>3, <3>4 DEF TakeEntry
      <4>2. QED BY <2>3, <2>4, <3>2, <3>4, <4>1
    <3>5. CASE priority[s] # l
      <4>1. ~(Turn(start, priority[s]) < Turn(start, l))
        BY <2>1, <3>3 DEF TakeEntry
      <4>2. QED BY <2>4, <2>5, <3>5, <4>1
    <3>6. QED BY <3>4, <3>5
  <2>6. QED BY <1>1, <2>1, <2>2, <2>4, <2>5 DEF TakeEntry
<1>3. CASE TakeIdle(st, rq)
  <2>1. Idle \in Slots
    BY Constants
  <2>2. readyQ' \in [Priorities -> Seq(Slots)]
    BY <1>3 DEF TakeIdle
  <2>3. ASSUME NEW s \in Slots, state'[s] = "READY", s \in Entries(rq[priority[s]])
        PROVE  FALSE
    <3>1. st[s] = "READY"
      BY <1>3, <2>1, <2>3 DEF TakeIdle, Dispatch
    <3>2. PICK k \in 1 .. Len(rq[priority[s]]) : rq[priority[s]][k] = s
      BY <2>3 DEF Entries
    <3>3. priority[s] \in Priorities /\ k \in Runnable(st, rq, priority[s])
      BY <3>1, <3>2 DEF Runnable
    <3>4. QED BY <1>3, <3>3 DEF TakeIdle
  <2>4. QED BY <1>1, <1>3, <2>1, <2>2, <2>3 DEF TakeIdle
<1>4. QED BY <1>2, <1>3 DEF GetNext

(* scheduler() turns whatever a handler hands it into a table that satisfies
   IInv again. *)
LEMMA SchedulerKeeps ==
    ASSUME TypeOK,
           NEW start \in Priorities, NEW st, NEW rq, NEW tq,
           Handed(st, rq, tq),
           Scheduler(start, st, rq, tq),
           UNCHANGED priority
    PROVE  /\ state' \in [Slots -> States]
           /\ stack' \in [Slots -> {"none", "raw", "frame"}]
           /\ readyQ' \in [Priorities -> Seq(Slots)]
           /\ termQ' \in Seq(Slots)
           /\ current' \in Slots
           /\ processCount' \in 0 .. CountMod - 1
           /\ systemRunning' \in BOOLEAN
           /\ SingleRunner'
           /\ NoLostReady'
<1> DEFINE rd == Reaped(st, tq)
           pm == Preempted(rd)
           rq2 == Requeued(rd, rq)
<1>1. processCount' \in 0 .. CountMod - 1
  <2>1. processCount \in Int /\ Len(tq) \in Nat
    BY DEF TypeOK, Handed
  <2>2. QED BY <2>1, Constants DEF Scheduler, CountAfter
<1>2. stack' \in [Slots -> {"none", "raw", "frame"}]
  <2>1. Saved(stack, tq) \in [Slots -> {"none", "raw", "frame"}]
    BY DEF TypeOK, Saved
  <2>2. QED BY <2>1 DEF Scheduler
<1>3. termQ' \in Seq(Slots) /\ systemRunning' \in BOOLEAN
  <2>1. termQ' = <<>>
    BY DEF Scheduler
  <2>2. systemRunning' = systemRunning \/ systemRunning' = FALSE
    BY Zenon DEF Scheduler, HasRunningProcesses
  <2>3. systemRunning \in BOOLEAN
    BY DEF TypeOK
  <2>4. systemRunning' \in BOOLEAN
    BY <2>2, <2>3
  <2>5. QED BY <2>1, <2>4
<1>4. /\ rd \in [Slots -> States]
      /\ \A s \in Slots : rd[s] = IF s \in Entries(tq) THEN "TERMINATED" ELSE st[s]
  BY DEF Handed, Reaped, States
<1>5. \A s \in Slots : s \in Entries(tq) => stack'[s] = "none"
  BY DEF Scheduler, Saved
<1>6. \A s \in Slots : s \notin Entries(tq) /\ s # current => stack'[s] = stack[s]
  BY DEF Scheduler, Saved
<1>7. CASE HasRunningProcesses(CountAfter(tq))
  <2>1. /\ UNCHANGED systemRunning
        /\ GetNext(start, pm, rq2)
    BY <1>7 DEF Scheduler
  <2>2. /\ pm \in [Slots -> States]
        /\ \A s \in Slots : pm[s] # "RUNNING"
        /\ \A s \in Slots : s # current => pm[s] = rd[s]
    BY <1>4 DEF Handed, Preempted, Resumable, States
  <2>3. /\ rq2 \in [Priorities -> Seq(Slots)]
        /\ \A l \in Priorities : Entries(rq[l]) \subseteq Entries(rq2[l])
        /\ rd[current] = "RUNNING" /\ current # Idle
              => current \in Entries(rq2[priority[current]])
    <3>1. rq \in [Priorities -> Seq(Slots)] /\ priority[current] \in Priorities /\ current \in Slots
      BY DEF Handed, TypeOK
    <3>2. /\ Append(rq[priority[current]], current) \in Seq(Slots)
          /\ Entries(Append(rq[priority[current]], current))
                = Entries(rq[priority[current]]) \cup {current}
      BY <3>1, EntriesAppend
    <3>3. CASE rd[current] = "RUNNING" /\ current # Idle
      <4>1. rq2 = [rq EXCEPT ![priority[current]] = Append(rq[priority[current]], current)]
        BY <3>3 DEF Requeued
      <4>2. QED BY <3>1, <3>2, <4>1
    <3>4. CASE ~(rd[current] = "RUNNING" /\ current # Idle)
      <4>1. rq2 = rq
        BY <3>4 DEF Requeued
      <4>2. QED BY <3>1, <3>4, <4>1
    <3>5. QED BY <3>3, <3>4
  <2>4. \A s \in Slots \ {Idle} :
          pm[s] = "READY" /\ stack'[s] = "frame" => s \in Entries(rq2[priority[s]])
    <3>1. SUFFICES ASSUME NEW s \in Slots \ {Idle}, pm[s] = "READY", stack'[s] = "frame"
                   PROVE  s \in Entries(rq2[priority[s]])
      OBVIOUS
    <3>2. s \notin Entries(tq)
      BY <1>5, <3>1
    <3>3. rd[s] = st[s] /\ priority[s] \in Priorities
      BY <1>4, <3>2 DEF TypeOK
    <3>4. CASE s = current
      <4>1. rd[s] = "RUNNING" \/ rd[s] = "READY"
        BY <3>1, <3>4 DEF Preempted, Resumable
      <4>2. rd[s] # "READY"
        BY <3>1, <3>2, <3>3, <3>4 DEF Handed
      <4>3. QED BY <2>3, <3>1, <3>4, <4>1, <4>2
    <3>5. CASE s # current
      <4>1. st[s] = "READY" /\ stack[s] = "frame"
        BY <1>6, <2>2, <3>1, <3>2, <3>3, <3>5
      <4>2. s \in Entries(rq[priority[s]])
        BY <3>1, <4>1 DEF Handed
      <4>3. QED BY <2>3, <3>3, <4>2
    <3>6. QED BY <3>4, <3>5
  <2>5. priority \in [Slots -> Priorities]
    BY DEF TypeOK
  <2>6. /\ state' \in [Slots -> States]
        /\ readyQ' \in [Priorities -> Seq(Slots)]
        /\ current' \in Slots
        /\ state'[current'] = "RUNNING"
        /\ \A s \in Slots : state'[s] = "RUNNING" => s = current'
        /\ \A s \in Slots : s # current' => state'[s] = pm[s]
        /\ \A s \in Slots :
              state'[s] = "READY" /\ s \in Entries(rq2[priority[s]])
                 => s \in Entries(readyQ'[priority[s]])
    <3> HIDE DEF pm, rq2
    <3>1. QED BY <2>1, <2>2, <2>3, <2>5, GetNextKeeps
  <2>7. SingleRunner'
    BY <2>6 DEF SingleRunner, InSyscall
  <2>8. NoLostReady'
    <3>1. SUFFICES ASSUME NEW s \in Slots \ {Idle}, state'[s] = "READY", stack'[s] = "frame"
                   PROVE  s \in Entries(readyQ'[priority[s]])
      BY DEF NoLostReady
    <3>2. s # current'
      BY <2>6, <3>1
    <3>3. pm[s] = "READY"
      BY <2>6, <3>1, <3>2
    <3>4. QED BY <2>4, <2>6, <3>1, <3>3
  <2>9. QED BY <1>1, <1>2, <1>3, <2>6, <2>7, <2>8
<1>8. CASE ~HasRunningProcesses(CountAfter(tq))
  <2>1. systemRunning' = FALSE /\ state' = rd /\ readyQ' = rq /\ current' = current
    BY <1>8 DEF Scheduler
  <2>2. state' \in [Slots -> States] /\ readyQ' \in [Priorities -> Seq(Slots)] /\ current' \in Slots
    BY <1>4, <2>1 DEF Handed, TypeOK
  <2>3. SingleRunner'
    BY <1>4, <2>1 DEF SingleRunner, InSyscall, Handed
  <2>4. NoLostReady'
    <3>1. SUFFICES ASSUME NEW s \in Slots \ {Idle}, state'[s] = "READY", stack'[s] = "frame"
                   PROVE  s \in Entries(readyQ'[priority[s]])
      BY DEF NoLostReady
    <3>2. s \notin Entries(tq)
      BY <1>5, <3>1
    <3>3. st[s] = "READY"
      BY <1>4, <2>1, <3>1, <3>2
    <3>4. s # current
      BY <3>2, <3>3 DEF Handed
    <3>5. stack[s] = "frame"
      BY <1>6, <3>1, <3>2, <3>4
    <3>6. QED BY <2>1, <3>3, <3>5 DEF Handed
  <2>5. QED BY <1>1, <1>2, <1>3, <2>2, <2>3, <2>4
<1>9. QED BY <1>7, <1>8

-----------------------------------------------------------------------------
(* What the other helpers do to the table. *)

(* wake_up_process makes nobody RUNNING, and queues what it makes READY. *)
LEMMA WakeKeeps ==
    ASSUME TypeOK, NEW w \in Slots, NEW st \in [Slots -> States]
    PROVE  /\ Woken(st, w) \in [Slots -> States]
           /\ WokenQueue(st, w) \in [Priorities -> Seq(Slots)]
           /\ WokenSleepQ(st, w) \in [Slots -> [pid : Nat, left : Nat]]
           /\ \A s \in Slots : Woken(st, w)[s] = "RUNNING" => st[s] = "RUNNING"
           /\ \A s \in Slots : Woken(st, w)[s] = "READY" /\ st[s] # "READY"
                 => st[s] = "BLOCKED" /\ s \in Entries(WokenQueue(st, w)[priority[s]])
           /\ \A l \in Priorities : Entries(readyQ[l]) \subseteq Entries(WokenQueue(st, w)[l])
<1>1. /\ WakesTo(w) \in States
      /\ WakesTo(w) # "RUNNING"
  BY DEF WakesTo, TypeOK, States
<1>2. /\ Woken(st, w) \in [Slots -> States]
      /\ \A s \in Slots : s # w => Woken(st, w)[s] = st[s]
      /\ st[w] = "BLOCKED" => Woken(st, w)[w] = WakesTo(w)
      /\ st[w] # "BLOCKED" => Woken(st, w)[w] = st[w]
  BY <1>1 DEF Woken
<1>3. /\ readyQ \in [Priorities -> Seq(Slots)]
      /\ priority[w] \in Priorities
      /\ Append(readyQ[priority[w]], w) \in Seq(Slots)
      /\ Entries(Append(readyQ[priority[w]], w)) = Entries(readyQ[priority[w]]) \cup {w}
  BY EntriesAppend DEF TypeOK
<1>4. WokenSleepQ(st, w) \in [Slots -> [pid : Nat, left : Nat]]
  BY DEF WokenSleepQ, Free, TypeOK
<1>5. CASE st[w] = "BLOCKED" /\ WakesTo(w) = "READY"
  <2>1. WokenQueue(st, w) = [readyQ EXCEPT ![priority[w]] = Append(readyQ[priority[w]], w)]
    BY <1>5 DEF WokenQueue
  <2>2. /\ WokenQueue(st, w) \in [Priorities -> Seq(Slots)]
        /\ \A l \in Priorities : Entries(readyQ[l]) \subseteq Entries(WokenQueue(st, w)[l])
        /\ w \in Entries(WokenQueue(st, w)[priority[w]])
    BY <1>3, <2>1
  <2>3. QED BY <1>1, <1>2, <1>4, <1>5, <2>2
<1>6. CASE ~(st[w] = "BLOCKED" /\ WakesTo(w) = "READY")
  <2>1. WokenQueue(st, w) = readyQ
    BY <1>6 DEF WokenQueue
  <2>2. QED BY <1>1, <1>2, <1>3, <1>4, <1>6, <2>1
<1>7. QED BY <1>5, <1>6

(* Blocking the current process, or putting it to sleep, may be handed to
   scheduler(). *)
LEMMA SuspendKeeps ==
    ASSUME IInv, InSyscall, NEW as \in {"BLOCKED", "SLEEPING"}
    PROVE  /\ Handed(Suspended(current, as), readyQ, termQ)
           /\ Remembered(current, as) \in [Slots -> States \ {"RUNNING"}]
<1> USE DEF IInv, TypeOK
<1>1. Remembered(current, as) \in [Slots -> States \ {"RUNNING"}]
  BY DEF Remembered, Resumable, States
<1>2. /\ Suspended(current, as) \in [Slots -> States]
      /\ \A s \in Slots : s # current => Suspended(current, as)[s] = state[s]
      /\ Suspended(current, as)[current] = "READY" => state[current] = "READY"
  BY DEF Suspended, States
<1>3. current # Idle /\ Suspended(current, as)[current] = "READY" => current \in Entries(termQ)
  BY <1>2 DEF SingleRunner
<1>4. \A s \in Slots : Suspended(current, as)[s] = "RUNNING" => s = current
  BY <1>2 DEF SingleRunner
<1>5. \A s \in Slots \ {Idle} : Suspended(current, as)[s] = "READY" /\ stack[s] = "frame"
          => s \in Entries(readyQ[priority[s]])
  BY <1>2 DEF NoLostReady
<1>6. QED BY <1>1, <1>2, <1>3, <1>4, <1>5 DEF Handed

(* What kill_process(s) leaves, with its waiter w woken. *)
LEMMA KillKeeps ==
    ASSUME IInv, systemRunning, NEW s \in Slots, NEW w \in Slots
    PROVE  /\ Handed(Woken(Marked(s), w), WokenQueue(Marked(s), w), Append(termQ, s))
           /\ WokenSleepQ(Marked(s), w) \in [Slots -> [pid : Nat, left : Nat]]
           /\ Entries(Append(termQ, s)) = Entries(termQ) \cup {s}
           /\ Woken(Marked(s), w)[current] = "RUNNING" \/ state[current] # "RUNNING" \/ s = current
<1> USE DEF IInv
<1>1. /\ Marked(s) \in [Slots -> States]
      /\ Marked(s)[s] = "TERMINATED"
      /\ \A r \in Slots : r # s => Marked(s)[r] = state[r]
  BY DEF Marked, TypeOK, States
<1>2. /\ Append(termQ, s) \in Seq(Slots)
      /\ Entries(Append(termQ, s)) = Entries(termQ) \cup {s}
  BY EntriesAppend DEF TypeOK
<1>3. /\ Woken(Marked(s), w) \in [Slots -> States]
      /\ WokenQueue(Marked(s), w) \in [Priorities -> Seq(Slots)]
      /\ WokenSleepQ(Marked(s), w) \in [Slots -> [pid : Nat, left : Nat]]
      /\ \A r \in Slots : Woken(Marked(s), w)[r] = "RUNNING" => Marked(s)[r] = "RUNNING"
      /\ \A r \in Slots : Woken(Marked(s), w)[r] = "READY" /\ Marked(s)[r] # "READY"
            => Marked(s)[r] = "BLOCKED" /\ r \in Entries(WokenQueue(Marked(s), w)[priority[r]])
      /\ \A l \in Priorities : Entries(readyQ[l]) \subseteq Entries(WokenQueue(Marked(s), w)[l])
  BY <1>1, WakeKeeps
<1>4. \A r \in Slots : Woken(Marked(s), w)[r] = "RUNNING" => r = current
  BY <1>1, <1>3 DEF SingleRunner
<1>5. current # Idle /\ Woken(Marked(s), w)[current] = "READY"
          => current \in Entries(Append(termQ, s))
  <2>1. SUFFICES ASSUME current # Idle, Woken(Marked(s), w)[current] = "READY", current # s
                 PROVE  state[current] # "RUNNING"
    BY <1>2 DEF SingleRunner, InSyscall
  <2>2. current \in Slots /\ Marked(s)[current] = state[current]
    BY <1>1, <2>1 DEF TypeOK
  <2>3. QED BY <1>3, <2>1, <2>2
<1>6. \A r \in Slots \ {Idle} : Woken(Marked(s), w)[r] = "READY" /\ stack[r] = "frame"
          => r \in Entries(WokenQueue(Marked(s), w)[priority[r]])
  <2>1. SUFFICES ASSUME NEW r \in Slots \ {Idle}, Woken(Marked(s), w)[r] = "READY",
                        stack[r] = "frame", Marked(s)[r] = "READY"
                 PROVE  r \in Entries(WokenQueue(Marked(s), w)[priority[r]])
    BY <1>3
  <2>2. state[r] = "READY" /\ priority[r] \in Priorities
    BY <1>1, <2>1 DEF TypeOK
  <2>3. r \in Entries(readyQ[priority[r]])
    BY <2>1, <2>2 DEF NoLostReady
  <2>4. QED BY <1>3, <2>2, <2>3
<1>7. state[current] = "RUNNING" /\ s # current => Woken(Marked(s), w)[current] = "RUNNING"
  BY <1>1 DEF Woken, TypeOK, States
<1>8. QED BY <1>2, <1>3, <1>4, <1>5, <1>6, <1>7 DEF Handed

(* The sleepers woken by a tick, in any order of them. *)
LEMMA OrderKeeps ==
    ASSUME NEW D \in SUBSET Slots, NEW w \in InEntryOrder(D)
    PROVE  w \in Seq(Slots) /\ D \subseteq Entries(w)
<1>1. IsFiniteSet(Slots)
  BY Constants, FS_Interval DEF Slots
<1>2. Cardinality(D) \in Nat
  BY <1>1, FS_Subset, FS_CardinalityType
<1>3. /\ w \in [1 .. Cardinality(D) -> D]
      /\ \A s \in D : \E k \in 1 .. Cardinality(D) : w[k] = s
  BY DEF InEntryOrder
<1>4. w \in Seq(Slots) /\ Len(w) = Cardinality(D)
  BY <1>2, <1>3
<1>5. QED BY <1>3, <1>4 DEF Entries

(* What timer_handler hands to scheduler(). *)
LEMMA TickKeeps ==
    ASSUME IInv, systemRunning,
           NEW woken, \A l \in Priorities : woken[l] \in InEntryOrder(ReadyAt(l))
    PROVE  Handed(Unslept, [l \in Priorities |-> readyQ[l] \o woken[l]], termQ)
<1> DEFINE rq == [l \in Priorities |-> readyQ[l] \o woken[l]]
<1> USE DEF IInv
<1>1. /\ Unslept \in [Slots -> States]
      /\ \A s \in Slots : Unslept[s] = "RUNNING" => state[s] = "RUNNING"
      /\ \A s \in Slots : Unslept[s] = "READY" /\ state[s] # "READY"
            => state[s] = "SLEEPING" /\ s \in Due /\ previous[s] = "READY"
      /\ termQ \in Seq(Slots)
  BY DEF Unslept, Due, IsSleeping, TypeOK, States
<1>2. ASSUME NEW l \in Priorities
      PROVE  /\ rq[l] \in Seq(Slots)
             /\ Entries(readyQ[l]) \subseteq Entries(rq[l])
             /\ ReadyAt(l) \subseteq Entries(rq[l])
  <2>1. ReadyAt(l) \in SUBSET Slots
    BY DEF ReadyAt, Due
  <2>2. woken[l] \in Seq(Slots) /\ ReadyAt(l) \subseteq Entries(woken[l])
    BY <2>1, OrderKeeps
  <2>3. readyQ[l] \in Seq(Slots)
    BY DEF TypeOK
  <2>4. QED BY <2>2, <2>3, EntriesConcat
<1>3. rq \in [Priorities -> Seq(Slots)]
  BY <1>2
<1>4. \A s \in Slots : Unslept[s] = "RUNNING" => s = current
  BY <1>1 DEF SingleRunner
<1>5. current # Idle /\ Unslept[current] = "READY" => current \in Entries(termQ)
  BY <1>1 DEF SingleRunner, InSyscall, TypeOK
<1>6. ASSUME NEW s \in Slots \ {Idle}, Unslept[s] = "READY", stack[s] = "frame"
      PROVE  s \in Entries(rq[priority[s]])
  <2>1. priority[s] \in Priorities
    BY DEF TypeOK
  <2>2. CASE state[s] = "READY"
    <3>1. s \in Entries(readyQ[priority[s]])
      BY <1>6, <2>2 DEF NoLostReady
    <3>2. QED BY <1>2, <2>1, <3>1
  <2>3. CASE state[s] # "READY"
    <3>1. s \in ReadyAt(priority[s])
      BY <1>1, <1>6, <2>3 DEF ReadyAt
    <3>2. QED BY <1>2, <2>1, <3>1
  <2>4. QED BY <2>2, <2>3
<1> HIDE DEF rq
<1>7. Handed(Unslept, rq, termQ)
  BY <1>1, <1>3, <1>4, <1>5, <1>6 DEF Handed
<1>8. QED BY <1>7 DEF rq

-----------------------------------------------------------------------------
(* The invariant. *)

LEMMA Initially == Init => IInv
<1> SUFFICES ASSUME Init PROVE IInv
  OBVIOUS
<1> USE DEF Init
<1>1. /\ <<Shell>> \in Seq(Slots) /\ <<>> \in Seq(Slots) /\ Entries(<<Shell>>) = {Shell}
  BY Constants DEF Entries
<1>2. 2 \in 0 .. CountMod - 1
  BY Constants
<1>3. sleepQ \in [Slots -> [pid : Nat, left : Nat]]
  BY DEF Free
<1>4. readyQ \in [Priorities -> Seq(Slots)]
  BY <1>1
<1>5. TypeOK
  BY <1>1, <1>2, <1>3, <1>4, Constants DEF TypeOK, States
<1>6. SingleRunner
  BY Constants DEF SingleRunner, InSyscall
<1>7. NoLostReady
  BY <1>1, Constants DEF NoLostReady
<1>8. QED BY <1>5, <1>6, <1>7 DEF IInv

(* The handlers that end in scheduler(). *)
LEMMA SwitchPreserves ==
    ASSUME IInv, NEW start \in Priorities,
           \/ Tick(start) \/ Yield(start) \/ SemBlock(start)
           \/ \E n \in Naps : Sleep(start, n)
           \/ \E s, w \in Slots : Kill(start, s, w)
    PROVE  IInv'
<1>1. ASSUME NEW st, NEW rq, NEW tq,
             Handed(st, rq, tq), Scheduler(start, st, rq, tq),
             UNCHANGED <<pid, priority, nextPid>>,
             previous' \in [Slots -> States \ {"RUNNING"}],
             sleepQ' \in [Slots -> [pid : Nat, left : Nat]]
      PROVE  IInv'
  <2>1. TypeOK
    BY DEF IInv
  <2>2. /\ state' \in [Slots -> States]
        /\ stack' \in [Slots -> {"none", "raw", "frame"}]
        /\ readyQ' \in [Priorities -> Seq(Slots)]
        /\ termQ' \in Seq(Slots)
        /\ current' \in Slots
        /\ processCount' \in 0 .. CountMod - 1
        /\ systemRunning' \in BOOLEAN
        /\ SingleRunner'
        /\ NoLostReady'
    BY <1>1, <2>1, SchedulerKeeps
  <2>3. TypeOK'
    BY <1>1, <2>1, <2>2 DEF TypeOK
  <2>4. QED BY <2>2, <2>3 DEF IInv
<1>2. CASE Tick(start)
  <2>1. PICK woken \in [Priorities -> UNION {InEntryOrder(D) : D \in SUBSET Due}] :
            /\ \A l \in Priorities : woken[l] \in InEntryOrder(ReadyAt(l))
            /\ Scheduler(start, Unslept, [l \in Priorities |-> readyQ[l] \o woken[l]], termQ)
    BY <1>2 DEF Tick
  <2>2. Handed(Unslept, [l \in Priorities |-> readyQ[l] \o woken[l]], termQ)
    BY <1>2, <2>1, TickKeeps DEF Tick
  <2>3. Aged \in [Slots -> [pid : Nat, left : Nat]]
    <3>1. ASSUME NEW i \in Slots
          PROVE  Aged[i] \in [pid : Nat, left : Nat]
      <4>1. sleepQ[i] \in [pid : Nat, left : Nat]
        BY DEF IInv, TypeOK
      <4>2. sleepQ[i].left > 0 => [sleepQ[i] EXCEPT !.left = @ - 1] \in [pid : Nat, left : Nat]
        BY <4>1
      <4>3. QED BY <4>1, <4>2 DEF Aged
    <3>2. QED BY <3>1 DEF Aged
  <2>4. sleepQ' \in [Slots -> [pid : Nat, left : Nat]]
    BY <1>2, <2>3 DEF Tick, Free
  <2>5. previous' \in [Slots -> States \ {"RUNNING"}] /\ UNCHANGED <<pid, priority, nextPid>>
    BY <1>2 DEF Tick, IInv, TypeOK
  <2>6. QED BY <1>1, <2>1, <2>2, <2>4, <2>5
<1>3. CASE Yield(start)
  <2>1. Handed(state, readyQ, termQ)
    BY <1>3 DEF Yield, Handed, IInv, TypeOK, SingleRunner, NoLostReady
  <2>2. /\ previous' \in [Slots -> States \ {"RUNNING"}]
        /\ sleepQ' \in [Slots -> [pid : Nat, left : Nat]]
        /\ UNCHANGED <<pid, priority, nextPid>>
        /\ Scheduler(start, state, readyQ, termQ)
    BY <1>3 DEF Yield, IInv, TypeOK
  <2>3. QED BY <1>1, <2>1, <2>2
<1>4. CASE SemBlock(start)
  <2>1. /\ Handed(Suspended(current, "BLOCKED"), readyQ, termQ)
        /\ Remembered(current, "BLOCKED") \in [Slots -> States \ {"RUNNING"}]
    BY <1>4, SuspendKeeps DEF SemBlock
  <2>2. /\ previous' \in [Slots -> States \ {"RUNNING"}]
        /\ sleepQ' \in [Slots -> [pid : Nat, left : Nat]]
        /\ UNCHANGED <<pid, priority, nextPid>>
        /\ Scheduler(start, Suspended(current, "BLOCKED"), readyQ, termQ)
    BY <1>4, <2>1 DEF SemBlock, IInv, TypeOK
  <2>3. QED BY <1>1, <2>1, <2>2
<1>5. ASSUME NEW n \in Naps, Sleep(start, n)
      PROVE  IInv'
  <2>1. /\ Handed(Suspended(current, "SLEEPING"), readyQ, termQ)
        /\ Remembered(current, "SLEEPING") \in [Slots -> States \ {"RUNNING"}]
    BY <1>5, SuspendKeeps DEF Sleep
  <2>2. /\ previous' \in [Slots -> States \ {"RUNNING"}]
        /\ UNCHANGED <<pid, priority, nextPid>>
        /\ Scheduler(start, Suspended(current, "SLEEPING"), readyQ, termQ)
    BY <1>5, <2>1 DEF Sleep
  <2>3. PICK i \in Slots : sleepQ' = [sleepQ EXCEPT ![i] = [pid |-> pid[current], left |-> n]]
    BY <1>5 DEF Sleep
  <2>4. sleepQ' \in [Slots -> [pid : Nat, left : Nat]]
    BY <2>3, Constants DEF IInv, TypeOK
  <2>5. QED BY <1>1, <2>1, <2>2, <2>4
<1>6. ASSUME NEW s \in Slots, NEW w \in Slots, Kill(start, s, w)
      PROVE  IInv'
  <2>1. /\ Handed(Woken(Marked(s), w), WokenQueue(Marked(s), w), Append(termQ, s))
        /\ WokenSleepQ(Marked(s), w) \in [Slots -> [pid : Nat, left : Nat]]
    BY <1>6, KillKeeps DEF Kill, InSyscall
  <2>2. /\ previous' \in [Slots -> States \ {"RUNNING"}]
        /\ sleepQ' \in [Slots -> [pid : Nat, left : Nat]]
        /\ UNCHANGED <<pid, priority, nextPid>>
        /\ Scheduler(start, Woken(Marked(s), w), WokenQueue(Marked(s), w), Append(termQ, s))
    BY <1>6, <2>1 DEF Kill, IInv, TypeOK
  <2>3. QED BY <1>1, <2>1, <2>2
<1>7. QED BY <1>2, <1>3, <1>4, <1>5, <1>6

(* The other handlers. *)
LEMMA ChangePreserves ==
    ASSUME IInv, Changes
    PROVE  IInv'
<1> USE DEF IInv
<1>1. ASSUME NEW s \in Slots, Block(s)
      PROVE  IInv'
  <2>1. /\ state' = [state EXCEPT ![s] = "BLOCKED"]
        /\ previous' = [previous EXCEPT ![s] = Resumable(state[s])]
        /\ s # current
        /\ UNCHANGED <<pid, priority, stack, readyQ, termQ, current, nextPid,
                       processCount, systemRunning, sleepQ>>
    BY <1>1 DEF Block, Suspended, Remembered, Targetable
  <2>2. Resumable(state[s]) \in States \ {"RUNNING"}
    BY DEF Resumable, TypeOK, States
  <2>3. TypeOK'
    <3>1. /\ state' \in [Slots -> States]
          /\ previous' \in [Slots -> States \ {"RUNNING"}]
      BY <2>1, <2>2 DEF TypeOK, States
    <3>2. QED BY <2>1, <3>1 DEF TypeOK
  <2>4. SingleRunner'
    BY <2>1 DEF SingleRunner, InSyscall, TypeOK
  <2>5. NoLostReady'
    BY <2>1 DEF NoLostReady, TypeOK
  <2>6. QED BY <2>3, <2>4, <2>5
<1>2. ASSUME NEW s \in Slots, Unblock(s) \/ SemPost(s)
      PROVE  IInv'
  <2>1. /\ state[s] = "BLOCKED"
        /\ state' = Woken(state, s)
        /\ readyQ' = WokenQueue(state, s)
        /\ sleepQ' = WokenSleepQ(state, s)
        /\ UNCHANGED <<pid, previous, priority, stack, termQ, current, nextPid,
                       processCount, systemRunning>>
    BY <1>2 DEF Unblock, SemPost
  <2>2. /\ state' \in [Slots -> States]
        /\ readyQ' \in [Priorities -> Seq(Slots)]
        /\ sleepQ' \in [Slots -> [pid : Nat, left : Nat]]
        /\ \A r \in Slots : state'[r] = "RUNNING" => state[r] = "RUNNING"
        /\ \A r \in Slots : state'[r] = "READY" /\ state[r] # "READY"
              => state[r] = "BLOCKED" /\ r \in Entries(readyQ'[priority[r]])
        /\ \A l \in Priorities : Entries(readyQ[l]) \subseteq Entries(readyQ'[l])
    BY <2>1, WakeKeeps DEF TypeOK
  <2>3. TypeOK'
    BY <2>1, <2>2 DEF TypeOK
  <2>4. SingleRunner'
    <3>1. state[current] = "RUNNING" => state'[current] = "RUNNING"
      BY <2>1 DEF Woken, TypeOK
    <3>2. QED BY <2>1, <2>2, <3>1 DEF SingleRunner, InSyscall
  <2>5. NoLostReady'
    <3>1. SUFFICES ASSUME NEW r \in Slots \ {Idle}, state'[r] = "READY", stack'[r] = "frame"
                   PROVE  r \in Entries(readyQ'[priority'[r]])
      BY DEF NoLostReady
    <3>2. CASE state[r] = "READY"
      <4>1. r \in Entries(readyQ[priority[r]]) /\ priority[r] \in Priorities
        BY <2>1, <3>1, <3>2 DEF NoLostReady, TypeOK
      <4>2. QED BY <2>1, <2>2, <4>1
    <3>3. CASE state[r] # "READY"
      BY <2>1, <2>2, <3>1, <3>3
    <3>4. QED BY <3>2, <3>3
  <2>6. QED BY <2>3, <2>4, <2>5
<1>3. ASSUME NEW s \in Slots, NEW l \in Priorities, SetPriority(s, l)
      PROVE  IInv'
  <2>1. /\ readyQ[l] \in Seq(Slots)
        /\ Append(readyQ[l], s) \in Seq(Slots)
        /\ Entries(Append(readyQ[l], s)) = Entries(readyQ[l]) \cup {s}
    BY EntriesAppend DEF TypeOK
  <2>2. /\ readyQ' \in [Priorities -> Seq(Slots)]
        /\ \A m \in Priorities : Entries(readyQ[m]) \subseteq Entries(readyQ'[m])
        /\ state[s] = "READY" => s \in Entries(readyQ'[l])
    <3>1. CASE state[s] = "READY"
      <4>1. readyQ' = [readyQ EXCEPT ![l] = Append(readyQ[l], s)]
        BY <1>3, <3>1 DEF SetPriority
      <4>2. QED BY <2>1, <4>1 DEF TypeOK
    <3>2. CASE state[s] # "READY"
      <4>1. readyQ' = readyQ
        BY <1>3, <3>2 DEF SetPriority
      <4>2. QED BY <3>2, <4>1 DEF TypeOK
    <3>3. QED BY <3>1, <3>2
  <2>3. TypeOK'
    BY <1>3, <2>2 DEF SetPriority, TypeOK
  <2>4. SingleRunner'
    BY <1>3 DEF SetPriority, SingleRunner, InSyscall
  <2>5. NoLostReady'
    <3>1. SUFFICES ASSUME NEW r \in Slots \ {Idle}, state[r] = "READY", stack[r] = "frame"
                   PROVE  r \in Entries(readyQ'[priority'[r]])
      BY <1>3 DEF SetPriority, NoLostReady
    <3>2. CASE r = s
      BY <1>3, <2>2, <3>1, <3>2 DEF SetPriority, TypeOK
    <3>3. CASE r # s
      <4>1. priority'[r] = priority[r] /\ priority[r] \in Priorities
        BY <1>3, <3>3 DEF SetPriority, TypeOK
      <4>2. r \in Entries(readyQ[priority[r]])
        BY <3>1 DEF NoLostReady
      <4>3. QED BY <2>2, <4>1, <4>2
    <3>4. QED BY <3>2, <3>3
  <2>6. QED BY <2>3, <2>4, <2>5
<1>4. ASSUME NEW outcome \in Outcomes, Create(outcome)
      PROVE  IInv'
  <2>1. PICK s \in Slots \ {Idle} :
          /\ state[s] = "TERMINATED"
          /\ pid' = [pid EXCEPT ![s] = nextPid]
          /\ state' = [state EXCEPT ![s] = "READY"]
          /\ previous' = [previous EXCEPT ![s] = "TERMINATED"]
          /\ priority' = [priority EXCEPT ![s] = 0]
          /\ stack' = [stack EXCEPT ![s] = StackOf(outcome)]
          /\ readyQ' = IF outcome = "ok" THEN [readyQ EXCEPT ![0] = Append(@, s)] ELSE readyQ
    BY <1>4 DEF Create
  <2>2. /\ readyQ[0] \in Seq(Slots)
        /\ Append(readyQ[0], s) \in Seq(Slots)
        /\ Entries(Append(readyQ[0], s)) = Entries(readyQ[0]) \cup {s}
    BY Constants, EntriesAppend DEF TypeOK
  <2>3. /\ readyQ' \in [Priorities -> Seq(Slots)]
        /\ \A m \in Priorities : Entries(readyQ[m]) \subseteq Entries(readyQ'[m])
        /\ outcome = "ok" => s \in Entries(readyQ'[0])
    <3>1. CASE outcome = "ok"
      <4>1. readyQ' = [readyQ EXCEPT ![0] = Append(readyQ[0], s)]
        BY <2>1, <3>1
      <4>2. QED BY <2>2, <4>1, Constants DEF TypeOK
    <3>2. CASE outcome # "ok"
      <4>1. readyQ' = readyQ
        BY <2>1, <3>2
      <4>2. QED BY <3>2, <4>1 DEF TypeOK
    <3>3. QED BY <3>1, <3>2
  <2>4. StackOf(outcome) \in {"none", "raw", "frame"} /\ (StackOf(outcome) = "frame" => outcome = "ok")
    BY DEF StackOf
  <2>5. /\ pid' \in [Slots -> Nat] /\ nextPid' \in Nat
        /\ state' \in [Slots -> States]
        /\ previous' \in [Slots -> States \ {"RUNNING"}]
        /\ priority' \in [Slots -> Priorities]
        /\ stack' \in [Slots -> {"none", "raw", "frame"}]
    <3>1. nextPid \in Nat /\ nextPid' = nextPid + 1
      BY <1>4 DEF Create, TypeOK
    <3>2. pid' \in [Slots -> Nat] /\ nextPid' \in Nat
      BY <2>1, <3>1 DEF TypeOK
    <3>3. state' \in [Slots -> States] /\ previous' \in [Slots -> States \ {"RUNNING"}]
      BY <2>1 DEF TypeOK, States
    <3>4. priority' \in [Slots -> Priorities]
      BY <2>1, Constants DEF TypeOK
    <3>5. stack' \in [Slots -> {"none", "raw", "frame"}]
      BY <2>1, <2>4 DEF TypeOK
    <3>6. QED BY <3>2, <3>3, <3>4, <3>5
  <2>6. processCount' \in 0 .. CountMod - 1
    <3>1. processCount \in Nat /\ processCount < MaxProcesses /\ processCount \in 0 .. CountMod - 1
      BY <1>4, Constants DEF Create, TypeOK
    <3>2. processCount' = processCount + 1 \/ processCount' = processCount
      BY <1>4 DEF Create
    <3>3. QED BY <3>1, <3>2, Constants
  <2>7. TypeOK'
    BY <1>4, <2>3, <2>5, <2>6 DEF Create, TypeOK
  <2>8. SingleRunner'
    BY <1>4, <2>1 DEF Create, SingleRunner, InSyscall, TypeOK
  <2>9. NoLostReady'
    <3>1. SUFFICES ASSUME NEW r \in Slots \ {Idle}, state'[r] = "READY", stack'[r] = "frame"
                   PROVE  r \in Entries(readyQ'[priority'[r]])
      BY DEF NoLostReady
    <3>2. CASE r = s
      <4>1. stack'[r] = StackOf(outcome) /\ priority'[r] = 0
        BY <2>1, <3>2 DEF TypeOK
      <4>2. QED BY <2>3, <2>4, <3>1, <3>2, <4>1
    <3>3. CASE r # s
      <4>1. /\ state[r] = "READY" /\ stack[r] = "frame"
            /\ priority'[r] = priority[r] /\ priority[r] \in Priorities
        BY <2>1, <3>1, <3>3 DEF TypeOK
      <4>2. r \in Entries(readyQ[priority[r]])
        BY <4>1 DEF NoLostReady
      <4>3. QED BY <2>3, <4>1, <4>2
    <3>4. QED BY <3>2, <3>3
  <2>10. QED BY <2>7, <2>8, <2>9
<1>5. ASSUME NEW s \in Slots, NEW w \in Slots, CtrlC(s, w)
      PROVE  IInv'
  <2>1. /\ systemRunning
        /\ state' = Woken(Marked(s), w)
        /\ readyQ' = WokenQueue(Marked(s), w)
        /\ sleepQ' = WokenSleepQ(Marked(s), w)
        /\ termQ' = Append(termQ, s)
        /\ UNCHANGED <<pid, previous, priority, stack, current, nextPid,
                       processCount, systemRunning>>
    BY <1>5 DEF CtrlC
  <2>2. /\ Handed(state', readyQ', termQ')
        /\ sleepQ' \in [Slots -> [pid : Nat, left : Nat]]
        /\ Entries(termQ') = Entries(termQ) \cup {s}
        /\ state'[current] = "RUNNING" \/ state[current] # "RUNNING" \/ s = current
    BY <2>1, KillKeeps
  <2>3. TypeOK'
    BY <2>1, <2>2 DEF TypeOK, Handed
  <2>4. SingleRunner'
    BY <2>1, <2>2 DEF SingleRunner, InSyscall, Handed
  <2>5. NoLostReady'
    BY <2>1, <2>2 DEF NoLostReady, Handed
  <2>6. QED BY <2>3, <2>4, <2>5
<1>6. QED BY <1>1, <1>2, <1>3, <1>4, <1>5 DEF Changes, Toggle

LEMMA Inductive == IInv /\ [Next]_vars => IInv'
<1> SUFFICES ASSUME IInv, [Next]_vars PROVE IInv'
  OBVIOUS
<1>1. ASSUME Ticks \/ Switches
      PROVE  IInv'
  BY <1>1, SwitchPreserves DEF Ticks, Switches
<1>2. CASE Changes
  BY <1>2, ChangePreserves
<1>3. CASE UNCHANGED vars
  BY <1>3 DEF vars, IInv, TypeOK, SingleRunner, InSyscall, NoLostReady
<1>4. QED BY <1>1, <1>2, <1>3 DEF Next, Halted

(* The tables keep their types, and a process is never taken back to RUNNING
   by a wake-up. *)
THEOREM TypesCorrect == Spec => []TypeOK
<1>1. IInv => TypeOK
  BY DEF IInv
<1>2. QED BY <1>1, Initially, Inductive, PTL DEF Spec

(* One process runs at a time, and the one that is current runs, or is about
   to be reaped: also when Ctrl+C kills it in the middle of its own code and
   it goes on to make system calls. *)
THEOREM OneRuns == Spec => []SingleRunner
<1>1. IInv => SingleRunner
  BY DEF IInv
<1>2. QED BY <1>1, Initially, Inductive, PTL DEF Spec

(* No READY process is ever lost by the ready queues. *)
THEOREM NoneLost == Spec => []NoLostReady
<1>1. IInv => NoLostReady
  BY DEF IInv
<1>2. QED BY <1>1, Initially, Inductive, PTL DEF Spec

-----------------------------------------------------------------------------
(* What sleep_queue says of a process, that nobody is taken out of its sleep
   early, that the idle process is the last resort, and that processes run on
   a frame.  An entry of sleep_queue holds a pid, not a slot: that it is about
   the process that now has the slot rests on pids being given out once. *)
NoEntry(sq, s) == \A i \in Slots : sq[i].pid # pid[s]
OneAtMost(sq, s) == \A i, j \in Slots : sq[i].pid = pid[s] /\ sq[j].pid = pid[s] => i = j

(* What sq must hold for the process s, when its state is x and its previous
   one is p.  A process that was blocked in its sleep and woken is SLEEPING
   with previous SLEEPING: its entry may then end without it. *)
Agrees(x, p, sq, s) ==
    /\ x # "TERMINATED" => pid[s] # 0
    /\ x \in {"READY", "RUNNING"} => NoEntry(sq, s)
    /\ x \in {"BLOCKED", "SLEEPING"} => p \in {"READY", "SLEEPING"} /\ OneAtMost(sq, s)
    /\ x = "BLOCKED" /\ p = "READY" => NoEntry(sq, s)
    /\ x = "SLEEPING" /\ p = "READY" => ~NoEntry(sq, s)

(* A pid that is not 0 is given out once, and what carries one is older than
   the next. *)
PidsGivenOnce ==
    /\ nextPid > 0
    /\ \A s \in Slots : pid[s] < nextPid
    /\ \A i \in Slots : sleepQ[i].pid < nextPid
    /\ \A r, s \in Slots : pid[r] = pid[s] /\ pid[r] # 0 => r = s

(* The idle process is not killed and does not sleep. *)
IdleIs(x, p) == x \in {"READY", "RUNNING", "BLOCKED"} /\ (x = "BLOCKED" => p = "READY")
IdleStays ==
    /\ pid[Idle] = 0
    /\ Idle \notin Entries(termQ)
    /\ IdleIs(state[Idle], previous[Idle])

SleepInv ==
    /\ PidsGivenOnce
    /\ IdleStays
    /\ \A s \in Slots \ {Idle} : Agrees(state[s], previous[s], sleepQ, s)

-----------------------------------------------------------------------------
(* What scheduler() does to one process. *)
LEMMA SchedulerMoves ==
    ASSUME TypeOK, NEW start \in Priorities, NEW st, NEW rq, NEW tq,
           Handed(st, rq, tq), Scheduler(start, st, rq, tq)
    PROVE  /\ Entries(termQ') = {}
           /\ \A s \in Slots \ {Idle} : s \in Entries(tq) => state'[s] = "TERMINATED"
           /\ \A s \in Slots \ Entries(tq) :
                 \/ state'[s] = st[s]
                 \/ st[s] \in {"READY", "RUNNING"} /\ state'[s] \in {"READY", "RUNNING"}
                 \/ s = Idle /\ state'[s] = "RUNNING"
<1> DEFINE rd == Reaped(st, tq)
           pm == Preempted(rd)
<1>1. Entries(termQ') = {}
  BY DEF Scheduler, Entries
<1>2. /\ rd \in [Slots -> States]
      /\ \A s \in Slots : rd[s] = IF s \in Entries(tq) THEN "TERMINATED" ELSE st[s]
  BY DEF Handed, Reaped, States
<1>3. /\ pm \in [Slots -> States]
      /\ \A s \in Slots : pm[s] = rd[s] \/ (rd[s] = "RUNNING" /\ pm[s] = "READY")
  BY <1>2 DEF Preempted, Resumable, States
<1>4. CASE state' = rd
  BY <1>1, <1>2, <1>4
<1>5. ASSUME NEW d \in Slots, state' = [pm EXCEPT ![d] = "RUNNING"], d = Idle \/ pm[d] = "READY"
      PROVE  /\ \A s \in Slots \ {Idle} : s \in Entries(tq) => state'[s] = "TERMINATED"
             /\ \A s \in Slots \ Entries(tq) :
                   \/ state'[s] = st[s]
                   \/ st[s] \in {"READY", "RUNNING"} /\ state'[s] \in {"READY", "RUNNING"}
                   \/ s = Idle /\ state'[s] = "RUNNING"
  <2> HIDE DEF pm, rd
  <2>1. QED BY <1>2, <1>3, <1>5
<1>6. CASE GetNext(start, pm, Requeued(rd, rq))
  <2>1. CASE TakeIdle(pm, Requeued(rd, rq))
    <3>1. Idle \in Slots /\ state' = [pm EXCEPT ![Idle] = "RUNNING"]
      BY <2>1, Constants DEF TakeIdle, Dispatch
    <3>2. QED BY <1>1, <1>5, <3>1
  <2>2. CASE \E l \in Priorities : \E i \in Runnable(pm, Requeued(rd, rq), l) :
                TakeEntry(start, pm, Requeued(rd, rq), l, i)
    <3>1. PICK l \in Priorities : \E i \in Runnable(pm, Requeued(rd, rq), l) :
                TakeEntry(start, pm, Requeued(rd, rq), l, i)
      BY <2>2
    <3>2. PICK i \in Runnable(pm, Requeued(rd, rq), l) :
                TakeEntry(start, pm, Requeued(rd, rq), l, i)
      BY <3>1
    <3> DEFINE d == Requeued(rd, rq)[l][i]
    <3>3. state' = [pm EXCEPT ![d] = "RUNNING"] /\ pm[d] = "READY"
      BY <3>2 DEF TakeEntry, Dispatch, Runnable
    <3>4. d \in Slots
      <4>1. Requeued(rd, rq) \in [Priorities -> Seq(Slots)]
        <5>1. rq \in [Priorities -> Seq(Slots)] /\ priority[current] \in Priorities /\ current \in Slots
          BY DEF Handed, TypeOK
        <5>2. Append(rq[priority[current]], current) \in Seq(Slots)
          BY <5>1
        <5>3. QED BY <5>1, <5>2 DEF Requeued
      <4>2. i \in 1 .. Len(Requeued(rd, rq)[l])
        BY DEF Runnable
      <4>3. QED BY <4>1, <4>2
    <3> HIDE DEF d
    <3>5. QED BY <1>1, <1>5, <3>3, <3>4
  <2>3. QED BY <1>6, <2>1, <2>2 DEF GetNext
<1>7. QED BY <1>4, <1>6 DEF Scheduler

(* A handler that hands scheduler() a table that agrees with sleep_queue
   leaves one. *)
LEMMA SwitchAgrees ==
    ASSUME TypeOK, SleepInv, NEW start \in Priorities, NEW st, NEW rq, NEW tq,
           Handed(st, rq, tq), Scheduler(start, st, rq, tq),
           UNCHANGED <<pid, priority, nextPid>>,
           Idle \notin Entries(tq), IdleIs(st[Idle], previous'[Idle]),
           \A i \in Slots : sleepQ'[i].pid < nextPid,
           \A s \in Slots \ {Idle} :
              s \notin Entries(tq) => Agrees(st[s], previous'[s], sleepQ', s)
    PROVE  SleepInv'
<1>1. /\ Entries(termQ') = {}
      /\ \A s \in Slots \ {Idle} : s \in Entries(tq) => state'[s] = "TERMINATED"
      /\ \A s \in Slots \ Entries(tq) :
            \/ state'[s] = st[s]
            \/ st[s] \in {"READY", "RUNNING"} /\ state'[s] \in {"READY", "RUNNING"}
            \/ s = Idle /\ state'[s] = "RUNNING"
  BY SchedulerMoves
<1>2. PidsGivenOnce'
  BY DEF SleepInv, PidsGivenOnce
<1>3. IdleStays'
  <2>1. Idle \in Slots
    BY Constants
  <2>2. IdleIs(state'[Idle], previous'[Idle])
    BY <1>1, <2>1 DEF IdleIs
  <2>3. QED BY <1>1, <2>2 DEF SleepInv, IdleStays
<1>4. ASSUME NEW s \in Slots \ {Idle}
      PROVE  Agrees(state[s], previous[s], sleepQ, s)'
  <2>1. CASE s \in Entries(tq)
    BY <1>1, <2>1 DEF Agrees
  <2>2. CASE s \notin Entries(tq)
    <3>1. Agrees(st[s], previous'[s], sleepQ', s)
      BY <2>2
    <3>2. \/ state'[s] = st[s]
          \/ st[s] \in {"READY", "RUNNING"} /\ state'[s] \in {"READY", "RUNNING"}
      BY <1>1, <2>2
    <3>3. QED BY <3>1, <3>2 DEF Agrees, NoEntry, OneAtMost
  <2>3. QED BY <2>1, <2>2
<1>5. QED BY <1>2, <1>3, <1>4 DEF SleepInv

-----------------------------------------------------------------------------
(* wake_up_process, on the table or on one with a process marked as dead:
   it ends a sleep only with its entry, and the entry with it. *)
LEMMA WakeAgrees ==
    ASSUME TypeOK, SleepInv, NEW w \in Slots, NEW st \in [Slots -> States],
           \A s \in Slots : st[s] = state[s] \/ st[s] = "TERMINATED",
           st[Idle] = state[Idle]
    PROVE  /\ \A i \in Slots : WokenSleepQ(st, w)[i].pid < nextPid
           /\ IdleIs(Woken(st, w)[Idle], previous[Idle])
           /\ \A s \in Slots \ {Idle} :
                 Agrees(Woken(st, w)[s], previous[s], WokenSleepQ(st, w), s)
           /\ \A s \in Slots : Asleep(s) /\ Woken(st, w)[s] \in {"READY", "RUNNING"}
                 => \A i \in Slots : sleepQ[i].pid = pid[s] => sleepQ[i].left = 0
<1> DEFINE sq == WokenSleepQ(st, w)
<1>1. /\ \A s \in Slots : s # w => Woken(st, w)[s] = st[s]
      /\ st[w] # "BLOCKED" => Woken(st, w)[w] = st[w]
      /\ st[w] = "BLOCKED" => Woken(st, w)[w] = WakesTo(w)
  BY DEF Woken
<1>2. \A i \in Slots : \/ sq[i] = sleepQ[i]
                       \/ sq[i].pid = 0 /\ sleepQ[i].pid = pid[w]
  BY DEF WokenSleepQ, Free
<1>3. \A i \in Slots : sq[i].pid < nextPid
  BY <1>2 DEF SleepInv, PidsGivenOnce
<1>4. Idle \in Slots /\ IdleIs(state[Idle], previous[Idle])
  BY Constants DEF SleepInv, IdleStays
<1>5. IdleIs(Woken(st, w)[Idle], previous[Idle])
  BY <1>1, <1>4 DEF IdleIs, WakesTo
<1>6. ASSUME NEW s \in Slots \ {Idle}
      PROVE  Agrees(Woken(st, w)[s], previous[s], sq, s)
  <2>1. CASE st[s] = "TERMINATED"
    <3>1. Woken(st, w)[s] = "TERMINATED"
      BY <1>1, <2>1
    <3>2. QED BY <3>1 DEF Agrees
  <2>2. CASE st[s] # "TERMINATED"
    <3>1. st[s] = state[s] /\ Agrees(state[s], previous[s], sleepQ, s) /\ pid[s] # 0
      BY <2>2 DEF SleepInv, Agrees
    <3>2. \A i \in Slots : sq[i].pid = pid[s] => sleepQ[i].pid = pid[s]
      BY <1>2, <3>1
    <3>3. s # w => \A i \in Slots : sleepQ[i].pid = pid[s] => sq[i].pid = pid[s]
      BY <1>2, <3>1 DEF SleepInv, PidsGivenOnce
    <3>4. CASE s # w
      <4> HIDE DEF sq
      <4>1. QED BY <1>1, <3>1, <3>2, <3>3, <3>4 DEF Agrees, NoEntry, OneAtMost
    <3>5. CASE s = w /\ st[w] # "BLOCKED"
      <4>1. sq = sleepQ
        BY <3>5 DEF WokenSleepQ, TypeOK
      <4>2. QED BY <1>1, <3>1, <3>5, <4>1
    <3>6. CASE s = w /\ st[w] = "BLOCKED" /\ previous[w] # "SLEEPING"
      <4>1. previous[w] = "READY" /\ Woken(st, w)[s] = "READY" /\ NoEntry(sleepQ, s)
        BY <1>1, <3>1, <3>6 DEF Agrees, WakesTo
      <4>2. NoEntry(sq, s)
        BY <3>2, <4>1 DEF NoEntry
      <4>3. QED BY <3>1, <4>1, <4>2 DEF Agrees
    <3>7. CASE s = w /\ st[w] = "BLOCKED" /\ previous[w] = "SLEEPING"
      <4>1. CASE Expired(w)
        <5>1. Woken(st, w)[s] = "READY"
          BY <1>1, <3>7, <4>1 DEF WakesTo
        <5>2. \A i \in Slots : sleepQ[i].pid = pid[s] => sq[i].pid = 0
          BY <3>7, <4>1 DEF Expired, WokenSleepQ, Free
        <5>3. NoEntry(sq, s)
          BY <3>1, <3>2, <5>2 DEF NoEntry
        <5>4. QED BY <3>1, <5>1, <5>3 DEF Agrees
      <4>2. CASE ~Expired(w)
        <5>1. Woken(st, w)[s] = "SLEEPING"
          BY <1>1, <3>7, <4>2 DEF WakesTo
        <5>2. OneAtMost(sq, s)
          BY <3>1, <3>2, <3>7 DEF OneAtMost, Agrees
        <5>3. QED BY <3>1, <3>7, <5>1, <5>2 DEF Agrees
      <4>3. QED BY <4>1, <4>2
    <3>8. QED BY <3>4, <3>5, <3>6, <3>7
  <2>3. QED BY <2>1, <2>2
<1>7. ASSUME NEW s \in Slots, Asleep(s), Woken(st, w)[s] \in {"READY", "RUNNING"}
      PROVE  \A i \in Slots : sleepQ[i].pid = pid[s] => sleepQ[i].left = 0
  <2>1. st[s] \notin {"READY", "RUNNING"}
    BY <1>7 DEF Asleep
  <2>2. s = w /\ st[w] = "BLOCKED" /\ WakesTo(w) \in {"READY", "RUNNING"}
    BY <1>1, <1>7, <2>1
  <2>3. previous[w] = "SLEEPING"
    BY <1>7, <2>2 DEF Asleep
  <2>4. QED BY <2>2, <2>3 DEF WakesTo, Expired
<1>8. QED BY <1>3, <1>5, <1>6, <1>7

(* Suspending the process that runs: it has no entry, and is given one if it
   goes to sleep. *)
LEMMA SuspendAgrees ==
    ASSUME IInv, SleepInv, InSyscall, NEW as \in {"BLOCKED", "SLEEPING"}, NEW sq,
           as = "BLOCKED" => sq = sleepQ,
           as = "SLEEPING" => \E e \in Slots, n \in Nat :
                /\ sleepQ[e].pid = 0
                /\ sq = [sleepQ EXCEPT ![e] = [pid |-> pid[current], left |-> n]]
    PROVE  /\ \A i \in Slots : sq[i].pid < nextPid
           /\ IdleIs(Suspended(current, as)[Idle], Remembered(current, as)[Idle])
           /\ \A s \in Slots \ {Idle} : s \notin Entries(termQ)
                 => Agrees(Suspended(current, as)[s], Remembered(current, as)[s], sq, s)
<1> USE DEF IInv
<1>1. /\ current \in Slots /\ current # Idle
      /\ state \in [Slots -> States] /\ previous \in [Slots -> States \ {"RUNNING"}]
      /\ pid \in [Slots -> Nat] /\ sleepQ \in [Slots -> [pid : Nat, left : Nat]]
  BY DEF TypeOK, InSyscall
<1>2. /\ \A s \in Slots : s # current => /\ Suspended(current, as)[s] = state[s]
                                         /\ Remembered(current, as)[s] = previous[s]
      /\ state[current] = "RUNNING" => /\ Suspended(current, as)[current] = as
                                       /\ Remembered(current, as)[current] = "READY"
  BY <1>1 DEF Suspended, Remembered, Resumable
<1>3. IdleIs(Suspended(current, as)[Idle], Remembered(current, as)[Idle])
  <2>1. Idle \in Slots
    BY Constants
  <2>2. QED BY <1>1, <1>2, <2>1 DEF SleepInv, IdleStays
<1>4. \A i \in Slots : sq[i].pid < nextPid
  <2>1. CASE as = "BLOCKED"
    BY <2>1 DEF SleepInv, PidsGivenOnce
  <2>2. CASE as = "SLEEPING"
    <3>1. PICK e \in Slots, n \in Nat :
              sq = [sleepQ EXCEPT ![e] = [pid |-> pid[current], left |-> n]]
      BY <2>2
    <3>2. QED BY <1>1, <3>1 DEF SleepInv, PidsGivenOnce
  <2>3. QED BY <2>1, <2>2
<1>5. ASSUME NEW s \in Slots \ {Idle}, s \notin Entries(termQ)
      PROVE  Agrees(Suspended(current, as)[s], Remembered(current, as)[s], sq, s)
  <2>1. Agrees(state[s], previous[s], sleepQ, s)
    BY DEF SleepInv
  <2>2. s = current => state[s] = "RUNNING"
    BY <1>5 DEF SingleRunner
  <2>3. CASE as = "BLOCKED"
    <3>1. sq = sleepQ
      BY <2>3
    <3>2. CASE s = current
      BY <1>2, <2>1, <2>2, <2>3, <3>1, <3>2 DEF Agrees, NoEntry, OneAtMost
    <3>3. CASE s # current
      BY <1>2, <2>1, <3>1, <3>3
    <3>4. QED BY <3>2, <3>3
  <2>4. CASE as = "SLEEPING"
    <3>1. PICK e \in Slots, n \in Nat :
              /\ sleepQ[e].pid = 0
              /\ sq = [sleepQ EXCEPT ![e] = [pid |-> pid[current], left |-> n]]
      BY <2>4
    <3>2. /\ sq[e].pid = pid[current]
          /\ \A i \in Slots : i # e => sq[i] = sleepQ[i]
      BY <1>1, <3>1
    <3>3. CASE s = current
      <4>1. pid[s] # 0 /\ NoEntry(sleepQ, s)
        BY <2>1, <2>2, <3>3 DEF Agrees
      <4>2. OneAtMost(sq, s) /\ ~NoEntry(sq, s)
        BY <3>2, <3>3, <4>1 DEF OneAtMost, NoEntry
      <4>3. QED BY <1>2, <2>2, <2>4, <3>3, <4>1, <4>2 DEF Agrees
    <3>4. CASE s # current
      <4>1. Suspended(current, as)[s] = state[s] /\ Remembered(current, as)[s] = previous[s]
        BY <1>2, <3>4
      <4>2. CASE state[s] = "TERMINATED"
        BY <4>1, <4>2 DEF Agrees
      <4>3. CASE state[s] # "TERMINATED"
        <5>1. pid[s] # 0 /\ pid[s] # pid[current]
          BY <1>1, <2>1, <3>4, <4>3 DEF Agrees, SleepInv, PidsGivenOnce
        <5>2. \A i \in Slots : sq[i].pid = pid[s] <=> sleepQ[i].pid = pid[s]
          BY <3>1, <3>2, <5>1
        <5>3. QED BY <2>1, <4>1, <5>2 DEF Agrees, NoEntry, OneAtMost
      <4>4. QED BY <4>2, <4>3
    <3>5. QED BY <3>3, <3>4
  <2>5. QED BY <2>3, <2>4
<1>6. QED BY <1>3, <1>4, <1>5

(* timer_handler: the entries that are due go, and their processes wake. *)
LEMMA TickAgrees ==
    ASSUME IInv, SleepInv, NEW start \in Priorities, Tick(start)
    PROVE  /\ \A i \in Slots : sleepQ'[i].pid < nextPid
           /\ IdleIs(Unslept[Idle], previous[Idle])
           /\ \A s \in Slots \ {Idle} : Agrees(Unslept[s], previous[s], sleepQ', s)
           /\ \A s \in Slots : Asleep(s) /\ Unslept[s] \in {"READY", "RUNNING"}
                 => \A i \in Slots : sleepQ[i].pid = pid[s] => sleepQ[i].left <= 1
<1>1. /\ state \in [Slots -> States] /\ previous \in [Slots -> States \ {"RUNNING"}]
      /\ pid \in [Slots -> Nat] /\ sleepQ \in [Slots -> [pid : Nat, left : Nat]]
  BY DEF IInv, TypeOK
<1>2. \A i \in Slots : /\ Aged[i].pid = sleepQ[i].pid
                       /\ Aged[i].left = 0 => sleepQ[i].left <= 1
  <2>1. SUFFICES ASSUME NEW i \in Slots
                 PROVE  /\ Aged[i].pid = sleepQ[i].pid
                        /\ Aged[i].left = 0 => sleepQ[i].left <= 1
    OBVIOUS
  <2>2. sleepQ[i] \in [pid : Nat, left : Nat]
    BY <1>1
  <2>3. CASE sleepQ[i].left > 0
    <3>1. Aged[i] = [sleepQ[i] EXCEPT !.left = sleepQ[i].left - 1]
      BY <2>3 DEF Aged
    <3>2. QED BY <2>2, <3>1
  <2>4. CASE ~(sleepQ[i].left > 0)
    <3>1. Aged[i] = sleepQ[i]
      BY <2>4 DEF Aged
    <3>2. QED BY <2>2, <2>4, <3>1
  <2>5. QED BY <2>3, <2>4
<1>3. \A i \in Slots :
        \/ /\ sleepQ'[i] = Free
           /\ \E d \in Due : Aged[i] = [pid |-> pid[d], left |-> 0]
        \/ /\ sleepQ'[i] = Aged[i]
           /\ ~\E d \in Due : Aged[i] = [pid |-> pid[d], left |-> 0]
  BY DEF Tick
<1>4. /\ Idle \in Slots /\ IdleIs(state[Idle], previous[Idle])
      /\ Idle \notin Due
  BY Constants DEF SleepInv, IdleStays, IdleIs, Due, IsSleeping
<1>5. \A s \in Slots : /\ s \in Due => state[s] = "SLEEPING" /\ Unslept[s] = previous[s]
                       /\ s \notin Due => Unslept[s] = state[s]
  BY DEF Unslept, Due, IsSleeping
<1>6. \A i \in Slots : sleepQ'[i].pid < nextPid
  BY <1>2, <1>3 DEF Free, SleepInv, PidsGivenOnce
<1>7. \A s \in Slots : pid[s] # 0 =>
        \A i \in Slots : sleepQ'[i].pid = pid[s] => sleepQ[i].pid = pid[s] /\ sleepQ'[i] = Aged[i]
  BY <1>2, <1>3 DEF Free
<1>8. ASSUME NEW s \in Due
      PROVE  /\ pid[s] # 0 /\ OneAtMost(sleepQ, s) /\ NoEntry(sleepQ', s)
             /\ previous[s] \in {"READY", "SLEEPING"}
             /\ \A i \in Slots : sleepQ[i].pid = pid[s] => sleepQ[i].left <= 1
  <2>1. s \in Slots \ {Idle} /\ state[s] = "SLEEPING"
    BY <1>4 DEF Due, IsSleeping
  <2>2. /\ pid[s] # 0 /\ OneAtMost(sleepQ, s) /\ previous[s] \in {"READY", "SLEEPING"}
    BY <2>1 DEF SleepInv, Agrees
  <2>3. PICK i \in Slots : Aged[i] = [pid |-> pid[s], left |-> 0]
    BY DEF Due
  <2>4. sleepQ[i].pid = pid[s] /\ sleepQ[i].left <= 1
    BY <1>2, <2>3
  <2>5. sleepQ'[i] = Free
    BY <1>3, <2>3
  <2>6. \A j \in Slots : sleepQ[j].pid = pid[s] => j = i
    BY <2>2, <2>4 DEF OneAtMost
  <2>7. NoEntry(sleepQ', s)
    BY <1>7, <2>1, <2>2, <2>5, <2>6 DEF NoEntry, Free
  <2>8. QED BY <2>2, <2>4, <2>6, <2>7
<1>9. ASSUME NEW s \in Slots \ {Idle}
      PROVE  Agrees(Unslept[s], previous[s], sleepQ', s)
  <2>1. Agrees(state[s], previous[s], sleepQ, s)
    BY DEF SleepInv
  <2>2. CASE s \in Due
    <3>1. /\ pid[s] # 0 /\ NoEntry(sleepQ', s)
          /\ Unslept[s] = previous[s] /\ previous[s] \in {"READY", "SLEEPING"}
      BY <1>5, <1>8, <2>2
    <3>2. QED BY <3>1 DEF Agrees, NoEntry, OneAtMost
  <2>3. CASE s \notin Due /\ state[s] # "TERMINATED"
    <3>1. pid[s] # 0 /\ Unslept[s] = state[s]
      BY <1>5, <2>1, <2>3 DEF Agrees
    <3>2. \A i \in Slots : sleepQ[i].pid = pid[s] => sleepQ'[i].pid = pid[s]
      <4>1. SUFFICES ASSUME NEW i \in Slots, sleepQ[i].pid = pid[s],
                            NEW d \in Due, Aged[i] = [pid |-> pid[d], left |-> 0]
                     PROVE  FALSE
        BY <1>2, <1>3
      <4>2. d \in Slots /\ pid[d] = pid[s]
        BY <1>2, <4>1 DEF Due
      <4>3. QED BY <2>3, <3>1, <4>2 DEF SleepInv, PidsGivenOnce
    <3>3. \A i \in Slots : sleepQ'[i].pid = pid[s] <=> sleepQ[i].pid = pid[s]
      BY <1>7, <3>1, <3>2
    <3>4. QED BY <2>1, <3>1, <3>3 DEF Agrees, NoEntry, OneAtMost
  <2>4. CASE s \notin Due /\ state[s] = "TERMINATED"
    BY <1>5, <2>4 DEF Agrees
  <2>5. QED BY <2>2, <2>3, <2>4
<1>10. IdleIs(Unslept[Idle], previous[Idle])
  BY <1>4, <1>5
<1>11. ASSUME NEW s \in Slots, Asleep(s), Unslept[s] \in {"READY", "RUNNING"}
       PROVE  \A i \in Slots : sleepQ[i].pid = pid[s] => sleepQ[i].left <= 1
  <2>1. s \in Due
    BY <1>5, <1>11 DEF Asleep
  <2>2. QED BY <1>8, <2>1
<1>12. QED BY <1>6, <1>9, <1>10, <1>11

-----------------------------------------------------------------------------
(* What a step may do: wake who is due, and idle when nobody can run. *)
InTime ==
    \A s \in Slots : Asleep(s) /\ pid'[s] = pid[s] /\ state'[s] \in {"READY", "RUNNING"}
        => \A i \in Slots : sleepQ[i].pid = pid[s] => sleepQ[i].left <= 1
LastResort ==
    current # Idle /\ current' = Idle /\ ~IdleQueued
        => \A s \in Slots \ {Idle} : ~Startable(s)'

IdleNeverSleeps == ~Asleep(Idle)

LEMMA IdleAwake == SleepInv => IdleNeverSleeps
  BY DEF SleepInv, IdleStays, IdleIs, IdleNeverSleeps, Asleep

(* The idle process is resumed out of a queue that lists it, or when all the
   queues have been emptied, and then none of them has lost a READY process. *)
LEMMA IdlesLast ==
    ASSUME TypeOK, NEW start \in Priorities, NEW st, NEW rq, NEW tq,
           Handed(st, rq, tq), Scheduler(start, st, rq, tq), UNCHANGED priority,
           \A l \in Priorities : Idle \notin Entries(rq[l]),
           current # Idle, current' = Idle
    PROVE  \A s \in Slots \ {Idle} : ~Startable(s)'
<1> DEFINE rd == Reaped(st, tq)
           pm == Preempted(rd)
           rq2 == Requeued(rd, rq)
<1>1. priority' \in [Slots -> Priorities] /\ NoLostReady'
  BY SchedulerKeeps DEF TypeOK
<1>2. GetNext(start, pm, rq2)
  BY DEF Scheduler
<1>3. CASE TakeIdle(pm, rq2)
  <2>1. \A l \in Priorities : Entries(readyQ'[l]) = {}
    BY <1>3 DEF TakeIdle, Entries
  <2>2. QED BY <1>1, <2>1 DEF NoLostReady, Startable
<1>4. CASE \E l \in Priorities : \E i \in Runnable(pm, rq2, l) : TakeEntry(start, pm, rq2, l, i)
  <2>1. PICK l \in Priorities : \E i \in Runnable(pm, rq2, l) : TakeEntry(start, pm, rq2, l, i)
    BY <1>4
  <2>2. PICK i \in Runnable(pm, rq2, l) : TakeEntry(start, pm, rq2, l, i)
    BY <2>1
  <2>3. i \in 1 .. Len(rq2[l]) /\ rq2[l][i] = Idle
    BY <2>2 DEF TakeEntry, Dispatch, Runnable
  <2>4. Idle \in Entries(rq2[l])
    BY <2>3 DEF Entries
  <2>5. Entries(rq2[l]) \subseteq Entries(rq[l]) \cup {current}
    <3>1. /\ rq \in [Priorities -> Seq(Slots)] /\ priority[current] \in Priorities
          /\ current \in Slots
      BY DEF Handed, TypeOK
    <3>2. Entries(Append(rq[priority[current]], current))
              = Entries(rq[priority[current]]) \cup {current}
      BY <3>1, EntriesAppend
    <3>3. CASE rd[current] = "RUNNING" /\ current # Idle
      <4>1. rq2 = [rq EXCEPT ![priority[current]] = Append(rq[priority[current]], current)]
        BY <3>3 DEF Requeued
      <4>2. QED BY <3>1, <3>2, <4>1
    <3>4. CASE ~(rd[current] = "RUNNING" /\ current # Idle)
      <4>1. rq2 = rq
        BY <3>4 DEF Requeued
      <4>2. QED BY <4>1
    <3>5. QED BY <3>3, <3>4
  <2>6. QED BY <2>4, <2>5
<1>5. QED BY <1>2, <1>3, <1>4 DEF GetNext

(* The three together, for a handler that ends in scheduler(). *)
LEMMA SwitchSteps ==
    ASSUME IInv, SleepInv, NEW start \in Priorities, NEW st, NEW rq, NEW tq,
           Handed(st, rq, tq), Scheduler(start, st, rq, tq),
           UNCHANGED <<pid, priority, nextPid>>,
           Idle \notin Entries(tq), IdleIs(st[Idle], previous'[Idle]),
           \A i \in Slots : sleepQ'[i].pid < nextPid,
           \A s \in Slots \ {Idle} :
              s \notin Entries(tq) => Agrees(st[s], previous'[s], sleepQ', s),
           \A s \in Slots : Asleep(s) /\ st[s] \in {"READY", "RUNNING"}
              => \A i \in Slots : sleepQ[i].pid = pid[s] => sleepQ[i].left <= 1,
           ~IdleQueued => \A l \in Priorities : Idle \notin Entries(rq[l])
    PROVE  SleepInv' /\ InTime /\ LastResort
<1> USE DEF IInv
<1>1. SleepInv'
  BY SwitchAgrees
<1>2. InTime
  <2>1. /\ \A s \in Slots \ {Idle} : s \in Entries(tq) => state'[s] = "TERMINATED"
        /\ \A s \in Slots \ Entries(tq) :
              \/ state'[s] = st[s]
              \/ st[s] \in {"READY", "RUNNING"} /\ state'[s] \in {"READY", "RUNNING"}
              \/ s = Idle /\ state'[s] = "RUNNING"
    BY SchedulerMoves
  <2>2. SUFFICES ASSUME NEW s \in Slots, Asleep(s), state'[s] \in {"READY", "RUNNING"}
                 PROVE  st[s] \in {"READY", "RUNNING"}
    BY DEF InTime
  <2>3. s # Idle
    BY <2>2, IdleAwake DEF IdleNeverSleeps
  <2>4. s \notin Entries(tq)
    BY <2>1, <2>2, <2>3
  <2>5. QED BY <2>1, <2>2, <2>3, <2>4
<1>3. LastResort
  BY IdlesLast DEF LastResort
<1>4. QED BY <1>1, <1>2, <1>3

LEMMA SwitchesSleep ==
    ASSUME IInv, SleepInv, NEW start \in Priorities,
           \/ Tick(start) \/ Yield(start) \/ SemBlock(start)
           \/ \E n \in Naps : Sleep(start, n)
           \/ \E s, w \in Slots : Kill(start, s, w)
    PROVE  SleepInv' /\ InTime /\ LastResort
<1>1. /\ Idle \in Slots /\ pid[Idle] = 0 /\ Idle \notin Entries(termQ)
      /\ IdleIs(state[Idle], previous[Idle])
      /\ \A i \in Slots : sleepQ[i].pid < nextPid
      /\ \A s \in Slots \ {Idle} : Agrees(state[s], previous[s], sleepQ, s)
  BY Constants DEF SleepInv, IdleStays, PidsGivenOnce
<1>2. ~IdleQueued => \A l \in Priorities : Idle \notin Entries(readyQ[l])
  BY DEF IdleQueued
<1>3. CASE Tick(start)
  <2>1. PICK woken \in [Priorities -> UNION {InEntryOrder(D) : D \in SUBSET Due}] :
            /\ \A l \in Priorities : woken[l] \in InEntryOrder(ReadyAt(l))
            /\ Scheduler(start, Unslept, [l \in Priorities |-> readyQ[l] \o woken[l]], termQ)
    BY <1>3 DEF Tick
  <2> DEFINE rq == [l \in Priorities |-> readyQ[l] \o woken[l]]
  <2>2. Handed(Unslept, rq, termQ)
    BY <1>3, <2>1, TickKeeps DEF Tick
  <2>3. UNCHANGED <<pid, previous, priority, nextPid>>
    BY <1>3 DEF Tick
  <2>4. ASSUME NEW l \in Priorities, Idle \notin Entries(readyQ[l])
        PROVE  Idle \notin Entries(rq[l])
    <3>1. Idle \notin ReadyAt(l) /\ ReadyAt(l) \in SUBSET Slots
      BY IdleAwake DEF ReadyAt, Due, IsSleeping, IdleNeverSleeps, Asleep
    <3>2. woken[l] \in Seq(Slots) /\ Entries(woken[l]) \subseteq ReadyAt(l)
      <4>1. woken[l] \in InEntryOrder(ReadyAt(l))
        BY <2>1
      <4>2. woken[l] \in Seq(Slots)
        BY <3>1, <4>1, OrderKeeps
      <4>3. woken[l] \in [1 .. Cardinality(ReadyAt(l)) -> ReadyAt(l)]
        BY <4>1 DEF InEntryOrder
      <4>4. DOMAIN woken[l] = 1 .. Len(woken[l])
        BY <4>2
      <4>5. QED BY <4>2, <4>3, <4>4 DEF Entries
    <3>3. readyQ[l] \in Seq(Slots)
      BY DEF IInv, TypeOK
    <3>4. Entries(readyQ[l] \o woken[l]) \subseteq Entries(readyQ[l]) \cup Entries(woken[l])
      BY <3>2, <3>3 DEF Entries
    <3>5. QED BY <2>4, <3>1, <3>2, <3>4
  <2>5. /\ \A i \in Slots : sleepQ'[i].pid < nextPid
        /\ IdleIs(Unslept[Idle], previous[Idle])
        /\ \A s \in Slots \ {Idle} : Agrees(Unslept[s], previous[s], sleepQ', s)
        /\ \A s \in Slots : Asleep(s) /\ Unslept[s] \in {"READY", "RUNNING"}
              => \A i \in Slots : sleepQ[i].pid = pid[s] => sleepQ[i].left <= 1
    BY <1>3, TickAgrees
  <2>6. Scheduler(start, Unslept, rq, termQ)
    BY <2>1
  <2> HIDE DEF rq
  <2>7. QED BY <1>1, <1>2, <2>2, <2>3, <2>4, <2>5, <2>6, SwitchSteps
<1>4. CASE Yield(start)
  <2>1. /\ Handed(state, readyQ, termQ)
        /\ UNCHANGED <<pid, previous, priority, nextPid, sleepQ>>
        /\ Scheduler(start, state, readyQ, termQ)
    BY <1>4 DEF Yield, Handed, IInv, TypeOK, SingleRunner, NoLostReady
  <2>2. \A s \in Slots : Asleep(s) => state[s] \notin {"READY", "RUNNING"}
    BY DEF Asleep
  <2>3. QED BY <1>1, <1>2, <2>1, <2>2, SwitchSteps
<1>5. ASSUME NEW as \in {"BLOCKED", "SLEEPING"}, InSyscall,
             as = "BLOCKED" => sleepQ' = sleepQ,
             as = "SLEEPING" => \E e \in Slots, n \in Nat :
                /\ sleepQ[e].pid = 0
                /\ sleepQ' = [sleepQ EXCEPT ![e] = [pid |-> pid[current], left |-> n]],
             previous' = Remembered(current, as),
             Scheduler(start, Suspended(current, as), readyQ, termQ),
             UNCHANGED <<pid, priority, nextPid>>
      PROVE  SleepInv' /\ InTime /\ LastResort
  <2>1. Handed(Suspended(current, as), readyQ, termQ)
    BY <1>5, SuspendKeeps
  <2>2. /\ \A i \in Slots : sleepQ'[i].pid < nextPid
        /\ IdleIs(Suspended(current, as)[Idle], Remembered(current, as)[Idle])
        /\ \A s \in Slots \ {Idle} : s \notin Entries(termQ)
              => Agrees(Suspended(current, as)[s], Remembered(current, as)[s], sleepQ', s)
    BY <1>5, SuspendAgrees
  <2>3. \A s \in Slots : Asleep(s) => Suspended(current, as)[s] \notin {"READY", "RUNNING"}
    BY DEF Asleep, Suspended, IInv, TypeOK
  <2>4. QED BY <1>1, <1>2, <1>5, <2>1, <2>2, <2>3, SwitchSteps
<1>6. CASE SemBlock(start)
  BY <1>5, <1>6 DEF SemBlock
<1>7. ASSUME NEW n \in Naps, Sleep(start, n)
      PROVE  SleepInv' /\ InTime /\ LastResort
  <2>1. \E e \in Slots, k \in Nat :
            /\ sleepQ[e].pid = 0
            /\ sleepQ' = [sleepQ EXCEPT ![e] = [pid |-> pid[current], left |-> k]]
    BY <1>7, Constants DEF Sleep
  <2>2. QED BY <1>5, <1>7, <2>1 DEF Sleep
<1>8. ASSUME NEW s \in Slots, NEW w \in Slots, Kill(start, s, w)
      PROVE  SleepInv' /\ InTime /\ LastResort
  <2>1. /\ Handed(Woken(Marked(s), w), WokenQueue(Marked(s), w), Append(termQ, s))
        /\ Entries(Append(termQ, s)) = Entries(termQ) \cup {s}
    BY <1>8, KillKeeps DEF Kill, InSyscall
  <2>2. s # Idle /\ w # Idle
    BY <1>1, <1>8 DEF Kill, Waiters
  <2>3. /\ Marked(s) \in [Slots -> States]
        /\ \A r \in Slots : Marked(s)[r] = state[r] \/ Marked(s)[r] = "TERMINATED"
        /\ Marked(s)[Idle] = state[Idle]
    BY <1>1, <2>2 DEF Marked, IInv, TypeOK, States
  <2>4. /\ \A i \in Slots : WokenSleepQ(Marked(s), w)[i].pid < nextPid
        /\ IdleIs(Woken(Marked(s), w)[Idle], previous[Idle])
        /\ \A r \in Slots \ {Idle} :
              Agrees(Woken(Marked(s), w)[r], previous[r], WokenSleepQ(Marked(s), w), r)
        /\ \A r \in Slots : Asleep(r) /\ Woken(Marked(s), w)[r] \in {"READY", "RUNNING"}
              => \A i \in Slots : sleepQ[i].pid = pid[r] => sleepQ[i].left = 0
    BY <2>3, WakeAgrees DEF IInv
  <2>5. \A l \in Priorities : Idle \notin Entries(readyQ[l])
            => Idle \notin Entries(WokenQueue(Marked(s), w)[l])
    <3>1. /\ readyQ \in [Priorities -> Seq(Slots)] /\ priority[w] \in Priorities
          /\ Entries(Append(readyQ[priority[w]], w)) = Entries(readyQ[priority[w]]) \cup {w}
      BY EntriesAppend DEF IInv, TypeOK
    <3>2. QED BY <2>2, <3>1 DEF WokenQueue
  <2>6. /\ Scheduler(start, Woken(Marked(s), w), WokenQueue(Marked(s), w), Append(termQ, s))
        /\ sleepQ' = WokenSleepQ(Marked(s), w)
        /\ UNCHANGED <<pid, previous, priority, nextPid>>
    BY <1>8 DEF Kill
  <2>7. \A r \in Slots : Asleep(r) /\ Woken(Marked(s), w)[r] \in {"READY", "RUNNING"}
            => \A i \in Slots : sleepQ[i].pid = pid[r] => sleepQ[i].left <= 1
    BY <2>4
  <2>8. Idle \notin Entries(Append(termQ, s))
    BY <1>1, <2>1, <2>2
  <2>9. QED BY <1>2, <2>1, <2>4, <2>5, <2>6, <2>7, <2>8, SwitchSteps
<1>9. QED BY <1>3, <1>4, <1>6, <1>7, <1>8

(* The handlers that return to who was running. *)
LEMMA ChangesSleep ==
    ASSUME IInv, SleepInv, Changes
    PROVE  SleepInv' /\ InTime /\ LastResort
<1>1. /\ Idle \in Slots /\ pid[Idle] = 0 /\ Idle \notin Entries(termQ)
      /\ IdleIs(state[Idle], previous[Idle])
      /\ \A i \in Slots : sleepQ[i].pid < nextPid
      /\ \A s \in Slots \ {Idle} : Agrees(state[s], previous[s], sleepQ, s)
  BY Constants DEF SleepInv, IdleStays, PidsGivenOnce
<1>2. /\ state \in [Slots -> States] /\ previous \in [Slots -> States \ {"RUNNING"}]
      /\ pid \in [Slots -> Nat] /\ nextPid \in Nat /\ termQ \in Seq(Slots)
      /\ sleepQ \in [Slots -> [pid : Nat, left : Nat]]
  BY DEF IInv, TypeOK
<1>3. LastResort
  BY DEF Changes, Toggle, Block, Unblock, SemPost, SetPriority, Create, CtrlC, LastResort
<1>4. ASSUME NEW st \in [Slots -> States], NEW w \in Slots,
             \A s \in Slots : st[s] = state[s] \/ st[s] = "TERMINATED",
             st[Idle] = state[Idle],
             state' = Woken(st, w), sleepQ' = WokenSleepQ(st, w),
             UNCHANGED <<pid, previous, nextPid>>,
             Idle \notin Entries(termQ')
      PROVE  SleepInv' /\ InTime
  <2>1. /\ \A i \in Slots : sleepQ'[i].pid < nextPid
        /\ IdleIs(state'[Idle], previous[Idle])
        /\ \A s \in Slots \ {Idle} : Agrees(state'[s], previous[s], sleepQ', s)
        /\ \A s \in Slots : Asleep(s) /\ state'[s] \in {"READY", "RUNNING"}
              => \A i \in Slots : sleepQ[i].pid = pid[s] => sleepQ[i].left = 0
    BY <1>4, WakeAgrees DEF IInv
  <2>2. InTime
    BY <2>1 DEF InTime
  <2>3. PidsGivenOnce'
    BY <1>4, <2>1 DEF SleepInv, PidsGivenOnce
  <2>4. IdleStays'
    BY <1>1, <1>4, <2>1 DEF IdleStays
  <2>5. \A s \in Slots \ {Idle} : Agrees(state[s], previous[s], sleepQ, s)'
    BY <1>4, <2>1 DEF Agrees, NoEntry, OneAtMost
  <2>6. QED BY <2>2, <2>3, <2>4, <2>5 DEF SleepInv
<1>5. ASSUME NEW s \in Slots, Block(s)
      PROVE  SleepInv' /\ InTime
  <2>1. /\ state' = [state EXCEPT ![s] = "BLOCKED"]
        /\ previous' = [previous EXCEPT ![s] = Resumable(state[s])]
        /\ state[s] \notin {"TERMINATED", "BLOCKED"}
        /\ UNCHANGED <<pid, termQ, nextPid, sleepQ>>
    BY <1>5 DEF Block, Suspended, Remembered
  <2>2. Resumable(state[s]) = IF state[s] = "SLEEPING" THEN "SLEEPING" ELSE "READY"
    BY <1>2, <2>1 DEF Resumable, States
  <2>3. InTime
    BY <1>2, <2>1 DEF InTime, Asleep
  <2>4. PidsGivenOnce'
    BY <2>1 DEF SleepInv, PidsGivenOnce
  <2>5. IdleStays'
    BY <1>1, <1>2, <2>1, <2>2 DEF IdleStays, IdleIs
  <2>6. ASSUME NEW r \in Slots \ {Idle}
        PROVE  Agrees(state[r], previous[r], sleepQ, r)'
    <3>1. Agrees(state[r], previous[r], sleepQ, r)
      BY <1>1
    <3>2. CASE r = s
      <4>1. state'[r] = "BLOCKED" /\ previous'[r] = Resumable(state[s])
        BY <1>2, <2>1, <3>2
      <4>2. pid[r] # 0
        BY <2>1, <3>1, <3>2 DEF Agrees
      <4>3. CASE state[s] = "SLEEPING"
        <5>1. OneAtMost(sleepQ, r)
          BY <3>1, <3>2, <4>3 DEF Agrees
        <5>2. QED BY <2>1, <2>2, <4>1, <4>2, <4>3, <5>1 DEF Agrees, NoEntry, OneAtMost
      <4>4. CASE state[s] # "SLEEPING"
        <5>1. state[s] \in {"READY", "RUNNING"}
          BY <1>2, <2>1, <4>4 DEF States
        <5>2. NoEntry(sleepQ, r)
          BY <3>1, <3>2, <5>1 DEF Agrees
        <5>3. QED BY <2>1, <2>2, <4>1, <4>2, <4>4, <5>2 DEF Agrees, NoEntry, OneAtMost
      <4>5. QED BY <4>3, <4>4
    <3>3. CASE r # s
      <4>1. state'[r] = state[r] /\ previous'[r] = previous[r]
        BY <1>2, <2>1, <3>3
      <4>2. QED BY <2>1, <3>1, <4>1 DEF Agrees, NoEntry, OneAtMost
    <3>4. QED BY <3>2, <3>3
  <2>7. QED BY <2>3, <2>4, <2>5, <2>6 DEF SleepInv
<1>6. ASSUME NEW s \in Slots, Unblock(s) \/ SemPost(s)
      PROVE  SleepInv' /\ InTime
  <2>1. /\ state' = Woken(state, s) /\ sleepQ' = WokenSleepQ(state, s)
        /\ UNCHANGED <<pid, previous, nextPid, termQ>>
    BY <1>6 DEF Unblock, SemPost
  <2>2. QED BY <1>1, <1>2, <1>4, <2>1
<1>7. ASSUME NEW s \in Slots, NEW l \in Priorities, SetPriority(s, l)
      PROVE  SleepInv' /\ InTime
  <2>1. UNCHANGED <<pid, state, previous, termQ, nextPid, sleepQ>>
    BY <1>7 DEF SetPriority
  <2>2. InTime
    BY <2>1 DEF InTime, Asleep
  <2>3. SleepInv'
    BY <2>1 DEF SleepInv, PidsGivenOnce, IdleStays, Agrees, NoEntry, OneAtMost
  <2>4. QED BY <2>2, <2>3
<1>8. ASSUME NEW outcome \in Outcomes, Create(outcome)
      PROVE  SleepInv' /\ InTime
  <2>1. PICK s \in Slots \ {Idle} :
          /\ state[s] = "TERMINATED"
          /\ pid' = [pid EXCEPT ![s] = nextPid]
          /\ state' = [state EXCEPT ![s] = "READY"]
          /\ previous' = [previous EXCEPT ![s] = "TERMINATED"]
    BY <1>8 DEF Create
  <2>2. nextPid' = nextPid + 1 /\ UNCHANGED <<termQ, sleepQ>>
    BY <1>8 DEF Create
  <2>3. /\ pid'[s] = nextPid /\ state'[s] = "READY"
        /\ \A r \in Slots : r # s => /\ pid'[r] = pid[r]
                                     /\ state'[r] = state[r]
                                     /\ previous'[r] = previous[r]
    BY <1>2, <2>1
  <2>4. InTime
    BY <2>1, <2>3 DEF InTime, Asleep
  <2>5. PidsGivenOnce'
    <3>1. /\ nextPid > 0
          /\ \A r \in Slots : pid[r] < nextPid
          /\ \A q, r \in Slots : pid[q] = pid[r] /\ pid[q] # 0 => q = r
      BY DEF SleepInv, PidsGivenOnce
    <3>2. /\ nextPid \in Nat /\ nextPid' = nextPid + 1
          /\ \A r \in Slots : pid[r] \in Nat
      BY <1>2, <2>2
    <3>3. \A r \in Slots : pid'[r] = nextPid \/ pid'[r] = pid[r]
      BY <2>3
    <3>4. \A r \in Slots : pid'[r] < nextPid'
      BY <3>1, <3>2, <3>3
    <3>5. \A i \in Slots : sleepQ[i].pid < nextPid'
      BY <1>1, <1>2, <2>2
    <3>6. ASSUME NEW q \in Slots, NEW r \in Slots, pid'[q] = pid'[r], pid'[q] # 0
          PROVE  q = r
      <4>1. pid[q] < nextPid /\ pid[r] < nextPid /\ pid[q] \in Nat /\ pid[r] \in Nat
        BY <3>1, <3>2
      <4>2. q # s /\ r # s => pid[q] = pid[r] /\ pid[q] # 0
        BY <2>3, <3>6
      <4>3. q = s => r = s
        BY <2>3, <3>2, <3>6, <4>1
      <4>4. r = s => q = s
        BY <2>3, <3>2, <3>6, <4>1
      <4>5. QED BY <3>1, <4>2, <4>3, <4>4
    <3>7. QED BY <2>2, <3>1, <3>2, <3>4, <3>5, <3>6 DEF PidsGivenOnce
  <2>6. IdleStays'
    BY <1>1, <2>2, <2>3 DEF IdleStays
  <2>7. ASSUME NEW r \in Slots \ {Idle}
        PROVE  Agrees(state[r], previous[r], sleepQ, r)'
    <3>1. CASE r = s
      <4>1. nextPid # 0 /\ \A i \in Slots : sleepQ'[i].pid # nextPid
        BY <1>1, <1>2, <2>2 DEF SleepInv, PidsGivenOnce
      <4>2. QED BY <2>3, <3>1, <4>1 DEF Agrees, NoEntry, OneAtMost
    <3>2. CASE r # s
      <4>1. Agrees(state[r], previous[r], sleepQ, r)
        BY <1>1
      <4>2. QED BY <2>2, <2>3, <3>2, <4>1 DEF Agrees, NoEntry, OneAtMost
    <3>3. QED BY <3>1, <3>2
  <2>8. QED BY <2>4, <2>5, <2>6, <2>7 DEF SleepInv
<1>9. ASSUME NEW s \in Slots, NEW w \in Slots, CtrlC(s, w)
      PROVE  SleepInv' /\ InTime
  <2>1. /\ state' = Woken(Marked(s), w) /\ sleepQ' = WokenSleepQ(Marked(s), w)
        /\ UNCHANGED <<pid, previous, nextPid>>
        /\ termQ' = Append(termQ, s) /\ s # Idle
    BY <1>1, <1>9 DEF CtrlC
  <2>2. /\ Marked(s) \in [Slots -> States]
        /\ \A r \in Slots : Marked(s)[r] = state[r] \/ Marked(s)[r] = "TERMINATED"
        /\ Marked(s)[Idle] = state[Idle]
    BY <1>1, <1>2, <2>1 DEF Marked, States
  <2>3. Idle \notin Entries(termQ')
    BY <1>1, <1>2, <2>1, EntriesAppend
  <2>4. QED BY <1>4, <2>1, <2>2, <2>3
<1>10. QED BY <1>3, <1>5, <1>6, <1>7, <1>8, <1>9 DEF Changes, Toggle

-----------------------------------------------------------------------------
(* The invariant, and what each step keeps. *)

LEMMA SleepInitially == Init => SleepInv
<1> SUFFICES ASSUME Init PROVE SleepInv
  OBVIOUS
<1> USE DEF Init
<1>1. Idle \in Slots /\ Shell \in Slots /\ Shell # Idle
  BY Constants DEF Shell, Idle
<1>2. PidsGivenOnce
  BY <1>1 DEF PidsGivenOnce, Free
<1>3. IdleStays
  BY <1>1 DEF IdleStays, IdleIs, Entries
<1>4. \A s \in Slots \ {Idle} : Agrees(state[s], previous[s], sleepQ, s)
  BY <1>1 DEF Agrees, NoEntry, OneAtMost, Free
<1>5. QED BY <1>2, <1>3, <1>4 DEF SleepInv

LEMMA SleepSteps ==
    IInv /\ SleepInv /\ [Next]_vars => SleepInv' /\ [InTime /\ LastResort]_vars
<1> SUFFICES ASSUME IInv, SleepInv, [Next]_vars
             PROVE  SleepInv' /\ [InTime /\ LastResort]_vars
  OBVIOUS
<1>1. ASSUME Ticks \/ Switches
      PROVE  SleepInv' /\ InTime /\ LastResort
  BY <1>1, SwitchesSleep DEF Ticks, Switches
<1>2. CASE Changes
  BY <1>2, ChangesSleep
<1>3. CASE UNCHANGED vars
  BY <1>3 DEF vars, SleepInv, PidsGivenOnce, IdleStays, Agrees, NoEntry, OneAtMost
<1>4. QED BY <1>1, <1>2, <1>3 DEF Next, Halted

(* sleep_queue and the process table agree: a process that went to sleep by
   itself has one entry, and one that is awake has none, whatever blocks,
   unblocks, kills and reuses of slots came between. *)
THEOREM SleepersListed == Spec => []SleepEntries
<1>1. SleepInv => SleepEntries
  <2> SUFFICES ASSUME SleepInv, NEW s \in Slots \ {Idle}
               PROVE  LET mine == {i \in Slots : sleepQ[i].pid = pid[s]}
                      IN  /\ state[s] = "SLEEPING" /\ previous[s] = "READY" => Cardinality(mine) = 1
                          /\ state[s] \in {"READY", "RUNNING"} => mine = {}
    BY DEF SleepEntries
  <2> DEFINE mine == {i \in Slots : sleepQ[i].pid = pid[s]}
  <2>1. Agrees(state[s], previous[s], sleepQ, s)
    BY DEF SleepInv
  <2>2. state[s] \in {"READY", "RUNNING"} => mine = {}
    BY <2>1 DEF Agrees, NoEntry
  <2>3. ASSUME state[s] = "SLEEPING", previous[s] = "READY"
        PROVE  Cardinality(mine) = 1
    <3>1. PICK i \in Slots : sleepQ[i].pid = pid[s]
      BY <2>1, <2>3 DEF Agrees, NoEntry
    <3>2. mine = {i}
      BY <2>1, <2>3, <3>1 DEF Agrees, OneAtMost
    <3>3. QED BY <3>2, FS_Singleton
  <2>4. QED BY <2>2, <2>3
<1>2. QED BY <1>1, Initially, Inductive, SleepInitially, SleepSteps, PTL DEF Spec

(* Nobody is taken out of its sleep before its time, not even by being blocked
   and unblocked, or when another process has the slot of a dead sleeper. *)
THEOREM NoneWokenEarly == Spec => NoEarlyWake
<1>1. [InTime /\ LastResort]_vars =>
        [\A s \in Slots : Asleep(s) /\ pid'[s] = pid[s] /\ state'[s] \in {"READY", "RUNNING"}
           => \A i \in Slots : sleepQ[i].pid = pid[s] => sleepQ[i].left <= 1]_vars
  BY DEF InTime
<1>2. QED BY <1>1, Initially, Inductive, SleepInitially, SleepSteps, PTL DEF Spec, NoEarlyWake

(* The processor is given to the idle process only when no process that could
   run is READY, unless a user program has put the idle process in a queue. *)
THEOREM IdlesOnlyAlone == Spec => IdleIsLastResort
<1>1. [InTime /\ LastResort]_vars =>
        [current # Idle /\ current' = Idle /\ ~IdleQueued
           => \A s \in Slots \ {Idle} : ~Startable(s)']_vars
  BY DEF LastResort
<1>2. QED BY <1>1, Initially, Inductive, SleepInitially, SleepSteps, PTL DEF Spec, IdleIsLastResort

-----------------------------------------------------------------------------
(* Who is not dead has a frame, when create_process never fails. *)
FrameInv == \A s \in Slots : state[s] # "TERMINATED" => stack[s] = "frame"

LEMMA SwitchFrames ==
    ASSUME TypeOK, SleepInv, FrameInv, NEW start \in Priorities, NEW st, NEW rq, NEW tq,
           Handed(st, rq, tq), Scheduler(start, st, rq, tq), Idle \notin Entries(tq),
           \A s \in Slots : st[s] # "TERMINATED" => state[s] # "TERMINATED"
    PROVE  FrameInv'
<1>1. /\ \A s \in Slots \ {Idle} : s \in Entries(tq) => state'[s] = "TERMINATED"
      /\ \A s \in Slots \ Entries(tq) :
            \/ state'[s] = st[s]
            \/ st[s] \in {"READY", "RUNNING"} /\ state'[s] \in {"READY", "RUNNING"}
            \/ s = Idle /\ state'[s] = "RUNNING"
  BY SchedulerMoves
<1>2. \A s \in Slots \ Entries(tq) : stack'[s] = "frame" \/ stack'[s] = stack[s]
  BY DEF Scheduler, Saved
<1>3. state[Idle] # "TERMINATED"
  BY DEF SleepInv, IdleStays, IdleIs
<1>4. SUFFICES ASSUME NEW s \in Slots, state'[s] # "TERMINATED"
               PROVE  stack'[s] = "frame"
  BY DEF FrameInv
<1>5. s \notin Entries(tq)
  BY <1>1, <1>4
<1>6. state[s] # "TERMINATED"
  BY <1>1, <1>3, <1>4, <1>5
<1>7. QED BY <1>2, <1>5, <1>6 DEF FrameInv

LEMMA FrameSteps ==
    ASSUME Outcomes \subseteq {"ok"}
    PROVE  IInv /\ SleepInv /\ FrameInv /\ [Next]_vars => FrameInv'
<1> SUFFICES ASSUME IInv, SleepInv, FrameInv, [Next]_vars
             PROVE  FrameInv'
  OBVIOUS
<1>1. /\ state \in [Slots -> States] /\ stack \in [Slots -> {"none", "raw", "frame"}]
      /\ termQ \in Seq(Slots) /\ Idle \in Slots
      /\ pid[Idle] = 0 /\ Idle \notin Entries(termQ)
  BY Constants DEF IInv, TypeOK, SleepInv, IdleStays
<1>2. ASSUME NEW start \in Priorities, NEW st, NEW rq, NEW tq,
             Handed(st, rq, tq), Scheduler(start, st, rq, tq), Idle \notin Entries(tq),
             \A s \in Slots : st[s] # "TERMINATED" => state[s] # "TERMINATED"
      PROVE  FrameInv'
  BY <1>2, SwitchFrames DEF IInv
<1>3. ASSUME NEW s \in Slots, NEW w \in Slots
      PROVE  \A r \in Slots : Woken(Marked(s), w)[r] # "TERMINATED" => state[r] # "TERMINATED"
  BY <1>1 DEF Woken, Marked
<1>4. ASSUME NEW start \in Priorities, Tick(start)
      PROVE  FrameInv'
  <2>1. PICK woken \in [Priorities -> UNION {InEntryOrder(D) : D \in SUBSET Due}] :
            /\ \A l \in Priorities : woken[l] \in InEntryOrder(ReadyAt(l))
            /\ Scheduler(start, Unslept, [l \in Priorities |-> readyQ[l] \o woken[l]], termQ)
    BY <1>4 DEF Tick
  <2>2. Handed(Unslept, [l \in Priorities |-> readyQ[l] \o woken[l]], termQ)
    BY <1>4, <2>1, TickKeeps DEF Tick
  <2>3. \A s \in Slots : Unslept[s] # "TERMINATED" => state[s] # "TERMINATED"
    BY DEF Unslept, Due, IsSleeping
  <2>4. QED BY <1>1, <1>2, <2>1, <2>2, <2>3
<1>5. ASSUME NEW start \in Priorities, Yield(start)
      PROVE  FrameInv'
  <2>1. Handed(state, readyQ, termQ) /\ Scheduler(start, state, readyQ, termQ)
    BY <1>5 DEF Yield, Handed, IInv, TypeOK, SingleRunner, NoLostReady
  <2>2. QED BY <1>1, <1>2, <2>1
<1>6. ASSUME NEW start \in Priorities, NEW as \in {"BLOCKED", "SLEEPING"}, InSyscall,
             Scheduler(start, Suspended(current, as), readyQ, termQ)
      PROVE  FrameInv'
  <2>1. Handed(Suspended(current, as), readyQ, termQ)
    BY <1>6, SuspendKeeps
  <2>2. \A s \in Slots : Suspended(current, as)[s] # "TERMINATED" => state[s] # "TERMINATED"
    BY <1>1 DEF Suspended
  <2>3. QED BY <1>1, <1>2, <1>6, <2>1, <2>2
<1>7. ASSUME NEW start \in Priorities, NEW s \in Slots, NEW w \in Slots, Kill(start, s, w)
      PROVE  FrameInv'
  <2>1. /\ Handed(Woken(Marked(s), w), WokenQueue(Marked(s), w), Append(termQ, s))
        /\ Entries(Append(termQ, s)) = Entries(termQ) \cup {s}
    BY <1>7, KillKeeps DEF Kill, InSyscall
  <2>2. /\ Scheduler(start, Woken(Marked(s), w), WokenQueue(Marked(s), w), Append(termQ, s))
        /\ Idle \notin Entries(Append(termQ, s))
    BY <1>1, <1>7, <2>1 DEF Kill
  <2>3. QED BY <1>2, <1>3, <2>1, <2>2
<1>8. CASE Ticks \/ Switches
  BY <1>4, <1>5, <1>6, <1>7, <1>8 DEF Ticks, Switches, SemBlock, Sleep
<1>9. CASE Changes
  <2>1. ASSUME NEW s \in Slots, Block(s)
        PROVE  FrameInv'
    BY <1>1, <2>1 DEF Block, Suspended, FrameInv
  <2>2. ASSUME NEW s \in Slots, Unblock(s) \/ SemPost(s)
        PROVE  FrameInv'
    BY <1>1, <2>2 DEF Unblock, SemPost, Woken, FrameInv
  <2>3. ASSUME NEW s \in Slots, NEW l \in Priorities, SetPriority(s, l)
        PROVE  FrameInv'
    BY <2>3 DEF SetPriority, FrameInv
  <2>4. ASSUME NEW outcome \in Outcomes, Create(outcome)
        PROVE  FrameInv'
    <3>1. outcome = "ok"
      OBVIOUS
    <3>2. PICK s \in Slots \ {Idle} :
            /\ state' = [state EXCEPT ![s] = "READY"]
            /\ stack' = [stack EXCEPT ![s] = StackOf(outcome)]
      BY <2>4 DEF Create
    <3>3. StackOf(outcome) = "frame"
      BY <3>1 DEF StackOf
    <3>4. QED BY <1>1, <3>2, <3>3 DEF FrameInv
  <2>5. ASSUME NEW s \in Slots, NEW w \in Slots, CtrlC(s, w)
        PROVE  FrameInv'
    BY <1>3, <2>5 DEF CtrlC, FrameInv
  <2>6. QED BY <1>9, <2>1, <2>2, <2>3, <2>4, <2>5 DEF Changes, Toggle
<1>10. CASE UNCHANGED vars
  BY <1>10 DEF vars, FrameInv
<1>11. QED BY <1>8, <1>9, <1>10 DEF Next, Halted

(* When every creation succeeds, the processor is only given to processes that
   scheduler() can resume: the frame it pops is one that it, or create_process,
   has made, also for a slot that was killed and used again. *)
THEOREM FramesForAll == (Outcomes \subseteq {"ok"}) => (Spec => []RunsOnItsFrame)
<1> SUFFICES ASSUME Outcomes \subseteq {"ok"}
             PROVE  Spec => []RunsOnItsFrame
  OBVIOUS
<1>1. Init => FrameInv
  BY DEF Init, FrameInv
<1>2. IInv /\ SleepInv /\ FrameInv /\ [Next]_vars => FrameInv'
  BY FrameSteps
<1>3. IInv /\ FrameInv => RunsOnItsFrame
  BY DEF FrameInv, RunsOnItsFrame
<1>4. QED BY <1>1, <1>2, <1>3, Initially, Inductive, SleepInitially, SleepSteps, PTL DEF Spec
=============================================================================
