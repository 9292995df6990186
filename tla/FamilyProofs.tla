---------------------------- MODULE FamilyProofs ----------------------------
(***************************************************************************)
(* For any number of slots, children, semaphores and pids: the types, the  *)
(* foreground as a stack, and wait_process, which sleeps for nobody that   *)
(* has ended and returns with the end of its process.                      *)
(*                                                                         *)
(* Inv is inductive.  Numbers and SemsAreHeld hold of every state;         *)
(* TokenIsPassedDown and WaitsInOrder as long as nothing has happened that *)
(* upsets the foreground or the waits.                                     *)
(***************************************************************************)
EXTENDS Family, FiniteSetTheorems, WellFoundedInduction, TLAPS

(* A set of natural numbers has a least one. *)
LEMMA Least ==
    ASSUME NEW S \in SUBSET Nat, S # {}
    PROVE  \E m \in S : \A r \in S : m <= r
<1> DEFINE Upto(n) == S \cap 0 .. n
           T == {Upto(n) : n \in S}
<1>1. T \subseteq FiniteSubsetsOf(S) /\ T # {}
  <2>1. \A n \in S : IsFiniteSet(Upto(n))
    <3> TAKE n \in S
    <3>1. IsFiniteSet(0 .. n)
      BY FS_Interval
    <3>2. QED BY <3>1, FS_Subset
  <2>2. QED BY <2>1 DEF FiniteSubsetsOf
<1>2. PICK x \in T : \A y \in T : ~ (<<y, x>> \in StrictSubsetOrdering(S))
  <2>1. IsWellFoundedOn(StrictSubsetOrdering(S), FiniteSubsetsOf(S))
    BY FS_StrictSubsetOrderingWellFounded
  <2> HIDE DEF T
  <2>2. QED BY <1>1, <2>1, WFMin
<1>3. PICK m \in S : x = Upto(m)
  BY DEF T
<1>4. ASSUME NEW r \in S, r < m PROVE FALSE
  <2>1. Upto(r) \in T /\ Upto(r) \subseteq S /\ x \subseteq S
    BY <1>3
  <2>2. Upto(r) \subseteq x /\ Upto(r) # x
    <3>1. m \in x /\ m \notin Upto(r)
      BY <1>3, <1>4
    <3>2. Upto(r) \subseteq x
      BY <1>3, <1>4
    <3>3. QED BY <3>1, <3>2
  <2>3. <<Upto(r), x>> \in StrictSubsetOrdering(S)
    BY <2>1, <2>2, Zenon DEF StrictSubsetOrdering
  <2>4. QED BY <1>2, <2>1, <2>3
<1>5. QED BY <1>4

LEMMA Known ==
    /\ Idle \in Slots /\ Shell \in Slots /\ 0 \in Pids /\ 1 \in Pids
    /\ MaxChildren \in Nat /\ 0 \in 0 .. UnitBound
    /\ PidBound \in Nat /\ PidBound >= 2 /\ UnitBound \in Nat
    /\ Slots \subseteq Nat /\ Sems \subseteq Nat /\ Pids \subseteq Nat
    /\ \A p : p \in Pids <=> p \in Nat /\ p < PidBound
    /\ NoSem \notin Sems
BY FamilyOK DEF FamilyOK, Slots, Sems, Pids, Idle, Shell, NoSem

(* The semaphore and the slot that are taken are free ones. *)
FreeSem == CHOOSE k \in FreeSems : \A r \in FreeSems : k <= r

LEMMA TakesFreeSem ==
    ASSUME FreeSems # {}
    PROVE  FreeSem \in Sems /\ units[FreeSem] = Closed
<1>1. FreeSems \in SUBSET Nat
  BY Known DEF FreeSems
<1>2. FreeSem \in FreeSems
  BY <1>1, Least DEF FreeSem
<1>3. QED BY <1>2 DEF FreeSems

LEMMA TakesFreeSlot ==
    ASSUME FreeSlots # {}
    PROVE  NewSlot \in Slots /\ NewSlot # Idle /\ state[NewSlot] = "TERMINATED"
<1>1. FreeSlots \in SUBSET Nat
  BY Known DEF FreeSlots
<1>2. NewSlot \in FreeSlots
  BY <1>1, Least DEF NewSlot
<1>3. QED BY <1>2 DEF FreeSlots

States == {"READY", "BLOCKED", "TERMINATED", "UNQUEUED"}
Calls  == [slot : Slots, sem : Sems \cup {NoSem}, pid : Pids]

LEMMA TablesOfStates ==
    ASSUME NEW st \in [Slots -> States]
    PROVE  /\ \A s \in Slots : Stopped(st, s) \in [Slots -> States]
           /\ \A pids : Awake(st, pids) \in [Slots -> States]
           /\ Reaped(st) \in [Slots -> States]
BY DEF States, Stopped, Awake, Reaped

LEMMA BlocksKeepsType ==
    ASSUME TypeOK, FreeSems # {},
           NEW s \in Slots, NEW i \in Slots, NEW p \in Pids,
           NEW st \in [Slots -> States], NEW sems \in [Slots -> Sems \cup {NoSem}],
           NEW calls \in [Slots -> Calls], Blocks(s, i, p, st, sems, calls)
    PROVE  /\ units' \in [Sems -> {Closed} \cup 0 .. UnitBound]
           /\ ring' \in [Sems -> Seq(Pids)]
           /\ semOf' \in [Slots -> Sems \cup {NoSem}]
           /\ state' \in [Slots -> States]
           /\ call' \in [Slots -> Calls]
           /\ running' \in Slots /\ dead' \subseteq Slots
<1>1. FreeSem \in Sems /\ 0 \in 0 .. UnitBound
  BY TakesFreeSem, Known
<1>2. /\ units' = [units EXCEPT ![FreeSem] = 0]
      /\ ring' = [ring EXCEPT ![FreeSem] = <<pid[s]>>]
      /\ semOf' = [sems EXCEPT ![i] = FreeSem]
      /\ state' = Reaped(Stopped(st, s))
      /\ call' = [calls EXCEPT ![s] = [slot |-> i, sem |-> FreeSem, pid |-> p]]
      /\ running' = Idle /\ dead' = {}
  BY DEF Blocks, FreeSem, SwitchedAway
<1>3. state' \in [Slots -> States]
  BY <1>2, TablesOfStates
<1>4. [slot |-> i, sem |-> FreeSem, pid |-> p] \in Calls
  BY <1>1 DEF Calls
<1>5. <<pid[s]>> \in Seq(Pids)
  BY DEF TypeOK
<1>6. QED BY <1>1, <1>2, <1>3, <1>4, <1>5, Known DEF TypeOK

LEMMA TypeInit == Init => TypeOK
<1> SUFFICES ASSUME Init PROVE TypeOK
  OBVIOUS
<1>1. Idle \in Slots /\ Shell \in Slots /\ 0 \in Pids /\ 1 \in Pids
  BY Known
<1>2. nextPid \in 2 .. PidBound
  BY Known DEF Init
<1>3. NoCall \in [slot : Slots, sem : Sems \cup {NoSem}, pid : Pids]
  BY <1>1 DEF NoCall
<1>4. children \in [Slots -> Seq(Slots)] /\ stack \in Seq(Pids) /\ ring \in [Sems -> Seq(Pids)]
  BY <1>1 DEF Init
<1>5. QED BY <1>1, <1>2, <1>3, <1>4 DEF Init, TypeOK

LEMMA OrphansAreSlots ==
    ASSUME TypeOK, NEW i \in Slots
    PROVE  Orphans(i) \in Seq(Slots)
<1>0. children[i] \in Seq(Slots) /\ children[Idle] \in Seq(Slots)
  BY Known DEF TypeOK
<1>1. /\ children[i] \in Seq(Slots) /\ Len(children[i]) \in Nat
      /\ Len(children[Idle]) \in Nat /\ MaxChildren \in Nat
  BY <1>0, Known
<1> DEFINE room == MaxChildren - Len(children[Idle])
           n == IF Len(children[i]) < room THEN Len(children[i]) ELSE room
<1>2. n \in Int /\ n <= Len(children[i])
  BY <1>1
<1>3. SubSeq(children[i], 1, n) \in Seq(Slots)
  BY <1>1, <1>2
<1>4. QED BY <1>3 DEF Orphans

LEMMA EndsKeepsType ==
    ASSUME TypeOK, NEW i \in Slots, NEW exit \in {Unset, 0}, Ends(i, exit)
    PROVE  /\ pid' \in [Slots -> Pids] /\ nextPid' \in 2 .. PidBound /\ foreground' \in Pids
           /\ father' \in [Slots -> Slots] /\ children' \in [Slots -> Seq(Slots)]
           /\ status' \in [Slots -> {Unset, 0}] /\ answer' \in [Slots -> {Unset, 0}]
           /\ semOf' \in [Slots -> Sems \cup {NoSem}] /\ flag' \in [Slots -> BOOLEAN]
           /\ units' \in [Sems -> {Closed} \cup 0 .. UnitBound] /\ ring' \in [Sems -> Seq(Pids)]
           /\ call' \in [Slots -> Calls]
           /\ stack' \in Seq(Pids) /\ tokenCalm' \in BOOLEAN /\ waitCalm' \in BOOLEAN
           /\ ended' \in [Pids -> {Alive, Unset, 0}]
           /\ Without(i) \in [Slots -> States]
<1>1. Idle \in Slots
  BY Known
<1>2. father' \in [Slots -> Slots]
  BY <1>1 DEF TypeOK, Ends, Adopted
<1>3. children' \in [Slots -> Seq(Slots)]
  <2>1. children[Idle] \o Orphans(i) \in Seq(Slots)
    BY <1>1, OrphansAreSlots DEF TypeOK
  <2>2. QED BY <2>1 DEF TypeOK, Ends
<1>4. units' \in [Sems -> {Closed} \cup 0 .. UnitBound]
  <2>1. ASSUME NEW k \in PostedTo(i), k \in Sems
        PROVE  units[k] + 1 \in 0 .. UnitBound
    <3>1. units[k] # Closed /\ units[k] < UnitBound
      BY <2>1 DEF Ends, PostedTo
    <3>2. units[k] \in {Closed} \cup 0 .. UnitBound /\ UnitBound \in Nat
      BY <2>1, Known DEF TypeOK
    <3>3. QED BY <3>1, <3>2
  <2>2. units' = [k \in Sems |-> IF k \in PostedTo(i) THEN units[k] + 1 ELSE units[k]]
    BY DEF Ends
  <2>3. QED BY <2>1, <2>2 DEF TypeOK
<1>5. ring' \in [Sems -> Seq(Pids)]
  <2>1. \A k \in Sems : ring[k] \in Seq(Pids) /\ (ring[k] # <<>> => Tail(ring[k]) \in Seq(Pids))
    BY DEF TypeOK
  <2>2. ring' = [k \in Sems |-> IF k \in PostedTo(i) /\ ring[k] # <<>>
                                THEN Tail(ring[k]) ELSE ring[k]]
    BY DEF Ends
  <2>3. QED BY <2>1, <2>2
<1>6. flag' \in [Slots -> BOOLEAN]
  <2>1. father[i] \in Slots /\ flag \in [Slots -> BOOLEAN] /\ flag' = GivesBack(i)
    BY DEF TypeOK, Ends
  <2>2. QED BY <2>1, Zenon DEF GivesBack
<1>7. stack' \in Seq(Pids)
  <2>1. stack \in Seq(Pids)
    BY DEF TypeOK
  <2>2. stack # <<>> => Front(stack) \in Seq(Pids)
    BY <2>1 DEF Front
  <2>3. QED BY <2>1, <2>2 DEF Ends
<1>8. tokenCalm' \in BOOLEAN /\ waitCalm' \in BOOLEAN
  BY DEF Ends, TypeOK
<1>9. status' \in [Slots -> {Unset, 0}] /\ ended' \in [Pids -> {Alive, Unset, 0}]
  BY DEF Ends, TypeOK
<1>10. foreground' \in Pids
  BY DEF Ends, TypeOK
<1>11. Without(i) \in [Slots -> States]
  <2>1. [state EXCEPT ![i] = "TERMINATED"] \in [Slots -> States]
    BY DEF TypeOK, States
  <2>2. QED BY <2>1, TablesOfStates DEF Without
<1>12. pid' = pid /\ semOf' = semOf /\ nextPid' = nextPid /\ call' = call /\ answer' = answer
  BY DEF Ends
<1>13. QED
  BY <1>2, <1>3, <1>4, <1>5, <1>6, <1>7, <1>8, <1>9, <1>10, <1>11, <1>12 DEF TypeOK, Calls

(* Create, without its LET. *)
Foremost(s, asked) == asked /\ flag[s]
Fits(s, memory)    == memory /\ Len(children[s]) < MaxChildren
WithNew(s, memory) == [state EXCEPT ![NewSlot] = IF Fits(s, memory) THEN "READY" ELSE "UNQUEUED"]

LEMMA CreateSteps ==
    ASSUME NEW s \in Slots, NEW asked \in BOOLEAN, NEW memory \in BOOLEAN,
           Create(s, asked, memory)
    PROVE  LET i     == NewSlot
               st    == WithNew(s, memory)
               sems  == [semOf EXCEPT ![i] = NoSem]
               calls == [call EXCEPT ![i] = NoCall]
               front == Foremost(s, asked)
           IN
           /\ running = s /\ s # Idle /\ nextPid < PidBound /\ i # s
           /\ i \in Slots /\ i # Idle /\ state[i] = "TERMINATED"
           /\ pid' = [pid EXCEPT ![i] = nextPid] /\ nextPid' = nextPid + 1
           /\ father' = [father EXCEPT ![i] = s]
           /\ children' = [children EXCEPT ![i] = <<>>, ![s] = IF Fits(s, memory) THEN Append(@, i) ELSE @]
           /\ status' = [status EXCEPT ![i] = Unset]
           /\ answer' = [answer EXCEPT ![i] = Unset]
           /\ flag' = [HandsOver(s, front) EXCEPT ![i] = front]
           /\ foreground' = IF front THEN nextPid ELSE foreground
           /\ stack' = IF front THEN Append(stack, nextPid) ELSE stack
           /\ CreationDisturbs(s, i, front, Fits(s, memory))
           /\ ended' = ended
           /\ \/ FreeSems # {} /\ Fits(s, memory) /\ Blocks(s, i, nextPid, st, sems, calls)
              \/ /\ state' = st /\ semOf' = sems /\ call' = calls
                 /\ units' = units /\ ring' = ring /\ running' = running /\ dead' = dead
<1>1. NewSlot \in Slots /\ NewSlot # Idle /\ state[NewSlot] = "TERMINATED"
  BY TakesFreeSlot DEF Create
<1>2. QED
  BY <1>1, Zenon DEF Create, Foremost, Fits, WithNew

LEMMA CreateKeepsType ==
    ASSUME TypeOK, NEW s \in Slots, NEW asked \in BOOLEAN, NEW memory \in BOOLEAN,
           Create(s, asked, memory)
    PROVE  TypeOK'
<1> DEFINE i     == NewSlot
           st    == WithNew(s, memory)
           sems  == [semOf EXCEPT ![i] = NoSem]
           calls == [call EXCEPT ![i] = NoCall]
           front == Foremost(s, asked)
<1>1. /\ nextPid < PidBound /\ i \in Slots
      /\ pid' = [pid EXCEPT ![i] = nextPid] /\ nextPid' = nextPid + 1
      /\ father' = [father EXCEPT ![i] = s]
      /\ children' = [children EXCEPT ![i] = <<>>, ![s] = IF Fits(s, memory) THEN Append(@, i) ELSE @]
      /\ status' = [status EXCEPT ![i] = Unset]
      /\ answer' = [answer EXCEPT ![i] = Unset]
      /\ flag' = [HandsOver(s, front) EXCEPT ![i] = front]
      /\ foreground' = IF front THEN nextPid ELSE foreground
      /\ stack' = IF front THEN Append(stack, nextPid) ELSE stack
      /\ CreationDisturbs(s, i, front, Fits(s, memory))
      /\ ended' = ended
      /\ \/ FreeSems # {} /\ Fits(s, memory) /\ Blocks(s, i, nextPid, st, sems, calls)
         \/ /\ state' = st /\ semOf' = sems /\ call' = calls
            /\ units' = units /\ ring' = ring /\ running' = running /\ dead' = dead
  BY CreateSteps
<1> HIDE DEF i
<1>2. nextPid \in Pids /\ nextPid' \in 2 .. PidBound
  <2>1. nextPid \in 2 .. PidBound
    BY DEF TypeOK
  <2>2. QED BY <1>1, <2>1, Known
<1>3. /\ st \in [Slots -> States] /\ sems \in [Slots -> Sems \cup {NoSem}]
      /\ calls \in [Slots -> Calls]
  <2>1. NoCall \in Calls
    BY Known DEF NoCall, Calls
  <2>2. sems \in [Slots -> Sems \cup {NoSem}] /\ calls \in [Slots -> Calls]
    BY <2>1 DEF TypeOK, Calls
  <2>3. st \in [Slots -> States]
    BY DEF TypeOK, WithNew, States
  <2>4. QED BY <2>2, <2>3
<1>4. /\ units' \in [Sems -> {Closed} \cup 0 .. UnitBound]
      /\ ring' \in [Sems -> Seq(Pids)]
      /\ semOf' \in [Slots -> Sems \cup {NoSem}]
      /\ state' \in [Slots -> States]
      /\ call' \in [Slots -> Calls]
      /\ running' \in Slots /\ dead' \subseteq Slots
  <2>1. CASE FreeSems # {} /\ Blocks(s, i, nextPid, st, sems, calls)
    BY <1>1, <1>2, <1>3, <2>1, BlocksKeepsType
  <2>2. CASE /\ state' = st /\ semOf' = sems /\ call' = calls
             /\ units' = units /\ ring' = ring /\ running' = running /\ dead' = dead
    BY <1>3, <2>2 DEF TypeOK
  <2>3. QED BY <1>1, <2>1, <2>2
<1>5. children' \in [Slots -> Seq(Slots)]
  <2>1. \A c \in Seq(Slots) : Append(c, i) \in Seq(Slots)
    BY <1>1
  <2>2. children \in [Slots -> Seq(Slots)] /\ <<>> \in Seq(Slots)
    BY DEF TypeOK
  <2>3. QED BY <1>1, <2>1, <2>2
<1>6. stack' \in Seq(Pids) /\ foreground' \in Pids
  BY <1>1, <1>2 DEF TypeOK
<1>7. flag' \in [Slots -> BOOLEAN]
  <2>1. flag \in [Slots -> BOOLEAN] /\ asked \in BOOLEAN
    BY DEF TypeOK
  <2>2. front \in BOOLEAN
    BY <2>1, Zenon DEF Foremost
  <2>3. HandsOver(s, front) \in [Slots -> BOOLEAN]
    BY <2>1, <2>2, Zenon DEF HandsOver
  <2> HIDE DEF front
  <2>4. QED BY <1>1, <2>2, <2>3, Zenon
<1>8. tokenCalm' \in BOOLEAN /\ waitCalm' \in BOOLEAN
  BY <1>1 DEF CreationDisturbs
<1>9. /\ pid' \in [Slots -> Pids] /\ father' \in [Slots -> Slots]
      /\ status' \in [Slots -> {Unset, 0}] /\ answer' \in [Slots -> {Unset, 0}]
      /\ ended' \in [Pids -> {Alive, Unset, 0}]
  BY <1>1, <1>2 DEF TypeOK
<1>10. QED
  BY <1>2, <1>4, <1>5, <1>6, <1>7, <1>8, <1>9 DEF TypeOK, States, Calls

(* Back, without its LET. *)
LEMMA BackSteps ==
    ASSUME NEW s \in Slots, Back(s)
    PROVE  LET c == call[s]
               k == semOf[c.slot]
           IN  /\ units' = [x \in Sems |-> IF x = k THEN Closed
                                ELSE IF x = c.sem THEN Took(units[x]) ELSE units[x]]
               /\ ring' = [x \in Sems |-> IF x = k THEN <<>> ELSE ring[x]]
               /\ state' = Reaped(IF k = NoSem THEN state ELSE Awake(state, ToSet(ring[k])))
               /\ semOf' = [semOf EXCEPT ![c.slot] = NoSem]
               /\ answer' = [answer EXCEPT ![s] = status[c.slot]]
               /\ call' = [call EXCEPT ![s] = NoCall]
               /\ running' = s /\ dead' = {}
BY DEF Back, StatusOf

LEMMA DispatchKeepsType ==
    ASSUME TypeOK, NEW s \in Slots, Dispatch(s)
    PROVE  TypeOK'
<1>1. /\ pid' = pid /\ father' = father /\ children' = children /\ status' = status
      /\ flag' = flag /\ foreground' = foreground /\ nextPid' = nextPid
      /\ stack' = stack /\ tokenCalm' = tokenCalm /\ waitCalm' = waitCalm /\ ended' = ended
  BY DEF Dispatch, ghosts
<1>2. state \in [Slots -> States] /\ call[s] \in Calls
  BY DEF TypeOK, States, Calls
<1>3. CASE /\ call[s] = NoCall
           /\ running' = s /\ dead' = {} /\ state' = Reaped(state)
           /\ UNCHANGED <<semOf, waits>>
  BY <1>1, <1>2, <1>3, TablesOfStates DEF TypeOK, waits, States
<1>4. CASE call[s] # NoCall /\ units[call[s].sem] # 0 /\ Back(s)
  <2> DEFINE c == call[s]
             k == semOf[c.slot]
  <2>1. c.slot \in Slots /\ k \in Sems \cup {NoSem}
    BY <1>2 DEF TypeOK, Calls
  <2>2. /\ units' = [x \in Sems |-> IF x = k THEN Closed
                          ELSE IF x = c.sem THEN Took(units[x]) ELSE units[x]]
        /\ ring' = [x \in Sems |-> IF x = k THEN <<>> ELSE ring[x]]
        /\ state' = Reaped(IF k = NoSem THEN state ELSE Awake(state, ToSet(ring[k])))
        /\ semOf' = [semOf EXCEPT ![c.slot] = NoSem]
        /\ answer' = [answer EXCEPT ![s] = status[c.slot]]
        /\ call' = [call EXCEPT ![s] = NoCall]
        /\ running' = s /\ dead' = {}
    BY <1>4, BackSteps
  <2>3. units' \in [Sems -> {Closed} \cup 0 .. UnitBound]
    <3>1. ASSUME NEW x \in Sems, x = c.sem
          PROVE  Took(units[x]) \in {Closed} \cup 0 .. UnitBound
      <4>1. units[x] \in {Closed} \cup 0 .. UnitBound /\ units[x] # 0
        BY <1>4, <3>1 DEF TypeOK
      <4>2. QED BY <4>1, Known DEF Took
    <3>2. \A x \in Sems : units[x] \in {Closed} \cup 0 .. UnitBound
      BY DEF TypeOK
    <3>3. QED BY <2>2, <3>1, <3>2
  <2>4. state' \in [Slots -> States]
    BY <1>2, <2>2, TablesOfStates
  <2>5. NoCall \in Calls
    BY Known DEF NoCall, Calls
  <2>6. call' \in [Slots -> Calls]
    BY <2>2, <2>5 DEF TypeOK, Calls
  <2>7. /\ ring' \in [Sems -> Seq(Pids)] /\ answer' \in [Slots -> {Unset, 0}]
        /\ semOf' \in [Slots -> Sems \cup {NoSem}]
    BY <2>1, <2>2 DEF TypeOK
  <2>8. QED BY <1>1, <2>2, <2>3, <2>4, <2>6, <2>7 DEF TypeOK, States, Calls
<1>5. CASE /\ ring' = [ring EXCEPT ![call[s].sem] = Append(@, pid[s])]
           /\ state' = Reaped(Stopped(state, s))
           /\ SwitchedAway
           /\ UNCHANGED <<semOf, units, call, answer>>
  <2>1. state' \in [Slots -> States]
    BY <1>2, <1>5, TablesOfStates
  <2>2. ring' \in [Sems -> Seq(Pids)]
    <3>1. \A q \in Seq(Pids) : Append(q, pid[s]) \in Seq(Pids)
      BY DEF TypeOK
    <3>2. QED BY <1>5, <3>1 DEF TypeOK
  <2>3. QED BY <1>1, <1>5, <2>1, <2>2, Known DEF TypeOK, States, SwitchedAway
<1>6. QED BY <1>3, <1>4, <1>5 DEF Dispatch

LEMMA TypeStep ==
    ASSUME TypeOK, [Next]_vars
    PROVE  TypeOK'
<1>1. CASE CtrlC
  <2>1. PICK i \in SlotOf(foreground) :
            Ends(i, status[i]) /\ state' = Without(i) /\ dead' = dead \cup {i}
    BY <1>1 DEF CtrlC
  <2>2. i \in Slots /\ status[i] \in {Unset, 0} /\ running' = running
    BY <1>1, <2>1 DEF SlotOf, CtrlC, TypeOK
  <2>3. QED BY <2>1, <2>2, EndsKeepsType DEF TypeOK, States, Calls
<1>2. ASSUME NEW s \in Slots, Dispatch(s) PROVE TypeOK'
  BY <1>2, DispatchKeepsType
<1>3. ASSUME NEW s \in Slots, Exit(s, 0) PROVE TypeOK'
  <2>1. Ends(s, 0) /\ state' = Reaped(Without(s)) /\ running' \in Slots /\ dead' \subseteq Slots
    BY <1>3, Known DEF Exit, SwitchedAway
  <2>2. QED BY <2>1, EndsKeepsType, TablesOfStates DEF TypeOK, States, Calls
<1>4. ASSUME NEW s \in Slots, NEW asked \in BOOLEAN, NEW memory \in BOOLEAN,
             Create(s, asked, memory)
      PROVE TypeOK'
  BY <1>4, CreateKeepsType
<1>5. ASSUME NEW s \in Slots, NEW p \in Pids, Wait(s, p) PROVE TypeOK'
  <2>1. PICK i \in SlotOf(p) : Blocks(s, i, p, state, semOf, call)
    BY <1>5 DEF Wait
  <2>2. /\ FreeSems # {} /\ i \in Slots
        /\ UNCHANGED <<pid, father, children, status, flag, foreground, nextPid, answer, ghosts>>
    BY <1>5, <2>1 DEF Wait, SlotOf
  <2>3. /\ state \in [Slots -> States] /\ semOf \in [Slots -> Sems \cup {NoSem}]
        /\ call \in [Slots -> Calls]
    BY DEF TypeOK, States, Calls
  <2>4. QED BY <2>1, <2>2, <2>3, BlocksKeepsType DEF TypeOK, States, Calls, ghosts
<1>6. ASSUME NEW s \in Slots, NEW i \in Slots, Kill(s, i) PROVE TypeOK'
  <2>1. /\ Ends(i, status[i]) /\ state' = Reaped(Without(i)) /\ running' \in Slots
        /\ dead' \subseteq Slots /\ status[i] \in {Unset, 0}
    BY <1>6, Known DEF Kill, SwitchedAway, TypeOK
  <2>2. QED BY <2>1, EndsKeepsType, TablesOfStates DEF TypeOK, States, Calls
<1>7. CASE UNCHANGED vars
  BY <1>7 DEF TypeOK, vars, tables, waits, ghosts
<1>8. QED BY <1>1, <1>2, <1>3, <1>4, <1>5, <1>6, <1>7 DEF Next

(* Types are kept, whatever the number of slots, children, semaphores, pids. *)
THEOREM TypeCorrect == Spec => []TypeOK
BY TypeInit, TypeStep, PTL DEF Spec

-----------------------------------------------------------------------------
(* What is always so.  Numbers are not given out twice, a slot in use has one,
   the idle process is always ready, and who runs is not in wait_process. *)
Numbers ==
    /\ pid[Idle] = 0 /\ state[Idle] = "READY" /\ Idle \notin dead
    /\ \A s \in Slots : pid[s] < nextPid
    /\ \A s, t \in Slots : pid[s] = pid[t] /\ pid[s] # 0 => s = t
    /\ \A s \in Slots : s # Idle /\ Live(s) => pid[s] # 0
    /\ running # Idle =>
        pid[running] # 0 /\ state[running] \in {"READY", "TERMINATED"} /\ call[running] = NoCall

(* Who is blocked is in wait_process; a slot's semaphore is in use and is of no
   other slot; a ring holds pids that have been given out. *)
SemsAreHeld ==
    /\ \A s \in Slots : state[s] = "BLOCKED" => call[s] # NoCall
    /\ \A s \in Slots : call[s] # NoCall => call[s].sem \in Sems
    /\ \A s \in Slots : semOf[s] # NoSem => units[semOf[s]] # Closed
    /\ \A s, t \in Slots : semOf[s] = semOf[t] /\ semOf[s] # NoSem => s = t
    /\ \A k \in Sems : \A j \in 1 .. Len(ring[k]) : ring[k][j] \in 1 .. nextPid - 1

(* The three ways for a process to end: the process in slot i does. *)
EndStep(i, exit) ==
    /\ Ends(i, exit) /\ pid[i] # 0
    /\ \/ state' = Reaped(Without(i)) /\ running' = Idle /\ dead' = {}
       \/ state' = Without(i) /\ running' = running /\ dead' = dead \cup {i}

LEMMA Steps ==
    ASSUME TypeOK, Numbers, [Next]_vars
    PROVE  \/ UNCHANGED vars
           \/ \E i \in Slots, exit \in {Unset, 0} : EndStep(i, exit)
           \/ \E s \in Slots : Dispatch(s)
           \/ \E s \in Slots, asked \in BOOLEAN, memory \in BOOLEAN : Create(s, asked, memory)
           \/ \E s \in Slots, p \in Pids : Wait(s, p)
<1>1. CASE CtrlC
  <2>1. PICK i \in SlotOf(foreground) :
            Ends(i, status[i]) /\ state' = Without(i) /\ dead' = dead \cup {i}
    BY <1>1 DEF CtrlC
  <2>2. /\ i \in Slots /\ status[i] \in {Unset, 0} /\ running' = running
        /\ pid[i] = foreground /\ foreground > 1
    BY <1>1, <2>1 DEF SlotOf, CtrlC, TypeOK
  <2>3. QED BY <2>1, <2>2 DEF EndStep
<1>2. ASSUME NEW s \in Slots, Exit(s, 0) PROVE EndStep(s, 0)
  BY <1>2 DEF Exit, EndStep, SwitchedAway, Numbers
<1>3. ASSUME NEW s \in Slots, NEW i \in Slots, Kill(s, i)
      PROVE  EndStep(i, status[i]) /\ status[i] \in {Unset, 0}
  BY <1>3 DEF Kill, EndStep, SwitchedAway, TypeOK
<1>4. QED BY <1>1, <1>2, <1>3, Zenon DEF Next

(* What such an end does to the table of states. *)
LEMMA EndStates ==
    ASSUME TypeOK, Numbers, NEW i \in Slots, NEW exit, EndStep(i, exit)
    PROVE  /\ i # Idle /\ state'[i] = "TERMINATED"
           /\ \A s \in Slots \ {i} : s \notin dead =>
                state'[s] = IF state[s] = "BLOCKED" /\ pid[s] \in WokenBy(i) THEN "READY" ELSE state[s]
           /\ \A s \in dead : Live(s)' => Live(s)
           /\ \A s \in Slots : state'[s] = "BLOCKED" => state[s] = "BLOCKED"
<1>1. /\ \A s \in Slots : Without(i)[s] = IF s = i THEN "TERMINATED" ELSE
            IF state[s] = "BLOCKED" /\ pid[s] \in WokenBy(i) THEN "READY" ELSE state[s]
      /\ Without(i) = [s \in Slots |-> Without(i)[s]]
  BY DEF Without, Awake, TypeOK
<1>2. CASE state' = Without(i)
  BY <1>1, <1>2 DEF EndStep, Live, TypeOK, Numbers
<1>3. CASE state' = Reaped(Without(i))
  BY <1>1, <1>3 DEF EndStep, Live, TypeOK, Numbers, Reaped
<1>4. QED BY <1>2, <1>3 DEF EndStep

LEMMA Blocked ==
    ASSUME NEW s \in Slots, NEW i \in Slots, NEW p, NEW st, NEW sems, NEW calls,
           st \in [Slots -> States], Blocks(s, i, p, st, sems, calls)
    PROVE  /\ units' = [units EXCEPT ![FreeSem] = 0]
           /\ ring' = [ring EXCEPT ![FreeSem] = <<pid[s]>>]
           /\ semOf' = [sems EXCEPT ![i] = FreeSem]
           /\ call' = [calls EXCEPT ![s] = [slot |-> i, sem |-> FreeSem, pid |-> p]]
           /\ running' = Idle /\ dead' = {}
           /\ \A t \in Slots : state'[t] =
                IF t \in dead THEN "TERMINATED"
                ELSE IF t = s /\ st[s] = "READY" THEN "BLOCKED" ELSE st[t]
BY DEF Blocks, FreeSem, SwitchedAway, Reaped, Stopped

LEMMA Dispatched ==
    ASSUME TypeOK, NEW s \in Slots, Dispatch(s)
    PROVE  /\ s # Idle /\ state[s] = "READY" /\ s \notin dead /\ dead' = {}
           /\ UNCHANGED <<pid, father, children, status, flag, foreground, nextPid, ghosts>>
           /\ \A t \in Slots : t \in dead => state'[t] = "TERMINATED"
           /\ \/ /\ call[s] = NoCall /\ running' = s
                 /\ \A t \in Slots \ dead : state'[t] = state[t]
                 /\ UNCHANGED <<semOf, waits>>
              \/ /\ call[s] # NoCall /\ units[call[s].sem] # 0 /\ Back(s) /\ running' = s
                 /\ \A t \in Slots \ dead : state'[t] = state[t] \/
                        (state[t] = "BLOCKED" /\ state'[t] = "READY" /\
                         semOf[call[s].slot] # NoSem /\ pid[t] \in ToSet(ring[semOf[call[s].slot]]))
              \/ /\ call[s] # NoCall /\ units[call[s].sem] = 0
                 /\ ring' = [ring EXCEPT ![call[s].sem] = Append(@, pid[s])]
                 /\ running' = Idle
                 /\ \A t \in Slots \ dead : state'[t] = IF t = s THEN "BLOCKED" ELSE state[t]
                 /\ UNCHANGED <<semOf, units, call, answer>>
<1>1. /\ s # Idle /\ state[s] = "READY" /\ s \notin dead
      /\ UNCHANGED <<pid, father, children, status, flag, foreground, nextPid, ghosts>>
  BY DEF Dispatch
<1>2. CASE /\ call[s] = NoCall
           /\ running' = s /\ dead' = {} /\ state' = Reaped(state)
           /\ UNCHANGED <<semOf, waits>>
  BY <1>1, <1>2 DEF Reaped
<1>3. CASE call[s] # NoCall /\ units[call[s].sem] # 0 /\ Back(s)
  <2> DEFINE k == semOf[call[s].slot]
  <2>1. /\ state' = Reaped(IF k = NoSem THEN state ELSE Awake(state, ToSet(ring[k])))
        /\ running' = s /\ dead' = {}
    BY <1>3, BackSteps
  <2>2. CASE k = NoSem
    BY <1>1, <1>3, <2>1, <2>2 DEF Reaped
  <2>3. CASE k # NoSem
    <3>1. state' = Reaped(Awake(state, ToSet(ring[k])))
      BY <2>1, <2>3
    <3> HIDE DEF k
    <3>2. /\ \A t \in Slots : t \in dead => state'[t] = "TERMINATED"
          /\ \A t \in Slots \ dead : state'[t] = state[t] \/
                    (state[t] = "BLOCKED" /\ state'[t] = "READY" /\ pid[t] \in ToSet(ring[k]))
      BY <3>1 DEF Reaped, Awake
    <3>3. QED BY <1>1, <1>3, <2>1, <2>3, <3>2 DEF k
  <2>4. QED BY <2>2, <2>3
<1>4. CASE /\ call[s] # NoCall /\ units[call[s].sem] = 0
           /\ ring' = [ring EXCEPT ![call[s].sem] = Append(@, pid[s])]
           /\ state' = Reaped(Stopped(state, s))
           /\ SwitchedAway
           /\ UNCHANGED <<semOf, units, call, answer>>
  BY <1>1, <1>4 DEF Reaped, Stopped, SwitchedAway, TypeOK
<1>5. QED BY <1>2, <1>3, <1>4 DEF Dispatch

LEMMA NumbersInit == Init => Numbers /\ SemsAreHeld
<1> SUFFICES ASSUME Init PROVE Numbers /\ SemsAreHeld
  OBVIOUS
<1>1. Idle \in Slots /\ Shell \in Slots /\ Idle # Shell
  BY Known DEF Idle, Shell
<1>2. Numbers
  BY <1>1 DEF Init, Numbers, Live
<1>3. \A k \in Sems : Len(ring[k]) = 0
  BY DEF Init
<1>4. SemsAreHeld
  BY <1>3 DEF Init, SemsAreHeld
<1>5. QED BY <1>2, <1>4

LEMMA NumbersStep ==
    ASSUME TypeOK, Numbers, SemsAreHeld, [Next]_vars
    PROVE  Numbers'
<1>0. Idle \in Slots /\ nextPid \in Nat /\ running \in Slots /\ pid \in [Slots -> Nat]
  BY Known DEF TypeOK
<1>1. CASE UNCHANGED vars
  BY <1>1 DEF Numbers, Live, vars, tables, waits, ghosts
<1>2. ASSUME NEW i \in Slots, NEW exit \in {Unset, 0}, EndStep(i, exit) PROVE Numbers'
  <2>1. /\ pid' = pid /\ nextPid' = nextPid /\ call' = call
        /\ (running' = Idle \/ running' = running)
        /\ dead' \subseteq dead \cup {i}
    BY <1>2 DEF EndStep, Ends
  <2>2. /\ i # Idle /\ state'[i] = "TERMINATED"
        /\ \A s \in Slots \ {i} : s \notin dead =>
                state'[s] = IF state[s] = "BLOCKED" /\ pid[s] \in WokenBy(i) THEN "READY" ELSE state[s]
        /\ \A s \in dead : Live(s)' => Live(s)
    BY <1>2, EndStates
  <2>3. \A s \in Slots : Live(s)' => Live(s)
    BY <2>2 DEF Live
  <2>4. running # Idle /\ running' = running => state'[running] \in {"READY", "TERMINATED"}
    <3>1. CASE running \in dead
      <4>1. state'[running] = "TERMINATED" \/ state'[running] = state[running] \/ state'[running] = "READY"
        <5>1. CASE state' = Reaped(Without(i))
          BY <1>0, <3>1, <5>1 DEF Reaped
        <5>2. CASE state' = Without(i)
          BY <1>0, <5>2 DEF Without, Awake, TypeOK
        <5>3. QED BY <1>2, <5>1, <5>2 DEF EndStep
      <4>2. QED BY <4>1 DEF Numbers
    <3>2. CASE running \notin dead
      BY <1>0, <2>2, <3>2 DEF Numbers
    <3>3. QED BY <3>1, <3>2
  <2>5. QED BY <1>0, <2>1, <2>2, <2>3, <2>4 DEF Numbers
<1>3. ASSUME NEW s \in Slots, Dispatch(s) PROVE Numbers'
  <2>1. /\ s # Idle /\ state[s] = "READY" /\ s \notin dead /\ dead' = {}
        /\ pid' = pid /\ nextPid' = nextPid
        /\ \A t \in Slots : t \in dead => state'[t] = "TERMINATED"
    BY <1>3, Dispatched
  <2>2. \A t \in Slots : Live(t)' => Live(t)
    BY <1>3, <2>1, Dispatched DEF Live
  <2>3. state'[Idle] = "READY"
    BY <1>0, <1>3, <2>1, Dispatched DEF Numbers
  <2>4. \/ running' = Idle
        \/ running' = s /\ state'[s] = "READY" /\ call'[s] = NoCall
    <3>1. CASE call[s] = NoCall /\ running' = s /\ UNCHANGED <<semOf, waits>>
               /\ \A t \in Slots \ dead : state'[t] = state[t]
      BY <2>1, <3>1 DEF waits
    <3>2. CASE /\ call[s] # NoCall /\ units[call[s].sem] # 0 /\ Back(s) /\ running' = s
               /\ \A t \in Slots \ dead : state'[t] = state[t] \/
                        (state[t] = "BLOCKED" /\ state'[t] = "READY" /\
                         semOf[call[s].slot] # NoSem /\ pid[t] \in ToSet(ring[semOf[call[s].slot]]))
      <4>1. call' = [call EXCEPT ![s] = NoCall]
        BY <3>2, BackSteps
      <4>2. QED BY <2>1, <3>2, <4>1 DEF TypeOK
    <3>3. CASE running' = Idle
      BY <3>3
    <3>4. QED BY <1>3, <3>1, <3>2, <3>3, Dispatched
  <2>5. pid[s] # 0
    BY <2>1 DEF Numbers, Live
  <2>6. QED BY <1>0, <2>1, <2>2, <2>3, <2>4, <2>5 DEF Numbers
<1>4. ASSUME NEW s \in Slots, NEW asked \in BOOLEAN, NEW memory \in BOOLEAN,
             Create(s, asked, memory)
      PROVE  Numbers'
  <2> DEFINE i     == NewSlot
             st    == WithNew(s, memory)
             sems  == [semOf EXCEPT ![i] = NoSem]
             calls == [call EXCEPT ![i] = NoCall]
  <2>1. /\ running = s /\ s # Idle /\ i # s /\ i \in Slots /\ i # Idle
        /\ pid' = [pid EXCEPT ![i] = nextPid] /\ nextPid' = nextPid + 1
        /\ \/ Blocks(s, i, nextPid, st, sems, calls)
           \/ /\ state' = st /\ semOf' = sems /\ call' = calls
              /\ running' = running /\ dead' = dead
    BY <1>4, CreateSteps
  <2> HIDE DEF i
  <2>2. /\ st \in [Slots -> States]
        /\ \A t \in Slots \ {i} : st[t] = state[t]
    BY DEF WithNew, States, TypeOK, i
  <2>3. /\ running' = Idle \/ (running' = running /\ call'[s] = NoCall /\ state'[s] = state[s])
        /\ \A t \in Slots \ {i} : Live(t)' => Live(t)
        /\ state'[Idle] = "READY" /\ Idle \notin dead'
    <3>1. CASE Blocks(s, i, nextPid, st, sems, calls)
      <4>1. /\ running' = Idle /\ dead' = {}
            /\ \A t \in Slots : state'[t] =
                IF t \in dead THEN "TERMINATED"
                ELSE IF t = s /\ st[s] = "READY" THEN "BLOCKED" ELSE st[t]
        <5> HIDE DEF st, sems, calls
        <5>1. QED BY <2>1, <2>2, <3>1, Blocked
      <4>2. QED BY <1>0, <2>1, <2>2, <4>1 DEF Live, Numbers
    <3>2. CASE /\ state' = st /\ semOf' = sems /\ call' = calls
               /\ running' = running /\ dead' = dead
      <4>1. call'[s] = NoCall
        BY <2>1, <3>2 DEF Numbers, TypeOK
      <4> HIDE DEF st, sems, calls
      <4>2. QED BY <1>0, <2>1, <2>2, <3>2, <4>1 DEF Live, Numbers
    <3>3. QED BY <2>1, <3>1, <3>2
  <2>4. \A t \in Slots : pid'[t] = IF t = i THEN nextPid ELSE pid[t]
    BY <2>1 DEF TypeOK
  <2>5. nextPid # 0
    BY DEF TypeOK
  <2>6. QED BY <1>0, <2>1, <2>3, <2>4, <2>5 DEF Numbers
<1>5. ASSUME NEW s \in Slots, NEW p \in Pids, Wait(s, p) PROVE Numbers'
  <2>1. PICK i \in SlotOf(p) : Blocks(s, i, p, state, semOf, call)
    BY <1>5 DEF Wait
  <2>2. s # Idle /\ running = s /\ i \in Slots /\ pid' = pid /\ nextPid' = nextPid
    BY <1>5, <2>1 DEF Wait, SlotOf
  <2>3. /\ running' = Idle /\ dead' = {}
        /\ \A t \in Slots : state'[t] =
                IF t \in dead THEN "TERMINATED"
                ELSE IF t = s /\ state[s] = "READY" THEN "BLOCKED" ELSE state[t]
    <3>1. state \in [Slots -> States]
      BY DEF TypeOK, States
    <3>2. QED BY <2>1, <2>2, <3>1, Blocked
  <2>4. QED BY <1>0, <2>2, <2>3 DEF Numbers, Live
<1>6. QED BY <1>1, <1>2, <1>3, <1>4, <1>5, Steps

LEMMA BlocksHoldsSems ==
    ASSUME TypeOK, Numbers, SemsAreHeld, FreeSems # {},
           NEW s \in Slots, NEW i \in Slots, NEW p \in Pids, s # Idle, running = s,
           NEW st \in [Slots -> States], NEW sems \in [Slots -> Sems \cup {NoSem}],
           NEW calls \in [Slots -> Calls], Blocks(s, i, p, st, sems, calls),
           nextPid' \in {nextPid, nextPid + 1},
           \A t \in Slots : \/ t = i /\ st[t] # "BLOCKED" /\ sems[t] = NoSem /\ calls[t] = NoCall
                            \/ st[t] = state[t] /\ sems[t] = semOf[t] /\ calls[t] = call[t]
    PROVE  SemsAreHeld'
<1>1. /\ units' = [units EXCEPT ![FreeSem] = 0]
      /\ ring' = [ring EXCEPT ![FreeSem] = <<pid[s]>>]
      /\ semOf' = [sems EXCEPT ![i] = FreeSem]
      /\ call' = [calls EXCEPT ![s] = [slot |-> i, sem |-> FreeSem, pid |-> p]]
      /\ \A t \in Slots : state'[t] =
           IF t \in dead THEN "TERMINATED"
           ELSE IF t = s /\ st[s] = "READY" THEN "BLOCKED" ELSE st[t]
  BY Blocked
<1>2. FreeSem \in Sems /\ units[FreeSem] = Closed /\ FreeSem # NoSem
  BY TakesFreeSem, Known
<1>3. call'[s].sem = FreeSem /\ call'[s] # NoCall
  BY <1>1, <1>2 DEF NoCall
<1>4. \A t \in Slots : t # s => call'[t] = calls[t]
  BY <1>1
<1>5. \A t \in Slots : state'[t] = "BLOCKED" => call'[t] # NoCall
  BY <1>1, <1>3, <1>4 DEF SemsAreHeld
<1>6. \A t \in Slots : call'[t] # NoCall => call'[t].sem \in Sems
  BY <1>2, <1>3, <1>4 DEF SemsAreHeld
<1>7. \A t \in Slots : semOf'[t] # NoSem => units'[semOf'[t]] # Closed
  <2>1. TAKE t \in Slots
  <2>2. CASE t = i
    BY <1>1, <1>2, <2>2 DEF TypeOK, Closed
  <2>3. CASE t # i
    <3>1. semOf'[t] = semOf[t] \/ semOf'[t] = NoSem
      BY <1>1, <2>3
    <3>2. semOf[t] \in Sems \cup {NoSem} /\ units \in [Sems -> {Closed} \cup 0 .. UnitBound]
      BY DEF TypeOK
    <3>3. QED BY <1>1, <1>2, <3>1, <3>2 DEF SemsAreHeld, Closed
  <2>4. QED BY <2>2, <2>3
<1>8. \A t, r \in Slots : semOf'[t] = semOf'[r] /\ semOf'[t] # NoSem => t = r
  <2>1. \A t \in Slots : t # i => semOf'[t] = sems[t] /\ (sems[t] = semOf[t] \/ sems[t] = NoSem)
    BY <1>1
  <2>2. semOf'[i] = FreeSem
    BY <1>1
  <2>3. \A t \in Slots : semOf[t] # FreeSem
    BY <1>2 DEF SemsAreHeld
  <2>4. QED BY <1>2, <2>1, <2>2, <2>3 DEF SemsAreHeld
<1>9. \A k \in Sems : \A j \in 1 .. Len(ring'[k]) : ring'[k][j] \in 1 .. nextPid' - 1
  <2>1. TAKE k \in Sems
  <2>2. nextPid \in Nat /\ nextPid' \in Int /\ pid[s] \in Nat /\ pid[s] # 0 /\ pid[s] < nextPid
    <3>1. pid[s] \in Nat /\ nextPid \in Nat
      BY Known DEF TypeOK
    <3>2. QED BY <3>1 DEF Numbers
  <2>3. CASE k = FreeSem
    BY <1>1, <2>2, <2>3 DEF TypeOK
  <2>4. CASE k # FreeSem
    <3>1. ring'[k] = ring[k]
      BY <1>1, <2>4
    <3>2. \A j \in 1 .. Len(ring[k]) : ring[k][j] \in 1 .. nextPid - 1
      BY DEF SemsAreHeld
    <3>3. QED BY <2>2, <3>1, <3>2
  <2>5. QED BY <2>3, <2>4
<1>10. QED BY <1>5, <1>6, <1>7, <1>8, <1>9 DEF SemsAreHeld

LEMMA SemsStep ==
    ASSUME TypeOK, Numbers, SemsAreHeld, [Next]_vars, TypeOK'
    PROVE  SemsAreHeld'
<1>0. /\ nextPid \in Nat /\ semOf \in [Slots -> Sems \cup {NoSem}]
      /\ units \in [Sems -> {Closed} \cup 0 .. UnitBound] /\ UnitBound \in Nat
  <2>1. nextPid \in 2 .. PidBound
    BY DEF TypeOK
  <2>2. UnitBound \in Nat /\ PidBound \in Nat
    BY Known
  <2>3. /\ semOf \in [Slots -> Sems \cup {NoSem}]
        /\ units \in [Sems -> {Closed} \cup 0 .. UnitBound]
    BY DEF TypeOK
  <2>4. QED BY <2>1, <2>2, <2>3
<1>1. CASE UNCHANGED vars
  BY <1>1 DEF SemsAreHeld, vars, tables, waits, ghosts
<1>2. ASSUME NEW i \in Slots, NEW exit \in {Unset, 0}, EndStep(i, exit) PROVE SemsAreHeld'
  <2>1. /\ nextPid' = nextPid /\ call' = call /\ semOf' = semOf
        /\ units' = [k \in Sems |-> IF k \in PostedTo(i) THEN units[k] + 1 ELSE units[k]]
        /\ ring' = [k \in Sems |-> IF k \in PostedTo(i) /\ ring[k] # <<>>
                                   THEN Tail(ring[k]) ELSE ring[k]]
    BY <1>2 DEF EndStep, Ends
  <2>2. \A s \in Slots : state'[s] = "BLOCKED" => state[s] = "BLOCKED"
    BY <1>2, EndStates
  <2>3. \A k \in Sems : units[k] # Closed => units'[k] # Closed
    BY <1>0, <2>1 DEF Closed
  <2>4. \A k \in Sems : \A j \in 1 .. Len(ring'[k]) : ring'[k][j] \in 1 .. nextPid - 1
    <3>1. TAKE k \in Sems
    <3>2. ring[k] \in Seq(Pids) /\ \A j \in 1 .. Len(ring[k]) : ring[k][j] \in 1 .. nextPid - 1
      BY DEF SemsAreHeld, TypeOK
    <3>3. ring[k] # <<>> => /\ Len(Tail(ring[k])) = Len(ring[k]) - 1
                            /\ \A j \in 1 .. Len(ring[k]) - 1 : Tail(ring[k])[j] = ring[k][j + 1]
      BY <3>2
    <3>4. CASE ring'[k] = ring[k]
      BY <3>2, <3>4
    <3>5. CASE ring[k] # <<>> /\ ring'[k] = Tail(ring[k])
      BY <3>2, <3>3, <3>5
    <3>6. QED BY <2>1, <3>4, <3>5
  <2>5. QED BY <1>0, <2>1, <2>2, <2>3, <2>4 DEF SemsAreHeld
<1>3. ASSUME NEW s \in Slots, Dispatch(s) PROVE SemsAreHeld'
  <2>1. /\ s # Idle /\ state[s] = "READY" /\ s \notin dead
        /\ pid' = pid /\ nextPid' = nextPid
        /\ \A t \in Slots : t \in dead => state'[t] = "TERMINATED"
    BY <1>3, Dispatched
  <2>2. CASE UNCHANGED <<semOf, waits>> /\ \A t \in Slots \ dead : state'[t] = state[t]
    BY <2>1, <2>2 DEF SemsAreHeld, waits
  <2>3. CASE /\ call[s] # NoCall /\ units[call[s].sem] # 0 /\ Back(s)
             /\ \A t \in Slots \ dead : state'[t] = state[t] \/
                        (state[t] = "BLOCKED" /\ state'[t] = "READY" /\
                         semOf[call[s].slot] # NoSem /\ pid[t] \in ToSet(ring[semOf[call[s].slot]]))
    <3> DEFINE c == call[s]
               k == semOf[c.slot]
    <3>1. /\ units' = [x \in Sems |-> IF x = k THEN Closed
                          ELSE IF x = c.sem THEN Took(units[x]) ELSE units[x]]
          /\ ring' = [x \in Sems |-> IF x = k THEN <<>> ELSE ring[x]]
          /\ semOf' = [semOf EXCEPT ![c.slot] = NoSem]
          /\ call' = [call EXCEPT ![s] = NoCall]
      BY <2>3, BackSteps
    <3>2. \A t \in Slots : state'[t] = "BLOCKED" => state[t] = "BLOCKED" /\ t # s
      BY <2>1, <2>3
    <3>3. \A t \in Slots : t # s => call'[t] = call[t]
      BY <3>1 DEF TypeOK
    <3>4. call'[s] = NoCall
      BY <3>1 DEF TypeOK
    <3>5. c.slot \in Slots /\ units[c.sem] # 0
      BY <2>3 DEF TypeOK
    <3>6. \A t \in Slots : semOf'[t] = IF t = c.slot THEN NoSem ELSE semOf[t]
      BY <1>0, <3>1
    <3>7. \A t \in Slots : semOf'[t] # NoSem => units'[semOf'[t]] # Closed
      <4>1. TAKE t \in Slots
      <4>2. HAVE semOf'[t] # NoSem
      <4>3. t # c.slot /\ semOf'[t] = semOf[t] /\ semOf[t] \in Sems
        BY <1>0, <3>6, <4>2
      <4>4. semOf[t] # k /\ units[semOf[t]] # Closed
        BY <3>5, <4>2, <4>3 DEF SemsAreHeld
      <4>5. units[semOf[t]] \in 0 .. UnitBound
        BY <1>0, <4>3, <4>4
      <4>6. CASE semOf[t] = c.sem
        <5>1. units'[semOf[t]] = Took(units[c.sem])
          BY <3>1, <4>3, <4>4, <4>6
        <5>2. QED BY <1>0, <3>5, <4>3, <4>5, <4>6, <5>1 DEF Took, Closed
      <4>7. CASE semOf[t] # c.sem
        BY <3>1, <4>3, <4>4, <4>7
      <4>8. QED BY <4>6, <4>7
    <3>8. \A t, r \in Slots : semOf'[t] = semOf'[r] /\ semOf'[t] # NoSem => t = r
      BY <3>6 DEF SemsAreHeld
    <3>9. \A x \in Sems : \A j \in 1 .. Len(ring'[x]) : ring'[x][j] \in 1 .. nextPid - 1
      <4>1. TAKE x \in Sems
      <4>2. ring'[x] = <<>> \/ ring'[x] = ring[x]
        BY <3>1
      <4>3. QED BY <4>2 DEF SemsAreHeld
    <3>10. \A t \in Slots : state'[t] = "BLOCKED" => call'[t] # NoCall
      BY <3>2, <3>3 DEF SemsAreHeld
    <3>11. \A t \in Slots : call'[t] # NoCall => call'[t].sem \in Sems
      BY <3>3, <3>4 DEF SemsAreHeld
    <3>12. QED BY <2>1, <3>7, <3>8, <3>9, <3>10, <3>11 DEF SemsAreHeld
  <2>4. CASE /\ call[s] # NoCall
             /\ ring' = [ring EXCEPT ![call[s].sem] = Append(@, pid[s])]
             /\ \A t \in Slots \ dead : state'[t] = IF t = s THEN "BLOCKED" ELSE state[t]
             /\ UNCHANGED <<semOf, units, call, answer>>
    <3>1. \A t \in Slots : state'[t] = "BLOCKED" => call[t] # NoCall
      BY <2>1, <2>4 DEF SemsAreHeld
    <3>2. \A x \in Sems : \A j \in 1 .. Len(ring'[x]) : ring'[x][j] \in 1 .. nextPid - 1
      <4>1. TAKE x \in Sems
      <4>2. ring[x] \in Seq(Pids) /\ \A j \in 1 .. Len(ring[x]) : ring[x][j] \in 1 .. nextPid - 1
        BY DEF SemsAreHeld, TypeOK
      <4>3. pid[s] \in 1 .. nextPid - 1
        <5>1. pid[s] \in Nat
          BY Known DEF TypeOK
        <5>2. QED BY <1>0, <2>1, <5>1 DEF Numbers, Live
      <4>4. ring'[x] = ring[x] \/ ring'[x] = Append(ring[x], pid[s])
        BY <2>4 DEF TypeOK
      <4>5. QED BY <4>2, <4>3, <4>4
    <3>3. QED BY <2>1, <2>4, <3>1, <3>2 DEF SemsAreHeld
  <2>5. QED BY <1>3, <2>2, <2>3, <2>4, Dispatched
<1>4. ASSUME NEW s \in Slots, NEW asked \in BOOLEAN, NEW memory \in BOOLEAN,
             Create(s, asked, memory)
      PROVE  SemsAreHeld'
  <2> DEFINE i     == NewSlot
             st    == WithNew(s, memory)
             sems  == [semOf EXCEPT ![i] = NoSem]
             calls == [call EXCEPT ![i] = NoCall]
  <2>1. /\ running = s /\ s # Idle /\ i # s /\ i \in Slots /\ i # Idle
        /\ nextPid' = nextPid + 1
        /\ \/ FreeSems # {} /\ Blocks(s, i, nextPid, st, sems, calls)
           \/ /\ state' = st /\ semOf' = sems /\ call' = calls
              /\ units' = units /\ ring' = ring
    BY <1>4, CreateSteps
  <2> HIDE DEF i
  <2>2. /\ st \in [Slots -> States] /\ sems \in [Slots -> Sems \cup {NoSem}]
        /\ calls \in [Slots -> Calls]
        /\ \A t \in Slots : \/ t = i /\ st[t] # "BLOCKED" /\ sems[t] = NoSem /\ calls[t] = NoCall
                            \/ st[t] = state[t] /\ sems[t] = semOf[t] /\ calls[t] = call[t]
    <3>1. st \in [Slots -> States] /\ \A t \in Slots :
              st[t] = IF t = i THEN IF Fits(s, memory) THEN "READY" ELSE "UNQUEUED" ELSE state[t]
      BY DEF WithNew, States, TypeOK, i
    <3>2. sems \in [Slots -> Sems \cup {NoSem}] /\
          \A t \in Slots : sems[t] = IF t = i THEN NoSem ELSE semOf[t]
      BY <1>0
    <3>3. calls \in [Slots -> Calls] /\
          \A t \in Slots : calls[t] = IF t = i THEN NoCall ELSE call[t]
      <4>1. NoCall \in Calls
        BY Known DEF NoCall, Calls
      <4>2. call \in [Slots -> Calls]
        BY DEF TypeOK, Calls
      <4>3. QED BY <4>1, <4>2
    <3> HIDE DEF st, sems, calls
    <3>4. QED BY <3>1, <3>2, <3>3
  <2> HIDE DEF st, sems, calls
  <2>3. CASE FreeSems # {} /\ Blocks(s, i, nextPid, st, sems, calls)
    <3>1. nextPid \in Pids /\ nextPid' \in {nextPid, nextPid + 1}
      BY <1>0, <1>4, <2>1, Known DEF Create
    <3>2. QED BY <2>1, <2>2, <2>3, <3>1, BlocksHoldsSems
  <2>4. CASE /\ state' = st /\ semOf' = sems /\ call' = calls /\ units' = units /\ ring' = ring
    <3>1. \A k \in Sems : \A j \in 1 .. Len(ring[k]) : ring[k][j] \in 1 .. nextPid' - 1
      <4>1. TAKE k \in Sems
      <4>2. \A j \in 1 .. Len(ring[k]) : ring[k][j] \in 1 .. nextPid - 1
        BY DEF SemsAreHeld
      <4>3. QED BY <1>0, <2>1, <4>2
    <3>2. QED BY <2>2, <2>4, <3>1 DEF SemsAreHeld
  <2>5. QED BY <2>1, <2>3, <2>4
<1>5. ASSUME NEW s \in Slots, NEW p \in Pids, Wait(s, p) PROVE SemsAreHeld'
  <2>1. PICK i \in SlotOf(p) : Blocks(s, i, p, state, semOf, call)
    BY <1>5 DEF Wait
  <2>2. s # Idle /\ running = s /\ i \in Slots /\ nextPid' = nextPid /\ FreeSems # {}
    BY <1>5, <2>1 DEF Wait, SlotOf
  <2>3. state \in [Slots -> States] /\ call \in [Slots -> Calls]
    BY DEF TypeOK, States, Calls
  <2>4. QED BY <1>0, <2>1, <2>2, <2>3, BlocksHoldsSems
<1>6. QED BY <1>1, <1>2, <1>3, <1>4, <1>5, Steps

-----------------------------------------------------------------------------
LEMMA OneEntry ==
    ASSUME NEW x
    PROVE  <<x>> # <<>> /\ Head(<<x>>) = x /\ Tail(<<x>>) = <<>>
<1>1. <<x>> \in Seq({x}) /\ Len(<<x>>) = 1 /\ <<x>>[1] = x
  OBVIOUS
<1>2. Tail(<<x>>) \in Seq({x}) /\ Len(Tail(<<x>>)) = 0
  BY <1>1
<1>3. QED BY <1>1, <1>2

LEMMA AllButTheLast ==
    ASSUME NEW T, NEW q \in Seq(T), q # <<>>
    PROVE  /\ Len(q) \in Nat \ {0} /\ Front(q) \in Seq(T) /\ Len(Front(q)) = Len(q) - 1
           /\ \A j \in 1 .. Len(q) - 1 : Front(q)[j] = q[j]
           /\ Last(q) = q[Len(q)]
<1>1. Len(q) \in Nat \ {0}
  OBVIOUS
<1>2. Front(q) = SubSeq(q, 1, Len(q) - 1) /\ Last(q) = q[Len(q)]
  BY DEF Front, Last
<1> DEFINE m == Len(q) - 1
<1>3. m \in Nat /\ m <= Len(q)
  BY <1>1
<1>4. /\ SubSeq(q, 1, m) \in Seq(T) /\ Len(SubSeq(q, 1, m)) = m
      /\ \A j \in 1 .. m : SubSeq(q, 1, m)[j] = q[j]
  <2> HIDE DEF m
  <2>1. QED BY <1>3
<1>5. QED BY <1>1, <1>2, <1>4

(* While nothing has disturbed it: whoever was handed the foreground and has not
   given it back is alive in a slot of its own, was made by the one before it in
   the stack (the first one by the idle process), and the last of them is the
   only process alive with the flag. *)
Holder(s, j) ==
    /\ pid[s] = stack[j] /\ Live(s) /\ s \notin dead
    /\ IF j = 1 THEN father[s] = Idle ELSE pid[father[s]] = stack[j - 1]

TokenIsPassedDown ==
    /\ \A j \in 1 .. Len(stack) : stack[j] \in 1 .. nextPid - 1
    /\ \A j, k \in 1 .. Len(stack) : j < k => stack[j] < stack[k]
    /\ \A j \in 1 .. Len(stack) : \E s \in Slots : Holder(s, j)
    /\ foreground = InFront
    /\ \A s \in Slots : Live(s) => (flag[s] <=> pid[s] = foreground)

LEMMA TokenInit == Init => TokenIsPassedDown
<1> SUFFICES ASSUME Init PROVE TokenIsPassedDown
  OBVIOUS
<1>1. Shell \in Slots /\ Shell # Idle /\ Idle \in Slots
  BY Known DEF Shell, Idle
<1>2. stack = <<1>> /\ Len(stack) = 1 /\ stack[1] = 1 /\ Last(stack) = 1 /\ stack # <<>>
  BY DEF Init, Last
<1>3. Holder(Shell, 1)
  BY <1>1, <1>2 DEF Init, Holder, Live
<1>4. \A s \in Slots : Live(s) => (flag[s] <=> pid[s] = foreground)
  <2>1. TAKE s \in Slots
  <2>2. flag[s] <=> s = Shell
    BY Zenon DEF Init
  <2>3. pid[s] = 1 <=> s = Shell
    BY DEF Init
  <2>4. foreground = 1
    BY DEF Init
  <2>5. QED BY <2>2, <2>3, <2>4
<1>5. foreground = InFront
  BY <1>2 DEF InFront, Init
<1>6. nextPid = 2
  BY DEF Init
<1>7. QED BY <1>1, <1>2, <1>3, <1>4, <1>5, <1>6 DEF TokenIsPassedDown

LEMMA TokenStays ==
    ASSUME TypeOK, TokenIsPassedDown,
           UNCHANGED <<pid, nextPid, stack, foreground>>,
           \A s \in Slots : Live(s)' => Live(s),
           \A s \in Slots : flag'[s] = flag[s],
           \A s \in Slots : Live(s) /\ s \notin dead /\ (\E j \in 1 .. Len(stack) : stack[j] = pid[s])
                => Live(s)' /\ s \notin dead' /\ father'[s] = father[s]
    PROVE  TokenIsPassedDown'
<1>1. \A j \in 1 .. Len(stack) : \E s \in Slots : Holder(s, j)'
  <2>1. TAKE j \in 1 .. Len(stack)
  <2>2. PICK s \in Slots : Holder(s, j)
    BY DEF TokenIsPassedDown
  <2>3. Live(s)' /\ s \notin dead' /\ father'[s] = father[s]
    BY <2>2 DEF Holder
  <2>4. Holder(s, j)'
    BY <2>2, <2>3 DEF Holder
  <2>5. QED BY <2>4
<1>2. InFront' = InFront
  BY DEF InFront
<1>3. QED BY <1>1, <1>2 DEF TokenIsPassedDown

(* The top of the stack, and what it says of a live process with the flag. *)
LEMMA TopOfStack ==
    ASSUME TypeOK, Numbers, TokenIsPassedDown, NEW s \in Slots, Live(s), flag[s], pid[s] # 0
    PROVE  /\ Len(stack) \in Nat \ {0} /\ stack # <<>>
           /\ stack[Len(stack)] = pid[s] /\ Last(stack) = pid[s] /\ foreground = pid[s]
           /\ Holder(s, Len(stack))
<1>1. foreground = pid[s] /\ foreground # 0 /\ foreground = InFront
  BY DEF TokenIsPassedDown
<1>2. stack # <<>> /\ Last(stack) = pid[s]
  BY <1>1 DEF InFront
<1>3. stack \in Seq(Pids)
  BY DEF TypeOK
<1>4. Len(stack) \in Nat \ {0} /\ Last(stack) = stack[Len(stack)]
  BY <1>2, <1>3 DEF Last
<1>5. PICK t \in Slots : Holder(t, Len(stack))
  BY <1>4 DEF TokenIsPassedDown
<1>6. t = s
  BY <1>1, <1>2, <1>4, <1>5 DEF Holder, Numbers
<1>7. QED BY <1>1, <1>2, <1>4, <1>5, <1>6

LEMMA TokenEnds ==
    ASSUME TypeOK, Numbers, TokenIsPassedDown, NEW i \in Slots, NEW exit, EndStep(i, exit),
           ~DeathDisturbs(i)
    PROVE  TokenIsPassedDown'
<1>1. /\ UNCHANGED <<pid, nextPid>> /\ flag' = GivesBack(i) /\ father' = Adopted(i)
      /\ foreground' = IF flag[i] THEN pid[father[i]] ELSE foreground
      /\ stack' = IF stack # <<>> /\ pid[i] = Last(stack) /\ state[i] # "TERMINATED"
                  THEN Front(stack) ELSE stack
  BY DEF EndStep, Ends
<1>2. /\ i # Idle /\ ~Live(i)' /\ pid[i] # 0
      /\ \A s \in Slots : Live(s)' => Live(s)
      /\ \A s \in Slots \ {i} : Live(s) /\ s \notin dead => Live(s)' /\ s \notin dead'
  BY EndStates DEF EndStep, Live
<1>3. /\ ~(flag[i] /\ ~Live(i))
      /\ Live(i) /\ pid[i] \in ToSet(stack) => pid[i] = Last(stack)
      /\ \A c \in ToSet(Orphans(i)) : Live(c) => pid[c] \notin ToSet(stack)
  BY DEF DeathDisturbs, Live
<1>4. stack \in Seq(Pids) /\ \A j \in 1 .. Len(stack) : stack[j] \in ToSet(stack)
  BY DEF TypeOK, ToSet
<1>5. \A s \in Slots : Live(s) /\ (\E j \in 1 .. Len(stack) : stack[j] = pid[s]) => father'[s] = father[s]
  BY <1>1, <1>3, <1>4 DEF Adopted
<1>6. flag \in [Slots -> BOOLEAN] /\ father[i] \in Slots
  BY DEF TypeOK
<1>7. CASE ~flag[i]
  <2>1. \A s \in Slots : flag'[s] = flag[s]
    <3>1. flag' = [flag EXCEPT ![father[i]] = @ \/ FALSE]
      BY <1>1, <1>7, <1>6, Zenon DEF GivesBack
    <3>2. QED BY <1>6, <3>1
  <2>2. stack # <<>> => Last(stack) \in ToSet(stack) /\ Last(stack) = stack[Len(stack)]
    BY <1>4 DEF Last
  <2>3. Live(i) => pid[i] \notin ToSet(stack)
    <3>1. SUFFICES ASSUME Live(i), pid[i] \in ToSet(stack) PROVE FALSE
      OBVIOUS
    <3>2. pid[i] = Last(stack) /\ stack # <<>>
      BY <1>3, <1>4, <3>1 DEF ToSet
    <3>3. foreground = pid[i]
      BY <3>2 DEF TokenIsPassedDown, InFront
    <3>4. QED BY <1>7, <3>1, <3>3 DEF TokenIsPassedDown
  <2>4. stack' = stack /\ foreground' = foreground
    BY <1>1, <1>7, <2>2, <2>3 DEF Live
  <2>5. \A s \in Slots : Live(s) /\ s \notin dead /\ (\E j \in 1 .. Len(stack) : stack[j] = pid[s])
                => Live(s)' /\ s \notin dead' /\ father'[s] = father[s]
    BY <1>2, <1>4, <1>5, <2>3
  <2>6. QED BY <1>1, <1>2, <2>1, <2>4, <2>5, TokenStays
<1>8. CASE flag[i]
  <2> DEFINE n == Len(stack)
  <2>1. Live(i)
    BY <1>3, <1>8
  <2>2. /\ n \in Nat \ {0} /\ stack # <<>>
        /\ stack[n] = pid[i] /\ Last(stack) = pid[i] /\ foreground = pid[i]
        /\ Holder(i, n)
    BY <1>2, <1>8, <2>1, TopOfStack
  <2>3. /\ stack' = Front(stack) /\ Len(stack') = n - 1
        /\ \A j \in 1 .. n - 1 : stack'[j] = stack[j]
    <3>1. stack' = Front(stack)
      BY <1>1, <2>1, <2>2 DEF Live
    <3>2. QED BY <1>4, <2>2, <3>1, AllButTheLast
  <2>4. foreground' = pid[father[i]]
    BY <1>1, <1>8
  <2>5. foreground' = InFront'
    <3>1. CASE n = 1
      <4>1. stack' = <<>> /\ father[i] = Idle
        <5>1. stack' \in Seq(Pids) /\ Len(stack') = 0
          BY <1>4, <2>2, <2>3, <3>1, AllButTheLast
        <5>2. QED BY <2>2, <3>1, <5>1 DEF Holder
      <4>2. QED BY <2>4, <4>1 DEF InFront, Numbers
    <3>2. CASE n # 1
      <4>1. pid[father[i]] = stack[n - 1]
        BY <2>2, <3>2 DEF Holder
      <4>2. stack' # <<>> /\ Last(stack') = stack[n - 1]
        BY <2>2, <2>3, <3>2 DEF Last
      <4>3. QED BY <2>4, <4>1, <4>2 DEF InFront
    <3>3. QED BY <3>1, <3>2
  <2>6. \A j \in 1 .. Len(stack') : \E s \in Slots : Holder(s, j)'
    <3>1. TAKE j \in 1 .. Len(stack')
    <3>2. j \in 1 .. n /\ j < n /\ j \in 1 .. n - 1 /\ n \in 1 .. n
      BY <2>2, <2>3
    <3>3. PICK s \in Slots : Holder(s, j)
      BY <3>2 DEF TokenIsPassedDown
    <3>4. stack[j] < stack[n] /\ stack[j] \in Nat /\ stack[n] \in Nat
      BY <3>2 DEF TokenIsPassedDown
    <3>5. s # i
      BY <2>2, <3>3, <3>4 DEF Holder
    <3>6. Live(s)' /\ s \notin dead' /\ father'[s] = father[s] /\ pid'[s] = stack'[j]
      BY <1>1, <1>2, <1>5, <2>3, <3>2, <3>3, <3>5 DEF Holder
    <3>7. j # 1 => stack'[j - 1] = stack[j - 1]
      BY <2>2, <2>3, <3>2
    <3>8. Holder(s, j)'
      BY <1>1, <3>3, <3>6, <3>7 DEF Holder
    <3>9. QED BY <3>8
  <2>7. \A s \in Slots : Live(s)' => (flag'[s] <=> pid'[s] = foreground')
    <3>1. SUFFICES ASSUME NEW s \in Slots, Live(s)'
                   PROVE  flag'[s] <=> pid[s] = pid[father[i]]
      BY <1>1, <2>4
    <3>2. Live(s) /\ s # i
      BY <1>2, <3>1
    <3>3. flag'[father[i]]
      BY <1>1, <1>6, <1>8, Zenon DEF GivesBack
    <3>4. s # father[i] => flag'[s] = flag[s]
      BY <1>1, <1>6 DEF GivesBack
    <3>5. ~flag[s]
      BY <1>2, <2>2, <3>2 DEF TokenIsPassedDown, Numbers
    <3>6. pid[s] = pid[father[i]] => s = father[i]
      <4>1. CASE n = 1
        BY <2>2, <3>2, <4>1 DEF Holder, Numbers
      <4>2. CASE n # 1
        <5>1. pid[father[i]] = stack[n - 1]
          BY <2>2, <4>2 DEF Holder
        <5>2. pid[father[i]] # 0
          <6>1. n \in Nat /\ n # 0
            BY <2>2
          <6>2. n - 1 \in 1 .. n
            <7> HIDE DEF n
            <7>1. QED BY <4>2, <6>1
          <6>3. QED BY <5>1, <6>2 DEF TokenIsPassedDown
        <5>3. QED BY <1>6, <5>2 DEF Numbers
      <4>3. QED BY <4>1, <4>2
    <3>7. QED BY <3>3, <3>4, <3>5, <3>6
  <2>8. /\ \A j \in 1 .. Len(stack') : stack'[j] \in 1 .. nextPid' - 1
        /\ \A j, k \in 1 .. Len(stack') : j < k => stack'[j] < stack'[k]
    <3>1. \A j \in 1 .. n - 1 : j \in 1 .. n
      BY <2>2
    <3>2. nextPid' = nextPid /\ Len(stack') = n - 1
      BY <1>1, <2>3
    <3> HIDE DEF n
    <3>3. \A j \in 1 .. n : stack[j] \in 1 .. nextPid - 1
      BY DEF TokenIsPassedDown, n
    <3>4. \A j, k \in 1 .. n : j < k => stack[j] < stack[k]
      BY DEF TokenIsPassedDown, n
    <3>5. QED BY <2>3, <3>1, <3>2, <3>3, <3>4
  <2>9. QED BY <2>5, <2>6, <2>7, <2>8 DEF TokenIsPassedDown
<1>9. QED BY <1>7, <1>8

(* What a creation does to the table, whether or not the caller waits. *)
LEMMA CreateStates ==
    ASSUME TypeOK, Numbers, NEW s \in Slots, NEW asked \in BOOLEAN, NEW memory \in BOOLEAN,
           Create(s, asked, memory), NEW i \in Slots, i = NewSlot
    PROVE  /\ \A t \in Slots \ {i} : Live(t)' => Live(t)
           /\ \A t \in Slots \ {i} : Live(t) /\ t \notin dead => Live(t)' /\ t \notin dead'
           /\ i \notin dead => Live(i)' /\ i \notin dead'
<1> DEFINE st    == WithNew(s, memory)
           sems  == [semOf EXCEPT ![i] = NoSem]
           calls == [call EXCEPT ![i] = NoCall]
<1>1. /\ i # s /\ i \in Slots
      /\ \/ Blocks(s, i, nextPid, st, sems, calls)
         \/ state' = st /\ dead' = dead
  BY CreateSteps
<1>2. /\ st \in [Slots -> States] /\ st[i] # "TERMINATED"
      /\ \A t \in Slots \ {i} : st[t] = state[t]
  BY <1>1 DEF WithNew, States, TypeOK
<1> HIDE DEF st, sems, calls
<1>3. CASE Blocks(s, i, nextPid, st, sems, calls)
  <2>1. /\ dead' = {}
        /\ \A t \in Slots : state'[t] =
                IF t \in dead THEN "TERMINATED"
                ELSE IF t = s /\ st[s] = "READY" THEN "BLOCKED" ELSE st[t]
    BY <1>1, <1>2, <1>3, Blocked
  <2>2. QED BY <1>1, <1>2, <2>1 DEF Live
<1>4. CASE state' = st /\ dead' = dead
  BY <1>1, <1>2, <1>4 DEF Live
<1>5. QED BY <1>1, <1>3, <1>4

LEMMA TokenIsHandedDown ==
    ASSUME TypeOK, Numbers, TokenIsPassedDown,
           NEW s \in Slots, NEW asked \in BOOLEAN, NEW memory \in BOOLEAN,
           Create(s, asked, memory), tokenCalm, tokenCalm'
    PROVE  TokenIsPassedDown'
<1> DEFINE front == Foremost(s, asked)
           n     == Len(stack)
<1>0. PICK i \in Slots : i = NewSlot
  BY CreateSteps
<1>1. /\ s # Idle /\ i # s /\ i \in Slots /\ i # Idle /\ ~Live(i)
      /\ pid' = [pid EXCEPT ![i] = nextPid] /\ nextPid' = nextPid + 1
      /\ father' = [father EXCEPT ![i] = s]
      /\ flag' = [HandsOver(s, front) EXCEPT ![i] = front]
      /\ foreground' = IF front THEN nextPid ELSE foreground
      /\ stack' = IF front THEN Append(stack, nextPid) ELSE stack
      /\ CreationDisturbs(s, i, front, Fits(s, memory))
  BY <1>0, CreateSteps DEF Live
<1>2. front => Fits(s, memory) /\ i \notin dead /\ Live(s)
  BY <1>1 DEF CreationDisturbs, Live
<1>3. /\ \A t \in Slots \ {i} : Live(t)' => Live(t)
      /\ \A t \in Slots \ {i} : Live(t) /\ t \notin dead => Live(t)' /\ t \notin dead'
      /\ i \notin dead => Live(i)' /\ i \notin dead'
  BY <1>0, CreateStates
<1>4. /\ nextPid \in Nat /\ nextPid # 0 /\ n \in Nat /\ stack \in Seq(Pids)
      /\ \A t \in Slots : pid'[t] = IF t = i THEN nextPid ELSE pid[t]
      /\ \A t \in Slots : father'[t] = IF t = i THEN s ELSE father[t]
  BY <1>1 DEF TypeOK
<1>5. /\ \A j \in 1 .. n : stack[j] \in 1 .. nextPid - 1
      /\ \A j, k \in 1 .. n : j < k => stack[j] < stack[k]
      /\ \A j \in 1 .. n : \E t \in Slots : Holder(t, j)
      /\ foreground = InFront
      /\ \A t \in Slots : Live(t) => (flag[t] <=> pid[t] = foreground)
  BY DEF TokenIsPassedDown
<1>6. ASSUME NEW j \in 1 .. n
      PROVE  \E t \in Slots \ {i} :
                /\ pid'[t] = stack[j] /\ Live(t)' /\ t \notin dead'
                /\ IF j = 1 THEN father'[t] = Idle ELSE pid'[father'[t]] = stack[j - 1]
  <2>1. PICK t \in Slots : Holder(t, j)
    BY <1>5
  <2>2. t # i /\ pid'[t] = stack[j] /\ Live(t)' /\ t \notin dead' /\ father'[t] = father[t]
    BY <1>1, <1>3, <1>4, <2>1 DEF Holder
  <2>3. CASE j = 1
    BY <2>1, <2>2, <2>3 DEF Holder
  <2>4. CASE j # 1
    <3>1. j - 1 \in 1 .. n
      BY <1>4, <2>4
    <3>2. PICK r \in Slots : Holder(r, j - 1)
      BY <1>5, <3>1
    <3>3. pid[father[t]] = stack[j - 1] /\ stack[j - 1] # 0
      BY <1>5, <2>1, <2>4, <3>1 DEF Holder
    <3>4. father[t] \in Slots
      BY DEF TypeOK
    <3>5. r = father[t]
      BY <3>2, <3>3, <3>4 DEF Numbers, Holder
    <3>6. father[t] # i
      BY <1>1, <3>2, <3>5 DEF Holder
    <3>7. QED BY <1>4, <2>2, <2>4, <3>3, <3>4, <3>6
  <2>5. QED BY <2>3, <2>4
<1>7. InFront < nextPid /\ InFront \in Nat
  <2>1. CASE stack = <<>>
    BY <1>4, <2>1 DEF InFront
  <2>2. CASE stack # <<>>
    <3>1. n \in Nat \ {0} /\ Last(stack) = stack[n]
      BY <1>4, <2>2, AllButTheLast
    <3>2. n \in 1 .. n
      BY <3>1
    <3>3. QED BY <1>4, <1>5, <2>2, <3>1, <3>2 DEF InFront
  <2>3. QED BY <2>1, <2>2
<1>8. flag \in [Slots -> BOOLEAN] /\ front \in BOOLEAN
  <2>1. flag \in [Slots -> BOOLEAN] /\ asked \in BOOLEAN
    BY DEF TypeOK
  <2>2. QED BY <2>1, Zenon DEF Foremost
<1>9. CASE ~front
  <2>1. stack' = stack /\ foreground' = foreground /\ InFront' = InFront
    BY <1>1, <1>9 DEF InFront
  <2>2. /\ \A t \in Slots \ {i} : flag'[t] = flag[t]
        /\ ~flag'[i]
    <3>0. front = FALSE
      BY <1>8, <1>9
    <3>1. flag' = [[flag EXCEPT ![s] = @ /\ ~FALSE] EXCEPT ![i] = FALSE]
      BY <1>1, <3>0, Zenon DEF HandsOver
    <3>2. QED BY <1>1, <1>8, <3>1
  <2>3. \A t \in Slots : Live(t)' => (flag'[t] <=> pid'[t] = foreground')
    BY <1>1, <1>3, <1>4, <1>5, <1>7, <2>1, <2>2
  <2>4. \A j \in 1 .. Len(stack') : \E t \in Slots : Holder(t, j)'
    BY <1>6, <2>1 DEF Holder
  <2>5. \A j \in 1 .. Len(stack') : stack'[j] \in 1 .. nextPid' - 1
    BY <1>1, <1>4, <1>5, <2>1
  <2>6. QED BY <1>5, <2>1, <2>3, <2>4, <2>5 DEF TokenIsPassedDown
<1>10. CASE front
  <2>1. Live(s) /\ flag[s] /\ pid[s] # 0 /\ i \notin dead
    BY <1>1, <1>2, <1>10 DEF Foremost, Numbers
  <2>2. /\ n \in Nat \ {0} /\ stack[n] = pid[s] /\ foreground = pid[s]
    BY <2>1, TopOfStack
  <2>3. /\ stack' = Append(stack, nextPid) /\ foreground' = nextPid /\ stack' # <<>>
        /\ Len(stack') = n + 1 /\ stack'[n + 1] = nextPid
        /\ \A j \in 1 .. n : stack'[j] = stack[j]
        /\ nextPid \in Pids
    <3>1. nextPid \in Pids
      BY <1>4, Known DEF Create
    <3>2. QED BY <1>1, <1>4, <1>10, <3>1
  <2>4. foreground' = InFront'
    BY <2>3 DEF InFront, Last
  <2>5. \A t \in Slots : Live(t)' => (flag'[t] <=> pid'[t] = foreground')
    <3>1. /\ \A t \in Slots \ {i, s} : flag'[t] = flag[t]
          /\ ~flag'[s] /\ flag'[i]
      <4>0. front = TRUE
        BY <1>8, <1>10
      <4>1. flag' = [[flag EXCEPT ![s] = @ /\ ~TRUE] EXCEPT ![i] = TRUE]
        BY <1>1, <4>0, Zenon DEF HandsOver
      <4>2. QED BY <1>1, <1>8, <4>1
    <3>2. \A t \in Slots : pid[t] < nextPid /\ (pid[t] = pid[s] => t = s)
      BY <2>1 DEF Numbers
    <3>3. \A t \in Slots : pid[t] # nextPid
      <4>1. \A t \in Slots : pid[t] \in Nat
        BY Known DEF TypeOK
      <4>2. QED BY <1>4, <3>2, <4>1
    <3>4. QED BY <1>1, <1>3, <1>4, <1>5, <2>2, <2>3, <3>1, <3>2, <3>3
  <2>6. \A j \in 1 .. Len(stack') : \E t \in Slots : Holder(t, j)'
    <3>1. TAKE j \in 1 .. Len(stack')
    <3>2. CASE j \in 1 .. n
      <4>1. j # 1 => j - 1 \in 1 .. n
        BY <1>4, <3>2
      <4>2. stack'[j] = stack[j] /\ (j # 1 => stack'[j - 1] = stack[j - 1])
        BY <2>3, <3>2, <4>1
      <4>3. QED BY <1>6, <3>2, <4>2 DEF Holder
    <3>3. CASE j = n + 1
      <4>1. j # 1 /\ j - 1 = n /\ n \in 1 .. n
        BY <2>2, <3>3
      <4>2. stack'[j - 1] = pid[s] /\ stack'[j] = nextPid
        BY <2>2, <2>3, <3>3, <4>1
      <4>3. /\ pid'[i] = nextPid /\ Live(i)' /\ i \notin dead'
            /\ father'[i] = s /\ pid'[s] = pid[s]
        BY <1>1, <1>3, <1>4, <2>1
      <4>4. Holder(i, j)'
        BY <4>1, <4>2, <4>3 DEF Holder
      <4>5. QED BY <1>1, <4>4
    <3>4. QED BY <1>4, <2>3, <3>2, <3>3
  <2>7. /\ \A j \in 1 .. Len(stack') : stack'[j] \in 1 .. nextPid' - 1
        /\ \A j, k \in 1 .. Len(stack') : j < k => stack'[j] < stack'[k]
    BY <1>1, <1>4, <1>5, <2>2, <2>3
  <2>8. QED BY <2>4, <2>5, <2>6, <2>7 DEF TokenIsPassedDown
<1>11. QED BY <1>9, <1>10

TokenInv == tokenCalm => TokenIsPassedDown

LEMMA TokenStep ==
    ASSUME TypeOK, Numbers, TokenInv, [Next]_vars
    PROVE  TokenInv'
<1> SUFFICES ASSUME tokenCalm' PROVE TokenIsPassedDown'
  BY DEF TokenInv
<1>1. CASE UNCHANGED vars
  BY <1>1, TokenStays DEF vars, tables, ghosts, TokenInv, Live
<1>2. ASSUME NEW i \in Slots, NEW exit \in {Unset, 0}, EndStep(i, exit) PROVE TokenIsPassedDown'
  <2>1. tokenCalm /\ ~DeathDisturbs(i)
    BY <1>2 DEF EndStep, Ends
  <2>2. QED BY <1>2, <2>1, TokenEnds DEF TokenInv
<1>3. ASSUME NEW s \in Slots, Dispatch(s) PROVE TokenIsPassedDown'
  <2>1. /\ UNCHANGED <<pid, father, flag, foreground, nextPid, stack, tokenCalm>>
        /\ dead' = {} /\ state[s] = "READY"
        /\ \A t \in Slots : t \in dead => state'[t] = "TERMINATED"
    BY <1>3, Dispatched DEF ghosts
  <2>2. \A t \in Slots : (Live(t)' => Live(t)) /\ (Live(t) /\ t \notin dead => Live(t)')
    BY <1>3, <2>1, Dispatched DEF Live
  <2>3. QED BY <2>1, <2>2, TokenStays DEF TokenInv
<1>4. ASSUME NEW s \in Slots, NEW asked \in BOOLEAN, NEW memory \in BOOLEAN,
             Create(s, asked, memory)
      PROVE  TokenIsPassedDown'
  <2>1. tokenCalm
    BY <1>4, CreateSteps DEF CreationDisturbs
  <2>2. QED BY <1>4, <2>1, TokenIsHandedDown DEF TokenInv
<1>5. ASSUME NEW s \in Slots, NEW p \in Pids, Wait(s, p) PROVE TokenIsPassedDown'
  <2>1. PICK i \in SlotOf(p) : Blocks(s, i, p, state, semOf, call)
    BY <1>5 DEF Wait
  <2>2. /\ UNCHANGED <<pid, father, flag, foreground, nextPid, stack, tokenCalm>>
        /\ i \in Slots /\ state \in [Slots -> States]
    BY <1>5, <2>1 DEF Wait, ghosts, SlotOf, TypeOK, States
  <2>3. /\ dead' = {}
        /\ \A t \in Slots : state'[t] =
                IF t \in dead THEN "TERMINATED"
                ELSE IF t = s /\ state[s] = "READY" THEN "BLOCKED" ELSE state[t]
    BY <2>1, <2>2, Blocked
  <2>4. QED BY <2>2, <2>3, TokenStays DEF TokenInv, Live
<1>6. QED BY <1>1, <1>2, <1>3, <1>4, <1>5, Steps

LEMMA TokenImplies ==
    ASSUME TypeOK, Numbers, TokenInv
    PROVE  ForegroundIsAStack
<1> SUFFICES ASSUME tokenCalm PROVE \E s \in Slots : Live(s) /\ pid[s] = foreground
  BY DEF ForegroundIsAStack, TokenInv, TokenIsPassedDown
<1>1. TokenIsPassedDown
  BY DEF TokenInv
<1>2. CASE stack = <<>>
  <2>1. Idle \in Slots /\ Live(Idle) /\ pid[Idle] = foreground
    BY <1>1, <1>2, Known DEF TokenIsPassedDown, InFront, Numbers, Live
  <2>2. QED BY <2>1
<1>3. CASE stack # <<>>
  <2>1. stack \in Seq(Pids)
    BY DEF TypeOK
  <2>2. Len(stack) \in Nat \ {0} /\ Last(stack) = stack[Len(stack)]
    BY <1>3, <2>1, AllButTheLast
  <2>3. Len(stack) \in 1 .. Len(stack)
    BY <2>2
  <2>4. PICK s \in Slots : Holder(s, Len(stack))
    BY <1>1, <2>3 DEF TokenIsPassedDown
  <2>5. Live(s) /\ pid[s] = foreground
    BY <1>1, <1>3, <2>2, <2>4 DEF TokenIsPassedDown, InFront, Holder
  <2>6. QED BY <2>5
<1>4. QED BY <1>2, <1>3

-----------------------------------------------------------------------------
(* While nothing has disturbed it: the slot of a wait_process still holds the
   process it is for, and either that one lives and the waiter is alone in the
   ring, or it has ended and the unit it posted is there.  No two wait for one
   slot, who lives and is in a ring sleeps there, and what has ended is known. *)
InRing(k, p) == \E j \in 1 .. Len(ring[k]) : ring[k][j] = p

Sleeps(w) ==
    /\ ring[call[w].sem] = <<pid[w]>> /\ units[call[w].sem] = 0
    /\ Live(call[w].slot) /\ state[w] \in {"BLOCKED", "TERMINATED"}
Woken(w) ==
    /\ ring[call[w].sem] = <<>> /\ units[call[w].sem] > 0
    /\ ~Live(call[w].slot) /\ state[w] \in {"READY", "TERMINATED"}

WaitsInOrder ==
    /\ \A s \in dead : ~Live(s)
    /\ \A w \in Slots : call[w] # NoCall =>
        /\ call[w].slot # w /\ pid[call[w].slot] = call[w].pid /\ call[w].pid # 0
        /\ semOf[call[w].slot] = call[w].sem
        /\ Sleeps(w) \/ Woken(w)
    /\ \A w, v \in Slots :
        call[w] # NoCall /\ call[v] # NoCall /\ call[w].slot = call[v].slot => w = v
    /\ \A s \in Slots, k \in Sems :
        Live(s) /\ InRing(k, pid[s]) => state[s] = "BLOCKED" /\ call[s].sem = k
    /\ \A s \in Slots : pid[s] # 0 /\ ~Live(s) => ended[pid[s]] = status[s]

LEMMA WaitsInit == Init => WaitsInOrder
<1> SUFFICES ASSUME Init PROVE WaitsInOrder
  OBVIOUS
<1>1. \A w \in Slots : call[w] = NoCall
  BY DEF Init
<1>2. \A k \in Sems : Len(ring[k]) = 0
  BY DEF Init
<1>3. \A s \in Slots : pid[s] # 0 => Live(s)
  BY DEF Init, Live
<1>4. dead = {}
  BY DEF Init
<1>5. QED BY <1>1, <1>2, <1>3, <1>4 DEF WaitsInOrder, InRing

LEMMA WaitsEnds ==
    ASSUME TypeOK, Numbers, SemsAreHeld, WaitsInOrder,
           NEW i \in Slots, NEW exit, EndStep(i, exit)
    PROVE  WaitsInOrder'
<1>1. /\ UNCHANGED <<pid, semOf, call>> /\ pid[i] # 0
      /\ status' = [status EXCEPT ![i] = exit]
      /\ ended' = [ended EXCEPT ![pid[i]] = exit]
      /\ \A k \in Sems : units'[k] = IF k \in PostedTo(i) THEN units[k] + 1 ELSE units[k]
      /\ \A k \in Sems : ring'[k] = IF k \in PostedTo(i) /\ ring[k] # <<>>
                                    THEN Tail(ring[k]) ELSE ring[k]
      /\ dead' \subseteq dead \cup {i}
  BY DEF EndStep, Ends
<1>2. PostedTo(i) = IF semOf[i] = NoSem THEN {} ELSE {semOf[i]}
  BY DEF PostedTo, SemsAreHeld
<1>3. /\ state'[i] = "TERMINATED"
      /\ \A s \in Slots \ {i} :
            state'[s] = IF state[s] = "BLOCKED" /\ pid[s] \in WokenBy(i) THEN "READY" ELSE state[s]
  <2>1. dead \subseteq Slots /\ \A s \in dead : state[s] = "TERMINATED"
    BY DEF TypeOK, WaitsInOrder, Live
  <2>2. QED BY <2>1, EndStates DEF Live
<1>4. \A s \in Slots : (Live(s)' <=> s # i /\ Live(s))
  BY <1>3 DEF Live
<1>5. \A k \in Sems : ring[k] \in Seq(Pids)
  BY DEF TypeOK
<1>6. ASSUME NEW p \in WokenBy(i)
      PROVE  semOf[i] \in Sems /\ InRing(semOf[i], p) /\ PostedTo(i) = {semOf[i]} /\ ring[semOf[i]] # <<>>
  <2>1. semOf[i] \in Sems /\ PostedTo(i) = {semOf[i]} /\ ring[semOf[i]] # <<>>
        /\ p = Head(ring[semOf[i]])
    BY <1>2, <1>6 DEF WokenBy, TypeOK
  <2>2. p = ring[semOf[i]][1] /\ 1 \in 1 .. Len(ring[semOf[i]])
    BY <1>5, <2>1
  <2>3. QED BY <2>1, <2>2 DEF InRing
<1>7. ASSUME NEW w \in Slots, call[w] # NoCall
      PROVE  /\ call'[w].slot # w /\ pid'[call'[w].slot] = call'[w].pid /\ call'[w].pid # 0
             /\ semOf'[call'[w].slot] = call'[w].sem
             /\ Sleeps(w)' \/ Woken(w)'
  <2> DEFINE c == call[w]
  <2>1. /\ c.slot # w /\ pid[c.slot] = c.pid /\ c.pid # 0 /\ semOf[c.slot] = c.sem
        /\ c.slot \in Slots /\ c.sem \in Sems
        /\ Sleeps(w) \/ Woken(w)
    BY <1>7 DEF WaitsInOrder, SemsAreHeld, TypeOK
  <2>2. CASE c.slot = i
    <3>1. PostedTo(i) = {c.sem} /\ semOf[i] = c.sem
      BY <1>2, <2>1, <2>2, Known
    <3>2. w # i
      BY <2>1, <2>2
    <3>3. CASE Sleeps(w)
      <4>1. ring[c.sem] = <<pid[w]>> /\ units[c.sem] = 0 /\ state[w] \in {"BLOCKED", "TERMINATED"}
        BY <3>3 DEF Sleeps
      <4>2. units'[c.sem] = 1 /\ ring'[c.sem] = <<>>
        <5>1. <<pid[w]>> # <<>> /\ Tail(<<pid[w]>>) = <<>>
          BY OneEntry
        <5> HIDE DEF c
        <5>2. c.sem \in Sems /\ c.sem \in PostedTo(i)
          BY <2>1, <3>1
        <5>3. units'[c.sem] = units[c.sem] + 1
          BY <1>1, <5>2
        <5>4. ring[c.sem] # <<>>
          BY <4>1, <5>1
        <5>5. ring'[c.sem] = Tail(ring[c.sem])
          BY <1>1, <5>2, <5>4
        <5>6. QED BY <4>1, <5>1, <5>3, <5>5
      <4>3. pid[w] \in WokenBy(i)
        <5>1. <<pid[w]>> # <<>> /\ Head(<<pid[w]>>) = pid[w]
          BY OneEntry
        <5> HIDE DEF c
        <5>2. c.sem \in {k \in PostedTo(i) : ring[k] # <<>>} /\ Head(ring[c.sem]) = pid[w]
          BY <3>1, <4>1, <5>1
        <5>3. QED BY <5>2 DEF WokenBy
      <4>4. state'[w] \in {"READY", "TERMINATED"}
        BY <1>3, <3>2, <4>1, <4>3
      <4>5. Woken(w)'
        BY <1>1, <1>4, <2>1, <2>2, <4>2, <4>4 DEF Woken
      <4>6. QED BY <1>1, <2>1, <4>5
    <3>4. CASE Woken(w)
      <4>1. ring[c.sem] = <<>> /\ units[c.sem] > 0 /\ state[w] \in {"READY", "TERMINATED"}
        BY <3>4 DEF Woken
      <4>2. units'[c.sem] > 0 /\ ring'[c.sem] = <<>>
        <5>1. units[c.sem] \in Int
          <6>1. units[c.sem] \in {Closed} \cup 0 .. UnitBound
            BY <2>1 DEF TypeOK
          <6>2. QED BY <6>1, Known DEF Closed
        <5>2. QED BY <1>1, <2>1, <3>1, <4>1, <5>1
      <4>3. state'[w] \in {"READY", "TERMINATED"}
        BY <1>3, <3>2, <4>1
      <4>4. Woken(w)'
        BY <1>1, <1>4, <2>1, <2>2, <4>2, <4>3 DEF Woken
      <4>5. QED BY <1>1, <2>1, <4>4
    <3>5. QED BY <2>1, <3>3, <3>4
  <2>3. CASE c.slot # i
    <3>1. c.sem \notin PostedTo(i)
      BY <1>2, <2>1, <2>3 DEF SemsAreHeld
    <3>2. units'[c.sem] = units[c.sem] /\ ring'[c.sem] = ring[c.sem]
      BY <1>1, <2>1, <3>1
    <3>3. state[w] = "BLOCKED" => pid[w] \notin WokenBy(i)
      <4>1. SUFFICES ASSUME state[w] = "BLOCKED", pid[w] \in WokenBy(i) PROVE FALSE
        OBVIOUS
      <4>2. InRing(semOf[i], pid[w]) /\ semOf[i] \in Sems /\ PostedTo(i) = {semOf[i]}
        BY <1>6, <4>1
      <4>3. c.sem = semOf[i]
        BY <4>1, <4>2 DEF WaitsInOrder, Live
      <4>4. QED BY <3>1, <4>2, <4>3
    <3>4. state'[w] = state[w] \/ state'[w] = "TERMINATED"
      BY <1>3, <3>3
    <3>5. CASE Sleeps(w)
      <4>1. Sleeps(w)'
        BY <1>1, <1>4, <2>1, <2>3, <3>2, <3>4, <3>5 DEF Sleeps
      <4>2. QED BY <1>1, <2>1, <4>1
    <3>6. CASE Woken(w)
      <4>1. Woken(w)'
        BY <1>1, <1>4, <2>1, <2>3, <3>2, <3>4, <3>6 DEF Woken
      <4>2. QED BY <1>1, <2>1, <4>1
    <3>7. QED BY <2>1, <3>5, <3>6
  <2>4. QED BY <2>2, <2>3
<1>8. ASSUME NEW s \in Slots, NEW k \in Sems, Live(s)', InRing(k, pid[s])'
      PROVE  state'[s] = "BLOCKED" /\ call'[s].sem = k
  <2>1. s # i /\ Live(s)
    BY <1>4, <1>8
  <2>2. InRing(k, pid[s])
    <3>1. ring[k] # <<>> => /\ Len(Tail(ring[k])) = Len(ring[k]) - 1
                            /\ \A j \in 1 .. Len(ring[k]) - 1 : Tail(ring[k])[j] = ring[k][j + 1]
      BY <1>5
    <3>2. Len(ring[k]) \in Nat
      BY <1>5
    <3>3. PICK j \in 1 .. Len(ring'[k]) : ring'[k][j] = pid[s]
      BY <1>1, <1>8 DEF InRing
    <3>4. CASE ring'[k] = ring[k]
      BY <3>3, <3>4 DEF InRing
    <3>5. CASE ring[k] # <<>> /\ ring'[k] = Tail(ring[k])
      <4>1. j + 1 \in 1 .. Len(ring[k]) /\ ring[k][j + 1] = pid[s]
        BY <3>1, <3>2, <3>3, <3>5
      <4>2. QED BY <4>1 DEF InRing
    <3>6. QED BY <1>1, <3>4, <3>5
  <2>3. state[s] = "BLOCKED" /\ call[s].sem = k
    BY <2>1, <2>2 DEF WaitsInOrder
  <2>4. pid[s] \notin WokenBy(i)
    <3>1. SUFFICES ASSUME pid[s] \in WokenBy(i) PROVE FALSE
      OBVIOUS
    <3>2. semOf[i] \in Sems /\ InRing(semOf[i], pid[s]) /\ PostedTo(i) = {semOf[i]}
          /\ ring[semOf[i]] # <<>>
      BY <1>6, <3>1
    <3>3. semOf[i] = k
      BY <2>1, <2>3, <3>2 DEF WaitsInOrder
    <3>4. call[s] # NoCall
      BY <2>3 DEF SemsAreHeld
    <3>5. Sleeps(s)
      BY <2>3, <3>4 DEF WaitsInOrder, Woken
    <3>6. ring[k] = <<pid[s]>>
      BY <2>3, <3>5 DEF Sleeps
    <3>7. ring'[k] = <<>>
      <4>1. <<pid[s]>> # <<>> /\ Tail(<<pid[s]>>) = <<>>
        BY OneEntry
      <4>2. QED BY <1>1, <3>2, <3>3, <3>6, <4>1
    <3>8. QED BY <1>8, <3>7 DEF InRing
  <2>5. QED BY <1>1, <1>3, <2>1, <2>3, <2>4
<1>9. ASSUME NEW s \in Slots, pid'[s] # 0, ~Live(s)'
      PROVE  ended'[pid'[s]] = status'[s]
  <2>1. pid[i] \in Pids /\ pid[s] \in Pids /\ ended \in [Pids -> {Alive, Unset, 0}]
        /\ status \in [Slots -> {Unset, 0}]
    BY DEF TypeOK
  <2>2. CASE s = i
    BY <1>1, <2>1, <2>2
  <2>3. CASE s # i
    BY <1>1, <1>4, <1>9, <2>1, <2>3 DEF WaitsInOrder, Numbers
  <2>4. QED BY <2>2, <2>3
<1>10. \A s \in dead' : ~Live(s)'
  <2>1. dead \subseteq Slots
    BY DEF TypeOK
  <2>2. QED BY <1>1, <1>4, <2>1 DEF WaitsInOrder
<1>11. \A w, v \in Slots :
        call'[w] # NoCall /\ call'[v] # NoCall /\ call'[w].slot = call'[v].slot => w = v
  BY <1>1 DEF WaitsInOrder
<1>12. QED BY <1>1, <1>7, <1>8, <1>9, <1>10, <1>11 DEF WaitsInOrder

(* Process s makes a semaphore and goes to sleep for slot i, which holds process
   p; the slot may have been taken just now (wait_process, create_process). *)
LEMMA WaitsBlocks ==
    ASSUME TypeOK, Numbers, SemsAreHeld, WaitsInOrder, FreeSems # {},
           NEW s \in Slots, NEW i \in Slots, NEW p, i # s, p # 0, s # Idle, running = s,
           NEW st \in [Slots -> States], NEW sems \in [Slots -> Sems \cup {NoSem}],
           NEW calls \in [Slots -> Calls], Blocks(s, i, p, st, sems, calls),
           st[i] # "TERMINATED", i \notin dead, sems[i] = NoSem,
           pid'[i] = p, ended' = ended,
           \A t \in Slots \ {i} :
                /\ st[t] = state[t] /\ sems[t] = semOf[t] /\ calls[t] = call[t]
                /\ pid'[t] = pid[t] /\ status'[t] = status[t],
           \/ st[i] = state[i] /\ calls[i] = call[i] /\ pid'[i] = pid[i]
           \/ st[i] = "READY" /\ calls[i] = NoCall /\ pid'[i] = nextPid,
           \A w \in Slots : call[w] # NoCall => call[w].slot # i
    PROVE  WaitsInOrder'
<1>0. /\ units' = [units EXCEPT ![FreeSem] = 0]
      /\ ring' = [ring EXCEPT ![FreeSem] = <<pid[s]>>]
      /\ semOf' = [sems EXCEPT ![i] = FreeSem]
      /\ call' = [calls EXCEPT ![s] = [slot |-> i, sem |-> FreeSem, pid |-> p]]
      /\ dead' = {}
      /\ \A t \in Slots : state'[t] =
           IF t \in dead THEN "TERMINATED"
           ELSE IF t = s /\ st[s] = "READY" THEN "BLOCKED" ELSE st[t]
  BY Blocked
<1>1. /\ FreeSem \in Sems /\ units[FreeSem] = Closed /\ FreeSem # NoSem
      /\ \A t \in Slots : semOf[t] # FreeSem
  BY TakesFreeSem, Known DEF SemsAreHeld
<1>2. PICK k \in Sems : k = FreeSem
  BY <1>1
<1>3. /\ call[s] = NoCall /\ state[s] \in {"READY", "TERMINATED"} /\ pid[s] # 0
  BY DEF Numbers
<1>4. /\ \A x \in Sems : units'[x] = IF x = k THEN 0 ELSE units[x]
      /\ \A x \in Sems : ring'[x] = IF x = k THEN <<pid[s]>> ELSE ring[x]
      /\ \A t \in Slots : semOf'[t] = IF t = i THEN k ELSE sems[t]
      /\ \A t \in Slots : call'[t] = IF t = s THEN [slot |-> i, sem |-> k, pid |-> p] ELSE calls[t]
  BY <1>0, <1>2 DEF TypeOK
<1>5. \A t \in Slots : state'[t] = IF t = s /\ st[s] = "READY" THEN "BLOCKED" ELSE st[t]
  <2>1. dead \subseteq Slots /\ \A t \in dead : state[t] = "TERMINATED"
    BY DEF TypeOK, WaitsInOrder, Live
  <2>2. QED BY <1>0, <2>1
<1>6. /\ st[s] = state[s] /\ pid'[s] = pid[s]
      /\ state'[s] \in {"BLOCKED", "TERMINATED"} /\ (Live(s)' => state'[s] = "BLOCKED")
  BY <1>3, <1>5 DEF Live
<1>7. /\ Live(i)'
      /\ \A t \in Slots \ {i} : Live(t)' <=> Live(t)
  BY <1>5 DEF Live
<1>8. ASSUME NEW w \in Slots, call'[w] # NoCall, w # s
      PROVE  /\ call[w] # NoCall /\ call'[w] = call[w] /\ pid'[w] = pid[w] /\ state'[w] = state[w]
             /\ call[w].slot \in Slots \ {i}
  <2>1. calls[w] # NoCall
    BY <1>4, <1>8
  <2>2. calls[w] = call[w] /\ pid'[w] = pid[w] /\ st[w] = state[w]
    BY <2>1
  <2>3. QED BY <1>4, <1>5, <1>8, <2>1, <2>2 DEF TypeOK
<1>9. ASSUME NEW w \in Slots, call'[w] # NoCall
      PROVE  /\ call'[w].slot # w /\ pid'[call'[w].slot] = call'[w].pid /\ call'[w].pid # 0
             /\ semOf'[call'[w].slot] = call'[w].sem
             /\ Sleeps(w)' \/ Woken(w)'
  <2>1. CASE w = s
    <3>1. call'[w].slot = i /\ call'[w].sem = k /\ call'[w].pid = p
      BY <1>4, <2>1
    <3>2. ring'[k] = <<pid[s]>> /\ units'[k] = 0 /\ semOf'[i] = k
      BY <1>4
    <3>3. Sleeps(w)'
      BY <1>6, <1>7, <2>1, <3>1, <3>2 DEF Sleeps
    <3>4. QED BY <2>1, <3>1, <3>2, <3>3
  <2>2. CASE w # s
    <3> DEFINE c == call[w]
    <3>1. /\ c # NoCall /\ call'[w] = c /\ pid'[w] = pid[w] /\ state'[w] = state[w]
          /\ c.slot \in Slots \ {i}
      BY <1>8, <1>9, <2>2
    <3>2. /\ c.slot # w /\ pid[c.slot] = c.pid /\ c.pid # 0 /\ semOf[c.slot] = c.sem
          /\ c.sem \in Sems
          /\ Sleeps(w) \/ Woken(w)
      BY <3>1 DEF WaitsInOrder, SemsAreHeld
    <3>3. c.sem # k
      BY <1>1, <1>2, <3>1, <3>2
    <3>4. /\ units'[c.sem] = units[c.sem] /\ ring'[c.sem] = ring[c.sem]
          /\ semOf'[c.slot] = c.sem /\ pid'[c.slot] = c.pid
          /\ (Live(c.slot))' <=> Live(c.slot)
      BY <1>4, <1>7, <3>1, <3>2, <3>3
    <3>5. Sleeps(w)' \/ Woken(w)'
      BY <3>1, <3>2, <3>4 DEF Sleeps, Woken, Live
    <3>6. QED BY <3>1, <3>2, <3>4, <3>5
  <2>3. QED BY <2>1, <2>2
<1>10. ASSUME NEW w \in Slots, NEW v \in Slots, call'[w] # NoCall, call'[v] # NoCall,
              call'[w].slot = call'[v].slot
       PROVE  w = v
  <2>1. call'[s].slot = i
    BY <1>4
  <2>2. CASE w = s \/ v = s
    BY <1>8, <1>10, <2>1, <2>2
  <2>3. CASE w # s /\ v # s
    BY <1>8, <1>10, <2>3 DEF WaitsInOrder
  <2>4. QED BY <2>2, <2>3
<1>11. ASSUME NEW t \in Slots, NEW x \in Sems, Live(t)', InRing(x, pid[t])'
       PROVE  state'[t] = "BLOCKED" /\ call'[t].sem = x
  <2>1. pid \in [Slots -> Pids] /\ nextPid \in Nat /\ Pids \subseteq Nat
    <3>1. pid \in [Slots -> Pids] /\ nextPid \in 2 .. PidBound
      BY DEF TypeOK
    <3>2. QED BY <3>1, Known
  <2>2. \A r \in Slots : pid[r] < nextPid
    BY DEF Numbers
  <2>3. PICK j \in 1 .. Len(ring'[x]) : ring'[x][j] = pid'[t]
    BY <1>11 DEF InRing
  <2>4. CASE x = k
    <3>1. pid'[t] = pid[s]
      BY <1>4, <2>3, <2>4
    <3>2. t = s
      BY <1>3, <2>1, <2>2, <3>1 DEF Numbers
    <3>3. QED BY <1>4, <1>6, <1>11, <2>4, <3>2
  <2>5. CASE x # k
    <3>1. ring'[x] = ring[x]
      BY <1>4, <2>5
    <3>2. pid'[t] \in 1 .. nextPid - 1
      BY <2>3, <3>1 DEF SemsAreHeld
    <3>3. pid'[t] = pid[t] /\ st[t] = state[t] /\ calls[t] = call[t]
      BY <2>1, <3>2
    <3>4. Live(t)
      BY <1>5, <1>11, <3>3 DEF Live
    <3>5. state[t] = "BLOCKED" /\ call[t].sem = x
      BY <2>3, <3>1, <3>3, <3>4 DEF WaitsInOrder, InRing
    <3>6. t # s
      BY <1>3, <3>5
    <3>7. QED BY <1>4, <1>5, <3>3, <3>5, <3>6
  <2>6. QED BY <2>4, <2>5
<1>12. \A t \in Slots : pid'[t] # 0 /\ ~Live(t)' => ended'[pid'[t]] = status'[t]
  BY <1>7 DEF WaitsInOrder
<1>13. QED BY <1>0, <1>9, <1>10, <1>11, <1>12 DEF WaitsInOrder

LEMMA WaitsCreate ==
    ASSUME TypeOK, Numbers, SemsAreHeld, WaitsInOrder,
           NEW s \in Slots, NEW asked \in BOOLEAN, NEW memory \in BOOLEAN,
           Create(s, asked, memory), waitCalm'
    PROVE  WaitsInOrder'
<1>0. PICK i \in Slots : i = NewSlot
  BY CreateSteps
<1> DEFINE st    == WithNew(s, memory)
           sems  == [semOf EXCEPT ![i] = NoSem]
           calls == [call EXCEPT ![i] = NoCall]
<1>1. /\ running = s /\ s # Idle /\ i # s /\ i # Idle /\ ~Live(i)
      /\ pid' = [pid EXCEPT ![i] = nextPid] /\ ended' = ended
      /\ status' = [status EXCEPT ![i] = Unset]
      /\ ~Owed(i) /\ i \notin dead
      /\ \/ FreeSems # {} /\ Fits(s, memory) /\ Blocks(s, i, nextPid, st, sems, calls)
         \/ /\ state' = st /\ semOf' = sems /\ call' = calls
            /\ units' = units /\ ring' = ring /\ running' = running /\ dead' = dead
  BY <1>0, CreateSteps DEF CreationDisturbs, Live
<1>2. /\ st \in [Slots -> States] /\ st[i] # "TERMINATED"
      /\ Fits(s, memory) => st[i] = "READY"
      /\ \A t \in Slots \ {i} : st[t] = state[t]
  BY <1>0 DEF WithNew, States, TypeOK
<1>3. /\ sems \in [Slots -> Sems \cup {NoSem}] /\ sems[i] = NoSem
      /\ \A t \in Slots \ {i} : sems[t] = semOf[t]
  BY DEF TypeOK
<1>4. /\ calls \in [Slots -> Calls] /\ calls[i] = NoCall
      /\ \A t \in Slots \ {i} : calls[t] = call[t]
  <2>1. NoCall \in Calls
    BY Known DEF NoCall, Calls
  <2>2. call \in [Slots -> Calls]
    BY DEF TypeOK, Calls
  <2>3. QED BY <2>1, <2>2
<1>5. /\ pid'[i] = nextPid /\ nextPid # 0 /\ nextPid \in Nat
      /\ \A t \in Slots \ {i} : pid'[t] = pid[t] /\ status'[t] = status[t]
  BY <1>1 DEF TypeOK
<1>6. \A w \in Slots : call[w] # NoCall => call[w].slot # i
  BY <1>1 DEF Owed
<1> HIDE DEF st, sems, calls
<1>7. CASE FreeSems # {} /\ Fits(s, memory) /\ Blocks(s, i, nextPid, st, sems, calls)
  BY <1>1, <1>2, <1>3, <1>4, <1>5, <1>6, <1>7, WaitsBlocks
<1>8. CASE /\ state' = st /\ semOf' = sems /\ call' = calls
           /\ units' = units /\ ring' = ring /\ dead' = dead
  <2>1. \A t \in Slots \ {i} : Live(t)' <=> Live(t)
    BY <1>2, <1>8 DEF Live
  <2>2. Live(i)'
    BY <1>2, <1>8 DEF Live
  <2>3. ASSUME NEW w \in Slots, call'[w] # NoCall
        PROVE  /\ w # i /\ call[w] # NoCall /\ call'[w] = call[w] /\ pid'[w] = pid[w]
               /\ state'[w] = state[w] /\ call[w].slot \in Slots \ {i}
    <3>1. w # i
      BY <1>4, <1>8, <2>3
    <3>2. QED BY <1>2, <1>4, <1>5, <1>6, <1>8, <2>3, <3>1 DEF TypeOK
  <2>4. ASSUME NEW w \in Slots, call'[w] # NoCall
        PROVE  /\ call'[w].slot # w /\ pid'[call'[w].slot] = call'[w].pid /\ call'[w].pid # 0
               /\ semOf'[call'[w].slot] = call'[w].sem
               /\ Sleeps(w)' \/ Woken(w)'
    <3> DEFINE c == call[w]
    <3>1. /\ c # NoCall /\ call'[w] = c /\ pid'[w] = pid[w] /\ state'[w] = state[w]
          /\ c.slot \in Slots \ {i}
      BY <2>3, <2>4
    <3>2. /\ c.slot # w /\ pid[c.slot] = c.pid /\ c.pid # 0 /\ semOf[c.slot] = c.sem
          /\ Sleeps(w) \/ Woken(w)
      BY <3>1 DEF WaitsInOrder
    <3>3. /\ semOf'[c.slot] = c.sem /\ pid'[c.slot] = c.pid
          /\ (Live(c.slot))' <=> Live(c.slot)
      BY <1>3, <1>5, <1>8, <2>1, <3>1, <3>2
    <3>4. Sleeps(w)' \/ Woken(w)'
      BY <1>8, <3>1, <3>2, <3>3 DEF Sleeps, Woken, Live
    <3>5. QED BY <3>1, <3>2, <3>3, <3>4
  <2>5. \A w, v \in Slots :
            call'[w] # NoCall /\ call'[v] # NoCall /\ call'[w].slot = call'[v].slot => w = v
    BY <2>3 DEF WaitsInOrder
  <2>6. ASSUME NEW t \in Slots, NEW x \in Sems, Live(t)', InRing(x, pid[t])'
        PROVE  state'[t] = "BLOCKED" /\ call'[t].sem = x
    <3>1. InRing(x, pid'[t])
      BY <1>8, <2>6 DEF InRing
    <3>2. pid'[t] \in 1 .. nextPid - 1
      BY <3>1 DEF InRing, SemsAreHeld
    <3>3. t # i
      BY <1>5, <3>2
    <3>4. QED BY <1>2, <1>4, <1>5, <1>8, <2>1, <2>6, <3>1, <3>3 DEF WaitsInOrder
  <2>7. \A t \in Slots : pid'[t] # 0 /\ ~Live(t)' => ended'[pid'[t]] = status'[t]
    BY <1>1, <1>5, <2>1, <2>2 DEF WaitsInOrder
  <2>8. \A t \in dead' : ~Live(t)'
    <3>1. dead \subseteq Slots
      BY DEF TypeOK
    <3>2. QED BY <1>1, <1>8, <2>1, <3>1 DEF WaitsInOrder
  <2>9. QED BY <2>4, <2>5, <2>6, <2>7, <2>8 DEF WaitsInOrder
<1>9. QED BY <1>1, <1>7, <1>8

LEMMA WaitsDispatch ==
    ASSUME TypeOK, Numbers, SemsAreHeld, WaitsInOrder, NEW s \in Slots, Dispatch(s)
    PROVE  /\ WaitsInOrder'
           /\ call[s] # NoCall =>
                /\ ended[call[s].pid] # Alive /\ answer'[s] = ended[call[s].pid]
                /\ \A w \in Slots \ {s} : call'[w] = call[w]
<1>0. /\ state[s] = "READY" /\ s \notin dead /\ dead' = {}
      /\ pid' = pid /\ status' = status /\ ended' = ended
      /\ \A t \in Slots : t \in dead => state'[t] = "TERMINATED"
  BY Dispatched DEF ghosts
<1>1. dead \subseteq Slots /\ \A t \in dead : state[t] = "TERMINATED"
  BY DEF TypeOK, WaitsInOrder, Live
<1>2. CASE call[s] = NoCall /\ (\A t \in Slots \ dead : state'[t] = state[t]) /\ UNCHANGED <<semOf, waits>>
  <2>1. \A t \in Slots : state'[t] = state[t]
    BY <1>0, <1>1, <1>2
  <2>2. \A t \in Slots : Live(t)' <=> Live(t)
    BY <2>1 DEF Live
  <2>3. \A w \in Slots : call[w] # NoCall => call[w].slot \in Slots
    BY DEF TypeOK
  <2>4. \A w \in Slots : call[w] # NoCall => (Sleeps(w)' <=> Sleeps(w)) /\ (Woken(w)' <=> Woken(w))
    BY <1>0, <1>2, <2>1, <2>3 DEF Sleeps, Woken, waits, Live
  <2>5. \A k \in Sems, p \in Pids : InRing(k, p)' <=> InRing(k, p)
    BY <1>2 DEF InRing, waits
  <2>6. \A t \in Slots, k \in Sems : InRing(k, pid[t])' <=> InRing(k, pid[t])
    BY <1>0, <1>2 DEF InRing, waits
  <2>7. QED BY <1>0, <1>2, <2>1, <2>2, <2>4, <2>6 DEF WaitsInOrder, waits
<1>3. CASE call[s] # NoCall
  <2> DEFINE c == call[s]
  <2>1. /\ c.slot # s /\ pid[c.slot] = c.pid /\ c.pid # 0 /\ semOf[c.slot] = c.sem
        /\ c.slot \in Slots /\ c.sem \in Sems /\ c.pid \in Pids
        /\ Woken(s)
    BY <1>0, <1>3 DEF WaitsInOrder, SemsAreHeld, TypeOK, Sleeps
  <2>2. /\ ring[c.sem] = <<>> /\ units[c.sem] # 0 /\ ~Live(c.slot) /\ c.sem # NoSem
    <3>1. ring[c.sem] = <<>> /\ units[c.sem] > 0 /\ ~Live(c.slot)
      BY <2>1 DEF Woken
    <3>2. units[c.sem] \in {Closed} \cup 0 .. UnitBound
      BY <2>1 DEF TypeOK
    <3>3. QED BY <2>1, <3>1, <3>2, Known
  <2>3. /\ Back(s)
        /\ \A t \in Slots \ dead : state'[t] = state[t] \/
                (state[t] = "BLOCKED" /\ state'[t] = "READY" /\
                 semOf[c.slot] # NoSem /\ pid[t] \in ToSet(ring[semOf[c.slot]]))
    BY <1>3, <2>2, Dispatched
  <2>4. \A p : p \notin ToSet(<<>>)
    BY DEF ToSet
  <2>5. \A t \in Slots : state'[t] = state[t]
    BY <1>0, <1>1, <2>1, <2>2, <2>3, <2>4
  <2>6. /\ \A x \in Sems : x # c.sem => units'[x] = units[x]
        /\ \A x \in Sems : ring'[x] = ring[x]
        /\ semOf' = [semOf EXCEPT ![c.slot] = NoSem]
        /\ answer' = [answer EXCEPT ![s] = status[c.slot]]
        /\ call' = [call EXCEPT ![s] = NoCall]
    BY <2>1, <2>2, <2>3, BackSteps
  <2>7. /\ call'[s] = NoCall /\ answer'[s] = status[c.slot]
        /\ \A w \in Slots \ {s} : call'[w] = call[w]
        /\ \A t \in Slots \ {c.slot} : semOf'[t] = semOf[t]
    BY <2>1, <2>6 DEF TypeOK
  <2>8. ended[c.pid] = status[c.slot] /\ status[c.slot] # Alive
    <3>1. status[c.slot] \in {Unset, 0}
      BY <2>1 DEF TypeOK
    <3>2. QED BY <2>1, <2>2, <3>1 DEF WaitsInOrder, Alive, Unset
  <2>9. \A t \in Slots : Live(t)' <=> Live(t)
    BY <2>5 DEF Live
  <2>10. ASSUME NEW w \in Slots, call'[w] # NoCall
         PROVE  /\ call'[w].slot # w /\ pid'[call'[w].slot] = call'[w].pid /\ call'[w].pid # 0
                /\ semOf'[call'[w].slot] = call'[w].sem
                /\ Sleeps(w)' \/ Woken(w)'
    <3> DEFINE d == call[w]
    <3>1. w # s /\ call'[w] = d /\ d # NoCall /\ d.slot \in Slots
      BY <2>7, <2>10 DEF TypeOK
    <3>2. /\ d.slot # w /\ pid[d.slot] = d.pid /\ d.pid # 0 /\ semOf[d.slot] = d.sem
          /\ d.sem \in Sems
          /\ Sleeps(w) \/ Woken(w)
      BY <3>1 DEF WaitsInOrder, SemsAreHeld
    <3>3. d.slot # c.slot
      BY <1>3, <3>1 DEF WaitsInOrder
    <3>4. d.sem # c.sem
      BY <2>1, <2>2, <3>1, <3>2, <3>3 DEF SemsAreHeld
    <3>5. /\ semOf'[d.slot] = d.sem /\ pid'[d.slot] = d.pid /\ pid'[w] = pid[w]
          /\ units'[d.sem] = units[d.sem] /\ ring'[d.sem] = ring[d.sem]
          /\ state'[w] = state[w]
          /\ (Live(d.slot))' <=> Live(d.slot)
      BY <1>0, <2>5, <2>6, <2>7, <2>9, <3>1, <3>2, <3>3, <3>4
    <3>6. Sleeps(w)' \/ Woken(w)'
      BY <3>1, <3>2, <3>5 DEF Sleeps, Woken, Live
    <3>7. QED BY <3>1, <3>2, <3>5, <3>6
  <2>11. \A w, v \in Slots :
            call'[w] # NoCall /\ call'[v] # NoCall /\ call'[w].slot = call'[v].slot => w = v
    BY <2>7 DEF WaitsInOrder
  <2>12. ASSUME NEW t \in Slots, NEW x \in Sems, Live(t)', InRing(x, pid[t])'
         PROVE  state'[t] = "BLOCKED" /\ call'[t].sem = x
    <3>1. Live(t) /\ InRing(x, pid[t])
      BY <1>0, <2>6, <2>9, <2>12 DEF InRing
    <3>2. state[t] = "BLOCKED" /\ call[t].sem = x
      BY <3>1 DEF WaitsInOrder
    <3>3. t # s
      BY <1>0, <3>2
    <3>4. QED BY <2>5, <2>7, <3>2, <3>3
  <2>13. \A t \in Slots : pid'[t] # 0 /\ ~Live(t)' => ended'[pid'[t]] = status'[t]
    BY <1>0, <2>9 DEF WaitsInOrder
  <2>14. QED BY <1>0, <2>7, <2>8, <2>10, <2>11, <2>12, <2>13 DEF WaitsInOrder
<1>4. QED BY <1>2, <1>3, Dispatched

WaitInv == waitCalm => WaitsInOrder

LEMMA WaitStep ==
    ASSUME TypeOK, Numbers, SemsAreHeld, WaitInv, [Next]_vars
    PROVE  WaitInv'
<1> SUFFICES ASSUME waitCalm' PROVE WaitsInOrder'
  BY DEF WaitInv
<1>1. CASE UNCHANGED vars
  BY <1>1 DEF vars, tables, waits, ghosts, WaitInv, WaitsInOrder, Sleeps, Woken, Live, InRing
<1>2. ASSUME NEW i \in Slots, NEW exit \in {Unset, 0}, EndStep(i, exit) PROVE WaitsInOrder'
  BY <1>2, WaitsEnds DEF EndStep, Ends, WaitInv
<1>3. ASSUME NEW s \in Slots, Dispatch(s) PROVE WaitsInOrder'
  <2>1. waitCalm
    BY <1>3, Dispatched DEF ghosts
  <2>2. QED BY <1>3, <2>1, WaitsDispatch DEF WaitInv
<1>4. ASSUME NEW s \in Slots, NEW asked \in BOOLEAN, NEW memory \in BOOLEAN,
             Create(s, asked, memory)
      PROVE  WaitsInOrder'
  <2>1. waitCalm
    BY <1>4, CreateSteps DEF CreationDisturbs
  <2>2. QED BY <1>4, <2>1, WaitsCreate DEF WaitInv
<1>5. ASSUME NEW s \in Slots, NEW p \in Pids, Wait(s, p) PROVE WaitsInOrder'
  <2>1. PICK i \in SlotOf(p) : /\ state[i] # "TERMINATED" /\ semOf[i] = NoSem
                               /\ Blocks(s, i, p, state, semOf, call)
    BY <1>5 DEF Wait
  <2>2. /\ UNCHANGED <<pid, status, waitCalm, ended>>
        /\ i \in Slots /\ pid[i] = p /\ i # s /\ p # 0 /\ s # Idle /\ running = s
        /\ FreeSems # {}
    BY <1>5, <2>1 DEF Wait, ghosts, SlotOf
  <2>3. WaitsInOrder
    BY <2>2 DEF WaitInv
  <2>4. i \notin dead
    BY <2>1, <2>3 DEF WaitsInOrder, Live
  <2>5. /\ state \in [Slots -> States] /\ semOf \in [Slots -> Sems \cup {NoSem}]
        /\ call \in [Slots -> Calls]
    BY DEF TypeOK, States, Calls
  <2>6. \A w \in Slots : call[w] # NoCall => call[w].slot # i
    BY <2>1, <2>3, Known DEF WaitsInOrder, SemsAreHeld
  <2>7. QED BY <2>1, <2>2, <2>3, <2>4, <2>5, <2>6, WaitsBlocks
<1>6. QED BY <1>1, <1>2, <1>3, <1>4, <1>5, Steps

LEMMA WaitImplies ==
    ASSUME SemsAreHeld, WaitInv
    PROVE  SleepsForTheLiving
<1> SUFFICES ASSUME waitCalm, NEW w \in Slots, state[w] = "BLOCKED"
             PROVE  LET c == call[w] IN
                    /\ c # NoCall /\ pid[c.slot] = c.pid /\ Live(c.slot)
                    /\ semOf[c.slot] = c.sem /\ units[c.sem] = 0 /\ ring[c.sem] = <<pid[w]>>
  BY DEF SleepsForTheLiving
<1>1. call[w] # NoCall
  BY DEF SemsAreHeld
<1>2. /\ pid[call[w].slot] = call[w].pid /\ semOf[call[w].slot] = call[w].sem
      /\ Sleeps(w) \/ Woken(w)
  BY <1>1 DEF WaitInv, WaitsInOrder
<1>3. QED BY <1>1, <1>2 DEF Sleeps, Woken

-----------------------------------------------------------------------------
Inv == TypeOK /\ Numbers /\ SemsAreHeld /\ TokenInv /\ WaitInv

LEMMA InvInit == Init => Inv
BY TypeInit, NumbersInit, TokenInit, WaitsInit DEF Inv, TokenInv, WaitInv

LEMMA InvStep == Inv /\ [Next]_vars => Inv'
<1> SUFFICES ASSUME Inv, [Next]_vars PROVE Inv'
  OBVIOUS
<1>1. TypeOK'
  BY TypeStep DEF Inv
<1>2. Numbers'
  BY NumbersStep DEF Inv
<1>3. SemsAreHeld'
  BY <1>1, SemsStep DEF Inv
<1>4. TokenInv'
  BY TokenStep DEF Inv
<1>5. WaitInv'
  BY WaitStep DEF Inv
<1>6. QED BY <1>1, <1>2, <1>3, <1>4, <1>5 DEF Inv

(* All of it at once, through every creation, wait, end and reuse of a slot. *)
THEOREM Invariant == Spec => []Inv
BY InvInit, InvStep, PTL DEF Spec

(* The foreground is handed down and back like a stack (create_process,
   kill_process), however many slots are used again. *)
THEOREM ForegroundCorrect == Spec => []ForegroundIsAStack
<1>1. Inv => ForegroundIsAStack
  BY TokenImplies DEF Inv
<1>2. QED BY <1>1, Invariant, PTL

(* Nobody sleeps in wait_process for a process that has ended. *)
THEOREM WaitersCorrect == Spec => []SleepsForTheLiving
<1>1. Inv => SleepsForTheLiving
  BY WaitImplies DEF Inv
<1>2. QED BY <1>1, Invariant, PTL

TellsTheEnd ==
    \A w \in Slots :
        waitCalm' /\ call[w] # NoCall /\ call'[w] = NoCall /\ pid'[w] = pid[w] =>
            ended[call[w].pid] # Alive /\ answer'[w] = ended[call[w].pid]

LEMMA StepTells ==
    ASSUME Inv, [Next]_vars
    PROVE  TellsTheEnd
<1> SUFFICES ASSUME NEW w \in Slots, waitCalm', call[w] # NoCall, call'[w] = NoCall, pid'[w] = pid[w]
             PROVE  ended[call[w].pid] # Alive /\ answer'[w] = ended[call[w].pid]
  BY DEF TellsTheEnd
<1>1. CASE UNCHANGED vars
  BY <1>1 DEF vars, waits
<1>2. ASSUME NEW i \in Slots, NEW exit \in {Unset, 0}, EndStep(i, exit) PROVE FALSE
  BY <1>2 DEF EndStep, Ends
<1>3. ASSUME NEW s \in Slots, Dispatch(s)
      PROVE  ended[call[w].pid] # Alive /\ answer'[w] = ended[call[w].pid]
  <2>1. waitCalm
    BY <1>3, Dispatched DEF ghosts, Inv
  <2>2. call[s] = NoCall => call' = call
    BY <1>3, Dispatched DEF waits, Inv
  <2>3. call[s] # NoCall =>
            /\ ended[call[s].pid] # Alive /\ answer'[s] = ended[call[s].pid]
            /\ \A v \in Slots \ {s} : call'[v] = call[v]
    BY <1>3, <2>1, WaitsDispatch DEF Inv, WaitInv
  <2>4. QED BY <2>2, <2>3
<1>4. ASSUME NEW s \in Slots, NEW asked \in BOOLEAN, NEW memory \in BOOLEAN,
             Create(s, asked, memory)
      PROVE  FALSE
  <2>1. PICK i \in Slots : i = NewSlot
    BY <1>4, CreateSteps
  <2> DEFINE st    == WithNew(s, memory)
             sems  == [semOf EXCEPT ![i] = NoSem]
             calls == [call EXCEPT ![i] = NoCall]
  <2>2. /\ pid' = [pid EXCEPT ![i] = nextPid]
        /\ \/ FreeSems # {} /\ Blocks(s, i, nextPid, st, sems, calls)
           \/ call' = calls
    BY <1>4, <2>1, CreateSteps
  <2>3. w # i
    <3>1. pid[i] < nextPid /\ pid[i] \in Nat /\ nextPid \in Nat /\ pid'[i] = nextPid
      BY <2>2, Known DEF Inv, Numbers, TypeOK
    <3>2. QED BY <3>1
  <2>4. calls[w] # NoCall
    BY <2>3 DEF Inv, TypeOK
  <2> HIDE DEF st, sems, calls
  <2>5. CASE FreeSems # {} /\ Blocks(s, i, nextPid, st, sems, calls)
    <3>1. PICK k \in Sems : call' = [calls EXCEPT ![s] = [slot |-> i, sem |-> k, pid |-> nextPid]]
      <4>1. FreeSem \in Sems
        BY <2>5, TakesFreeSem
      <4>2. QED BY <2>5, <4>1 DEF Blocks, FreeSem
    <3>2. QED BY <2>4, <3>1, Known DEF NoCall
  <2>6. QED BY <2>2, <2>4, <2>5
<1>5. ASSUME NEW s \in Slots, NEW p \in Pids, Wait(s, p) PROVE FALSE
  <2>1. PICK i \in SlotOf(p) : Blocks(s, i, p, state, semOf, call)
    BY <1>5 DEF Wait
  <2>2. FreeSem \in Sems /\ call' = [call EXCEPT ![s] = [slot |-> i, sem |-> FreeSem, pid |-> p]]
    BY <1>5, <2>1, TakesFreeSem DEF Wait, Blocks, FreeSem
  <2>3. QED BY <2>2, Known DEF NoCall, Inv, TypeOK
<1>6. QED BY <1>1, <1>2, <1>3, <1>4, <1>5, Steps DEF Inv

(* A wait_process that has blocked returns when the process it was for has
   ended, never before, and with the status it ended with. *)
THEOREM WaitCorrect == Spec => WaitTellsTheEnd
<1>1. Inv /\ [Next]_vars => [TellsTheEnd]_vars
  BY StepTells
<1>2. QED BY <1>1, Invariant, PTL DEF Spec, WaitTellsTheEnd, TellsTheEnd
=============================================================================
