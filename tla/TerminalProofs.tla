--------------------------- MODULE TerminalProofs ---------------------------
(***************************************************************************)
(* For any number of processes, pipes and semaphores, any size of a pipe   *)
(* and any bytes: the types, the owners of the semaphores, the units that  *)
(* count the bytes, who is blocked, and that the pipes implement the       *)
(* channels of ByteChannel.                                                *)
(*                                                                         *)
(* PStep has every step of Spec, and every step of the shell's             *)
(* specification too: it leaves open which bytes are typed, asked for and  *)
(* written.  PInv is its inductive invariant.                              *)
(***************************************************************************)
EXTENDS Terminal, FiniteSetTheorems, FunctionTheorems, WellFoundedInduction, TLAPS

States == {"NEW", "STILLBORN", "READY", "BLOCKED", "WAITING", "TERMINATED"}
Calls  == [op : {"none", "read", "write"}, fd : Fds, sem : Sems \cup {Free}, todo : Seq(Bytes)]
Moved  == [by : {"process", "keyboard"}, byte : Bytes]

-----------------------------------------------------------------------------
(* The steps. *)
Typing(b) ==
    /\ Interruptible /\ Typed(b, state)
    /\ UNCHANGED <<awaited, front, call, cpu, steady, used, read_pos, read_sem, write_sem, calm, smooth>>
Interrupting ==
    /\ Interruptible /\ front # Shell /\ Interrupt \in Bytes
    /\ Ends(front)
    /\ Typed(Interrupt, Dead(front))
    /\ cpu' = cpu \/ (Outside(front) /\ cpu' = front)
    /\ steady' = (steady /\ (call[front] = NoCall \/ SemFor(front) = read_sem[STDIN]))
    /\ UNCHANGED <<used, read_pos, read_sem, write_sem, calm, smooth>>
Entering(p, op, f, todo) ==
    /\ todo # <<>> /\ (op = "read" /\ f = STDIN => IsForeground(p))
    /\ Enters(p, op, f, todo)
PStep ==
    \/ \E p \in Procs : Open(p) \/ Exit(p) \/ GivesUp(p) \/ Blocks(p) \/ Takes(p) \/ Gives(p)
    \/ \E p \in Procs, f \in Fds : Close(p, f)
    \/ \E p \in Procs, f \in Fds, op \in {"read", "write"}, todo \in Seq(Bytes) : Entering(p, op, f, todo)
    \/ \E p \in Procs, q \in Procs : Kill(p, q)
    \/ \E q \in Procs, asked \in BOOLEAN : Start(q, asked)
    \/ \E b \in Bytes : Typing(b)
    \/ Interrupting
    \/ Tick

-----------------------------------------------------------------------------
(* The inductive invariant.  Who is in a call: it has the processor or a
   semaphore that it was blocked in, it has ended only if it is the one that
   still has the processor, and reads standard input only from in front. *)
CallOK(p) ==
    /\ call[p] = NoCall \/ (call[p].op \in {"read", "write"} /\ call[p].todo # <<>>)
    /\ cpu = p => state[p] \in {"READY", "TERMINATED"} /\ call[p].sem = Free
    /\ cpu = p /\ call[p] = NoCall => state[p] = "TERMINATED"
    /\ call[p] # NoCall /\ cpu # p => call[p].sem # Free /\ state[p] # "TERMINATED"
    /\ state[p] = "BLOCKED" => call[p] # NoCall
    /\ state[p] \in {"NEW", "STILLBORN", "WAITING"} => call[p] = NoCall
    /\ call[p].op = "read" /\ call[p].fd = STDIN => front = p
CallsOK == \A p \in Procs : CallOK(p)

(* The shell is there, who it waits for and who is in front have not ended, and
   while smooth they are the same. *)
Alive == {"READY", "BLOCKED"}
FrontOK ==
    /\ state[Shell] \notin {"NEW", "STILLBORN", "TERMINATED"}
    /\ \A p \in Procs : state[p] = "WAITING" => p = Shell
    /\ awaited = Nobody => state[Shell] # "WAITING"
    /\ awaited # Nobody => awaited # Shell /\ state[awaited] \in Alive /\ state[Shell] = "WAITING"
    /\ front # Shell => state[front] \in Alive \cup {"STILLBORN"}
    /\ smooth => front = IF awaited = Nobody THEN Shell ELSE awaited

(* Who has the processor is in no ring. *)
AloneOK == \A k \in Sems : \A i \in 1 .. Len(ring[k]) : ring[k][i] # cpu

(* The semaphores in use are those of the open pipes, each its own. *)
OwnersOK ==
    /\ used[STDIN]
    /\ \A f \in Fds : used[f] => /\ read_sem[f] \in Sems /\ write_sem[f] \in Sems
                                 /\ units[read_sem[f]] # Free /\ units[write_sem[f]] # Free
                                 /\ read_sem[f] # write_sem[f]
    /\ \A f \in Fds : \A g \in Fds \ {f} : used[f] /\ used[g] =>
            /\ read_sem[f] # read_sem[g] /\ write_sem[f] # write_sem[g]
            /\ read_sem[f] # write_sem[g]
    /\ \A k \in Sems : units[k] # Free => \E f \in Fds : used[f] /\ k \in {read_sem[f], write_sem[f]}

(* The rings rg of semaphores with the units u, when the states are st and the
   calls cl: those in ring k are blocked in k or have ended, nobody is there
   twice, and who is blocked is in the ring of its semaphore. *)
RingsOK(u, rg, st, cl) ==
    /\ \A k \in Sems : u[k] = Free => rg[k] = <<>>
    /\ \A k \in Sems : \A i \in 1 .. Len(rg[k]) :
            st[rg[k][i]] = "TERMINATED" \/ (st[rg[k][i]] = "BLOCKED" /\ cl[rg[k][i]].sem = k)
    /\ \A k \in Sems : \A i, j \in 1 .. Len(rg[k]) : rg[k][i] = rg[k][j] => i = j
    /\ \A p \in Procs : st[p] = "BLOCKED" =>
            /\ cl[p].sem \in Sems
            /\ \E i \in 1 .. Len(rg[cl[p].sem]) : rg[cl[p].sem][i] = p

(* While calm: a call is in the semaphore of its pipe, or the pipe was closed
   and none of the semaphores that the call can touch is in use. *)
SemOf(p) == IF call[p].op = "read" THEN read_sem[call[p].fd] ELSE write_sem[call[p].fd]
CutOK(p) ==
    call[p] # NoCall =>
        IF used[call[p].fd]
        THEN call[p].sem \in {Free, SemOf(p)}
        ELSE IsFree(read_sem[call[p].fd]) /\ IsFree(write_sem[call[p].fd]) /\ IsFree(call[p].sem)

(* UnitsCountBytes without %. *)
UnitsOK(f) ==
    used[f] =>
        /\ units[read_sem[f]] \in Places
        /\ write_pos[f] = read_pos[f] + units[read_sem[f]]
           \/ write_pos[f] = read_pos[f] + units[read_sem[f]] - BufferSize
        /\ units[write_sem[f]] = BufferSize - 1 - units[read_sem[f]]

(* While calm and steady: those in the ring of a semaphore in use are blocked,
   and each unit that they could have is for somebody who was woken. *)
Woken(st, cl, k) == {p \in Procs : st[p] = "READY" /\ cl[p].sem = k}
DeafOK(u, rg, st, cl) ==
    \A k \in Sems : u[k] # Free =>
        /\ \A i \in 1 .. Len(rg[k]) : st[rg[k][i]] = "BLOCKED"
        /\ rg[k] # <<>> => u[k] <= Cardinality(Woken(st, cl, k))

PInv ==
    /\ PTypeOK /\ CallsOK /\ FrontOK /\ OwnersOK /\ AloneOK
    /\ RingsOK(units, ring, state, call)
    /\ calm => (\A p \in Procs : CutOK(p)) /\ (\A f \in Fds : UnitsOK(f))
    /\ calm /\ steady => DeafOK(units, ring, state, call)

-----------------------------------------------------------------------------
(* What the proofs know of the constants, and arithmetic. *)
LEMMA Known ==
    /\ STDIN \in Fds /\ Fds \subseteq Nat /\ Sems \subseteq Nat /\ 0 \in Sems /\ 1 \in Sems
    /\ Free \notin Sems /\ Free = -1
    /\ BufferSize \in Nat /\ BufferSize >= 2
    /\ \A x : x \in Places <=> x \in Nat /\ x < BufferSize
    /\ Shell \in Procs /\ Nobody \notin Procs /\ Zero \in Bytes
    /\ IsFiniteSet(Procs)
    /\ NoCall \in Calls /\ NoCall.sem = Free /\ NoCall.op = "none" /\ NoCall.fd = STDIN
BY PipesOK DEF PipesOK, Fds, Sems, Places, Free, STDIN, NoCall, Calls

LEMMA Modulo ==
    \A n \in Nat \ {0} : \A x \in 0 .. 2 * n - 1 : x % n = IF x < n THEN x ELSE x - n
OBVIOUS

LEMMA NextPlace ==
    ASSUME NEW x \in Places
    PROVE  /\ (x + 1) % BufferSize \in Places
           /\ (x + 1) % BufferSize = IF x + 1 < BufferSize THEN x + 1 ELSE 0
<1>1. BufferSize \in Nat \ {0} /\ x \in Nat /\ x < BufferSize
  BY Known
<1>2. x + 1 \in 0 .. 2 * BufferSize - 1
  BY <1>1
<1>3. \A y \in 0 .. 2 * BufferSize - 1 :
        y % BufferSize = IF y < BufferSize THEN y ELSE y - BufferSize
  BY <1>1, Modulo
<1>4. (x + 1) % BufferSize = IF x + 1 < BufferSize THEN x + 1 ELSE x + 1 - BufferSize
  BY <1>1, <1>2, <1>3
<1>5. QED BY <1>1, <1>4, Known

(* A set of natural numbers has a least one. *)
LEMMA Least ==
    ASSUME NEW S \in SUBSET Nat, S # {}
    PROVE  Lowest(S) \in S
<1> DEFINE Upto(n) == S \cap 0 .. n
           T == {Upto(n) : n \in S}
<1>1. T \subseteq FiniteSubsetsOf(S) /\ T # {}
  <2>1. \A n \in S : IsFiniteSet(Upto(n))
    <3> TAKE n \in S
    <3>1. IsFiniteSet(0 .. n)
      BY FS_Interval
    <3>2. QED BY <3>1, FS_Subset
  <2>2. QED BY <2>1 DEF FiniteSubsetsOf
<1>2. PICK x \in T : \A y \in T : ~ (<<y, x>> \in StrictSubsetOrdering(S))
  <2>1. IsWellFoundedOn(StrictSubsetOrdering(S), FiniteSubsetsOf(S))
    BY FS_StrictSubsetOrderingWellFounded
  <2> HIDE DEF T
  <2>2. QED BY <1>1, <2>1, WFMin
<1>3. PICK m \in S : x = Upto(m)
  BY DEF T
<1>4. ASSUME NEW r \in S, r < m PROVE FALSE
  <2>1. Upto(r) \in T /\ Upto(r) \subseteq S /\ x \subseteq S
    BY <1>3
  <2>2. Upto(r) \subseteq x /\ Upto(r) # x
    <3>1. m \in x /\ m \notin Upto(r)
      BY <1>3, <1>4
    <3>2. Upto(r) \subseteq x
      BY <1>3, <1>4
    <3>3. QED BY <3>1, <3>2
  <2>3. <<Upto(r), x>> \in StrictSubsetOrdering(S)
    BY <2>1, <2>2, Zenon DEF StrictSubsetOrdering
  <2>4. QED BY <1>2, <2>1, <2>3
<1>5. \A r \in S : m <= r
  BY <1>4
<1>6. QED BY <1>5 DEF Lowest

(* The pipe and the two semaphores that sys_open takes. *)
LEMMA OpenIs ==
    ASSUME PTypeOK, NEW p \in Procs, Open(p)
    PROVE  \E f \in Fds, k1 \in Sems \cup {Free}, k2 \in Sems \cup {Free} :
             /\ f # STDIN /\ ~used[f] /\ f = Lowest(UnusedPipes)
             /\ IsFree(k1) /\ IsFree(k2) /\ (k2 # Free => k1 # Free /\ k1 # k2)
             /\ read_pos' = [read_pos EXCEPT ![f] = 0]
             /\ write_pos' = [write_pos EXCEPT ![f] = 0]
             /\ buffer' = [buffer EXCEPT ![f] = [i \in Places |-> Zero]]
             /\ read_sem' = [read_sem EXCEPT ![f] = k1]
             /\ write_sem' = [write_sem EXCEPT ![f] = k2]
             /\ \/ /\ k2 # Free
                   /\ used' = [used EXCEPT ![f] = TRUE]
                   /\ units' = [units EXCEPT ![k1] = 0, ![k2] = BufferSize - 1]
                \/ k2 = Free /\ units' = units /\ used' = used
<1> DEFINE f  == Lowest(UnusedPipes)
           k1 == IF FreeSems = {} THEN Free ELSE Lowest(FreeSems)
           k2 == IF FreeSems \subseteq {k1} THEN Free ELSE Lowest(FreeSems \ {k1})
<1>1. f \in Fds /\ f # STDIN /\ ~used[f]
  <2>1. UnusedPipes \in SUBSET Nat /\ UnusedPipes # {}
    BY Known DEF UnusedPipes, Open
  <2>2. f \in UnusedPipes
    BY <2>1, Least
  <2>3. QED BY <2>2 DEF UnusedPipes
<1>2. FreeSems \in SUBSET Nat
  BY Known DEF FreeSems
<1>3. k1 \in Sems \cup {Free} /\ IsFree(k1) /\ (k1 = Free => FreeSems = {})
  <2>1. CASE FreeSems = {}
    BY <2>1 DEF IsFree, UnitsOf
  <2>2. CASE FreeSems # {}
    <3>1. Lowest(FreeSems) \in FreeSems
      BY <1>2, <2>2, Least
    <3>2. QED BY <2>2, <3>1, Known DEF FreeSems, IsFree, UnitsOf
  <2>3. QED BY <2>1, <2>2
<1>4. k2 \in Sems \cup {Free} /\ IsFree(k2) /\ (k2 # Free => k1 # Free /\ k1 # k2)
  <2> HIDE DEF k1
  <2>1. CASE FreeSems \subseteq {k1}
    BY <2>1 DEF IsFree, UnitsOf
  <2>2. CASE ~ (FreeSems \subseteq {k1})
    <3>1. FreeSems \ {k1} \in SUBSET Nat /\ FreeSems \ {k1} # {} /\ FreeSems # {}
      BY <1>2, <2>2
    <3>2. Lowest(FreeSems \ {k1}) \in FreeSems \ {k1}
      BY <3>1, Least
    <3>3. k1 # Free
      BY <1>3, <3>1
    <3>4. QED BY <2>2, <3>2, <3>3, Known DEF FreeSems, IsFree, UnitsOf
  <2>3. QED BY <2>1, <2>2
<1>5. /\ read_pos' = [read_pos EXCEPT ![f] = 0]
      /\ write_pos' = [write_pos EXCEPT ![f] = 0]
      /\ buffer' = [buffer EXCEPT ![f] = [i \in Places |-> Zero]]
      /\ read_sem' = [read_sem EXCEPT ![f] = k1]
      /\ write_sem' = [write_sem EXCEPT ![f] = k2]
      /\ \/ /\ k2 # Free
            /\ used' = [used EXCEPT ![f] = TRUE]
            /\ units' = [units EXCEPT ![k1] = 0, ![k2] = BufferSize - 1]
         \/ k2 = Free /\ units' = units /\ used' = used
  BY DEF Open, GivesBackHalf
<1> HIDE DEF f, k1, k2
<1>6. f = Lowest(UnusedPipes)
  BY DEF f
<1>7. QED BY <1>1, <1>3, <1>4, <1>5, <1>6

-----------------------------------------------------------------------------
(* sem_wait and sem_post: what they leave. *)
LEMMA TakenIs ==
    ASSUME PTypeOK, NEW k \in Sems \cup {Free}, UnitsOf(k) # 0
    PROVE  /\ Taken(k) \in [Sems -> {Free} \cup Nat]
           /\ IsFree(k) => Taken(k) = units
           /\ ~IsFree(k) => /\ k \in Sems /\ units[k] \in Nat /\ units[k] >= 1
                            /\ Taken(k) = [units EXCEPT ![k] = units[k] - 1]
           /\ \A j \in Sems : Taken(k)[j] = Free <=> units[j] = Free
<1>1. units \in [Sems -> {Free} \cup Nat]
  BY DEF PTypeOK
<1>2. CASE IsFree(k)
  BY <1>1, <1>2 DEF Taken
<1>3. CASE ~IsFree(k)
  <2>1. k # Free /\ units[k] # Free /\ units[k] # 0
    BY <1>3 DEF IsFree, UnitsOf
  <2>2. units[k] \in Nat /\ units[k] >= 1 /\ k \in Sems
    BY <1>1, <2>1
  <2>3. Taken(k) = [units EXCEPT ![k] = units[k] - 1]
    BY <1>3 DEF Taken
  <2>4. QED BY <1>1, <1>3, <2>2, <2>3, Known
<1>4. QED BY <1>2, <1>3

LEMMA PostedIs ==
    ASSUME PTypeOK, NEW k \in Sems \cup {Free}, NEW u \in [Sems -> {Free} \cup Nat],
           NEW st \in [Procs -> States], Posted(k, u, st)
    PROVE  /\ units' \in [Sems -> {Free} \cup Nat] /\ ring' \in [Sems -> Seq(Procs)]
           /\ state' \in [Procs -> States]
           /\ \A j \in Sems : units'[j] = Free <=> u[j] = Free
           /\ k = Free \/ u[k] = Free => units' = u /\ ring' = ring /\ state' = st
           /\ k # Free /\ u[k] # Free =>
                /\ k \in Sems /\ units' = [u EXCEPT ![k] = u[k] + 1]
                /\ ring[k] = <<>> => ring' = ring /\ state' = st
                /\ ring[k] # <<>> =>
                     /\ ring[k][1] \in Procs /\ ring' = [ring EXCEPT ![k] = Tail(ring[k])]
                     /\ state' = [st EXCEPT ![ring[k][1]] = IF @ = "BLOCKED" THEN "READY" ELSE @]
<1>1. ring \in [Sems -> Seq(Procs)]
  BY DEF PTypeOK
<1>2. CASE k = Free \/ u[k] = Free
  BY <1>1, <1>2 DEF Posted
<1>3. CASE k # Free /\ u[k] # Free
  <2>1. k \in Sems /\ u[k] \in Nat
    BY <1>3
  <2>2. units' = [u EXCEPT ![k] = u[k] + 1]
    BY <1>3 DEF Posted
  <2>3. /\ units' \in [Sems -> {Free} \cup Nat]
        /\ \A j \in Sems : units'[j] = Free <=> u[j] = Free
    BY <2>1, <2>2, Known
  <2>4. CASE ring[k] = <<>>
    BY <1>1, <1>3, <2>1, <2>2, <2>3, <2>4 DEF Posted, SomebodyToWake
  <2>5. CASE ring[k] # <<>>
    <3>1. ring[k] \in Seq(Procs)
      BY <1>1, <2>1
    <3>2. Head(ring[k]) = ring[k][1] /\ ring[k][1] \in Procs /\ Tail(ring[k]) \in Seq(Procs)
      BY <2>5, <3>1
    <3>3. ring' = [ring EXCEPT ![k] = Tail(ring[k])] /\ state' = Awake(st, {ring[k][1]})
      BY <1>3, <2>5, <3>2 DEF Posted, SomebodyToWake
    <3>4. ring' \in [Sems -> Seq(Procs)]
      BY <1>1, <2>1, <3>2, <3>3
    <3>5. state' = [st EXCEPT ![ring[k][1]] = IF @ = "BLOCKED" THEN "READY" ELSE @]
      <4>1. state' = [p \in Procs |-> IF p = ring[k][1] /\ st[p] = "BLOCKED" THEN "READY" ELSE st[p]]
        BY <3>3 DEF Awake
      <4>2. QED BY <3>2, <4>1
    <3>6. state' \in [Procs -> States]
      BY <3>2, <3>5 DEF States
    <3>7. QED BY <1>3, <2>1, <2>2, <2>3, <2>5, <3>2, <3>3, <3>4, <3>5, <3>6
  <2>6. QED BY <2>4, <2>5
<1>4. QED BY <1>2, <1>3

-----------------------------------------------------------------------------
(* A call goes on with its next byte, or ends: Takes and Gives.  The byte is
   for the semaphore that is posted, kp. *)
Goes(p) ==
    /\ call' \in [Procs -> Calls]
    /\ \A q \in Procs \ {p} : call'[q] = call[q]
    /\ \/ call'[p] = NoCall /\ cpu' = Leaver(p)
       \/ /\ call'[p] # NoCall /\ call'[p].todo # <<>>
          /\ call'[p].op = call[p].op /\ call'[p].fd = call[p].fd /\ call'[p].sem = Free
          /\ cpu' = p
Moves(p, kp) ==
    /\ MayGoOn(p) /\ call[p] # NoCall /\ ~Refused(p)
    /\ SemFor(p) \in Sems \cup {Free} /\ kp \in Sems \cup {Free} /\ UnitsOf(SemFor(p)) # 0
    /\ Posted(kp, Taken(SemFor(p)), state)
    /\ Goes(p)
    /\ UNCHANGED <<used, read_sem, write_sem, awaited, front, calm, steady, smooth>>

LEMMA GoesIs ==
    ASSUME PTypeOK, NEW p \in Procs, call[p].op # "none", call[p].todo # <<>>,
           \/ call' = [call EXCEPT ![p] = NoCall] /\ cpu' = Leaver(p)
           \/ /\ Len(call[p].todo) # 1 /\ cpu' = p
              /\ call' = [call EXCEPT ![p] = [call[p] EXCEPT !.sem = Free, !.todo = Tail(call[p].todo)]]
    PROVE  Goes(p)
<1>1. call \in [Procs -> Calls]
  BY DEF PTypeOK, Calls
<1>2. CASE call' = [call EXCEPT ![p] = NoCall] /\ cpu' = Leaver(p)
  BY <1>1, <1>2, Known DEF Goes
<1>3. CASE /\ Len(call[p].todo) # 1 /\ cpu' = p
           /\ call' = [call EXCEPT ![p] = [call[p] EXCEPT !.sem = Free, !.todo = Tail(call[p].todo)]]
  <2> DEFINE c == [call[p] EXCEPT !.sem = Free, !.todo = Tail(call[p].todo)]
  <2>1. call[p] \in Calls /\ call[p].todo \in Seq(Bytes)
    BY <1>1 DEF Calls
  <2>2. Tail(call[p].todo) \in Seq(Bytes) /\ Tail(call[p].todo) # <<>>
    <3>1. \A s \in Seq(Bytes) : s # <<>> /\ Len(s) # 1 => Tail(s) \in Seq(Bytes) /\ Len(Tail(s)) # 0
      OBVIOUS
    <3>2. QED BY <1>3, <2>1, <3>1
  <2>3. /\ c \in Calls /\ c.todo # <<>>
        /\ c.op = call[p].op /\ c.fd = call[p].fd /\ c.sem = Free
    BY <2>1, <2>2 DEF Calls
  <2>4. c # NoCall
    BY <2>3, Known
  <2>5. call' = [call EXCEPT ![p] = c]
    BY <1>3
  <2> HIDE DEF c
  <2>6. QED BY <1>1, <1>3, <2>3, <2>4, <2>5 DEF Goes
<1>4. QED BY <1>2, <1>3

LEMMA SemForType ==
    ASSUME PTypeOK, NEW p \in Procs
    PROVE  SemFor(p) \in Sems \cup {Free}
<1>1. call[p].fd \in Fds /\ call[p].sem \in Sems \cup {Free}
  BY DEF PTypeOK
<1>2. read_sem[call[p].fd] \in Sems \cup {Free} /\ write_sem[call[p].fd] \in Sems \cup {Free}
  BY <1>1 DEF PTypeOK
<1>3. QED BY <1>1, <1>2 DEF SemFor

LEMMA TakesIs ==
    ASSUME PTypeOK, CallsOK, NEW p \in Procs, Takes(p)
    PROVE  /\ call[p].op = "read" /\ Moves(p, write_sem[call[p].fd])
           /\ moved' = [by |-> "process", byte |-> buffer[call[p].fd][read_pos[call[p].fd]]]
           /\ moved' \in Moved
           /\ read_pos' = [read_pos EXCEPT ![call[p].fd] = (@ + 1) % BufferSize]
           /\ UNCHANGED <<buffer, write_pos>>
<1> DEFINE f == call[p].fd
<1>1. call[p].op = "read" /\ call[p] # NoCall /\ call[p].todo # <<>>
  BY Known DEF Takes, CallsOK, CallOK
<1>2. f \in Fds
  BY DEF PTypeOK
<1>3. read_pos[f] \in Places
  BY <1>2 DEF PTypeOK
<1>4. buffer[f][read_pos[f]] \in Bytes /\ write_sem[f] \in Sems \cup {Free}
  BY <1>2, <1>3 DEF PTypeOK
<1>5. \/ call' = [call EXCEPT ![p] = NoCall] /\ cpu' = Leaver(p)
      \/ /\ Len(call[p].todo) # 1 /\ cpu' = p
         /\ call' = [call EXCEPT ![p] = [call[p] EXCEPT !.sem = Free, !.todo = Tail(call[p].todo)]]
  <2> DEFINE last == Len(call[p].todo) = 1 \/ buffer[f][read_pos[f]] \in EndingBytes
         c == [call[p] EXCEPT !.sem = Free, !.todo = Tail(call[p].todo)]
  <2>1. call' = [call EXCEPT ![p] = IF last THEN NoCall ELSE c] /\ cpu' = IF last THEN Leaver(p) ELSE p
    BY DEF Takes, Proceeds
  <2>2. ~last => Len(call[p].todo) # 1
    OBVIOUS
  <2>0. c = [call[p] EXCEPT !.sem = Free, !.todo = Tail(call[p].todo)]
    OBVIOUS
  <2> HIDE DEF last, c
  <2>3. CASE last
    BY <2>1, <2>3
  <2>4. CASE ~last
    <3>1. call' = [call EXCEPT ![p] = c] /\ cpu' = p /\ Len(call[p].todo) # 1
      BY <2>1, <2>2, <2>4
    <3>2. QED BY <2>0, <3>1
  <2>5. QED BY <2>3, <2>4
<1>6. Goes(p)
  BY <1>1, <1>5, GoesIs
<1>7. /\ moved' = [by |-> "process", byte |-> buffer[f][read_pos[f]]]
      /\ read_pos' = [read_pos EXCEPT ![f] = (@ + 1) % BufferSize]
      /\ UNCHANGED <<used, buffer, write_pos, read_sem, write_sem, awaited, front, calm, steady, smooth>>
      /\ Posted(write_sem[f], Taken(SemFor(p)), state)
      /\ MayGoOn(p) /\ ~Refused(p) /\ UnitsOf(SemFor(p)) # 0
  BY DEF Takes, PostsWriters, Passes
<1>8. Moves(p, write_sem[f])
  BY <1>1, <1>4, <1>6, <1>7, SemForType DEF Moves
<1>9. QED BY <1>1, <1>4, <1>7, <1>8 DEF Moved

LEMMA GivesIs ==
    ASSUME PTypeOK, CallsOK, NEW p \in Procs, Gives(p)
    PROVE  /\ call[p].op = "write" /\ Moves(p, read_sem[call[p].fd])
           /\ Puts(call[p].fd, Head(call[p].todo), "process") /\ Head(call[p].todo) \in Bytes
           /\ UNCHANGED read_pos
<1> DEFINE f == call[p].fd
<1>1. call[p].op = "write" /\ call[p] # NoCall /\ call[p].todo # <<>>
  BY Known DEF Gives, CallsOK, CallOK
<1>2. f \in Fds /\ call[p].todo \in Seq(Bytes)
  BY DEF PTypeOK
<1>3. read_sem[f] \in Sems \cup {Free} /\ Head(call[p].todo) \in Bytes
  BY <1>1, <1>2 DEF PTypeOK
<1>4. \/ call' = [call EXCEPT ![p] = NoCall] /\ cpu' = Leaver(p)
      \/ /\ Len(call[p].todo) # 1 /\ cpu' = p
         /\ call' = [call EXCEPT ![p] = [call[p] EXCEPT !.sem = Free, !.todo = Tail(call[p].todo)]]
  <2> DEFINE last == Len(call[p].todo) = 1
         c == [call[p] EXCEPT !.sem = Free, !.todo = Tail(call[p].todo)]
  <2>1. call' = [call EXCEPT ![p] = IF last THEN NoCall ELSE c] /\ cpu' = IF last THEN Leaver(p) ELSE p
    BY DEF Gives, Proceeds
  <2>2. ~last => Len(call[p].todo) # 1
    OBVIOUS
  <2>0. c = [call[p] EXCEPT !.sem = Free, !.todo = Tail(call[p].todo)]
    OBVIOUS
  <2> HIDE DEF last, c
  <2>3. CASE last
    BY <2>1, <2>3
  <2>4. CASE ~last
    <3>1. call' = [call EXCEPT ![p] = c] /\ cpu' = p /\ Len(call[p].todo) # 1
      BY <2>1, <2>2, <2>4
    <3>2. QED BY <2>0, <3>1
  <2>5. QED BY <2>3, <2>4
<1>5. Goes(p)
  BY <1>1, <1>4, GoesIs
<1>6. /\ UNCHANGED <<used, read_pos, read_sem, write_sem, awaited, front, calm, steady, smooth>>
      /\ Posted(read_sem[f], Taken(SemFor(p)), state) /\ Puts(f, Head(call[p].todo), "process")
      /\ MayGoOn(p) /\ ~Refused(p) /\ UnitsOf(SemFor(p)) # 0
  BY DEF Gives, Passes
<1>7. Moves(p, read_sem[f])
  BY <1>1, <1>3, <1>5, <1>6, SemForType DEF Moves
<1>8. QED BY <1>1, <1>3, <1>6, <1>7

(* The keyboard: write_pipe_nonblocking, with room or without. *)
Keyed(st) == Posted(read_sem[STDIN], Taken(write_sem[STDIN]), st)
LEMMA TypedIs ==
    ASSUME PTypeOK, OwnersOK, NEW b \in Bytes, NEW st \in [Procs -> States], Typed(b, st)
    PROVE  /\ read_sem[STDIN] \in Sems /\ write_sem[STDIN] \in Sems
           /\ \/ /\ UnitsOf(write_sem[STDIN]) = 0
                 /\ state' = st /\ UNCHANGED <<buffer, write_pos, moved, units, ring>>
              \/ /\ UnitsOf(write_sem[STDIN]) # 0 /\ ~IsFree(write_sem[STDIN])
                 /\ Puts(STDIN, b, "keyboard") /\ Keyed(st)
<1>1. /\ read_sem[STDIN] \in Sems /\ write_sem[STDIN] \in Sems
      /\ units[write_sem[STDIN]] # Free
  BY Known DEF OwnersOK
<1>2. units[write_sem[STDIN]] \in Nat /\ ~IsFree(write_sem[STDIN])
      /\ UnitsOf(write_sem[STDIN]) = units[write_sem[STDIN]]
  BY <1>1, Known DEF PTypeOK, IsFree, UnitsOf
<1>3. HasRoom <=> units[write_sem[STDIN]] # 0
  BY <1>2 DEF HasRoom, SemValue
<1>4. CASE HasRoom
  BY <1>1, <1>2, <1>3, <1>4 DEF Typed, Keyed
<1>5. CASE ~HasRoom
  BY <1>1, <1>2, <1>3, <1>5 DEF Typed
<1>6. QED BY <1>4, <1>5

(* The states when a process has ended: its father is woken. *)
LEMMA DeadIs ==
    ASSUME PTypeOK, FrontOK, NEW q \in Procs, Ends(q)
    PROVE  /\ Dead(q) \in [Procs -> States] /\ q # Shell
           /\ state[q] \in Alive \cup {"STILLBORN"}
           /\ Dead(q)[q] = "TERMINATED"
           /\ Dead(q)[Shell] = IF awaited = q THEN "READY" ELSE state[Shell]
           /\ \A p \in Procs \ {q, Shell} : Dead(q)[p] = state[p]
           /\ call' = [call EXCEPT ![q] = NoCall]
           /\ awaited' = (IF awaited = q THEN Nobody ELSE awaited)
           /\ front' = (IF front = q THEN Shell ELSE front)
<1>1. q # Shell /\ state[q] \notin {"NEW", "TERMINATED"} /\ state[q] # "WAITING"
  BY DEF Ends, FrontOK
<1>2. state \in [Procs -> States] /\ Shell \in Procs
  BY Known DEF PTypeOK, States
<1>3. state[q] \in Alive \cup {"STILLBORN"}
  BY <1>1, <1>2 DEF States, Alive
<1>4. QED BY <1>1, <1>2, <1>3 DEF Dead, States, Ends

-----------------------------------------------------------------------------
(* The types, by step. *)
LEMMA TypeInit == PInit => PTypeOK
<1> SUFFICES ASSUME PInit PROVE PTypeOK
  OBVIOUS
<1>1. /\ 0 \in Places /\ 0 \in Sems /\ 1 \in Sems /\ STDIN \in Fds /\ Zero \in Bytes /\ Shell \in Procs
      /\ BufferSize - 1 \in Nat /\ NoCall \in Calls
  BY Known
<1>2. units \in [Sems -> {Free} \cup Nat]
  BY <1>1 DEF PInit
<1>3. ring \in [Sems -> Seq(Procs)]
  BY DEF PInit
<1>4. /\ used \in [Fds -> BOOLEAN] /\ buffer \in [Fds -> [Places -> Bytes]]
      /\ read_pos \in [Fds -> Places] /\ write_pos \in [Fds -> Places]
      /\ read_sem \in [Fds -> Sems \cup {Free}] /\ write_sem \in [Fds -> Sems \cup {Free}]
  <2>1. /\ used = [f \in Fds |-> f = STDIN]
        /\ buffer = [f \in Fds |-> [i \in Places |-> Zero]]
        /\ read_pos = [f \in Fds |-> 0] /\ write_pos = [f \in Fds |-> 0]
        /\ read_sem = [f \in Fds |-> 0] /\ write_sem = [f \in Fds |-> IF f = STDIN THEN 1 ELSE 0]
    BY DEF PInit
  <2>2. used \in [Fds -> BOOLEAN]
    BY <2>1
  <2>3. buffer \in [Fds -> [Places -> Bytes]]
    BY <1>1, <2>1
  <2>4. read_pos \in [Fds -> Places] /\ write_pos \in [Fds -> Places]
    BY <1>1, <2>1
  <2>5. read_sem \in [Fds -> Sems \cup {Free}] /\ write_sem \in [Fds -> Sems \cup {Free}]
    BY <1>1, <2>1
  <2>6. QED BY <2>2, <2>3, <2>4, <2>5
<1>5. state \in [Procs -> States] /\ call \in [Procs -> Calls]
  BY <1>1 DEF PInit, States
<1>6. /\ awaited \in Procs \cup {Nobody} /\ front \in Procs /\ cpu \in Procs \cup {Nobody}
      /\ moved \in Moved /\ calm \in BOOLEAN /\ steady \in BOOLEAN /\ smooth \in BOOLEAN
  BY <1>1 DEF PInit, Moved
<1>7. QED BY <1>2, <1>3, <1>4, <1>5, <1>6 DEF PTypeOK, States, Calls, Moved

LEMMA PutsTypes ==
    ASSUME PTypeOK, NEW f \in Fds, NEW b \in Bytes, NEW who \in {"process", "keyboard"}, Puts(f, b, who)
    PROVE  /\ buffer' \in [Fds -> [Places -> Bytes]] /\ write_pos' \in [Fds -> Places]
           /\ moved' \in Moved
<1>1. write_pos \in [Fds -> Places] /\ buffer \in [Fds -> [Places -> Bytes]] /\ moved \in Moved
  BY DEF PTypeOK, Moved
<1>2. (write_pos[f] + 1) % BufferSize \in Places
  BY <1>1, NextPlace
<1>3. /\ buffer' = [buffer EXCEPT ![f][write_pos[f]] = b]
      /\ write_pos' = [write_pos EXCEPT ![f] = (@ + 1) % BufferSize]
      /\ moved' = IF used[f] THEN [by |-> who, byte |-> b] ELSE moved
  BY DEF Puts, SlotToWrite
<1>4. QED BY <1>1, <1>2, <1>3 DEF Moved

LEMMA MovesTypes ==
    ASSUME PTypeOK, NEW p \in Procs, NEW kp, Moves(p, kp)
    PROVE  /\ used' \in [Fds -> BOOLEAN]
           /\ read_sem' \in [Fds -> Sems \cup {Free}] /\ write_sem' \in [Fds -> Sems \cup {Free}]
           /\ units' \in [Sems -> {Free} \cup Nat] /\ ring' \in [Sems -> Seq(Procs)]
           /\ state' \in [Procs -> States] /\ call' \in [Procs -> Calls]
           /\ awaited' \in Procs \cup {Nobody} /\ front' \in Procs /\ cpu' \in Procs \cup {Nobody}
           /\ calm' \in BOOLEAN /\ steady' \in BOOLEAN /\ smooth' \in BOOLEAN
<1>1. /\ SemFor(p) \in Sems \cup {Free} /\ kp \in Sems \cup {Free} /\ UnitsOf(SemFor(p)) # 0
      /\ Posted(kp, Taken(SemFor(p)), state) /\ Goes(p)
      /\ UNCHANGED <<used, read_sem, write_sem, awaited, front, calm, steady, smooth>>
  BY DEF Moves
<1>2. state \in [Procs -> States]
  BY DEF PTypeOK, States
<1>3. Taken(SemFor(p)) \in [Sems -> {Free} \cup Nat]
  BY <1>1, TakenIs
<1>4. /\ units' \in [Sems -> {Free} \cup Nat] /\ ring' \in [Sems -> Seq(Procs)]
      /\ state' \in [Procs -> States]
  BY <1>1, <1>2, <1>3, PostedIs
<1>5. call' \in [Procs -> Calls] /\ cpu' \in Procs \cup {Nobody}
  BY <1>1 DEF Goes, Leaver
<1>6. QED BY <1>1, <1>4, <1>5 DEF PTypeOK

LEMMA DestroyedTypes ==
    ASSUME PTypeOK, NEW ks, Destroyed(ks)
    PROVE  /\ units' \in [Sems -> {Free} \cup Nat] /\ ring' \in [Sems -> Seq(Procs)]
           /\ state' \in [Procs -> States]
<1>1. /\ units \in [Sems -> {Free} \cup Nat] /\ ring \in [Sems -> Seq(Procs)]
      /\ state \in [Procs -> States] /\ <<>> \in Seq(Procs)
  BY DEF PTypeOK, States
<1> DEFINE set == UNION {ToSet(ring[k]) : k \in ks}
<1>2. state' = Awake(state, set)
  BY DEF Destroyed, WakesAll
<1> HIDE DEF set
<1>3. state' \in [Procs -> States]
  BY <1>1, <1>2 DEF Awake, States
<1>4. QED BY <1>1, <1>3 DEF Destroyed

LEMMA KeyedTypes ==
    ASSUME PTypeOK, NEW st \in [Procs -> States], Keyed(st),
           read_sem[STDIN] \in Sems, write_sem[STDIN] \in Sems, UnitsOf(write_sem[STDIN]) # 0
    PROVE  /\ units' \in [Sems -> {Free} \cup Nat] /\ ring' \in [Sems -> Seq(Procs)]
           /\ state' \in [Procs -> States]
<1>1. Taken(write_sem[STDIN]) \in [Sems -> {Free} \cup Nat]
  BY TakenIs
<1>2. QED BY <1>1, PostedIs DEF Keyed

LEMMA EndsTypes ==
    ASSUME PTypeOK, FrontOK, NEW q \in Procs, Ends(q)
    PROVE  /\ call' \in [Procs -> Calls] /\ Dead(q) \in [Procs -> States]
           /\ awaited' \in Procs \cup {Nobody} /\ front' \in Procs
<1>1. call \in [Procs -> Calls] /\ NoCall \in Calls /\ Shell \in Procs
  BY Known DEF PTypeOK, Calls
<1>2. call' = [call EXCEPT ![q] = NoCall]
  BY DEF Ends
<1>3. call' \in [Procs -> Calls]
  BY <1>1, <1>2
<1>4. awaited' \in Procs \cup {Nobody} /\ front' \in Procs
  BY <1>1 DEF Ends, PTypeOK
<1>5. QED BY <1>3, <1>4, DeadIs

LEMMA TypedTypes ==
    ASSUME PTypeOK, OwnersOK, NEW b \in Bytes, NEW st \in [Procs -> States], Typed(b, st)
    PROVE  /\ buffer' \in [Fds -> [Places -> Bytes]] /\ write_pos' \in [Fds -> Places]
           /\ moved' \in Moved
           /\ units' \in [Sems -> {Free} \cup Nat] /\ ring' \in [Sems -> Seq(Procs)]
           /\ state' \in [Procs -> States]
<1>1. /\ read_sem[STDIN] \in Sems /\ write_sem[STDIN] \in Sems
      /\ \/ /\ UnitsOf(write_sem[STDIN]) = 0
            /\ state' = st /\ UNCHANGED <<buffer, write_pos, moved, units, ring>>
         \/ /\ UnitsOf(write_sem[STDIN]) # 0
            /\ Puts(STDIN, b, "keyboard") /\ Keyed(st)
  BY TypedIs
<1>2. CASE state' = st /\ UNCHANGED <<buffer, write_pos, moved, units, ring>>
  BY <1>2 DEF PTypeOK, Moved
<1>3. CASE UnitsOf(write_sem[STDIN]) # 0 /\ Puts(STDIN, b, "keyboard") /\ Keyed(st)
  BY <1>1, <1>3, Known, PutsTypes, KeyedTypes
<1>4. QED BY <1>1, <1>2, <1>3

LEMMA TypeStep ==
    ASSUME PTypeOK, CallsOK, FrontOK, OwnersOK, PStep
    PROVE  PTypeOK'
<1>0. /\ used \in [Fds -> BOOLEAN] /\ buffer \in [Fds -> [Places -> Bytes]]
      /\ read_pos \in [Fds -> Places] /\ write_pos \in [Fds -> Places]
      /\ read_sem \in [Fds -> Sems \cup {Free}] /\ write_sem \in [Fds -> Sems \cup {Free}]
      /\ units \in [Sems -> {Free} \cup Nat] /\ ring \in [Sems -> Seq(Procs)]
      /\ state \in [Procs -> States]
      /\ awaited \in Procs \cup {Nobody} /\ front \in Procs /\ Shell \in Procs
      /\ call \in [Procs -> Calls]
      /\ cpu \in Procs \cup {Nobody} /\ moved \in Moved
      /\ calm \in BOOLEAN /\ steady \in BOOLEAN /\ smooth \in BOOLEAN
  BY Known DEF PTypeOK, States, Calls, Moved
<1> DEFINE blank == [i \in Places |-> Zero]
<1>b. blank \in [Places -> Bytes] /\ 0 \in Places
  BY Known
<1> HIDE DEF blank
<1>1. ASSUME NEW p \in Procs, Open(p) PROVE PTypeOK'
  <2>1. PICK f \in Fds, k1 \in Sems \cup {Free}, k2 \in Sems \cup {Free} :
             /\ k2 # Free => k1 # Free /\ k1 # k2
             /\ read_pos' = [read_pos EXCEPT ![f] = 0]
             /\ write_pos' = [write_pos EXCEPT ![f] = 0]
             /\ buffer' = [buffer EXCEPT ![f] = blank]
             /\ read_sem' = [read_sem EXCEPT ![f] = k1]
             /\ write_sem' = [write_sem EXCEPT ![f] = k2]
             /\ \/ /\ k2 # Free
                   /\ used' = [used EXCEPT ![f] = TRUE]
                   /\ units' = [units EXCEPT ![k1] = 0, ![k2] = BufferSize - 1]
                \/ k2 = Free /\ units' = units /\ used' = used
    BY <1>1, OpenIs DEF blank
  <2>2. /\ read_pos' \in [Fds -> Places] /\ write_pos' \in [Fds -> Places]
        /\ buffer' \in [Fds -> [Places -> Bytes]]
        /\ read_sem' \in [Fds -> Sems \cup {Free}] /\ write_sem' \in [Fds -> Sems \cup {Free}]
    BY <1>0, <1>b, <2>1
  <2>3. BufferSize - 1 \in Nat
    BY Known
  <2>4. units' \in [Sems -> {Free} \cup Nat]
    <3>1. CASE k2 = Free /\ units' = units
      BY <1>0, <3>1
    <3>2. CASE k2 # Free /\ units' = [units EXCEPT ![k1] = 0, ![k2] = BufferSize - 1]
      BY <1>0, <2>3, <3>2
    <3>3. QED BY <2>1, <3>1, <3>2
  <2>5. used' \in [Fds -> BOOLEAN]
    BY <1>0, <2>1
  <2>6. calm' \in BOOLEAN /\ UNCHANGED <<ring, procs, call, cpu, moved, steady, smooth>>
    BY <1>0, <1>1 DEF Open, Reuses
  <2>7. QED BY <1>0, <2>2, <2>4, <2>5, <2>6 DEF PTypeOK, States, Calls, Moved, procs
<1>2. ASSUME NEW p \in Procs, Exit(p) PROVE PTypeOK'
  <2>1. cpu' = Nobody /\ UNCHANGED <<pipes, units, ring, moved, calm, steady, smooth>>
    BY <1>2 DEF Exit
  <2>2. CASE Ends(p) /\ state' = Dead(p)
    BY <1>0, <2>1, <2>2, EndsTypes DEF PTypeOK, States, Calls, Moved, pipes
  <2>3. CASE UNCHANGED <<procs, call>>
    BY <1>0, <2>1, <2>3 DEF PTypeOK, States, Calls, Moved, pipes, procs
  <2>4. QED BY <1>2, <2>2, <2>3 DEF Exit
<1>3. ASSUME NEW p \in Procs, GivesUp(p) PROVE PTypeOK'
  BY <1>0, <1>3, Known DEF GivesUp, Leaver, PTypeOK, pipes, procs, States, Calls, Moved
<1>4. ASSUME NEW p \in Procs, Blocks(p) PROVE PTypeOK'
  <2>1. PICK k \in Sems \cup {Free} : k = SemFor(p)
    BY SemForType
  <2>2. /\ UnitsOf(k) = 0 /\ ring' = [ring EXCEPT ![k] = Append(@, p)]
        /\ \/ /\ call' = [call EXCEPT ![p].sem = k] /\ steady' = steady
              /\ state' = [state EXCEPT ![p] = "BLOCKED"]
           \/ call' = [call EXCEPT ![p] = NoCall] /\ steady' = FALSE /\ state' = state
        /\ cpu' = Nobody
        /\ UNCHANGED <<pipes, units, awaited, front, moved, calm, smooth>>
    BY <1>4, <2>1 DEF Blocks
  <2>3. k \in Sems
    BY <2>2, Known DEF UnitsOf
  <2>4. ring' \in [Sems -> Seq(Procs)]
    BY <1>0, <2>2, <2>3
  <2>5. call' \in [Procs -> Calls]
    <3>1. CASE call' = [call EXCEPT ![p].sem = k]
      BY <1>0, <2>3, <3>1 DEF Calls
    <3>2. CASE call' = [call EXCEPT ![p] = NoCall]
      BY <1>0, <3>2, Known
    <3>3. QED BY <2>2, <3>1, <3>2
  <2>6. state' \in [Procs -> States] /\ steady' \in BOOLEAN
    BY <1>0, <2>2 DEF States
  <2>7. QED BY <1>0, <2>2, <2>4, <2>5, <2>6 DEF PTypeOK, pipes, States, Calls, Moved
<1>5. ASSUME NEW p \in Procs, Takes(p) PROVE PTypeOK'
  <2>1. PICK f \in Fds : f = call[p].fd
    BY <1>0 DEF Calls
  <2>2. /\ Moves(p, write_sem[f]) /\ moved' \in Moved /\ UNCHANGED <<buffer, write_pos>>
        /\ read_pos' = [read_pos EXCEPT ![f] = (@ + 1) % BufferSize]
    BY <1>5, <2>1, TakesIs
  <2>3. (read_pos[f] + 1) % BufferSize \in Places
    BY <1>0, NextPlace
  <2>4. read_pos' \in [Fds -> Places]
    BY <1>0, <2>2, <2>3
  <2>5. /\ used' \in [Fds -> BOOLEAN]
        /\ read_sem' \in [Fds -> Sems \cup {Free}] /\ write_sem' \in [Fds -> Sems \cup {Free}]
        /\ units' \in [Sems -> {Free} \cup Nat] /\ ring' \in [Sems -> Seq(Procs)]
        /\ state' \in [Procs -> States] /\ call' \in [Procs -> Calls]
        /\ awaited' \in Procs \cup {Nobody} /\ front' \in Procs /\ cpu' \in Procs \cup {Nobody}
        /\ calm' \in BOOLEAN /\ steady' \in BOOLEAN /\ smooth' \in BOOLEAN
    BY <2>2, MovesTypes
  <2>6. QED BY <1>0, <2>2, <2>4, <2>5 DEF PTypeOK, States, Calls, Moved
<1>6. ASSUME NEW p \in Procs, Gives(p) PROVE PTypeOK'
  <2>1. PICK f \in Fds : f = call[p].fd
    BY <1>0 DEF Calls
  <2>2. Moves(p, read_sem[f]) /\ Puts(f, Head(call[p].todo), "process") /\ Head(call[p].todo) \in Bytes /\ UNCHANGED read_pos
    BY <1>6, <2>1, GivesIs
  <2>3. /\ buffer' \in [Fds -> [Places -> Bytes]] /\ write_pos' \in [Fds -> Places]
        /\ moved' \in Moved
    BY <2>2, PutsTypes
  <2>4. /\ used' \in [Fds -> BOOLEAN]
        /\ read_sem' \in [Fds -> Sems \cup {Free}] /\ write_sem' \in [Fds -> Sems \cup {Free}]
        /\ units' \in [Sems -> {Free} \cup Nat] /\ ring' \in [Sems -> Seq(Procs)]
        /\ state' \in [Procs -> States] /\ call' \in [Procs -> Calls]
        /\ awaited' \in Procs \cup {Nobody} /\ front' \in Procs /\ cpu' \in Procs \cup {Nobody}
        /\ calm' \in BOOLEAN /\ steady' \in BOOLEAN /\ smooth' \in BOOLEAN
    BY <2>2, MovesTypes
  <2>5. QED BY <1>0, <2>2, <2>3, <2>4 DEF PTypeOK, States, Calls, Moved
<1>7. ASSUME NEW p \in Procs, NEW f \in Fds, Close(p, f) PROVE PTypeOK'
  <2>1. /\ Destroyed({read_sem[f], write_sem[f]})
        /\ used' = [used EXCEPT ![f] = FALSE]
        /\ read_pos' = [read_pos EXCEPT ![f] = 0]
        /\ write_pos' = [write_pos EXCEPT ![f] = 0]
        /\ buffer' = [buffer EXCEPT ![f] = blank]
        /\ UNCHANGED <<read_sem, write_sem, awaited, front, call, cpu, moved, calm, steady, smooth>>
    BY <1>7 DEF Close, blank
  <2>2. /\ read_pos' \in [Fds -> Places] /\ write_pos' \in [Fds -> Places]
        /\ buffer' \in [Fds -> [Places -> Bytes]] /\ used' \in [Fds -> BOOLEAN]
    BY <1>0, <1>b, <2>1
  <2>3. /\ units' \in [Sems -> {Free} \cup Nat] /\ ring' \in [Sems -> Seq(Procs)]
        /\ state' \in [Procs -> States]
    BY <2>1, DestroyedTypes
  <2>4. QED BY <1>0, <2>1, <2>2, <2>3 DEF PTypeOK, States, Calls, Moved
<1>8. ASSUME NEW p \in Procs, NEW f \in Fds, NEW op \in {"read", "write"}, NEW todo \in Seq(Bytes),
             Entering(p, op, f, todo)
      PROVE  PTypeOK'
  <2>1. /\ call' = [call EXCEPT ![p] = [op |-> op, fd |-> f, sem |-> Free, todo |-> todo]]
        /\ cpu' = p
        /\ UNCHANGED <<pipes, units, ring, procs, moved, calm, steady, smooth>>
    BY <1>8 DEF Entering, Enters
  <2>2. [op |-> op, fd |-> f, sem |-> Free, todo |-> todo] \in Calls
    BY DEF Calls
  <2>3. call' \in [Procs -> Calls]
    BY <1>0, <2>1, <2>2
  <2>4. QED BY <1>0, <2>1, <2>3 DEF PTypeOK, pipes, procs, States, Calls, Moved
<1>9. ASSUME NEW p \in Procs, NEW q \in Procs, Kill(p, q) PROVE PTypeOK'
  <2>1. Ends(q) /\ state' = Dead(q) /\ cpu' = Nobody /\ UNCHANGED <<pipes, units, ring, moved, calm, smooth>>
    BY <1>9 DEF Kill
  <2>2. steady' \in BOOLEAN
    BY <1>0, <1>9 DEF Kill
  <2>3. QED BY <1>0, <2>1, <2>2, EndsTypes DEF PTypeOK, States, Calls, Moved, pipes
<1>10. ASSUME NEW q \in Procs, NEW asked \in BOOLEAN, Start(q, asked) PROVE PTypeOK'
  <2>1. /\ state' \in [Procs -> States] /\ awaited' \in Procs \cup {Nobody} /\ front' \in Procs
        /\ smooth' \in BOOLEAN
    BY <1>0, <1>10 DEF Start, States
  <2>2. UNCHANGED <<pipes, units, ring, call, cpu, moved, calm, steady>>
    BY <1>10 DEF Start
  <2>3. QED BY <1>0, <2>1, <2>2 DEF PTypeOK, pipes, States, Calls, Moved
<1>11. ASSUME NEW b \in Bytes, Typing(b) PROVE PTypeOK'
  <2>1. Typed(b, state)
        /\ UNCHANGED <<awaited, front, call, cpu, steady, used, read_pos, read_sem, write_sem, calm, smooth>>
    BY <1>11 DEF Typing
  <2>2. QED BY <1>0, <2>1, TypedTypes DEF PTypeOK, States, Calls, Moved
<1>12. ASSUME Interrupting PROVE PTypeOK'
  <2>1. PICK q \in Procs : q = front
    BY <1>0
  <2>2. /\ Ends(q) /\ Typed(Interrupt, Dead(q)) /\ Interrupt \in Bytes
        /\ UNCHANGED <<used, read_pos, read_sem, write_sem, calm, smooth>>
    BY <1>12, <2>1 DEF Interrupting
  <2>3. Dead(q) \in [Procs -> States]
    BY <2>2, DeadIs
  <2>4. /\ call' \in [Procs -> Calls] /\ awaited' \in Procs \cup {Nobody} /\ front' \in Procs
    BY <2>2, EndsTypes
  <2>5. steady' \in BOOLEAN /\ cpu' \in Procs \cup {Nobody}
    BY <1>0, <1>12 DEF Interrupting
  <2>6. /\ buffer' \in [Fds -> [Places -> Bytes]] /\ write_pos' \in [Fds -> Places]
        /\ moved' \in Moved
        /\ units' \in [Sems -> {Free} \cup Nat] /\ ring' \in [Sems -> Seq(Procs)]
        /\ state' \in [Procs -> States]
    BY <2>2, <2>3, TypedTypes
  <2>7. QED BY <1>0, <2>2, <2>4, <2>5, <2>6 DEF PTypeOK, States, Calls, Moved
<1>13. ASSUME Tick PROVE PTypeOK'
  BY <1>0, <1>13 DEF Tick, PTypeOK, pipes, procs, States, Calls, Moved
<1>14. QED BY <1>1, <1>2, <1>3, <1>4, <1>5, <1>6, <1>7, <1>8, <1>9, <1>10, <1>11, <1>12, <1>13 DEF PStep

-----------------------------------------------------------------------------
(* Waking: the only other thing that sem_post and destroy_sem do to states. *)
Woke(st, st2) == \A p \in Procs : st2[p] = st[p] \/ (st[p] = "BLOCKED" /\ st2[p] = "READY")

LEMMA PostedWakes ==
    ASSUME PTypeOK, NEW k \in Sems \cup {Free}, NEW u \in [Sems -> {Free} \cup Nat],
           NEW st \in [Procs -> States], Posted(k, u, st)
    PROVE  Woke(st, state')
<1>1. CASE k = Free \/ u[k] = Free
  BY <1>1, PostedIs DEF Woke
<1>2. CASE k # Free /\ u[k] # Free /\ ring[k] = <<>>
  BY <1>2, PostedIs DEF Woke
<1>3. CASE k # Free /\ u[k] # Free /\ ring[k] # <<>>
  <2>1. /\ ring[k][1] \in Procs
        /\ state' = [st EXCEPT ![ring[k][1]] = IF @ = "BLOCKED" THEN "READY" ELSE @]
    BY <1>3, PostedIs
  <2>2. QED BY <2>1 DEF Woke
<1>4. QED BY <1>1, <1>2, <1>3

LEMMA MovesWakes ==
    ASSUME PTypeOK, NEW p \in Procs, NEW kp, Moves(p, kp)
    PROVE  Woke(state, state')
<1>1. /\ SemFor(p) \in Sems \cup {Free} /\ kp \in Sems \cup {Free} /\ UnitsOf(SemFor(p)) # 0
      /\ Posted(kp, Taken(SemFor(p)), state)
  BY DEF Moves
<1>2. state \in [Procs -> States]
  BY DEF PTypeOK, States
<1>3. Taken(SemFor(p)) \in [Sems -> {Free} \cup Nat]
  BY <1>1, TakenIs
<1>4. QED BY <1>1, <1>2, <1>3, PostedWakes

LEMMA DestroyedWakes ==
    ASSUME PTypeOK, NEW ks, Destroyed(ks)
    PROVE  Woke(state, state')
<1> DEFINE set == UNION {ToSet(ring[k]) : k \in ks}
<1>1. state' = Awake(state, set)
  BY DEF Destroyed, WakesAll
<1> HIDE DEF set
<1>2. QED BY <1>1 DEF Awake, Woke

LEMMA TypedWakes ==
    ASSUME PTypeOK, OwnersOK, NEW b \in Bytes, NEW st \in [Procs -> States], Typed(b, st)
    PROVE  Woke(st, state')
<1>1. /\ read_sem[STDIN] \in Sems /\ write_sem[STDIN] \in Sems
      /\ (state' = st \/ (UnitsOf(write_sem[STDIN]) # 0 /\ Keyed(st)))
  BY TypedIs
<1>2. CASE state' = st
  BY <1>2 DEF Woke
<1>3. CASE UnitsOf(write_sem[STDIN]) # 0 /\ Keyed(st)
  <2>1. Taken(write_sem[STDIN]) \in [Sems -> {Free} \cup Nat]
    BY <1>1, <1>3, TakenIs
  <2>2. QED BY <1>1, <1>3, <2>1, PostedWakes DEF Keyed
<1>4. QED BY <1>1, <1>2, <1>3

(* The calls and the foreground, by step. *)
LEMMA MoverIs ==
    ASSUME CallsOK, NEW p \in Procs, MayGoOn(p)
    PROVE  /\ call[p] # NoCall /\ cpu \in {p, Nobody} /\ state[p] \in {"READY", "TERMINATED"}
           /\ state[p] = "TERMINATED" => cpu = p /\ call[p].sem = Free
           /\ cpu = p => call[p].sem = Free
           /\ Leaver(p) = IF state[p] = "TERMINATED" THEN p ELSE Nobody
BY Known DEF MayGoOn, CallsOK, CallOK, Leaver

LEMMA OutsideIs ==
    ASSUME CallsOK, NEW p \in Procs, Outside(p)
    PROVE  /\ call[p] = NoCall /\ cpu \in {p, Nobody} /\ state[p] \in {"READY", "TERMINATED"}
           /\ state[p] = "TERMINATED" <=> cpu = p
           /\ Interruptible
BY Known DEF Outside, CallsOK, CallOK, Interruptible

LEMMA ShellOutsideIs ==
    ASSUME CallsOK, FrontOK, Outside(Shell)
    PROVE  call[Shell] = NoCall /\ cpu = Nobody /\ state[Shell] = "READY"
<1>1. Shell \in Procs
  BY Known
<1>2. QED BY <1>1, OutsideIs DEF FrontOK

LEMMA CallsKept ==
    ASSUME PTypeOK, CallsOK, FrontOK, Woke(state, state'), UNCHANGED <<call, cpu, front, awaited, smooth>>
    PROVE  CallsOK' /\ FrontOK'
<1>1. CallsOK'
  <2> SUFFICES ASSUME NEW p \in Procs PROVE CallOK(p)'
    BY DEF CallsOK
  <2>1. CallOK(p) /\ (state'[p] = state[p] \/ (state[p] = "BLOCKED" /\ state'[p] = "READY"))
    BY DEF CallsOK, Woke
  <2>2. QED BY <2>1 DEF CallOK
<1>2. FrontOK'
  <2>1. Shell \in Procs /\ front \in Procs
    BY Known DEF PTypeOK
  <2>2. CASE awaited = Nobody
    BY <2>1, <2>2 DEF FrontOK, Woke, Alive
  <2>3. CASE awaited # Nobody
    <3>1. awaited \in Procs
      BY <2>3 DEF PTypeOK
    <3>2. QED BY <2>1, <2>3, <3>1 DEF FrontOK, Woke, Alive
  <2>4. QED BY <2>2, <2>3
<1>3. QED BY <1>1, <1>2

LEMMA CallsAlone ==
    ASSUME CallsOK, FrontOK, Interruptible, cpu' = Nobody, UNCHANGED <<procs, call, smooth>>
    PROVE  CallsOK' /\ FrontOK'
<1>1. CallsOK'
  <2> SUFFICES ASSUME NEW p \in Procs PROVE CallOK(p)'
    BY DEF CallsOK
  <2>1. CallOK(p) /\ cpu' # p /\ (cpu = p => call[p] = NoCall)
    BY Known DEF CallsOK, Interruptible
  <2>2. QED BY <2>1 DEF CallOK, procs
<1>2. QED BY <1>1 DEF FrontOK, procs

LEMMA CallsAfterEnd ==
    ASSUME PTypeOK, CallsOK, FrontOK, NEW q \in Procs, Ends(q), Woke(Dead(q), state'),
           Interruptible, cpu' \in {cpu, Nobody, q}, smooth' = smooth
    PROVE  CallsOK' /\ FrontOK'
<1>1. /\ q # Shell /\ Shell \in Procs /\ state[q] \in Alive \cup {"STILLBORN"}
      /\ Dead(q)[q] = "TERMINATED"
      /\ Dead(q)[Shell] = IF awaited = q THEN "READY" ELSE state[Shell]
      /\ \A p \in Procs \ {q, Shell} : Dead(q)[p] = state[p]
      /\ call' = [call EXCEPT ![q] = NoCall]
      /\ awaited' = (IF awaited = q THEN Nobody ELSE awaited)
      /\ front' = (IF front = q THEN Shell ELSE front)
  BY DeadIs, Known
<1>2. call \in [Procs -> Calls]
  BY DEF PTypeOK, Calls
<1>3. \A p \in Procs : state'[p] = Dead(q)[p] \/ (Dead(q)[p] = "BLOCKED" /\ state'[p] = "READY")
  BY DEF Woke
<1>4. CallsOK'
  <2> SUFFICES ASSUME NEW p \in Procs PROVE CallOK(p)'
    BY DEF CallsOK
  <2>1. CallOK(p) /\ (cpu = p => call[p] = NoCall) /\ (p # q /\ cpu' = p => cpu = p)
    BY Known DEF CallsOK, Interruptible
  <2>2. CASE p = q
    <3>1. call'[p] = NoCall /\ state'[p] = "TERMINATED"
      BY <1>1, <1>2, <1>3, <2>2
    <3>2. QED BY <2>1, <3>1, Known DEF CallOK
  <2>3. CASE p # q /\ p # Shell
    <3>1. call'[p] = call[p] /\ (state'[p] = state[p] \/ (state[p] = "BLOCKED" /\ state'[p] = "READY"))
      BY <1>1, <1>2, <1>3, <2>3
    <3>2. front = p => front' = p
      BY <1>1, <2>3
    <3>3. QED BY <2>1, <2>3, <3>1, <3>2 DEF CallOK
  <2>4. CASE p = Shell
    <3>1. call'[p] = call[p] /\ (front = p => front' = p)
      BY <1>1, <1>2, <2>4
    <3>2. cpu' # p
      BY <1>1, <2>1, <2>4 DEF CallOK, FrontOK
    <3>3. CASE awaited = q
      <4>1. state[Shell] = "WAITING" /\ state'[Shell] = "READY"
        BY <1>1, <1>3, <3>3, Known DEF FrontOK
      <4>2. QED BY <2>1, <2>4, <3>1, <3>2, <4>1 DEF CallOK
    <3>4. CASE awaited # q
      <4>1. state'[p] = state[p] \/ (state[p] = "BLOCKED" /\ state'[p] = "READY")
        BY <1>1, <1>3, <2>4, <3>4
      <4>2. QED BY <2>1, <3>1, <3>2, <4>1 DEF CallOK
    <3>5. QED BY <3>3, <3>4
  <2>5. QED BY <2>2, <2>3, <2>4
<1>5. FrontOK'
  <2>1. state'[Shell] = IF awaited = q THEN "READY" ELSE IF state'[Shell] = "READY" THEN "READY" ELSE state[Shell]
    BY <1>1, <1>3
  <2>2. \A p \in Procs \ {q, Shell} : state'[p] = state[p] \/ (state[p] = "BLOCKED" /\ state'[p] = "READY")
    BY <1>1, <1>3
  <2>3. state'[q] = "TERMINATED"
    BY <1>1, <1>3
  <2>4. \A p \in Procs : state'[p] = "WAITING" => p = Shell
    BY <2>2, <2>3 DEF FrontOK
  <2>5. front' # Shell => state'[front'] \in Alive \cup {"STILLBORN"}
    <3> SUFFICES ASSUME front' # Shell PROVE state'[front'] \in Alive \cup {"STILLBORN"}
      OBVIOUS
    <3>1. front' = front /\ front \in Procs \ {q, Shell}
      BY <1>1 DEF PTypeOK
    <3>2. QED BY <2>2, <3>1 DEF FrontOK, Alive
  <2>6. awaited' # Nobody => /\ awaited' # Shell /\ state'[awaited'] \in Alive
                             /\ state'[Shell] = "WAITING"
    <3> SUFFICES ASSUME awaited' # Nobody
                 PROVE  awaited' # Shell /\ state'[awaited'] \in Alive /\ state'[Shell] = "WAITING"
      OBVIOUS
    <3>1. awaited' = awaited /\ awaited \in Procs \ {q, Shell} /\ state[Shell] = "WAITING"
      BY <1>1 DEF PTypeOK, FrontOK
    <3>2. state'[Shell] = "WAITING"
      BY <1>1, <1>3, <3>1
    <3>3. QED BY <2>2, <3>1, <3>2 DEF FrontOK, Alive
  <2>7. awaited' = Nobody => state'[Shell] # "WAITING"
    BY <1>1, <2>1 DEF FrontOK
  <2>8. smooth' => front' = IF awaited' = Nobody THEN Shell ELSE awaited'
    BY <1>1, Known DEF FrontOK
  <2>9. state'[Shell] \notin {"NEW", "STILLBORN", "TERMINATED"}
    BY <2>1 DEF FrontOK
  <2>10. QED BY <2>4, <2>5, <2>6, <2>7, <2>8, <2>9 DEF FrontOK
<1>6. QED BY <1>4, <1>5

(* The creation of q. *)
LEMMA StartIs ==
    ASSUME PTypeOK, CallsOK, FrontOK, NEW q \in Procs, NEW asked \in BOOLEAN, Start(q, asked)
    PROVE  /\ q # Shell /\ Shell \in Procs /\ cpu = Nobody /\ call[Shell] = NoCall /\ call[q] = NoCall
           /\ state[Shell] = "READY" /\ state[q] = "NEW" /\ awaited = Nobody /\ front # q
           /\ front' = (IF asked /\ front = Shell THEN q ELSE front)
           /\ UNCHANGED <<pipes, units, ring, call, cpu, moved, calm, steady>>
           /\ \E st \in {"READY", "STILLBORN"}, waits \in BOOLEAN :
                /\ waits => asked /\ st = "READY"
                /\ state'[q] = st /\ state'[Shell] = (IF waits THEN "WAITING" ELSE "READY")
                /\ \A p \in Procs \ {q, Shell} : state'[p] = state[p]
                /\ awaited' = (IF waits THEN q ELSE Nobody)
                /\ smooth' = (smooth /\ (asked => waits))
<1>1. call[Shell] = NoCall /\ cpu = Nobody /\ state[Shell] = "READY" /\ state[q] = "NEW"
  BY ShellOutsideIs DEF Start
<1>2. Shell \in Procs /\ q # Shell /\ call[q] = NoCall
  BY <1>1, Known DEF CallsOK, CallOK
<1>3. awaited = Nobody /\ front # q
  BY <1>1, <1>2 DEF FrontOK, Alive
<1>4. /\ front' = (IF asked /\ front = Shell THEN q ELSE front)
      /\ UNCHANGED <<pipes, units, ring, call, cpu, moved, calm, steady>>
  BY DEF Start
<1>5. PICK born \in BOOLEAN, waits \in BOOLEAN :
        /\ waits => asked /\ born
        /\ state' = [state EXCEPT ![q] = IF born THEN "READY" ELSE "STILLBORN",
                                  ![Shell] = IF waits THEN "WAITING" ELSE @]
        /\ awaited' = IF waits THEN q ELSE awaited
        /\ smooth' = (smooth /\ (asked => waits))
  BY DEF Start
<1>6. PICK st \in {"READY", "STILLBORN"} : st = IF born THEN "READY" ELSE "STILLBORN"
  OBVIOUS
<1>7. state \in [Procs -> States]
  BY DEF PTypeOK, States
<1>8. /\ state'[q] = st /\ state'[Shell] = (IF waits THEN "WAITING" ELSE "READY")
      /\ \A p \in Procs \ {q, Shell} : state'[p] = state[p]
  BY <1>1, <1>2, <1>5, <1>6, <1>7
<1>9. QED BY <1>1, <1>2, <1>3, <1>4, <1>5, <1>6, <1>8

LEMMA CallsInit == PInit => CallsOK /\ FrontOK
<1> SUFFICES ASSUME PInit PROVE CallsOK /\ FrontOK
  OBVIOUS
<1>1. CallsOK
  BY Known DEF PInit, CallsOK, CallOK
<1>2. FrontOK
  BY Known DEF PInit, FrontOK
<1>3. QED BY <1>1, <1>2

LEMMA CallsStep ==
    ASSUME PTypeOK, CallsOK, FrontOK, OwnersOK, PStep
    PROVE  CallsOK' /\ FrontOK'
<1>0. /\ state \in [Procs -> States] /\ call \in [Procs -> Calls] /\ front \in Procs
      /\ Woke(state, state)
  BY DEF PTypeOK, States, Calls, Woke
<1>1. ASSUME NEW p \in Procs, Open(p) PROVE CallsOK' /\ FrontOK'
  <2>1. UNCHANGED <<procs, call, cpu, smooth>>
    BY <1>1 DEF Open
  <2>2. QED BY <1>0, <2>1, CallsKept DEF procs
<1>2. ASSUME NEW p \in Procs, Exit(p) PROVE CallsOK' /\ FrontOK'
  <2>1. cpu' = Nobody /\ smooth' = smooth /\ Interruptible
    BY <1>2, OutsideIs DEF Exit
  <2>2. CASE Ends(p) /\ state' = Dead(p)
    <3>1. Woke(Dead(p), state')
      BY <2>2 DEF Woke
    <3>2. QED BY <2>1, <2>2, <3>1, CallsAfterEnd
  <2>3. CASE UNCHANGED <<procs, call>>
    BY <2>1, <2>3, CallsAlone
  <2>4. QED BY <1>2, <2>2, <2>3 DEF Exit
<1>3. ASSUME NEW p \in Procs, GivesUp(p) PROVE CallsOK' /\ FrontOK'
  <2>1. /\ call' = [call EXCEPT ![p] = NoCall] /\ cpu' = Leaver(p) /\ UNCHANGED <<procs, smooth>>
        /\ MayGoOn(p)
    BY <1>3 DEF GivesUp
  <2>2. /\ state[p] \in {"READY", "TERMINATED"} /\ cpu \in {p, Nobody}
        /\ cpu' = IF state[p] = "TERMINATED" THEN p ELSE Nobody
    BY <2>1, MoverIs
  <2>3. CallsOK'
    <3> SUFFICES ASSUME NEW q \in Procs PROVE CallOK(q)'
      BY DEF CallsOK
    <3>1. CallOK(q)
      BY DEF CallsOK
    <3>2. CASE q = p
      BY <1>0, <2>1, <2>2, <3>2, Known DEF CallOK, procs
    <3>3. CASE q # p
      BY <1>0, <2>1, <2>2, <3>1, <3>3, Known DEF CallOK, procs
    <3>4. QED BY <3>2, <3>3
  <2>4. QED BY <2>1, <2>3 DEF FrontOK, procs
<1>4. ASSUME NEW p \in Procs, Blocks(p) PROVE CallsOK' /\ FrontOK'
  <2>1. PICK k \in Sems \cup {Free} : k = SemFor(p)
    BY SemForType
  <2>2. /\ UnitsOf(k) = 0 /\ MayGoOn(p) /\ cpu' = Nobody
        /\ UNCHANGED <<awaited, front, smooth>>
    BY <1>4, <2>1 DEF Blocks
  <2>3. k # Free
    BY <2>2, Known DEF UnitsOf
  <2>4. call[p] # NoCall /\ cpu \in {p, Nobody} /\ state[p] \in {"READY", "TERMINATED"}
    BY <2>2, MoverIs
  <2>5. CASE /\ state[p] # "TERMINATED" /\ state' = [state EXCEPT ![p] = "BLOCKED"]
             /\ call' = [call EXCEPT ![p].sem = k]
    <3>1. /\ call'[p].op = call[p].op /\ call'[p].fd = call[p].fd /\ call'[p].todo = call[p].todo
          /\ call'[p].sem = k /\ call'[p] # NoCall
      BY <1>0, <2>3, <2>5, Known DEF Calls
    <3>2. CallsOK'
      <4> SUFFICES ASSUME NEW q \in Procs PROVE CallOK(q)'
        BY DEF CallsOK
      <4>1. CallOK(q)
        BY DEF CallsOK
      <4>2. CASE q = p
        <5>1. cpu' # q /\ state'[q] = "BLOCKED"
          BY <1>0, <2>2, <2>5, <4>2, Known
        <5>2. QED BY <2>2, <2>3, <2>4, <3>1, <4>1, <4>2, <5>1 DEF CallOK
      <4>3. CASE q # p
        BY <1>0, <2>2, <2>4, <2>5, <4>1, <4>3, Known DEF CallOK
      <4>4. QED BY <4>2, <4>3
    <3>3. FrontOK'
      <4>1. \A q \in Procs : state'[q] = IF q = p THEN "BLOCKED" ELSE state[q]
        BY <1>0, <2>5
      <4>2. (awaited # Nobody => awaited \in Procs) /\ front \in Procs
        BY DEF PTypeOK
      <4>3. QED BY <2>2, <2>4, <4>1, <4>2, Known DEF FrontOK, Alive
    <3>4. QED BY <3>2, <3>3
  <2>6. CASE state[p] = "TERMINATED" /\ state' = state /\ call' = [call EXCEPT ![p] = NoCall]
    <3>1. CallsOK'
      <4> SUFFICES ASSUME NEW q \in Procs PROVE CallOK(q)'
        BY DEF CallsOK
      <4>1. CallOK(q) /\ cpu' # q
        BY <2>2, Known DEF CallsOK
      <4>2. CASE q = p
        BY <1>0, <2>2, <2>6, <4>1, <4>2, Known DEF CallOK
      <4>3. CASE q # p
        BY <1>0, <2>2, <2>4, <2>6, <4>1, <4>3, Known DEF CallOK
      <4>4. QED BY <4>2, <4>3
    <3>2. QED BY <2>2, <2>6, <3>1 DEF FrontOK
  <2>7. QED BY <1>4, <2>1, <2>5, <2>6 DEF Blocks
<1>5. ASSUME NEW p \in Procs, NEW kp, Moves(p, kp) PROVE CallsOK' /\ FrontOK'
  <2>1. MayGoOn(p) /\ call[p] # NoCall /\ Goes(p) /\ UNCHANGED <<awaited, front, smooth>>
    BY <1>5 DEF Moves
  <2>2. Woke(state, state')
    BY <1>5, MovesWakes
  <2>3. /\ state[p] \in {"READY", "TERMINATED"} /\ cpu \in {p, Nobody} /\ state'[p] = state[p]
        /\ Leaver(p) = IF state[p] = "TERMINATED" THEN p ELSE Nobody
    BY <2>1, <2>2, MoverIs DEF Woke
  <2>4. CallsOK'
    <3> SUFFICES ASSUME NEW q \in Procs PROVE CallOK(q)'
      BY DEF CallsOK
    <3>1. CallOK(q)
      BY DEF CallsOK
    <3>2. CASE q = p
      <4>1. CASE call'[p] = NoCall /\ cpu' = Leaver(p)
        BY <2>3, <3>2, <4>1, Known DEF CallOK
      <4>2. CASE /\ call'[p] # NoCall /\ call'[p].todo # <<>> /\ call'[p].op = call[p].op
                 /\ call'[p].fd = call[p].fd /\ call'[p].sem = Free /\ cpu' = p
        BY <2>1, <2>3, <3>1, <3>2, <4>2 DEF CallOK
      <4>3. QED BY <2>1, <4>1, <4>2 DEF Goes
    <3>3. CASE q # p
      <4>1. call'[q] = call[q] /\ cpu # q /\ cpu' # q
        BY <2>1, <2>3, <3>3, Known DEF Goes, Leaver
      <4>2. QED BY <2>1, <2>2, <3>1, <4>1 DEF CallOK, Woke
    <3>4. QED BY <3>2, <3>3
  <2>5. FrontOK'
    <3>1. (awaited # Nobody => awaited \in Procs) /\ front \in Procs
      BY DEF PTypeOK
    <3>2. QED BY <2>1, <2>2, <3>1, Known DEF FrontOK, Woke, Alive
  <2>6. QED BY <2>4, <2>5
<1>6. ASSUME NEW p \in Procs, NEW f \in Fds, Close(p, f) PROVE CallsOK' /\ FrontOK'
  <2>1. Destroyed({read_sem[f], write_sem[f]}) /\ UNCHANGED <<awaited, front, call, cpu, smooth>>
    BY <1>6 DEF Close
  <2>2. QED BY <2>1, DestroyedWakes, CallsKept
<1>7. ASSUME NEW p \in Procs, NEW f \in Fds, NEW op \in {"read", "write"}, NEW todo \in Seq(Bytes),
             Entering(p, op, f, todo)
      PROVE  CallsOK' /\ FrontOK'
  <2> DEFINE c == [op |-> op, fd |-> f, sem |-> Free, todo |-> todo]
  <2>1. /\ call' = [call EXCEPT ![p] = c] /\ cpu' = p /\ UNCHANGED <<procs, smooth>>
        /\ cpu \in {p, Nobody} /\ state[p] \in {"READY", "TERMINATED"}
        /\ todo # <<>> /\ (op = "read" /\ f = STDIN => front = p)
    BY <1>7, OutsideIs DEF Entering, Enters, IsForeground
  <2>2. c.op = op /\ c.fd = f /\ c.sem = Free /\ c.todo = todo /\ c # NoCall
    BY Known
  <2> HIDE DEF c
  <2>3. CallsOK'
    <3> SUFFICES ASSUME NEW q \in Procs PROVE CallOK(q)'
      BY DEF CallsOK
    <3>1. CallOK(q)
      BY DEF CallsOK
    <3>2. CASE q = p
      BY <1>0, <2>1, <2>2, <3>2 DEF CallOK, procs
    <3>3. CASE q # p
      BY <1>0, <2>1, <3>1, <3>3, Known DEF CallOK, procs
    <3>4. QED BY <3>2, <3>3
  <2>4. QED BY <2>1, <2>3 DEF FrontOK, procs
<1>8. ASSUME NEW p \in Procs, NEW q \in Procs, Kill(p, q) PROVE CallsOK' /\ FrontOK'
  <2>1. Ends(q) /\ state' = Dead(q) /\ Interruptible /\ cpu' = Nobody /\ smooth' = smooth
    BY <1>8, OutsideIs DEF Kill
  <2>2. Woke(Dead(q), state')
    BY <2>1 DEF Woke
  <2>3. QED BY <2>1, <2>2, CallsAfterEnd
<1>9. ASSUME NEW q \in Procs, NEW asked \in BOOLEAN, Start(q, asked) PROVE CallsOK' /\ FrontOK'
  <2>1. /\ q # Shell /\ Shell \in Procs /\ cpu = Nobody /\ call[Shell] = NoCall /\ call[q] = NoCall
        /\ state[Shell] = "READY" /\ state[q] = "NEW" /\ awaited = Nobody
        /\ front' = (IF asked /\ front = Shell THEN q ELSE front) /\ front # q
        /\ UNCHANGED <<call, cpu>>
    BY <1>9, StartIs DEF pipes
  <2>2. PICK st \in {"READY", "STILLBORN"}, waits \in BOOLEAN :
          /\ waits => asked /\ st = "READY"
          /\ state'[q] = st /\ state'[Shell] = (IF waits THEN "WAITING" ELSE "READY")
          /\ \A p \in Procs \ {q, Shell} : state'[p] = state[p]
          /\ awaited' = (IF waits THEN q ELSE Nobody)
          /\ smooth' = (smooth /\ (asked => waits))
    BY <1>9, StartIs
  <2>3. CallsOK'
    <3> SUFFICES ASSUME NEW p \in Procs PROVE CallOK(p)'
      BY DEF CallsOK
    <3>1. CallOK(p) /\ cpu # p /\ cpu' # p
      BY <2>1, Known DEF CallsOK
    <3>2. CASE p \in {q, Shell}
      BY <2>1, <2>2, <3>1, <3>2, Known DEF CallOK
    <3>3. CASE p \notin {q, Shell}
      BY <2>1, <2>2, <3>1, <3>3 DEF CallOK
    <3>4. QED BY <3>2, <3>3
  <2>4. FrontOK'
    <3>1. \A p \in Procs : state'[p] = "WAITING" => p = Shell
      BY <2>1, <2>2 DEF FrontOK
    <3>2. front' # Shell => state'[front'] \in Alive \cup {"STILLBORN"}
      <4>1. CASE asked /\ front = Shell
        BY <2>1, <2>2, <4>1 DEF Alive
      <4>2. CASE ~(asked /\ front = Shell)
        <5>1. front' = front /\ front \in Procs
          BY <2>1, <4>2 DEF PTypeOK
        <5>2. front # Shell => state'[front] = state[front]
          BY <2>1, <2>2, <5>1
        <5>3. QED BY <5>1, <5>2 DEF FrontOK
      <4>3. QED BY <4>1, <4>2
    <3>3. awaited' # Nobody => awaited' # Shell /\ state'[awaited'] \in Alive /\ state'[Shell] = "WAITING"
      BY <2>1, <2>2 DEF Alive
    <3>4. awaited' = Nobody => state'[Shell] # "WAITING"
      BY <2>1, <2>2, Known
    <3>5. smooth' => front' = IF awaited' = Nobody THEN Shell ELSE awaited'
      <4> SUFFICES ASSUME smooth' PROVE front' = IF awaited' = Nobody THEN Shell ELSE awaited'
        OBVIOUS
      <4>1. front = Shell /\ (asked => waits) /\ q # Nobody
        BY <2>1, <2>2, Known DEF FrontOK
      <4>2. QED BY <2>1, <2>2, <4>1
    <3>6. QED BY <2>2, <3>1, <3>2, <3>3, <3>4, <3>5 DEF FrontOK
  <2>5. QED BY <2>3, <2>4
<1>10. ASSUME NEW b \in Bytes, Typing(b) PROVE CallsOK' /\ FrontOK'
  <2>1. Typed(b, state) /\ UNCHANGED <<awaited, front, call, cpu, smooth>>
    BY <1>10 DEF Typing
  <2>2. QED BY <1>0, <2>1, TypedWakes, CallsKept
<1>11. ASSUME Interrupting PROVE CallsOK' /\ FrontOK'
  <2>1. PICK q \in Procs : q = front
    BY <1>0
  <2>2. /\ Ends(q) /\ Typed(Interrupt, Dead(q)) /\ Interrupt \in Bytes /\ Interruptible
        /\ cpu' \in {cpu, Nobody, q} /\ smooth' = smooth
    BY <1>11, <2>1 DEF Interrupting
  <2>3. Woke(Dead(q), state')
    BY <2>2, DeadIs, TypedWakes
  <2>4. QED BY <2>2, <2>3, CallsAfterEnd
<1>12. ASSUME NEW p \in Procs, Takes(p) \/ Gives(p) PROVE CallsOK' /\ FrontOK'
  <2>1. \E kp : Moves(p, kp)
    BY <1>12, TakesIs, GivesIs
  <2>2. QED BY <1>5, <2>1
<1>13. ASSUME Tick PROVE CallsOK' /\ FrontOK'
  <2>1. PICK p \in Procs : cpu = p /\ call[p] = NoCall
    BY <1>13 DEF Tick
  <2>2. Interruptible /\ cpu' = Nobody /\ UNCHANGED <<procs, call, smooth>>
    BY <1>13, <2>1 DEF Interruptible, Tick
  <2>3. QED BY <2>2, CallsAlone
<1>14. QED BY <1>1, <1>2, <1>3, <1>4, <1>6, <1>7, <1>8, <1>9, <1>10, <1>11, <1>12, <1>13 DEF PStep

-----------------------------------------------------------------------------
(* The owners, by step. *)
SameFree(u, v) == \A k \in Sems : u[k] = Free <=> v[k] = Free

LEMMA OwnersKept ==
    ASSUME OwnersOK, UNCHANGED <<used, read_sem, write_sem>>, SameFree(units', units)
    PROVE  OwnersOK'
BY DEF OwnersOK, SameFree

LEMMA MovesUnits ==
    ASSUME PTypeOK, NEW p \in Procs, NEW kp, Moves(p, kp)
    PROVE  SameFree(units', units) /\ SameFree(Taken(SemFor(p)), units)
<1>1. /\ SemFor(p) \in Sems \cup {Free} /\ kp \in Sems \cup {Free} /\ UnitsOf(SemFor(p)) # 0
      /\ Posted(kp, Taken(SemFor(p)), state)
  BY DEF Moves
<1>2. state \in [Procs -> States]
  BY DEF PTypeOK, States
<1>3. /\ Taken(SemFor(p)) \in [Sems -> {Free} \cup Nat]
      /\ \A j \in Sems : Taken(SemFor(p))[j] = Free <=> units[j] = Free
  BY <1>1, TakenIs
<1>4. \A j \in Sems : units'[j] = Free <=> Taken(SemFor(p))[j] = Free
  BY <1>1, <1>2, <1>3, PostedIs
<1>5. QED BY <1>3, <1>4 DEF SameFree

LEMMA TypedUnits ==
    ASSUME PTypeOK, OwnersOK, NEW b \in Bytes, NEW st \in [Procs -> States], Typed(b, st)
    PROVE  SameFree(units', units)
<1>1. /\ read_sem[STDIN] \in Sems /\ write_sem[STDIN] \in Sems
      /\ (units' = units \/ (UnitsOf(write_sem[STDIN]) # 0 /\ Keyed(st)))
  BY TypedIs
<1>2. CASE units' = units
  BY <1>2 DEF SameFree
<1>3. CASE UnitsOf(write_sem[STDIN]) # 0 /\ Keyed(st)
  <2>1. /\ Taken(write_sem[STDIN]) \in [Sems -> {Free} \cup Nat]
        /\ \A j \in Sems : Taken(write_sem[STDIN])[j] = Free <=> units[j] = Free
    BY <1>1, <1>3, TakenIs
  <2>2. \A j \in Sems : units'[j] = Free <=> Taken(write_sem[STDIN])[j] = Free
    BY <1>1, <1>3, <2>1, PostedIs DEF Keyed
  <2>3. QED BY <2>1, <2>2 DEF SameFree
<1>4. QED BY <1>1, <1>2, <1>3

LEMMA OwnersInit == PInit => OwnersOK
<1> SUFFICES ASSUME PInit PROVE OwnersOK
  OBVIOUS
<1>1. /\ used = [f \in Fds |-> f = STDIN]
      /\ read_sem = [f \in Fds |-> 0] /\ write_sem = [f \in Fds |-> IF f = STDIN THEN 1 ELSE 0]
  BY DEF PInit
<1>2. \A k \in Sems : units[k] = IF k = 0 THEN 0 ELSE IF k = 1 THEN BufferSize - 1 ELSE Free
  BY DEF PInit
<1>3. \A f \in Fds : used[f] <=> f = STDIN
  BY <1>1
<1>4. read_sem[STDIN] = 0 /\ write_sem[STDIN] = 1 /\ STDIN \in Fds
  BY <1>1, Known
<1>5. BufferSize - 1 # Free /\ 0 # Free /\ 0 \in Sems /\ 1 \in Sems /\ 0 # 1
  BY Known
<1>6. units[0] # Free /\ units[1] # Free
  BY <1>2, <1>5
<1>7. \A k \in Sems : units[k] # Free => k \in {read_sem[STDIN], write_sem[STDIN]}
  BY <1>2, <1>4
<1>8. QED BY <1>3, <1>4, <1>5, <1>6, <1>7 DEF OwnersOK

LEMMA OwnersStep ==
    ASSUME PTypeOK, CallsOK, FrontOK, OwnersOK, PStep
    PROVE  OwnersOK'
<1>0. /\ state \in [Procs -> States] /\ SameFree(units, units)
      /\ used \in [Fds -> BOOLEAN] /\ units \in [Sems -> {Free} \cup Nat]
      /\ read_sem \in [Fds -> Sems \cup {Free}] /\ write_sem \in [Fds -> Sems \cup {Free}]
  BY DEF PTypeOK, States, SameFree
<1>1. ASSUME NEW p \in Procs, Open(p) PROVE OwnersOK'
  <2>1. PICK f \in Fds, k1 \in Sems \cup {Free}, k2 \in Sems \cup {Free} :
             /\ f # STDIN /\ ~used[f] /\ IsFree(k1) /\ IsFree(k2)
             /\ k2 # Free => k1 # Free /\ k1 # k2
             /\ read_sem' = [read_sem EXCEPT ![f] = k1]
             /\ write_sem' = [write_sem EXCEPT ![f] = k2]
             /\ \/ /\ k2 # Free
                   /\ used' = [used EXCEPT ![f] = TRUE]
                   /\ units' = [units EXCEPT ![k1] = 0, ![k2] = BufferSize - 1]
                \/ k2 = Free /\ units' = units /\ used' = used
    BY <1>1, OpenIs
  <2>2. \A g \in Fds \ {f} : read_sem'[g] = read_sem[g] /\ write_sem'[g] = write_sem[g]
    BY <1>0, <2>1
  <2>3. CASE k2 = Free /\ units' = units /\ used' = used
    BY <2>1, <2>2, <2>3 DEF OwnersOK
  <2>4. CASE /\ k2 # Free /\ used' = [used EXCEPT ![f] = TRUE]
             /\ units' = [units EXCEPT ![k1] = 0, ![k2] = BufferSize - 1]
    <3>1. k1 \in Sems /\ k2 \in Sems /\ k1 # k2 /\ units[k1] = Free /\ units[k2] = Free
      BY <2>1, <2>4, Known DEF IsFree, UnitsOf
    <3>2. /\ \A k \in Sems \ {k1, k2} : units'[k] = units[k]
          /\ units'[k1] # Free /\ units'[k2] # Free
      <4>1. 0 # Free /\ BufferSize - 1 # Free
        BY Known
      <4>2. QED BY <1>0, <2>4, <3>1, <4>1
    <3>3. /\ used'[f] /\ \A g \in Fds \ {f} : used'[g] = used[g]
          /\ read_sem'[f] = k1 /\ write_sem'[f] = k2
      BY <1>0, <2>1, <2>4
    <3>4. \A g \in Fds : used[g] => /\ read_sem[g] \in Sems \ {k1, k2}
                                    /\ write_sem[g] \in Sems \ {k1, k2}
      BY <3>1 DEF OwnersOK
    <3>5. \A g \in Fds \ {f} : used'[g] => /\ read_sem'[g] \in Sems \ {k1, k2}
                                           /\ write_sem'[g] \in Sems \ {k1, k2}
      BY <2>2, <3>3, <3>4
    <3>6. used'[STDIN]
      BY <2>1, <3>3, Known DEF OwnersOK
    <3>7. \A g \in Fds : used'[g] => /\ read_sem'[g] \in Sems /\ write_sem'[g] \in Sems
                                     /\ units'[read_sem'[g]] # Free /\ units'[write_sem'[g]] # Free
                                     /\ read_sem'[g] # write_sem'[g]
      <4> TAKE g \in Fds
      <4>1. CASE g = f
        BY <3>1, <3>2, <3>3, <4>1
      <4>2. CASE g # f
        BY <2>2, <3>2, <3>3, <3>5, <4>2 DEF OwnersOK
      <4>3. QED BY <4>1, <4>2
    <3>8. \A g \in Fds : \A h \in Fds \ {g} : used'[g] /\ used'[h] =>
              /\ read_sem'[g] # read_sem'[h] /\ write_sem'[g] # write_sem'[h]
              /\ read_sem'[g] # write_sem'[h]
      <4> TAKE g \in Fds
      <4> TAKE h \in Fds \ {g}
      <4>1. CASE g = f
        BY <3>3, <3>5, <4>1
      <4>2. CASE h = f
        BY <3>3, <3>5, <4>2
      <4>3. CASE g # f /\ h # f
        BY <2>2, <3>3, <4>3 DEF OwnersOK
      <4>4. QED BY <4>1, <4>2, <4>3
    <3>9. \A k \in Sems : units'[k] # Free => \E g \in Fds : used'[g] /\ k \in {read_sem'[g], write_sem'[g]}
      <4> TAKE k \in Sems
      <4> HAVE units'[k] # Free
      <4>1. CASE k \in {k1, k2}
        BY <3>3, <4>1
      <4>2. CASE k \notin {k1, k2}
        <5>1. PICK g \in Fds : used[g] /\ k \in {read_sem[g], write_sem[g]}
          BY <3>2, <4>2 DEF OwnersOK
        <5>2. g # f
          BY <2>1, <5>1
        <5>3. QED BY <2>2, <3>3, <5>1, <5>2
      <4>3. QED BY <4>1, <4>2
    <3>10. QED BY <3>6, <3>7, <3>8, <3>9 DEF OwnersOK
  <2>5. QED BY <2>1, <2>3, <2>4
<1>2. ASSUME NEW p \in Procs, NEW f \in Fds, Close(p, f) PROVE OwnersOK'
  <2>1. /\ f # STDIN /\ used[f] /\ used' = [used EXCEPT ![f] = FALSE]
        /\ units' = [k \in Sems |-> IF k \in {read_sem[f], write_sem[f]} THEN Free ELSE units[k]]
        /\ UNCHANGED <<read_sem, write_sem>>
    BY <1>2 DEF Close, Destroyed
  <2>2. ~used'[f] /\ \A g \in Fds \ {f} : used'[g] = used[g]
    BY <1>0, <2>1
  <2>3. \A k \in Sems : units'[k] = IF k \in {read_sem[f], write_sem[f]} THEN Free ELSE units[k]
    BY <2>1
  <2>4. used'[STDIN]
    BY <2>1, <2>2, Known DEF OwnersOK
  <2>5. \A g \in Fds : used'[g] => /\ read_sem[g] \in Sems /\ write_sem[g] \in Sems
                                   /\ units'[read_sem[g]] # Free /\ units'[write_sem[g]] # Free
                                   /\ read_sem[g] # write_sem[g]
    <3> TAKE g \in Fds
    <3> HAVE used'[g]
    <3>1. g # f /\ used[g]
      BY <2>2
    <3>2. /\ read_sem[g] \notin {read_sem[f], write_sem[f]}
          /\ write_sem[g] \notin {read_sem[f], write_sem[f]}
      <4>1. /\ read_sem[f] # read_sem[g] /\ write_sem[f] # write_sem[g] /\ read_sem[f] # write_sem[g]
            /\ read_sem[g] # write_sem[f]
        BY <2>1, <3>1 DEF OwnersOK
      <4>2. QED BY <4>1
    <3>3. QED BY <2>3, <3>1, <3>2 DEF OwnersOK
  <2>6. \A g \in Fds : \A h \in Fds \ {g} : used'[g] /\ used'[h] =>
            /\ read_sem[g] # read_sem[h] /\ write_sem[g] # write_sem[h] /\ read_sem[g] # write_sem[h]
    BY <2>2 DEF OwnersOK
  <2>7. \A k \in Sems : units'[k] # Free => \E g \in Fds : used'[g] /\ k \in {read_sem[g], write_sem[g]}
    <3> TAKE k \in Sems
    <3> HAVE units'[k] # Free
    <3>1. PICK g \in Fds : used[g] /\ k \in {read_sem[g], write_sem[g]}
      BY <2>3 DEF OwnersOK
    <3>2. g # f
      BY <2>3, <3>1
    <3>3. QED BY <2>2, <3>1, <3>2
  <2>8. QED BY <2>1, <2>4, <2>5, <2>6, <2>7 DEF OwnersOK
<1>3. ASSUME UNCHANGED <<used, read_sem, write_sem, units>> PROVE OwnersOK'
  BY <1>0, <1>3, OwnersKept
<1>4. ASSUME NEW p \in Procs, Exit(p) \/ GivesUp(p) \/ Blocks(p) PROVE OwnersOK'
  BY <1>3, <1>4 DEF Exit, GivesUp, Blocks, pipes
<1>5. ASSUME NEW p \in Procs, Takes(p) \/ Gives(p) PROVE OwnersOK'
  <2>1. PICK kp : Moves(p, kp)
    BY <1>5, TakesIs, GivesIs
  <2>2. SameFree(units', units) /\ UNCHANGED <<used, read_sem, write_sem>>
    BY <2>1, MovesUnits DEF Moves
  <2>3. QED BY <2>2, OwnersKept
<1>6. ASSUME NEW p \in Procs, NEW f \in Fds, NEW op \in {"read", "write"}, NEW todo \in Seq(Bytes),
             Entering(p, op, f, todo)
      PROVE  OwnersOK'
  BY <1>3, <1>6 DEF Entering, Enters, pipes
<1>7. ASSUME NEW p \in Procs, NEW q \in Procs, Kill(p, q) PROVE OwnersOK'
  BY <1>3, <1>7 DEF Kill, pipes
<1>8. ASSUME NEW q \in Procs, NEW asked \in BOOLEAN, Start(q, asked) PROVE OwnersOK'
  BY <1>3, <1>8 DEF Start, pipes
<1>9. ASSUME NEW b \in Bytes, Typing(b) PROVE OwnersOK'
  <2>1. Typed(b, state) /\ UNCHANGED <<used, read_sem, write_sem>>
    BY <1>9 DEF Typing
  <2>2. QED BY <1>0, <2>1, TypedUnits, OwnersKept
<1>10. ASSUME Interrupting PROVE OwnersOK'
  <2>1. PICK q \in Procs : q = front
    BY DEF PTypeOK
  <2>2. /\ Ends(q) /\ Typed(Interrupt, Dead(q)) /\ Interrupt \in Bytes
        /\ UNCHANGED <<used, read_sem, write_sem>>
    BY <1>10, <2>1 DEF Interrupting
  <2>3. Dead(q) \in [Procs -> States]
    BY <2>2, DeadIs
  <2>4. QED BY <2>2, <2>3, TypedUnits, OwnersKept
<1>11. ASSUME Tick PROVE OwnersOK'
  BY <1>3, <1>11 DEF Tick, pipes
<1>12. QED BY <1>1, <1>2, <1>4, <1>5, <1>6, <1>7, <1>8, <1>9, <1>10, <1>11 DEF PStep

-----------------------------------------------------------------------------
(* The rings, by what a step does to them. *)
LEMMA RingsCalls ==
    ASSUME NEW u, NEW rg, NEW st, NEW cl, NEW u2, NEW cl2, RingsOK(u, rg, st, cl),
           rg \in [Sems -> Seq(Procs)], \A k \in Sems : u2[k] = Free => u[k] = Free,
           \A p \in Procs : st[p] = "BLOCKED" => cl2[p].sem = cl[p].sem
    PROVE  RingsOK(u2, rg, st, cl2)
<1>1. \A k \in Sems : u2[k] = Free => rg[k] = <<>>
  BY DEF RingsOK
<1>2. \A k \in Sems : \A i \in 1 .. Len(rg[k]) :
        st[rg[k][i]] = "TERMINATED" \/ (st[rg[k][i]] = "BLOCKED" /\ cl2[rg[k][i]].sem = k)
  <2> TAKE k \in Sems
  <2> TAKE i \in 1 .. Len(rg[k])
  <2>1. rg[k][i] \in Procs
    OBVIOUS
  <2>2. QED BY <2>1 DEF RingsOK
<1>3. \A k \in Sems : \A i, j \in 1 .. Len(rg[k]) : rg[k][i] = rg[k][j] => i = j
  BY DEF RingsOK
<1>4. \A p \in Procs : st[p] = "BLOCKED" =>
        cl2[p].sem \in Sems /\ \E i \in 1 .. Len(rg[cl2[p].sem]) : rg[cl2[p].sem][i] = p
  BY DEF RingsOK
<1>5. QED BY <1>1, <1>2, <1>3, <1>4 DEF RingsOK

(* Somebody who is in no ring changes state, or somebody dies, or wakes from
   waiting for a child. *)
LEMMA RingsStates ==
    ASSUME NEW u, NEW rg, NEW st, NEW cl, NEW st2, RingsOK(u, rg, st, cl),
           rg \in [Sems -> Seq(Procs)],
           \A p \in Procs : \/ st2[p] = st[p]
                            \/ st2[p] = "TERMINATED"
                            \/ st[p] \notin {"BLOCKED", "TERMINATED"} /\ st2[p] # "BLOCKED"
    PROVE  RingsOK(u, rg, st2, cl)
<1>1. \A k \in Sems : \A i \in 1 .. Len(rg[k]) :
        st2[rg[k][i]] = "TERMINATED" \/ (st2[rg[k][i]] = "BLOCKED" /\ cl[rg[k][i]].sem = k)
  <2> TAKE k \in Sems
  <2> TAKE i \in 1 .. Len(rg[k])
  <2>1. rg[k][i] \in Procs
    OBVIOUS
  <2>2. st[rg[k][i]] = "TERMINATED" \/ (st[rg[k][i]] = "BLOCKED" /\ cl[rg[k][i]].sem = k)
    BY DEF RingsOK
  <2>3. QED BY <2>1, <2>2
<1>2. \A p \in Procs : st2[p] = "BLOCKED" => st[p] = "BLOCKED"
  OBVIOUS
<1>3. QED BY <1>1, <1>2 DEF RingsOK

LEMMA RingsPosted ==
    ASSUME PTypeOK, NEW k \in Sems \cup {Free}, NEW u \in [Sems -> {Free} \cup Nat],
           NEW st \in [Procs -> States], NEW cl, Posted(k, u, st), RingsOK(u, ring, st, cl)
    PROVE  RingsOK(units', ring', state', cl)
<1>1. ring \in [Sems -> Seq(Procs)]
  BY DEF PTypeOK
<1>2. SameFree(units', u)
  BY PostedIs DEF SameFree
<1>3. RingsOK(units', ring, st, cl)
  BY <1>1, <1>2, RingsCalls DEF SameFree
<1>4. CASE ring' = ring /\ state' = st
  BY <1>3, <1>4
<1>5. CASE k # Free /\ u[k] # Free /\ ring[k] # <<>>
  <2>1. PICK h \in Procs : h = ring[k][1]
    BY <1>5, PostedIs
  <2>2. /\ k \in Sems /\ ring' = [ring EXCEPT ![k] = Tail(ring[k])]
        /\ state' = [st EXCEPT ![h] = IF @ = "BLOCKED" THEN "READY" ELSE @]
    BY <1>5, <2>1, PostedIs
  <2>3. /\ ring[k] \in Seq(Procs) /\ Len(ring[k]) \in Nat /\ Len(ring[k]) >= 1
        /\ Len(Tail(ring[k])) = Len(ring[k]) - 1
        /\ \A i \in 1 .. Len(ring[k]) - 1 : Tail(ring[k])[i] = ring[k][i + 1]
    BY <1>1, <1>5, <2>2
  <2>4. \A j \in Sems \ {k} : ring'[j] = ring[j]
    BY <1>1, <2>2
  <2>5. ring'[k] = Tail(ring[k])
    BY <1>1, <2>2
  <2>6. /\ state'[h] = IF st[h] = "BLOCKED" THEN "READY" ELSE st[h]
        /\ \A p \in Procs \ {h} : state'[p] = st[p]
    BY <2>2
  <2>7. 1 \in 1 .. Len(ring[k]) /\ (st[h] = "TERMINATED" \/ (st[h] = "BLOCKED" /\ cl[h].sem = k))
    BY <2>1, <2>2, <2>3 DEF RingsOK
  <2>8. \A j \in Sems : units'[j] = Free => ring'[j] = <<>>
    <3>1. units'[k] # Free
      BY <1>2, <1>5, <2>2 DEF SameFree
    <3>2. QED BY <1>3, <2>4, <3>1 DEF RingsOK
  <2>9. \A j \in Sems : \A i \in 1 .. Len(ring'[j]) :
          \/ state'[ring'[j][i]] = "TERMINATED"
          \/ state'[ring'[j][i]] = "BLOCKED" /\ cl[ring'[j][i]].sem = j
    <3> TAKE j \in Sems
    <3> TAKE i \in 1 .. Len(ring'[j])
    <3>1. CASE j = k
      <4>0. i \in 1 .. Len(ring[k]) - 1 /\ ring'[k][i] = Tail(ring[k])[i]
        BY <2>3, <2>5, <3>1
      <4>1. i + 1 \in 1 .. Len(ring[k]) /\ i + 1 # 1 /\ ring'[k][i] = ring[k][i + 1]
        BY <2>3, <4>0
      <4>2. ring[k][i + 1] \in Procs /\ ring[k][i + 1] # h
        BY <2>1, <2>2, <2>3, <2>7, <4>1 DEF RingsOK
      <4>3. QED BY <2>2, <2>6, <3>1, <4>1, <4>2 DEF RingsOK
    <3>2. CASE j # k
      <4>1. ring'[j] = ring[j] /\ ring[j][i] \in Procs
        BY <1>1, <2>4, <3>2
      <4>2. st[ring[j][i]] = "TERMINATED" \/ (st[ring[j][i]] = "BLOCKED" /\ cl[ring[j][i]].sem = j)
        BY <4>1 DEF RingsOK
      <4>3. CASE ring[j][i] = h
        BY <2>6, <2>7, <3>2, <4>1, <4>2, <4>3
      <4>4. CASE ring[j][i] # h
        BY <2>6, <4>1, <4>2, <4>4
      <4>5. QED BY <4>3, <4>4
    <3>3. QED BY <3>1, <3>2
  <2>10. \A j \in Sems : \A i, l \in 1 .. Len(ring'[j]) : ring'[j][i] = ring'[j][l] => i = l
    <3> TAKE j \in Sems
    <3>1. CASE j = k
      <4> TAKE i, l \in 1 .. Len(ring'[j])
      <4>0. /\ i \in 1 .. Len(ring[k]) - 1 /\ ring'[k][i] = Tail(ring[k])[i]
            /\ l \in 1 .. Len(ring[k]) - 1 /\ ring'[k][l] = Tail(ring[k])[l]
        BY <2>3, <2>5, <3>1
      <4>1. /\ i + 1 \in 1 .. Len(ring[k]) /\ ring'[k][i] = ring[k][i + 1]
            /\ l + 1 \in 1 .. Len(ring[k]) /\ ring'[k][l] = ring[k][l + 1]
        BY <2>3, <4>0
      <4>2. ring[k][i + 1] = ring[k][l + 1] => i + 1 = l + 1
        BY <2>2, <4>1 DEF RingsOK
      <4>3. QED BY <3>1, <4>1, <4>2
    <3>2. CASE j # k
      BY <2>4, <3>2 DEF RingsOK
    <3>3. QED BY <3>1, <3>2
  <2>11. \A p \in Procs : state'[p] = "BLOCKED" =>
           cl[p].sem \in Sems /\ \E i \in 1 .. Len(ring'[cl[p].sem]) : ring'[cl[p].sem][i] = p
    <3> TAKE p \in Procs
    <3> HAVE state'[p] = "BLOCKED"
    <3>1. p # h /\ st[p] = "BLOCKED"
      BY <2>6
    <3>2. PICK i \in 1 .. Len(ring[cl[p].sem]) : ring[cl[p].sem][i] = p
      BY <3>1 DEF RingsOK
    <3>3. cl[p].sem \in Sems
      BY <3>1 DEF RingsOK
    <3>4. CASE cl[p].sem = k
      <4>1. i # 1
        BY <2>1, <3>1, <3>2, <3>4
      <4>2. i - 1 \in 1 .. Len(ring'[k]) /\ ring'[k][i - 1] = p
        BY <2>3, <2>5, <3>2, <3>4, <4>1
      <4>3. QED BY <3>3, <3>4, <4>2
    <3>5. CASE cl[p].sem # k
      BY <2>4, <3>2, <3>3, <3>5
    <3>6. QED BY <3>4, <3>5
  <2>12. QED BY <2>8, <2>9, <2>10, <2>11 DEF RingsOK
<1>6. QED BY <1>4, <1>5, PostedIs

LEMMA TypedRings ==
    ASSUME PTypeOK, OwnersOK, NEW b \in Bytes, NEW st \in [Procs -> States], NEW cl,
           Typed(b, st), RingsOK(units, ring, st, cl)
    PROVE  RingsOK(units', ring', state', cl)
<1>1. /\ read_sem[STDIN] \in Sems /\ write_sem[STDIN] \in Sems
      /\ \/ state' = st /\ UNCHANGED <<units, ring>>
         \/ UnitsOf(write_sem[STDIN]) # 0 /\ Keyed(st)
  BY TypedIs
<1>2. CASE state' = st /\ UNCHANGED <<units, ring>>
  BY <1>2
<1>3. CASE UnitsOf(write_sem[STDIN]) # 0 /\ Keyed(st)
  <2> DEFINE u == Taken(write_sem[STDIN])
  <2>1. u \in [Sems -> {Free} \cup Nat] /\ \A j \in Sems : u[j] = Free <=> units[j] = Free
    BY <1>1, <1>3, TakenIs
  <2>2. Posted(read_sem[STDIN], u, st)
    BY <1>3 DEF Keyed
  <2> HIDE DEF u
  <2>3. RingsOK(u, ring, st, cl)
    BY <2>1, RingsCalls DEF PTypeOK
  <2>4. QED BY <1>1, <2>1, <2>2, <2>3, RingsPosted
<1>4. QED BY <1>1, <1>2, <1>3

LEMMA RingsAfterEnd ==
    ASSUME PTypeOK, FrontOK, NEW q \in Procs, Ends(q), RingsOK(units, ring, state, call)
    PROVE  RingsOK(units, ring, Dead(q), call')
<1>1. /\ q # Shell /\ Dead(q)[q] = "TERMINATED"
      /\ Dead(q)[Shell] = IF awaited = q THEN "READY" ELSE state[Shell]
      /\ \A p \in Procs \ {q, Shell} : Dead(q)[p] = state[p]
      /\ call' = [call EXCEPT ![q] = NoCall]
  BY DeadIs
<1>2. awaited = q => state[Shell] = "WAITING"
  BY Known DEF FrontOK
<1>3. \A p \in Procs :
        \/ Dead(q)[p] = state[p]
        \/ Dead(q)[p] = "TERMINATED"
        \/ state[p] \notin {"BLOCKED", "TERMINATED"} /\ Dead(q)[p] # "BLOCKED"
  BY <1>1, <1>2
<1>4. ring \in [Sems -> Seq(Procs)] /\ call \in [Procs -> Calls]
  BY DEF PTypeOK, Calls
<1>5. RingsOK(units, ring, Dead(q), call)
  BY <1>3, <1>4, RingsStates
<1>6. \A p \in Procs : Dead(q)[p] = "BLOCKED" => call'[p].sem = call[p].sem
  BY <1>1, <1>4
<1>7. QED BY <1>4, <1>5, <1>6, RingsCalls

LEMMA RingsDestroyed ==
    ASSUME PTypeOK, NEW ks \in SUBSET Sems, Destroyed(ks), RingsOK(units, ring, state, call)
    PROVE  RingsOK(units', ring', state', call)
<1>1. /\ units' = [k \in Sems |-> IF k \in ks THEN Free ELSE units[k]]
      /\ ring' = [k \in Sems |-> IF k \in ks THEN <<>> ELSE ring[k]]
      /\ state' = Awake(state, UNION {ToSet(ring[k]) : k \in ks})
  BY DEF Destroyed, WakesAll
<1>2. ring \in [Sems -> Seq(Procs)] /\ state \in [Procs -> States]
  BY DEF PTypeOK, States
<1> DEFINE set == UNION {ToSet(ring[k]) : k \in ks}
<1>3. \A p \in Procs : p \in set <=> \E k \in ks : \E i \in 1 .. Len(ring[k]) : ring[k][i] = p
  <2> TAKE p \in Procs
  <2>1. p \in set <=> \E k \in ks : p \in ToSet(ring[k])
    OBVIOUS
  <2>2. \A k \in ks : p \in ToSet(ring[k]) <=> \E i \in 1 .. Len(ring[k]) : ring[k][i] = p
    <3> TAKE k \in ks
    <3>1. ring[k] \in Seq(Procs) /\ DOMAIN ring[k] = 1 .. Len(ring[k])
      BY <1>2
    <3>2. QED BY <3>1 DEF ToSet
  <2> HIDE DEF set
  <2>3. QED BY <2>1, <2>2
<1>4. state' = Awake(state, set)
  BY <1>1
<1> HIDE DEF set
<1>5. \A p \in Procs : state'[p] = IF p \in set /\ state[p] = "BLOCKED" THEN "READY" ELSE state[p]
  BY <1>4 DEF Awake
<1>6. \A k \in Sems \ ks : \A i \in 1 .. Len(ring[k]) : state'[ring[k][i]] = state[ring[k][i]]
  <2> TAKE k \in Sems \ ks
  <2> TAKE i \in 1 .. Len(ring[k])
  <2>1. PICK p \in Procs : p = ring[k][i]
    BY <1>2
  <2>2. ASSUME p \in set, state[p] = "BLOCKED" PROVE FALSE
    <3>1. PICK j \in ks : \E l \in 1 .. Len(ring[j]) : ring[j][l] = p
      BY <1>3, <2>2
    <3>2. call[p].sem = j /\ call[p].sem = k
      BY <2>1, <2>2, <3>1 DEF RingsOK
    <3>3. QED BY <3>1, <3>2
  <2>3. QED BY <1>5, <2>1, <2>2
<1>7. \A p \in Procs : state'[p] = "BLOCKED" => call[p].sem \notin ks
  <2> TAKE p \in Procs
  <2> HAVE state'[p] = "BLOCKED"
  <2>1. state[p] = "BLOCKED" /\ p \notin set
    BY <1>5
  <2>2. \E i \in 1 .. Len(ring[call[p].sem]) : ring[call[p].sem][i] = p
    BY <2>1 DEF RingsOK
  <2>3. QED BY <1>3, <2>1, <2>2
<1>8. \A k \in Sems : k \in ks => units'[k] = Free /\ ring'[k] = <<>>
  BY <1>1
<1>9. \A k \in Sems \ ks : units'[k] = units[k] /\ ring'[k] = ring[k]
  BY <1>1
<1>10. \A k \in Sems : units'[k] = Free => ring'[k] = <<>>
  BY <1>8, <1>9 DEF RingsOK
<1>11. \A k \in Sems : \A i \in 1 .. Len(ring'[k]) :
         \/ state'[ring'[k][i]] = "TERMINATED"
         \/ state'[ring'[k][i]] = "BLOCKED" /\ call[ring'[k][i]].sem = k
  <2> TAKE k \in Sems
  <2>1. CASE k \in ks
    BY <1>8, <2>1
  <2>2. CASE k \notin ks
    BY <1>6, <1>9, <2>2 DEF RingsOK
  <2>3. QED BY <2>1, <2>2
<1>12. \A k \in Sems : \A i, j \in 1 .. Len(ring'[k]) : ring'[k][i] = ring'[k][j] => i = j
  <2> TAKE k \in Sems
  <2>1. CASE k \in ks
    BY <1>8, <2>1
  <2>2. CASE k \notin ks
    BY <1>9, <2>2 DEF RingsOK
  <2>3. QED BY <2>1, <2>2
<1>13. \A p \in Procs : state'[p] = "BLOCKED" =>
         call[p].sem \in Sems /\ \E i \in 1 .. Len(ring'[call[p].sem]) : ring'[call[p].sem][i] = p
  <2> TAKE p \in Procs
  <2> HAVE state'[p] = "BLOCKED"
  <2>1. state[p] = "BLOCKED" /\ call[p].sem \notin ks
    BY <1>5, <1>7
  <2>2. QED BY <1>9, <2>1 DEF RingsOK
<1>14. QED BY <1>10, <1>11, <1>12, <1>13 DEF RingsOK

LEMMA RingsInit == PInit => RingsOK(units, ring, state, call)
<1> SUFFICES ASSUME PInit PROVE RingsOK(units, ring, state, call)
  OBVIOUS
<1>1. /\ \A k \in Sems : ring[k] = <<>>
      /\ \A p \in Procs : state[p] # "BLOCKED"
  BY DEF PInit
<1>2. QED BY <1>1 DEF RingsOK

LEMMA RingsStep ==
    ASSUME PTypeOK, CallsOK, FrontOK, OwnersOK, AloneOK, RingsOK(units, ring, state, call), PStep
    PROVE  RingsOK(units', ring', state', call')
<1> DEFINE Goal == RingsOK(units', ring', state', call')
<1>0. /\ state \in [Procs -> States] /\ ring \in [Sems -> Seq(Procs)]
      /\ used \in [Fds -> BOOLEAN] /\ units \in [Sems -> {Free} \cup Nat]
      /\ call \in [Procs -> Calls]
  BY DEF PTypeOK, States, Calls
<1>1. ASSUME NEW p \in Procs, Open(p) PROVE Goal
  <2>1. UNCHANGED <<ring, state, call>>
    BY <1>1 DEF Open, procs
  <2>2. \A k \in Sems : units'[k] = Free => units[k] = Free
    <3>1. PICK k1 \in Sems \cup {Free}, k2 \in Sems \cup {Free} :
             \/ units' = [units EXCEPT ![k1] = 0, ![k2] = BufferSize - 1]
             \/ units' = units
      BY <1>1, OpenIs
    <3>2. 0 # Free /\ BufferSize - 1 # Free
      BY Known
    <3>3. QED BY <1>0, <3>1, <3>2
  <2>3. QED BY <1>0, <2>1, <2>2, RingsCalls
<1>2. ASSUME NEW p \in Procs, Exit(p) PROVE Goal
  <2>1. UNCHANGED <<units, ring>>
    BY <1>2 DEF Exit
  <2>2. CASE Ends(p) /\ state' = Dead(p)
    BY <2>1, <2>2, RingsAfterEnd
  <2>3. CASE UNCHANGED <<procs, call>>
    BY <2>1, <2>3 DEF procs
  <2>4. QED BY <1>2, <2>2, <2>3 DEF Exit
<1>3. ASSUME NEW p \in Procs, GivesUp(p) PROVE Goal
  <2>1. /\ call' = [call EXCEPT ![p] = NoCall] /\ UNCHANGED <<units, ring, state>>
        /\ state[p] \in {"READY", "TERMINATED"}
    BY <1>3, MoverIs DEF GivesUp, procs
  <2>2. \A q \in Procs : state[q] = "BLOCKED" => call'[q].sem = call[q].sem
    BY <1>0, <2>1
  <2>3. QED BY <1>0, <2>1, <2>2, RingsCalls
<1>4. ASSUME NEW p \in Procs, Blocks(p) PROVE Goal
  <2>1. PICK k \in Sems \cup {Free} : k = SemFor(p)
    BY SemForType
  <2>2. /\ UnitsOf(k) = 0 /\ MayGoOn(p)
        /\ ring' = [ring EXCEPT ![k] = Append(@, p)] /\ units' = units
    BY <1>4, <2>1 DEF Blocks
  <2>3. k \in Sems /\ units[k] = 0 /\ units[k] # Free
    BY <2>2, Known DEF UnitsOf
  <2>4. cpu = p \/ state[p] = "READY"
    BY <2>2, MoverIs
  <2>5. /\ state'[p] = "TERMINATED" \/ (state'[p] = "BLOCKED" /\ call'[p].sem = k)
        /\ \A q \in Procs \ {p} : state'[q] = state[q] /\ call'[q] = call[q]
    <3>1. CASE state' = [state EXCEPT ![p] = "BLOCKED"] /\ call' = [call EXCEPT ![p].sem = k]
      BY <1>0, <2>3, <3>1 DEF Calls
    <3>2. CASE state[p] = "TERMINATED" /\ state' = state /\ call' = [call EXCEPT ![p] = NoCall]
      BY <1>0, <3>2
    <3>3. QED BY <1>4, <2>1, <3>1, <3>2 DEF Blocks
  <2>6. /\ ring[k] \in Seq(Procs) /\ ring'[k] = Append(ring[k], p) /\ Len(ring[k]) \in Nat
        /\ \A j \in Sems \ {k} : ring'[j] = ring[j]
    BY <1>0, <2>2, <2>3
  <2>7. /\ Len(ring'[k]) = Len(ring[k]) + 1 /\ ring'[k][Len(ring[k]) + 1] = p
        /\ \A i \in 1 .. Len(ring[k]) : ring'[k][i] = ring[k][i]
    BY <2>6
  <2>8. \A j \in Sems : \A i \in 1 .. Len(ring[j]) : ring[j][i] \in Procs /\ ring[j][i] # p
    <3> TAKE j \in Sems
    <3> TAKE i \in 1 .. Len(ring[j])
    <3>1. ring[j][i] \in Procs
      BY <1>0
    <3>2. QED BY <2>4, <3>1 DEF RingsOK, AloneOK
  <2>9. \A j \in Sems : units'[j] = Free => ring'[j] = <<>>
    BY <2>2, <2>3, <2>6 DEF RingsOK
  <2>10. \A j \in Sems : \A i \in 1 .. Len(ring'[j]) :
           \/ state'[ring'[j][i]] = "TERMINATED"
           \/ state'[ring'[j][i]] = "BLOCKED" /\ call'[ring'[j][i]].sem = j
    <3> TAKE j \in Sems
    <3> TAKE i \in 1 .. Len(ring'[j])
    <3>1. CASE j = k /\ i = Len(ring[k]) + 1
      BY <2>5, <2>7, <3>1
    <3>2. CASE ~ (j = k /\ i = Len(ring[k]) + 1)
      <4>1. i \in 1 .. Len(ring[j]) /\ ring'[j][i] = ring[j][i]
        <5>1. CASE j = k
          <6>1. i \in 1 .. Len(ring[k]) + 1 /\ i # Len(ring[k]) + 1
            BY <2>7, <3>2, <5>1
          <6>2. i \in 1 .. Len(ring[k])
            BY <2>6, <6>1
          <6>3. QED BY <2>7, <5>1, <6>2
        <5>2. CASE j # k
          BY <2>6, <5>2
        <5>3. QED BY <5>1, <5>2
      <4>2. ring[j][i] \in Procs /\ ring[j][i] # p
        BY <2>8, <4>1
      <4>3. state[ring[j][i]] = "TERMINATED" \/ (state[ring[j][i]] = "BLOCKED" /\ call[ring[j][i]].sem = j)
        BY <4>1 DEF RingsOK
      <4>4. QED BY <2>5, <4>1, <4>2, <4>3
    <3>3. QED BY <3>1, <3>2
  <2>11. \A j \in Sems : \A i, l \in 1 .. Len(ring'[j]) : ring'[j][i] = ring'[j][l] => i = l
    <3> TAKE j \in Sems
    <3>1. CASE j = k
      <4> TAKE i, l \in 1 .. Len(ring'[j])
      <4>1. i \in 1 .. Len(ring[k]) + 1 /\ l \in 1 .. Len(ring[k]) + 1
        BY <2>7, <3>1
      <4>2. CASE i \in 1 .. Len(ring[k]) /\ l \in 1 .. Len(ring[k])
        BY <2>3, <2>7, <3>1, <4>2 DEF RingsOK
      <4>3. CASE i = Len(ring[k]) + 1 /\ l \in 1 .. Len(ring[k])
        BY <2>3, <2>7, <2>8, <3>1, <4>3
      <4>4. CASE i \in 1 .. Len(ring[k]) /\ l = Len(ring[k]) + 1
        BY <2>3, <2>7, <2>8, <3>1, <4>4
      <4>5. QED BY <2>6, <4>1, <4>2, <4>3, <4>4
    <3>2. CASE j # k
      BY <2>6, <3>2 DEF RingsOK
    <3>3. QED BY <3>1, <3>2
  <2>12. \A q \in Procs : state'[q] = "BLOCKED" =>
           call'[q].sem \in Sems /\ \E i \in 1 .. Len(ring'[call'[q].sem]) : ring'[call'[q].sem][i] = q
    <3> TAKE q \in Procs
    <3> HAVE state'[q] = "BLOCKED"
    <3>1. CASE q = p
      <4>1. Len(ring[k]) + 1 \in 1 .. Len(ring'[k])
        BY <2>6, <2>7
      <4>2. QED BY <2>3, <2>5, <2>7, <3>1, <4>1
    <3>2. CASE q # p
      <4>1. PICK j \in Sems : j = call[q].sem
        BY <2>5, <3>2 DEF RingsOK
      <4>2. PICK i \in 1 .. Len(ring[j]) : ring[j][i] = q
        BY <2>5, <3>2, <4>1 DEF RingsOK
      <4>3. i \in 1 .. Len(ring'[j]) /\ ring'[j][i] = q
        <5>1. CASE j = k
          BY <2>6, <2>7, <4>2, <5>1
        <5>2. CASE j # k
          BY <2>6, <4>2, <5>2
        <5>3. QED BY <5>1, <5>2
      <4>4. QED BY <2>5, <3>2, <4>1, <4>3
    <3>3. QED BY <3>1, <3>2
  <2>13. QED BY <2>9, <2>10, <2>11, <2>12 DEF RingsOK
<1>5. ASSUME NEW p \in Procs, NEW kp \in Sems \cup {Free}, Moves(p, kp) PROVE Goal
  <2> DEFINE u == Taken(SemFor(p))
  <2>1. MayGoOn(p) /\ Goes(p) /\ Posted(kp, u, state)
        /\ SemFor(p) \in Sems \cup {Free} /\ UnitsOf(SemFor(p)) # 0
    BY <1>5 DEF Moves
  <2>2. u \in [Sems -> {Free} \cup Nat] /\ \A j \in Sems : u[j] = Free <=> units[j] = Free
    BY <2>1, TakenIs
  <2> HIDE DEF u
  <2>3. state[p] \in {"READY", "TERMINATED"}
    BY <2>1, MoverIs
  <2>4. \A q \in Procs : state[q] = "BLOCKED" => call'[q].sem = call[q].sem
    BY <2>1, <2>3 DEF Goes
  <2>5. RingsOK(u, ring, state, call')
    BY <1>0, <2>2, <2>4, RingsCalls
  <2>6. QED BY <1>0, <2>1, <2>2, <2>5, RingsPosted
<1>6. ASSUME NEW p \in Procs, NEW f \in Fds, Close(p, f) PROVE Goal
  <2>1. used[f] /\ Destroyed({read_sem[f], write_sem[f]}) /\ call' = call
    BY <1>6 DEF Close
  <2>2. {read_sem[f], write_sem[f]} \in SUBSET Sems
    BY <2>1 DEF OwnersOK
  <2>3. QED BY <2>1, <2>2, RingsDestroyed
<1>7. ASSUME NEW p \in Procs, NEW f \in Fds, NEW op \in {"read", "write"}, NEW todo \in Seq(Bytes),
             Entering(p, op, f, todo)
      PROVE  Goal
  <2>1. /\ call' = [call EXCEPT ![p] = [op |-> op, fd |-> f, sem |-> Free, todo |-> todo]]
        /\ UNCHANGED <<units, ring, state>> /\ state[p] \in {"READY", "TERMINATED"}
    BY <1>7, OutsideIs DEF Entering, Enters, procs
  <2>2. \A q \in Procs : state[q] = "BLOCKED" => call'[q].sem = call[q].sem
    BY <1>0, <2>1
  <2>3. QED BY <1>0, <2>1, <2>2, RingsCalls
<1>8. ASSUME NEW p \in Procs, NEW q \in Procs, Kill(p, q) PROVE Goal
  <2>1. Ends(q) /\ state' = Dead(q) /\ UNCHANGED <<units, ring>>
    BY <1>8 DEF Kill
  <2>2. QED BY <2>1, RingsAfterEnd
<1>9. ASSUME NEW q \in Procs, NEW asked \in BOOLEAN, Start(q, asked) PROVE Goal
  <2>1. /\ state[Shell] = "READY" /\ state[q] = "NEW" /\ UNCHANGED <<units, ring, call>>
        /\ state'[q] # "BLOCKED" /\ state'[Shell] # "BLOCKED"
        /\ \A p \in Procs \ {q, Shell} : state'[p] = state[p]
    BY <1>9, StartIs
  <2>2. \A p \in Procs : state'[p] = state[p] \/ (state[p] \notin {"BLOCKED", "TERMINATED"} /\ state'[p] # "BLOCKED")
    BY <2>1
  <2>3. QED BY <1>0, <2>1, <2>2, RingsStates
<1>10. ASSUME NEW b \in Bytes, Typing(b) PROVE Goal
  <2>1. Typed(b, state) /\ call' = call
    BY <1>10 DEF Typing
  <2>2. QED BY <1>0, <2>1, TypedRings
<1>11. ASSUME Interrupting PROVE Goal
  <2>1. PICK q \in Procs : q = front
    BY DEF PTypeOK
  <2>2. Ends(q) /\ Typed(Interrupt, Dead(q)) /\ Interrupt \in Bytes
    BY <1>11, <2>1 DEF Interrupting
  <2>3. Dead(q) \in [Procs -> States] /\ RingsOK(units, ring, Dead(q), call')
    BY <2>2, DeadIs, RingsAfterEnd
  <2>4. QED BY <2>2, <2>3, TypedRings
<1>12. ASSUME NEW p \in Procs, Takes(p) \/ Gives(p) PROVE Goal
  <2>1. PICK kp : Moves(p, kp)
    BY <1>12, TakesIs, GivesIs
  <2>2. kp \in Sems \cup {Free}
    BY <2>1 DEF Moves
  <2>3. QED BY <1>5, <2>1, <2>2
<1>13. ASSUME Tick PROVE Goal
  BY <1>13 DEF Tick, procs
<1>14. QED BY <1>1, <1>2, <1>3, <1>4, <1>6, <1>7, <1>8, <1>9, <1>10, <1>11, <1>12, <1>13 DEF PStep

(* Who gets the processor is in no ring: it was ready, or had it. *)
Shrinks == \A k \in Sems : ring'[k] # <<>> => ring'[k] = ring[k] \/ ring'[k] = Tail(ring[k])

LEMMA PostedShrinks ==
    ASSUME PTypeOK, NEW k \in Sems \cup {Free}, NEW u \in [Sems -> {Free} \cup Nat],
           NEW st \in [Procs -> States], Posted(k, u, st)
    PROVE  Shrinks
<1>1. ring \in [Sems -> Seq(Procs)]
  BY DEF PTypeOK
<1>2. ring' = ring \/ (k \in Sems /\ ring' = [ring EXCEPT ![k] = Tail(ring[k])])
  BY PostedIs
<1>3. QED BY <1>1, <1>2 DEF Shrinks

LEMMA AloneKept ==
    ASSUME PTypeOK, AloneOK, RingsOK(units, ring, state, call), Shrinks,
           cpu' \in {cpu, Nobody} \/ (cpu' \in Procs /\ state[cpu'] = "READY")
    PROVE  AloneOK'
<1> SUFFICES ASSUME NEW k \in Sems, NEW i \in 1 .. Len(ring'[k]) PROVE ring'[k][i] # cpu'
  BY DEF AloneOK
<1>1. ring[k] \in Seq(Procs) /\ Len(ring[k]) \in Nat
  BY DEF PTypeOK
<1>2. ring'[k] = ring[k] \/ (ring'[k] = Tail(ring[k]) /\ ring[k] # <<>>)
  <2>1. ring'[k] # <<>>
    OBVIOUS
  <2>2. ring'[k] = ring[k] \/ ring'[k] = Tail(ring[k])
    BY <2>1 DEF Shrinks
  <2>3. CASE ring[k] # <<>>
    BY <2>2, <2>3
  <2>4. CASE ring[k] = <<>>
    BY <1>1, <2>1, <2>2, <2>4
  <2>5. QED BY <2>3, <2>4
<1>3. PICK j \in 1 .. Len(ring[k]) : ring'[k][i] = ring[k][j]
  <2>1. CASE ring'[k] = ring[k]
    BY <2>1
  <2>2. CASE ring'[k] = Tail(ring[k]) /\ ring[k] # <<>>
    <3>1. Len(ring'[k]) = Len(ring[k]) - 1
      BY <1>1, <2>2
    <3>2. i + 1 \in 1 .. Len(ring[k]) /\ i \in 1 .. Len(ring[k]) - 1
      BY <1>1, <3>1
    <3>3. Tail(ring[k])[i] = ring[k][i + 1]
      BY <1>1, <2>2, <3>2
    <3>4. QED BY <2>2, <3>2, <3>3
  <2>3. QED BY <1>2, <2>1, <2>2
<1>4. ring[k][j] \in Procs /\ ring[k][j] # cpu /\ state[ring[k][j]] # "READY"
  BY <1>1 DEF AloneOK, RingsOK
<1>5. QED BY <1>3, <1>4, Known

LEMMA AloneStep ==
    ASSUME PTypeOK, CallsOK, FrontOK, OwnersOK, AloneOK, RingsOK(units, ring, state, call), PStep,
           PTypeOK'
    PROVE  AloneOK'
<1> DEFINE Alone == cpu' \in {cpu, Nobody} \/ (cpu' \in Procs /\ state[cpu'] = "READY")
<1>0. state \in [Procs -> States] /\ ring \in [Sems -> Seq(Procs)]
  BY DEF PTypeOK, States
<1>a. ASSUME UNCHANGED ring PROVE Shrinks
  BY <1>a DEF Shrinks
<1>1. ASSUME NEW p \in Procs, Open(p) \/ Exit(p) \/ GivesUp(p) PROVE Shrinks /\ Alone
  <2>1. UNCHANGED ring
    BY <1>1 DEF Open, Exit, GivesUp
  <2>2. Alone
    <3>1. CASE Open(p) \/ Exit(p)
      BY <3>1 DEF Open, Exit
    <3>2. CASE GivesUp(p)
      <4>1. MayGoOn(p) /\ cpu' = Leaver(p)
        BY <3>2 DEF GivesUp
      <4>2. QED BY <4>1, MoverIs
    <3>3. QED BY <1>1, <3>1, <3>2
  <2>3. QED BY <1>a, <2>1, <2>2
<1>2. ASSUME NEW p \in Procs, Blocks(p) PROVE AloneOK'
  <2>1. cpu' = Nobody /\ ring' \in [Sems -> Seq(Procs)]
    BY <1>2 DEF Blocks, PTypeOK
  <2>2. \A k \in Sems : \A i \in 1 .. Len(ring'[k]) : ring'[k][i] \in Procs
    BY <2>1
  <2>3. QED BY <2>1, <2>2, Known DEF AloneOK
<1>3. ASSUME NEW p \in Procs, Takes(p) \/ Gives(p) PROVE Shrinks /\ Alone
  <2>1. PICK kp : Moves(p, kp)
    BY <1>3, TakesIs, GivesIs
  <2>2. /\ SemFor(p) \in Sems \cup {Free} /\ kp \in Sems \cup {Free} /\ UnitsOf(SemFor(p)) # 0
        /\ Posted(kp, Taken(SemFor(p)), state) /\ MayGoOn(p) /\ Goes(p)
    BY <2>1 DEF Moves
  <2>3. Taken(SemFor(p)) \in [Sems -> {Free} \cup Nat]
    BY <2>2, TakenIs
  <2>4. Shrinks
    BY <1>0, <2>2, <2>3, PostedShrinks
  <2>5. cpu \in {p, Nobody} /\ (cpu = p \/ state[p] = "READY") /\ cpu' \in {p, Nobody}
    BY <2>2, MoverIs DEF Goes
  <2>6. QED BY <2>4, <2>5
<1>4. ASSUME NEW p \in Procs, NEW f \in Fds, Close(p, f) PROVE Shrinks /\ Alone
  BY <1>4 DEF Close, Destroyed, Shrinks
<1>5. ASSUME NEW p \in Procs, NEW f \in Fds, NEW op \in {"read", "write"}, NEW todo \in Seq(Bytes),
             Entering(p, op, f, todo)
      PROVE  Shrinks /\ Alone
  <2>1. UNCHANGED ring /\ cpu' = p /\ Outside(p)
    BY <1>5 DEF Entering, Enters
  <2>2. QED BY <1>a, <2>1, OutsideIs
<1>6. ASSUME NEW p \in Procs, NEW q \in Procs, Kill(p, q) PROVE Shrinks /\ Alone
  BY <1>a, <1>6 DEF Kill
<1>7. ASSUME NEW q \in Procs, NEW asked \in BOOLEAN, Start(q, asked) PROVE Shrinks /\ Alone
  BY <1>a, <1>7 DEF Start
<1>8. ASSUME NEW b \in Bytes, NEW st \in [Procs -> States], Typed(b, st) PROVE Shrinks
  <2>1. /\ read_sem[STDIN] \in Sems /\ write_sem[STDIN] \in Sems
        /\ UNCHANGED ring \/ (UnitsOf(write_sem[STDIN]) # 0 /\ Keyed(st))
    BY <1>8, TypedIs
  <2>2. CASE UnitsOf(write_sem[STDIN]) # 0 /\ Keyed(st)
    <3>1. Taken(write_sem[STDIN]) \in [Sems -> {Free} \cup Nat]
      BY <2>1, <2>2, TakenIs
    <3>2. QED BY <2>1, <2>2, <3>1, PostedShrinks DEF Keyed
  <2>3. QED BY <1>a, <2>1, <2>2
<1>9. ASSUME NEW b \in Bytes, Typing(b) PROVE Shrinks /\ Alone
  BY <1>0, <1>8, <1>9 DEF Typing
<1>10. ASSUME Interrupting PROVE Shrinks /\ Alone
  <2>1. PICK q \in Procs : q = front
    BY DEF PTypeOK
  <2>2. /\ Ends(q) /\ Typed(Interrupt, Dead(q)) /\ Interrupt \in Bytes
        /\ cpu' = cpu \/ (Outside(q) /\ cpu' = q)
    BY <1>10, <2>1 DEF Interrupting
  <2>3. Dead(q) \in [Procs -> States]
    BY <2>2, DeadIs
  <2>4. Alone
    BY <2>2, OutsideIs
  <2>5. QED BY <1>8, <2>2, <2>3, <2>4
<1>11. ASSUME Tick PROVE Shrinks /\ Alone
  BY <1>a, <1>11 DEF Tick
<1>12. ASSUME Shrinks /\ Alone PROVE AloneOK'
  BY <1>12, AloneKept
<1> HIDE DEF Alone
<1>13. QED BY <1>1, <1>2, <1>3, <1>4, <1>5, <1>6, <1>7, <1>9, <1>10, <1>11, <1>12 DEF PStep

-----------------------------------------------------------------------------
(* The calm: a byte that passes from one of the two semaphores of a pipe to
   the other. *)
CalmOK == (\A p \in Procs : CutOK(p)) /\ (\A f \in Fds : UnitsOK(f))

LEMMA PassUnits ==
    ASSUME PTypeOK, NEW kt \in Sems, NEW kp \in Sems, kt # kp, units[kt] # Free, units[kp] # Free,
           UnitsOf(kt) # 0, NEW st \in [Procs -> States], Posted(kp, Taken(kt), st)
    PROVE  /\ units[kt] \in Nat /\ units[kp] \in Nat /\ units[kt] >= 1
           /\ units'[kt] = units[kt] - 1 /\ units'[kp] = units[kp] + 1
           /\ \A k \in Sems \ {kt, kp} : units'[k] = units[k]
<1>1. ~IsFree(kt) /\ kt # Free /\ kp # Free
  BY Known DEF IsFree, UnitsOf
<1>2. /\ Taken(kt) \in [Sems -> {Free} \cup Nat]
      /\ units[kt] \in Nat /\ units[kt] >= 1
      /\ Taken(kt) = [units EXCEPT ![kt] = units[kt] - 1]
  BY <1>1, TakenIs
<1>3. units \in [Sems -> {Free} \cup Nat]
  BY DEF PTypeOK
<1>4. /\ Taken(kt)[kt] = units[kt] - 1 /\ Taken(kt)[kp] = units[kp]
      /\ \A k \in Sems \ {kt} : Taken(kt)[k] = units[k]
  BY <1>2, <1>3
<1>5. units' = [Taken(kt) EXCEPT ![kp] = Taken(kt)[kp] + 1]
  BY <1>1, <1>2, <1>4, PostedIs
<1>6. QED BY <1>2, <1>3, <1>4, <1>5

LEMMA PassNothing ==
    ASSUME PTypeOK, NEW kt \in Sems \cup {Free}, NEW kp \in Sems \cup {Free}, IsFree(kt), IsFree(kp),
           NEW st \in [Procs -> States], Posted(kp, Taken(kt), st)
    PROVE  units' = units /\ ring' = ring /\ state' = st
<1>1. Taken(kt) = units
  BY DEF Taken
<1>2. units \in [Sems -> {Free} \cup Nat] /\ (kp = Free \/ units[kp] = Free)
  BY DEF PTypeOK, IsFree, UnitsOf
<1>3. Posted(kp, units, st)
  BY <1>1
<1>4. QED BY <1>2, <1>3, PostedIs

(* A call that goes on while it is calm. *)
LEMMA MovesUnitsOf ==
    ASSUME PTypeOK, CallsOK, OwnersOK, NEW p \in Procs, CutOK(p),
           NEW f \in Fds, f = call[p].fd, NEW kt, NEW kp, kp # kt,
           \/ call[p].op = "read" /\ kt = read_sem[f] /\ kp = write_sem[f]
           \/ call[p].op = "write" /\ kt = write_sem[f] /\ kp = read_sem[f],
           Moves(p, kp)
    PROVE  IF used[f]
           THEN /\ SemFor(p) = kt /\ kt \in Sems /\ kp \in Sems
                /\ units[kt] \in Nat /\ units[kp] \in Nat /\ units[kt] >= 1
                /\ units'[kt] = units[kt] - 1 /\ units'[kp] = units[kp] + 1
                /\ \A k \in Sems \ {kt, kp} : units'[k] = units[k]
           ELSE IsFree(SemFor(p)) /\ units' = units /\ ring' = ring /\ state' = state
<1>1. /\ SemFor(p) \in Sems \cup {Free} /\ kp \in Sems \cup {Free} /\ UnitsOf(SemFor(p)) # 0
      /\ Posted(kp, Taken(SemFor(p)), state) /\ call[p] # NoCall
  BY DEF Moves
<1>2. state \in [Procs -> States]
  BY DEF PTypeOK, States
<1>3. SemOf(p) = kt
  BY DEF SemOf
<1>4. SemFor(p) = IF call[p].sem # Free THEN call[p].sem ELSE kt
  BY DEF SemFor
<1>5. CASE used[f]
  <2>1. SemFor(p) = kt
    BY <1>1, <1>3, <1>4, <1>5 DEF CutOK
  <2>2. kt \in Sems /\ kp \in Sems /\ units[kt] # Free /\ units[kp] # Free
    BY <1>5 DEF OwnersOK
  <2>3. QED BY <1>1, <1>2, <1>5, <2>1, <2>2, PassUnits
<1>6. CASE ~used[f]
  <2>1. IsFree(kt) /\ IsFree(kp) /\ IsFree(SemFor(p))
    BY <1>1, <1>4, <1>6 DEF CutOK
  <2>2. QED BY <1>1, <1>2, <1>6, <2>1, PassNothing
<1>7. QED BY <1>5, <1>6

LEMMA CutKept ==
    ASSUME PTypeOK, NEW p \in Procs, CutOK(p), UNCHANGED <<used, read_sem, write_sem>>,
           SameFree(units', units),
           \/ call'[p] = NoCall
           \/ /\ call[p] # NoCall /\ call'[p].op = call[p].op /\ call'[p].fd = call[p].fd
              /\ call'[p].sem \in {Free, call[p].sem}
    PROVE  CutOK(p)'
<1>1. CASE call'[p] = NoCall
  BY <1>1 DEF CutOK
<1>2. CASE /\ call[p] # NoCall /\ call'[p].op = call[p].op /\ call'[p].fd = call[p].fd
           /\ call'[p].sem \in {Free, call[p].sem}
  <2>1. call[p].fd \in Fds /\ call[p].sem \in Sems \cup {Free}
    BY DEF PTypeOK
  <2>2. read_sem[call[p].fd] \in Sems \cup {Free} /\ write_sem[call[p].fd] \in Sems \cup {Free}
    BY <2>1 DEF PTypeOK
  <2>3. SemOf(p)' = SemOf(p)
    BY <1>2 DEF SemOf
  <2>4. CASE used[call[p].fd]
    BY <1>2, <2>3, <2>4 DEF CutOK
  <2>5. CASE ~used[call[p].fd]
    <3>1. IsFree(read_sem[call[p].fd]) /\ IsFree(write_sem[call[p].fd]) /\ IsFree(call[p].sem)
      BY <1>2, <2>5 DEF CutOK
    <3>2. ASSUME NEW k \in Sems \cup {Free}, IsFree(k) PROVE k = Free \/ units'[k] = Free
      BY <3>2 DEF IsFree, UnitsOf, SameFree
    <3>3. QED BY <1>2, <2>1, <2>2, <2>5, <3>1, <3>2 DEF CutOK, IsFree, UnitsOf
  <2>6. QED BY <2>4, <2>5
<1>3. QED BY <1>1, <1>2

LEMMA UnitsKept ==
    ASSUME NEW f \in Fds, UnitsOK(f), UNCHANGED <<used, read_sem, write_sem>>,
           used[f] => /\ units'[read_sem[f]] = units[read_sem[f]]
                      /\ units'[write_sem[f]] = units[write_sem[f]]
                      /\ read_pos'[f] = read_pos[f] /\ write_pos'[f] = write_pos[f]
    PROVE  UnitsOK(f)'
BY DEF UnitsOK

(* A byte is read, or written. *)
LEMMA UnitsAfterGet ==
    ASSUME PTypeOK, NEW f \in Fds, UnitsOK(f), used[f], UNCHANGED <<used, read_sem, write_sem>>,
           units[read_sem[f]] \in Nat, units[read_sem[f]] >= 1,
           units'[read_sem[f]] = units[read_sem[f]] - 1,
           units'[write_sem[f]] = units[write_sem[f]] + 1,
           read_pos' = [read_pos EXCEPT ![f] = (@ + 1) % BufferSize], write_pos' = write_pos
    PROVE  UnitsOK(f)'
<1> DEFINE rd == units[read_sem[f]]
           rp == read_pos[f]
           wp == write_pos[f]
<1>1. /\ rd \in Places /\ (wp = rp + rd \/ wp = rp + rd - BufferSize)
      /\ units[write_sem[f]] = BufferSize - 1 - rd
  BY DEF UnitsOK
<1>2. read_pos \in [Fds -> Places] /\ rp \in Places /\ wp \in Places
  BY DEF PTypeOK
<1>3. read_pos'[f] = IF rp + 1 < BufferSize THEN rp + 1 ELSE 0
  BY <1>2, NextPlace
<1>4. units'[read_sem'[f]] = rd - 1 /\ units'[write_sem'[f]] = units[write_sem[f]] + 1 /\ write_pos'[f] = wp
  OBVIOUS
<1>5. rd >= 1 /\ rd \in Nat
  OBVIOUS
<1> HIDE DEF rd, rp, wp
<1>6. rd - 1 \in Places
  BY <1>1, <1>5, Known
<1>7. units'[write_sem'[f]] = BufferSize - 1 - (rd - 1)
  BY <1>1, <1>4, <1>5, Known
<1>8. wp = read_pos'[f] + (rd - 1) \/ wp = read_pos'[f] + (rd - 1) - BufferSize
  BY <1>1, <1>2, <1>3, <1>5, Known
<1>9. QED BY <1>4, <1>6, <1>7, <1>8 DEF UnitsOK

LEMMA UnitsAfterPut ==
    ASSUME PTypeOK, NEW f \in Fds, UnitsOK(f), used[f], UNCHANGED <<used, read_sem, write_sem>>,
           units[write_sem[f]] \in Nat, units[write_sem[f]] >= 1,
           units'[write_sem[f]] = units[write_sem[f]] - 1,
           units'[read_sem[f]] = units[read_sem[f]] + 1,
           write_pos' = [write_pos EXCEPT ![f] = (@ + 1) % BufferSize], read_pos' = read_pos
    PROVE  UnitsOK(f)'
<1> DEFINE rd == units[read_sem[f]]
           wr == units[write_sem[f]]
           rp == read_pos[f]
           wp == write_pos[f]
<1>1. /\ rd \in Places /\ (wp = rp + rd \/ wp = rp + rd - BufferSize)
      /\ wr = BufferSize - 1 - rd
  BY DEF UnitsOK
<1>2. write_pos \in [Fds -> Places] /\ rp \in Places /\ wp \in Places
  BY DEF PTypeOK
<1>3. write_pos'[f] = IF wp + 1 < BufferSize THEN wp + 1 ELSE 0
  BY <1>2, NextPlace
<1>4. units'[read_sem'[f]] = rd + 1 /\ units'[write_sem'[f]] = wr - 1 /\ read_pos'[f] = rp
  OBVIOUS
<1>5. wr >= 1 /\ wr \in Nat
  OBVIOUS
<1> HIDE DEF rd, rp, wp, wr
<1>6. rd + 1 \in Places
  BY <1>1, <1>5, Known
<1>7. units'[write_sem'[f]] = BufferSize - 1 - (rd + 1)
  BY <1>1, <1>4, <1>5, Known
<1>8. write_pos'[f] = rp + (rd + 1) \/ write_pos'[f] = rp + (rd + 1) - BufferSize
  BY <1>1, <1>2, <1>3, <1>5, Known
<1>9. QED BY <1>4, <1>6, <1>7, <1>8 DEF UnitsOK

LEMMA CalmInit == PInit => CalmOK
<1> SUFFICES ASSUME PInit PROVE CalmOK
  OBVIOUS
<1>1. \A p \in Procs : call[p] = NoCall
  BY DEF PInit
<1>2. ASSUME NEW f \in Fds, used[f] PROVE UnitsOK(f)
  <2>1. f = STDIN
    BY <1>2 DEF PInit
  <2>2. read_sem[f] = 0 /\ write_sem[f] = 1 /\ read_pos[f] = 0 /\ write_pos[f] = 0
    BY <2>1 DEF PInit
  <2>3. units[0] = 0 /\ units[1] = BufferSize - 1 /\ 0 \in Places
    BY Known DEF PInit
  <2>4. QED BY <2>2, <2>3, Known DEF UnitsOK
<1>3. \A f \in Fds : UnitsOK(f)
  BY <1>2 DEF UnitsOK
<1>4. QED BY <1>1, <1>3 DEF CalmOK, CutOK

LEMMA TypedCalm ==
    ASSUME PTypeOK, OwnersOK, CalmOK, NEW b \in Bytes, NEW st \in [Procs -> States], Typed(b, st),
           UNCHANGED <<used, read_pos, read_sem, write_sem>>,
           \A p \in Procs : call'[p] \in {NoCall, call[p]}
    PROVE  CalmOK'
<1>1. SameFree(units', units)
  BY TypedUnits
<1>2. \A p \in Procs : CutOK(p)'
  <2> TAKE p \in Procs
  <2>1. CutOK(p) /\ call'[p] \in {NoCall, call[p]}
    BY DEF CalmOK
  <2>2. QED BY <1>1, <2>1, CutKept
<1>3. /\ read_sem[STDIN] \in Sems /\ write_sem[STDIN] \in Sems
      /\ \/ UNCHANGED <<buffer, write_pos, moved, units, ring>>
         \/ /\ UnitsOf(write_sem[STDIN]) # 0
            /\ Puts(STDIN, b, "keyboard") /\ Keyed(st)
  BY TypedIs
<1>4. \A f \in Fds : UnitsOK(f)'
  <2> TAKE f \in Fds
  <2>1. UnitsOK(f)
    BY DEF CalmOK
  <2>2. CASE UNCHANGED <<buffer, write_pos, moved, units, ring>>
    BY <2>1, <2>2, UnitsKept
  <2>3. CASE UnitsOf(write_sem[STDIN]) # 0 /\ Puts(STDIN, b, "keyboard") /\ Keyed(st)
    <3>1. /\ STDIN \in Fds /\ used[STDIN] /\ read_sem[STDIN] # write_sem[STDIN]
          /\ units[read_sem[STDIN]] # Free /\ units[write_sem[STDIN]] # Free
      BY Known DEF OwnersOK
    <3>2. Posted(read_sem[STDIN], Taken(write_sem[STDIN]), st)
      BY <2>3 DEF Keyed
    <3>3. /\ units[write_sem[STDIN]] \in Nat /\ units[write_sem[STDIN]] >= 1
          /\ units'[write_sem[STDIN]] = units[write_sem[STDIN]] - 1
          /\ units'[read_sem[STDIN]] = units[read_sem[STDIN]] + 1
          /\ \A k \in Sems \ {write_sem[STDIN], read_sem[STDIN]} : units'[k] = units[k]
      BY <1>3, <2>3, <3>1, <3>2, PassUnits
    <3>4. write_pos' = [write_pos EXCEPT ![STDIN] = (@ + 1) % BufferSize]
      BY <2>3 DEF Puts
    <3>5. CASE f = STDIN
      BY <2>1, <3>1, <3>3, <3>4, <3>5, UnitsAfterPut
    <3>6. CASE f # STDIN
      <4>1. used[f] => read_sem[f] \in Sems \ {write_sem[STDIN], read_sem[STDIN]}
                       /\ write_sem[f] \in Sems \ {write_sem[STDIN], read_sem[STDIN]}
        BY <3>1, <3>6 DEF OwnersOK
      <4>2. write_pos'[f] = write_pos[f]
        BY <3>4, <3>6 DEF PTypeOK
      <4>3. QED BY <2>1, <3>3, <4>1, <4>2, UnitsKept
    <3>7. QED BY <3>5, <3>6
  <2>4. QED BY <1>3, <2>2, <2>3
<1>5. QED BY <1>2, <1>4 DEF CalmOK

(* The rest of UnitsOK when a call of pipe f goes on. *)
LEMMA MovesCalm ==
    ASSUME PTypeOK, CallsOK, OwnersOK, CalmOK, NEW p \in Procs, Takes(p) \/ Gives(p)
    PROVE  CalmOK'
<1>1. PICK f \in Fds : f = call[p].fd
  BY DEF PTypeOK
<1>2. PICK rs, ws : rs = read_sem[f] /\ ws = write_sem[f]
  OBVIOUS
<1>3. \/ /\ call[p].op = "read" /\ Moves(p, ws)
         /\ read_pos' = [read_pos EXCEPT ![f] = (@ + 1) % BufferSize] /\ write_pos' = write_pos
      \/ /\ call[p].op = "write" /\ Moves(p, rs)
         /\ write_pos' = [write_pos EXCEPT ![f] = (@ + 1) % BufferSize] /\ read_pos' = read_pos
  <2>1. ASSUME Takes(p)
        PROVE  /\ call[p].op = "read" /\ Moves(p, ws)
               /\ read_pos' = [read_pos EXCEPT ![f] = (@ + 1) % BufferSize] /\ write_pos' = write_pos
    BY <1>1, <1>2, <2>1, TakesIs
  <2>2. ASSUME Gives(p)
        PROVE  /\ call[p].op = "write" /\ Moves(p, rs)
               /\ write_pos' = [write_pos EXCEPT ![f] = (@ + 1) % BufferSize] /\ read_pos' = read_pos
    BY <1>1, <1>2, <2>2, GivesIs DEF Puts
  <2>3. QED BY <2>1, <2>2
<1>4. /\ UNCHANGED <<used, read_sem, write_sem>> /\ Goes(p) /\ call[p] # NoCall
      /\ SameFree(units', units)
  BY <1>3, MovesUnits DEF Moves
<1>5. \A q \in Procs : CutOK(q)'
  <2> TAKE q \in Procs
  <2>1. CutOK(q)
    BY DEF CalmOK
  <2>2. CASE q = p
    <3>1. \/ call'[q] = NoCall
          \/ /\ call[q] # NoCall /\ call'[q].op = call[q].op /\ call'[q].fd = call[q].fd
             /\ call'[q].sem \in {Free, call[q].sem}
      BY <1>4, <2>2 DEF Goes
    <3>2. QED BY <1>4, <2>1, <3>1, CutKept
  <2>3. CASE q # p
    <3>1. call'[q] = call[q]
      BY <1>4, <2>3 DEF Goes
    <3>2. QED BY <1>4, <2>1, <3>1, CutKept
  <2>4. QED BY <2>2, <2>3
<1>6. CutOK(p)
  BY DEF CalmOK
<1>7. \A g \in Fds : UnitsOK(g)'
  <2> TAKE g \in Fds
  <2>1. UnitsOK(g)
    BY DEF CalmOK
  <2>2. \A h \in Fds \ {f} : read_pos'[h] = read_pos[h] /\ write_pos'[h] = write_pos[h]
    BY <1>3 DEF PTypeOK
  <2>3. CASE ~used[f]
    <3>1. units' = units
      <4>1. CASE rs = ws
        <5>1. /\ SemFor(p) \in Sems \cup {Free} /\ UnitsOf(SemFor(p)) # 0 /\ IsFree(rs) /\ IsFree(ws)
              /\ IsFree(call[p].sem) /\ rs \in Sems \cup {Free} /\ state \in [Procs -> States]
              /\ Posted(rs, Taken(SemFor(p)), state)
          BY <1>1, <1>2, <1>3, <1>4, <1>6, <2>3, <4>1 DEF Moves, CutOK, PTypeOK, States
        <5>2. SemFor(p) \in {call[p].sem, rs, ws}
          BY <1>1, <1>2 DEF SemFor
        <5>3. IsFree(SemFor(p))
          BY <5>1, <5>2
        <5>4. QED BY <5>1, <5>3, PassNothing
      <4>2. CASE rs # ws
        BY <1>1, <1>2, <1>3, <1>6, <2>3, <4>2, MovesUnitsOf
      <4>3. QED BY <4>1, <4>2
    <3>2. CASE g = f
      BY <1>4, <2>3, <3>2 DEF UnitsOK
    <3>3. CASE g # f
      BY <1>4, <2>1, <2>2, <3>1, <3>3, UnitsKept
    <3>4. QED BY <3>2, <3>3
  <2>4. CASE used[f] /\ call[p].op = "read" /\ Moves(p, ws)
               /\ read_pos' = [read_pos EXCEPT ![f] = (@ + 1) % BufferSize] /\ write_pos' = write_pos
    <3>0. rs # ws
      BY <1>2, <2>4 DEF OwnersOK
    <3>1. /\ rs \in Sems /\ ws \in Sems
          /\ units[rs] \in Nat /\ units[rs] >= 1
          /\ units'[rs] = units[rs] - 1 /\ units'[ws] = units[ws] + 1
          /\ \A k \in Sems \ {rs, ws} : units'[k] = units[k]
      BY <1>1, <1>2, <1>6, <2>4, <3>0, MovesUnitsOf
    <3>2. CASE g = f
      BY <1>2, <1>4, <2>1, <2>4, <3>1, <3>2, UnitsAfterGet
    <3>3. CASE g # f
      <4>1. used[g] => read_sem[g] \in Sems \ {rs, ws} /\ write_sem[g] \in Sems \ {rs, ws}
        BY <1>2, <2>4, <3>3 DEF OwnersOK
      <4>2. QED BY <1>4, <2>1, <2>2, <3>1, <3>3, <4>1, UnitsKept
    <3>4. QED BY <3>2, <3>3
  <2>5. CASE used[f] /\ call[p].op = "write" /\ Moves(p, rs)
               /\ write_pos' = [write_pos EXCEPT ![f] = (@ + 1) % BufferSize] /\ read_pos' = read_pos
    <3>0. rs # ws
      BY <1>2, <2>5 DEF OwnersOK
    <3>1. /\ rs \in Sems /\ ws \in Sems
          /\ units[ws] \in Nat /\ units[ws] >= 1
          /\ units'[ws] = units[ws] - 1 /\ units'[rs] = units[rs] + 1
          /\ \A k \in Sems \ {rs, ws} : units'[k] = units[k]
      BY <1>1, <1>2, <1>6, <2>5, <3>0, MovesUnitsOf
    <3>2. CASE g = f
      BY <1>2, <1>4, <2>1, <2>5, <3>1, <3>2, UnitsAfterPut
    <3>3. CASE g # f
      <4>1. used[g] => read_sem[g] \in Sems \ {rs, ws} /\ write_sem[g] \in Sems \ {rs, ws}
        BY <1>2, <2>5, <3>3 DEF OwnersOK
      <4>2. QED BY <1>4, <2>1, <2>2, <3>1, <3>3, <4>1, UnitsKept
    <3>4. QED BY <3>2, <3>3
  <2>6. QED BY <1>3, <2>3, <2>4, <2>5
<1>8. QED BY <1>5, <1>7 DEF CalmOK

LEMMA CalmKept ==
    ASSUME PTypeOK, CalmOK, UNCHANGED <<used, read_sem, write_sem, units, read_pos, write_pos>>,
           \A p \in Procs : \/ call'[p] = NoCall
                            \/ /\ call[p] # NoCall /\ call'[p].op = call[p].op
                               /\ call'[p].fd = call[p].fd /\ call'[p].sem \in {Free, call[p].sem}
    PROVE  CalmOK'
<1>1. SameFree(units', units)
  BY DEF SameFree
<1>2. \A p \in Procs : CutOK(p)'
  BY <1>1, CutKept DEF CalmOK
<1>3. \A f \in Fds : UnitsOK(f)'
  BY UnitsKept DEF CalmOK
<1>4. QED BY <1>2, <1>3 DEF CalmOK

LEMMA CalmStep ==
    ASSUME PTypeOK, CallsOK, FrontOK, OwnersOK, calm => CalmOK, PStep, calm'
    PROVE  calm /\ CalmOK'
<1>0. /\ used \in [Fds -> BOOLEAN] /\ units \in [Sems -> {Free} \cup Nat]
      /\ read_sem \in [Fds -> Sems \cup {Free}] /\ write_sem \in [Fds -> Sems \cup {Free}]
      /\ read_pos \in [Fds -> Places] /\ write_pos \in [Fds -> Places]
      /\ call \in [Procs -> Calls] /\ state \in [Procs -> States]
  BY DEF PTypeOK, Calls, States
<1>1. ASSUME NEW p \in Procs, Open(p) PROVE calm /\ CalmOK'
  <2>1. PICK f \in Fds, k1 \in Sems \cup {Free}, k2 \in Sems \cup {Free} :
             /\ f # STDIN /\ ~used[f] /\ IsFree(k1) /\ IsFree(k2)
             /\ k2 # Free => k1 # Free /\ k1 # k2
             /\ read_pos' = [read_pos EXCEPT ![f] = 0]
             /\ write_pos' = [write_pos EXCEPT ![f] = 0]
             /\ read_sem' = [read_sem EXCEPT ![f] = k1]
             /\ write_sem' = [write_sem EXCEPT ![f] = k2]
             /\ \/ /\ k2 # Free
                   /\ used' = [used EXCEPT ![f] = TRUE]
                   /\ units' = [units EXCEPT ![k1] = 0, ![k2] = BufferSize - 1]
                \/ k2 = Free /\ units' = units /\ used' = used
    BY <1>1, OpenIs
  <2>2. calm /\ CalmOK /\ (\A q \in Procs : ~Cut(q)) /\ call' = call /\ Interruptible
    BY <1>1, OutsideIs DEF Open, Reuses
  <2>3. /\ \A g \in Fds \ {f} : /\ read_sem'[g] = read_sem[g] /\ write_sem'[g] = write_sem[g]
                                /\ read_pos'[g] = read_pos[g] /\ write_pos'[g] = write_pos[g]
                                /\ used'[g] = used[g]
        /\ read_sem'[f] = k1 /\ write_sem'[f] = k2 /\ read_pos'[f] = 0 /\ write_pos'[f] = 0
    BY <1>0, <2>1
  <2>4. ASSUME NEW q \in Procs, call[q] # NoCall
        PROVE  call[q].fd \in Fds \ {f} /\ used[call[q].fd]
    <3>1. call[q].sem # Free /\ state[q] # "TERMINATED" /\ cpu # q
      BY <2>2, <2>4 DEF CallsOK, CallOK, Interruptible
    <3>2. ~IsFree(call[q].sem)
      BY <2>2, <2>4, <3>1 DEF Cut, InPipe
    <3>3. used[call[q].fd] /\ call[q].fd \in Fds
      BY <1>0, <2>2, <2>4, <3>2 DEF CalmOK, CutOK, Calls
    <3>4. QED BY <2>1, <3>3
  <2>5. \A q \in Procs : CutOK(q)'
    <3> TAKE q \in Procs
    <3>1. CASE call[q] = NoCall
      BY <2>2, <3>1 DEF CutOK
    <3>2. CASE call[q] # NoCall
      <4>1. call[q].fd \in Fds \ {f} /\ used[call[q].fd]
        BY <2>4, <3>2
      <4>2. SemOf(q)' = SemOf(q) /\ used'[call[q].fd]
        BY <2>2, <2>3, <4>1 DEF SemOf
      <4>3. call[q].sem \in {Free, SemOf(q)}
        BY <2>2, <3>2, <4>1 DEF CalmOK, CutOK
      <4>4. QED BY <2>2, <3>2, <4>2, <4>3 DEF CutOK
    <3>3. QED BY <3>1, <3>2
  <2>6. \A g \in Fds : UnitsOK(g)'
    <3> TAKE g \in Fds
    <3>1. UnitsOK(g)
      BY <2>2 DEF CalmOK
    <3>2. CASE k2 = Free /\ units' = units /\ used' = used
      <4>1. CASE g = f
        BY <2>1, <3>2, <4>1 DEF UnitsOK
      <4>2. CASE g # f
        BY <2>3, <3>1, <3>2, <4>2 DEF UnitsOK
      <4>3. QED BY <4>1, <4>2
    <3>3. CASE /\ k2 # Free /\ used' = [used EXCEPT ![f] = TRUE]
               /\ units' = [units EXCEPT ![k1] = 0, ![k2] = BufferSize - 1]
      <4>1. k1 \in Sems /\ k2 \in Sems /\ k1 # k2 /\ units[k1] = Free /\ units[k2] = Free
        BY <2>1, <3>3, Known DEF IsFree, UnitsOf
      <4>2. /\ units'[k1] = 0 /\ units'[k2] = BufferSize - 1
            /\ \A k \in Sems \ {k1, k2} : units'[k] = units[k]
        BY <1>0, <3>3, <4>1
      <4>3. CASE g = f
        BY <2>3, <4>2, <4>3, Known DEF UnitsOK
      <4>4. CASE g # f
        <5>1. used[g] => read_sem[g] \in Sems \ {k1, k2} /\ write_sem[g] \in Sems \ {k1, k2}
          BY <4>1 DEF OwnersOK
        <5>2. QED BY <2>3, <3>1, <4>2, <4>4, <5>1 DEF UnitsOK
      <4>5. QED BY <4>3, <4>4
    <3>4. QED BY <2>1, <3>2, <3>3
  <2>7. QED BY <2>2, <2>5, <2>6 DEF CalmOK
<1>2. ASSUME NEW q \in Procs, Ends(q), calm' = calm,
             UNCHANGED <<used, read_sem, write_sem, units, read_pos, write_pos>>
      PROVE  calm /\ CalmOK'
  <2>1. call' = [call EXCEPT ![q] = NoCall]
    BY <1>2 DEF Ends
  <2>2. \A p \in Procs : \/ call'[p] = NoCall
                         \/ /\ call[p] # NoCall /\ call'[p].op = call[p].op
                            /\ call'[p].fd = call[p].fd /\ call'[p].sem \in {Free, call[p].sem}
    BY <1>0, <2>1
  <2>3. QED BY <1>2, <2>2, CalmKept
<1>3. ASSUME NEW p \in Procs, GivesUp(p) PROVE calm /\ CalmOK'
  <2>1. /\ call' = [call EXCEPT ![p] = NoCall] /\ calm' = calm
        /\ UNCHANGED <<used, read_sem, write_sem, units, read_pos, write_pos>>
    BY <1>3 DEF GivesUp, pipes
  <2>2. \A q \in Procs : \/ call'[q] = NoCall
                         \/ /\ call[q] # NoCall /\ call'[q].op = call[q].op
                            /\ call'[q].fd = call[q].fd /\ call'[q].sem \in {Free, call[q].sem}
    BY <1>0, <2>1
  <2>3. QED BY <2>1, <2>2, CalmKept
<1>4. ASSUME NEW p \in Procs, Blocks(p) PROVE calm /\ CalmOK'
  <2>1. PICK k \in Sems \cup {Free} : k = SemFor(p)
    BY SemForType
  <2>2. /\ UnitsOf(k) = 0 /\ MayGoOn(p) /\ ~Refused(p)
        /\ calm' = calm
        /\ \/ call' = [call EXCEPT ![p].sem = k]
           \/ call' = [call EXCEPT ![p] = NoCall]
        /\ UNCHANGED <<used, read_sem, write_sem, units, read_pos, write_pos>>
    BY <1>4, <2>1 DEF Blocks, pipes
  <2>3. calm /\ CalmOK
    BY <2>2
  <2>4. call[p] # NoCall
    BY <2>2, MoverIs
  <2>5. ~IsFree(k)
    BY <2>2, Known DEF IsFree
  <2>6. used[call[p].fd] /\ k = SemOf(p)
    BY <2>1, <2>3, <2>4, <2>5 DEF CalmOK, CutOK, SemFor, SemOf
  <2>7. \/ call'[p].op = call[p].op /\ call'[p].fd = call[p].fd /\ call'[p].sem = k
        \/ call'[p] = NoCall
    <3>1. CASE call' = [call EXCEPT ![p].sem = k]
      BY <1>0, <3>1 DEF Calls
    <3>2. CASE call' = [call EXCEPT ![p] = NoCall]
      BY <1>0, <3>2
    <3>3. QED BY <2>2, <3>1, <3>2
  <2>8. \A q \in Procs : CutOK(q)'
    <3> TAKE q \in Procs
    <3>1. CASE q = p
      BY <2>2, <2>6, <2>7, <3>1 DEF CutOK, SemOf
    <3>2. CASE q # p
      <4>1. call'[q] = call[q] /\ CutOK(q) /\ SameFree(units', units)
        BY <1>0, <2>2, <2>3, <3>2 DEF CalmOK, SameFree
      <4>2. QED BY <2>2, <4>1, CutKept
    <3>3. QED BY <3>1, <3>2
  <2>9. \A f \in Fds : UnitsOK(f)'
    BY <2>2, <2>3, UnitsKept DEF CalmOK
  <2>10. QED BY <2>3, <2>8, <2>9 DEF CalmOK
<1>5. ASSUME NEW p \in Procs, Takes(p) \/ Gives(p) PROVE calm /\ CalmOK'
  <2>1. calm
    BY <1>5 DEF Takes, Gives
  <2>2. QED BY <1>5, <2>1, MovesCalm
<1>6. ASSUME NEW p \in Procs, NEW f \in Fds, Close(p, f) PROVE calm /\ CalmOK'
  <2>1. /\ used[f] /\ used' = [used EXCEPT ![f] = FALSE] /\ Interruptible
        /\ units' = [k \in Sems |-> IF k \in {read_sem[f], write_sem[f]} THEN Free ELSE units[k]]
        /\ read_pos' = [read_pos EXCEPT ![f] = 0]
        /\ write_pos' = [write_pos EXCEPT ![f] = 0]
        /\ UNCHANGED <<read_sem, write_sem, call, calm>>
    BY <1>6, OutsideIs DEF Close, Destroyed
  <2>2. calm /\ CalmOK
    BY <2>1
  <2>3. /\ ~used'[f] /\ \A g \in Fds \ {f} : /\ used'[g] = used[g]
                                              /\ read_pos'[g] = read_pos[g] /\ write_pos'[g] = write_pos[g]
    BY <1>0, <2>1
  <2>4. \A k \in Sems : units'[k] = IF k \in {read_sem[f], write_sem[f]} THEN Free ELSE units[k]
    BY <2>1
  <2>5. read_sem[f] \in Sems /\ write_sem[f] \in Sems
    BY <2>1 DEF OwnersOK
  <2>6. \A q \in Procs : CutOK(q)'
    <3> TAKE q \in Procs
    <3>1. CASE call[q] = NoCall
      BY <2>1, <3>1 DEF CutOK
    <3>2. CASE call[q] # NoCall
      <4>1. CutOK(q) /\ call[q].fd \in Fds /\ call[q].sem \in Sems /\ SemOf(q)' = SemOf(q)
        <5>1. call[q].sem # Free
          BY <2>1, <3>2 DEF CallsOK, CallOK, Interruptible
        <5>2. QED BY <1>0, <2>1, <2>2, <5>1 DEF CalmOK, SemOf, Calls
      <4>2. CASE call[q].fd = f
        <5>1. call[q].sem \in {read_sem[f], write_sem[f]}
          BY <2>1, <3>2, <4>1, <4>2, Known DEF CutOK, SemOf
        <5>2. /\ units'[read_sem[f]] = Free /\ units'[write_sem[f]] = Free
              /\ units'[call[q].sem] = Free
          BY <2>4, <2>5, <4>1, <5>1
        <5>3. QED BY <2>1, <2>3, <4>2, <5>2 DEF CutOK, IsFree, UnitsOf
      <4>3. CASE call[q].fd # f /\ used[call[q].fd]
        BY <2>1, <2>3, <3>2, <4>1, <4>3 DEF CutOK
      <4>4. CASE call[q].fd # f /\ ~used[call[q].fd]
        <5>1. IsFree(read_sem[call[q].fd]) /\ IsFree(write_sem[call[q].fd]) /\ IsFree(call[q].sem)
          BY <3>2, <4>1, <4>4 DEF CutOK
        <5>2. ASSUME NEW k \in Sems \cup {Free}, IsFree(k) PROVE k = Free \/ units'[k] = Free
          BY <2>4, <5>2 DEF IsFree, UnitsOf
        <5>3. read_sem[call[q].fd] \in Sems \cup {Free} /\ write_sem[call[q].fd] \in Sems \cup {Free}
          BY <1>0, <4>1
        <5>4. QED BY <2>1, <2>3, <4>1, <4>4, <5>1, <5>2, <5>3 DEF CutOK, IsFree, UnitsOf
      <4>5. QED BY <4>2, <4>3, <4>4
    <3>3. QED BY <3>1, <3>2
  <2>7. \A g \in Fds : UnitsOK(g)'
    <3> TAKE g \in Fds
    <3>1. CASE g = f
      BY <2>3, <3>1 DEF UnitsOK
    <3>2. CASE g # f /\ used[g]
      <4>1. /\ read_sem[g] \in Sems /\ write_sem[g] \in Sems
            /\ read_sem[g] \notin {read_sem[f], write_sem[f]} /\ write_sem[g] \notin {read_sem[f], write_sem[f]}
        BY <2>1, <3>2 DEF OwnersOK
      <4>2. UnitsOK(g) /\ units'[read_sem[g]] = units[read_sem[g]] /\ units'[write_sem[g]] = units[write_sem[g]]
        BY <2>2, <2>4, <4>1 DEF CalmOK
      <4>3. QED BY <2>1, <2>3, <3>2, <4>2 DEF UnitsOK
    <3>3. CASE g # f /\ ~used[g]
      BY <2>3, <3>3 DEF UnitsOK
    <3>4. QED BY <3>1, <3>2, <3>3
  <2>8. QED BY <2>2, <2>6, <2>7 DEF CalmOK
<1>7. ASSUME NEW p \in Procs, NEW f \in Fds, NEW op \in {"read", "write"}, NEW todo \in Seq(Bytes),
             Entering(p, op, f, todo)
      PROVE  calm /\ CalmOK'
  <2> DEFINE c == [op |-> op, fd |-> f, sem |-> Free, todo |-> todo]
  <2>1. /\ call' = [call EXCEPT ![p] = c] /\ used[f] /\ calm' = calm
        /\ UNCHANGED <<used, read_sem, write_sem, units, read_pos, write_pos>>
    BY <1>7 DEF Entering, Enters, pipes
  <2>2. calm /\ CalmOK /\ c.fd = f /\ c.sem = Free
    BY <2>1
  <2> HIDE DEF c
  <2>3. \A q \in Procs : CutOK(q)'
    <3> TAKE q \in Procs
    <3>1. CASE q = p
      BY <1>0, <2>1, <2>2, <3>1 DEF CutOK
    <3>2. CASE q # p
      <4>1. call'[q] = call[q] /\ CutOK(q) /\ SameFree(units', units)
        BY <1>0, <2>1, <2>2, <3>2 DEF CalmOK, SameFree
      <4>2. QED BY <2>1, <4>1, CutKept
    <3>3. QED BY <3>1, <3>2
  <2>4. \A g \in Fds : UnitsOK(g)'
    BY <2>1, <2>2, UnitsKept DEF CalmOK
  <2>5. QED BY <2>2, <2>3, <2>4 DEF CalmOK
<1>14. ASSUME UNCHANGED <<used, read_sem, write_sem, units, read_pos, write_pos, call, calm>>
       PROVE  calm /\ CalmOK'
  <2>1. SameFree(units', units) /\ calm /\ CalmOK
    BY <1>14 DEF SameFree
  <2>2. \A p \in Procs : CutOK(p)'
    <3> TAKE p \in Procs
    <3>1. CutOK(p) /\ call'[p] = call[p]
      BY <1>14, <2>1 DEF CalmOK
    <3>2. call'[p] = NoCall \/ (call[p] # NoCall /\ call'[p].sem \in {Free, call[p].sem})
      BY <3>1
    <3>3. QED BY <1>14, <2>1, <3>1, <3>2, CutKept
  <2>3. \A f \in Fds : UnitsOK(f)'
    BY <1>14, <2>1, UnitsKept DEF CalmOK
  <2>4. QED BY <2>1, <2>2, <2>3 DEF CalmOK
<1>8. ASSUME NEW q \in Procs, NEW asked \in BOOLEAN, Start(q, asked) PROVE calm /\ CalmOK'
  BY <1>8, <1>14 DEF Start, pipes
<1>9. ASSUME NEW b \in Bytes, Typing(b) PROVE calm /\ CalmOK'
  <2>1. Typed(b, state) /\ UNCHANGED <<used, read_pos, read_sem, write_sem, call, calm>>
    BY <1>9 DEF Typing
  <2>2. QED BY <1>0, <2>1, TypedCalm
<1>10. ASSUME Interrupting PROVE calm /\ CalmOK'
  <2>1. PICK q \in Procs : q = front
    BY DEF PTypeOK
  <2>2. /\ Ends(q) /\ Typed(Interrupt, Dead(q)) /\ Interrupt \in Bytes
        /\ UNCHANGED <<used, read_pos, read_sem, write_sem, calm>>
    BY <1>10, <2>1 DEF Interrupting
  <2>3. Dead(q) \in [Procs -> States] /\ call' = [call EXCEPT ![q] = NoCall]
    BY <2>2, DeadIs
  <2>4. \A p \in Procs : call'[p] \in {NoCall, call[p]}
    BY <1>0, <2>3
  <2>5. QED BY <2>2, <2>3, <2>4, TypedCalm
<1>11. ASSUME NEW p \in Procs, Exit(p) PROVE calm /\ CalmOK'
  <2>1. calm' = calm /\ UNCHANGED <<used, read_sem, write_sem, units, read_pos, write_pos>>
    BY <1>11 DEF Exit, pipes
  <2>2. CASE Ends(p)
    BY <1>2, <2>1, <2>2
  <2>3. CASE UNCHANGED <<procs, call>>
    BY <1>14, <2>1, <2>3
  <2>4. QED BY <1>11, <2>2, <2>3 DEF Exit
<1>12. ASSUME NEW p \in Procs, NEW q \in Procs, Kill(p, q) PROVE calm /\ CalmOK'
  BY <1>2, <1>12 DEF Kill, pipes
<1>13. ASSUME Tick PROVE calm /\ CalmOK'
  BY <1>13, <1>14 DEF Tick, pipes
<1>15. QED BY <1>1, <1>3, <1>4, <1>5, <1>6, <1>7, <1>8, <1>9, <1>10, <1>11, <1>12, <1>13 DEF PStep

-----------------------------------------------------------------------------
(* Nobody is deaf: what a step leaves of those who were woken. *)
LEMMA WokenFinite ==
    ASSUME NEW st, NEW cl, NEW k
    PROVE  /\ IsFiniteSet(Woken(st, cl, k)) /\ Cardinality(Woken(st, cl, k)) \in Nat
           /\ Woken(st, cl, k) = {} => Cardinality(Woken(st, cl, k)) = 0
           /\ Woken(st, cl, k) # {} => Cardinality(Woken(st, cl, k)) >= 1
<1>1. Woken(st, cl, k) \in SUBSET Procs
  BY DEF Woken
<1>2. IsFiniteSet(Woken(st, cl, k))
  BY <1>1, Known, FS_Subset
<1>3. Cardinality(Woken(st, cl, k)) \in Nat
  BY <1>2, FS_CardinalityType
<1>4. Cardinality(Woken(st, cl, k)) = 0 <=> Woken(st, cl, k) = {}
  BY <1>2, FS_EmptySet
<1>5. QED BY <1>2, <1>3, <1>4

LEMMA DeafKept ==
    ASSUME NEW u \in [Sems -> {Free} \cup Nat], NEW rg, NEW st, NEW cl, DeafOK(u, rg, st, cl),
           NEW u2 \in [Sems -> {Free} \cup Nat], NEW rg2, NEW st2, NEW cl2,
           \A k \in Sems : u2[k] # Free =>
              \/ rg2[k] = <<>>
              \/ /\ u[k] # Free /\ u2[k] <= u[k] /\ rg2[k] = rg[k]
                 /\ Woken(st, cl, k) \subseteq Woken(st2, cl2, k)
                 /\ \A i \in 1 .. Len(rg[k]) : st2[rg[k][i]] = "BLOCKED"
    PROVE  DeafOK(u2, rg2, st2, cl2)
<1> SUFFICES ASSUME NEW k \in Sems, u2[k] # Free
             PROVE  /\ \A i \in 1 .. Len(rg2[k]) : st2[rg2[k][i]] = "BLOCKED"
                    /\ rg2[k] # <<>> => u2[k] <= Cardinality(Woken(st2, cl2, k))
  BY DEF DeafOK
<1>1. CASE rg2[k] = <<>>
  BY <1>1
<1>2. CASE /\ u[k] # Free /\ u2[k] <= u[k] /\ rg2[k] = rg[k]
           /\ Woken(st, cl, k) \subseteq Woken(st2, cl2, k)
           /\ \A i \in 1 .. Len(rg[k]) : st2[rg[k][i]] = "BLOCKED"
  <2>1. /\ Cardinality(Woken(st, cl, k)) <= Cardinality(Woken(st2, cl2, k))
        /\ Cardinality(Woken(st, cl, k)) \in Nat /\ Cardinality(Woken(st2, cl2, k)) \in Nat
    BY <1>2, WokenFinite, FS_Subset
  <2>2. rg2[k] # <<>> => u[k] <= Cardinality(Woken(st, cl, k))
    BY <1>2 DEF DeafOK
  <2>3. u[k] \in Nat /\ u2[k] \in Nat
    BY <1>2
  <2>4. rg2[k] # <<>> => u2[k] <= Cardinality(Woken(st2, cl2, k))
    BY <1>2, <2>1, <2>2, <2>3
  <2>5. QED BY <1>2, <2>4
<1>3. QED BY <1>1, <1>2

(* sem_post. *)
LEMMA DeafPosted ==
    ASSUME PTypeOK, NEW k \in Sems \cup {Free}, NEW u \in [Sems -> {Free} \cup Nat],
           NEW st \in [Procs -> States], NEW cl, Posted(k, u, st),
           RingsOK(u, ring, st, cl), DeafOK(u, ring, st, cl)
    PROVE  DeafOK(units', ring', state', cl)
<1>0. ring \in [Sems -> Seq(Procs)]
  BY DEF PTypeOK
<1>1. CASE k = Free \/ u[k] = Free
  <2>1. units' = u /\ ring' = ring /\ state' = st
    BY <1>1, PostedIs
  <2>2. QED BY <2>1
<1>2. CASE k # Free /\ u[k] # Free /\ ring[k] = <<>>
  <2>1. /\ k \in Sems /\ units' = [u EXCEPT ![k] = u[k] + 1] /\ ring' = ring /\ state' = st
        /\ units' \in [Sems -> {Free} \cup Nat]
    BY <1>2, PostedIs
  <2>2. \A j \in Sems : j # k => units'[j] = u[j]
    BY <2>1
  <2>3. \A j \in Sems : units'[j] # Free =>
              \/ ring'[j] = <<>>
              \/ /\ u[j] # Free /\ units'[j] <= u[j] /\ ring'[j] = ring[j]
                 /\ Woken(st, cl, j) \subseteq Woken(state', cl, j)
                 /\ \A i \in 1 .. Len(ring[j]) : state'[ring[j][i]] = "BLOCKED"
    <3> TAKE j \in Sems
    <3> HAVE units'[j] # Free
    <3>1. CASE j = k
      BY <1>2, <2>1, <3>1
    <3>2. CASE j # k
      <4>1. u[j] # Free /\ u[j] \in Nat /\ units'[j] = u[j]
        BY <2>2, <3>2
      <4>2. QED BY <2>1, <4>1 DEF DeafOK
    <3>3. QED BY <3>1, <3>2
  <2>4. units' \in [Sems -> {Free} \cup Nat]
    BY <2>1
  <2>5. QED BY <2>3, <2>4, DeafKept
<1>3. CASE k # Free /\ u[k] # Free /\ ring[k] # <<>>
  <2>1. PICK h \in Procs : h = ring[k][1]
    BY <1>3, PostedIs
  <2>2. /\ k \in Sems /\ units' = [u EXCEPT ![k] = u[k] + 1]
        /\ ring' = [ring EXCEPT ![k] = Tail(ring[k])]
        /\ state' = [st EXCEPT ![h] = IF @ = "BLOCKED" THEN "READY" ELSE @]
    BY <1>3, <2>1, PostedIs
  <2>3. /\ ring[k] \in Seq(Procs) /\ Len(ring[k]) \in Nat /\ Len(ring[k]) >= 1
        /\ Len(Tail(ring[k])) = Len(ring[k]) - 1
        /\ \A i \in 1 .. Len(ring[k]) - 1 : Tail(ring[k])[i] = ring[k][i + 1]
    BY <1>0, <1>3, <2>2
  <2>4. st[h] = "BLOCKED" /\ 1 \in 1 .. Len(ring[k])
    BY <1>3, <2>1, <2>2, <2>3 DEF DeafOK
  <2>5. cl[h].sem = k
    BY <2>1, <2>2, <2>4 DEF RingsOK
  <2>6. state'[h] = "READY" /\ \A p \in Procs \ {h} : state'[p] = st[p]
    BY <2>2, <2>4
  <2>7. SUFFICES ASSUME NEW j \in Sems, units'[j] # Free
                 PROVE  /\ \A i \in 1 .. Len(ring'[j]) : state'[ring'[j][i]] = "BLOCKED"
                        /\ ring'[j] # <<>> => units'[j] <= Cardinality(Woken(state', cl, j))
    BY DEF DeafOK
  <2>8. CASE j = k
    <3>1. ring'[j] = Tail(ring[k]) /\ units'[j] = u[k] + 1 /\ u[k] \in Nat
      BY <1>0, <1>3, <2>2, <2>8
    <3>2. \A i \in 1 .. Len(ring'[j]) : state'[ring'[j][i]] = "BLOCKED"
      <4> TAKE i \in 1 .. Len(ring'[j])
      <4>1. i \in 1 .. Len(ring[k]) - 1 /\ ring'[j][i] = Tail(ring[k])[i]
        BY <2>3, <3>1
      <4>2. i + 1 \in 1 .. Len(ring[k]) /\ i + 1 # 1 /\ ring'[j][i] = ring[k][i + 1]
        BY <2>3, <4>1
      <4>3. ring[k][i + 1] \in Procs
        BY <2>3, <4>2
      <4>4. ring[k][i + 1] # ring[k][1]
        BY <2>2, <2>4, <4>2 DEF RingsOK
      <4>5. QED BY <1>3, <2>1, <2>2, <2>6, <4>2, <4>3, <4>4 DEF DeafOK
    <3>3. Woken(state', cl, k) = Woken(st, cl, k) \cup {h} /\ h \notin Woken(st, cl, k)
      BY <2>4, <2>5, <2>6 DEF Woken
    <3>4. Cardinality(Woken(state', cl, k)) = Cardinality(Woken(st, cl, k)) + 1
      BY <3>3, WokenFinite, FS_AddElement
    <3>5. u[k] <= Cardinality(Woken(st, cl, k)) /\ Cardinality(Woken(st, cl, k)) \in Nat
      BY <1>3, <2>2, WokenFinite DEF DeafOK
    <3>6. QED BY <2>8, <3>1, <3>2, <3>4, <3>5
  <2>9. CASE j # k
    <3>1. ring'[j] = ring[j] /\ units'[j] = u[j]
      BY <1>0, <2>2, <2>9
    <3>2. \A i \in 1 .. Len(ring[j]) : ring[j][i] \in Procs /\ ring[j][i] # h /\ st[ring[j][i]] = "BLOCKED"
      <4> TAKE i \in 1 .. Len(ring[j])
      <4>1. ring[j][i] \in Procs /\ st[ring[j][i]] = "BLOCKED"
        BY <1>0, <2>7, <3>1 DEF DeafOK
      <4>2. cl[ring[j][i]].sem = j
        BY <4>1 DEF RingsOK
      <4>3. QED BY <2>5, <2>9, <4>1, <4>2
    <3>3. Woken(state', cl, j) = Woken(st, cl, j)
      BY <2>4, <2>5, <2>6, <2>9 DEF Woken
    <3>4. QED BY <2>6, <2>7, <3>1, <3>2, <3>3 DEF DeafOK
  <2>10. QED BY <2>8, <2>9
<1>4. QED BY <1>1, <1>2, <1>3

(* sem_wait of a process that passes, and of the keyboard. *)
LEMMA DeafTaken ==
    ASSUME PTypeOK, NEW kt \in Sems \cup {Free}, UnitsOf(kt) # 0,
           NEW st, NEW cl, NEW cl2, DeafOK(units, ring, st, cl),
           \A k \in Sems : \/ Woken(st, cl, k) \subseteq Woken(st, cl2, k)
                           \/ k = kt /\ \E p \in Woken(st, cl, k) :
                                            Woken(st, cl2, k) = Woken(st, cl, k) \ {p}
    PROVE  DeafOK(Taken(kt), ring, st, cl2)
<1>1. /\ Taken(kt) \in [Sems -> {Free} \cup Nat] /\ units \in [Sems -> {Free} \cup Nat]
      /\ \A j \in Sems : Taken(kt)[j] = Free <=> units[j] = Free
  BY TakenIs DEF PTypeOK
<1>2. \A j \in Sems : \/ Taken(kt)[j] = units[j]
                      \/ j = kt /\ units[j] \in Nat /\ units[j] >= 1 /\ Taken(kt)[j] = units[j] - 1
  BY <1>1, TakenIs
<1>2a. units[kt] # Free /\ kt # Free => Taken(kt)[kt] = units[kt] - 1 /\ units[kt] \in Nat
  BY <1>1, TakenIs, Known DEF IsFree, UnitsOf
<1> SUFFICES ASSUME NEW k \in Sems, Taken(kt)[k] # Free
             PROVE  /\ \A i \in 1 .. Len(ring[k]) : st[ring[k][i]] = "BLOCKED"
                    /\ ring[k] # <<>> => Taken(kt)[k] <= Cardinality(Woken(st, cl2, k))
  BY DEF DeafOK
<1>3. /\ units[k] # Free /\ units[k] \in Nat /\ Taken(kt)[k] \in Nat
      /\ Taken(kt)[k] <= units[k]
      /\ \A i \in 1 .. Len(ring[k]) : st[ring[k][i]] = "BLOCKED"
      /\ ring[k] # <<>> => units[k] <= Cardinality(Woken(st, cl, k))
  BY <1>1, <1>2 DEF DeafOK
<1>4. Cardinality(Woken(st, cl, k)) \in Nat /\ Cardinality(Woken(st, cl2, k)) \in Nat
  BY WokenFinite
<1>5. CASE Woken(st, cl, k) \subseteq Woken(st, cl2, k)
  <2>1. Cardinality(Woken(st, cl, k)) <= Cardinality(Woken(st, cl2, k))
    BY <1>5, WokenFinite, FS_Subset
  <2>2. QED BY <1>3, <1>4, <2>1
<1>6. CASE k = kt /\ \E p \in Woken(st, cl, k) : Woken(st, cl2, k) = Woken(st, cl, k) \ {p}
  <2>1. Cardinality(Woken(st, cl2, k)) = Cardinality(Woken(st, cl, k)) - 1
    <3>1. PICK p \in Woken(st, cl, k) : Woken(st, cl2, k) = Woken(st, cl, k) \ {p}
      BY <1>6
    <3>2. IsFiniteSet(Woken(st, cl, k))
      BY WokenFinite
    <3>3. Cardinality(Woken(st, cl, k) \ {p}) = Cardinality(Woken(st, cl, k)) - 1
      BY <3>2, FS_RemoveElement
    <3>4. QED BY <3>1, <3>3
  <2>2. Taken(kt)[k] = units[k] - 1
    BY <1>2a, <1>3, <1>6, Known
  <2>3. QED BY <1>3, <1>4, <2>1, <2>2
<1>7. QED BY <1>5, <1>6

LEMMA DeafMoves ==
    ASSUME PTypeOK, CallsOK, NEW p \in Procs, NEW kp \in Sems \cup {Free}, Moves(p, kp),
           RingsOK(units, ring, state, call), DeafOK(units, ring, state, call)
    PROVE  DeafOK(units', ring', state', call')
<1> DEFINE u == Taken(SemFor(p))
<1>0. state \in [Procs -> States] /\ ring \in [Sems -> Seq(Procs)]
  BY DEF PTypeOK, States
<1>1. MayGoOn(p) /\ Goes(p) /\ Posted(kp, u, state)
      /\ SemFor(p) \in Sems \cup {Free} /\ UnitsOf(SemFor(p)) # 0
  BY DEF Moves
<1>2. u \in [Sems -> {Free} \cup Nat] /\ \A j \in Sems : u[j] = Free <=> units[j] = Free
  BY <1>1, TakenIs
<1>3. state[p] \in {"READY", "TERMINATED"} /\ (state[p] = "TERMINATED" => call[p].sem = Free)
  BY <1>1, MoverIs
<1>4. call'[p].sem = Free /\ \A q \in Procs \ {p} : call'[q] = call[q]
  BY <1>1, Known DEF Goes
<1>5. \A q \in Procs : state[q] = "BLOCKED" => call'[q].sem = call[q].sem
  BY <1>3, <1>4
<1>6. DeafOK(u, ring, state, call')
  <2>1. \A k \in Sems : \/ Woken(state, call, k) \subseteq Woken(state, call', k)
                        \/ k = SemFor(p) /\ \E q \in Woken(state, call, k) :
                                   Woken(state, call', k) = Woken(state, call, k) \ {q}
    <3> TAKE k \in Sems
    <3>1. CASE call[p].sem = k
      <4>1. k = SemFor(p)
        BY <3>1, Known DEF SemFor
      <4>2. p \in Woken(state, call, k)
        BY <1>3, <3>1, Known DEF Woken
      <4>3. Woken(state, call', k) = Woken(state, call, k) \ {p}
        BY <1>4, Known DEF Woken
      <4>4. QED BY <4>1, <4>2, <4>3
    <3>2. CASE call[p].sem # k
      BY <1>4, <3>2 DEF Woken
    <3>3. QED BY <3>1, <3>2
  <2>2. PICK kt \in Sems \cup {Free} : kt = SemFor(p)
    BY <1>1
  <2>3. UnitsOf(kt) # 0 /\ u = Taken(kt)
    BY <1>1, <2>2
  <2>4. \A k \in Sems : \/ Woken(state, call, k) \subseteq Woken(state, call', k)
                        \/ k = kt /\ \E q \in Woken(state, call, k) :
                                   Woken(state, call', k) = Woken(state, call, k) \ {q}
    BY <2>1, <2>2
  <2>5. DeafOK(Taken(kt), ring, state, call')
    BY <2>3, <2>4, DeafTaken
  <2>6. QED BY <2>3, <2>5
<1> HIDE DEF u
<1>7. RingsOK(u, ring, state, call')
  BY <1>0, <1>2, <1>5, RingsCalls
<1>8. QED BY <1>0, <1>1, <1>2, <1>6, <1>7, DeafPosted

LEMMA DeafTyped ==
    ASSUME PTypeOK, OwnersOK, NEW b \in Bytes, NEW st \in [Procs -> States], NEW cl,
           Typed(b, st), RingsOK(units, ring, st, cl), DeafOK(units, ring, st, cl)
    PROVE  DeafOK(units', ring', state', cl)
<1>1. /\ read_sem[STDIN] \in Sems /\ write_sem[STDIN] \in Sems
      /\ \/ state' = st /\ UNCHANGED <<units, ring>>
         \/ UnitsOf(write_sem[STDIN]) # 0 /\ Keyed(st)
  BY TypedIs
<1>2. CASE state' = st /\ UNCHANGED <<units, ring>>
  BY <1>2
<1>3. CASE UnitsOf(write_sem[STDIN]) # 0 /\ Keyed(st)
  <2>0. PICK kt \in Sems, kp \in Sems : kt = write_sem[STDIN] /\ kp = read_sem[STDIN]
    BY <1>1
  <2> DEFINE u == Taken(kt)
  <2>1. /\ u \in [Sems -> {Free} \cup Nat] /\ \A j \in Sems : u[j] = Free <=> units[j] = Free
        /\ UnitsOf(kt) # 0
    BY <1>3, <2>0, TakenIs
  <2>2. Posted(kp, u, st)
    BY <1>3, <2>0 DEF Keyed
  <2>3. DeafOK(u, ring, st, cl)
    BY <2>1, DeafTaken
  <2> HIDE DEF u
  <2>4. RingsOK(u, ring, st, cl)
    BY <2>1, RingsCalls DEF PTypeOK
  <2>5. QED BY <2>1, <2>2, <2>3, <2>4, DeafPosted
<1>4. QED BY <1>1, <1>2, <1>3

(* When no unit appears, nobody leaves a ring and nobody who was woken is lost. *)
LEMMA DeafStays ==
    ASSUME PTypeOK, PTypeOK', DeafOK(units, ring, state, call),
           \A k \in Sems : units'[k] # Free =>
              \/ ring'[k] = <<>>
              \/ /\ units[k] # Free /\ units'[k] <= units[k] /\ ring'[k] = ring[k]
                 /\ Woken(state, call, k) \subseteq Woken(state', call', k)
                 /\ \A i \in 1 .. Len(ring[k]) : state'[ring[k][i]] = "BLOCKED"
    PROVE  DeafOK(units', ring', state', call')
<1>1. units \in [Sems -> {Free} \cup Nat] /\ units' \in [Sems -> {Free} \cup Nat]
  BY DEF PTypeOK
<1>2. QED BY <1>1, DeafKept

LEMMA DeafSame ==
    ASSUME PTypeOK, NEW st, NEW cl, DeafOK(units, ring, state, call),
           \A k \in Sems : units[k] # Free =>
              \/ ring[k] = <<>>
              \/ /\ Woken(state, call, k) \subseteq Woken(st, cl, k)
                 /\ \A i \in 1 .. Len(ring[k]) : st[ring[k][i]] = "BLOCKED"
    PROVE  DeafOK(units, ring, st, cl)
<1>1. units \in [Sems -> {Free} \cup Nat]
  BY DEF PTypeOK
<1>2. \A k \in Sems : units[k] # Free =>
              \/ ring[k] = <<>>
              \/ /\ units[k] # Free /\ units[k] <= units[k] /\ ring[k] = ring[k]
                 /\ Woken(state, call, k) \subseteq Woken(st, cl, k)
                 /\ \A i \in 1 .. Len(ring[k]) : st[ring[k][i]] = "BLOCKED"
  BY <1>1
<1>3. QED BY <1>1, <1>2, DeafKept

(* The end of q when it was in no call. *)
LEMMA DeafAfterEnd ==
    ASSUME PTypeOK, CallsOK, FrontOK, NEW q \in Procs, Ends(q), call[q] = NoCall,
           RingsOK(units, ring, state, call), DeafOK(units, ring, state, call)
    PROVE  DeafOK(units, ring, Dead(q), call')
<1>1. /\ q # Shell /\ state[q] \in Alive \cup {"STILLBORN"} /\ Dead(q)[q] = "TERMINATED"
      /\ Dead(q)[Shell] = IF awaited = q THEN "READY" ELSE state[Shell]
      /\ \A p \in Procs \ {q, Shell} : Dead(q)[p] = state[p]
      /\ call' = [call EXCEPT ![q] = NoCall]
  BY DeadIs
<1>2. /\ units \in [Sems -> {Free} \cup Nat] /\ ring \in [Sems -> Seq(Procs)]
      /\ call \in [Procs -> Calls] /\ state \in [Procs -> States]
  BY DEF PTypeOK, Calls, States
<1>3. call' = call
  BY <1>1, <1>2
<1>4. state[q] \in {"READY", "STILLBORN"} /\ (awaited = q => state[Shell] = "WAITING")
  BY <1>1, Known DEF CallsOK, CallOK, FrontOK, Alive
<1>5. \A p \in Procs : state[p] = "BLOCKED" => Dead(q)[p] = "BLOCKED"
  BY <1>1, <1>4
<1>6. \A k \in Sems : Woken(state, call, k) \subseteq Woken(Dead(q), call', k)
  <2> TAKE k \in Sems
  <2> SUFFICES ASSUME NEW p \in Procs, state[p] = "READY", call[p].sem = k
               PROVE  Dead(q)[p] = "READY"
    BY <1>3 DEF Woken
  <2>1. p # q
    BY Known
  <2>2. QED BY <1>1, <1>4, <2>1
<1>7. \A k \in Sems : units[k] # Free =>
              \/ ring[k] = <<>>
              \/ /\ Woken(state, call, k) \subseteq Woken(Dead(q), call', k)
                 /\ \A i \in 1 .. Len(ring[k]) : Dead(q)[ring[k][i]] = "BLOCKED"
  <2> TAKE k \in Sems
  <2> HAVE units[k] # Free
  <2>1. ASSUME NEW i \in 1 .. Len(ring[k]) PROVE Dead(q)[ring[k][i]] = "BLOCKED"
    BY <1>2, <1>5 DEF DeafOK
  <2>2. QED BY <1>6, <2>1
<1>8. QED BY <1>7, DeafSame

(* sem_post, to somebody. *)
LEMMA PostedToOne ==
    ASSUME PTypeOK, NEW k \in Sems, NEW u \in [Sems -> {Free} \cup Nat],
           NEW st \in [Procs -> States], Posted(k, u, st), u[k] # Free,
           NEW q, ring[k] # <<>>, ring[k][1] = q
    PROVE  /\ units' = [u EXCEPT ![k] = u[k] + 1]
           /\ units' \in [Sems -> {Free} \cup Nat]
           /\ ring' = [ring EXCEPT ![k] = Tail(ring[k])]
           /\ state' = [st EXCEPT ![q] = IF @ = "BLOCKED" THEN "READY" ELSE @]
<1>1. k # Free
  BY Known
<1>2. QED BY <1>1, PostedIs

(* Ctrl+C, when the one in front is in a read of standard input: it is the only
   one in that ring, and the character that is written uses up its wake-up. *)
LEMMA DeafInterrupted ==
    ASSUME PTypeOK, CallsOK, FrontOK, OwnersOK, CalmOK,
           PTypeOK', NEW q \in Procs, q = front, Ends(q), call[q] # NoCall, Interruptible,
           SemFor(q) = read_sem[STDIN], Interrupt \in Bytes, Typed(Interrupt, Dead(q)),
           RingsOK(units, ring, state, call), DeafOK(units, ring, state, call)
    PROVE  DeafOK(units', ring', state', call')
<1>1. /\ q # Shell /\ state[q] \in {"READY", "BLOCKED"} /\ Dead(q)[q] = "TERMINATED"
      /\ Dead(q)[Shell] = IF awaited = q THEN "READY" ELSE state[Shell]
      /\ \A p \in Procs \ {q, Shell} : Dead(q)[p] = state[p]
      /\ call' = [call EXCEPT ![q] = NoCall]
      /\ Dead(q) \in [Procs -> States]
  BY DeadIs DEF Alive, CallsOK, CallOK
<1>2. /\ units \in [Sems -> {Free} \cup Nat] /\ ring \in [Sems -> Seq(Procs)]
      /\ call \in [Procs -> Calls] /\ state \in [Procs -> States] /\ Shell \in Procs
  BY Known DEF PTypeOK, Calls, States
<1>3. PICK rs \in Sems, ws \in Sems : rs = read_sem[STDIN] /\ ws = write_sem[STDIN]
  BY TypedIs, <1>1
<1>4. /\ rs # ws /\ units[rs] # Free /\ units[ws] # Free /\ used[STDIN] /\ STDIN \in Fds
  BY <1>3, Known DEF OwnersOK
(* Who means this semaphore reads standard input, and is in front. *)
<1>5. \A p \in Procs : call[p].sem = rs => p = q
  <2> SUFFICES ASSUME NEW p \in Procs, call[p].sem = rs PROVE p = q
    OBVIOUS
  <2>1. call[p] # NoCall /\ call[p].sem # Free /\ call[p].op \in {"read", "write"} /\ call[p].fd \in Fds
    BY <1>2, Known DEF CallsOK, CallOK, Calls
  <2>2. used[call[p].fd] /\ SemOf(p) = rs
    BY <1>4, <2>1 DEF CalmOK, CutOK, IsFree, UnitsOf
  <2>3. CASE call[p].op = "read"
    <3>1. read_sem[call[p].fd] = read_sem[STDIN]
      BY <1>3, <2>2, <2>3 DEF SemOf
    <3>2. call[p].fd = STDIN
      BY <1>4, <2>1, <2>2, <3>1 DEF OwnersOK
    <3>3. QED BY <2>3, <3>2 DEF CallsOK, CallOK
  <2>4. CASE call[p].op = "write"
    <3>1. write_sem[call[p].fd] = read_sem[STDIN]
      BY <1>3, <2>2, <2>4 DEF SemOf
    <3>2. call[p].fd = STDIN
      BY <1>4, <2>1, <2>2, <3>1 DEF OwnersOK
    <3>3. QED BY <1>3, <1>4, <3>1, <3>2
  <2>5. QED BY <2>1, <2>3, <2>4
<1>6. call[q].sem = rs
  <2>1. call[q].sem # Free
    BY DEF CallsOK, CallOK, Interruptible
  <2>2. QED BY <1>3, <2>1 DEF SemFor
<1>7. awaited = q => state[Shell] = "WAITING"
  BY Known DEF FrontOK
<1>8. \A k \in Sems : \A i \in 1 .. Len(ring[k]) : units[k] # Free =>
        ring[k][i] \in Procs /\ state[ring[k][i]] = "BLOCKED" /\ call[ring[k][i]].sem = k
  <2> TAKE k \in Sems
  <2> TAKE i \in 1 .. Len(ring[k])
  <2> HAVE units[k] # Free
  <2>1. ring[k][i] \in Procs /\ state[ring[k][i]] = "BLOCKED"
    BY <1>2 DEF DeafOK
  <2>2. QED BY <2>1 DEF RingsOK
<1>9. ASSUME NEW st2 \in [Procs -> States], NEW k \in Sems, units[k] # Free, k # rs,
             \A p \in Procs \ {q} : st2[p] = Dead(q)[p]
      PROVE  /\ Woken(state, call, k) \subseteq Woken(st2, call', k)
             /\ \A i \in 1 .. Len(ring[k]) : st2[ring[k][i]] = "BLOCKED"
  <2>1. \A p \in Procs : call[p].sem = k /\ state[p] \in {"READY", "BLOCKED"} =>
           p # q /\ st2[p] = state[p] /\ call'[p] = call[p]
    BY <1>1, <1>2, <1>6, <1>7, <1>9
  <2>2. QED BY <1>8, <1>9, <2>1 DEF Woken
<1>10. CASE ring[rs] = <<>>
  <2>1. \A k \in Sems : units[k] # Free =>
              \/ ring[k] = <<>>
              \/ /\ Woken(state, call, k) \subseteq Woken(Dead(q), call', k)
                 /\ \A i \in 1 .. Len(ring[k]) : Dead(q)[ring[k][i]] = "BLOCKED"
    <3> TAKE k \in Sems
    <3> HAVE units[k] # Free
    <3>1. CASE k = rs
      BY <1>10, <3>1
    <3>2. CASE k # rs
      BY <1>1, <1>9, <3>2
    <3>3. QED BY <3>1, <3>2
  <2>2. DeafOK(units, ring, Dead(q), call')
    BY <2>1, DeafSame
  <2>3. RingsOK(units, ring, Dead(q), call')
    BY RingsAfterEnd
  <2>4. QED BY <1>1, <2>2, <2>3, DeafTyped
<1>11. CASE ring[rs] # <<>>
  <2>1. ring[rs] \in Seq(Procs) /\ Len(ring[rs]) \in Nat /\ Len(ring[rs]) >= 1
    BY <1>2, <1>11
  <2>2. \A i \in 1 .. Len(ring[rs]) : ring[rs][i] = q /\ state[q] = "BLOCKED"
    BY <1>4, <1>5, <1>8
  <2>3. Len(ring[rs]) = 1 /\ ring[rs][1] = q /\ state[q] = "BLOCKED"
    <3>1. \A n \in Nat : n >= 1 => 1 \in 1 .. n /\ (n # 1 => 2 \in 1 .. n)
      OBVIOUS
    <3>2. 1 \in 1 .. Len(ring[rs]) /\ (Len(ring[rs]) # 1 => 2 \in 1 .. Len(ring[rs]))
      BY <2>1, <3>1
    <3>3. QED BY <2>2, <3>2 DEF RingsOK
  <2>4. Tail(ring[rs]) = <<>>
    <3>1. Tail(ring[rs]) \in Seq(Procs) /\ Len(Tail(ring[rs])) = 0
      BY <1>11, <2>1, <2>3
    <3>2. \A s \in Seq(Procs) : Len(s) = 0 => s = <<>>
      OBVIOUS
    <3>3. QED BY <3>1, <3>2
  <2>5. units[rs] = 0
    <3>1. Woken(state, call, rs) = {}
      BY <1>5, <2>3 DEF Woken
    <3>2. units[rs] <= 0
      BY <1>4, <1>11, <3>1, WokenFinite DEF DeafOK
    <3>3. QED BY <1>2, <1>4, <3>2
  <2>6. units[ws] = BufferSize - 1
    BY <1>3, <1>4, <2>5, Known DEF CalmOK, UnitsOK
  <2>7. UnitsOf(ws) # 0
    BY <1>3, <2>6, Known DEF UnitsOf
  <2>8. Keyed(Dead(q))
    BY <1>1, <1>3, <2>7, TypedIs
  <2>9. Posted(rs, Taken(ws), Dead(q))
    BY <1>3, <2>8 DEF Keyed
  <2>10. /\ Taken(ws) \in [Sems -> {Free} \cup Nat]
         /\ \A j \in Sems : Taken(ws)[j] = Free <=> units[j] = Free
         /\ \A k \in Sems : k # ws => Taken(ws)[k] = units[k]
         /\ Taken(ws)[ws] <= units[ws]
    <3>1. ~IsFree(ws)
      BY <1>4, Known DEF IsFree, UnitsOf
    <3>2. /\ Taken(ws) \in [Sems -> {Free} \cup Nat] /\ units[ws] \in Nat
          /\ \A j \in Sems : Taken(ws)[j] = Free <=> units[j] = Free
          /\ Taken(ws) = [units EXCEPT ![ws] = units[ws] - 1]
      BY <2>7, <3>1, TakenIs
    <3>3. QED BY <1>2, <3>2
  <2>11. /\ units' = [Taken(ws) EXCEPT ![rs] = Taken(ws)[rs] + 1]
         /\ units' \in [Sems -> {Free} \cup Nat]
         /\ ring' = [ring EXCEPT ![rs] = Tail(ring[rs])]
         /\ state' = [Dead(q) EXCEPT ![q] = IF @ = "BLOCKED" THEN "READY" ELSE @]
    <3>1. rs # Free /\ Taken(ws)[rs] # Free
      BY <1>4, <2>10, Known
    <3>2. Taken(ws) \in [Sems -> {Free} \cup Nat] /\ Dead(q) \in [Procs -> States]
      BY <1>1, <2>10
    <3>3. PICK tk \in [Sems -> {Free} \cup Nat], dd \in [Procs -> States] :
                 tk = Taken(ws) /\ dd = Dead(q)
      BY <3>2
    <3>4. Posted(rs, tk, dd) /\ tk[rs] # Free /\ ring[rs][1] = q
      BY <2>3, <2>9, <3>1, <3>3
    <3>5. /\ units' = [tk EXCEPT ![rs] = tk[rs] + 1]
          /\ units' \in [Sems -> {Free} \cup Nat]
          /\ ring' = [ring EXCEPT ![rs] = Tail(ring[rs])]
          /\ state' = [dd EXCEPT ![q] = IF @ = "BLOCKED" THEN "READY" ELSE @]
      BY <1>11, <3>4, PostedToOne
    <3>6. QED BY <3>3, <3>5
  <2>12. ring'[rs] = <<>> /\ \A k \in Sems \ {rs} : ring'[k] = ring[k] /\ units'[k] = Taken(ws)[k]
    BY <1>2, <2>4, <2>10, <2>11
  <2>13. state' = Dead(q)
    BY <1>1, <2>11
  <2>14. \A k \in Sems : units'[k] # Free =>
              \/ ring'[k] = <<>>
              \/ /\ units[k] # Free /\ units'[k] <= units[k] /\ ring'[k] = ring[k]
                 /\ Woken(state, call, k) \subseteq Woken(state', call', k)
                 /\ \A i \in 1 .. Len(ring[k]) : state'[ring[k][i]] = "BLOCKED"
    <3> TAKE k \in Sems
    <3> HAVE units'[k] # Free
    <3>1. CASE k = rs
      BY <2>12, <3>1
    <3>2. CASE k # rs
      <4>1. units[k] # Free /\ units'[k] <= units[k] /\ ring'[k] = ring[k]
        <5>1. units'[k] = Taken(ws)[k] /\ ring'[k] = ring[k]
          BY <2>12, <3>2
        <5>2. units[k] # Free /\ units[k] \in Nat
          BY <1>2, <2>10, <5>1
        <5>3. units'[k] <= units[k]
          BY <2>10, <5>1, <5>2
        <5>4. QED BY <5>1, <5>2, <5>3
      <4>2. /\ Woken(state, call, k) \subseteq Woken(Dead(q), call', k)
            /\ \A i \in 1 .. Len(ring[k]) : Dead(q)[ring[k][i]] = "BLOCKED"
        BY <1>1, <1>9, <3>2, <4>1
      <4>3. QED BY <2>13, <4>1, <4>2
    <3>3. QED BY <3>1, <3>2
  <2>15. QED BY <2>14, DeafStays
<1>12. QED BY <1>10, <1>11

LEMMA DeafInit == PInit => DeafOK(units, ring, state, call)
<1> SUFFICES ASSUME PInit PROVE DeafOK(units, ring, state, call)
  OBVIOUS
<1>1. \A k \in Sems : ring[k] = <<>>
  BY DEF PInit
<1>2. QED BY <1>1 DEF DeafOK

LEMMA DeafStep ==
    ASSUME PTypeOK, CallsOK, FrontOK, OwnersOK, RingsOK(units, ring, state, call),
           CalmOK, DeafOK(units, ring, state, call), PStep, PTypeOK', steady'
    PROVE  steady /\ DeafOK(units', ring', state', call')
<1> DEFINE Goal == DeafOK(units', ring', state', call')
<1>0. /\ state \in [Procs -> States] /\ ring \in [Sems -> Seq(Procs)]
      /\ used \in [Fds -> BOOLEAN] /\ units \in [Sems -> {Free} \cup Nat]
      /\ call \in [Procs -> Calls] /\ units' \in [Sems -> {Free} \cup Nat]
  BY DEF PTypeOK, States, Calls
<1>a. \A k \in Sems : \A i \in 1 .. Len(ring[k]) : units[k] # Free =>
        ring[k][i] \in Procs /\ state[ring[k][i]] = "BLOCKED" /\ call[ring[k][i]].sem = k
  <2> TAKE k \in Sems
  <2> TAKE i \in 1 .. Len(ring[k])
  <2> HAVE units[k] # Free
  <2>1. ring[k][i] \in Procs /\ state[ring[k][i]] = "BLOCKED"
    BY <1>0 DEF DeafOK
  <2>2. QED BY <2>1 DEF RingsOK
(* Nothing happens to the semaphores, nor to who is blocked or was woken. *)
<1>b. ASSUME UNCHANGED <<units, ring>>,
             \A p \in Procs : state[p] = "BLOCKED" => state'[p] = "BLOCKED",
             \A p \in Procs : state[p] = "READY" /\ call[p].sem # Free =>
                                  state'[p] = "READY" /\ call'[p].sem = call[p].sem
      PROVE  Goal
  <2>1. \A k \in Sems : units'[k] # Free =>
              \/ ring'[k] = <<>>
              \/ /\ units[k] # Free /\ units'[k] <= units[k] /\ ring'[k] = ring[k]
                 /\ Woken(state, call, k) \subseteq Woken(state', call', k)
                 /\ \A i \in 1 .. Len(ring[k]) : state'[ring[k][i]] = "BLOCKED"
    <3> TAKE k \in Sems
    <3> HAVE units'[k] # Free
    <3>1. units[k] # Free /\ units'[k] <= units[k] /\ ring'[k] = ring[k]
      BY <1>0, <1>b
    <3>2. Woken(state, call, k) \subseteq Woken(state', call', k)
      BY <1>b, Known DEF Woken
    <3>3. \A i \in 1 .. Len(ring[k]) : state'[ring[k][i]] = "BLOCKED"
      BY <1>a, <1>b, <3>1
    <3>4. QED BY <3>1, <3>2, <3>3
  <2>2. QED BY <2>1, DeafStays
<1>1. ASSUME NEW p \in Procs, Open(p) PROVE steady /\ Goal
  <2>1. UNCHANGED <<ring, state, call, steady>>
    BY <1>1 DEF Open, procs
  <2>2. \A k \in Sems : units'[k] = units[k] \/ units[k] = Free
    <3>1. PICK k1 \in Sems \cup {Free}, k2 \in Sems \cup {Free} :
             /\ IsFree(k1) /\ IsFree(k2)
             /\ \/ k1 # Free /\ k2 # Free /\ units' = [units EXCEPT ![k1] = 0, ![k2] = BufferSize - 1]
                \/ units' = units
      BY <1>1, OpenIs
    <3>2. QED BY <1>0, <3>1 DEF IsFree, UnitsOf
  <2>3. \A k \in Sems : units'[k] # Free =>
              \/ ring'[k] = <<>>
              \/ /\ units[k] # Free /\ units'[k] <= units[k] /\ ring'[k] = ring[k]
                 /\ Woken(state, call, k) \subseteq Woken(state', call', k)
                 /\ \A i \in 1 .. Len(ring[k]) : state'[ring[k][i]] = "BLOCKED"
    <3> TAKE k \in Sems
    <3> HAVE units'[k] # Free
    <3>1. CASE units[k] = Free
      BY <2>1, <3>1 DEF RingsOK
    <3>2. CASE units[k] # Free
      <4>1. units'[k] = units[k] /\ units[k] <= units[k]
        BY <1>0, <2>2, <3>2
      <4>2. QED BY <1>a, <2>1, <3>2, <4>1
    <3>3. QED BY <3>1, <3>2
  <2>4. Goal
    BY <2>3, DeafStays
  <2>5. QED BY <2>1, <2>4
<1>2. ASSUME NEW p \in Procs, Exit(p) PROVE steady /\ Goal
  <2>1. /\ (Ends(p) /\ state' = Dead(p)) \/ UNCHANGED <<state, call>>
        /\ UNCHANGED <<units, ring, steady>> /\ call[p] = NoCall
    BY <1>2, OutsideIs DEF Exit, procs
  <2>2. CASE Ends(p) /\ state' = Dead(p)
    BY <2>1, <2>2, DeafAfterEnd
  <2>3. CASE UNCHANGED <<state, call>>
    BY <1>b, <2>1, <2>3
  <2>4. QED BY <2>1, <2>2, <2>3
<1>3. ASSUME NEW p \in Procs, GivesUp(p) PROVE steady /\ Goal
  <2>1. /\ call' = [call EXCEPT ![p] = NoCall] /\ UNCHANGED <<units, ring, state, steady>>
        /\ call[p].sem = Free
    BY <1>3 DEF GivesUp, procs, Refused
  <2>2. \A q \in Procs : call[q].sem # Free => call'[q].sem = call[q].sem
    BY <1>0, <2>1
  <2>3. QED BY <1>b, <2>1, <2>2
<1>4. ASSUME NEW p \in Procs, Blocks(p) PROVE steady /\ Goal
  <2>1. PICK k \in Sems \cup {Free} : k = SemFor(p)
    BY SemForType
  <2>2. /\ UnitsOf(k) = 0 /\ MayGoOn(p)
        /\ call' = [call EXCEPT ![p].sem = k] /\ ring' = [ring EXCEPT ![k] = Append(@, p)]
        /\ state' = [state EXCEPT ![p] = "BLOCKED"] /\ UNCHANGED <<units, steady>>
        /\ state[p] # "TERMINATED"
    BY <1>4, <2>1 DEF Blocks
  <2>3. k \in Sems /\ units[k] = 0 /\ units[k] # Free
    BY <2>2, Known DEF UnitsOf
  <2>4. state[p] = "READY" /\ call[p].sem \in {Free, k}
    BY <2>1, <2>2, MoverIs DEF SemFor
  <2>5. /\ state'[p] = "BLOCKED" /\ \A q \in Procs \ {p} : state'[q] = state[q]
        /\ call'[p].sem = k /\ \A q \in Procs \ {p} : call'[q] = call[q]
    BY <1>0, <2>2, <2>3 DEF Calls
  <2>6. /\ ring[k] \in Seq(Procs) /\ ring'[k] = Append(ring[k], p) /\ Len(ring[k]) \in Nat
        /\ \A j \in Sems \ {k} : ring'[j] = ring[j]
    BY <1>0, <2>2, <2>3
  <2>7. \A j \in Sems : \A i \in 1 .. Len(ring[j]) : units[j] # Free => state'[ring[j][i]] = "BLOCKED"
    BY <1>a, <2>5
  <2>8. SUFFICES ASSUME NEW j \in Sems, units'[j] # Free
                 PROVE  /\ \A i \in 1 .. Len(ring'[j]) : state'[ring'[j][i]] = "BLOCKED"
                        /\ ring'[j] # <<>> => units'[j] <= Cardinality(Woken(state', call', j))
    BY <2>2 DEF DeafOK
  <2>9. CASE j = k
    <3>1. \A i \in 1 .. Len(ring'[j]) : state'[ring'[j][i]] = "BLOCKED"
      <4> TAKE i \in 1 .. Len(ring'[j])
      <4>1. i \in 1 .. Len(ring[k]) \/ i = Len(ring[k]) + 1
        BY <2>6, <2>9
      <4>2. CASE i \in 1 .. Len(ring[k])
        BY <2>3, <2>6, <2>7, <2>9, <4>2
      <4>3. CASE i = Len(ring[k]) + 1
        BY <2>5, <2>6, <2>9, <4>3
      <4>4. QED BY <4>1, <4>2, <4>3
    <3>2. Cardinality(Woken(state', call', j)) \in Nat
      BY WokenFinite
    <3>3. QED BY <2>2, <2>3, <2>9, <3>1, <3>2
  <2>10. CASE j # k
    <3>1. Woken(state', call', j) = Woken(state, call, j)
      BY <2>4, <2>5, <2>10, Known DEF Woken
    <3>2. QED BY <2>2, <2>6, <2>7, <2>8, <2>10, <3>1 DEF DeafOK
  <2>11. QED BY <2>9, <2>10
<1>5. ASSUME NEW p \in Procs, Takes(p) \/ Gives(p) PROVE steady /\ Goal
  <2>1. PICK kp : Moves(p, kp)
    BY <1>5, TakesIs, GivesIs
  <2>2. kp \in Sems \cup {Free} /\ steady
    BY <2>1 DEF Moves
  <2>3. QED BY <2>1, <2>2, DeafMoves
<1>6. ASSUME NEW p \in Procs, NEW f \in Fds, Close(p, f) PROVE steady /\ Goal
  <2>1. /\ used[f] /\ Destroyed({read_sem[f], write_sem[f]}) /\ UNCHANGED <<call, steady>>
    BY <1>6 DEF Close
  <2>2. PICK ks \in SUBSET Sems : ks = {read_sem[f], write_sem[f]}
    BY <2>1 DEF OwnersOK
  <2>3. RingsOK(units', ring', state', call) /\ Woke(state, state')
    BY <2>1, <2>2, RingsDestroyed, DestroyedWakes
  <2>4. \A k \in Sems : units'[k] # Free => units'[k] = units[k] /\ ring'[k] = ring[k]
    BY <2>1, <2>2 DEF Destroyed
  <2>5. \A k \in Sems : units'[k] # Free =>
              \/ ring'[k] = <<>>
              \/ /\ units[k] # Free /\ units'[k] <= units[k] /\ ring'[k] = ring[k]
                 /\ Woken(state, call, k) \subseteq Woken(state', call', k)
                 /\ \A i \in 1 .. Len(ring[k]) : state'[ring[k][i]] = "BLOCKED"
    <3> TAKE k \in Sems
    <3> HAVE units'[k] # Free
    <3>1. units[k] # Free /\ units'[k] <= units[k] /\ ring'[k] = ring[k]
      BY <1>0, <2>4
    <3>2. Woken(state, call, k) \subseteq Woken(state', call', k)
      BY <2>1, <2>3 DEF Woken, Woke
    <3>3. \A i \in 1 .. Len(ring[k]) : state'[ring[k][i]] = "BLOCKED"
      <4> TAKE i \in 1 .. Len(ring[k])
      <4>1. ring[k][i] \in Procs /\ state[ring[k][i]] = "BLOCKED"
        BY <1>a, <3>1
      <4>2. state'[ring[k][i]] \in {"TERMINATED", "BLOCKED"}
        BY <2>3, <3>1 DEF RingsOK
      <4>3. QED BY <2>3, <4>1, <4>2 DEF Woke
    <3>4. QED BY <3>1, <3>2, <3>3
  <2>6. Goal
    BY <2>5, DeafStays
  <2>7. QED BY <2>1, <2>6
<1>7. ASSUME NEW p \in Procs, NEW f \in Fds, NEW op \in {"read", "write"}, NEW todo \in Seq(Bytes),
             Entering(p, op, f, todo)
      PROVE  steady /\ Goal
  <2>1. /\ call' = [call EXCEPT ![p] = [op |-> op, fd |-> f, sem |-> Free, todo |-> todo]]
        /\ UNCHANGED <<units, ring, state, steady>> /\ call[p].sem = Free
    BY <1>7, Known DEF Entering, Enters, Outside, procs
  <2>2. \A q \in Procs : call[q].sem # Free => call'[q].sem = call[q].sem
    BY <1>0, <2>1
  <2>3. QED BY <1>b, <2>1, <2>2
<1>8. ASSUME NEW p \in Procs, NEW q \in Procs, Kill(p, q) PROVE steady /\ Goal
  <2>1. Ends(q) /\ state' = Dead(q) /\ UNCHANGED <<units, ring>> /\ call[q] = NoCall /\ steady
    BY <1>8 DEF Kill
  <2>2. QED BY <2>1, DeafAfterEnd
<1>9. ASSUME NEW q \in Procs, NEW asked \in BOOLEAN, Start(q, asked) PROVE steady /\ Goal
  <2>1. /\ state[Shell] = "READY" /\ call[Shell].sem = Free /\ state[q] = "NEW"
        /\ \A p \in Procs \ {q, Shell} : state'[p] = state[p]
        /\ UNCHANGED <<units, ring, call, steady>> /\ call[q].sem = Free
    BY <1>9, StartIs, Known
  <2>2. \A p \in Procs : state[p] = "BLOCKED" => state'[p] = "BLOCKED"
    BY <1>0, <2>1
  <2>3. \A p \in Procs : state[p] = "READY" /\ call[p].sem # Free =>
                             state'[p] = "READY" /\ call'[p].sem = call[p].sem
    BY <1>0, <2>1
  <2>4. QED BY <1>b, <2>1, <2>2, <2>3
<1>10. ASSUME NEW b \in Bytes, Typing(b) PROVE steady /\ Goal
  <2>1. Typed(b, state) /\ call' = call /\ steady' = steady
    BY <1>10 DEF Typing
  <2>2. QED BY <1>0, <2>1, DeafTyped
<1>11. ASSUME Interrupting PROVE steady /\ Goal
  <2>1. PICK q \in Procs : q = front
    BY DEF PTypeOK
  <2>2. /\ Ends(q) /\ Typed(Interrupt, Dead(q)) /\ Interrupt \in Bytes /\ Interruptible
        /\ steady /\ (call[q] = NoCall \/ SemFor(q) = read_sem[STDIN])
    BY <1>11, <2>1 DEF Interrupting
  <2>3. CASE call[q] = NoCall
    <3>1. DeafOK(units, ring, Dead(q), call') /\ RingsOK(units, ring, Dead(q), call')
      BY <2>2, <2>3, DeafAfterEnd, RingsAfterEnd
    <3>2. QED BY <2>2, <3>1, DeadIs, DeafTyped
  <2>4. CASE call[q] # NoCall
    BY <2>1, <2>2, <2>4, DeafInterrupted
  <2>5. QED BY <2>2, <2>3, <2>4
<1>12. ASSUME Tick PROVE steady /\ Goal
  <2>1. UNCHANGED <<units, ring, state, call, steady>>
    BY <1>12 DEF Tick, procs
  <2>2. QED BY <1>b, <2>1
<1>13. QED BY <1>1, <1>2, <1>3, <1>4, <1>5, <1>6, <1>7, <1>8, <1>9, <1>10, <1>11, <1>12 DEF PStep

(* A run that is steady was. *)
LEMMA SteadyBefore == PStep /\ steady' => steady
BY DEF PStep, Open, Exit, GivesUp, Blocks, Takes, Gives, Close, Entering, Enters, Kill, Start, Typing, Interrupting, Tick

-----------------------------------------------------------------------------
(* The invariant is inductive. *)
LEMMA PInvInit == PInit => PInv
<1>1. PInit => AloneOK
  BY DEF PInit, AloneOK
<1>2. QED BY <1>1, TypeInit, CallsInit, OwnersInit, RingsInit, CalmInit, DeafInit DEF PInv, CalmOK

LEMMA PInvStep == PInv /\ [PStep]_pvars => PInv'
<1>1. ASSUME PInv, PStep PROVE PInv'
  <2>0. /\ PTypeOK /\ CallsOK /\ FrontOK /\ OwnersOK /\ AloneOK /\ RingsOK(units, ring, state, call)
        /\ (calm => CalmOK) /\ (calm /\ steady => DeafOK(units, ring, state, call))
    BY <1>1 DEF PInv, CalmOK
  <2>1. PTypeOK'
    BY <1>1, <2>0, TypeStep
  <2>2. CallsOK' /\ FrontOK'
    BY <1>1, <2>0, CallsStep
  <2>3. OwnersOK'
    BY <1>1, <2>0, OwnersStep
  <2>4. RingsOK(units', ring', state', call')
    BY <1>1, <2>0, RingsStep
  <2>5. calm' => calm /\ CalmOK'
    BY <1>1, <2>0, CalmStep
  <2>6. calm' /\ steady' => DeafOK(units', ring', state', call')
    <3>1. ASSUME calm', steady' PROVE calm /\ CalmOK /\ (steady => DeafOK(units, ring, state, call))
      BY <2>0, <2>5, <3>1
    <3>2. ASSUME calm', steady' PROVE steady
      BY <1>1, <3>2, SteadyBefore
    <3>3. ASSUME calm', steady' PROVE DeafOK(units', ring', state', call')
      BY <1>1, <2>0, <2>1, <3>1, <3>2, <3>3, DeafStep
    <3>4. QED BY <3>3
  <2>7. AloneOK'
    BY <1>1, <2>0, <2>1, AloneStep
  <2>8. QED BY <2>1, <2>2, <2>3, <2>4, <2>5, <2>6, <2>7 DEF PInv, CalmOK
<1>2. ASSUME PInv, UNCHANGED pvars PROVE PInv'
  <2>0. /\ PTypeOK /\ CallsOK /\ FrontOK /\ OwnersOK /\ AloneOK /\ RingsOK(units, ring, state, call)
        /\ (calm => CalmOK) /\ (calm /\ steady => DeafOK(units, ring, state, call))
    BY <1>2 DEF PInv, CalmOK
  <2>1. /\ UNCHANGED <<used, buffer, read_pos, write_pos, read_sem, write_sem, units, ring>>
        /\ UNCHANGED <<state, awaited, front, call, cpu, moved, calm, steady, smooth>>
    BY <1>2 DEF pvars, pipes, procs
  <2>2. PTypeOK'
    BY <2>0, <2>1 DEF PTypeOK
  <2>3. CallsOK' /\ FrontOK'
    BY <2>0, <2>1 DEF CallsOK, CallOK, FrontOK
  <2>4. OwnersOK' /\ AloneOK'
    BY <2>0, <2>1 DEF OwnersOK, AloneOK
  <2>5. RingsOK(units', ring', state', call')
    BY <2>0, <2>1
  <2>6. calm' => CalmOK'
    BY <2>0, <2>1 DEF CalmOK, CutOK, SemOf, IsFree, UnitsOf, UnitsOK
  <2>7. calm' /\ steady' => DeafOK(units', ring', state', call')
    BY <2>0, <2>1
  <2>8. QED BY <2>2, <2>3, <2>4, <2>5, <2>6, <2>7 DEF PInv, CalmOK
<1>3. QED BY <1>1, <1>2

-----------------------------------------------------------------------------
(* The steps of the terminal are steps, as long as its scene is one. *)
LEMMA ReadSteps ==
    ASSUME NEW p \in Procs, NEW f \in Fds, NEW n \in Nat \ {0}, Read(p, f, n)
    PROVE  PStep
<1> DEFINE todo == [i \in 1 .. n |-> Zero]
<1>1. todo \in Seq(Bytes) /\ todo # <<>>
  BY Known
<1>2. Entering(p, "read", f, todo)
  BY <1>1 DEF Read, Entering
<1>3. QED BY <1>1, <1>2 DEF PStep

LEMMA WriteSteps ==
    ASSUME NEW p \in Procs, NEW f \in Fds, NEW text \in Seq(Bytes), text # <<>>, Write(p, f, text)
    PROVE  PStep
<1>1. Entering(p, "write", f, text)
  BY DEF Write, Entering
<1>2. QED BY <1>1 DEF PStep

LEMMA KeySteps ==
    ASSUME NEW key, NEW release, Key(key, release)
    PROVE  [PStep]_pvars
<1>1. CASE UNCHANGED pvars
  BY <1>1
<1>2. CASE /\ IsCtrlC(key) /\ front # Shell /\ CharOf(key) \in Bytes
           /\ Ends(front) /\ Typed(Interrupt, Dead(front)) /\ Interruptible
           /\ cpu' = cpu \/ (Outside(front) /\ cpu' = front)
           /\ steady' = (steady /\ (call[front] = NoCall \/ SemFor(front) = read_sem[STDIN]))
           /\ UNCHANGED <<used, read_pos, read_sem, write_sem, calm, smooth>>
  <2>1. Interrupt \in Bytes
    BY <1>2 DEF CharOf, IsCtrlC
  <2>2. Interrupting
    BY <1>2, <2>1 DEF Interrupting
  <2>3. QED BY <2>2 DEF PStep
<1>3. CASE /\ Typed(CharOf(key), state) /\ CharOf(key) \in Bytes /\ Interruptible
           /\ UNCHANGED <<awaited, front, call, cpu, steady>>
           /\ UNCHANGED <<used, read_pos, read_sem, write_sem, calm, smooth>>
  <2>1. PICK b \in Bytes : b = CharOf(key)
    BY <1>3
  <2>2. Typing(b)
    BY <1>3, <2>1 DEF Typing
  <2>3. QED BY <2>2 DEF PStep
<1>4. QED BY <1>1, <1>2, <1>3 DEF Key

LEMMA ActsSteps ==
    ASSUME NEW p \in Procs, Acts(p)
    PROVE  PStep
<1>1. CASE Open(p) \/ Exit(p) \/ GoOn(p)
  BY <1>1 DEF PStep, GoOn
<1>2. ASSUME NEW f \in Fds, Close(p, f) PROVE PStep
  BY <1>2 DEF PStep
<1>3. ASSUME NEW f \in Fds, NEW n \in Counts, Read(p, f, n) PROVE PStep
  BY <1>3, PipesOK, ReadSteps DEF PipesOK
<1>4. ASSUME NEW f \in Fds, NEW text \in Texts, Write(p, f, text) PROVE PStep
  BY <1>4, PipesOK, WriteSteps DEF PipesOK
<1>5. ASSUME NEW q \in Procs, Kill(p, q) PROVE PStep
  BY <1>5 DEF PStep
<1>6. QED BY <1>1, <1>2, <1>3, <1>4, <1>5 DEF Acts

LEMMA NextSteps ==
    ASSUME scene \in Scenes, Next
    PROVE  [PStep]_pvars
<1>1. ASSUME NEW p \in Procs, Acts(p) PROVE PStep
  BY <1>1, ActsSteps
<1>2. ASSUME NEW q \in scene.procs, NEW asked \in BOOLEAN, Start(q, asked) PROVE PStep
  BY <1>2, ScenesOK DEF ScenesOK, PStep
<1>3. ASSUME NEW key, NEW release, Key(key, release) PROVE [PStep]_pvars
  BY <1>3, KeySteps
<1>4. CASE Tick
  BY <1>4 DEF PStep
<1>5. QED BY <1>1, <1>2, <1>3, <1>4 DEF Next, Kernel

(* The modifiers of the keyboard. *)
ModifiersOK == capslock \in BOOLEAN /\ shift \in BOOLEAN /\ ctrl \in BOOLEAN /\ alt \in BOOLEAN
LEMMA KeyModifiers ==
    ASSUME ModifiersOK, NEW key, NEW release \in BOOLEAN, Key(key, release)
    PROVE  ModifiersOK'
<1>1. CASE Modifies(key, release)
  BY <1>1 DEF Modifies, ModifiersOK, modifiers
<1>2. CASE UNCHANGED modifiers
  BY <1>2 DEF ModifiersOK, modifiers
<1>3. QED BY <1>1, <1>2 DEF Key, Types

-----------------------------------------------------------------------------
(* What follows from the invariant. *)
LEMMA SizeOfImage ==
    ASSUME NEW S, IsFiniteSet(S), NEW g, \A x, y \in S : g[x] = g[y] => x = y
    PROVE  /\ IsFiniteSet({g[x] : x \in S})
           /\ Cardinality({g[x] : x \in S}) = Cardinality(S)
<1> DEFINE T == {g[x] : x \in S}
           h == [x \in S |-> g[x]]
<1>1. h \in Bijection(S, T)
  <2>1. h \in [S -> T]
    OBVIOUS
  <2>2. \A x, y \in S : h[x] = h[y] => x = y
    OBVIOUS
  <2>3. \A t \in T : \E x \in S : h[x] = t
    OBVIOUS
  <2> HIDE DEF h, T
  <2>4. QED BY <2>1, <2>2, <2>3, Fun_IsBij
<1>2. ExistsBijection(S, T)
  BY <1>1 DEF ExistsBijection
<1> HIDE DEF T
<1>3. IsFiniteSet(T) /\ Cardinality(T) = Cardinality(S)
  BY <1>2, FS_Bijection
<1>4. QED BY <1>3 DEF T

LEMMA FdsFinite == IsFiniteSet(Fds)
<1>1. STDIN \in Int /\ 3 \in Int /\ MaxPipes - 1 \in Int
  BY PipesOK DEF PipesOK, STDIN
<1>2. IsFiniteSet(3 .. MaxPipes - 1)
  BY <1>1, FS_Interval
<1>3. IsFiniteSet((3 .. MaxPipes - 1) \cup {STDIN})
  BY <1>2, FS_AddElement
<1>4. Fds = (3 .. MaxPipes - 1) \cup {STDIN}
  BY DEF Fds
<1>5. QED BY <1>3, <1>4

LEMMA OwnersInv == PTypeOK /\ OwnersOK => SemaphoresHaveOwners
<1> SUFFICES ASSUME PTypeOK, OwnersOK PROVE SemaphoresHaveOwners
  OBVIOUS
<1> DEFINE R == {read_sem[f] : f \in Open0}
           W == {write_sem[f] : f \in Open0}
<1>1. Open0 \in SUBSET Fds
  BY DEF Open0
<1>2. IsFiniteSet(Open0) /\ Cardinality(Open0) \in Nat
  BY <1>1, FdsFinite, FS_Subset, FS_CardinalityType
<1>3. /\ \A f \in Open0 : /\ read_sem[f] \in Sems /\ write_sem[f] \in Sems
                          /\ units[read_sem[f]] # Free /\ units[write_sem[f]] # Free
      /\ \A f, g \in Open0 : /\ read_sem[f] = read_sem[g] => f = g
                             /\ write_sem[f] = write_sem[g] => f = g
                             /\ read_sem[f] # write_sem[g]
  BY DEF OwnersOK, Open0
<1>4. IsFiniteSet(R) /\ Cardinality(R) = Cardinality(Open0)
  BY <1>2, <1>3, SizeOfImage
<1>5. IsFiniteSet(W) /\ Cardinality(W) = Cardinality(Open0)
  BY <1>2, <1>3, SizeOfImage
<1>6. {k \in Sems : units[k] # Free} = R \cup W
  <2>1. R \cup W \subseteq {k \in Sems : units[k] # Free}
    BY <1>3
  <2>2. ASSUME NEW k \in Sems, units[k] # Free PROVE k \in R \cup W
    <3>1. PICK f \in Fds : used[f] /\ k \in {read_sem[f], write_sem[f]}
      BY <2>2 DEF OwnersOK
    <3>2. QED BY <3>1 DEF Open0
  <2>3. QED BY <2>1, <2>2
<1>7. R \cap W = {}
  BY <1>3
<1> HIDE DEF R, W
<1>8. Cardinality(R \cup W) = 2 * Cardinality(Open0)
  <2>1. Cardinality(R \cup W) = Cardinality(R) + Cardinality(W) - Cardinality(R \cap W)
    BY <1>4, <1>5, FS_Union
  <2>2. Cardinality(R \cap W) = 0
    BY <1>7, FS_EmptySet
  <2>3. QED BY <1>2, <1>4, <1>5, <2>1, <2>2
<1>9. QED BY <1>6, <1>8 DEF R, W, SemaphoresHaveOwners

LEMMA UnitsInv == PInv => UnitsCountBytes
<1> SUFFICES ASSUME PInv, calm, NEW f \in Open0
             PROVE  /\ units[read_sem[f]] = (write_pos[f] - read_pos[f]) % BufferSize
                    /\ units[write_sem[f]] = BufferSize - 1 - units[read_sem[f]]
  BY DEF UnitsCountBytes
<1>1. f \in Fds /\ used[f]
  BY DEF Open0
<1>2. write_pos[f] \in Places /\ read_pos[f] \in Places
  BY <1>1 DEF PInv, PTypeOK
<1>3. PICK u \in Places : u = units[read_sem[f]]
  BY <1>1 DEF PInv, UnitsOK
<1>4. /\ write_pos[f] = read_pos[f] + u \/ write_pos[f] = read_pos[f] + u - BufferSize
      /\ units[write_sem[f]] = BufferSize - 1 - u
  BY <1>1, <1>3 DEF PInv, UnitsOK
<1>5. \A n \in Nat \ {0} : \A x \in (0 - n) .. n - 1 : x % n = IF x >= 0 THEN x ELSE x + n
  OBVIOUS
<1>6. PICK x \in Int : x = write_pos[f] - read_pos[f]
  BY <1>2, Known
<1>7. /\ x = u \/ (x = u - BufferSize /\ u # 0)
      /\ u \in Nat /\ u < BufferSize /\ BufferSize \in Nat \ {0}
  BY <1>2, <1>4, <1>6, Known
<1>8. x \in (0 - BufferSize) .. BufferSize - 1 /\ (IF x >= 0 THEN x ELSE x + BufferSize) = u
  BY <1>7
<1>9. x % BufferSize = u
  BY <1>5, <1>7, <1>8
<1>10. QED BY <1>3, <1>4, <1>6, <1>9

LEMMA DeafInv == PInv => NobodyIsDeaf
<1> SUFFICES ASSUME PInv, calm, steady, NEW f \in Open0, NEW k \in {read_sem[f], write_sem[f]},
                    units[k] > 0, NEW p \in ToSet(ring[k])
             PROVE  \E q \in Procs : state[q] = "READY" /\ call[q].sem = k
  BY DEF NobodyIsDeaf
<1>1. f \in Fds /\ used[f]
  BY DEF Open0
<1>2. k \in Sems /\ units[k] # Free /\ units[k] \in {Free} \cup Nat /\ ring[k] \in Seq(Procs)
  <2>1. k \in Sems /\ units[k] # Free
    BY <1>1 DEF PInv, OwnersOK
  <2>2. QED BY <2>1 DEF PInv, PTypeOK
<1>3. ring[k] # <<>>
  BY <1>2 DEF ToSet
<1>4. units[k] <= Cardinality(Woken(state, call, k))
  BY <1>2, <1>3 DEF PInv, DeafOK
<1>5. Woken(state, call, k) # {}
  BY <1>2, <1>4, WokenFinite
<1>6. QED BY <1>5 DEF Woken

LEMMA StrandedInv == PInv => NobodyIsStranded
<1> SUFFICES ASSUME PInv, calm, NEW p \in Procs, state[p] = "BLOCKED"
             PROVE  /\ used[call[p].fd] /\ call[p].sem = SemOf(p)
                    /\ \E i \in 1 .. Len(ring[SemOf(p)]) :
                         \A j \in 1 .. Len(ring[SemOf(p)]) : ring[SemOf(p)][j] = p <=> j = i
  BY DEF NobodyIsStranded, SemOf
<1>1. call[p] # NoCall /\ call[p].fd \in Fds
  BY DEF PInv, CallsOK, CallOK, PTypeOK
<1>2. /\ call[p].sem \in Sems
      /\ \E i \in 1 .. Len(ring[call[p].sem]) : ring[call[p].sem][i] = p
  BY DEF PInv, RingsOK
<1>3. units[call[p].sem] # Free
  BY <1>2 DEF PInv, RingsOK
<1>4. CutOK(p)
  BY DEF PInv
<1>5. used[call[p].fd] /\ call[p].sem = SemOf(p)
  BY <1>1, <1>2, <1>3, <1>4, Known DEF CutOK, IsFree, UnitsOf
<1>6. \A i, j \in 1 .. Len(ring[call[p].sem]) : ring[call[p].sem][i] = ring[call[p].sem][j] => i = j
  BY <1>2 DEF PInv, RingsOK
<1>7. QED BY <1>2, <1>5, <1>6

-----------------------------------------------------------------------------
(* Every variable keeps its type. *)
TInv == PInv /\ ModifiersOK /\ scene \in Scenes
LEMMA TInvInductive == Spec => []TInv
<1>1. Init => TInv
  BY PInvInit DEF Init, KInit, TInv, ModifiersOK
<1>2. TInv /\ [Next]_vars => TInv'
  <2> SUFFICES ASSUME TInv, [Next]_vars PROVE TInv'
    OBVIOUS
  <2>1. CASE Next
    <3>1. PInv'
      BY <2>1, NextSteps, PInvStep DEF TInv
    <3>2. scene' = scene
      BY <2>1 DEF Next
    <3>3. CASE UNCHANGED modifiers
      BY <3>1, <3>2, <3>3 DEF TInv, ModifiersOK, modifiers
    <3>4. ASSUME NEW key \in Codes, NEW release \in BOOLEAN, Key(key, release) PROVE TInv'
      BY <3>1, <3>2, <3>4, KeyModifiers DEF TInv
    <3>5. QED BY <2>1, <3>3, <3>4 DEF Next
  <2>2. CASE UNCHANGED vars
    <3>1. UNCHANGED <<pvars, capslock, shift, ctrl, alt, scene>>
      BY <2>2 DEF vars, modifiers
    <3>2. PInv'
      BY <3>1, PInvStep DEF TInv
    <3>3. QED BY <3>1, <3>2 DEF TInv, ModifiersOK
  <2>3. QED BY <2>1, <2>2
<1>3. QED BY <1>1, <1>2, PTL DEF Spec

(* The types of the pipes, the processes at them and the keyboard, whatever is
   typed, read, written, closed and killed. *)
THEOREM TypeCorrect == Spec => []TypeOK
<1>1. TInv => TypeOK
  BY DEF TInv, PInv, ModifiersOK, TypeOK
<1>2. QED BY <1>1, TInvInductive, PTL

(* The semaphores of an open pipe agree with its positions; while calm. *)
THEOREM UnitsCorrect == Spec => []UnitsCountBytes
<1>1. TInv => UnitsCountBytes
  BY UnitsInv DEF TInv
<1>2. QED BY <1>1, TInvInductive, PTL

(* No semaphore is lost and none is shared. *)
THEOREM OwnersCorrect == Spec => []SemaphoresHaveOwners
<1>1. TInv => SemaphoresHaveOwners
  BY OwnersInv DEF TInv, PInv
<1>2. QED BY <1>1, TInvInductive, PTL

(* No byte and no room waits unnoticed, as long as no process that has ended is
   left in a ring (steady) and no semaphore was given out again too early (calm). *)
THEOREM NoneDeaf == Spec => []NobodyIsDeaf
<1>1. TInv => NobodyIsDeaf
  BY DeafInv DEF TInv
<1>2. QED BY <1>1, TInvInductive, PTL

(* Who is blocked in a pipe will be found there, and the pipe is open; while calm. *)
THEOREM NoneStranded == Spec => []NobodyIsStranded
<1>1. TInv => NobodyIsStranded
  BY StrandedInv DEF TInv
<1>2. QED BY <1>1, TInvInductive, PTL

-----------------------------------------------------------------------------
(* The n bytes from place r on in buffer b: what happens to them when one is
   read, and when one is written. *)
Held(n, r, b) == [i \in 1 .. n |-> b[(r + i - 1) % BufferSize]]
PlaceOf(r, i) == IF r + i - 1 < BufferSize THEN r + i - 1 ELSE r + i - 1 - BufferSize

LEMMA PlaceIs ==
    ASSUME NEW r \in Places, NEW i \in 1 .. BufferSize
    PROVE  /\ (r + i - 1) % BufferSize = PlaceOf(r, i) /\ PlaceOf(r, i) \in Places
<1>1. BufferSize \in Nat \ {0} /\ r \in Nat /\ r < BufferSize
  BY Known
<1>2. i \in Int /\ 1 <= i /\ i <= BufferSize
  BY <1>1
<1>3. r + i - 1 \in 0 .. 2 * BufferSize - 1
  BY <1>1, <1>2
<1>4. \A y \in 0 .. 2 * BufferSize - 1 :
        y % BufferSize = IF y < BufferSize THEN y ELSE y - BufferSize
  BY <1>1, Modulo
<1>5. (r + i - 1) % BufferSize = PlaceOf(r, i)
  <2>1. PICK y \in 0 .. 2 * BufferSize - 1 : y = r + i - 1
    BY <1>3
  <2>2. y % BufferSize = IF y < BufferSize THEN y ELSE y - BufferSize
    BY <1>4
  <2>3. (r + i - 1) % BufferSize = y % BufferSize
    BY <2>1
  <2>4. QED BY <1>1, <1>2, <2>1, <2>2, <2>3 DEF PlaceOf
<1>6. PlaceOf(r, i) \in Places
  BY <1>1, <1>2, Known DEF PlaceOf
<1>7. QED BY <1>5, <1>6

LEMMA HeldIs ==
    ASSUME NEW n \in Places, NEW r \in Places, NEW b \in [Places -> Bytes]
    PROVE  /\ Held(n, r, b) \in Seq(Bytes) /\ Len(Held(n, r, b)) = n
           /\ Held(n, r, b) = <<>> <=> n = 0
           /\ \A i \in 1 .. n : Held(n, r, b)[i] = b[PlaceOf(r, i)] /\ PlaceOf(r, i) \in Places
<1>1. n \in Nat /\ n < BufferSize /\ BufferSize \in Nat
  BY Known
<1>2. \A i \in 1 .. n : i \in 1 .. BufferSize
  BY <1>1
<1>3. \A i \in 1 .. n : (r + i - 1) % BufferSize = PlaceOf(r, i) /\ PlaceOf(r, i) \in Places
  BY <1>2, PlaceIs
<1>4. Held(n, r, b) = [i \in 1 .. n |-> b[PlaceOf(r, i)]]
  BY <1>3 DEF Held
<1>5. \A i \in 1 .. n : b[PlaceOf(r, i)] \in Bytes
  BY <1>3
<1> DEFINE s == [i \in 1 .. n |-> b[PlaceOf(r, i)]]
<1>6. s \in [1 .. n -> Bytes]
  BY <1>5
<1>7. \A i \in 1 .. n : s[i] = b[PlaceOf(r, i)]
  OBVIOUS
<1> HIDE DEF s
<1>8. s \in Seq(Bytes) /\ Len(s) = n
  BY <1>1, <1>6
<1>9. s = <<>> <=> n = 0
  BY <1>1, <1>8
<1>10. QED BY <1>3, <1>4, <1>7, <1>8, <1>9 DEF s

LEMMA HeldTail ==
    ASSUME NEW n \in Places, n >= 1, NEW r \in Places, NEW b \in [Places -> Bytes]
    PROVE  /\ Head(Held(n, r, b)) = b[r]
           /\ Held(n - 1, (r + 1) % BufferSize, b) = Tail(Held(n, r, b))
<1>1. n \in Nat /\ n < BufferSize /\ BufferSize \in Nat /\ r \in Nat /\ r < BufferSize
  BY Known
<1>2. PICK r2 \in Places : /\ r2 = (r + 1) % BufferSize
                           /\ r2 = IF r + 1 < BufferSize THEN r + 1 ELSE 0
  BY NextPlace
<1>3. n - 1 \in Places
  BY <1>1, Known
<1>4. PICK s \in Seq(Bytes) : s = Held(n, r, b)
  BY HeldIs
<1>5. /\ Len(s) = n
      /\ \A i \in 1 .. n : s[i] = b[PlaceOf(r, i)] /\ PlaceOf(r, i) \in Places
  BY <1>4, HeldIs
<1>6. PICK t \in Seq(Bytes) : t = Held(n - 1, r2, b)
  BY <1>3, HeldIs
<1>7. /\ Len(t) = n - 1
      /\ \A i \in 1 .. n - 1 : t[i] = b[PlaceOf(r2, i)]
  BY <1>3, <1>6, HeldIs
<1>8. Head(s) = b[r]
  <2>1. 1 \in 1 .. n /\ PlaceOf(r, 1) = r
    BY <1>1 DEF PlaceOf
  <2>2. s # <<>> /\ s[1] = b[r]
    BY <1>1, <1>5, <2>1
  <2>3. QED BY <2>2
<1>9. \A i \in 1 .. n - 1 : i + 1 \in 1 .. n /\ PlaceOf(r2, i) = PlaceOf(r, i + 1)
  BY <1>1, <1>2 DEF PlaceOf
<1>10. t = Tail(s)
  <2>1. s # <<>> /\ Tail(s) \in Seq(Bytes) /\ Len(Tail(s)) = n - 1
    BY <1>1, <1>5
  <2>2. \A i \in 1 .. n - 1 : Tail(s)[i] = s[i + 1]
    BY <1>1, <1>5, <2>1
  <2>3. \A i \in 1 .. n - 1 : t[i] = Tail(s)[i]
    BY <1>5, <1>7, <1>9, <2>2
  <2>4. QED BY <1>7, <2>1, <2>3
<1>11. QED BY <1>2, <1>4, <1>6, <1>8, <1>10

Follows(m, n) == m = n + 1
LEMMA HeldAppend ==
    ASSUME NEW n \in Places, NEW m \in Places, Follows(m, n), NEW r \in Places, NEW b \in [Places -> Bytes],
           NEW w \in Places, w = PlaceOf(r, m), NEW x \in Bytes,
           NEW b2 \in [Places -> Bytes], \A i \in Places : b2[i] = IF i = w THEN x ELSE b[i]
    PROVE  Held(m, r, b2) = Append(Held(n, r, b), x)
<1>1. /\ n \in Nat /\ m < BufferSize /\ BufferSize \in Nat /\ r \in Nat /\ r < BufferSize
      /\ w \in Nat /\ w < BufferSize /\ m = n + 1
  BY Known DEF Follows
<1>2. PICK s \in Seq(Bytes) : s = Held(n, r, b)
  BY HeldIs
<1>3. /\ Len(s) = n
      /\ \A i \in 1 .. n : s[i] = b[PlaceOf(r, i)] /\ PlaceOf(r, i) \in Places
  BY <1>2, HeldIs
<1>4. PICK t \in Seq(Bytes) : t = Held(m, r, b2)
  BY HeldIs
<1>5. /\ Len(t) = m
      /\ \A i \in 1 .. m : t[i] = b2[PlaceOf(r, i)]
  BY <1>4, HeldIs
<1>6. PlaceOf(r, m) = w
  OBVIOUS
<1>7. \A i \in 1 .. n : PlaceOf(r, i) # w
  BY <1>1 DEF PlaceOf
<1>8. t = Append(s, x)
  <2>1. Append(s, x) \in Seq(Bytes) /\ Len(Append(s, x)) = m /\ Append(s, x)[m] = x
    BY <1>1, <1>3
  <2>2. \A i \in 1 .. n : Append(s, x)[i] = s[i]
    BY <1>3
  <2>3. \A i \in 1 .. m : t[i] = Append(s, x)[i]
    <3> TAKE i \in 1 .. m
    <3>1. i \in 1 .. n \/ i = m
      BY <1>1
    <3>2. CASE i \in 1 .. n
      <4>1. t[i] = b[PlaceOf(r, i)]
        BY <1>3, <1>5, <1>7, <3>2
      <4>2. QED BY <1>3, <2>2, <3>2, <4>1
    <3>3. CASE i = m
      BY <1>5, <1>6, <2>1, <3>3
    <3>4. QED BY <3>1, <3>2, <3>3
  <2>4. QED BY <1>5, <2>1, <2>3
<1>9. QED BY <1>2, <1>4, <1>8

-----------------------------------------------------------------------------
(* The channels of a state: what is in them, and who is blocked in them. *)
LEMMA ContentIs ==
    /\ content = [f \in Fds |-> IF used[f] THEN Held(units[read_sem[f]], read_pos[f], buffer[f]) ELSE <<>>]
    /\ content' = [f \in Fds |-> IF used'[f] THEN Held(units'[read_sem'[f]], read_pos'[f], buffer'[f]) ELSE <<>>]
BY DEF content, Held

LEMMA LengthIs ==
    ASSUME PTypeOK, NEW f \in Fds, used[f], UnitsOK(f)
    PROVE  /\ content[f] = Held(units[read_sem[f]], read_pos[f], buffer[f])
           /\ content[f] \in Seq(Bytes) /\ Len(content[f]) = units[read_sem[f]]
           /\ content[f] = <<>> <=> units[read_sem[f]] = 0
           /\ units[read_sem[f]] \in Places /\ read_pos[f] \in Places /\ write_pos[f] \in Places
           /\ buffer[f] \in [Places -> Bytes]
           /\ units[write_sem[f]] = BufferSize - 1 - units[read_sem[f]]
<1>1. read_pos[f] \in Places /\ write_pos[f] \in Places /\ buffer[f] \in [Places -> Bytes]
  BY DEF PTypeOK
<1>2. units[read_sem[f]] \in Places /\ units[write_sem[f]] = BufferSize - 1 - units[read_sem[f]]
  BY DEF UnitsOK
<1>3. content[f] = Held(units[read_sem[f]], read_pos[f], buffer[f])
  BY ContentIs
<1>4. QED BY <1>1, <1>2, <1>3, HeldIs

(* What is in pipe f stays, or becomes v. *)
Kept(f) ==
    /\ used'[f] = used[f]
    /\ used[f] => /\ read_sem'[f] = read_sem[f] /\ units'[read_sem[f]] = units[read_sem[f]]
                  /\ read_pos'[f] = read_pos[f] /\ buffer'[f] = buffer[f]

LEMMA ContentKept ==
    ASSUME NEW f \in Fds, Kept(f)
    PROVE  content'[f] = content[f]
BY ContentIs DEF Kept

LEMMA ContentSame ==
    ASSUME \A f \in Fds : Kept(f)
    PROVE  content' = content
<1>1. \A f \in Fds : content'[f] = content[f]
  BY ContentKept
<1>2. content = [f \in Fds |-> content[f]] /\ content' = [f \in Fds |-> content'[f]]
  BY DEF content
<1>3. QED BY <1>1, <1>2

LEMMA ContentBecomes ==
    ASSUME NEW f \in Fds, NEW v, content'[f] = v, \A g \in Fds \ {f} : Kept(g)
    PROVE  content' = [content EXCEPT ![f] = v]
<1>1. \A g \in Fds \ {f} : content'[g] = content[g]
  BY ContentKept
<1>2. content = [g \in Fds |-> content[g]] /\ content' = [g \in Fds |-> content'[g]]
  BY DEF content
<1>3. QED BY <1>1, <1>2

Waiting(c, s) ==
    IF c # NoCall /\ s # "TERMINATED" /\ c.op = "read" /\ c.sem # Free THEN c.fd ELSE Free
LEMMA ReadingIs ==
    /\ reading = [p \in Procs |-> Waiting(call[p], state[p])]
    /\ reading' = [p \in Procs |-> Waiting(call'[p], state'[p])]
BY DEF reading, Waiting, InPipe

SameWait(p) == call'[p] = call[p] /\ (state'[p] = "TERMINATED" <=> state[p] = "TERMINATED")
LEMMA ReadingSame ==
    ASSUME \A p \in Procs : \/ SameWait(p)
                            \/ Waiting(call[p], state[p]) = Waiting(call'[p], state'[p])
    PROVE  reading' = reading
<1>1. \A p \in Procs : Waiting(call[p], state[p]) = Waiting(call'[p], state'[p])
  BY DEF SameWait, Waiting
<1>2. QED BY <1>1, ReadingIs

LEMMA ReadingBecomes ==
    ASSUME NEW q \in Procs, NEW c, Waiting(call'[q], state'[q]) = c,
           \A p \in Procs \ {q} : SameWait(p)
    PROVE  reading' = [reading EXCEPT ![q] = c]
<1>1. \A p \in Procs \ {q} : Waiting(call[p], state[p]) = Waiting(call'[p], state'[p])
  BY DEF SameWait, Waiting
<1>2. QED BY <1>1, ReadingIs

(* A process that is woken still waits. *)
LEMMA WokenWaits ==
    ASSUME Woke(state, state')
    PROVE  \A p \in Procs : state'[p] = "TERMINATED" <=> state[p] = "TERMINATED"
BY DEF Woke

(* After the end of q nobody but q has left the channels. *)
LEMMA EndLeaves ==
    ASSUME PTypeOK, FrontOK, NEW q \in Procs, Ends(q), Woke(Dead(q), state')
    PROVE  /\ reading' = [reading EXCEPT ![q] = Free]
           /\ call[q] = NoCall => reading' = reading
<1>1. /\ Dead(q)[Shell] = IF awaited = q THEN "READY" ELSE state[Shell]
      /\ \A p \in Procs \ {q, Shell} : Dead(q)[p] = state[p]
      /\ call' = [call EXCEPT ![q] = NoCall]
  BY DeadIs
<1>2. call \in [Procs -> Calls]
  BY DEF PTypeOK, Calls
<1>3. \A p \in Procs \ {q} : Dead(q)[p] = "TERMINATED" <=> state[p] = "TERMINATED"
  BY <1>1 DEF FrontOK
<1>4. \A p \in Procs \ {q} : SameWait(p)
  BY <1>1, <1>2, <1>3 DEF Woke, SameWait
<1>5. Waiting(call'[q], state'[q]) = Free
  BY <1>1, <1>2 DEF Waiting
<1>6. reading' = [reading EXCEPT ![q] = Free]
  BY <1>4, <1>5, ReadingBecomes
<1>7. ASSUME call[q] = NoCall PROVE reading' = reading
  <2>1. Waiting(call[q], state[q]) = Free
    BY <1>7 DEF Waiting
  <2>2. QED BY <1>4, <1>5, <2>1, ReadingSame
<1>8. QED BY <1>6, <1>7

(* A byte is written to pipe f. *)
PutContent(f, b) ==
    Len(content[f]) < BufferSize - 1 /\ content'[f] = Append(content[f], b)
LEMMA AfterPut ==
    ASSUME PTypeOK, NEW f \in Fds, used[f], UnitsOK(f), NEW b \in Bytes, NEW who, Puts(f, b, who),
           units[write_sem[f]] >= 1, units'[read_sem[f]] = units[read_sem[f]] + 1,
           UNCHANGED <<used, read_pos, read_sem>>
    PROVE  PutContent(f, b)
<1>1. PICK n \in Places, r \in Places, w \in Places, bf \in [Places -> Bytes] :
         n = units[read_sem[f]] /\ r = read_pos[f] /\ w = write_pos[f] /\ bf = buffer[f]
  BY LengthIs
<1>2. /\ content[f] = Held(n, r, bf) /\ Len(content[f]) = n
      /\ units[write_sem[f]] = BufferSize - 1 - n
  BY <1>1, LengthIs
<1>3. n + 1 \in Places /\ n < BufferSize - 1
  BY <1>2, Known
<1>4. w = r + n \/ w = r + n - BufferSize
  BY <1>1 DEF UnitsOK
<1>5. buffer \in [Fds -> [Places -> Bytes]]
  BY DEF PTypeOK
<1>6. PICK b2 \in [Places -> Bytes] : b2 = buffer'[f] /\ b2 = [bf EXCEPT ![w] = b]
  BY <1>1, <1>5 DEF Puts, SlotToWrite
<1>7. PICK m \in Places : Follows(m, n)
  BY <1>3 DEF Follows
<1>8. content'[f] = Held(m, r, b2)
  BY <1>1, <1>6, <1>7, ContentIs DEF Follows
<1>9. Held(m, r, b2) = Append(Held(n, r, bf), b)
  <2>1. w = PlaceOf(r, m)
    BY <1>3, <1>4, <1>7, Known DEF PlaceOf, Follows
  <2>2. \A i \in Places : b2[i] = IF i = w THEN b ELSE bf[i]
    BY <1>6
  <2>3. QED BY <1>7, <2>1, <2>2, HeldAppend
<1>10. QED BY <1>2, <1>3, <1>8, <1>9 DEF PutContent

(* A character arrives. *)
LEMMA TypedPuts ==
    ASSUME PTypeOK, OwnersOK, CalmOK, NEW b \in Bytes, NEW st \in [Procs -> States], Typed(b, st),
           UNCHANGED <<used, read_pos, read_sem, write_sem>>
    PROVE  /\ Open0' = Open0
           /\ \/ content' = content /\ moved' = moved
              \/ Channel!Adds(STDIN, b, "keyboard")
<1>1. Open0' = Open0
  BY DEF Open0
<1>2. CASE UNCHANGED <<buffer, write_pos, moved, units, ring>>
  <2>1. \A f \in Fds : Kept(f)
    BY <1>2 DEF Kept
  <2>2. QED BY <1>1, <1>2, <2>1, ContentSame
<1>3. CASE UnitsOf(write_sem[STDIN]) # 0 /\ Puts(STDIN, b, "keyboard") /\ Keyed(st)
  <2>0. STDIN \in Fds /\ used[STDIN] /\ UnitsOK(STDIN)
    BY Known DEF OwnersOK, CalmOK
  <2>1. PICK rs \in Sems, ws \in Sems : rs = read_sem[STDIN] /\ ws = write_sem[STDIN]
    BY TypedIs
  <2>2. rs # ws /\ units[rs] # Free /\ units[ws] # Free
    BY <2>0, <2>1 DEF OwnersOK
  <2>3. UnitsOf(ws) # 0 /\ Posted(rs, Taken(ws), st)
    BY <1>3, <2>1 DEF Keyed
  <2>4. /\ units[ws] \in Nat /\ units[rs] \in Nat /\ units[ws] >= 1
        /\ units'[rs] = units[rs] + 1
        /\ \A k \in Sems \ {ws, rs} : units'[k] = units[k]
    BY <2>2, <2>3, PassUnits
  <2>5. \A g \in Fds \ {STDIN} : Kept(g)
    <3> TAKE g \in Fds \ {STDIN}
    <3>1. used[g] => read_sem[g] \in Sems \ {ws, rs}
      BY <2>0, <2>1 DEF OwnersOK
    <3>2. buffer'[g] = buffer[g]
      BY <1>3 DEF Puts, PTypeOK
    <3>3. QED BY <2>4, <3>1, <3>2 DEF Kept
  <2>6. PutContent(STDIN, b)
    BY <1>3, <2>0, <2>1, <2>4, AfterPut
  <2>7. content' = [content EXCEPT ![STDIN] = Append(content[STDIN], b)]
    BY <2>0, <2>5, <2>6, ContentBecomes DEF PutContent
  <2>8. moved' = [by |-> "keyboard", byte |-> b]
    BY <1>3, <2>0 DEF Puts
  <2>9. QED BY <1>1, <2>0, <2>6, <2>7, <2>8 DEF PutContent, Open0, Channel!Adds, Channel!IsOpen
<1>4. QED BY <1>2, <1>3, TypedIs

-----------------------------------------------------------------------------
(* While it is calm each step is one of ByteChannel, or one of the two that it does
   not have, or changes nothing there. *)
Seen == <<Open0, content, moved, reading>>
Promised == Channel!Next \/ WritesInput \/ ReadsMadeUp

LEMMA Stutters ==
    ASSUME UNCHANGED <<used, moved>>, \A f \in Fds : Kept(f), reading' = reading
    PROVE  UNCHANGED Seen
<1>1. content' = content
  BY ContentSame
<1>2. QED BY <1>1 DEF Seen, Open0

LEMMA OpenSteps ==
    ASSUME PTypeOK, OwnersOK, NEW p \in Procs, Open(p)
    PROVE  Channel!Next \/ UNCHANGED Seen
<1>1. PICK f \in Fds, k1 \in Sems \cup {Free}, k2 \in Sems \cup {Free} :
         /\ f # STDIN /\ ~used[f] /\ f = Lowest(UnusedPipes)
         /\ IsFree(k1) /\ IsFree(k2) /\ (k2 # Free => k1 # Free /\ k1 # k2)
         /\ read_pos' = [read_pos EXCEPT ![f] = 0]
         /\ buffer' = [buffer EXCEPT ![f] = [i \in Places |-> Zero]]
         /\ read_sem' = [read_sem EXCEPT ![f] = k1]
         /\ \/ /\ k2 # Free
               /\ used' = [used EXCEPT ![f] = TRUE]
               /\ units' = [units EXCEPT ![k1] = 0, ![k2] = BufferSize - 1]
            \/ /\ k2 = Free /\ units' = units /\ used' = used
  BY OpenIs
<1>2. UNCHANGED <<state, call, moved>>
  BY DEF Open, procs
<1>3. reading' = reading
  BY <1>2, ReadingSame DEF SameWait
<1>4. /\ used \in [Fds -> BOOLEAN] /\ units \in [Sems -> {Free} \cup Nat]
      /\ read_pos \in [Fds -> Places] /\ read_sem \in [Fds -> Sems \cup {Free}]
      /\ buffer \in [Fds -> [Places -> Bytes]]
  BY DEF PTypeOK
<1>5. CASE k2 = Free /\ units' = units /\ used' = used
  <2>1. \A g \in Fds : Kept(g)
    BY <1>1, <1>4, <1>5 DEF Kept
  <2>2. QED BY <1>2, <1>3, <1>5, <2>1, Stutters
<1>6. CASE /\ k2 # Free
           /\ used' = [used EXCEPT ![f] = TRUE]
           /\ units' = [units EXCEPT ![k1] = 0, ![k2] = BufferSize - 1]
  <2>1. /\ k1 \in Sems /\ k2 \in Sems /\ k1 # k2 /\ units[k1] = Free /\ units[k2] = Free
    BY <1>1, <1>6 DEF IsFree, UnitsOf
  <2>2. units'[k1] = 0 /\ \A k \in Sems : units[k] # Free => units'[k] = units[k]
    BY <1>4, <1>6, <2>1
  <2>3. ASSUME NEW g \in Fds \ {f} PROVE content'[g] = content[g]
    <3>1. /\ used'[g] = used[g] /\ read_sem'[g] = read_sem[g]
          /\ read_pos'[g] = read_pos[g] /\ buffer'[g] = buffer[g]
      BY <1>1, <1>4, <1>6
    <3>2. used[g] => read_sem[g] \in Sems /\ units[read_sem[g]] # Free
      BY DEF OwnersOK
    <3>3. Kept(g)
      BY <2>2, <3>1, <3>2 DEF Kept
    <3>4. QED BY <3>3, ContentKept
  <2>4. content[f] = <<>>
    BY <1>1, ContentIs
  <2>5. content'[f] = <<>>
    <3>1. used'[f] /\ read_sem'[f] = k1
      BY <1>1, <1>4, <1>6
    <3>2. content'[f] = Held(0, read_pos'[f], buffer'[f])
      BY <2>2, <3>1, ContentIs
    <3>3. Held(0, read_pos'[f], buffer'[f]) = <<>>
      BY DEF Held
    <3>4. QED BY <3>2, <3>3
  <2>6. content' = content
    <3>1. \A g \in Fds : content'[g] = content[g]
      BY <2>3, <2>4, <2>5
    <3>2. content = [g \in Fds |-> content[g]] /\ content' = [g \in Fds |-> content'[g]]
      BY DEF content
    <3>3. QED BY <3>1, <3>2
  <2>7. f \notin Open0 /\ Open0' = Open0 \cup {f}
    BY <1>1, <1>4, <1>6 DEF Open0
  <2>8. Channel!Open(f)
    BY <1>2, <1>3, <2>4, <2>6, <2>7 DEF Channel!Open, Channel!IsOpen
  <2>9. QED BY <2>8 DEF Channel!Next
<1>7. QED BY <1>1, <1>5, <1>6

LEMMA CloseSteps ==
    ASSUME PTypeOK, OwnersOK, NEW p \in Procs, NEW f \in Fds, Close(p, f)
    PROVE  Channel!Next
<1>1. /\ used[f] /\ Destroyed({read_sem[f], write_sem[f]})
      /\ used' = [used EXCEPT ![f] = FALSE]
      /\ read_pos' = [read_pos EXCEPT ![f] = 0]
      /\ buffer' = [buffer EXCEPT ![f] = [i \in Places |-> Zero]]
      /\ UNCHANGED <<read_sem, call, moved>>
  BY DEF Close
<1>2. /\ used \in [Fds -> BOOLEAN] /\ read_pos \in [Fds -> Places]
      /\ buffer \in [Fds -> [Places -> Bytes]]
  BY DEF PTypeOK
<1>3. ASSUME NEW g \in Fds \ {f} PROVE Kept(g)
  <2>1. used[g] => read_sem[g] \in Sems \ {read_sem[f], write_sem[f]}
    BY <1>1 DEF OwnersOK
  <2>2. \A k \in Sems \ {read_sem[f], write_sem[f]} : units'[k] = units[k]
    BY <1>1 DEF Destroyed
  <2>3. QED BY <1>1, <1>2, <2>1, <2>2 DEF Kept
<1>4. content'[f] = <<>>
  BY <1>1, <1>2, ContentIs
<1>5. content' = [content EXCEPT ![f] = <<>>]
  BY <1>3, <1>4, ContentBecomes
<1>6. reading' = reading
  <2>1. Woke(state, state')
    BY <1>1, DestroyedWakes
  <2>2. QED BY <1>1, <2>1, WokenWaits, ReadingSame DEF SameWait
<1>7. f \in Open0 /\ Open0' = Open0 \ {f}
  BY <1>1, <1>2 DEF Open0
<1>8. Channel!Close(f)
  BY <1>1, <1>5, <1>6, <1>7 DEF Channel!Close, Channel!IsOpen
<1>9. QED BY <1>8 DEF Channel!Next

LEMMA BlocksSteps ==
    ASSUME PTypeOK, CallsOK, OwnersOK, CalmOK, NEW p \in Procs, Blocks(p)
    PROVE  Channel!Next \/ UNCHANGED Seen
<1>1. PICK k \in Sems \cup {Free} : k = SemFor(p)
  BY SemForType
<1>2. /\ UnitsOf(k) = 0 /\ MayGoOn(p)
      /\ \/ /\ call' = [call EXCEPT ![p].sem = k]
            /\ state' = [state EXCEPT ![p] = "BLOCKED"]
         \/ /\ call' = [call EXCEPT ![p] = NoCall]
            /\ state' = state /\ state[p] = "TERMINATED"
      /\ UNCHANGED <<used, buffer, read_pos, read_sem, units, moved>>
  BY <1>1 DEF Blocks, pipes
<1>3. k \in Sems /\ units[k] = 0 /\ k # Free
  BY <1>2, Known DEF UnitsOf
<1>4. /\ call \in [Procs -> Calls] /\ state \in [Procs -> States]
  BY DEF PTypeOK, Calls, States
<1>5. call[p] # NoCall /\ call[p].op \in {"read", "write"} /\ call[p].fd \in Fds
  BY <1>2, <1>4, Known, MoverIs DEF CallsOK, CallOK, Calls
<1>5a. CASE call' = [call EXCEPT ![p] = NoCall] /\ state' = state /\ state[p] = "TERMINATED"
  <2>1. \A q \in Procs : Waiting(call[q], state[q]) = Waiting(call'[q], state'[q])
    BY <1>4, <1>5a DEF Waiting
  <2>2. reading' = reading
    BY <2>1, ReadingSame
  <2>3. QED BY <1>2, <2>2, Stutters DEF Kept
<1>b. SUFFICES ASSUME call' = [call EXCEPT ![p].sem = k], state' = [state EXCEPT ![p] = "BLOCKED"]
               PROVE  Channel!Next \/ UNCHANGED Seen
  BY <1>2, <1>5a
<1>6. /\ state'[p] = "BLOCKED" /\ \A q \in Procs \ {p} : state'[q] = state[q] /\ call'[q] = call[q]
      /\ call'[p].op = call[p].op /\ call'[p].fd = call[p].fd /\ call'[p].sem = k
      /\ call'[p] # NoCall
  BY <1>b, <1>3, <1>4, <1>5, Known DEF Calls
<1>7. \A f \in Fds : Kept(f)
  BY <1>2 DEF Kept
<1>8. Open0' = Open0 /\ content' = content /\ moved' = moved
  BY <1>2, <1>7, ContentSame DEF Open0
<1>9. CASE call[p].op = "write"
  <2>1. Waiting(call[p], state[p]) = Free /\ Waiting(call'[p], state'[p]) = Free
    BY <1>6, <1>9 DEF Waiting
  <2>2. reading' = reading
    BY <1>6, <2>1, ReadingSame DEF SameWait
  <2>3. QED BY <1>8, <2>2 DEF Seen
<1>10. CASE call[p].op = "read"
  <2>1. PICK f \in Fds : f = call[p].fd
    BY <1>5
  <2>2. used[f] /\ k = read_sem[f]
    <3>1. CutOK(p) /\ SemOf(p) = read_sem[f]
      BY <1>10, <2>1 DEF CalmOK, SemOf
    <3>2. k = IF call[p].sem # Free THEN call[p].sem ELSE read_sem[f]
      BY <1>1, <1>10, <2>1 DEF SemFor
    <3>3. ~IsFree(k)
      BY <1>3, Known DEF IsFree, UnitsOf
    <3>4. QED BY <1>5, <2>1, <3>1, <3>2, <3>3 DEF CutOK
  <2>3. content[f] = <<>>
    <3>1. UnitsOK(f)
      BY DEF CalmOK
    <3>2. QED BY <1>3, <2>2, <3>1, LengthIs
  <2>4. Waiting(call'[p], state'[p]) = f
    BY <1>3, <1>6, <1>10, <2>1 DEF Waiting
  <2>5. reading' = [reading EXCEPT ![p] = f]
    BY <1>6, <2>4, ReadingBecomes DEF SameWait
  <2>6. f \in Open0
    BY <2>2 DEF Open0
  <2>7. Channel!Ask(p, f)
    BY <1>8, <2>3, <2>5, <2>6 DEF Channel!Ask, Channel!IsOpen
  <2>8. QED BY <2>7 DEF Channel!Next
<1>11. QED BY <1>5, <1>9, <1>10

(* Who goes on in its call is not in a channel any more. *)
LEMMA GoesLeaves ==
    ASSUME PTypeOK, CallsOK, NEW p \in Procs, NEW kp, Moves(p, kp)
    PROVE  /\ reading' = [reading EXCEPT ![p] = Free]
           /\ call[p].op = "write" => reading' = reading
           /\ call[p] # NoCall /\ call[p].fd \in Fds
           /\ state[p] = "TERMINATED" => call[p].sem = Free
<1>1. MayGoOn(p) /\ Goes(p) /\ call[p] # NoCall
  BY DEF Moves
<1>2. call[p].fd \in Fds /\ (state[p] = "TERMINATED" => call[p].sem = Free)
  BY <1>1, MoverIs DEF PTypeOK
<1>3. Woke(state, state')
  BY MovesWakes
<1>4. \A q \in Procs \ {p} : SameWait(q)
  BY <1>1, <1>3, WokenWaits DEF Goes, SameWait
<1>5. Waiting(call'[p], state'[p]) = Free
  BY <1>1 DEF Goes, Waiting
<1>6. reading' = [reading EXCEPT ![p] = Free]
  BY <1>4, <1>5, ReadingBecomes
<1>7. ASSUME call[p].op = "write" PROVE reading' = reading
  <2>1. Waiting(call[p], state[p]) = Free
    BY <1>7 DEF Waiting
  <2>2. QED BY <1>4, <1>5, <2>1, ReadingSame
<1>8. QED BY <1>1, <1>2, <1>6, <1>7

LEMMA TakesSteps ==
    ASSUME PTypeOK, CallsOK, OwnersOK, CalmOK, NEW p \in Procs, Takes(p)
    PROVE  Channel!Next \/ ReadsMadeUp
<1>1. PICK f \in Fds : f = call[p].fd
  BY DEF PTypeOK
<1>2. /\ call[p].op = "read" /\ Moves(p, write_sem[f])
      /\ moved' = [by |-> "process", byte |-> buffer[f][read_pos[f]]]
      /\ read_pos' = [read_pos EXCEPT ![f] = (@ + 1) % BufferSize]
      /\ UNCHANGED <<buffer, write_pos>>
  BY <1>1, TakesIs
<1>3. CutOK(p) /\ UnitsOK(f)
  BY DEF CalmOK
<1>4. UNCHANGED <<used, read_sem, write_sem>>
  BY <1>2 DEF Moves
<1>5. /\ reading' = [reading EXCEPT ![p] = Free] /\ call[p] # NoCall
      /\ state[p] = "TERMINATED" => call[p].sem = Free
  BY <1>2, GoesLeaves
<1>6. Open0' = Open0
  BY <1>4 DEF Open0
<1>7. read_pos \in [Fds -> Places]
  BY DEF PTypeOK
<1>8. read_sem[f] # write_sem[f] \/ ~used[f]
  BY DEF OwnersOK
<1>9. CASE used[f]
  <2>1. PICK rs \in Sems, ws \in Sems : rs = read_sem[f] /\ ws = write_sem[f] /\ rs # ws
    BY <1>9 DEF OwnersOK
  <2>2. /\ units[rs] \in Nat /\ units[rs] >= 1 /\ units'[rs] = units[rs] - 1
        /\ \A k \in Sems \ {rs, ws} : units'[k] = units[k]
    BY <1>1, <1>2, <1>3, <1>9, <2>1, MovesUnitsOf
  <2>3. PICK n \in Places, r \in Places, bf \in [Places -> Bytes] :
           n = units[rs] /\ r = read_pos[f] /\ bf = buffer[f]
    BY <1>3, <1>9, <2>1, LengthIs
  <2>4. content[f] = Held(n, r, bf) /\ content[f] \in Seq(Bytes) /\ content[f] # <<>>
    BY <1>3, <1>9, <2>1, <2>2, <2>3, LengthIs
  <2>5. content'[f] = Held(n - 1, (r + 1) % BufferSize, bf)
    BY <1>2, <1>4, <1>7, <1>9, <2>1, <2>2, <2>3, ContentIs
  <2>6. n >= 1
    BY <2>2, <2>3
  <2>7. Head(content[f]) = bf[r] /\ content'[f] = Tail(content[f])
    BY <2>4, <2>5, <2>6, HeldTail
  <2>8. \A g \in Fds \ {f} : Kept(g)
    <3> TAKE g \in Fds \ {f}
    <3>1. used[g] => read_sem[g] \in Sems \ {rs, ws}
      BY <1>9, <2>1 DEF OwnersOK
    <3>2. QED BY <1>2, <1>4, <1>7, <2>2, <3>1 DEF Kept
  <2>9. content' = [content EXCEPT ![f] = Tail(content[f])]
    BY <2>7, <2>8, ContentBecomes
  <2>10. reading[p] \in {Free, f}
    BY <1>1, ReadingIs DEF Waiting
  <2>11. f \in Open0
    BY <1>9 DEF Open0
  <2>12. Channel!Get(p, f)
    BY <1>2, <1>5, <1>6, <2>3, <2>4, <2>7, <2>9, <2>10, <2>11
       DEF Channel!Get, Channel!IsOpen, Channel!Leaves
  <2>13. QED BY <2>12 DEF Channel!Next
<1>10. CASE ~used[f]
  <2>1. units' = units
    <3>1. PICK rs, ws : rs = read_sem[f] /\ ws = write_sem[f]
      OBVIOUS
    <3>2. /\ IsFree(rs) /\ IsFree(ws) /\ SemFor(p) \in {rs, call[p].sem} /\ IsFree(call[p].sem)
      BY <1>1, <1>2, <1>3, <1>5, <1>10, <3>1 DEF CutOK, SemFor
    <3>3. /\ SemFor(p) \in Sems \cup {Free} /\ ws \in Sems \cup {Free}
          /\ Posted(ws, Taken(SemFor(p)), state) /\ IsFree(SemFor(p))
      BY <1>2, <3>1, <3>2 DEF Moves
    <3>4. state \in [Procs -> States]
      BY DEF PTypeOK, States
    <3>5. QED BY <3>2, <3>3, <3>4, PassNothing
  <2>2. \A g \in Fds : Kept(g)
    <3> TAKE g \in Fds
    <3>1. CASE g = f
      BY <1>4, <1>10, <3>1 DEF Kept
    <3>2. CASE g # f
      BY <1>2, <1>4, <1>7, <2>1, <3>2 DEF Kept
    <3>3. QED BY <3>1, <3>2
  <2>3. content' = content
    BY <2>2, ContentSame
  <2>4. call[p].sem # Free
    BY <1>1, <1>2, <1>10 DEF Moves, Refused
  <2>5. reading[p] = f
    BY <1>1, <1>2, <1>5, <2>4, ReadingIs DEF Waiting
  <2>6. f # Free /\ f \notin Open0
    BY <1>10, Known DEF Open0
  <2>7. moved'.by = "process"
    BY <1>2
  <2>8. QED BY <1>5, <1>6, <2>3, <2>5, <2>6, <2>7 DEF ReadsMadeUp
<1>11. QED BY <1>9, <1>10

LEMMA GivesSteps ==
    ASSUME PTypeOK, CallsOK, OwnersOK, CalmOK, NEW p \in Procs, Gives(p)
    PROVE  Channel!Next \/ WritesInput \/ UNCHANGED Seen
<1>1. PICK f \in Fds : f = call[p].fd
  BY DEF PTypeOK
<1>2. PICK b \in Bytes : b = Head(call[p].todo)
  BY GivesIs
<1>3. /\ call[p].op = "write" /\ Moves(p, read_sem[f]) /\ Puts(f, b, "process") /\ UNCHANGED read_pos
  BY <1>1, <1>2, GivesIs
<1>4. CutOK(p) /\ UnitsOK(f)
  BY DEF CalmOK
<1>5. UNCHANGED <<used, read_sem, write_sem>>
  BY <1>3 DEF Moves
<1>6. reading' = reading /\ call[p] # NoCall
  BY <1>3, GoesLeaves
<1>7. Open0' = Open0
  BY <1>5 DEF Open0
<1>8. \A g \in Fds \ {f} : buffer'[g] = buffer[g]
  BY <1>3 DEF Puts, PTypeOK
<1>9. CASE used[f]
  <2>1. PICK rs \in Sems, ws \in Sems : rs = read_sem[f] /\ ws = write_sem[f] /\ rs # ws
    BY <1>9 DEF OwnersOK
  <2>2. /\ units[ws] >= 1 /\ units'[rs] = units[rs] + 1
        /\ \A k \in Sems \ {ws, rs} : units'[k] = units[k]
    BY <1>1, <1>3, <1>4, <1>9, <2>1, MovesUnitsOf
  <2>3. PutContent(f, b)
    BY <1>3, <1>4, <1>5, <1>9, <2>1, <2>2, AfterPut
  <2>4. \A g \in Fds \ {f} : Kept(g)
    <3> TAKE g \in Fds \ {f}
    <3>1. used[g] => read_sem[g] \in Sems \ {ws, rs}
      BY <1>9, <2>1 DEF OwnersOK
    <3>2. QED BY <1>3, <1>5, <1>8, <2>2, <3>1 DEF Kept
  <2>5. content' = [content EXCEPT ![f] = Append(content[f], b)]
    BY <2>3, <2>4, ContentBecomes DEF PutContent
  <2>6. moved' = [by |-> "process", byte |-> b] /\ f \in Open0
    BY <1>3, <1>9 DEF Puts, Open0
  <2>7. Channel!Adds(f, b, "process")
    BY <1>7, <2>3, <2>5, <2>6 DEF Channel!Adds, Channel!IsOpen, PutContent
  <2>8. CASE f = STDIN
    BY <1>6, <2>7, <2>8 DEF WritesInput
  <2>9. CASE f # STDIN
    <3>1. Channel!Put(f, b)
      BY <1>6, <2>7, <2>9 DEF Channel!Put
    <3>2. QED BY <3>1 DEF Channel!Next
  <2>10. QED BY <2>8, <2>9
<1>10. CASE ~used[f]
  <2>1. units' = units
    <3>1. PICK rs, ws : rs = read_sem[f] /\ ws = write_sem[f]
      OBVIOUS
    <3>2. /\ IsFree(rs) /\ IsFree(ws) /\ SemFor(p) \in {ws, call[p].sem} /\ IsFree(call[p].sem)
      BY <1>1, <1>3, <1>4, <1>6, <1>10, <3>1 DEF CutOK, SemFor
    <3>3. /\ SemFor(p) \in Sems \cup {Free} /\ rs \in Sems \cup {Free}
          /\ Posted(rs, Taken(SemFor(p)), state) /\ IsFree(SemFor(p))
      BY <1>3, <3>1, <3>2 DEF Moves
    <3>4. state \in [Procs -> States]
      BY DEF PTypeOK, States
    <3>5. QED BY <3>2, <3>3, <3>4, PassNothing
  <2>2. \A g \in Fds : Kept(g)
    BY <1>3, <1>5, <1>8, <1>10, <2>1 DEF Kept
  <2>3. moved' = moved
    BY <1>3, <1>10 DEF Puts
  <2>4. QED BY <1>5, <1>6, <2>2, <2>3, Stutters
<1>11. QED BY <1>9, <1>10

LEMMA ChannelStep ==
    ASSUME PTypeOK, CallsOK, FrontOK, OwnersOK, calm => CalmOK, PStep, calm'
    PROVE  Promised \/ UNCHANGED Seen
<1> DEFINE Goal == Promised \/ UNCHANGED Seen
<1>0. calm /\ CalmOK /\ call \in [Procs -> Calls] /\ state \in [Procs -> States]
  <2>1. calm
    BY CalmStep
  <2>2. QED BY <2>1 DEF PTypeOK, Calls, States
<1>1. ASSUME NEW p \in Procs, Open(p) PROVE Goal
  BY <1>1, OpenSteps DEF Promised
<1>2. ASSUME NEW p \in Procs, Exit(p) PROVE Goal
  <2>1. /\ (Ends(p) /\ state' = Dead(p)) \/ UNCHANGED <<state, call>>
        /\ UNCHANGED <<used, buffer, read_pos, read_sem, units, moved>> /\ call[p] = NoCall
    BY <1>2, OutsideIs DEF Exit, pipes, procs
  <2>2. CASE Ends(p) /\ state' = Dead(p)
    <3>1. Woke(Dead(p), state')
      BY <2>2 DEF Woke
    <3>2. reading' = reading
      BY <2>1, <2>2, <3>1, EndLeaves
    <3>3. QED BY <2>1, <3>2, Stutters DEF Kept
  <2>3. CASE UNCHANGED <<state, call>>
    <3>1. reading' = reading
      BY <2>3, ReadingSame DEF SameWait
    <3>2. QED BY <2>1, <3>1, Stutters DEF Kept
  <2>4. QED BY <2>1, <2>2, <2>3
<1>3. ASSUME NEW p \in Procs, GivesUp(p) PROVE Goal
  <2>1. /\ call' = [call EXCEPT ![p] = NoCall] /\ call[p].sem = Free
        /\ UNCHANGED <<used, buffer, read_pos, read_sem, units, moved, state>>
    BY <1>3 DEF GivesUp, procs, pipes, Refused
  <2>2. \A q \in Procs : Waiting(call[q], state[q]) = Waiting(call'[q], state'[q])
    BY <1>0, <2>1 DEF Waiting
  <2>3. reading' = reading
    BY <2>2, ReadingSame
  <2>4. QED BY <2>1, <2>3, Stutters DEF Kept
<1>4. ASSUME NEW p \in Procs, Blocks(p) PROVE Goal
  BY <1>0, <1>4, BlocksSteps DEF Promised
<1>5. ASSUME NEW p \in Procs, Takes(p) PROVE Goal
  BY <1>0, <1>5, TakesSteps DEF Promised
<1>6. ASSUME NEW p \in Procs, Gives(p) PROVE Goal
  BY <1>0, <1>6, GivesSteps DEF Promised
<1>7. ASSUME NEW p \in Procs, NEW f \in Fds, Close(p, f) PROVE Goal
  BY <1>7, CloseSteps DEF Promised
<1>8. ASSUME NEW p \in Procs, NEW f \in Fds, NEW op \in {"read", "write"}, NEW todo \in Seq(Bytes),
             Entering(p, op, f, todo)
      PROVE  Goal
  <2>1. /\ call' = [call EXCEPT ![p] = [op |-> op, fd |-> f, sem |-> Free, todo |-> todo]]
        /\ call[p] = NoCall
        /\ UNCHANGED <<used, buffer, read_pos, read_sem, units, moved, state>>
    BY <1>8 DEF Entering, Enters, Outside, procs, pipes
  <2>2. \A q \in Procs : Waiting(call[q], state[q]) = Waiting(call'[q], state'[q])
    BY <1>0, <2>1 DEF Waiting
  <2>3. reading' = reading
    BY <2>2, ReadingSame
  <2>4. QED BY <2>1, <2>3, Stutters DEF Kept
<1>9. ASSUME NEW p \in Procs, NEW q \in Procs, Kill(p, q) PROVE Goal
  <2>1. /\ Ends(q) /\ state' = Dead(q)
        /\ UNCHANGED <<used, buffer, read_pos, read_sem, units, moved>>
    BY <1>9 DEF Kill, pipes
  <2>2. Woke(Dead(q), state')
    BY <2>1 DEF Woke
  <2>3. reading' = [reading EXCEPT ![q] = Free]
    BY <2>1, <2>2, EndLeaves
  <2>4. content' = content
    BY <2>1, ContentSame DEF Kept
  <2>5. Open0' = Open0
    BY <2>1 DEF Open0
  <2>6. Channel!Leave(q)
    BY <2>1, <2>3, <2>4, <2>5 DEF Channel!Leave, Channel!Leaves
  <2>7. QED BY <2>6 DEF Channel!Next, Promised
<1>10. ASSUME NEW q \in Procs, NEW asked \in BOOLEAN, Start(q, asked) PROVE Goal
  <2>1. /\ state[Shell] = "READY" /\ state[q] = "NEW"
        /\ state'[q] # "TERMINATED" /\ state'[Shell] # "TERMINATED"
        /\ \A p \in Procs \ {q, Shell} : state'[p] = state[p]
        /\ UNCHANGED <<used, buffer, read_pos, read_sem, units, moved, call>>
    BY <1>10, StartIs DEF pipes
  <2>2. \A p \in Procs : SameWait(p)
    BY <2>1 DEF SameWait
  <2>3. reading' = reading
    BY <2>2, ReadingSame
  <2>4. QED BY <2>1, <2>3, Stutters DEF Kept
<1>11. ASSUME NEW b \in Bytes, Typing(b) PROVE Goal
  <2>1. /\ Typed(b, state) /\ UNCHANGED <<call, used, read_pos, read_sem, write_sem>>
    BY <1>11 DEF Typing
  <2>2. Woke(state, state')
    BY <1>0, <2>1, TypedWakes
  <2>3. reading' = reading
    BY <2>1, <2>2, WokenWaits, ReadingSame DEF SameWait
  <2>4. /\ Open0' = Open0
        /\ \/ content' = content /\ moved' = moved
           \/ Channel!Adds(STDIN, b, "keyboard")
    BY <1>0, <2>1, TypedPuts
  <2>5. CASE content' = content /\ moved' = moved
    BY <2>3, <2>4, <2>5 DEF Seen
  <2>6. CASE Channel!Adds(STDIN, b, "keyboard")
    <3>1. Channel!Type(b)
      BY <2>3, <2>6 DEF Channel!Type
    <3>2. QED BY <3>1 DEF Channel!Next, Promised
  <2>7. QED BY <2>4, <2>5, <2>6
<1>12. ASSUME Interrupting PROVE Goal
  <2>1. PICK q \in Procs : q = front
    BY DEF PTypeOK
  <2>2. /\ Ends(q) /\ Typed(Interrupt, Dead(q)) /\ Interrupt \in Bytes
        /\ UNCHANGED <<used, read_pos, read_sem, write_sem>>
    BY <1>12, <2>1 DEF Interrupting
  <2>3. Dead(q) \in [Procs -> States]
    BY <2>2, DeadIs
  <2>4. Woke(Dead(q), state')
    BY <2>2, <2>3, TypedWakes
  <2>5. reading' = [reading EXCEPT ![q] = Free]
    BY <2>2, <2>4, EndLeaves
  <2>6. /\ Open0' = Open0
        /\ \/ content' = content /\ moved' = moved
           \/ Channel!Adds(STDIN, Interrupt, "keyboard")
    BY <1>0, <2>2, <2>3, TypedPuts
  <2>7. CASE content' = content /\ moved' = moved
    <3>1. Channel!Leave(q)
      BY <2>5, <2>6, <2>7 DEF Channel!Leave, Channel!Leaves
    <3>2. QED BY <3>1 DEF Channel!Next, Promised
  <2>8. CASE Channel!Adds(STDIN, Interrupt, "keyboard")
    <3>1. Channel!Type(Interrupt)
      BY <2>5, <2>8 DEF Channel!Type, Channel!Leaves
    <3>2. QED BY <2>2, <3>1 DEF Channel!Next, Promised
  <2>9. QED BY <2>6, <2>7, <2>8
<1>13. ASSUME Tick PROVE Goal
  <2>1. UNCHANGED <<used, buffer, read_pos, read_sem, units, moved, state, call>>
    BY <1>13 DEF Tick, procs, pipes
  <2>2. reading' = reading
    BY <2>1, ReadingSame DEF SameWait
  <2>3. QED BY <2>1, <2>2, Stutters DEF Kept
<1>14. QED BY <1>1, <1>2, <1>3, <1>4, <1>5, <1>6, <1>7, <1>8, <1>9, <1>10, <1>11, <1>12, <1>13 DEF PStep

LEMMA DeliversStep ==
    PInv /\ [PStep]_pvars =>
        [calm' /\ Touched => Channel!Next \/ WritesInput \/ ReadsMadeUp]_<<Open0, content, moved, reading>>
<1>1. ASSUME PInv, PStep, calm' PROVE Promised \/ UNCHANGED Seen
  BY <1>1, ChannelStep DEF PInv, CalmOK
<1>2. ASSUME UNCHANGED pvars PROVE UNCHANGED Seen
  <2>1. UNCHANGED <<used, buffer, read_pos, read_sem, units, moved, state, call>>
    BY <1>2 DEF pvars, pipes, procs
  <2>2. \A p \in Procs : SameWait(p)
    BY <2>1 DEF SameWait
  <2>3. reading' = reading
    BY <2>2, ReadingSame
  <2>4. QED BY <2>1, <2>3, Stutters DEF Kept
<1>3. QED BY <1>1, <1>2 DEF Seen, Promised

(* Through everything a pipe is a bounded queue of bytes, but for what a process
   writes to standard input and what a read gets that a close cut off. *)
THEOREM PipesDeliver == Spec => Delivers
<1>1. TInv /\ [Next]_vars =>
        [calm' /\ Touched => Channel!Next \/ WritesInput \/ ReadsMadeUp]_<<Open0, content, moved, reading>>
  <2>1. TInv /\ Next => [PStep]_pvars
    BY NextSteps DEF TInv
  <2>2. UNCHANGED vars => UNCHANGED pvars
    BY DEF vars
  <2>3. QED BY <2>1, <2>2, DeliversStep DEF TInv
<1>2. QED BY <1>1, TInvInductive, PTL DEF Spec, Delivers
=============================================================================
