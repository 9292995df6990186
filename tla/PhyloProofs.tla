----------------------------- MODULE PhyloProofs -----------------------------
(***************************************************************************)
(* For any number of philosophers, and whoever is added and removed: as    *)
(* long as remove_all_philosophers passes nobody over, neighbours exclude  *)
(* each other, the hungry have a reason, and nobody stays behind.  The     *)
(* types hold whatever happens; and while nobody was passed over, stranded *)
(* or hindered, somebody can always go on (second half).                   *)
(***************************************************************************)
EXTENDS Phylo, TLAPS

(* The neighbours at a table of n, without %. *)
Right(x, n) == IF x + 1 = n THEN 0 ELSE x + 1
Left(x, n)  == IF x = 0 THEN n - 1 ELSE x - 1

PStates == {"NONE", "THINKING", "HUNGRY", "EATING"}

Excluded(st, n) == \A x \in 0 .. n - 1 :
    Right(x, n) # x => ~(st[x] = "EATING" /\ st[Right(x, n)] = "EATING")
Reasoned(st, n) == \A x \in 0 .. n - 1 :
    st[x] = "HUNGRY" => st[Left(x, n)] = "EATING" \/ st[Right(x, n)] = "EATING"

Types ==
    /\ philosopher_states \in [Philosophers -> PStates]
    /\ philosopher_count \in 0 .. MAX_PHILOSOPHERS
    /\ pc \in [Philosophers -> {"none", "new", "think", "pick", "await", "eat", "put"}]
    /\ value \in [Sems -> Int]
    /\ idx \in Int

(* Where a philosopher is, what its state says, and who may pass its semaphore:
   only one that eats and does not know it yet. *)
StateIsPlace(i) ==
    /\ pc[i] = "none" <=> i >= philosopher_count
    /\ philosopher_states[i] = "NONE" <=> pc[i] \in {"none", "new"}
    /\ pc[i] \in {"think", "pick"} => philosopher_states[i] = "THINKING"
    /\ pc[i] = "await" => philosopher_states[i] \in {"HUNGRY", "EATING"}
    /\ pc[i] \in {"eat", "put"} => philosopher_states[i] = "EATING"
SemIsTold(i) ==
    i < philosopher_count =>
        /\ value[i] \in {0, 1}
        /\ value[i] = 1 => pc[i] = "await" /\ philosopher_states[i] = "EATING"

(* The host adds at the end of the table and removes there. *)
HostAtTheEnd ==
    /\ at \in {"lock", "inside", "read", "wait", "next", "gone"}
    /\ job \in {"start", "add", "remove", "leave"}
    /\ at \in {"next", "gone"} => job = "leave"
    /\ at = "wait" => job \in {"remove", "leave"}
    /\ at # "read" /\ job \in {"start", "add"} =>
         idx = philosopher_count /\ idx < MAX_PHILOSOPHERS
    /\ job = "start" /\ at # "read" => idx < MIN_PHILOSOPHERS
    /\ at # "read" /\ job \in {"remove", "leave"} => idx = philosopher_count - 1
    /\ at \in {"lock", "inside", "wait"} => idx >= 0
    /\ at = "gone" => idx < 0

Inv ==
    /\ Types
    /\ \A i \in Philosophers : StateIsPlace(i) /\ SemIsTold(i)
    /\ HostAtTheEnd
    /\ Excluded(philosopher_states, philosopher_count)
    /\ fed => Reasoned(philosopher_states, philosopher_count)

IInv == orderly => Inv

-----------------------------------------------------------------------------
LEMMA Sizes ==
    /\ MIN_PHILOSOPHERS \in Nat \ {0} /\ MAX_PHILOSOPHERS \in Nat
    /\ MIN_PHILOSOPHERS <= MAX_PHILOSOPHERS
    /\ Table \notin Philosophers /\ Table \in Sems
    /\ Philosophers \subseteq Sems
  BY PhyloOK DEF PhyloOK, Philosophers, Sems

LEMMA ModStep ==
    \A n \in Nat \ {0} : \A x \in 0 .. 2 * n - 1 : x % n = IF x < n THEN x ELSE x - n
  OBVIOUS

LEMMA Around ==
    ASSUME NEW n \in Nat \ {0}, NEW x \in 0 .. n - 1
    PROVE  (x + 1) % n = Right(x, n) /\ (x + n - 1) % n = Left(x, n)
<1>1. \A y \in 0 .. 2 * n - 1 : y % n = IF y < n THEN y ELSE y - n
  BY ModStep
<1>2. x + 1 \in 0 .. 2 * n - 1 /\ x + n - 1 \in 0 .. 2 * n - 1
  OBVIOUS
<1>3. (x + 1) % n = IF x + 1 < n THEN x + 1 ELSE x + 1 - n
  BY <1>1, <1>2
<1>4. (x + n - 1) % n = IF x + n - 1 < n THEN x + n - 1 ELSE x + n - 1 - n
  BY <1>1, <1>2
<1>5. QED BY <1>3, <1>4 DEF Right, Left

(* RIGHT_OF and LEFT_OF for those who sit at the table. *)
LEMMA Neighbours ==
    ASSUME Types, NEW x \in Philosophers, x < philosopher_count
    PROVE  /\ RIGHT_OF(x) = Right(x, philosopher_count)
           /\ LEFT_OF(x) = Left(x, philosopher_count)
           /\ philosopher_count \in Nat \ {0} /\ x \in 0 .. philosopher_count - 1
<1>1. philosopher_count \in Nat \ {0} /\ x \in 0 .. philosopher_count - 1
  BY Sizes DEF Types, Philosophers
<1>2. QED BY <1>1, Around DEF RIGHT_OF, LEFT_OF

LEMMA Round ==
    ASSUME NEW n \in Nat \ {0}, NEW x \in 0 .. n - 1
    PROVE  /\ Right(x, n) \in 0 .. n - 1 /\ Left(x, n) \in 0 .. n - 1
           /\ Right(Left(x, n), n) = x /\ Left(Right(x, n), n) = x
  BY DEF Right, Left

(* Who begins to eat while neither neighbour does keeps the exclusion; who does
   anything else keeps it anyway. *)
LEMMA SeatKeeps ==
    ASSUME NEW n \in Nat \ {0}, n <= MAX_PHILOSOPHERS, NEW st \in [Philosophers -> PStates],
           Excluded(st, n), NEW x \in 0 .. n - 1,
           st[Left(x, n)] # "EATING", st[Right(x, n)] # "EATING"
    PROVE  Excluded([st EXCEPT ![x] = "EATING"], n)
<1> DEFINE s == [st EXCEPT ![x] = "EATING"]
<1> SUFFICES ASSUME NEW y \in 0 .. n - 1, Right(y, n) # y, s[y] = "EATING", s[Right(y, n)] = "EATING"
             PROVE  FALSE
  BY DEF Excluded
<1>1. \A z \in 0 .. n - 1 : z \in Philosophers /\ s[z] = IF z = x THEN "EATING" ELSE st[z]
  BY Sizes DEF Philosophers
<1>2. Right(y, n) \in 0 .. n - 1 /\ Left(Right(y, n), n) = y
  BY Round
<1>3. CASE y = x
  BY <1>1, <1>2, <1>3
<1>4. CASE Right(y, n) = x
  BY <1>1, <1>2, <1>4
<1>5. CASE y # x /\ Right(y, n) # x
  BY <1>1, <1>2, <1>5 DEF Excluded
<1>6. QED BY <1>3, <1>4, <1>5

LEMMA RisesKeeps ==
    ASSUME NEW n \in Nat \ {0}, n <= MAX_PHILOSOPHERS, NEW st \in [Philosophers -> PStates],
           Excluded(st, n), NEW x \in 0 .. n - 1, NEW v \in PStates, v # "EATING"
    PROVE  Excluded([st EXCEPT ![x] = v], n)
<1>1. \A z \in 0 .. n - 1 : z \in Philosophers /\ [st EXCEPT ![x] = v][z] = IF z = x THEN v ELSE st[z]
  BY Sizes DEF Philosophers
<1>2. \A z \in 0 .. n - 1 : Right(z, n) \in 0 .. n - 1
  BY Round
<1>3. QED BY <1>1, <1>2 DEF Excluded

-----------------------------------------------------------------------------
LEMMA Initially == Init => Inv
<1> SUFFICES ASSUME Init PROVE Inv
  OBVIOUS
<1>1. Types
  BY Sizes DEF Init, Types, PStates, Closed
<1>2. \A i \in Philosophers : StateIsPlace(i) /\ SemIsTold(i)
  BY Sizes DEF Init, StateIsPlace, SemIsTold, Philosophers
<1>3. HostAtTheEnd
  BY Sizes DEF Init, HostAtTheEnd
<1>4. Excluded(philosopher_states, philosopher_count) /\ Reasoned(philosopher_states, philosopher_count)
  BY DEF Init, Excluded, Reasoned
<1>5. QED BY <1>1, <1>2, <1>3, <1>4 DEF Inv

(* The philosophers. *)
LEMMA BeginKeeps == ASSUME Inv, NEW i \in Philosophers, Begin(i) PROVE Inv'
<1>1. /\ pc[i] = "new" /\ i < philosopher_count
      /\ philosopher_states[i] = "NONE" /\ philosopher_count \in Nat
  BY Sizes DEF Inv, Begin, StateIsPlace, Types, Philosophers
<1>2. Types' /\ HostAtTheEnd'
  BY DEF Inv, Begin, Types, HostAtTheEnd, host, sems, PStates
<1>3. ASSUME NEW j \in Philosophers PROVE StateIsPlace(j)' /\ SemIsTold(j)'
  BY <1>1 DEF Inv, Begin, Types, StateIsPlace, SemIsTold, host, sems, PStates
<1>4. philosopher_count \in Nat \ {0} /\ philosopher_count <= MAX_PHILOSOPHERS /\ i \in 0 .. philosopher_count - 1
  BY <1>1, Sizes DEF Inv, Types, Philosophers
<1>5. Excluded(philosopher_states, philosopher_count)'
  BY <1>4, RisesKeeps DEF Inv, Begin, Types, PStates
<1>6. (fed => Reasoned(philosopher_states, philosopher_count))'
  <2>1. \A z \in 0 .. philosopher_count - 1 :
          /\ z \in Philosophers
          /\ philosopher_states'[z] = IF z = i THEN "THINKING" ELSE philosopher_states[z]
    BY <1>4, Sizes DEF Philosophers, Begin, Inv, Types
  <2>2. \A z \in 0 .. philosopher_count - 1 :
          Right(z, philosopher_count) \in 0 .. philosopher_count - 1 /\ Left(z, philosopher_count) \in 0 .. philosopher_count - 1
    BY <1>4, Round
  <2>3. QED BY <1>1, <2>1, <2>2 DEF Inv, Begin, Reasoned, ghosts
<1>7. QED BY <1>2, <1>3, <1>5, <1>6 DEF Inv

LEMMA SitsKeeps == ASSUME Inv, NEW i \in Philosophers, Sits(i) PROVE Inv'
<1>1. /\ pc[i] \in {"think", "eat", "await"} /\ Passes(i, WaitsFor(i))
      /\ pc' = [pc EXCEPT ![i] = CASE @ = "think" -> "pick" [] @ = "eat" -> "put" [] @ = "await" -> "eat"]
      /\ UNCHANGED <<philosopher_states, philosopher_count, host, ghosts>>
  BY DEF Sits
<1>2. WaitsFor(i) = IF pc[i] = "await" THEN i ELSE Table
  BY <1>1 DEF WaitsFor
<1>3. WaitsFor(i) \in Sems
  BY <1>2, Sizes
<1>4. /\ value[WaitsFor(i)] # 0
      /\ \A k \in Sems : value'[k] = IF k = WaitsFor(i) /\ value[k] # Closed THEN value[k] - 1 ELSE value[k]
      /\ value' \in [Sems -> Int]
  BY <1>1, <1>3 DEF Passes, Inv, Types, Closed
<1>5. pc'[i] = (IF pc[i] = "think" THEN "pick" ELSE IF pc[i] = "eat" THEN "put" ELSE "eat")
  BY <1>1 DEF Inv, Types
<1>6. \A j \in Philosophers : j # i => pc'[j] = pc[j]
  BY <1>1 DEF Inv, Types
<1>7. pc' \in [Philosophers -> {"none", "new", "think", "pick", "await", "eat", "put"}]
  BY <1>1, <1>5, <1>6 DEF Inv, Types
<1>8. i < philosopher_count
  BY <1>1, Sizes DEF Inv, StateIsPlace, Types, Philosophers
<1>9. StateIsPlace(i)' /\ SemIsTold(i)'
  <2>1. CASE pc[i] = "await"
    BY <1>1, <1>2, <1>3, <1>4, <1>5, <1>8, <2>1 DEF Inv, StateIsPlace, SemIsTold, Closed
  <2>2. CASE pc[i] # "await"
    <3>1. value'[i] = value[i]
      BY <1>2, <1>4, <2>2, Sizes
    <3>2. QED BY <1>1, <1>5, <1>8, <2>2, <3>1 DEF Inv, StateIsPlace, SemIsTold
  <2>3. QED BY <2>1, <2>2
<1>10. ASSUME NEW j \in Philosophers, j # i PROVE StateIsPlace(j)' /\ SemIsTold(j)'
  <2>1. value'[j] = value[j]
    BY <1>2, <1>4, <1>10, Sizes
  <2>2. QED BY <1>1, <1>6, <1>10, <2>1 DEF Inv, StateIsPlace, SemIsTold
<1>11. Types' /\ HostAtTheEnd'
  BY <1>1, <1>4, <1>7 DEF Inv, Types, HostAtTheEnd, host
<1>12. QED BY <1>1, <1>9, <1>10, <1>11 DEF Inv, Excluded, Reasoned, ghosts

LEMMA QueuesKeeps == ASSUME Inv, NEW i \in Philosophers, Queues(i) PROVE Inv'
  BY DEF Inv, Queues, Blocks, table, host, ghosts, Types, StateIsPlace, SemIsTold, HostAtTheEnd, Excluded, Reasoned

LEMMA PickUpKeeps == ASSUME Inv, NEW i \in Philosophers, PickUp(i) PROVE Inv'
<1> DEFINE n == philosopher_count
<1> DEFINE st == philosopher_states
<1>1. /\ pc[i] = "pick"
      /\ philosopher_states' = [philosopher_states EXCEPT ![i] = IF MayEat(i) THEN "EATING" ELSE "HUNGRY"]
      /\ Post(IF MayEat(i) THEN {i, Table} ELSE {Table})
      /\ pc' = [pc EXCEPT ![i] = "await"]
      /\ UNCHANGED <<philosopher_count, host, ghosts>>
  BY DEF PickUp
<1>2. i < n /\ st[i] = "THINKING" /\ value[i] = 0
  BY <1>1, Sizes DEF Inv, StateIsPlace, SemIsTold, Types, Philosophers
<1>3. /\ RIGHT_OF(i) = Right(i, n) /\ LEFT_OF(i) = Left(i, n)
      /\ n \in Nat \ {0} /\ i \in 0 .. n - 1 /\ n <= MAX_PHILOSOPHERS
  BY <1>2, Neighbours, Sizes DEF Inv, Types
<1>4. /\ value' \in [Sems -> Int]
      /\ \A k \in Sems : value'[k] = IF k \in (IF MayEat(i) THEN {i, Table} ELSE {Table}) /\ value[k] # Closed
                                     THEN value[k] + 1 ELSE value[k]
  BY <1>1 DEF Post, PostedTo, Inv, Types
<1>5. Types' /\ HostAtTheEnd'
  BY <1>1, <1>4 DEF Inv, Types, HostAtTheEnd, host, PStates
<1>6. \A z \in Philosophers : st'[z] = IF z = i THEN (IF MayEat(i) THEN "EATING" ELSE "HUNGRY") ELSE st[z]
  BY <1>1 DEF Inv, Types
<1>7. \A z \in Philosophers : pc'[z] = IF z = i THEN "await" ELSE pc[z]
  BY <1>1 DEF Inv, Types
<1>8. ASSUME NEW j \in Philosophers PROVE StateIsPlace(j)' /\ SemIsTold(j)'
  <2>1. CASE j = i
    <3>1. value'[i] = IF MayEat(i) THEN 1 ELSE 0
      BY <1>2, <1>4, Sizes DEF Closed
    <3>2. QED BY <1>1, <1>2, <1>3, <1>6, <1>7, <2>1, <3>1 DEF StateIsPlace, SemIsTold
  <2>2. CASE j # i
    <3>1. value'[j] = value[j]
      BY <1>4, <2>2, Sizes
    <3>2. QED BY <1>1, <1>6, <1>7, <2>2, <3>1 DEF Inv, StateIsPlace, SemIsTold
  <2>3. QED BY <2>1, <2>2
<1>9. \A z \in 0 .. n - 1 : z \in Philosophers /\ Right(z, n) \in 0 .. n - 1 /\ Left(z, n) \in 0 .. n - 1
  BY <1>3, Round, Sizes DEF Philosophers
<1>10. Excluded(st, n)'
  <2>1. CASE MayEat(i)
    BY <1>1, <1>3, <2>1, SeatKeeps DEF MayEat, Inv, Types
  <2>2. CASE ~MayEat(i)
    BY <1>1, <1>3, <2>2, RisesKeeps DEF Inv, Types, PStates
  <2>3. QED BY <2>1, <2>2
<1>11. (fed => Reasoned(st, n))'
  <2>1. ASSUME fed, NEW y \in 0 .. n - 1, st'[y] = "HUNGRY"
        PROVE  st'[Left(y, n)] = "EATING" \/ st'[Right(y, n)] = "EATING"
    <3>1. CASE y = i
      <4>1. st[Left(i, n)] = "EATING" \/ st[Right(i, n)] = "EATING"
        BY <1>3, <1>6, <2>1, <3>1 DEF MayEat
      <4>2. QED BY <1>2, <1>6, <1>9, <3>1, <4>1
    <3>2. CASE y # i
      <4>1. st[Left(y, n)] = "EATING" \/ st[Right(y, n)] = "EATING"
        BY <1>6, <1>9, <2>1, <3>2 DEF Inv, Reasoned
      <4>2. QED BY <1>2, <1>6, <1>9, <4>1
    <3>3. QED BY <3>1, <3>2
  <2>2. QED BY <1>1, <2>1 DEF Reasoned, ghosts
<1>12. QED BY <1>5, <1>8, <1>10, <1>11 DEF Inv

LEMMA PutDownKeeps == ASSUME Inv, NEW i \in Philosophers, PutDown(i) PROVE Inv'
<1> DEFINE n == philosopher_count
<1> DEFINE st == philosopher_states
<1> DEFINE l == Left(i, n)
<1> DEFINE r == Right(i, n)
<1> DEFINE s1 == [st EXCEPT ![i] = "THINKING"]
<1> DEFINE left == Starts(s1, l, Left(l, n))
<1> DEFINE s2 == IF left THEN [s1 EXCEPT ![l] = "EATING"] ELSE s1
<1> DEFINE right == Starts(s2, r, Right(r, n))
<1> DEFINE s3 == IF right THEN [s2 EXCEPT ![r] = "EATING"] ELSE s2
<1>1. pc[i] = "put" /\ pc' = [pc EXCEPT ![i] = "think"] /\ UNCHANGED <<philosopher_count, host, ghosts>>
  BY DEF PutDown
<1>2. i < n /\ st[i] = "EATING" /\ value[i] = 0
  BY <1>1, Sizes DEF Inv, StateIsPlace, SemIsTold, Types, Philosophers
<1>3. /\ RIGHT_OF(i) = r /\ LEFT_OF(i) = l
      /\ n \in Nat \ {0} /\ i \in 0 .. n - 1 /\ n <= MAX_PHILOSOPHERS
  BY <1>2, Neighbours, Sizes DEF Inv, Types
<1>4. \A z \in 0 .. n - 1 : /\ z \in Philosophers /\ z < n
                            /\ Right(z, n) \in 0 .. n - 1 /\ Left(z, n) \in 0 .. n - 1
                            /\ Right(Left(z, n), n) = z /\ Left(Right(z, n), n) = z
  BY <1>3, Round, Sizes DEF Philosophers
<1>5. LEFT_OF(l) = Left(l, n) /\ RIGHT_OF(r) = Right(r, n)
  BY <1>3, <1>4, Neighbours DEF Inv
<1>6. st' = s3 /\ Post({Table} \cup {x \in {l} : left} \cup {x \in {r} : right})
  BY <1>3, <1>5 DEF PutDown
<1>7. s1 \in [Philosophers -> PStates] /\ s2 \in [Philosophers -> PStates] /\ s3 \in [Philosophers -> PStates]
  BY DEF Inv, Types, PStates
<1>8. \A z \in Philosophers :
        /\ s1[z] = IF z = i THEN "THINKING" ELSE st[z]
        /\ s2[z] = IF left /\ z = l THEN "EATING" ELSE s1[z]
        /\ s3[z] = IF right /\ z = r THEN "EATING" ELSE s2[z]
  BY <1>7 DEF Inv, Types
<1>9. /\ l \in Philosophers /\ r \in Philosophers /\ i \in Philosophers
      /\ left <=> s1[l] = "HUNGRY" /\ s1[Left(l, n)] # "EATING"
      /\ right <=> s2[r] = "HUNGRY" /\ s2[Right(r, n)] # "EATING"
  BY <1>3, <1>4 DEF Starts
<1> HIDE DEF left, right, s1, s2, s3
<1>10. /\ left => l # i /\ st[l] = "HUNGRY"
       /\ right => r # i /\ st[r] = "HUNGRY"
       /\ s1[i] = "THINKING" /\ s2[i] = "THINKING" /\ s3[i] = "THINKING"
  BY <1>8, <1>9
<1>11. Excluded(s3, n)
  <2>1. Excluded(s1, n)
    BY <1>3, RisesKeeps DEF Inv, Types, PStates, s1
  <2>2. Excluded(s2, n)
    <3>1. CASE left
      <4>1. s1[Left(l, n)] # "EATING" /\ s1[Right(l, n)] # "EATING"
        BY <1>3, <1>4, <1>9, <1>10, <3>1
      <4>2. l \in 0 .. n - 1
        BY <1>3, <1>4
      <4>3. Excluded([s1 EXCEPT ![l] = "EATING"], n)
        BY <1>3, <1>7, <2>1, <4>1, <4>2, SeatKeeps
      <4>4. QED BY <3>1, <4>3 DEF s2
    <3>2. QED BY <2>1, <3>1 DEF s2
  <2>3. CASE right
    <3>1. s2[Right(r, n)] # "EATING" /\ s2[Left(r, n)] # "EATING"
      BY <1>3, <1>4, <1>9, <1>10, <2>3
    <3>2. r \in 0 .. n - 1
      BY <1>3, <1>4
    <3>3. Excluded([s2 EXCEPT ![r] = "EATING"], n)
      BY <1>3, <1>7, <2>2, <3>1, <3>2, SeatKeeps
    <3>4. QED BY <2>3, <3>3 DEF s3
  <2>4. QED BY <2>2, <2>3 DEF s3
<1>12. /\ value' \in [Sems -> Int]
       /\ \A k \in Sems : value'[k] = IF (k = Table \/ (left /\ k = l) \/ (right /\ k = r)) /\ value[k] # Closed
                                      THEN value[k] + 1 ELSE value[k]
  BY <1>6 DEF Post, PostedTo, Inv, Types
<1>13. Types' /\ HostAtTheEnd'
  BY <1>1, <1>6, <1>7, <1>12 DEF Inv, Types, HostAtTheEnd, host
<1>14. \A z \in Philosophers : pc'[z] = IF z = i THEN "think" ELSE pc[z]
  BY <1>1 DEF Inv, Types
<1>15. ASSUME NEW j \in Philosophers PROVE StateIsPlace(j)' /\ SemIsTold(j)'
  <2>1. CASE j = i
    <3>1. value'[i] = 0
      BY <1>2, <1>10, <1>12, <2>1, Sizes
    <3>2. QED BY <1>1, <1>2, <1>6, <1>10, <1>14, <2>1, <3>1, <1>3 DEF StateIsPlace, SemIsTold
  <2>2. CASE j # i /\ ((left /\ j = l) \/ (right /\ j = r))
    <3>1. st[j] = "HUNGRY" /\ s3[j] = "EATING" /\ j < n
      BY <1>3, <1>4, <1>8, <1>10, <2>2
    <3>2. pc[j] = "await" /\ value[j] = 0
      BY <3>1 DEF Inv, Types, StateIsPlace, SemIsTold
    <3>3. value'[j] = 1
      BY <1>12, <2>2, <3>2, Sizes DEF Closed
    <3>4. QED BY <1>1, <1>6, <1>14, <2>2, <3>1, <3>2, <3>3, <1>3 DEF StateIsPlace, SemIsTold, Inv
  <2>3. CASE j # i /\ ~((left /\ j = l) \/ (right /\ j = r))
    <3>1. value'[j] = value[j] /\ s3[j] = st[j] /\ pc'[j] = pc[j]
      BY <1>8, <1>12, <1>14, <2>3, Sizes
    <3>2. QED BY <1>1, <1>6, <3>1 DEF Inv, StateIsPlace, SemIsTold
  <2>4. QED BY <2>1, <2>2, <2>3
<1>16. ASSUME fed, NEW y \in 0 .. n - 1, s3[y] = "HUNGRY"
       PROVE  s3[Left(y, n)] = "EATING" \/ s3[Right(y, n)] = "EATING"
  <2>1. y # i /\ st[y] = "HUNGRY" /\ s2[y] = "HUNGRY" /\ s1[y] = "HUNGRY"
    BY <1>4, <1>8, <1>10, <1>16
  <2>2. st[Left(y, n)] = "EATING" \/ st[Right(y, n)] = "EATING"
    BY <1>16, <2>1 DEF Inv, Reasoned
  <2>3. \A z \in 0 .. n - 1 : z # i /\ st[z] = "EATING" => s3[z] = "EATING"
    BY <1>4, <1>8
  <2>4. CASE Left(y, n) = i
    <3>1. y = r
      BY <1>4, <2>4
    <3>2. ~right
      BY <1>8, <1>9, <1>16, <3>1
    <3>3. s2[Right(r, n)] = "EATING"
      BY <1>9, <2>1, <3>1, <3>2
    <3>4. QED BY <1>4, <1>8, <3>1, <3>3
  <2>5. CASE Right(y, n) = i
    <3>1. y = l
      BY <1>4, <2>5
    <3>2. ~left
      BY <1>8, <1>9, <2>1, <3>1
    <3>3. s1[Left(l, n)] = "EATING"
      BY <1>9, <2>1, <3>1, <3>2
    <3>4. QED BY <1>4, <1>8, <3>1, <3>3
  <2>6. QED BY <1>4, <2>2, <2>3, <2>4, <2>5
<1>17. QED BY <1>1, <1>6, <1>11, <1>13, <1>15, <1>16 DEF Inv, Reasoned, ghosts

-----------------------------------------------------------------------------
(* The host. *)
LEMMA HostTakesKeeps == ASSUME Inv, HostTakes PROVE Inv'
<1>1. at = "lock" /\ at' \in {"lock", "inside"} /\ UNCHANGED <<table, job, idx, ghosts>>
  BY DEF HostTakes
<1>2. value' \in [Sems -> Int] /\ \A k \in Philosophers : value'[k] = value[k]
  BY Sizes DEF HostTakes, Passes, Blocks, Inv, Types
<1>3. HostAtTheEnd'
  BY <1>1 DEF Inv, HostAtTheEnd, table
<1>4. QED BY <1>1, <1>2, <1>3 DEF Inv, Types, table, ghosts, StateIsPlace, SemIsTold, Excluded, Reasoned

LEMMA HostWaitsKeeps == ASSUME Inv, HostWaits PROVE Inv'
<1>1. at = "wait" /\ at' \in {"lock", "wait"} /\ UNCHANGED <<table, job, idx, ghosts>>
  BY DEF HostWaits
<1>2. idx \in Philosophers /\ idx < philosopher_count /\ philosopher_count \in Nat
  BY <1>1, Sizes DEF Inv, Types, HostAtTheEnd, Philosophers
<1>3. value[idx] \in {0, 1}
  BY <1>2 DEF Inv, SemIsTold
<1>4. /\ value' \in [Sems -> Int]
      /\ \A k \in Philosophers : value'[k] = value[k] \/ value'[k] = 0
  <2>1. CASE Passes(Host, idx)
    BY <1>2, <1>3, <2>1, Sizes DEF Passes, Inv, Types, Closed
  <2>2. CASE Blocks(Host, idx)
    BY <2>2 DEF Blocks, Inv, Types
  <2>3. QED BY <2>1, <2>2 DEF HostWaits
<1>5. HostAtTheEnd'
  BY <1>1 DEF Inv, HostAtTheEnd, table
<1>6. QED BY <1>1, <1>4, <1>5 DEF Inv, Types, table, ghosts, StateIsPlace, SemIsTold, Excluded, Reasoned

LEMMA CreateKeeps == ASSUME Inv, NEW ok \in BOOLEAN, Create(ok) PROVE Inv'
<1> DEFINE n == philosopher_count
<1> DEFINE st == philosopher_states
<1>1. /\ at = "inside" /\ job \in {"start", "add"} /\ UNCHANGED <<philosopher_states, orderly, served, unhindered>>
      /\ idx = n /\ n \in Nat /\ n < MAX_PHILOSOPHERS /\ n \in Philosophers
  BY Sizes DEF Create, Inv, HostAtTheEnd, Types, Philosophers
<1>2. CASE ok
  <2>1. /\ pc' = [pc EXCEPT ![idx] = "new"]
        /\ philosopher_count' = philosopher_count + 1
        /\ PostedTo({Table}, [value EXCEPT ![idx] = 0], ring)
        /\ IF job = "start" /\ idx + 1 < MIN_PHILOSOPHERS
           THEN Goes("lock", "start", idx + 1) ELSE Goes("read", job, idx)
        /\ fed' = (fed /\ ~Parts)
    BY <1>2 DEF Create
  <2>2. st[n] = "NONE"
    BY <1>1 DEF Inv, StateIsPlace
  <2>3. /\ [value EXCEPT ![idx] = 0] \in [Sems -> Int]
        /\ \A k \in Philosophers : [value EXCEPT ![idx] = 0][k] = IF k = n THEN 0 ELSE value[k]
    <3>1. value \in [Sems -> Int]
      BY DEF Inv, Types
    <3>2. QED BY <1>1, <3>1, Sizes
  <2>4. /\ value' \in [Sems -> Int]
        /\ \A k \in Philosophers : value'[k] = IF k = n THEN 0 ELSE value[k]
    BY <1>1, <2>1, <2>3, Sizes DEF PostedTo
  <2>5. \A k \in Philosophers : pc'[k] = IF k = n THEN "new" ELSE pc[k]
    BY <1>1, <2>1 DEF Inv, Types
  <2>6. HostAtTheEnd'
    BY <1>1, <2>1, Sizes DEF Goes, HostAtTheEnd, Inv
  <2>7. Types'
    BY <1>1, <2>1, <2>4, Sizes DEF Goes, Inv, Types
  <2>8. ASSUME NEW j \in Philosophers PROVE StateIsPlace(j)' /\ SemIsTold(j)'
    <3>1. j \in Int
      BY DEF Philosophers
    <3>2. CASE j = n
      BY <1>1, <2>1, <2>2, <2>4, <2>5, <3>2 DEF StateIsPlace, SemIsTold
    <3>3. CASE j # n
      BY <1>1, <2>1, <2>4, <2>5, <3>1, <3>3 DEF Inv, StateIsPlace, SemIsTold
    <3>4. QED BY <3>2, <3>3
  <2>9. Excluded(st, n + 1)
    <3>1. ASSUME NEW x \in 0 .. n, Right(x, n + 1) # x, st[x] = "EATING", st[Right(x, n + 1)] = "EATING"
          PROVE  FALSE
      <4>1. x # n /\ Right(x, n + 1) # n
        BY <2>2, <3>1
      <4>2. x \in 0 .. n - 1 /\ Right(x, n + 1) = x + 1 /\ Right(x, n) = x + 1
        BY <1>1, <4>1 DEF Right
      <4>3. QED BY <1>1, <3>1, <4>2 DEF Inv, Excluded
    <3>2. QED BY <1>1, <3>1 DEF Excluded
  <2>10. ASSUME fed' PROVE Reasoned(st, n + 1)
    <3>1. ASSUME NEW y \in 0 .. n, st[y] = "HUNGRY"
          PROVE  st[Left(y, n + 1)] = "EATING" \/ st[Right(y, n + 1)] = "EATING"
      <4>1. y \in 0 .. n - 1 /\ n > 0
        BY <1>1, <2>2, <3>1
      <4>2. st[Left(y, n)] = "EATING" \/ st[Right(y, n)] = "EATING"
        BY <2>1, <2>10, <3>1, <4>1 DEF Inv, Reasoned
      <4>3. {st[0], st[n - 1]} # {"HUNGRY", "EATING"}
        BY <2>1, <2>10, <4>1 DEF Parts
      <4>4. CASE st[Left(y, n)] = "EATING"
        <5>1. y # 0
          BY <3>1, <4>3, <4>4 DEF Left
        <5>2. Left(y, n + 1) = Left(y, n)
          BY <4>1, <5>1 DEF Left
        <5>3. QED BY <4>4, <5>2
      <4>5. CASE st[Right(y, n)] = "EATING"
        <5>1. y + 1 # n
          <6>1. SUFFICES ASSUME y + 1 = n PROVE FALSE
            OBVIOUS
          <6>2. y = n - 1 /\ Right(y, n) = 0
            BY <1>1, <4>1, <6>1 DEF Right
          <6>3. QED BY <3>1, <4>3, <4>5, <6>2
        <5>2. Right(y, n + 1) = Right(y, n)
          BY <1>1, <4>1, <5>1 DEF Right
        <5>3. QED BY <4>5, <5>2
      <4>6. QED BY <4>2, <4>4, <4>5
    <3>2. QED BY <1>1, <3>1 DEF Reasoned
  <2>11. QED BY <1>1, <2>1, <2>6, <2>7, <2>8, <2>9, <2>10 DEF Inv
<1>3. CASE ~ok
  <2>1. /\ Post({Table})
        /\ IF job = "start" THEN Goes("next", "leave", LastOf(idx)) ELSE Goes("read", job, idx)
        /\ UNCHANGED <<pc, philosopher_count, fed>>
    BY <1>3 DEF Create
  <2>2. value' \in [Sems -> Int] /\ \A k \in Philosophers : value'[k] = value[k]
    BY <2>1, Sizes DEF Post, PostedTo, Inv, Types
  <2>3. HostAtTheEnd'
    BY <1>1, <2>1, Sizes DEF Goes, LastOf, HostAtTheEnd, Inv
  <2>4. Types'
    BY <1>1, <2>1, <2>2 DEF Goes, LastOf, Inv, Types
  <2>5. QED BY <1>1, <2>1, <2>2, <2>3, <2>4 DEF Inv, StateIsPlace, SemIsTold, Excluded, Reasoned
<1>4. QED BY <1>2, <1>3

LEMMA CommandKeeps == ASSUME Inv, Command PROVE Inv'
<1>1. at = "read" /\ UNCHANGED <<table, sems, ghosts>>
  BY DEF Command
<1>2. HostAtTheEnd' /\ Types'
  BY <1>1, Sizes DEF Command, Goes, LastOf, Inv, HostAtTheEnd, Types, table, sems
<1>3. QED BY <1>1, <1>2 DEF Inv, table, sems, ghosts, StateIsPlace, SemIsTold, Excluded, Reasoned

(* The last one goes: the first and the one before it become neighbours. *)
LEMMA RemoveKeeps == ASSUME Inv, RemoveOne PROVE Inv'
<1> DEFINE n == philosopher_count
<1> DEFINE st == philosopher_states
<1>1. /\ at = "inside" /\ job \in {"remove", "leave"}
      /\ idx = n - 1 /\ n \in Nat \ {0} /\ n <= MAX_PHILOSOPHERS /\ idx \in 0 .. n - 1 /\ idx \in Philosophers
  BY Sizes DEF RemoveOne, Inv, HostAtTheEnd, Types, Philosophers
<1>2. LEFT_OF(idx) = Left(idx, n) /\ RIGHT_OF(idx) = Right(idx, n)
  BY <1>1, Neighbours DEF Inv
<1>3. CASE MustWait(idx)
  <2>1. /\ UNCHANGED <<table, job, idx, orderly, fed, served>> /\ Post({Table}) /\ at' = "wait"
    <3>1. MustWait(idx) => Post({Table}) /\ at' = "wait" /\ UNCHANGED <<table, job, idx, orderly, fed, served>>
      BY DEF RemoveOne
    <3>2. QED BY <1>3, <3>1
  <2>2. value' \in [Sems -> Int] /\ \A k \in Philosophers : value'[k] = value[k]
    BY <2>1, Sizes DEF Post, PostedTo, Inv, Types
  <2>3. HostAtTheEnd'
    BY <1>1, <2>1 DEF Inv, HostAtTheEnd, table
  <2>4. QED BY <2>1, <2>2, <2>3 DEF Inv, Types, table, StateIsPlace, SemIsTold, Excluded, Reasoned
<1>4. CASE ~MustWait(idx)
  <2>1. /\ pc' = [pc EXCEPT ![idx] = "none"]
        /\ philosopher_states' = [philosopher_states EXCEPT ![idx] = "NONE"]
        /\ philosopher_count' = philosopher_count - 1
        /\ PostedTo({Table}, [value EXCEPT ![idx] = Closed], WithoutProcess(idx, ring))
        /\ IF job = "leave" THEN Goes("next", job, idx - 1) ELSE Goes("read", job, idx)
        /\ fed' = (fed /\ philosopher_states[idx] # "EATING")
    BY <1>4 DEF RemoveOne
  <2>2. ~(st[Left(idx, n)] = "EATING" /\ st[Right(idx, n)] = "EATING")
    BY <1>2, <1>4 DEF MustWait
  <2>3. /\ [value EXCEPT ![idx] = Closed] \in [Sems -> Int]
        /\ \A k \in Philosophers : k # idx => [value EXCEPT ![idx] = Closed][k] = value[k]
    <3>1. value \in [Sems -> Int] /\ Closed \in Int
      BY DEF Inv, Types, Closed
    <3>2. QED BY <1>1, <3>1, Sizes
  <2>4. /\ value' \in [Sems -> Int]
        /\ \A k \in Philosophers : k # idx => value'[k] = value[k]
    BY <1>1, <2>1, <2>3, Sizes DEF PostedTo
  <2>5. \A k \in Philosophers : /\ pc'[k] = IF k = idx THEN "none" ELSE pc[k]
                                /\ st'[k] = IF k = idx THEN "NONE" ELSE st[k]
    BY <1>1, <2>1 DEF Inv, Types
  <2>6. HostAtTheEnd'
    BY <1>1, <2>1, Sizes DEF Goes, HostAtTheEnd, Inv
  <2>7. Types'
    BY <1>1, <2>1, <2>4, Sizes DEF Goes, Inv, Types, PStates
  <2>8. ASSUME NEW j \in Philosophers PROVE StateIsPlace(j)' /\ SemIsTold(j)'
    <3>1. j \in Int
      BY DEF Philosophers
    <3>2. CASE j = idx
      BY <1>1, <2>1, <2>5, <3>2 DEF StateIsPlace, SemIsTold
    <3>3. CASE j # idx
      BY <1>1, <2>1, <2>4, <2>5, <3>1, <3>3 DEF Inv, StateIsPlace, SemIsTold
    <3>4. QED BY <3>2, <3>3
  <2>9. \A z \in 0 .. n - 2 : z \in Philosophers /\ z \in 0 .. n - 1 /\ z # idx /\ st'[z] = st[z]
    BY <1>1, <2>5, Sizes DEF Philosophers
  <2>10. Excluded(st', n - 1)
    <3>1. ASSUME NEW x \in 0 .. n - 2, Right(x, n - 1) # x, st'[x] = "EATING", st'[Right(x, n - 1)] = "EATING"
          PROVE  FALSE
      <4>1. Right(x, n - 1) \in 0 .. n - 2
        BY <1>1 DEF Right
      <4>2. st[x] = "EATING" /\ st[Right(x, n - 1)] = "EATING"
        BY <2>9, <3>1, <4>1
      <4>3. CASE x = n - 2
        <5>1. Left(idx, n) = n - 2 /\ Right(idx, n) = 0 /\ Right(x, n - 1) = 0
          BY <1>1, <4>3 DEF Left, Right
        <5>2. QED BY <2>2, <4>2, <4>3, <5>1
      <4>4. CASE x # n - 2
        <5>1. Right(x, n - 1) = x + 1 /\ Right(x, n) = x + 1 /\ x \in 0 .. n - 1
          BY <1>1, <4>4 DEF Right
        <5>2. QED BY <4>2, <5>1 DEF Inv, Excluded
      <4>5. QED BY <4>3, <4>4
    <3>2. QED BY <1>1, <3>1 DEF Excluded
  <2>11. ASSUME fed' PROVE Reasoned(st', n - 1)
    <3>1. fed /\ st[idx] # "EATING"
      BY <2>1, <2>11
    <3>2. ASSUME NEW y \in 0 .. n - 2, st'[y] = "HUNGRY"
          PROVE  st'[Left(y, n - 1)] = "EATING" \/ st'[Right(y, n - 1)] = "EATING"
      <4>1. st[y] = "HUNGRY" /\ y \in 0 .. n - 1
        BY <2>9, <3>2
      <4>2. st[Left(y, n)] = "EATING" \/ st[Right(y, n)] = "EATING"
        BY <3>1, <4>1 DEF Inv, Reasoned
      <4>3. CASE st[Left(y, n)] = "EATING"
        <5>1. y # 0
          BY <1>1, <3>1, <4>3 DEF Left
        <5>2. Left(y, n - 1) = Left(y, n) /\ Left(y, n) \in 0 .. n - 2
          BY <1>1, <5>1 DEF Left
        <5>3. QED BY <2>9, <4>3, <5>2
      <4>4. CASE st[Right(y, n)] = "EATING"
        <5>1. y # n - 2
          BY <1>1, <3>1, <4>4 DEF Right
        <5>2. Right(y, n - 1) = Right(y, n) /\ Right(y, n) \in 0 .. n - 2
          BY <1>1, <5>1 DEF Right
        <5>3. QED BY <2>9, <4>4, <5>2
      <4>5. QED BY <4>2, <4>3, <4>4
    <3>3. QED BY <1>1, <3>2 DEF Reasoned
  <2>12. QED BY <1>1, <2>1, <2>6, <2>7, <2>8, <2>10, <2>11 DEF Inv
<1>5. QED BY <1>3, <1>4

(* Nobody is passed over who sits at the table, or orderly is no more. *)
LEMMA PassesOnKeeps == ASSUME Inv, orderly', PassesOn PROVE Inv'
<1>1. /\ at = "next" /\ idx >= 0 /\ job = "leave" /\ idx = philosopher_count - 1
      /\ philosopher_count \in 0 .. MAX_PHILOSOPHERS /\ idx \in Philosophers
  BY Sizes DEF PassesOn, Inv, HostAtTheEnd, Types, Philosophers
<1>2. pc[idx] # "none"
  BY <1>1 DEF Inv, StateIsPlace
<1>3. /\ at' = "lock" /\ UNCHANGED <<idx, table, job, sems, fed>>
  BY <1>2 DEF PassesOn
<1>4. HostAtTheEnd'
  BY <1>1, <1>3 DEF HostAtTheEnd, table
<1>5. QED BY <1>3, <1>4 DEF Inv, Types, table, sems, StateIsPlace, SemIsTold, Excluded, Reasoned

LEMMA LeaveKeeps == ASSUME Inv, Leave PROVE Inv'
<1>1. /\ at = "next" /\ idx < 0 /\ at' = "gone" /\ UNCHANGED <<table, job, idx, ghosts>>
      /\ value' = [value EXCEPT ![Table] = Closed]
  BY DEF Leave
<1>2. value' \in [Sems -> Int] /\ \A k \in Philosophers : value'[k] = value[k]
  BY <1>1, Sizes DEF Inv, Types, Closed
<1>3. HostAtTheEnd'
  BY <1>1 DEF Inv, HostAtTheEnd, table
<1>4. QED BY <1>1, <1>2, <1>3 DEF Inv, Types, table, ghosts, StateIsPlace, SemIsTold, Excluded, Reasoned

LEMMA StepKeeps == IInv /\ [Next]_vars => IInv'
<1> SUFFICES ASSUME IInv, [Next]_vars, orderly' PROVE Inv'
  BY DEF IInv
<1>1. CASE UNCHANGED vars
  BY <1>1 DEF IInv, Inv, vars, table, host, sems, ghosts, Types, StateIsPlace, SemIsTold, HostAtTheEnd, Excluded, Reasoned
<1>2. ASSUME NEW i \in Philosophers, Philosopher(i) PROVE Inv'
  <2>1. orderly' = orderly
    BY <1>2 DEF Philosopher, Begin, Sits, Queues, PickUp, PutDown, ghosts
  <2>2. Inv
    BY <2>1 DEF IInv
  <2>3. QED BY <1>2, <2>2, BeginKeeps, SitsKeeps, QueuesKeeps, PickUpKeeps, PutDownKeeps DEF Philosopher
<1>3. ASSUME HostSteps PROVE Inv'
  <2>1. orderly
    BY <1>3 DEF HostSteps, HostActs, HostTakes, Create, RemoveOne, HostWaits, PassesOn, Leave, Command, ghosts
  <2>2. Inv
    BY <2>1 DEF IInv
  <2>3. QED BY <1>3, <2>2, HostTakesKeeps, CreateKeeps, RemoveKeeps, HostWaitsKeeps, PassesOnKeeps, LeaveKeeps, CommandKeeps
        DEF HostSteps, HostActs
<1>4. QED BY <1>1, <1>2, <1>3 DEF Next

-----------------------------------------------------------------------------
(* Two philosophers who sit next to each other never eat at the same time,
   however many they are, as others come and go (pick_up_forks, put_down_forks,
   remove_philosopher). *)
THEOREM NeighboursExclude == Spec => []NeighboursNeverEatTogether
<1>1. Init => IInv
  BY Initially DEF IInv
<1>2. IInv => NeighboursNeverEatTogether
  <2> SUFFICES ASSUME Inv, NEW i \in Seated, RIGHT_OF(i) # i,
                      pc[i] \in {"eat", "put"}, pc[RIGHT_OF(i)] \in {"eat", "put"}
               PROVE  FALSE
    BY DEF IInv, NeighboursNeverEatTogether
  <2>1. i \in Philosophers /\ i < philosopher_count
    BY Sizes DEF Seated, Inv, Types, Philosophers
  <2>2. /\ RIGHT_OF(i) = Right(i, philosopher_count)
        /\ philosopher_count \in Nat \ {0} /\ i \in 0 .. philosopher_count - 1
    BY <2>1, Neighbours DEF Inv
  <2>3. RIGHT_OF(i) \in Philosophers
    BY <2>2, Round, Sizes DEF Philosophers, Inv, Types
  <2>4. philosopher_states[i] = "EATING" /\ philosopher_states[RIGHT_OF(i)] = "EATING"
    BY <2>1, <2>3 DEF Inv, StateIsPlace
  <2>5. QED BY <2>2, <2>4 DEF Inv, Excluded
<1>3. QED BY <1>1, <1>2, StepKeeps, PTL DEF Spec

(* A hungry philosopher has a neighbour who eats, for whom it waits: those who
   put down their forks tell everybody who may eat (put_down_forks).  This is
   said of a session until somebody was passed over, or removed at its meal, or
   added between a hungry one and the neighbour who ate. *)
THEOREM HungryHaveReasons == Spec => []HungryHasAReason
<1>1. Init => IInv
  BY Initially DEF IInv
<1>2. IInv => HungryHasAReason
  <2> SUFFICES ASSUME Inv, fed, NEW i \in Seated, philosopher_states[i] = "HUNGRY"
               PROVE  "EATING" \in {philosopher_states[LEFT_OF(i)], philosopher_states[RIGHT_OF(i)]}
    BY DEF IInv, HungryHasAReason
  <2>1. i \in Philosophers /\ i < philosopher_count
    BY Sizes DEF Seated, Inv, Types, Philosophers
  <2>2. /\ RIGHT_OF(i) = Right(i, philosopher_count) /\ LEFT_OF(i) = Left(i, philosopher_count)
        /\ i \in 0 .. philosopher_count - 1
    BY <2>1, Neighbours DEF Inv
  <2>3. QED BY <2>2 DEF Inv, Reasoned
<1>3. QED BY <1>1, <1>2, StepKeeps, PTL DEF Spec

(* When the program ends nobody is left at the table (remove_all_philosophers,
   called after failures too). *)
THEOREM NoneLeftBehind == Spec => []NobodyIsLeftBehind
<1>1. Init => IInv
  BY Initially DEF IInv
<1>2. IInv => NobodyIsLeftBehind
  BY Sizes DEF IInv, NobodyIsLeftBehind, Inv, HostAtTheEnd, Types, StateIsPlace, Philosophers
<1>3. QED BY <1>1, <1>2, StepKeeps, PTL DEF Spec

-----------------------------------------------------------------------------
(* The types, also when remove_all_philosophers has passed somebody over.  A
   semaphore never has two units, because only who eats and does not know it yet
   has one, and the unit of the table is there when nobody is at the table.  The
   count is not zero while a philosopher is left, because one that was passed
   over stays counted. *)
AtTable(i) == pc[i] \in {"pick", "put"}

HungryAwaits(i) ==
    /\ pc[i] = "await" => philosopher_states[i] \in {"HUNGRY", "EATING"}
    /\ philosopher_states[i] = "HUNGRY" => pc[i] = "await"
    /\ value[i] = 1 => pc[i] = "await" /\ philosopher_states[i] = "EATING"
    /\ pc[i] # "none" => value[i] # Closed

TableIsHeld ==
    /\ at # "gone" => value[Table] \in {0, 1}
    /\ at # "gone" /\ value[Table] = 1 => at # "inside" /\ \A i \in Philosophers : ~AtTable(i)
    /\ at = "inside" => \A i \in Philosophers : ~AtTable(i)
    /\ \A i, j \in Philosophers : AtTable(i) /\ AtTable(j) => i = j

HostCounts ==
    /\ at \in {"next", "gone"} => job = "leave"
    /\ at = "wait" => job \in {"remove", "leave"}
    /\ at = "read" => job # "leave"
    /\ at \in {"lock", "inside", "wait"} => idx >= 0
    /\ at # "read" /\ job \in {"start", "add"} => idx = philosopher_count /\ idx < MAX_PHILOSOPHERS
    /\ at # "read" /\ job = "remove" => idx = philosopher_count - 1
    /\ job = "leave" => idx < philosopher_count
    /\ job # "leave" => \A i \in Philosophers : pc[i] = "none" <=> i >= philosopher_count
    /\ job = "leave" => \A i \in Philosophers : i > idx /\ pc[i] # "none" => philosopher_count > idx + 1

TInv == TypeOK /\ HostCounts /\ TableIsHeld /\ \A i \in Philosophers : HungryAwaits(i)

-----------------------------------------------------------------------------
(* Who may go on, while nothing has happened that upsets it.  A ring holds those
   who want its semaphore, once each.  When the unit of the table is there and
   somebody is in its ring, somebody who was woken is on the way; when it is not,
   somebody is at the table. *)
Wants(p) ==
    \/ p \in Philosophers /\ pc[p] \in {"think", "eat"}
    \/ p = Host /\ at = "lock"
InRing(k, p) == \E n \in 1 .. Len(ring[k]) : ring[k][n] = p

RingOfTable ==
    /\ \A n \in 1 .. Len(ring[Table]) : Wants(ring[Table][n])
    /\ \A n, m \in 1 .. Len(ring[Table]) : ring[Table][n] = ring[Table][m] => n = m
    /\ at # "gone" /\ value[Table] = 0 => at = "inside" \/ \E i \in Philosophers : AtTable(i)
    /\ value[Table] = 1 /\ ring[Table] # <<>> =>
        \E p \in Philosophers \cup {Host} : Wants(p) /\ ~InRing(Table, p)
OwnRing(i) ==
    /\ Len(ring[i]) <= 1
    /\ \A n \in 1 .. Len(ring[i]) : ring[i][n] = i /\ philosopher_states[i] = "HUNGRY"
    /\ pc[i] = "await" /\ philosopher_states[i] = "EATING" => value[i] = 1
Enough ==
    /\ at # "wait"
    /\ at = "read" \/ job = "add" => philosopher_count >= MIN_PHILOSOPHERS
    /\ at # "read" /\ job = "remove" => philosopher_count > MIN_PHILOSOPHERS

Going == RingOfTable /\ Enough /\ \A i \in Philosophers : OwnRing(i)
GInv == orderly /\ served /\ unhindered => Going

-----------------------------------------------------------------------------
(* The types are kept. *)
PCs == {"none", "new", "think", "pick", "await", "eat", "put"}

LEMMA TKnown ==
    /\ MIN_PHILOSOPHERS \in Nat \ {0} /\ MAX_PHILOSOPHERS \in Nat
    /\ MIN_PHILOSOPHERS <= MAX_PHILOSOPHERS
    /\ Table \notin Philosophers /\ Table \in Sems /\ Host \notin Philosophers
    /\ \A i : i \in Philosophers <=> i \in Nat /\ i < MAX_PHILOSOPHERS
    /\ \A i \in Philosophers : i \in Sems /\ i \in Processes
    /\ Host \in Processes /\ Closed = -1
  BY PhyloOK DEF PhyloOK, Philosophers, Sems, Processes, Closed

LEMMA TInit == Init => TInv
<1> SUFFICES ASSUME Init PROVE TInv
  OBVIOUS
<1>1. TypeOK
  BY TKnown DEF Init, TypeOK
<1>2. HostCounts
  BY TKnown DEF Init, HostCounts
<1>3. TableIsHeld
  BY TKnown DEF Init, TableIsHeld, AtTable
<1>4. \A i \in Philosophers : HungryAwaits(i)
  BY TKnown DEF Init, HungryAwaits
<1>5. QED BY <1>1, <1>2, <1>3, <1>4 DEF TInv

(* Who is there has a neighbour, perhaps itself. *)
LEMMA TSeats ==
    ASSUME TInv, NEW i \in Philosophers, pc[i] # "none"
    PROVE  LEFT_OF(i) \in Philosophers /\ RIGHT_OF(i) \in Philosophers
<1>1. philosopher_count \in Nat /\ philosopher_count <= MAX_PHILOSOPHERS /\ i \in Nat /\ idx \in Int /\ idx >= -1
  BY TKnown DEF TInv, TypeOK
<1>2. philosopher_count > 0
  BY <1>1 DEF TInv, HostCounts
<1>3. \A x \in Nat : x % philosopher_count \in 0 .. philosopher_count - 1
  BY <1>1, <1>2
<1>4. i + 1 \in Nat /\ i + philosopher_count - 1 \in Nat
  BY <1>1, <1>2
<1>5. LEFT_OF(i) \in 0 .. philosopher_count - 1 /\ RIGHT_OF(i) \in 0 .. philosopher_count - 1
  BY <1>3, <1>4 DEF LEFT_OF, RIGHT_OF
<1>6. QED BY <1>1, <1>5, TKnown

(* sem_wait and sem_post keep the types of the semaphores. *)
LEMMA TWaits ==
    ASSUME TypeOK, NEW p \in Processes, NEW k \in Sems, Passes(p, k) \/ Blocks(p, k)
    PROVE  /\ value' \in [Sems -> {Closed, 0, 1}]
           /\ ring' \in [Sems -> Seq(Processes \cup {Gone})]
           /\ \A m \in Sems : value'[m] = IF m = k /\ value[k] = 1 THEN 0 ELSE value[m]
           /\ Passes(p, k) => value[k] # 0
           /\ Blocks(p, k) => value[k] = 0
<1>1. CASE Passes(p, k)
  BY <1>1 DEF Passes, Blocks, TypeOK, Closed
<1>2. CASE Blocks(p, k)
  <2>1. Append(ring[k], p) \in Seq(Processes \cup {Gone})
    BY DEF TypeOK
  <2>2. QED BY <1>2, <2>1 DEF Passes, Blocks, TypeOK
<1>3. QED BY <1>1, <1>2

LEMMA TPosts ==
    ASSUME NEW ks \in SUBSET Sems, NEW v \in [Sems -> {Closed, 0, 1}],
           NEW r \in [Sems -> Seq(Processes \cup {Gone})],
           \A k \in ks : v[k] # 1, PostedTo(ks, v, r)
    PROVE  /\ value' \in [Sems -> {Closed, 0, 1}]
           /\ ring' \in [Sems -> Seq(Processes \cup {Gone})]
           /\ \A k \in Sems : value'[k] = IF k \in ks /\ v[k] # Closed THEN 1 ELSE v[k]
<1>1. \A k \in Sems : value'[k] = IF k \in ks /\ v[k] # Closed THEN 1 ELSE v[k]
  BY DEF PostedTo, Closed
<1>2. value' = [k \in Sems |-> IF k \in ks /\ v[k] # Closed THEN v[k] + 1 ELSE v[k]]
  BY DEF PostedTo
<1>3. value' \in [Sems -> {Closed, 0, 1}]
  BY <1>1, <1>2
<1>4. \A k \in Sems : r[k] # <<>> => Tail(r[k]) \in Seq(Processes \cup {Gone})
  OBVIOUS
<1>5. ring' \in [Sems -> Seq(Processes \cup {Gone})]
  BY <1>4 DEF PostedTo
<1>6. QED BY <1>1, <1>3, <1>5

(* The parts of the invariant after a step, from what the step leaves alone. *)
LEMMA TPhilosopher ==
    ASSUME TInv, NEW i \in Philosophers, Philosopher(i), at # "gone"
    PROVE  /\ UNCHANGED <<philosopher_count, host, ghosts>>
           /\ pc[i] # "none"
           /\ \A j \in Philosophers : pc'[j] = "none" <=> pc[j] = "none"
           /\ pc' \in [Philosophers -> PCs] /\ \A j \in Philosophers \ {i} : pc'[j] = pc[j]
<1>1. pc \in [Philosophers -> PCs]
  BY DEF TInv, TypeOK, PCs
<1>2. CASE Begin(i)
  BY <1>1, <1>2 DEF Begin, PCs
<1>3. CASE Sits(i)
  <2>1. pc'[i] \in {"pick", "put", "eat"} /\ pc[i] # "none"
        /\ \A j \in Philosophers \ {i} : pc'[j] = pc[j]
    BY <1>1, <1>3 DEF Sits
  <2>2. pc' \in [Philosophers -> PCs]
    BY <1>1, <1>3, <2>1 DEF Sits, PCs
  <2>3. QED BY <1>3, <2>1, <2>2 DEF Sits
<1>4. CASE Queues(i)
  BY <1>1, <1>4 DEF Queues, table
<1>5. CASE PickUp(i)
  BY <1>1, <1>5 DEF PickUp, PCs
<1>6. CASE PutDown(i)
  BY <1>1, <1>6 DEF PutDown, PCs
<1>7. QED BY <1>2, <1>3, <1>4, <1>5, <1>6 DEF Philosopher

LEMMA TPhilosopherCounts ==
    ASSUME TInv, NEW i \in Philosophers, Philosopher(i), at # "gone"
    PROVE  HostCounts'
BY TPhilosopher DEF TInv, HostCounts, host

LEMMA TBegin == ASSUME TInv, at # "gone", NEW i \in Philosophers, Begin(i) PROVE TInv'
<1>1. HostCounts'
  BY TPhilosopherCounts DEF Philosopher
<1>2. /\ pc[i] = "new" /\ \A j \in Philosophers : pc'[j] = IF j = i THEN "think" ELSE pc[j]
      /\ \A j \in Philosophers : philosopher_states'[j] = IF j = i THEN "THINKING" ELSE philosopher_states[j]
      /\ UNCHANGED <<philosopher_count, at, job, idx, value, ring, orderly, fed, served, unhindered>>
  BY DEF Begin, host, sems, ghosts, TInv, TypeOK
<1>3. TypeOK'
  BY <1>2 DEF Begin, TInv, TypeOK
<1>4. TableIsHeld'
  BY <1>2 DEF TInv, TableIsHeld, AtTable
<1>5. ASSUME NEW j \in Philosophers PROVE HungryAwaits(j)'
  BY <1>2 DEF TInv, HungryAwaits
<1>6. QED BY <1>1, <1>3, <1>4, <1>5 DEF TInv

LEMMA TSits == ASSUME TInv, at # "gone", NEW i \in Philosophers, Sits(i) PROVE TInv'
<1>1. HostCounts' /\ pc' \in [Philosophers -> PCs]
  BY TPhilosopher, TPhilosopherCounts DEF Philosopher
<1>2. /\ pc[i] \in {"think", "eat", "await"} /\ Passes(i, WaitsFor(i))
      /\ \A j \in Philosophers \ {i} : pc'[j] = pc[j]
      /\ pc'[i] = IF pc[i] = "think" THEN "pick" ELSE IF pc[i] = "eat" THEN "put" ELSE "eat"
      /\ UNCHANGED <<philosopher_states, philosopher_count, at, job, idx, orderly, fed, served, unhindered>>
  BY DEF Sits, host, ghosts, TInv, TypeOK
<1>3. WaitsFor(i) = IF pc[i] = "await" THEN i ELSE Table
  BY <1>2 DEF WaitsFor
<1>4. PICK k \in Sems : k = WaitsFor(i) /\ Passes(i, k)
  BY <1>2, <1>3, TKnown
<1>5. /\ value' \in [Sems -> {Closed, 0, 1}] /\ ring' \in [Sems -> Seq(Processes \cup {Gone})]
      /\ \A m \in Sems : value'[m] = IF m = k /\ value[k] = 1 THEN 0 ELSE value[m]
      /\ value[k] # 0
  BY <1>4, TWaits, TKnown DEF TInv
<1>6. TypeOK'
  BY <1>1, <1>2, <1>5 DEF TInv, TypeOK, PCs
<1>7. CASE pc[i] = "await"
  <2>1. value[i] = 1 /\ philosopher_states[i] = "EATING" /\ value'[i] = 0 /\ k = i
    BY <1>2, <1>3, <1>4, <1>5, <1>7, TKnown DEF TInv, TypeOK, HungryAwaits
  <2>2. \A m \in Sems \ {i} : value'[m] = value[m]
    BY <1>5, <2>1
  <2>3. \A j \in Philosophers : AtTable(j)' <=> AtTable(j)
    BY <1>2, <1>7 DEF AtTable
  <2>4. TableIsHeld'
    BY <1>2, <2>2, <2>3, TKnown DEF TInv, TableIsHeld
  <2>5. ASSUME NEW j \in Philosophers PROVE HungryAwaits(j)'
    BY <1>2, <1>7, <2>1, <2>2, TKnown DEF TInv, HungryAwaits, Closed
  <2>6. QED BY <1>1, <1>6, <2>4, <2>5 DEF TInv
<1>8. CASE pc[i] # "await"
  <2>1. k = Table /\ value[Table] = 1 /\ value'[Table] = 0
    BY <1>2, <1>3, <1>4, <1>5, <1>8 DEF TInv, TableIsHeld
  <2>2. \A m \in Philosophers : value'[m] = value[m]
    BY <1>5, <2>1, TKnown
  <2>3. at # "inside" /\ \A j \in Philosophers : AtTable(j)' <=> j = i
    BY <1>2, <1>8, <2>1 DEF AtTable, TInv, TableIsHeld
  <2>4. TableIsHeld'
    BY <1>2, <2>1, <2>3 DEF TableIsHeld
  <2>5. ASSUME NEW j \in Philosophers PROVE HungryAwaits(j)'
    BY <1>2, <1>8, <2>2 DEF TInv, HungryAwaits
  <2>6. QED BY <1>1, <1>6, <2>4, <2>5 DEF TInv
<1>9. QED BY <1>7, <1>8

LEMMA TQueues == ASSUME TInv, at # "gone", NEW i \in Philosophers, Queues(i) PROVE TInv'
<1>1. /\ pc[i] \in {"think", "eat", "await"} /\ Blocks(i, WaitsFor(i))
      /\ UNCHANGED <<table, host, ghosts>> /\ value' = value
  BY DEF Queues, Blocks
<1>2. WaitsFor(i) = IF pc[i] = "await" THEN i ELSE Table
  BY <1>1 DEF WaitsFor
<1>3. PICK k \in Sems : k = WaitsFor(i) /\ Blocks(i, k)
  BY <1>1, <1>2, TKnown
<1>4. ring' \in [Sems -> Seq(Processes \cup {Gone})]
  BY <1>3, TWaits, TKnown DEF TInv
<1>5. TypeOK' /\ HostCounts' /\ TableIsHeld' /\ \A j \in Philosophers : HungryAwaits(j)'
  BY <1>1, <1>4 DEF TInv, TypeOK, HostCounts, TableIsHeld, HungryAwaits, AtTable, table, host, ghosts
<1>6. QED BY <1>5 DEF TInv

(* Who leaves the table posts its semaphore, which has no unit then. *)
LEMMA TPickUp == ASSUME TInv, at # "gone", NEW i \in Philosophers, PickUp(i) PROVE TInv'
<1> DEFINE ks == IF MayEat(i) THEN {i, Table} ELSE {Table}
<1>1. HostCounts' /\ pc' \in [Philosophers -> PCs]
  BY TPhilosopher, TPhilosopherCounts DEF Philosopher
<1>2. /\ pc[i] = "pick" /\ PostedTo(ks, value, ring)
      /\ \A j \in Philosophers : pc'[j] = IF j = i THEN "await" ELSE pc[j]
      /\ UNCHANGED <<philosopher_count, at, job, idx, orderly, fed, served, unhindered>>
  BY DEF PickUp, Post, host, ghosts, TInv, TypeOK
<1>3. /\ philosopher_states' \in [Philosophers -> {"NONE", "THINKING", "HUNGRY", "EATING"}]
      /\ \A j \in Philosophers : philosopher_states'[j] =
            IF j = i THEN (IF MayEat(i) THEN "EATING" ELSE "HUNGRY") ELSE philosopher_states[j]
  BY DEF PickUp, TInv, TypeOK
<1>4. value[Table] = 0 /\ value[i] = 0
  BY <1>2, TKnown DEF TInv, TableIsHeld, AtTable, HungryAwaits, TypeOK
<1>5. value \in [Sems -> {Closed, 0, 1}] /\ ring \in [Sems -> Seq(Processes \cup {Gone})]
  BY DEF TInv, TypeOK
<1>6. ks \in SUBSET Sems /\ \A k \in ks : value[k] = 0
  BY <1>4, TKnown
<1> HIDE DEF ks
<1>7. /\ value' \in [Sems -> {Closed, 0, 1}] /\ ring' \in [Sems -> Seq(Processes \cup {Gone})]
      /\ \A k \in Sems : value'[k] = IF k \in ks /\ value[k] # Closed THEN 1 ELSE value[k]
  <2>1. PostedTo(ks, value, ring) /\ ks \in SUBSET Sems
    BY <1>2, <1>6
  <2>2. \A k \in ks : value[k] # 1
    BY <1>6
  <2>3. QED BY <1>5, <2>1, <2>2, TPosts
<1>8. /\ value'[Table] = 1 /\ value'[i] = IF MayEat(i) THEN 1 ELSE 0
      /\ \A j \in Philosophers \ {i} : value'[j] = value[j]
  BY <1>4, <1>7, TKnown DEF ks
<1>9. TypeOK'
  BY <1>1, <1>2, <1>3, <1>7 DEF TInv, TypeOK, PCs
<1>10. at # "inside" /\ \A j \in Philosophers : ~AtTable(j)'
  BY <1>2 DEF TInv, TableIsHeld, AtTable
<1>11. TableIsHeld'
  BY <1>2, <1>8, <1>10 DEF TableIsHeld
<1>12. ASSUME NEW j \in Philosophers PROVE HungryAwaits(j)'
  <2>1. CASE j = i
    BY <1>2, <1>3, <1>8, <2>1, TKnown DEF HungryAwaits
  <2>2. CASE j # i
    BY <1>2, <1>3, <1>8, <2>2 DEF TInv, HungryAwaits
  <2>3. QED BY <2>1, <2>2
<1>13. QED BY <1>1, <1>9, <1>11, <1>12 DEF TInv

LEMMA TPutDown == ASSUME TInv, at # "gone", NEW i \in Philosophers, PutDown(i) PROVE TInv'
<1> DEFINE st == philosopher_states
           l == LEFT_OF(i)
           r == RIGHT_OF(i)
           s1 == [st EXCEPT ![i] = "THINKING"]
           left == Starts(s1, l, LEFT_OF(l))
           s2 == IF left THEN [s1 EXCEPT ![l] = "EATING"] ELSE s1
           right == Starts(s2, r, RIGHT_OF(r))
           s3 == IF right THEN [s2 EXCEPT ![r] = "EATING"] ELSE s2
           ks == {Table} \cup {x \in {l} : left} \cup {x \in {r} : right}
<1>1. HostCounts' /\ pc' \in [Philosophers -> PCs]
  BY TPhilosopher, TPhilosopherCounts DEF Philosopher
<1>2. /\ pc[i] = "put" /\ PostedTo(ks, value, ring) /\ st' = s3
      /\ \A j \in Philosophers : pc'[j] = IF j = i THEN "think" ELSE pc[j]
      /\ UNCHANGED <<philosopher_count, at, job, idx, orderly, fed, served, unhindered>>
  BY DEF PutDown, Post, host, ghosts, TInv, TypeOK
<1>3. l \in Philosophers /\ r \in Philosophers
  BY <1>2, TSeats
<1>4. /\ s1 \in [Philosophers -> {"NONE", "THINKING", "HUNGRY", "EATING"}]
      /\ s2 \in [Philosophers -> {"NONE", "THINKING", "HUNGRY", "EATING"}]
      /\ s3 \in [Philosophers -> {"NONE", "THINKING", "HUNGRY", "EATING"}]
  BY DEF TInv, TypeOK
<1>5. \A z \in Philosophers :
        /\ s1[z] = IF z = i THEN "THINKING" ELSE st[z]
        /\ s2[z] = IF left /\ z = l THEN "EATING" ELSE s1[z]
        /\ s3[z] = IF right /\ z = r THEN "EATING" ELSE s2[z]
  BY <1>4 DEF TInv, TypeOK
<1>6. (left => s1[l] = "HUNGRY") /\ (right => s2[r] = "HUNGRY")
  BY DEF Starts
<1> HIDE DEF left, right, s1, s2, s3, l, r
<1>7. (left => l # i /\ st[l] = "HUNGRY") /\ (right => r # i /\ st[r] = "HUNGRY")
  BY <1>3, <1>5, <1>6
<1>8. value[Table] = 0
  BY <1>2, TKnown DEF TInv, TableIsHeld, AtTable
<1>9. (left => value[l] = 0) /\ (right => value[r] = 0)
  BY <1>3, <1>7, TKnown DEF TInv, HungryAwaits, TypeOK
<1>10. ks \in SUBSET Sems /\ \A k \in ks : value[k] # 1
  BY <1>3, <1>8, <1>9, TKnown
<1>11. value \in [Sems -> {Closed, 0, 1}] /\ ring \in [Sems -> Seq(Processes \cup {Gone})]
  BY DEF TInv, TypeOK
<1>12. /\ value' \in [Sems -> {Closed, 0, 1}] /\ ring' \in [Sems -> Seq(Processes \cup {Gone})]
       /\ \A k \in Sems : value'[k] = IF k \in ks /\ value[k] # Closed THEN 1 ELSE value[k]
  <2> HIDE DEF ks
  <2>1. QED BY <1>2, <1>10, <1>11, TPosts
<1>13. TypeOK'
  BY <1>1, <1>2, <1>4, <1>12 DEF TInv, TypeOK, PCs
<1>14. at # "inside" /\ \A j \in Philosophers : ~AtTable(j)'
  BY <1>2 DEF TInv, TableIsHeld, AtTable
<1>15. TableIsHeld'
  BY <1>2, <1>8, <1>12, <1>14, TKnown DEF TableIsHeld
<1>16. ASSUME NEW j \in Philosophers PROVE HungryAwaits(j)'
  <2>1. value'[j] = IF (left /\ j = l) \/ (right /\ j = r) THEN 1 ELSE value[j]
    BY <1>9, <1>12, TKnown
  <2>2. CASE (left /\ j = l) \/ (right /\ j = r)
    <3>1. st[j] = "HUNGRY" /\ j # i
      BY <1>7, <2>2
    <3>2. pc[j] = "await" /\ st'[j] = "EATING"
      BY <1>2, <1>5, <2>2, <3>1 DEF TInv, HungryAwaits
    <3>3. QED BY <1>2, <2>1, <2>2, <3>1, <3>2, TKnown DEF HungryAwaits
  <2>3. CASE ~((left /\ j = l) \/ (right /\ j = r))
    <3>1. st'[j] = s1[j] /\ value'[j] = value[j]
      BY <1>2, <1>5, <2>1, <2>3
    <3>2. QED BY <1>2, <1>5, <3>1 DEF TInv, HungryAwaits
  <2>4. QED BY <2>2, <2>3
<1>17. QED BY <1>1, <1>13, <1>15, <1>16 DEF TInv

(* The host. *)
LEMMA THostTakes == ASSUME TInv, HostTakes PROVE TInv'
<1>1. /\ at = "lock" /\ UNCHANGED <<table, job, idx, ghosts>>
      /\ (Passes(Host, Table) /\ at' = "inside") \/ (Blocks(Host, Table) /\ at' = at)
  BY DEF HostTakes
<1>2. /\ value' \in [Sems -> {Closed, 0, 1}] /\ ring' \in [Sems -> Seq(Processes \cup {Gone})]
      /\ \A m \in Sems : value'[m] = IF m = Table /\ value[Table] = 1 THEN 0 ELSE value[m]
      /\ Passes(Host, Table) => value[Table] # 0
      /\ Blocks(Host, Table) => value[Table] = 0
  BY <1>1, TWaits, TKnown DEF TInv
<1>3. TypeOK'
  BY <1>1, <1>2 DEF TInv, TypeOK, table, ghosts
<1>4. HostCounts'
  BY <1>1 DEF TInv, HostCounts, table
<1>5. TableIsHeld'
  BY <1>1, <1>2, TKnown DEF TInv, TableIsHeld, AtTable, table
<1>6. ASSUME NEW j \in Philosophers PROVE HungryAwaits(j)'
  BY <1>1, <1>2, TKnown DEF TInv, HungryAwaits, table
<1>7. QED BY <1>3, <1>4, <1>5, <1>6 DEF TInv

LEMMA THostWaits == ASSUME TInv, HostWaits PROVE TInv'
<1>1. /\ at = "wait" /\ UNCHANGED <<table, job, idx, ghosts>>
      /\ (Passes(Host, idx) /\ at' = "lock") \/ (Blocks(Host, idx) /\ at' = at)
  BY DEF HostWaits
<1>2. idx \in Philosophers
  <2>1. idx \in -1 .. MAX_PHILOSOPHERS - 1 /\ idx >= 0
    BY <1>1 DEF TInv, TypeOK, HostCounts
  <2>2. QED BY <2>1, TKnown
<1>3. PICK k \in Sems : k = idx
  BY <1>2, TKnown
<1>4. /\ value' \in [Sems -> {Closed, 0, 1}] /\ ring' \in [Sems -> Seq(Processes \cup {Gone})]
      /\ \A m \in Sems : value'[m] = IF m = k /\ value[k] = 1 THEN 0 ELSE value[m]
  BY <1>1, <1>3, TWaits, TKnown DEF TInv
<1>5. TypeOK'
  BY <1>1, <1>4 DEF TInv, TypeOK, table, ghosts
<1>6. HostCounts'
  BY <1>1 DEF TInv, HostCounts, table
<1>7. TableIsHeld'
  BY <1>1, <1>2, <1>3, <1>4, TKnown DEF TInv, TableIsHeld, AtTable, table
<1>8. ASSUME NEW j \in Philosophers PROVE HungryAwaits(j)'
  BY <1>1, <1>4, TKnown DEF TInv, HungryAwaits, table
<1>9. QED BY <1>5, <1>6, <1>7, <1>8 DEF TInv

LEMMA TCommand == ASSUME TInv, Command PROVE TInv'
<1>1. at = "read" /\ UNCHANGED <<table, sems, ghosts>>
  BY DEF Command
<1>2. TypeOK' /\ HostCounts'
  BY <1>1, TKnown DEF Command, Goes, LastOf, TInv, TypeOK, HostCounts, table, sems, ghosts
<1>3. TableIsHeld'
  BY <1>1, TKnown DEF Command, Goes, TInv, TableIsHeld, AtTable, table, sems
<1>4. ASSUME NEW j \in Philosophers PROVE HungryAwaits(j)'
  BY <1>1 DEF TInv, HungryAwaits, table, sems
<1>5. QED BY <1>2, <1>3, <1>4 DEF TInv

LEMMA TPassesOn == ASSUME TInv, PassesOn PROVE TInv'
<1>1. /\ at = "next" /\ idx >= 0 /\ UNCHANGED <<table, job, sems, fed, served, unhindered>>
      /\ \/ at' = "lock" /\ UNCHANGED <<idx, orderly>>
         \/ idx' = idx - 1 /\ orderly' \in BOOLEAN /\ at' = at
  BY DEF PassesOn
<1>2. TypeOK' /\ HostCounts'
  BY <1>1, TKnown DEF TInv, TypeOK, HostCounts, table, sems
<1>3. TableIsHeld'
  BY <1>1, TKnown DEF TInv, TableIsHeld, AtTable, table, sems
<1>4. ASSUME NEW j \in Philosophers PROVE HungryAwaits(j)'
  BY <1>1 DEF TInv, HungryAwaits, table, sems
<1>5. QED BY <1>2, <1>3, <1>4 DEF TInv

LEMMA TLeave == ASSUME TInv, Leave PROVE TInv'
<1>1. /\ at = "next" /\ idx < 0 /\ at' = "gone" /\ UNCHANGED <<table, job, idx, ghosts>>
      /\ value' = [value EXCEPT ![Table] = Closed] /\ ring' = [ring EXCEPT ![Table] = <<>>]
  BY DEF Leave
<1>2. TypeOK'
  BY <1>1, TKnown DEF TInv, TypeOK, table, ghosts
<1>3. HostCounts'
  BY <1>1 DEF TInv, HostCounts, table
<1>4. TableIsHeld'
  BY <1>1 DEF TInv, TableIsHeld, AtTable, table
<1>5. \A j \in Philosophers : value'[j] = value[j]
  BY <1>1, TKnown DEF TInv, TypeOK
<1>6. ASSUME NEW j \in Philosophers PROVE HungryAwaits(j)'
  BY <1>1, <1>5 DEF TInv, HungryAwaits, table
<1>7. QED BY <1>2, <1>3, <1>4, <1>6 DEF TInv

LEMMA TCreate == ASSUME TInv, NEW ok \in BOOLEAN, Create(ok) PROVE TInv'
<1>1. /\ at = "inside" /\ job \in {"start", "add"} /\ UNCHANGED <<philosopher_states, orderly, served, unhindered>>
      /\ idx = philosopher_count /\ idx \in Philosophers /\ idx + 1 \in Nat /\ idx + 1 <= MAX_PHILOSOPHERS
  <2>1. /\ at = "inside" /\ job \in {"start", "add"} /\ UNCHANGED <<philosopher_states, orderly, served, unhindered>>
        /\ idx = philosopher_count /\ philosopher_count \in 0 .. MAX_PHILOSOPHERS /\ idx < MAX_PHILOSOPHERS
    BY DEF Create, TInv, TypeOK, HostCounts
  <2>2. QED BY <2>1, TKnown
<1>2. value[Table] = 0 /\ \A j \in Philosophers : ~AtTable(j)
  BY <1>1 DEF TInv, TableIsHeld
<1>3. /\ value \in [Sems -> {Closed, 0, 1}] /\ ring \in [Sems -> Seq(Processes \cup {Gone})]
      /\ pc \in [Philosophers -> PCs]
  BY DEF TInv, TypeOK, PCs
<1>4. PICK i \in Philosophers : i = idx
  BY <1>1
<1>5. pc[i] = "none"
  <2>1. \A j \in Philosophers : pc[j] = "none" <=> j >= philosopher_count
    BY <1>1 DEF TInv, HostCounts
  <2>2. i \in Nat /\ i = philosopher_count
    BY <1>1, <1>4, TKnown
  <2>3. QED BY <2>1, <2>2
<1>6. CASE ok
  <2> DEFINE v == [value EXCEPT ![i] = 0]
  <2>1. /\ pc' = [pc EXCEPT ![i] = "new"] /\ philosopher_count' = philosopher_count + 1
        /\ PostedTo({Table}, v, ring)
        /\ \/ idx + 1 < MIN_PHILOSOPHERS /\ at' = "lock" /\ job' = "start" /\ idx' = idx + 1
           \/ at' = "read" /\ job' = job /\ idx' = idx
        /\ fed' \in BOOLEAN /\ served' = served
    BY <1>4, <1>6 DEF Create, Goes, TInv, TypeOK
  <2>2. v \in [Sems -> {Closed, 0, 1}] /\ v[Table] = 0 /\ \A k \in Sems : v[k] = IF k = i THEN 0 ELSE value[k]
    BY <1>2, <1>3, TKnown
  <2>3. {Table} \in SUBSET Sems /\ \A k \in {Table} : v[k] # 1
    BY <2>2, TKnown
  <2> HIDE DEF v
  <2>4. /\ value' \in [Sems -> {Closed, 0, 1}] /\ ring' \in [Sems -> Seq(Processes \cup {Gone})]
        /\ \A k \in Sems : value'[k] = IF k \in {Table} /\ v[k] # Closed THEN 1 ELSE v[k]
    BY <1>3, <2>1, <2>2, <2>3, TPosts
  <2>5. value'[Table] = 1 /\ \A k \in Philosophers : value'[k] = IF k = i THEN 0 ELSE value[k]
    BY <2>2, <2>4, TKnown
  <2>6. pc' \in [Philosophers -> PCs] /\ \A j \in Philosophers : pc'[j] = IF j = i THEN "new" ELSE pc[j]
    BY <1>3, <2>1 DEF PCs
  <2>7. TypeOK'
    BY <1>1, <2>1, <2>4, <2>6, TKnown DEF TInv, TypeOK, PCs
  <2>8. HostCounts'
    <3>1. \A j \in Philosophers : j \in Nat /\ (pc[j] = "none" <=> j >= philosopher_count)
      BY <1>1, TKnown DEF TInv, HostCounts
    <3>2. \A j \in Philosophers : pc'[j] = "none" <=> j >= philosopher_count'
      BY <1>1, <1>4, <2>1, <2>6, <3>1, TKnown
    <3>3. QED BY <1>1, <2>1, <3>2, TKnown DEF HostCounts
  <2>9. TableIsHeld'
    BY <1>2, <2>1, <2>5, <2>6 DEF TableIsHeld, AtTable
  <2>10. ASSUME NEW j \in Philosophers PROVE HungryAwaits(j)'
    BY <1>1, <1>5, <2>5, <2>6, TKnown DEF TInv, HungryAwaits
  <2>11. QED BY <2>7, <2>8, <2>9, <2>10 DEF TInv
<1>7. CASE ~ok
  <2>1. /\ PostedTo({Table}, value, ring) /\ UNCHANGED <<pc, philosopher_count, fed>>
        /\ \/ at' = "next" /\ job' = "leave" /\ idx' = idx - 1
           \/ at' = "read" /\ job' = job /\ idx' = idx
    BY <1>7 DEF Create, Goes, Post, LastOf
  <2>2. {Table} \in SUBSET Sems /\ \A k \in {Table} : value[k] # 1
    BY <1>2, TKnown
  <2>3. /\ value' \in [Sems -> {Closed, 0, 1}] /\ ring' \in [Sems -> Seq(Processes \cup {Gone})]
        /\ \A k \in Sems : value'[k] = IF k \in {Table} /\ value[k] # Closed THEN 1 ELSE value[k]
    BY <1>3, <2>1, <2>2, TPosts
  <2>4. value'[Table] = 1 /\ \A k \in Philosophers : value'[k] = value[k]
    BY <1>2, <2>3, TKnown
  <2>5. TypeOK'
    BY <1>1, <2>1, <2>3, TKnown DEF TInv, TypeOK
  <2>6. HostCounts'
    BY <1>1, <2>1, TKnown DEF TInv, HostCounts
  <2>7. TableIsHeld'
    BY <1>2, <2>1, <2>4 DEF TableIsHeld, AtTable
  <2>8. ASSUME NEW j \in Philosophers PROVE HungryAwaits(j)'
    BY <1>1, <2>1, <2>4 DEF TInv, HungryAwaits
  <2>9. QED BY <2>5, <2>6, <2>7, <2>8 DEF TInv
<1>8. QED BY <1>6, <1>7

LEMMA TRemove == ASSUME TInv, RemoveOne PROVE TInv'
<1>1. /\ at = "inside" /\ job \in {"remove", "leave"} /\ idx \in Philosophers
      /\ philosopher_count \in 0 .. MAX_PHILOSOPHERS /\ idx < philosopher_count
  <2>1. /\ at = "inside" /\ job \in {"remove", "leave"} /\ idx \in -1 .. MAX_PHILOSOPHERS - 1 /\ idx >= 0
        /\ philosopher_count \in 0 .. MAX_PHILOSOPHERS /\ idx < philosopher_count
    BY DEF RemoveOne, TInv, TypeOK, HostCounts
  <2>2. QED BY <2>1, TKnown
<1>2. value[Table] = 0 /\ \A j \in Philosophers : ~AtTable(j)
  BY <1>1 DEF TInv, TableIsHeld
<1>3. /\ value \in [Sems -> {Closed, 0, 1}] /\ ring \in [Sems -> Seq(Processes \cup {Gone})]
      /\ pc \in [Philosophers -> PCs]
  BY DEF TInv, TypeOK, PCs
<1>4. PICK i \in Philosophers : i = idx
  BY <1>1
<1>5. CASE /\ MustWait(idx) /\ Post({Table})
           /\ at' = "wait" /\ unhindered' = FALSE
           /\ UNCHANGED <<table, job, idx, orderly, fed, served>>
  <2>1. PostedTo({Table}, value, ring) /\ {Table} \in SUBSET Sems /\ \A k \in {Table} : value[k] # 1
    BY <1>2, <1>5, TKnown DEF Post
  <2>2. /\ value' \in [Sems -> {Closed, 0, 1}] /\ ring' \in [Sems -> Seq(Processes \cup {Gone})]
        /\ \A k \in Sems : value'[k] = IF k \in {Table} /\ value[k] # Closed THEN 1 ELSE value[k]
    BY <1>3, <2>1, TPosts
  <2>3. value'[Table] = 1 /\ \A k \in Philosophers : value'[k] = value[k]
    BY <1>2, <2>2, TKnown
  <2>4. TypeOK'
    BY <1>1, <1>5, <2>2 DEF TInv, TypeOK, table
  <2>5. HostCounts'
    BY <1>1, <1>5 DEF TInv, HostCounts, table
  <2>6. TableIsHeld'
    BY <1>2, <1>5, <2>3 DEF TableIsHeld, AtTable, table
  <2>7. ASSUME NEW j \in Philosophers PROVE HungryAwaits(j)'
    BY <1>5, <2>3 DEF TInv, HungryAwaits, table
  <2>8. QED BY <2>4, <2>5, <2>6, <2>7 DEF TInv
<1>6. CASE ~MustWait(idx)
  <2> DEFINE v == [value EXCEPT ![i] = Closed]
             r == WithoutProcess(i, ring)
  <2>1. /\ pc' = [pc EXCEPT ![i] = "none"]
        /\ philosopher_states' = [philosopher_states EXCEPT ![i] = "NONE"]
        /\ philosopher_count' = philosopher_count - 1
        /\ PostedTo({Table}, v, r)
        /\ \/ job = "leave" /\ at' = "next" /\ job' = job /\ idx' = idx - 1
           \/ job = "remove" /\ at' = "read" /\ job' = job /\ idx' = idx
        /\ fed' \in BOOLEAN /\ served' \in BOOLEAN /\ UNCHANGED <<orderly, unhindered>>
    BY <1>1, <1>4, <1>6 DEF RemoveOne, Goes, TInv, TypeOK
  <2>2. /\ v \in [Sems -> {Closed, 0, 1}] /\ v[Table] = 0
        /\ \A k \in Sems : v[k] = IF k = i THEN Closed ELSE value[k]
    BY <1>2, <1>3, TKnown
  <2>3. r \in [Sems -> Seq(Processes \cup {Gone})]
    <3>1. ASSUME NEW k \in Sems
          PROVE  [n \in 1 .. Len(ring[k]) |-> IF ring[k][n] = i THEN Gone ELSE ring[k][n]]
                    \in Seq(Processes \cup {Gone})
      <4>1. ring[k] \in Seq(Processes \cup {Gone})
        BY <1>3
      <4>2. QED BY <4>1
    <3>2. <<>> \in Seq(Processes \cup {Gone})
      OBVIOUS
    <3>3. QED BY <3>1, <3>2 DEF WithoutProcess
  <2>4. {Table} \in SUBSET Sems /\ \A k \in {Table} : v[k] # 1
    BY <2>2, TKnown
  <2> HIDE DEF v, r
  <2>5. /\ value' \in [Sems -> {Closed, 0, 1}] /\ ring' \in [Sems -> Seq(Processes \cup {Gone})]
        /\ \A k \in Sems : value'[k] = IF k \in {Table} /\ v[k] # Closed THEN 1 ELSE v[k]
    BY <2>1, <2>2, <2>3, <2>4, TPosts
  <2>6. value'[Table] = 1 /\ \A k \in Philosophers : value'[k] = IF k = i THEN Closed ELSE value[k]
    BY <2>2, <2>5, TKnown
  <2>7. /\ pc' \in [Philosophers -> PCs] /\ \A j \in Philosophers : pc'[j] = IF j = i THEN "none" ELSE pc[j]
        /\ philosopher_states' \in [Philosophers -> {"NONE", "THINKING", "HUNGRY", "EATING"}]
        /\ \A j \in Philosophers : philosopher_states'[j] = IF j = i THEN "NONE" ELSE philosopher_states[j]
    BY <1>3, <2>1 DEF PCs, TInv, TypeOK
  <2>8. philosopher_count - 1 \in 0 .. MAX_PHILOSOPHERS /\ idx - 1 \in -1 .. MAX_PHILOSOPHERS - 1
    BY <1>1, TKnown
  <2>9. TypeOK'
    BY <1>1, <2>1, <2>5, <2>7, <2>8 DEF TInv, TypeOK, PCs
  <2>10. HostCounts'
    <3>1. CASE job = "leave"
      <4>1. \A j \in Philosophers : j > idx - 1 /\ pc'[j] # "none" => philosopher_count > idx + 1
        BY <1>1, <1>4, <2>7, <3>1, TKnown DEF TInv, HostCounts
      <4>2. at' = "next" /\ job' = "leave" /\ idx' = idx - 1 /\ philosopher_count' = philosopher_count - 1
        BY <2>1, <3>1
      <4>3. \A j \in Philosophers : j > idx' /\ pc'[j] # "none" => philosopher_count' > idx' + 1
        BY <1>1, <4>1, <4>2, TKnown
      <4>4. idx' < philosopher_count'
        BY <1>1, <4>2, TKnown
      <4>5. QED BY <4>2, <4>3, <4>4 DEF HostCounts
    <3>2. CASE job = "remove"
      <4>1. idx = philosopher_count - 1 /\ \A j \in Philosophers : pc[j] = "none" <=> j >= philosopher_count
        BY <1>1, <3>2 DEF TInv, HostCounts
      <4>2. \A j \in Philosophers : pc'[j] = "none" <=> j >= philosopher_count'
        BY <1>1, <1>4, <2>1, <2>7, <4>1, TKnown
      <4>3. QED BY <1>1, <2>1, <3>2, <4>2 DEF HostCounts
    <3>3. QED BY <1>1, <3>1, <3>2
  <2>11. TableIsHeld'
    BY <1>2, <2>1, <2>6, <2>7 DEF TableIsHeld, AtTable
  <2>12. ASSUME NEW j \in Philosophers PROVE HungryAwaits(j)'
    BY <2>6, <2>7, TKnown DEF TInv, HungryAwaits
  <2>13. QED BY <2>9, <2>10, <2>11, <2>12 DEF TInv
<1>7. QED BY <1>5, <1>6 DEF RemoveOne

LEMMA TStep == ASSUME TInv, [Next]_vars PROVE TInv'
<1>1. CASE UNCHANGED vars
  BY <1>1 DEF vars, table, host, sems, ghosts, TInv, TypeOK, HostCounts, TableIsHeld, AtTable, HungryAwaits
<1>2. ASSUME at # "gone", NEW i \in Philosophers, Philosopher(i) PROVE TInv'
  BY <1>2, TBegin, TSits, TQueues, TPickUp, TPutDown DEF Philosopher
<1>3. ASSUME HostSteps PROVE TInv'
  BY <1>3, THostTakes, TCreate, TRemove, THostWaits, TPassesOn, TLeave, TCommand DEF HostSteps, HostActs
<1>4. QED BY <1>1, <1>2, <1>3 DEF Next

(* The types, whoever comes and goes and is passed over: no semaphore of the
   table ever has two units, and the count is that of the philosophers
   (philosopher_process, pick_up_forks, put_down_forks, add and remove). *)
THEOREM PhyloTypes == Spec => []TypeOK
<1>1. TInv => TypeOK
  BY DEF TInv
<1>2. TInv /\ [Next]_vars => TInv'
  BY TStep
<1>3. QED BY <1>1, <1>2, TInit, PTL DEF Spec

-----------------------------------------------------------------------------
(* The steps and Going. *)
LEMMA GInit == Init => Going
<1> SUFFICES ASSUME Init PROVE Going
  OBVIOUS
<1>1. /\ \A k \in Sems : ring[k] = <<>> /\ Len(ring[k]) = 0
      /\ value[Table] = 1 /\ at = "lock" /\ job = "start"
      /\ \A i \in Philosophers : pc[i] = "none"
  BY TKnown DEF Init
<1>2. RingOfTable
  BY <1>1, TKnown DEF RingOfTable
<1>3. Enough
  BY <1>1 DEF Enough
<1>4. \A i \in Philosophers : OwnRing(i)
  BY <1>1, TKnown DEF OwnRing
<1>5. QED BY <1>2, <1>3, <1>4 DEF Going

(* In the ring of the table are philosophers and the host. *)
LEMMA GMembers ==
    ASSUME TInv, RingOfTable
    PROVE  /\ ring[Table] \in Seq(Philosophers \cup {Host})
           /\ \A i \in Philosophers : pc[i] \notin {"think", "eat"} => ~InRing(Table, i)
           /\ at # "lock" => ~InRing(Table, Host)
<1>1. ring[Table] \in Seq(Processes \cup {Gone}) /\ Len(ring[Table]) \in Nat
  BY TKnown DEF TInv, TypeOK
<1>2. \A n \in 1 .. Len(ring[Table]) : ring[Table][n] \in Philosophers \cup {Host}
  BY DEF RingOfTable, Wants
<1>3. QED BY <1>1, <1>2, TKnown DEF RingOfTable, Wants, InRing

(* The ring of the table after a step that leaves it alone. *)
LEMMA RingStays ==
    ASSUME RingOfTable, ring'[Table] = ring[Table], value'[Table] = value[Table],
           \A p : Wants(p) => Wants(p)',
           \A j \in Philosophers : AtTable(j)' <=> AtTable(j),
           at' = "gone" \/ (at' = "inside" <=> at = "inside"), at = "gone" => at' = "gone"
    PROVE  RingOfTable'
<1>1. \A n \in 1 .. Len(ring'[Table]) : Wants(ring'[Table][n])
  BY DEF RingOfTable
<1>2. ASSUME NEW n \in 1 .. Len(ring'[Table]) PROVE Wants(ring[Table][n])'
  <2>1. PICK p : p = ring'[Table][n]
    OBVIOUS
  <2>2. Wants(p)'
    BY <1>1, <2>1
  <2>3. QED BY <2>1, <2>2
<1>3. value[Table] = 1 /\ ring[Table] # <<>> => \E p \in Philosophers \cup {Host} : Wants(p)' /\ ~InRing(Table, p)'
  BY DEF RingOfTable, InRing
<1>4. QED BY <1>2, <1>3 DEF RingOfTable

LEMMA TailOfOne ==
    ASSUME NEW S, NEW q \in Seq(S), q # <<>>, Len(q) <= 1
    PROVE  Len(Tail(q)) = 0
<1>1. Len(q) \in Nat /\ Len(q) # 0
  OBVIOUS
<1>2. Len(Tail(q)) = Len(q) - 1
  OBVIOUS
<1>3. QED BY <1>1, <1>2

(* The ring after a post of the table: who was first comes. *)
LEMMA RingAfterPost ==
    ASSUME TInv, RingOfTable, value'[Table] = 1,
           ring'[Table] = IF ring[Table] = <<>> THEN <<>> ELSE Tail(ring[Table]),
           \A p : InRing(Table, p) => (Wants(p) => Wants(p)')
    PROVE  RingOfTable'
<1> DEFINE q == ring[Table]
<1>1. q \in Seq(Philosophers \cup {Host}) /\ Len(q) \in Nat
  BY GMembers
<1>2. CASE q = <<>>
  <2>1. Len(ring'[Table]) = 0
    BY <1>2
  <2>2. QED BY <1>2, <2>1 DEF RingOfTable
<1>3. CASE q # <<>>
  <2>1. /\ ring'[Table] = Tail(q) /\ Len(Tail(q)) = Len(q) - 1
        /\ \A n \in 1 .. Len(Tail(q)) : Tail(q)[n] = q[n + 1] /\ n + 1 \in 1 .. Len(q)
    BY <1>1, <1>3
  <2>2. ASSUME NEW n \in 1 .. Len(q), NEW p, p = q[n] PROVE Wants(p)'
    BY <2>2 DEF RingOfTable, InRing
  <2>3. ASSUME NEW n \in 1 .. Len(ring'[Table]) PROVE Wants(ring[Table][n])'
    <3>1. PICK p : p = ring'[Table][n]
      OBVIOUS
    <3>2. p = q[n + 1] /\ n + 1 \in 1 .. Len(q)
      BY <2>1, <2>3, <3>1
    <3>3. Wants(p)'
      BY <2>2, <3>2
    <3>4. QED BY <3>1, <3>3
  <2>4. \A n, m \in 1 .. Len(ring'[Table]) : ring'[Table][n] = ring'[Table][m] => n = m
    <3> SUFFICES ASSUME NEW n \in 1 .. Len(ring'[Table]), NEW m \in 1 .. Len(ring'[Table]),
                        ring'[Table][n] = ring'[Table][m]
                 PROVE  n = m
      OBVIOUS
    <3>1. q[n + 1] = q[m + 1] /\ n + 1 \in 1 .. Len(q) /\ m + 1 \in 1 .. Len(q)
      BY <2>1
    <3>2. n + 1 = m + 1
      BY <3>1 DEF RingOfTable
    <3>3. n \in Int /\ m \in Int
      OBVIOUS
    <3>4. QED BY <3>2, <3>3
  <2>5. PICK p \in Philosophers \cup {Host} : p = q[1] /\ 1 \in 1 .. Len(q)
    BY <1>1, <1>3
  <2>6. Wants(p)'
    BY <2>2, <2>5
  <2>7. ~InRing(Table, p)'
    <3> SUFFICES ASSUME NEW n \in 1 .. Len(ring'[Table]), ring'[Table][n] = p PROVE FALSE
      BY DEF InRing
    <3>1. q[n + 1] = q[1] /\ n + 1 \in 1 .. Len(q) /\ n \in 1 .. Len(q)
      BY <2>1, <2>5
    <3>2. n + 1 = 1
      BY <2>5, <3>1 DEF RingOfTable
    <3>3. QED BY <3>2
  <2>8. \E x \in Philosophers \cup {Host} : Wants(x)' /\ ~InRing(Table, x)'
    BY <2>6, <2>7
  <2>9. value'[Table] # 0
    OBVIOUS
  <2> HIDE DEF q
  <2>10. QED BY <2>3, <2>4, <2>8, <2>9 DEF RingOfTable
<1>4. QED BY <1>2, <1>3

(* A ring of one's own, when nothing happens to it. *)
LEMMA OwnStays ==
    ASSUME TInv, Going, NEW j \in Philosophers,
           ring'[j] = ring[j], value'[j] = value[j],
           philosopher_states'[j] = philosopher_states[j], pc'[j] = "await" => pc[j] = "await"
    PROVE  OwnRing(j)'
BY DEF Going, OwnRing

(* Who is not hungry is in no ring of its own. *)
LEMMA OwnEmpty ==
    ASSUME TInv, Going, NEW j \in Philosophers, philosopher_states[j] # "HUNGRY"
    PROVE  ring[j] = <<>> /\ Len(ring[j]) = 0
<1>1. ring[j] \in Seq(Processes \cup {Gone}) /\ Len(ring[j]) \in Nat
  BY TKnown DEF TInv, TypeOK
<1>2. Len(ring[j]) = 0
  BY <1>1 DEF Going, OwnRing
<1>3. QED BY <1>1, <1>2

LEMMA GBegin == ASSUME TInv, Going, at # "gone", NEW i \in Philosophers, Begin(i) PROVE Going'
<1>1. /\ pc[i] = "new" /\ \A j \in Philosophers : pc'[j] = IF j = i THEN "think" ELSE pc[j]
      /\ \A j \in Philosophers : philosopher_states'[j] = IF j = i THEN "THINKING" ELSE philosopher_states[j]
      /\ UNCHANGED <<philosopher_count, at, job, idx, value, ring>>
  BY DEF Begin, host, sems, TInv, TypeOK
<1>2. RingOfTable'
  <2>1. (\A p : Wants(p) => Wants(p)') /\ \A j \in Philosophers : AtTable(j)' <=> AtTable(j)
    BY <1>1 DEF Wants, AtTable
  <2>2. QED BY <1>1, <2>1, RingStays DEF Going
<1>3. ASSUME NEW j \in Philosophers PROVE OwnRing(j)'
  <2>1. CASE j = i
    <3>1. philosopher_states[i] # "HUNGRY"
      BY <1>1 DEF TInv, HungryAwaits
    <3>2. Len(ring[i]) = 0
      BY <3>1, OwnEmpty
    <3>3. QED BY <1>1, <2>1, <3>2 DEF OwnRing
  <2>2. CASE j # i
    BY <1>1, <2>2, OwnStays
  <2>3. QED BY <2>1, <2>2
<1>4. QED BY <1>1, <1>2, <1>3 DEF Going, Enough

LEMMA GSits == ASSUME TInv, Going, at # "gone", NEW i \in Philosophers, Sits(i) PROVE Going'
<1>1. /\ pc[i] \in {"think", "eat", "await"} /\ Passes(i, WaitsFor(i))
      /\ \A j \in Philosophers \ {i} : pc'[j] = pc[j]
      /\ pc'[i] = IF pc[i] = "think" THEN "pick" ELSE IF pc[i] = "eat" THEN "put" ELSE "eat"
      /\ UNCHANGED <<philosopher_states, philosopher_count, at, job, idx, ring>>
  BY DEF Sits, Passes, host, TInv, TypeOK
<1>2. WaitsFor(i) = IF pc[i] = "await" THEN i ELSE Table
  BY <1>1 DEF WaitsFor
<1>3. PICK k \in Sems : k = WaitsFor(i) /\ Passes(i, k)
  BY <1>1, <1>2, TKnown
<1>4. /\ \A m \in Sems : value'[m] = IF m = k /\ value[k] = 1 THEN 0 ELSE value[m]
      /\ value[k] # 0 /\ ~InRing(k, i)
  <2>1. TypeOK /\ i \in Processes
    BY TKnown DEF TInv
  <2>2. ~InRing(k, i)
    BY <1>3 DEF Passes, InRing
  <2>3. QED BY <1>3, <2>1, <2>2, TWaits
<1>5. CASE pc[i] = "await"
  <2>1. k = i /\ value'[Table] = value[Table] /\ \A j \in Philosophers \ {i} : value'[j] = value[j]
    BY <1>2, <1>3, <1>4, <1>5, TKnown
  <2>2. RingOfTable'
    <3>1. (\A p : Wants(p) => Wants(p)') /\ \A j \in Philosophers : AtTable(j)' <=> AtTable(j)
      BY <1>1, <1>5 DEF Wants, AtTable
    <3>2. QED BY <1>1, <2>1, <3>1, RingStays DEF Going
  <2>3. ASSUME NEW j \in Philosophers PROVE OwnRing(j)'
    <3>1. CASE j = i
      BY <1>1, <1>5, <3>1 DEF Going, OwnRing
    <3>2. CASE j # i
      BY <1>1, <2>1, <3>2, OwnStays
    <3>3. QED BY <3>1, <3>2
  <2>4. QED BY <1>1, <2>2, <2>3 DEF Going, Enough
<1>6. CASE pc[i] # "await"
  <2>1. k = Table /\ \A j \in Philosophers : value'[j] = value[j]
    BY <1>2, <1>3, <1>4, <1>6, TKnown
  <2>2. AtTable(i)' /\ value'[Table] # 1
    BY <1>1, <1>4, <1>6, <2>1, TKnown DEF AtTable
  <2>3. ASSUME NEW n \in 1 .. Len(ring'[Table]) PROVE Wants(ring[Table][n])'
    <3>1. PICK p : p = ring[Table][n] /\ p = ring'[Table][n] /\ n \in 1 .. Len(ring[Table])
      BY <1>1
    <3>2. Wants(p) /\ p # i
      BY <1>4, <2>1, <3>1 DEF Going, RingOfTable, InRing
    <3>3. Wants(p)'
      BY <1>1, <3>2 DEF Wants
    <3>4. QED BY <3>1, <3>3
  <2>4. RingOfTable'
    BY <1>1, <2>2, <2>3 DEF Going, RingOfTable
  <2>5. ASSUME NEW j \in Philosophers PROVE OwnRing(j)'
    BY <1>1, <1>6, <2>1, OwnStays
  <2>6. QED BY <1>1, <2>4, <2>5 DEF Going, Enough
<1>7. QED BY <1>5, <1>6

(* The ring of the table when somebody blocks. *)
LEMMA RingAppended ==
    ASSUME TInv, RingOfTable, NEW i \in Processes, value[Table] = 0, value'[Table] = 0, at' = at,
           ring' = [ring EXCEPT ![Table] = Append(@, i)],
           \A n \in 1 .. Len(ring[Table]) : ring[Table][n] # i,
           Wants(i)', \A p : Wants(p) => Wants(p)',
           \A j \in Philosophers : AtTable(j)' <=> AtTable(j)
    PROVE  RingOfTable'
<1>1. ring \in [Sems -> Seq(Processes \cup {Gone})] /\ ring[Table] \in Seq(Processes \cup {Gone}) /\ Table \in Sems
  BY TKnown DEF TInv, TypeOK
<1>2. /\ Len(ring'[Table]) = Len(ring[Table]) + 1 /\ Len(ring[Table]) \in Nat
      /\ \A n \in 1 .. Len(ring'[Table]) : ring'[Table][n] = IF n <= Len(ring[Table]) THEN ring[Table][n] ELSE i
  BY <1>1
<1>3. ASSUME NEW n \in 1 .. Len(ring'[Table]) PROVE Wants(ring[Table][n])'
  <2>1. PICK p : p = ring'[Table][n]
    OBVIOUS
  <2>2. CASE n <= Len(ring[Table])
    <3>1. Wants(p)
      BY <1>2, <2>1, <2>2 DEF RingOfTable
    <3>2. Wants(p)'
      BY <3>1
    <3>3. QED BY <2>1, <3>2
  <2>3. CASE ~(n <= Len(ring[Table]))
    <3>1. p = i
      BY <1>2, <2>1, <2>3
    <3>2. QED BY <2>1, <3>1
  <2>4. QED BY <2>2, <2>3
<1>4. ASSUME NEW n \in 1 .. Len(ring'[Table]), NEW m \in 1 .. Len(ring'[Table]), ring'[Table][n] = ring'[Table][m]
      PROVE  n = m
  <2>1. n \in Int /\ m \in Int
    OBVIOUS
  <2>2. QED BY <1>2, <1>4, <2>1 DEF RingOfTable
<1>5. at' # "gone" => at' = "inside" \/ \E j \in Philosophers : AtTable(j)'
  BY DEF RingOfTable
<1>6. value'[Table] # 1
  OBVIOUS
<1>7. QED BY <1>3, <1>4, <1>5, <1>6 DEF RingOfTable

LEMMA GQueues == ASSUME TInv, Going, at # "gone", NEW i \in Philosophers, Queues(i) PROVE Going'
<1>1. /\ pc[i] \in {"think", "eat", "await"} /\ Blocks(i, WaitsFor(i))
      /\ UNCHANGED <<philosopher_states, philosopher_count, pc, at, job, idx, value>>
  BY DEF Queues, Blocks, table, host
<1>2. WaitsFor(i) = IF pc[i] = "await" THEN i ELSE Table
  BY <1>1 DEF WaitsFor
<1>3. PICK k \in Sems : k = WaitsFor(i) /\ Blocks(i, k)
  BY <1>1, <1>2, TKnown
<1>4. /\ value[k] = 0 /\ ring' = [ring EXCEPT ![k] = Append(@, i)]
      /\ \A n \in 1 .. Len(ring[k]) : ring[k][n] # i
  BY <1>3 DEF Blocks
<1>5. ring \in [Sems -> Seq(Processes \cup {Gone})] /\ ring[k] \in Seq(Processes \cup {Gone}) /\ i \in Processes
  BY TKnown DEF TInv, TypeOK
<1>6. /\ Len(ring'[k]) = Len(ring[k]) + 1 /\ Len(ring[k]) \in Nat
      /\ \A n \in 1 .. Len(ring'[k]) : ring'[k][n] = IF n <= Len(ring[k]) THEN ring[k][n] ELSE i
      /\ \A m \in Sems \ {k} : ring'[m] = ring[m]
  BY <1>4, <1>5
<1>7. CASE pc[i] = "await"
  <2>1. k = i /\ ring'[Table] = ring[Table] /\ \A j \in Philosophers \ {i} : ring'[j] = ring[j]
    BY <1>2, <1>3, <1>6, <1>7, TKnown
  <2>2. RingOfTable'
    <3>1. (\A p : Wants(p) => Wants(p)') /\ \A j \in Philosophers : AtTable(j)' <=> AtTable(j)
      BY <1>1 DEF Wants, AtTable
    <3>2. QED BY <1>1, <2>1, <3>1, RingStays DEF Going
  <2>3. OwnRing(i)'
    <3>1. Len(ring[i]) = 0
      BY <1>4, <1>6, <2>1 DEF Going, OwnRing
    <3>2. philosopher_states[i] = "HUNGRY"
      BY <1>4, <1>7, <2>1 DEF TInv, HungryAwaits, Going, OwnRing
    <3>3. Len(ring'[i]) = 1 /\ \A n \in 1 .. Len(ring'[i]) : ring'[i][n] = i
      BY <1>6, <2>1, <3>1
    <3>4. philosopher_states'[i] = "HUNGRY"
      BY <1>1, <3>2
    <3>5. QED BY <3>3, <3>4 DEF OwnRing
  <2>4. ASSUME NEW j \in Philosophers PROVE OwnRing(j)'
    BY <1>1, <2>1, <2>3, OwnStays
  <2>5. QED BY <1>1, <2>2, <2>4 DEF Going, Enough
<1>8. CASE pc[i] # "await"
  <2>1. k = Table /\ \A j \in Philosophers : ring'[j] = ring[j]
    BY <1>2, <1>3, <1>6, <1>8, TKnown
  <2>2. Wants(i)' /\ (\A p : Wants(p) => Wants(p)') /\ \A j \in Philosophers : AtTable(j)' <=> AtTable(j)
    BY <1>1, <1>8 DEF Wants, AtTable
  <2>3. RingOfTable'
    BY <1>1, <1>4, <1>5, <2>1, <2>2, RingAppended DEF Going
  <2>4. ASSUME NEW j \in Philosophers PROVE OwnRing(j)'
    BY <1>1, <2>1, OwnStays
  <2>5. QED BY <1>1, <2>3, <2>4 DEF Going, Enough
<1>9. QED BY <1>7, <1>8

LEMMA GPickUp == ASSUME TInv, Going, at # "gone", NEW i \in Philosophers, PickUp(i) PROVE Going'
<1> DEFINE ks == IF MayEat(i) THEN {i, Table} ELSE {Table}
<1>1. /\ pc[i] = "pick" /\ PostedTo(ks, value, ring)
      /\ \A j \in Philosophers : pc'[j] = IF j = i THEN "await" ELSE pc[j]
      /\ \A j \in Philosophers : philosopher_states'[j] =
            IF j = i THEN (IF MayEat(i) THEN "EATING" ELSE "HUNGRY") ELSE philosopher_states[j]
      /\ UNCHANGED <<philosopher_count, at, job, idx>>
  BY DEF PickUp, Post, host, TInv, TypeOK
<1>2. value[Table] = 0 /\ value[i] = 0
  BY <1>1, TKnown DEF TInv, TableIsHeld, AtTable, HungryAwaits, TypeOK
<1>3. ring[i] = <<>> /\ Len(ring[i]) = 0
  BY <1>1, OwnEmpty DEF TInv, HungryAwaits
<1>4. /\ value'[Table] = 1 /\ (MayEat(i) => value'[i] = 1)
      /\ \A j \in Philosophers \ {i} : value'[j] = value[j]
  BY <1>1, <1>2, TKnown DEF PostedTo
<1>5. /\ ring'[Table] = IF ring[Table] = <<>> THEN <<>> ELSE Tail(ring[Table])
      /\ ring'[i] = <<>> /\ \A j \in Philosophers \ {i} : ring'[j] = ring[j]
  BY <1>1, <1>2, <1>3, TKnown DEF PostedTo
<1>6. RingOfTable'
  <2>1. \A p : Wants(p) => Wants(p)'
    BY <1>1 DEF Wants
  <2>2. QED BY <1>4, <1>5, <2>1, RingAfterPost DEF Going
<1>7. ASSUME NEW j \in Philosophers PROVE OwnRing(j)'
  <2>1. CASE j = i
    <3>1. Len(ring'[i]) = 0
      BY <1>5
    <3>2. QED BY <1>1, <1>4, <2>1, <3>1 DEF OwnRing
  <2>2. CASE j # i
    BY <1>1, <1>4, <1>5, <2>2, OwnStays
  <2>3. QED BY <2>1, <2>2
<1>8. QED BY <1>1, <1>6, <1>7 DEF Going, Enough

LEMMA GPutDown == ASSUME TInv, Going, at # "gone", NEW i \in Philosophers, PutDown(i) PROVE Going'
<1> DEFINE st == philosopher_states
           l == LEFT_OF(i)
           r == RIGHT_OF(i)
           s1 == [st EXCEPT ![i] = "THINKING"]
           left == Starts(s1, l, LEFT_OF(l))
           s2 == IF left THEN [s1 EXCEPT ![l] = "EATING"] ELSE s1
           right == Starts(s2, r, RIGHT_OF(r))
           s3 == IF right THEN [s2 EXCEPT ![r] = "EATING"] ELSE s2
           ks == {Table} \cup {x \in {l} : left} \cup {x \in {r} : right}
           Told(j) == (left /\ j = l) \/ (right /\ j = r)
<1>1. /\ pc[i] = "put" /\ PostedTo(ks, value, ring) /\ st' = s3
      /\ \A j \in Philosophers : pc'[j] = IF j = i THEN "think" ELSE pc[j]
      /\ UNCHANGED <<philosopher_count, at, job, idx>>
  BY DEF PutDown, Post, host, TInv, TypeOK
<1>2. l \in Philosophers /\ r \in Philosophers
  BY <1>1, TSeats
<1>3. \A z \in Philosophers :
        /\ s1[z] = IF z = i THEN "THINKING" ELSE st[z]
        /\ s2[z] = IF left /\ z = l THEN "EATING" ELSE s1[z]
        /\ s3[z] = IF right /\ z = r THEN "EATING" ELSE s2[z]
  BY DEF TInv, TypeOK
<1>4. (left => s1[l] = "HUNGRY") /\ (right => s2[r] = "HUNGRY")
  BY DEF Starts
<1> HIDE DEF left, right, s1, s2, s3, l, r
<1>5. (left => l # i /\ st[l] = "HUNGRY") /\ (right => r # i /\ st[r] = "HUNGRY")
  BY <1>2, <1>3, <1>4
<1>6. value[Table] = 0
  BY <1>1, TKnown DEF TInv, TableIsHeld, AtTable
<1>7. /\ \A j \in Philosophers : Told(j) => j # i /\ st[j] = "HUNGRY" /\ pc[j] = "await" /\ value[j] = 0 /\ st'[j] = "EATING"
      /\ \A j \in Philosophers : ~Told(j) /\ j # i => st'[j] = st[j]
      /\ st'[i] = "THINKING"
  BY <1>1, <1>2, <1>3, <1>5, TKnown DEF TInv, HungryAwaits, TypeOK
<1>8. \A j \in Philosophers : j \in ks <=> Told(j)
  BY TKnown
<1>9. Table \in ks
  OBVIOUS
<1> HIDE DEF ks, Told
<1>10. /\ value'[Table] = 1
       /\ ring'[Table] = IF ring[Table] = <<>> THEN <<>> ELSE Tail(ring[Table])
  BY <1>1, <1>6, <1>9, TKnown DEF PostedTo
<1>11. /\ \A j \in Philosophers : Told(j) =>
            value'[j] = 1 /\ ring'[j] = IF ring[j] = <<>> THEN <<>> ELSE Tail(ring[j])
       /\ \A j \in Philosophers : ~Told(j) => value'[j] = value[j] /\ ring'[j] = ring[j]
  BY <1>1, <1>7, <1>8, TKnown DEF PostedTo
<1>12. RingOfTable'
  <2>1. \A p : Wants(p) => Wants(p)'
    BY <1>1 DEF Wants
  <2>2. QED BY <1>10, <2>1, RingAfterPost DEF Going
<1>13. ASSUME NEW j \in Philosophers PROVE OwnRing(j)'
  <2>1. CASE Told(j)
    <3>1. Len(ring[j]) <= 1 /\ ring[j] \in Seq(Processes \cup {Gone})
      BY TKnown DEF Going, OwnRing, TInv, TypeOK
    <3>2. value'[j] = 1 /\ ring'[j] = IF ring[j] = <<>> THEN <<>> ELSE Tail(ring[j])
      BY <1>11, <2>1
    <3>3. Len(ring'[j]) = 0
      <4>1. CASE ring[j] = <<>>
        BY <3>2, <4>1
      <4>2. CASE ring[j] # <<>>
        <5>1. PICK q \in Seq(Processes \cup {Gone}) : q = ring[j]
          BY <3>1
        <5>2. q # <<>> /\ Len(q) <= 1 /\ ring'[j] = Tail(q)
          BY <3>1, <3>2, <4>2, <5>1
        <5>3. QED BY <5>2, TailOfOne
      <4>3. QED BY <4>1, <4>2
    <3>4. QED BY <3>2, <3>3 DEF OwnRing
  <2>2. CASE j = i
    <3>1. Len(ring[i]) = 0 /\ ring'[i] = ring[i]
      BY <1>1, <1>7, <1>11, OwnEmpty DEF TInv, HungryAwaits
    <3>2. QED BY <1>1, <2>2, <3>1 DEF OwnRing
  <2>3. CASE ~Told(j) /\ j # i
    BY <1>1, <1>7, <1>11, <2>3, OwnStays
  <2>4. QED BY <2>1, <2>2, <2>3
<1>14. QED BY <1>1, <1>12, <1>13 DEF Going, Enough

LEMMA GHostTakes == ASSUME TInv, Going, HostTakes PROVE Going'
<1>1. /\ at = "lock" /\ UNCHANGED <<philosopher_states, philosopher_count, pc, job, idx>>
      /\ \A j \in Philosophers : AtTable(j)' <=> AtTable(j)
  BY DEF HostTakes, table, AtTable
<1>2. CASE Passes(Host, Table) /\ at' = "inside"
  <2>1. ~InRing(Table, Host) /\ ring' = ring
    BY <1>2 DEF Passes, InRing
  <2>2. value'[Table] = 0 /\ \A j \in Philosophers : value'[j] = value[j]
    BY <1>1, <1>2, TKnown DEF Passes, TInv, TypeOK, TableIsHeld
  <2>3. ASSUME NEW n \in 1 .. Len(ring'[Table]) PROVE Wants(ring[Table][n])'
    <3>1. PICK p : p = ring[Table][n] /\ p = ring'[Table][n] /\ n \in 1 .. Len(ring[Table])
      BY <2>1
    <3>2. Wants(p) /\ p # Host
      BY <2>1, <3>1 DEF Going, RingOfTable, InRing
    <3>3. Wants(p)'
      BY <1>1, <3>2 DEF Wants
    <3>4. QED BY <3>1, <3>3
  <2>4. RingOfTable'
    BY <1>2, <2>1, <2>2, <2>3 DEF Going, RingOfTable
  <2>5. ASSUME NEW j \in Philosophers PROVE OwnRing(j)'
    BY <1>1, <2>1, <2>2, OwnStays
  <2>6. QED BY <1>1, <1>2, <2>4, <2>5 DEF Going, Enough
<1>3. CASE Blocks(Host, Table) /\ UNCHANGED at
  <2>1. /\ value[Table] = 0 /\ ring' = [ring EXCEPT ![Table] = Append(@, Host)] /\ value' = value
        /\ \A n \in 1 .. Len(ring[Table]) : ring[Table][n] # Host
    BY <1>3 DEF Blocks
  <2>2. Wants(Host)' /\ \A p : Wants(p) => Wants(p)'
    BY <1>1, <1>3 DEF Wants
  <2>3. RingOfTable'
    BY <1>1, <1>3, <2>1, <2>2, TKnown, RingAppended DEF Going
  <2>4. \A j \in Philosophers : ring'[j] = ring[j]
    BY <2>1, TKnown DEF TInv, TypeOK
  <2>5. ASSUME NEW j \in Philosophers PROVE OwnRing(j)'
    BY <1>1, <2>1, <2>4, OwnStays
  <2>6. QED BY <1>1, <1>3, <2>3, <2>5 DEF Going, Enough
<1>4. QED BY <1>2, <1>3 DEF HostTakes

LEMMA GCommand == ASSUME TInv, Going, Command PROVE Going'
<1>1. /\ at = "read" /\ at' \in {"lock", "next"}
      /\ UNCHANGED <<philosopher_states, philosopher_count, pc, value, ring>>
      /\ \A j \in Philosophers : AtTable(j)' <=> AtTable(j)
  BY DEF Command, Goes, table, sems, AtTable
<1>2. RingOfTable'
  <2>1. \A p : Wants(p) => Wants(p)'
    BY <1>1 DEF Wants
  <2>2. QED BY <1>1, <2>1, RingStays DEF Going
<1>3. Enough'
  <2>1. MIN_PHILOSOPHERS <= philosopher_count /\ philosopher_count \in Nat
    BY <1>1, TKnown DEF Going, Enough, TInv, TypeOK
  <2>2. QED BY <1>1, <2>1, TKnown DEF Command, Goes, Enough
<1>4. ASSUME NEW j \in Philosophers PROVE OwnRing(j)'
  BY <1>1, OwnStays
<1>5. QED BY <1>2, <1>3, <1>4 DEF Going

LEMMA GPassesOn == ASSUME TInv, Going, PassesOn PROVE Going'
<1>1. /\ at = "next" /\ at' \in {"lock", "next"} /\ job' = job
      /\ UNCHANGED <<philosopher_states, philosopher_count, pc, value, ring>>
      /\ \A j \in Philosophers : AtTable(j)' <=> AtTable(j)
  BY DEF PassesOn, table, sems, AtTable
<1>2. RingOfTable'
  <2>1. \A p : Wants(p) => Wants(p)'
    BY <1>1 DEF Wants
  <2>2. QED BY <1>1, <2>1, RingStays DEF Going
<1>3. Enough'
  BY <1>1 DEF TInv, HostCounts, Going, Enough
<1>4. ASSUME NEW j \in Philosophers PROVE OwnRing(j)'
  BY <1>1, OwnStays
<1>5. QED BY <1>2, <1>3, <1>4 DEF Going

LEMMA GLeave == ASSUME TInv, Going, Leave PROVE Going'
<1>1. /\ at = "next" /\ at' = "gone" /\ UNCHANGED <<philosopher_states, philosopher_count, pc, job, idx>>
      /\ value' = [value EXCEPT ![Table] = Closed] /\ ring' = [ring EXCEPT ![Table] = <<>>]
  BY DEF Leave, table
<1>2. Len(ring'[Table]) = 0 /\ value'[Table] # 1
      /\ \A j \in Philosophers : ring'[j] = ring[j] /\ value'[j] = value[j]
  BY <1>1, TKnown DEF TInv, TypeOK
<1>3. RingOfTable'
  BY <1>1, <1>2 DEF RingOfTable
<1>4. Enough'
  BY <1>1 DEF TInv, HostCounts, Going, Enough
<1>5. ASSUME NEW j \in Philosophers PROVE OwnRing(j)'
  BY <1>1, <1>2, OwnStays
<1>6. QED BY <1>3, <1>4, <1>5 DEF Going

(* While the host is at the table, those in its ring are philosophers. *)
LEMMA GInside ==
    ASSUME TInv, Going, at = "inside", NEW i,
           \A j \in Philosophers \ {i} : pc'[j] = pc[j], ~InRing(Table, i)
    PROVE  \A p : InRing(Table, p) => (Wants(p) => Wants(p)')
<1>1. ~InRing(Table, Host)
  BY GMembers DEF Going
<1>2. QED BY <1>1 DEF Wants

LEMMA GCreate == ASSUME TInv, Going, NEW ok \in BOOLEAN, Create(ok) PROVE Going'
<1>1. /\ at = "inside" /\ job \in {"start", "add"} /\ UNCHANGED philosopher_states
      /\ idx = philosopher_count /\ philosopher_count \in Nat /\ idx \in Philosophers
  <2>1. /\ at = "inside" /\ job \in {"start", "add"} /\ UNCHANGED philosopher_states
        /\ idx = philosopher_count /\ philosopher_count \in 0 .. MAX_PHILOSOPHERS /\ idx < MAX_PHILOSOPHERS
    BY DEF Create, TInv, TypeOK, HostCounts
  <2>2. QED BY <2>1, TKnown
<1>2. value[Table] = 0 /\ value \in [Sems -> {Closed, 0, 1}]
  BY <1>1 DEF TInv, TableIsHeld, TypeOK
<1>3. PICK i \in Philosophers : i = idx
  BY <1>1
<1>4. pc[i] = "none"
  <2>1. \A j \in Philosophers : pc[j] = "none" <=> j >= philosopher_count
    BY <1>1 DEF TInv, HostCounts
  <2>2. i \in Nat /\ i = philosopher_count
    BY <1>1, <1>3, TKnown
  <2>3. QED BY <2>1, <2>2
<1>5. ~InRing(Table, i) /\ Len(ring[i]) = 0
  BY <1>4, GMembers, OwnEmpty DEF Going, TInv, HungryAwaits
<1>6. CASE ok
  <2> DEFINE v == [value EXCEPT ![i] = 0]
  <2>1. /\ \A j \in Philosophers : pc'[j] = IF j = i THEN "new" ELSE pc[j]
        /\ philosopher_count' = philosopher_count + 1
        /\ PostedTo({Table}, v, ring)
        /\ \/ at' = "lock" /\ job' = "start"
           \/ at' = "read" /\ job' = job /\ (job = "start" => idx + 1 >= MIN_PHILOSOPHERS)
    BY <1>1, <1>3, <1>6, TKnown DEF Create, Goes, TInv, TypeOK
  <2>2. v[Table] = 0 /\ \A k \in Sems : v[k] = IF k = i THEN 0 ELSE value[k]
    BY <1>2, TKnown
  <2> HIDE DEF v
  <2>3. /\ value'[Table] = 1 /\ ring'[Table] = IF ring[Table] = <<>> THEN <<>> ELSE Tail(ring[Table])
        /\ \A k \in Philosophers : value'[k] = (IF k = i THEN 0 ELSE value[k]) /\ ring'[k] = ring[k]
    BY <2>1, <2>2, TKnown DEF PostedTo
  <2>4. RingOfTable'
    BY <1>1, <1>5, <2>1, <2>3, GInside, RingAfterPost DEF Going
  <2>5. Enough'
    <3>1. job = "add" => philosopher_count >= MIN_PHILOSOPHERS
      BY DEF Going, Enough
    <3>2. QED BY <1>1, <2>1, <3>1, TKnown DEF Enough
  <2>6. ASSUME NEW j \in Philosophers PROVE OwnRing(j)'
    <3>1. CASE j = i
      BY <1>5, <2>1, <2>3, <3>1 DEF OwnRing
    <3>2. CASE j # i
      BY <1>1, <2>1, <2>3, <3>2, OwnStays
    <3>3. QED BY <3>1, <3>2
  <2>7. QED BY <2>4, <2>5, <2>6 DEF Going
<1>7. CASE ~ok
  <2>1. /\ PostedTo({Table}, value, ring) /\ UNCHANGED <<pc, philosopher_count>>
        /\ (at' = "next" /\ job' = "leave") \/ (at' = "read" /\ job' = job /\ job = "add")
    BY <1>1, <1>7 DEF Create, Goes, Post
  <2>2. /\ value'[Table] = 1 /\ ring'[Table] = IF ring[Table] = <<>> THEN <<>> ELSE Tail(ring[Table])
        /\ \A k \in Philosophers : value'[k] = value[k] /\ ring'[k] = ring[k]
    BY <1>2, <2>1, TKnown DEF PostedTo
  <2>3. RingOfTable'
    BY <1>1, <1>5, <2>1, <2>2, GInside, RingAfterPost DEF Going
  <2>4. Enough'
    BY <2>1 DEF Going, Enough
  <2>5. ASSUME NEW j \in Philosophers PROVE OwnRing(j)'
    BY <1>1, <2>1, <2>2, OwnStays
  <2>6. QED BY <2>3, <2>4, <2>5 DEF Going
<1>8. QED BY <1>6, <1>7

LEMMA GRemove == ASSUME TInv, Going, served', unhindered', RemoveOne PROVE Going'
<1>1. /\ at = "inside" /\ job \in {"remove", "leave"} /\ idx \in Philosophers
      /\ philosopher_count \in Nat
  <2>1. /\ at = "inside" /\ job \in {"remove", "leave"} /\ idx \in -1 .. MAX_PHILOSOPHERS - 1 /\ idx >= 0
        /\ philosopher_count \in 0 .. MAX_PHILOSOPHERS
    BY DEF RemoveOne, TInv, TypeOK, HostCounts
  <2>2. QED BY <2>1, TKnown
<1>2. value[Table] = 0 /\ value \in [Sems -> {Closed, 0, 1}] /\ ring \in [Sems -> Seq(Processes \cup {Gone})]
  BY <1>1 DEF TInv, TableIsHeld, TypeOK
<1>3. PICK i \in Philosophers : i = idx
  BY <1>1
<1> DEFINE v == [value EXCEPT ![i] = Closed]
           r == WithoutProcess(i, ring)
<1>4. /\ \A j \in Philosophers : pc'[j] = IF j = i THEN "none" ELSE pc[j]
      /\ \A j \in Philosophers : philosopher_states'[j] = IF j = i THEN "NONE" ELSE philosopher_states[j]
      /\ philosopher_count' = philosopher_count - 1
      /\ PostedTo({Table}, v, r)
      /\ (job = "leave" /\ at' = "next" /\ job' = job) \/ (job = "remove" /\ at' = "read" /\ job' = job)
      /\ ~QueuesForTable(i)
  BY <1>1, <1>3 DEF RemoveOne, Goes, TInv, TypeOK
<1>5. v[Table] = 0 /\ \A k \in Philosophers : k # i => v[k] = value[k]
  BY <1>2, TKnown
<1>6. ~InRing(Table, i)
  BY <1>4 DEF QueuesForTable, InRing
<1>7. ASSUME NEW k \in Sems, k # i, \A n \in 1 .. Len(ring[k]) : ring[k][n] # i
      PROVE  r[k] = ring[k]
  <2>1. r[k] = [n \in 1 .. Len(ring[k]) |-> IF ring[k][n] = i THEN Gone ELSE ring[k][n]]
    BY <1>7 DEF WithoutProcess
  <2>2. r[k] = [n \in 1 .. Len(ring[k]) |-> ring[k][n]]
    BY <1>7, <2>1
  <2>3. PICK q \in Seq(Processes \cup {Gone}) : q = ring[k]
    BY <1>2
  <2>4. q = [n \in 1 .. Len(q) |-> q[n]]
    OBVIOUS
  <2>5. QED BY <2>2, <2>3, <2>4
<1>8. r[Table] = ring[Table] /\ r[i] = <<>> /\ \A k \in Philosophers \ {i} : r[k] = ring[k]
  <2>1. r[Table] = ring[Table]
    BY <1>6, <1>7, TKnown DEF InRing
  <2>2. r[i] = <<>>
    BY TKnown DEF WithoutProcess
  <2>3. ASSUME NEW k \in Philosophers \ {i} PROVE r[k] = ring[k]
    <3>1. \A n \in 1 .. Len(ring[k]) : ring[k][n] # i
      BY DEF Going, OwnRing
    <3>2. QED BY <1>7, <3>1, TKnown
  <2>4. QED BY <2>1, <2>2, <2>3
<1> HIDE DEF v, r
<1>9. /\ value'[Table] = 1 /\ ring'[Table] = IF ring[Table] = <<>> THEN <<>> ELSE Tail(ring[Table])
      /\ ring'[i] = <<>>
      /\ \A k \in Philosophers \ {i} : value'[k] = value[k] /\ ring'[k] = ring[k]
  BY <1>4, <1>5, <1>8, TKnown DEF PostedTo
<1>10. RingOfTable'
  BY <1>1, <1>4, <1>6, <1>9, GInside, RingAfterPost DEF Going
<1>11. Enough'
  <2>1. job = "remove" => philosopher_count > MIN_PHILOSOPHERS
    BY <1>1 DEF Going, Enough
  <2>2. QED BY <1>1, <1>4, <2>1, TKnown DEF Enough
<1>12. ASSUME NEW j \in Philosophers PROVE OwnRing(j)'
  <2>1. CASE j = i
    <3>1. Len(ring'[i]) = 0
      BY <1>9
    <3>2. QED BY <1>4, <2>1, <3>1 DEF OwnRing
  <2>2. CASE j # i
    BY <1>4, <1>9, <2>2, OwnStays
  <2>3. QED BY <2>1, <2>2
<1>13. QED BY <1>10, <1>11, <1>12 DEF Going

LEMMA GStep ==
    ASSUME TInv, GInv, [Next]_vars
    PROVE  GInv'
<1> SUFFICES ASSUME orderly', served', unhindered' PROVE Going'
  BY DEF GInv
<1>1. CASE UNCHANGED vars
  BY <1>1 DEF GInv, Going, RingOfTable, Enough, OwnRing, Wants, InRing, AtTable, vars, table, host, sems, ghosts
<1>2. ASSUME at # "gone", NEW i \in Philosophers, Philosopher(i) PROVE Going'
  <2>1. Going
    BY <1>2, TPhilosopher DEF GInv, ghosts
  <2>2. QED BY <1>2, <2>1, GBegin, GSits, GQueues, GPickUp, GPutDown DEF Philosopher
<1>3. ASSUME HostSteps PROVE Going'
  <2>1. orderly /\ served /\ unhindered
    BY <1>3 DEF HostSteps, HostActs, HostTakes, Create, RemoveOne, HostWaits, PassesOn, Leave, Command, ghosts
  <2>2. Going
    BY <2>1 DEF GInv
  <2>3. ~HostWaits
    BY <2>2 DEF Going, Enough, HostWaits
  <2>4. QED BY <1>3, <2>2, <2>3, GHostTakes, GCreate, GRemove, GPassesOn, GLeave, GCommand DEF HostSteps, HostActs
<1>4. QED BY <1>1, <1>2, <1>3 DEF Next

(* Who is blocked by what: if all are, somebody is hungry for nobody's sake. *)
LEMMA GImplies ==
    ASSUME TInv, Inv, Going, fed
    PROVE  \/ at \in {"inside", "next", "gone"}
           \/ at \in {"lock", "wait"} /\ ~Waiting(Host)
           \/ \E i \in Philosophers : pc[i] # "none" /\ ~Waiting(i)
<1> SUFFICES ASSUME at \notin {"inside", "next", "gone"}, at \in {"lock", "wait"} => Waiting(Host),
                    \A i \in Philosophers : pc[i] # "none" => Waiting(i)
             PROVE  FALSE
  OBVIOUS
<1>1. at \in {"lock", "read"}
  BY DEF TInv, TypeOK, Going, Enough
<1>2. \A k \in Sems : k = Table \/ k \in Philosophers
  BY DEF Sems
<1>3. \A i \in Philosophers : pc[i] # "none" => InRing(Table, i) \/ InRing(i, i)
  BY <1>2 DEF Waiting, InRing, Going, OwnRing
<1>4. \A i \in Philosophers : InRing(i, i) => philosopher_states[i] = "HUNGRY" /\ pc[i] = "await"
  BY DEF InRing, Going, OwnRing, TInv, HungryAwaits
<1>5. \A i \in Philosophers : InRing(Table, i) => pc[i] \in {"think", "eat"}
  BY GMembers DEF Going
<1>6. \A i \in Philosophers : ~AtTable(i)
  BY <1>3, <1>4, <1>5 DEF AtTable
<1>7. value[Table] = 1
  BY <1>1, <1>6 DEF TInv, TableIsHeld, Going, RingOfTable
<1>8. at = "lock" => InRing(Table, Host)
  BY <1>1, <1>2, TKnown DEF Waiting, InRing, Going, OwnRing
<1>9. ring[Table] = <<>>
  <2> SUFFICES ASSUME ring[Table] # <<>> PROVE FALSE
    OBVIOUS
  <2>1. PICK p \in Philosophers \cup {Host} : Wants(p) /\ ~InRing(Table, p)
    BY <1>7 DEF Going, RingOfTable
  <2>2. QED BY <1>3, <1>4, <1>8, <2>1, TKnown DEF Wants
<1>10. \A p : ~InRing(Table, p)
  BY <1>9 DEF InRing
<1>11. at = "read"
  BY <1>1, <1>8, <1>10
<1>12. philosopher_count \in Nat \ {0} /\ philosopher_count <= MAX_PHILOSOPHERS
  BY <1>11, TKnown DEF Going, Enough, TInv, TypeOK
<1>13. \A i \in 0 .. philosopher_count - 1 : philosopher_states[i] = "HUNGRY"
  <2> TAKE i \in 0 .. philosopher_count - 1
  <2>1. i \in Philosophers /\ ~(i >= philosopher_count)
    BY <1>12, TKnown
  <2>2. pc[i] # "none"
    BY <2>1 DEF Inv, StateIsPlace
  <2>3. QED BY <1>3, <1>4, <1>10, <2>1, <2>2
<1>14. 0 \in 0 .. philosopher_count - 1 /\ Left(0, philosopher_count) \in 0 .. philosopher_count - 1
       /\ Right(0, philosopher_count) \in 0 .. philosopher_count - 1
  BY <1>12, Round
<1>15. philosopher_states[Left(0, philosopher_count)] = "EATING" \/ philosopher_states[Right(0, philosopher_count)] = "EATING"
  BY <1>13, <1>14 DEF Inv, Reasoned
<1>16. QED BY <1>13, <1>14, <1>15

(* The philosophers and the host never lock each other up, however many they are,
   until one was killed in the ring of the global semaphore or at its meal, or
   passed over, or added between a hungry one and the neighbour who ate, or the
   host has waited for one to put down its forks. *)
THEOREM NoneLockedUp == Spec => []SomebodyCanGoOn
<1>1. Init => IInv /\ GInv
  BY Initially, GInit DEF IInv, GInv
<1>2. TInv /\ IInv /\ GInv => SomebodyCanGoOn
  BY GImplies DEF IInv, GInv, SomebodyCanGoOn
<1>3. TInv /\ GInv /\ [Next]_vars => GInv'
  BY GStep
<1>4. TInv /\ [Next]_vars => TInv'
  BY TStep
<1>5. QED BY <1>1, <1>2, <1>3, <1>4, TInit, StepKeeps, PTL DEF Spec
=============================================================================
