--------------------------- MODULE PCBQueueProofs ---------------------------
(***************************************************************************)
(* For every size of the ring and of its counter: as long as the counter   *)
(* does not wrap, the ring keeps its shape and implements the queue that   *)
(* its header promises (Fifo).                                             *)
(***************************************************************************)
EXTENDS PCBQueue, SequenceTheorems, TLAPS

Inv == QTypeOK /\ RingShape

LEMMA Sizes ==
    MaxProcesses \in Nat /\ MaxProcesses > 0 /\ SizeMod \in Nat /\ SizeMod > 0
  BY RingOK DEF RingOK

LEMMA ModStep ==
    \A x \in 0 .. 2 * MaxProcesses - 1 :
        x % MaxProcesses = IF x < MaxProcesses THEN x ELSE x - MaxProcesses
  BY Sizes

LEMMA Wrapped ==
    /\ \A t \in Places, i \in 1 .. MaxProcesses :
          (t + i - 1) % MaxProcesses = IF t + i - 1 < MaxProcesses
                                       THEN t + i - 1 ELSE t + i - 1 - MaxProcesses
    /\ \A t \in Places, k \in 0 .. MaxProcesses :
          (t + k) % MaxProcesses = IF t + k < MaxProcesses THEN t + k ELSE t + k - MaxProcesses
<1>1. ASSUME NEW t \in Places, NEW i \in 1 .. MaxProcesses
      PROVE  (t + i - 1) % MaxProcesses = IF t + i - 1 < MaxProcesses
                                          THEN t + i - 1 ELSE t + i - 1 - MaxProcesses
  <2>1. t + i - 1 \in 0 .. 2 * MaxProcesses - 1
    BY Sizes DEF Places
  <2>2. QED BY <2>1, Sizes, ModStep DEF Places
<1>2. ASSUME NEW t \in Places, NEW k \in 0 .. MaxProcesses
      PROVE  (t + k) % MaxProcesses = IF t + k < MaxProcesses
                                      THEN t + k ELSE t + k - MaxProcesses
  <2>1. t + k \in 0 .. 2 * MaxProcesses - 1
    BY Sizes DEF Places
  <2>2. QED BY <2>1, Sizes, ModStep DEF Places
<1>3. QED BY <1>1, <1>2

(* The places of the entries, without %. *)
LEMMA Around ==
    ASSUME QTypeOK, size <= MaxProcesses
    PROVE  /\ \A i \in Places : NextPlace(i) = IF i + 1 < MaxProcesses THEN i + 1 ELSE 0
           /\ \A i \in 1 .. size : Place(i) = IF tail + i - 1 < MaxProcesses
                                              THEN tail + i - 1
                                              ELSE tail + i - 1 - MaxProcesses
           /\ (tail + size) % MaxProcesses = IF tail + size < MaxProcesses
                                             THEN tail + size
                                             ELSE tail + size - MaxProcesses
<1>1. tail \in 0 .. MaxProcesses - 1 /\ size \in Nat
  BY DEF QTypeOK, Places
<1>2. ASSUME NEW i \in Places
      PROVE  NextPlace(i) = IF i + 1 < MaxProcesses THEN i + 1 ELSE 0
  <2>1. i + 1 \in 0 .. 2 * MaxProcesses - 1
    BY Sizes DEF Places
  <2>2. (i + 1) % MaxProcesses = IF i + 1 < MaxProcesses THEN i + 1 ELSE i + 1 - MaxProcesses
    BY <2>1, Sizes, ModStep DEF Places
  <2>3. QED BY <2>2, Sizes DEF NextPlace, Places
<1>3. ASSUME NEW i \in 1 .. size
      PROVE  Place(i) = IF tail + i - 1 < MaxProcesses
                        THEN tail + i - 1 ELSE tail + i - 1 - MaxProcesses
  <2>1. tail + i - 1 \in 0 .. 2 * MaxProcesses - 1
    BY <1>1, Sizes
  <2>2. QED BY <1>1, <2>1, Sizes, ModStep DEF Place
<1>4. tail + size \in 0 .. 2 * MaxProcesses - 1
  BY <1>1, Sizes
<1>5. (tail + size) % MaxProcesses = IF tail + size < MaxProcesses
                                     THEN tail + size ELSE tail + size - MaxProcesses
  BY <1>1, <1>4, Sizes, ModStep
<1>6. QED BY <1>2, <1>3, <1>5

(* The entries seen as a sequence. *)
LEMMA ItemsAre ==
    ASSUME Inv
    PROVE  /\ Items \in Seq(Procs)
           /\ Len(Items) = size
           /\ \A i \in 1 .. size : Items[i] = queue[Place(i)]
<1>1. size \in Nat /\ \A i \in 1 .. size : queue[Place(i)] \in Procs
  BY Sizes DEF Inv, QTypeOK, RingShape
<1>2. QED BY <1>1 DEF Items

(* A call of enqueue_process on a ring that is not full. *)
LEMMA EnqueueKeeps ==
    ASSUME Inv, NEW p \in Procs, size # MaxProcesses, size + 1 < SizeMod, Enqueue(p)
    PROVE  Inv' /\ Items' = Append(Items, p) /\ result' = 0
<1> USE Sizes
<1>1. /\ head \in Places /\ tail \in Places /\ size \in Nat /\ size < MaxProcesses
      /\ head = (tail + size) % MaxProcesses
      /\ queue \in [Places -> Procs \cup {Null}]
  <2>1. size \in Nat /\ size <= MaxProcesses
    BY DEF Inv, QTypeOK, RingShape
  <2>2. QED BY <2>1 DEF Inv, QTypeOK, RingShape
<1>2. /\ queue' = [queue EXCEPT ![head] = p]
      /\ head' = NextPlace(head)
      /\ tail' = tail
      /\ result' = 0
      /\ size' = size + 1
  <2>1. size' = (size + 1) % SizeMod
    BY DEF Enqueue
  <2>2. QED BY <1>1, <2>1 DEF Enqueue
<1>3. /\ head = IF tail + size < MaxProcesses THEN tail + size ELSE tail + size - MaxProcesses
      /\ head' = IF head + 1 < MaxProcesses THEN head + 1 ELSE 0
  BY <1>1, <1>2, Around DEF Inv
<1>4. /\ head' \in Places
      /\ head' = IF tail + (size + 1) < MaxProcesses
                 THEN tail + (size + 1) ELSE tail + (size + 1) - MaxProcesses
  BY <1>1, <1>3 DEF Places
<1>5. QTypeOK'
  BY <1>1, <1>2, <1>4 DEF QTypeOK, Inv
<1>6. /\ \A i \in 1 .. size + 1 : Place(i)' = IF tail + i - 1 < MaxProcesses
                                             THEN tail + i - 1
                                             ELSE tail + i - 1 - MaxProcesses
      /\ head' = (tail' + size') % MaxProcesses
  <2>1. tail' + size' \in 0 .. 2 * MaxProcesses - 1
    BY <1>1, <1>2 DEF Places
  <2>2. head' = (tail' + size') % MaxProcesses
    BY <1>1, <1>2, <1>4, <2>1, ModStep DEF Places
  <2>3. ASSUME NEW i \in 1 .. size + 1
        PROVE  Place(i)' = IF tail + i - 1 < MaxProcesses
                           THEN tail + i - 1 ELSE tail + i - 1 - MaxProcesses
    <3>1. tail + i - 1 \in 0 .. 2 * MaxProcesses - 1
      BY <1>1 DEF Places
    <3>2. Place(i)' = (tail + i - 1) % MaxProcesses
      BY <1>2 DEF Place
    <3>3. QED BY <1>1, <3>1, <3>2, ModStep DEF Places
  <2>4. QED BY <2>2, <2>3
<1>7. \A i \in 1 .. size : Place(i) = IF tail + i - 1 < MaxProcesses
                                      THEN tail + i - 1 ELSE tail + i - 1 - MaxProcesses
  BY <1>1, Around DEF Inv
<1>8. ASSUME NEW i \in 1 .. size
      PROVE  /\ Place(i)' = Place(i)
             /\ Place(i) \in Places /\ Place(i) # head
             /\ queue'[Place(i)] = queue[Place(i)]
  <2>1. Place(i)' = Place(i)
    BY <1>1, <1>6, <1>7
  <2>2. Place(i) \in Places /\ Place(i) # head
    BY <1>1, <1>3, <1>7 DEF Places
  <2>3. QED BY <1>1, <1>2, <2>1, <2>2
<1>9. \A i \in 1 .. size + 1 : i = size + 1 => Place(i)' = head
  BY <1>1, <1>3, <1>6 DEF Places
<1>10. queue'[head] = p
  BY <1>1, <1>2
<1>11. RingShape'
  <2>1. ASSUME NEW i \in 1 .. size + 1
        PROVE  queue'[Place(i)'] \in Procs
    <3>1. CASE i \in 1 .. size
      BY <1>8, <3>1 DEF Inv, RingShape
    <3>2. CASE i = size + 1
      BY <1>1, <1>9, <1>10, <3>2
    <3>3. QED BY <1>1, <3>1, <3>2
  <2>2. size' <= MaxProcesses
    BY <1>1, <1>2
  <2>3. QED BY <1>2, <1>6, <2>1, <2>2 DEF RingShape
<1>12. Items' = Append(Items, p)
  <2>1. /\ Items \in Seq(Procs) /\ Len(Items) = size
        /\ \A i \in 1 .. size : Items[i] = queue[Place(i)]
    BY ItemsAre
  <2>2. Items' = [i \in 1 .. size + 1 |-> queue'[Place(i)']]
    BY <1>2 DEF Items
  <2>3. \A i \in 1 .. size + 1 : queue'[Place(i)'] = IF i = size + 1 THEN p ELSE Items[i]
    <3>1. ASSUME NEW i \in 1 .. size
          PROVE  queue'[Place(i)'] = Items[i]
      BY <1>1, <1>8, <2>1
    <3>2. ASSUME NEW i \in 1 .. size + 1, i = size + 1
          PROVE  queue'[Place(i)'] = p
      BY <1>1, <1>9, <1>10, <3>2
    <3>3. ASSUME NEW i \in 1 .. size + 1
          PROVE  queue'[Place(i)'] = IF i = size + 1 THEN p ELSE Items[i]
      BY <1>1, <3>1, <3>2
    <3>4. QED BY <3>3
  <2>4. /\ Items' \in Seq(Procs) /\ Len(Items') = size + 1
        /\ \A i \in 1 .. size + 1 : Items'[i] = IF i = size + 1 THEN p ELSE Items[i]
    <3>1. \A i \in 1 .. size + 1 : queue'[Place(i)'] \in Procs
      BY <1>2, <1>11 DEF RingShape
    <3>2. QED BY <1>1, <2>2, <2>3, <3>1
  <2>5. /\ Append(Items, p) \in Seq(Procs) /\ Len(Append(Items, p)) = size + 1
        /\ \A i \in 1 .. size : Append(Items, p)[i] = Items[i]
        /\ Append(Items, p)[size + 1] = p
    BY <2>1, AppendProperties
  <2>6. \A i \in 1 .. size + 1 : Items'[i] = Append(Items, p)[i]
    BY <1>1, <2>4, <2>5
  <2>7. QED BY <2>4, <2>5, <2>6, SeqEqual
<1>13. QED BY <1>2, <1>5, <1>11, <1>12 DEF Inv

(* A call of dequeue_process on a ring that is not empty. *)
LEMMA DequeueKeeps ==
    ASSUME Inv, size # 0, Dequeue
    PROVE  /\ Inv'
           /\ Items # <<>> /\ Items' = Tail(Items) /\ result' = Head(Items)
<1> USE Sizes
<1>1. /\ head \in Places /\ tail \in Places
      /\ size \in Nat /\ size > 0 /\ size <= MaxProcesses /\ size \in 0 .. SizeMod - 1
      /\ head = (tail + size) % MaxProcesses
      /\ queue \in [Places -> Procs \cup {Null}]
  <2>1. size \in Nat /\ size <= MaxProcesses
    BY DEF Inv, QTypeOK, RingShape
  <2>2. QED BY <2>1 DEF Inv, QTypeOK, RingShape
<1>2. /\ queue' = queue /\ head' = head
      /\ tail' = NextPlace(tail)
      /\ result' = queue[tail]
      /\ size' = size - 1
  BY DEF Dequeue
<1>3. /\ tail' = IF tail + 1 < MaxProcesses THEN tail + 1 ELSE 0
      /\ head = IF tail + size < MaxProcesses THEN tail + size ELSE tail + size - MaxProcesses
  BY <1>1, <1>2, Around DEF Inv
<1>4. tail' \in Places
  BY <1>1, <1>3 DEF Places
<1>5. \A i \in 1 .. size : Place(i) = IF tail + i - 1 < MaxProcesses
                                      THEN tail + i - 1 ELSE tail + i - 1 - MaxProcesses
  BY <1>1, Around DEF Inv
<1>6. Place(1) = tail
  BY <1>1, <1>5 DEF Places
<1>7. ASSUME NEW i \in 1 .. size - 1
      PROVE  Place(i)' = Place(i + 1)
  <2>1. i \in 1 .. MaxProcesses
    BY <1>1
  <2>2. Place(i)' = (tail' + i - 1) % MaxProcesses
    BY DEF Place
  <2>3. Place(i)' = IF tail' + i - 1 < MaxProcesses
                    THEN tail' + i - 1 ELSE tail' + i - 1 - MaxProcesses
    BY <1>4, <2>1, <2>2, Wrapped
  <2>4. Place(i + 1) = IF tail + i < MaxProcesses THEN tail + i ELSE tail + i - MaxProcesses
    BY <1>1, <1>5
  <2>5. QED BY <1>1, <1>3, <2>3, <2>4 DEF Places
<1>8. head' = (tail' + size') % MaxProcesses
  <2>1. size' \in 0 .. MaxProcesses
    BY <1>1, <1>2
  <2>2. (tail' + size') % MaxProcesses = IF tail' + size' < MaxProcesses
                                         THEN tail' + size' ELSE tail' + size' - MaxProcesses
    BY <1>4, <2>1, Wrapped
  <2>3. QED BY <1>1, <1>2, <1>3, <2>2 DEF Places
<1>9. queue[tail] \in Procs
  BY <1>1, <1>6 DEF Inv, RingShape
<1>10. QTypeOK'
  BY <1>1, <1>2, <1>4, <1>9 DEF QTypeOK
<1>11. RingShape'
  <2>1. ASSUME NEW i \in 1 .. size - 1
        PROVE  queue'[Place(i)'] \in Procs
    BY <1>1, <1>2, <1>7 DEF Inv, RingShape
  <2>2. size' <= MaxProcesses
    BY <1>1, <1>2
  <2>3. QED BY <1>2, <1>8, <2>1, <2>2 DEF RingShape
<1>12. /\ Items \in Seq(Procs) /\ Len(Items) = size
       /\ \A i \in 1 .. size : Items[i] = queue[Place(i)]
  BY ItemsAre
<1>13. Items # <<>> /\ Head(Items) = queue[tail]
  <2>1. Items # <<>>
    BY <1>1, <1>12, EmptySeq
  <2>2. Head(Items) = Items[1]
    BY <1>12, <2>1
  <2>3. QED BY <1>1, <1>6, <1>12, <2>1, <2>2
<1>14. Items' = Tail(Items)
  <2>1. Items' = [i \in 1 .. size - 1 |-> queue[Place(i)']]
    BY <1>2 DEF Items
  <2>2. /\ Tail(Items) \in Seq(Procs) /\ Len(Tail(Items)) = size - 1
        /\ \A i \in 1 .. size - 1 : Tail(Items)[i] = Items[i + 1]
    BY <1>12, <1>13, HeadTailProperties
  <2>3. \A i \in 1 .. size - 1 : queue[Place(i)'] = Items[i + 1]
    BY <1>1, <1>7, <1>12
  <2>4. \A i \in 1 .. size - 1 : queue[Place(i)'] \in Procs
    BY <1>2, <1>11 DEF RingShape
  <2>5. /\ Items' \in Seq(Procs) /\ Len(Items') = size - 1
        /\ \A i \in 1 .. size - 1 : Items'[i] = Items[i + 1]
    BY <1>1, <2>1, <2>3, <2>4
  <2>6. QED BY <2>2, <2>5, SeqEqual
<1>15. QED BY <1>2, <1>10, <1>11, <1>13, <1>14 DEF Inv

-----------------------------------------------------------------------------
LEMMA Initially == QInit => Inv /\ Items = <<>>
<1> SUFFICES ASSUME QInit PROVE Inv /\ Items = <<>>
  OBVIOUS
<1> USE Sizes DEF QInit
<1>1. 0 \in Places
  BY DEF Places
<1>2. QTypeOK
  BY <1>1 DEF QTypeOK
<1>3. 0 % MaxProcesses = 0
  BY ModStep
<1>4. RingShape
  BY <1>3 DEF RingShape
<1>5. Items = <<>>
  BY DEF Items
<1>6. QED BY <1>2, <1>4, <1>5 DEF Inv

LEMMA StepKeeps ==
    Inv /\ [CountedNext]_qvars => Inv' /\ [Promise!Next]_<<Items, result>>
<1> SUFFICES ASSUME Inv, [CountedNext]_qvars
             PROVE  Inv' /\ [Promise!Next]_<<Items, result>>
  OBVIOUS
<1>1. CASE UNCHANGED qvars
  <2>1. Inv'
    BY <1>1 DEF qvars, Inv, QTypeOK, RingShape, Place
  <2>2. Items' = Items /\ result' = result
    BY <1>1 DEF qvars, Items, Place
  <2>3. QED BY <2>1, <2>2
<1>2. CASE Dequeue
  <2>1. CASE size = 0
    <3>1. result' = Null /\ UNCHANGED <<queue, head, tail, size>>
      BY <1>2, <2>1 DEF Dequeue
    <3>2. Items' = Items
      BY <3>1 DEF Items, Place
    <3>3. Items = <<>>
      BY <2>1 DEF Items
    <3>4. Inv'
      BY <3>1 DEF Inv, QTypeOK, RingShape, Place
    <3>5. Promise!Dequeue
      BY <3>1, <3>2, <3>3 DEF Promise!Dequeue
    <3>6. QED BY <3>4, <3>5 DEF Promise!Next
  <2>2. CASE size # 0
    <3>1. Inv' /\ Items # <<>> /\ Items' = Tail(Items) /\ result' = Head(Items)
      BY <1>2, <2>2, DequeueKeeps
    <3>2. Promise!Dequeue
      BY <3>1 DEF Promise!Dequeue
    <3>3. QED BY <3>1, <3>2 DEF Promise!Next
  <2>3. QED BY <2>1, <2>2
<1>3. ASSUME size + 1 < SizeMod, NEW p \in Procs, Enqueue(p)
      PROVE  Inv' /\ [Promise!Next]_<<Items, result>>
  <2>1. Len(Items) = size /\ size \in Nat
    BY ItemsAre, Sizes DEF Inv, QTypeOK
  <2>2. CASE size = MaxProcesses
    <3>1. result' = -1 /\ UNCHANGED <<queue, head, tail, size>>
      BY <1>3, <2>2 DEF Enqueue
    <3>2. Items' = Items
      BY <3>1 DEF Items, Place
    <3>3. Inv'
      BY <3>1 DEF Inv, QTypeOK, RingShape, Place
    <3>4. Promise!Enqueue(p)
      BY <2>1, <2>2, <3>1, <3>2 DEF Promise!Enqueue
    <3>5. QED BY <3>3, <3>4 DEF Promise!Next
  <2>3. CASE size # MaxProcesses
    <3>1. Inv' /\ Items' = Append(Items, p) /\ result' = 0
      BY <1>3, <2>3, EnqueueKeeps
    <3>2. Len(Items) < MaxProcesses
      BY <2>1, <2>3, Sizes DEF Inv, RingShape
    <3>3. Promise!Enqueue(p)
      BY <3>1, <3>2 DEF Promise!Enqueue
    <3>4. QED BY <3>1, <3>3 DEF Promise!Next
  <2>4. QED BY <2>2, <2>3
<1>4. QED BY <1>1, <1>2, <1>3 DEF CountedNext

(* The indices stay inside the ring and the counter inside its width, and a call
   returns a process, NULL, 0 or -1. *)
THEOREM TypesCorrect == CountedSpec => []QTypeOK
<1>1. Inv => QTypeOK
  BY DEF Inv
<1>2. QED BY <1>1, Initially, StepKeeps, PTL DEF CountedSpec

(* No entry of the ring is overwritten before it is taken out, nor read before
   it is written, while fewer than SizeMod processes are in it. *)
THEOREM ShapeKept == CountedSpec => [](QTypeOK /\ RingShape)
<1>1. Inv => QTypeOK /\ RingShape
  BY DEF Inv
<1>2. QED BY <1>1, Initially, StepKeeps, PTL DEF CountedSpec

(* Then enqueue_process and dequeue_process are those of the header: first in,
   first out, -1 when the ring is full and NULL when it is empty. *)
THEOREM RingIsQueue == CountedSpec => KeepsPromise
<1>1. QInit => Promise!Init
  BY Initially DEF QInit, Promise!Init
<1>2. QED BY <1>1, Initially, StepKeeps, PTL DEF CountedSpec, KeepsPromise, Promise!Spec

=============================================================================
