---------------------------- MODULE MemoryProofs ----------------------------
(***************************************************************************)
(* For any memory and any sizes, what the two memory managers keep.        *)
(*                                                                         *)
(* First fit: nobody's memory is given away, because the fragments follow  *)
(* one another, none is empty, and each block that is held is the          *)
(* beginning of a fragment that is used, and of no other block (Separate). *)
(* And used_memory is the sum of what these fragments take.                *)
(*                                                                         *)
(* Buddy: the blocks that are listed and those that are held tile the      *)
(* memory (HeapOK), each where a block of its order may be.  A round of    *)
(* the loop of memory_free keeps that of the heap and of the block it      *)
(* carries (LoopOK); so does the splitting of memory_alloc (SplitHeap).    *)
(* What the lists and the holders have adds up to the memory (Balanced).   *)
(*                                                                         *)
(* At the end, the two together as MCMemory has them.                      *)
(***************************************************************************)
EXTENDS MCMemory, FiniteSetTheorems, SequenceTheorems, WellFoundedInduction, TLAPS

End(i) == page_frames[i].start + page_frames[i].size
Home(b, i) ==
    /\ page_frames[i].used /\ page_frames[i].start = b.start
    /\ b.size <= page_frames[i].size

Separate ==
    /\ \A i \in 1 .. Dim : page_frames[i].size > 0 /\ End(i) <= open
    /\ \A i, j \in 1 .. Dim : i < j => End(i) <= page_frames[j].start
    /\ open <= MemoryEnd + MemorySize
    /\ \A b \in held : \E i \in 1 .. Dim : Home(b, i)
    /\ \A b, c \in held : b.start = c.start => b = c

IInv == FTypeOK /\ (careful /\ modest => Separate)

(* What rounding up to a multiple of eight does to a size, and to one that is
   not larger than the memory. *)
LEMMA Rounded == \A n \in Nat : Aligned(n) \in Nat /\ Wrapped(n) \in Nat
  BY FirstFitOK, AllocatorOK DEF FirstFitOK, AllocatorOK, MemorySize, Aligned, Wrapped

(* ... and for what fits in the memory nothing wraps. *)
LEMMA RoundedUp ==
    ASSUME NEW n \in Nat \ {0}, n <= MemorySize
    PROVE  n <= Aligned(n) /\ Aligned(n) <= MemorySize
<1>1. MemorySize \in Nat /\ Word \in Nat /\ n + 7 < Word
  BY FirstFitOK, AllocatorOK DEF FirstFitOK, AllocatorOK, MemorySize
<1>2. Wrapped(n + 7) = n + 7
  BY <1>1 DEF Wrapped
<1>3. MemorySize % 8 = 0
  BY FirstFitOK DEF FirstFitOK
<1>4. QED BY <1>1, <1>2, <1>3 DEF Aligned

(* Marking a fragment leaves where the fragments are (memory_alloc, memory_free). *)
LEMMA Marked ==
    ASSUME FTypeOK, NEW i \in 1 .. Dim, NEW v \in BOOLEAN
    PROVE  LET new == [page_frames EXCEPT ![i].used = v] IN
           /\ new \in Seq(Fragments) /\ Len(new) = Dim
           /\ \A j \in 1 .. Dim : /\ new[j].start = page_frames[j].start
                                  /\ new[j].size = page_frames[j].size
                                  /\ j # i => new[j] = page_frames[j]
           /\ new[i].used = v
<1> DEFINE new == [page_frames EXCEPT ![i].used = v]
           frame == [page_frames[i] EXCEPT !.used = v]
<1>1. /\ page_frames \in [1 .. Dim -> Fragments] /\ Dim \in Nat
      /\ page_frames[i] \in Fragments
  BY DEF FTypeOK, Dim
<1>2. /\ frame \in Fragments /\ frame.used = v
      /\ frame.start = page_frames[i].start /\ frame.size = page_frames[i].size
  BY <1>1 DEF Fragments
<1>3. new = [page_frames EXCEPT ![i] = frame]
  BY <1>1
<1>4. new \in [1 .. Dim -> Fragments]
  BY <1>1, <1>2, <1>3
<1>5. new \in Seq(Fragments) /\ Len(new) = Dim
  BY <1>1, <1>4
<1>6. new[i] = frame /\ \A j \in 1 .. Dim : j # i => new[j] = page_frames[j]
  BY <1>1, <1>3
<1>7. QED BY <1>2, <1>5, <1>6

(* What a list with one entry more has. *)
LEMMA Added ==
    ASSUME FTypeOK, NEW frame \in Fragments
    PROVE  LET new == Append(page_frames, frame) IN
           /\ new \in Seq(Fragments) /\ Len(new) = Dim + 1 /\ new[Dim + 1] = frame
           /\ \A j \in 1 .. Dim : new[j] = page_frames[j]
  BY DEF FTypeOK, Dim

(* The fragment in which a block lies is the only one that starts there. *)
LEMMA OneFragment ==
    ASSUME FTypeOK, Separate, NEW i \in 1 .. Dim, NEW j \in 1 .. Dim,
           page_frames[i].start = page_frames[j].start
    PROVE  i = j
<1>1. page_frames[i] \in Fragments /\ page_frames[j] \in Fragments
  BY DEF FTypeOK, Dim
<1>2. CASE i < j
  BY <1>1, <1>2 DEF Separate, End, Fragments, Dim
<1>3. CASE j < i
  BY <1>1, <1>3 DEF Separate, End, Fragments, Dim
<1>4. QED BY <1>2, <1>3 DEF Dim, FTypeOK

-----------------------------------------------------------------------------

(* At the start there is no fragment and nothing is held. *)
LEMMA TypesInit == FInit => IInv
<1> SUFFICES ASSUME FInit PROVE IInv
  OBVIOUS
<1>1. open \in Nat /\ Dim = 0 /\ held = {}
  BY Rounded, AllocatorOK DEF AllocatorOK, FInit, AInit, Dim, Aligned
<1>2. open = MemoryStart
  BY FirstFitOK, AllocatorOK DEF FirstFitOK, AllocatorOK, MemorySize, FInit, Aligned, Wrapped
<1>3. FTypeOK
  BY <1>1, FirstFitOK, AllocatorOK DEF FirstFitOK, AllocatorOK, FTypeOK, ATypeOK, FInit, AInit, MemorySize
<1>4. Separate
  BY <1>1, <1>2, AllocatorOK DEF AllocatorOK, Separate, MemorySize
<1>5. QED BY <1>3, <1>4 DEF IInv

(* Whatever is asked for or freed, the types stay. *)
LEMMA TypesStep == FTypeOK /\ [FNext]_fvars => FTypeOK'
<1> SUFFICES ASSUME FTypeOK, [FNext]_fvars PROVE FTypeOK'
  OBVIOUS
<1> USE DEF FTypeOK, ATypeOK
<1>0. /\ Word \in Nat /\ Word > 0
      /\ \A n \in Int : Wrapped(n) \in 0 .. Word - 1
      /\ \A i \in 1 .. Dim : page_frames[i] \in Fragments
  BY FirstFitOK, AllocatorOK DEF FirstFitOK, AllocatorOK, MemorySize, Wrapped, Dim
<1>1. ASSUME NEW size \in Sizes, Reuse(size) PROVE FTypeOK'
  <2>1. PICK i \in 1 .. Dim :
          /\ page_frames' = [page_frames EXCEPT ![i].used = TRUE]
          /\ used_memory' = Wrapped(used_memory + page_frames[i].size)
          /\ Given(page_frames[i].start, size)
          /\ UNCHANGED open
    BY <1>1 DEF Reuse, Fitting
  <2>2. page_frames' \in Seq(Fragments)
    BY <2>1, Marked
  <2>3. page_frames[i].size \in Nat /\ page_frames[i].start \in Nat
    BY <1>0 DEF Fragments
  <2>4. open' \in Nat /\ used_memory' \in 0 .. Word - 1
    BY <1>0, <2>1, <2>3
  <2>5. ATypeOK'
    BY <2>1, <2>3 DEF Given, Grants, ATypeOK
  <2>6. QED BY <2>2, <2>4, <2>5
<1>2. ASSUME NEW size \in Sizes, Extend(size) PROVE FTypeOK'
  <2>1. Aligned(size) \in Nat
    BY Rounded, AllocatorOK DEF AllocatorOK
  <2>2. [start |-> open, size |-> Aligned(size), used |-> TRUE] \in Fragments
    BY <2>1 DEF Fragments
  <2>3. page_frames' \in Seq(Fragments)
    BY <1>2, <2>2, Added DEF Extend
  <2>4. open' \in Nat /\ used_memory' \in 0 .. Word - 1
    BY <1>0, <1>2, <2>1 DEF Extend
  <2>5. ATypeOK'
    BY <1>2 DEF Extend, Given, Grants, ATypeOK
  <2>6. QED BY <2>3, <2>4, <2>5
<1>3. ASSUME NEW start, Release(start)
      PROVE  (page_frames' \in Seq(Fragments) /\ open' \in Nat /\ used_memory' \in 0 .. Word - 1)
  <2>1. PICK i \in 1 .. Dim :
          /\ page_frames' = Unused(i)
          /\ used_memory' = Wrapped(used_memory - page_frames[i].size)
          /\ UNCHANGED open
    BY <1>3 DEF Release
  <2>2. page_frames' \in Seq(Fragments)
    BY <2>1, Marked DEF Unused
  <2>3. page_frames[i].size \in Nat
    BY <1>0 DEF Fragments
  <2>4. used_memory' \in 0 .. Word - 1
    <3>1. used_memory - page_frames[i].size \in Int
      <4>1. used_memory \in Int
        BY FirstFitOK DEF FirstFitOK
      <4>2. QED BY <2>3, <4>1
    <3>2. QED BY <1>0, <2>1, <3>1
  <2>5. QED BY <2>1, <2>2, <2>4
<1>4. ASSUME NEW b \in held, FFree(b) PROVE FTypeOK'
  BY <1>3, <1>4 DEF FFree, GivenBack
<1>5. ASSUME NEW i \in 1 .. Dim, FFreeAgain(i) PROVE FTypeOK'
  BY <1>3, <1>5 DEF FFreeAgain, GivenBackByAnother
<1>6. CASE UNCHANGED fvars
  BY <1>6 DEF fvars, avars
<1>7. QED BY <1>1, <1>2, <1>4, <1>5, <1>6 DEF FNext

(* A block at the end. *)
LEMMA ExtendStep ==
    ASSUME FTypeOK, Separate, FTypeOK', NEW size \in Sizes, Extend(size), size <= MemorySize
    PROVE  Separate'
<1> DEFINE new == [start |-> open, size |-> Aligned(size), used |-> TRUE]
           block == [start |-> open, size |-> size]
<1>1. /\ size <= Aligned(size) /\ Aligned(size) <= MemorySize /\ size > 0
      /\ Aligned(size) \in Nat /\ size \in Nat /\ open \in Nat
  BY RoundedUp, Rounded, AllocatorOK DEF AllocatorOK, FTypeOK
<1>2. open' = open + Aligned(size)
  <2>1. /\ open + Aligned(size) \in Nat /\ Word \in Nat
        /\ open <= MemoryEnd /\ MemoryEnd \in Nat /\ MemorySize \in Nat
        /\ MemoryEnd + MemorySize + 8 <= Word
    BY <1>1, FirstFitOK, AllocatorOK DEF FirstFitOK, AllocatorOK, Extend, MemorySize
  <2>2. open + Aligned(size) < Word
    BY <1>1, <2>1
  <2>3. (open + Aligned(size)) % Word = open + Aligned(size)
    BY <2>1, <2>2
  <2>4. QED BY <2>3 DEF Extend, Wrapped
<1>3. /\ page_frames' = Append(page_frames, new) /\ Dim' = Dim + 1
      /\ Dim \in Nat /\ page_frames'[Dim + 1] = new
      /\ \A i \in 1 .. Dim : page_frames'[i] = page_frames[i]
      /\ \A i \in 1 .. Dim : page_frames[i] \in Fragments
      /\ (1 .. Dim)' = 1 .. Dim + 1 /\ \A i \in 1 .. Dim + 1 : i = Dim + 1 \/ i \in 1 .. Dim
  <2>1. new \in Fragments
    BY <1>1 DEF Fragments
  <2>2. page_frames' = Append(page_frames, new) /\ Dim \in Nat
    BY DEF Extend, FTypeOK, Dim
  <2>3. Dim' = Dim + 1
    BY <2>1, <2>2, Added DEF Dim
  <2>4. \A i \in 1 .. Dim : page_frames[i] \in Fragments
    BY DEF FTypeOK, Dim
  <2>5. QED BY <2>1, <2>2, <2>3, <2>4, Added
<1>4. held' = held \cup {block}
  BY DEF Extend, Given
<1>5. \A i \in (1 .. Dim)' : page_frames'[i].size > 0 /\ End(i)' <= open'
  <2> SUFFICES ASSUME NEW i \in 1 .. Dim + 1 PROVE page_frames'[i].size > 0 /\ End(i)' <= open'
    BY <1>3
  <2>1. CASE i = Dim + 1
    <3>1. page_frames'[i] = new
      BY <1>3, <2>1
    <3>2. new.size = Aligned(size) /\ new.start = open
      OBVIOUS
    <3>3. QED BY <1>1, <1>2, <3>1, <3>2 DEF End
  <2>2. CASE i \in 1 .. Dim
    <3>1. page_frames[i] \in Fragments /\ page_frames'[i] = page_frames[i]
      BY <1>3, <2>2
    <3>2. page_frames[i].start \in Nat /\ page_frames[i].size \in Nat
      BY <3>1 DEF Fragments
    <3>3. page_frames[i].size > 0 /\ End(i) <= open
      BY <2>2 DEF Separate
    <3>4. QED BY <1>1, <1>2, <3>1, <3>2, <3>3 DEF End
  <2>3. QED BY <2>1, <2>2, <1>3
<1>6. \A i, j \in (1 .. Dim)' : i < j => End(i)' <= page_frames'[j].start
  <2> SUFFICES ASSUME NEW i \in 1 .. Dim + 1, NEW j \in 1 .. Dim + 1, i < j
               PROVE  End(i)' <= page_frames'[j].start
    BY <1>3
  <2>1. i \in 1 .. Dim
    BY <1>3
  <2>2. CASE j = Dim + 1
    <3>1. page_frames'[j] = new /\ new.start = open
      BY <1>3, <2>2
    <3>2. End(i)' = End(i)
      BY <1>3, <2>1 DEF End
    <3>3. QED BY <2>1, <3>1, <3>2 DEF Separate
  <2>3. CASE j \in 1 .. Dim
    <3>1. page_frames'[i] = page_frames[i] /\ page_frames'[j] = page_frames[j]
      BY <1>3, <2>1, <2>3
    <3>2. End(i)' = End(i)
      BY <3>1 DEF End
    <3>3. End(i) <= page_frames[j].start
      BY <2>1, <2>3 DEF Separate
    <3>4. QED BY <3>1, <3>2, <3>3
  <2>4. QED BY <2>2, <2>3, <1>3
<1>7. (open <= MemoryEnd + MemorySize)'
  BY <1>1, <1>2, AllocatorOK DEF AllocatorOK, Extend, MemorySize
<1>8. \A b \in held' : \E i \in (1 .. Dim)' : Home(b, i)'
  <2> SUFFICES ASSUME NEW b \in held' PROVE \E i \in 1 .. Dim + 1 : Home(b, i)'
    BY <1>3
  <2>1. CASE b = block
    <3>1. PICK n : n = Dim + 1
      OBVIOUS
    <3>2. n \in 1 .. Dim + 1
      BY <1>3, <3>1
    <3>3. page_frames'[n] = new
      BY <1>3, <3>1
    <3>4. page_frames'[n].used /\ page_frames'[n].start = b.start /\ b.size <= page_frames'[n].size
      BY <1>1, <2>1, <3>3
    <3>5. QED BY <3>2, <3>4 DEF Home
  <2>2. CASE b \in held
    <3>1. PICK i \in 1 .. Dim : Home(b, i)
      BY <2>2 DEF Separate
    <3>2. i \in 1 .. Dim + 1
      BY <1>3
    <3>3. page_frames'[i] = page_frames[i]
      BY <1>3
    <3>4. QED BY <3>1, <3>2, <3>3 DEF Home
  <2>3. QED BY <2>1, <2>2, <1>4
<1>9. \A b, c \in held' : b.start = c.start => b = c
  <2>1. \A b \in held : b.start # open
    BY <1>3 DEF Separate, Home, End, Fragments
  <2>2. QED BY <2>1, <1>4 DEF Separate
<1>10. QED BY <1>5, <1>6, <1>7, <1>8, <1>9 DEF Separate

(* A fragment that is used again. *)
LEMMA ReuseStep ==
    ASSUME FTypeOK, Separate, FTypeOK', NEW size \in Sizes, Reuse(size), size <= MemorySize
    PROVE  Separate'
<1>1. PICK i \in 1 .. Dim :
        /\ ~page_frames[i].used /\ page_frames[i].size >= Aligned(size)
        /\ page_frames' = [page_frames EXCEPT ![i].used = TRUE]
        /\ held' = held \cup {[start |-> page_frames[i].start, size |-> size]}
        /\ open' = open
  BY DEF Reuse, Fitting, Fits, Given
<1> DEFINE block == [start |-> page_frames[i].start, size |-> size]
<1>2. /\ \A j \in 1 .. Dim : page_frames[j] \in Fragments
      /\ size <= Aligned(size) /\ Aligned(size) \in Nat /\ size \in Nat
  <2>1. \A j \in 1 .. Dim : page_frames[j] \in Fragments
    BY DEF FTypeOK, Dim
  <2>2. QED BY <2>1, RoundedUp, Rounded, AllocatorOK DEF AllocatorOK
<1>3. /\ Dim' = Dim /\ Dim \in Nat
      /\ \A j \in 1 .. Dim : /\ page_frames'[j].start = page_frames[j].start
                             /\ page_frames'[j].size = page_frames[j].size
                             /\ page_frames[j].used => page_frames'[j].used
      /\ page_frames'[i].used
  BY <1>1, <1>2 DEF FTypeOK, Dim, Fragments
<1>4. \A b \in held : b.start # page_frames[i].start
  BY <1>1, OneFragment DEF Separate, Home
<1>5. \A b \in held' : \E j \in (1 .. Dim)' : Home(b, j)'
  <2> SUFFICES ASSUME NEW b \in held' PROVE \E j \in 1 .. Dim : Home(b, j)'
    BY <1>3
  <2>1. CASE b = block
    BY <1>1, <1>2, <1>3, <2>1 DEF Home, Fragments
  <2>2. CASE b \in held
    BY <1>3, <2>2 DEF Home, Separate
  <2>3. QED BY <2>1, <2>2, <1>1
<1>6. \A b, c \in held' : b.start = c.start => b = c
  BY <1>1, <1>4 DEF Separate
<1>7. QED BY <1>1, <1>3, <1>5, <1>6 DEF Separate, End

(* A block that is given back by who holds it. *)
LEMMA FreeStep ==
    ASSUME FTypeOK, Separate, NEW b \in held, FFree(b)
    PROVE  Separate'
<1>1. PICK i \in 1 .. Dim :
        /\ page_frames[i].start = b.start
        /\ page_frames' = [page_frames EXCEPT ![i].used = FALSE]
        /\ held' = held \ {b}
        /\ open' = open
  BY DEF FFree, Release, Unused, GivenBack
<1>2. /\ Dim' = Dim
      /\ \A j \in 1 .. Dim : /\ page_frames'[j].start = page_frames[j].start
                             /\ page_frames'[j].size = page_frames[j].size
                             /\ j # i => page_frames'[j] = page_frames[j]
  BY <1>1 DEF FTypeOK, Dim, Fragments
<1>3. \A c \in held' : \E j \in (1 .. Dim)' : Home(c, j)'
  <2> SUFFICES ASSUME NEW c \in held' PROVE \E j \in 1 .. Dim : Home(c, j)'
    BY <1>2
  <2>1. c \in held /\ c.start # b.start
    BY <1>1 DEF Separate
  <2>2. PICK j \in 1 .. Dim : Home(c, j)
    BY <2>1 DEF Separate
  <2>3. j # i
    BY <1>1, <2>1, <2>2 DEF Home
  <2>4. QED BY <1>2, <2>2, <2>3 DEF Home
<1>4. QED BY <1>1, <1>2, <1>3 DEF Separate, End

(* Every call of memory_alloc and memory_free keeps the fragments apart. *)
LEMMA Inductive == IInv /\ [FNext]_fvars => IInv'
<1> SUFFICES ASSUME IInv, [FNext]_fvars PROVE IInv'
  OBVIOUS
<1>1. FTypeOK /\ FTypeOK'
  BY TypesStep DEF IInv
<1> SUFFICES ASSUME careful', modest' PROVE Separate'
  BY <1>1 DEF IInv
<1>2. ASSUME NEW size \in Sizes, Reuse(size) PROVE Separate'
  <2>1. careful /\ modest /\ size <= MemorySize
    BY <1>2 DEF Reuse, Given
  <2>2. QED BY <1>1, <1>2, <2>1, ReuseStep DEF IInv
<1>3. ASSUME NEW size \in Sizes, Extend(size) PROVE Separate'
  <2>1. careful /\ modest /\ size <= MemorySize
    BY <1>3 DEF Extend, Given
  <2>2. QED BY <1>1, <1>3, <2>1, ExtendStep DEF IInv
<1>4. ASSUME NEW b \in held, FFree(b) PROVE Separate'
  <2>1. careful /\ modest
    BY <1>4 DEF FFree, GivenBack
  <2>2. QED BY <1>1, <1>4, <2>1, FreeStep DEF IInv
<1>5. ASSUME NEW i \in 1 .. Dim, FFreeAgain(i) PROVE Separate'
  BY <1>5 DEF FFreeAgain, GivenBackByAnother
<1>6. CASE UNCHANGED fvars
  BY <1>6 DEF fvars, avars, IInv, Separate, End, Home, Dim
<1>7. QED BY <1>2, <1>3, <1>4, <1>5, <1>6 DEF FNext

(* Two blocks that are held lie in fragments that follow one another. *)
LEMMA SeparateIsEnough == IInv /\ modest => NoOverlap
<1> SUFFICES ASSUME IInv, modest, careful, NEW b \in held, NEW c \in held, b # c PROVE Apart(b, c)
  BY DEF NoOverlap
<1>1. FTypeOK /\ Separate /\ b.start # c.start
  BY DEF IInv, Separate
<1>2. PICK i \in 1 .. Dim : Home(b, i)
  BY <1>1 DEF Separate
<1>3. PICK j \in 1 .. Dim : Home(c, j)
  BY <1>1 DEF Separate
<1>4. /\ page_frames[i] \in Fragments /\ page_frames[j] \in Fragments
      /\ b.start \in Nat /\ b.size \in Nat /\ c.start \in Nat /\ c.size \in Nat
  <2>1. page_frames[i] \in Fragments /\ page_frames[j] \in Fragments
    BY <1>1 DEF FTypeOK, Dim
  <2>2. b \in Grants /\ c \in Grants
    BY <1>1 DEF FTypeOK, ATypeOK
  <2>3. QED BY <2>1, <2>2, AllocatorOK DEF AllocatorOK, Grants
<1>5. CASE i < j
  <2>1. End(i) <= page_frames[j].start
    BY <1>1, <1>5 DEF Separate
  <2>2. QED BY <1>2, <1>3, <1>4, <2>1 DEF Home, End, Apart, Fragments
<1>6. CASE j < i
  <2>1. End(j) <= page_frames[i].start
    BY <1>1, <1>6 DEF Separate
  <2>2. QED BY <1>2, <1>3, <1>4, <2>1 DEF Home, End, Apart, Fragments
<1>7. i # j
  BY <1>1, <1>2, <1>3 DEF Home
<1>8. QED BY <1>5, <1>6, <1>7

-----------------------------------------------------------------------------
(* Whatever is asked for and freed, the fragments are fragments and the numbers
   stay below the word (memory_alloc, memory_free). *)
THEOREM FirstFitTypes == FSpec => []FTypeOK
<1>1. FInit => FTypeOK
  BY TypesInit DEF IInv
<1>2. QED BY <1>1, TypesStep, PTL DEF FSpec

(* As long as everybody gives back only what it holds, and nobody has asked for
   more than the whole memory, no two blocks that are held overlap.  (For larger
   sizes this is not so: their rounding and their ends wrap.) *)
THEOREM FirstFitNeverOverlaps == FSpec => [](modest => NoOverlap)
<1>1. FSpec => []IInv
  BY TypesInit, Inductive, PTL DEF FSpec
<1>2. QED BY <1>1, SeparateIsEnough, PTL

-----------------------------------------------------------------------------
(* What the fragments that are used take: f[n] is what the first n take.  The sum
   is at hand as the function f, so that a step changes f and nothing need be
   summed up again. *)
Sums(f) ==
    /\ f \in [0 .. Dim -> Nat] /\ f[0] = 0
    /\ \A n \in 1 .. Dim : f[n] = f[n - 1] + Taken(n)

Owned == \A i \in 1 .. Dim : page_frames[i].used => \E b \in held : Home(b, i)
Counted == \E f : Sums(f) /\ used_memory = f[Dim]

UInv == IInv /\ (careful /\ modest => Owned /\ Counted)

(* A set of numbers has a least one. *)
LEMMA Least ==
    ASSUME NEW S \in SUBSET Nat, S # {}
    PROVE  \E m \in S : \A r \in S : m <= r
<1> DEFINE Upto(n) == S \cap 0 .. n
           T == {Upto(n) : n \in S}
<1>1. T \subseteq FiniteSubsetsOf(S) /\ T # {}
  <2>1. \A n \in S : IsFiniteSet(Upto(n))
    <3> TAKE n \in S
    <3>1. IsFiniteSet(0 .. n)
      BY FS_Interval
    <3>2. QED BY <3>1, FS_Subset
  <2>2. QED BY <2>1 DEF FiniteSubsetsOf
<1>2. PICK x \in T : \A y \in T : ~ (<<y, x>> \in StrictSubsetOrdering(S))
  <2>1. IsWellFoundedOn(StrictSubsetOrdering(S), FiniteSubsetsOf(S))
    BY FS_StrictSubsetOrderingWellFounded
  <2> HIDE DEF T
  <2>2. QED BY <1>1, <2>1, WFMin
<1>3. PICK m \in S : x = Upto(m)
  BY DEF T
<1>4. ASSUME NEW r \in S, r < m PROVE FALSE
  <2>1. Upto(r) \in T /\ Upto(r) \subseteq S /\ x \subseteq S
    BY <1>3
  <2>2. Upto(r) \subseteq x /\ Upto(r) # x
    <3>1. m \in x /\ m \notin Upto(r)
      BY <1>3, <1>4
    <3>2. Upto(r) \subseteq x
      BY <1>3, <1>4
    <3>3. QED BY <3>1, <3>2
  <2>3. <<Upto(r), x>> \in StrictSubsetOrdering(S)
    BY <2>1, <2>2, Zenon DEF StrictSubsetOrdering
  <2>4. QED BY <1>2, <2>1, <2>3
<1>5. QED BY <1>4

(* The fields of the fragments. *)
LEMMA Parts ==
    ASSUME FTypeOK
    PROVE  /\ Dim \in Nat
           /\ \A i \in 1 .. Dim : /\ page_frames[i].start \in Nat /\ page_frames[i].size \in Nat
                                  /\ page_frames[i].used \in BOOLEAN
           /\ \A i \in 1 .. Dim : Taken(i) \in Nat /\ Taken(i) <= page_frames[i].size
<1>1. Dim \in Nat /\ \A i \in 1 .. Dim : page_frames[i] \in Fragments
  BY DEF FTypeOK, Dim
<1>2. QED BY <1>1 DEF Fragments, Taken

(* What is used fits below the end of the last fragment, so it does not wrap. *)
LEMMA SumsFit ==
    ASSUME FTypeOK, Separate, NEW f \in [0 .. Dim -> Nat], f[0] = 0,
           NEW w, \A n \in 1 .. Dim : w[n] \in Nat /\ w[n] <= page_frames[n].size,
           \A n \in 1 .. Dim : f[n] = f[n - 1] + w[n]
    PROVE  f[Dim] <= open
<1> DEFINE S == {n \in 1 .. Dim : f[n] > End(n)}
<1>0. \A n \in 1 .. Dim : /\ n - 1 \in 0 .. Dim /\ f[n - 1] \in Nat /\ f[n] \in Nat /\ End(n) \in Nat
                          /\ n - 1 # 0 => n - 1 \in 1 .. Dim
  <2>1. \A n \in 1 .. Dim : n - 1 \in 0 .. Dim /\ n \in 0 .. Dim /\ (n - 1 # 0 => n - 1 \in 1 .. Dim)
    BY Parts
  <2>2. \A n \in 0 .. Dim : f[n] \in Nat
    OBVIOUS
  <2>3. \A n \in 1 .. Dim : End(n) \in Nat
    BY Parts DEF End
  <2>4. QED BY <2>1, <2>2, <2>3
<1>1. ASSUME S # {} PROVE FALSE
  <2>1. S \in SUBSET Nat
    BY Parts
  <2>2. PICK m \in S : \A r \in S : m <= r
    BY <1>1, <2>1, Least
  <2>3. m \in 1 .. Dim /\ f[m] > End(m) /\ m \in Nat
    BY Parts
  <2>4. f[m] = f[m - 1] + w[m] /\ w[m] <= page_frames[m].size /\ w[m] \in Nat
        /\ End(m) = page_frames[m].start + page_frames[m].size
    BY <2>3, Parts DEF End
  <2>5. f[m - 1] <= page_frames[m].start
    <3>1. CASE m - 1 = 0
      BY <2>3, <3>1, Parts
    <3>2. CASE m - 1 # 0
      <4>1. m - 1 \in 1 .. Dim /\ m - 1 < m
        BY <1>0, <2>3, <3>2
      <4>2. m - 1 \notin S
        BY <2>2, <2>3, <4>1
      <4>3. f[m - 1] <= End(m - 1)
        BY <1>0, <4>1, <4>2
      <4>4. End(m - 1) <= page_frames[m].start
        BY <2>3, <4>1 DEF Separate
      <4>5. QED BY <1>0, <2>3, <4>1, <4>3, <4>4, Parts
    <3>3. QED BY <3>1, <3>2
  <2>6. QED BY <1>0, <2>3, <2>4, <2>5, Parts
<1>2. CASE Dim = 0
  BY <1>2 DEF FTypeOK
<1>3. CASE Dim # 0
  <2>1. Dim \in 1 .. Dim
    BY <1>3, Parts
  <2>2. f[Dim] <= End(Dim) /\ End(Dim) <= open
    BY <1>0, <1>1, <2>1 DEF Separate
  <2>3. QED BY <1>0, <2>1, <2>2 DEF FTypeOK
<1>4. QED BY <1>2, <1>3

(* The recursive function of UsedMemoryIsHeld is that sum: there is a function
   that satisfies its equation, so the one that is chosen does. *)
LEMMA TakenIsSum ==
    ASSUME FTypeOK, NEW f, Sums(f)
    PROVE  LET taken[n \in 0 .. Dim] == IF n = 0 THEN 0 ELSE taken[n - 1] + Taken(n) IN
           taken[Dim] = f[Dim]
<1> DEFINE Step(g) == [n \in 0 .. Dim |-> IF n = 0 THEN 0 ELSE g[n - 1] + Taken(n)]
           h == CHOOSE g : g = Step(g)
           S == {n \in 0 .. Dim : f[n] # h[n]}
<1>1. f = Step(f)
  BY Parts DEF Sums
<1>2. h = Step(h)
  BY <1>1
<1> HIDE DEF h
<1>3. ASSUME S # {} PROVE FALSE
  <2>1. S \in SUBSET Nat
    BY Parts
  <2>2. PICK m \in S : \A r \in S : m <= r
    BY <1>3, <2>1, Least
  <2>3. m \in 0 .. Dim /\ f[m] # h[m]
    OBVIOUS
  <2>4. m # 0
    BY <1>2, <2>3, Parts DEF Sums
  <2>5. m - 1 \in 0 .. Dim /\ m - 1 < m
    BY <2>3, <2>4, Parts
  <2>6. f[m - 1] = h[m - 1]
    BY <2>2, <2>3, <2>5
  <2>7. f[m] = f[m - 1] + Taken(m)
    BY <2>3, <2>4 DEF Sums
  <2>8. h[m] = h[m - 1] + Taken(m)
    BY <1>2, <2>3, <2>4
  <2>9. QED BY <2>3, <2>6, <2>7, <2>8
<1>4. h[Dim] = f[Dim]
  <2>1. Dim \in 0 .. Dim
    BY Parts
  <2>2. QED BY <1>3, <2>1
<1>5. QED BY <1>4 DEF h

-----------------------------------------------------------------------------

(* At the start nothing is used. *)
LEMMA UInit == FInit => UInv
<1> SUFFICES ASSUME FInit PROVE UInv
  OBVIOUS
<1>1. Dim = 0 /\ used_memory = 0
  BY DEF FInit, Dim
<1>2. Sums([n \in 0 .. 0 |-> 0])
  BY <1>1 DEF Sums
<1>3. Counted
  BY <1>1, <1>2 DEF Counted
<1>4. Owned
  BY <1>1 DEF Owned
<1>5. QED BY <1>3, <1>4, TypesInit DEF UInv

(* What does not wrap. *)
LEMMA Below ==
    ASSUME NEW n \in Nat, n <= MemoryEnd + MemorySize
    PROVE  n % Word = n
<1>1. Word \in Nat /\ MemoryEnd + MemorySize + 8 <= Word /\ MemoryEnd + MemorySize \in Int
  BY FirstFitOK, AllocatorOK DEF FirstFitOK, AllocatorOK, MemorySize
<1>2. n < Word /\ Word > 0
  BY <1>1
<1>3. QED BY <1>1, <1>2

(* A fragment more. *)
LEMMA UExtend ==
    ASSUME FTypeOK, FTypeOK', Separate, Separate', Owned, Counted,
           NEW size \in Sizes, Extend(size), size <= MemorySize
    PROVE  Owned' /\ Counted'
<1> DEFINE new == [start |-> open, size |-> Aligned(size), used |-> TRUE]
<1>0. PICK block : block = [start |-> open, size |-> size]
  OBVIOUS
<1>1. size <= Aligned(size) /\ Aligned(size) \in Nat
  BY RoundedUp, Rounded, AllocatorOK DEF AllocatorOK
<1>2. /\ Dim' = Dim + 1 /\ Dim \in Nat /\ page_frames'[Dim + 1] = new
      /\ \A i \in 1 .. Dim : page_frames'[i] = page_frames[i]
  <2>1. new \in Fragments
    BY <1>1 DEF Fragments, FTypeOK
  <2>2. page_frames' = Append(page_frames, new) /\ Dim \in Nat
    BY DEF Extend, FTypeOK, Dim
  <2>3. Dim' = Dim + 1
    BY <2>1, <2>2, Added DEF Dim
  <2>4. QED BY <2>1, <2>2, <2>3, Added
<1>3. \A i \in 1 .. Dim + 1 : i = Dim + 1 \/ i \in 1 .. Dim
  BY <1>2
<1>4. held' = held \cup {block}
  BY <1>0 DEF Extend, Given
<1>5. Owned'
  <2> SUFFICES ASSUME NEW i \in 1 .. Dim + 1, page_frames'[i].used
               PROVE  \E b \in held' : Home(b, i)'
    BY <1>2 DEF Owned
  <2>1. CASE i = Dim + 1
    <3>1. Home(block, i)'
      BY <1>0, <1>1, <1>2, <2>1 DEF Home
    <3>2. QED BY <1>4, <3>1
  <2>2. CASE i \in 1 .. Dim
    <3>1. PICK b \in held : Home(b, i)
      BY <1>2, <2>2 DEF Owned
    <3>2. Home(b, i)'
      BY <1>2, <2>2, <3>1 DEF Home
    <3>3. QED BY <1>4, <3>2
  <2>3. QED BY <1>3, <2>1, <2>2
<1>6. PICK f : Sums(f) /\ used_memory = f[Dim]
  BY DEF Counted
<1>g. PICK g : g = [n \in 0 .. Dim + 1 |-> IF n = Dim + 1 THEN f[Dim] + Aligned(size) ELSE f[n]]
  OBVIOUS
<1>7. Sums(g)'
  <2>1. \A n \in 0 .. Dim : f[n] \in Nat /\ g[n] = f[n] /\ n \in 0 .. Dim + 1
    BY <1>2, <1>6, <1>g DEF Sums
  <2>2. g[Dim + 1] = f[Dim] + Aligned(size) /\ f[Dim] \in Nat /\ g[Dim] = f[Dim]
    BY <1>2, <1>6, <1>g DEF Sums
  <2>3. g \in [0 .. Dim + 1 -> Nat] /\ g[0] = 0
    BY <1>1, <1>2, <1>6, <1>g, <2>1, <2>2 DEF Sums
  <2>4. ASSUME NEW n \in 1 .. Dim + 1 PROVE g[n] = g[n - 1] + Taken(n)'
    <3>1. CASE n = Dim + 1
      <4>1. Taken(n)' = Aligned(size)
        BY <1>2, <3>1 DEF Taken
      <4>2. g[n - 1] = f[Dim]
        BY <1>2, <2>2, <3>1
      <4>3. QED BY <2>2, <3>1, <4>1, <4>2
    <3>2. CASE n \in 1 .. Dim
      <4>1. Taken(n)' = Taken(n)
        BY <1>2, <3>2 DEF Taken
      <4>2. n - 1 \in 0 .. Dim /\ n \in 0 .. Dim
        BY <1>2, <3>2
      <4>3. g[n - 1] = f[n - 1] /\ g[n] = f[n]
        BY <2>1, <4>2
      <4>4. QED BY <1>6, <3>2, <4>1, <4>3 DEF Sums
    <3>3. QED BY <1>3, <3>1, <3>2
  <2>5. QED BY <1>2, <2>3, <2>4 DEF Sums
<1>8. used_memory' = g[Dim']
  <2>1. g[Dim + 1] = f[Dim] + Aligned(size)
    BY <1>2, <1>g
  <2>2. g[Dim + 1] \in Nat
    BY <1>2, <1>7 DEF Sums
  <2>3. f[Dim] <= open
    <3> DEFINE w == [n \in 1 .. Dim |-> Taken(n)]
    <3>1. \A n \in 1 .. Dim : w[n] \in Nat /\ w[n] <= page_frames[n].size /\ f[n] = f[n - 1] + w[n]
      BY <1>6, Parts DEF Sums
    <3> HIDE DEF w
    <3>2. QED BY <1>6, <3>1, SumsFit DEF Sums
  <2>4. open <= MemoryEnd /\ f[Dim] \in Nat /\ Aligned(size) <= MemorySize
    BY <1>2, <1>6, RoundedUp, AllocatorOK DEF AllocatorOK, Extend, Sums
  <2>5. g[Dim + 1] <= MemoryEnd + MemorySize
    BY <1>1, <2>1, <2>3, <2>4, AllocatorOK DEF AllocatorOK, MemorySize, FTypeOK
  <2>6. g[Dim + 1] % Word = g[Dim + 1]
    BY <2>2, <2>5, Below
  <2>7. used_memory' = Wrapped(f[Dim] + Aligned(size))
    BY <1>6 DEF Extend
  <2>8. QED BY <1>2, <2>1, <2>6, <2>7 DEF Wrapped
<1>9. QED BY <1>5, <1>7, <1>8 DEF Counted

(* A fragment that is used again: from it on the sums have its size more. *)
LEMMA UReuse ==
    ASSUME FTypeOK, FTypeOK', Separate, Owned, Counted,
           NEW size \in Sizes, Reuse(size), size <= MemorySize
    PROVE  Owned' /\ Counted'
<1>1. PICK i \in 1 .. Dim :
        /\ ~page_frames[i].used /\ page_frames[i].size >= Aligned(size)
        /\ page_frames' = [page_frames EXCEPT ![i].used = TRUE]
        /\ used_memory' = Wrapped(used_memory + page_frames[i].size)
        /\ held' = held \cup {[start |-> page_frames[i].start, size |-> size]}
  BY DEF Reuse, Fitting, Fits, Given
<1>block. PICK block : block = [start |-> page_frames[i].start, size |-> size]
  OBVIOUS
<1>s. PICK s : s = page_frames[i].size
  OBVIOUS
<1>2. /\ Dim' = Dim /\ Dim \in Nat /\ s \in Nat
      /\ \A j \in 1 .. Dim : /\ page_frames'[j].start = page_frames[j].start
                             /\ page_frames'[j].size = page_frames[j].size
                             /\ j # i => page_frames'[j] = page_frames[j]
      /\ page_frames'[i].used
  BY <1>1, <1>s, Marked, Parts DEF Dim
<1>3. size <= s
  BY <1>1, <1>2, <1>s, RoundedUp, Rounded, AllocatorOK DEF AllocatorOK
<1>4. Owned'
  <2> SUFFICES ASSUME NEW j \in 1 .. Dim, page_frames'[j].used
               PROVE  \E b \in held' : Home(b, j)'
    BY <1>2 DEF Owned
  <2>1. CASE j = i
    <3>1. Home(block, j)'
      BY <1>block, <1>s, <1>2, <1>3, <2>1 DEF Home
    <3>2. QED BY <1>block, <1>1, <3>1
  <2>2. CASE j # i
    <3>1. PICK b \in held : Home(b, j)
      BY <1>2, <2>2 DEF Owned
    <3>2. Home(b, j)'
      BY <1>2, <2>2, <3>1 DEF Home
    <3>3. QED BY <1>1, <3>2
  <2>3. QED BY <2>1, <2>2
<1>5. PICK f : Sums(f) /\ used_memory = f[Dim]
  BY DEF Counted
<1>g. PICK g : g = [n \in 0 .. Dim |-> IF n >= i THEN f[n] + s ELSE f[n]]
  OBVIOUS
<1>6. \A n \in 0 .. Dim : f[n] \in Nat /\ g[n] \in Nat /\ g[n] = IF n >= i THEN f[n] + s ELSE f[n]
  <2> TAKE n \in 0 .. Dim
  <2>1. f[n] \in Nat
    BY <1>5 DEF Sums
  <2>2. g[n] = IF n >= i THEN f[n] + s ELSE f[n]
    BY <1>g
  <2>3. QED BY <1>2, <2>1, <2>2
<1>7. g \in [0 .. Dim -> Nat] /\ g[0] = 0
  BY <1>2, <1>5, <1>g, <1>6 DEF Sums
<1>8. ASSUME NEW n \in 1 .. Dim PROVE g[n] = g[n - 1] + Taken(n)'
  <2>1. n - 1 \in 0 .. Dim /\ n \in 0 .. Dim /\ f[n] = f[n - 1] + Taken(n)
    BY <1>2, <1>5 DEF Sums
  <2>2. CASE n = i
    <3>1. Taken(n) = 0 /\ Taken(n)' = s
      BY <1>s, <1>1, <1>2, <2>2 DEF Taken
    <3>2. QED BY <1>2, <1>6, <2>1, <2>2, <3>1
  <2>3. CASE n # i
    <3>1. Taken(n)' = Taken(n) /\ Taken(n) \in Nat
      BY <1>2, <2>3, Parts DEF Taken
    <3>2. n >= i <=> n - 1 >= i
      BY <2>3
    <3>3. QED BY <1>2, <1>6, <2>1, <3>1, <3>2
  <2>4. QED BY <2>2, <2>3
<1>9. g[Dim] = f[Dim] + s /\ g[Dim] \in Nat
  BY <1>2, <1>6
<1>10. g[Dim] <= open
  <2> DEFINE w == [n \in 1 .. Dim |-> Taken(n)']
  <2>1. \A n \in 1 .. Dim : w[n] \in Nat /\ w[n] <= page_frames[n].size /\ g[n] = g[n - 1] + w[n]
    BY <1>2, <1>8, Parts DEF Taken
  <2> HIDE DEF w
  <2>2. QED BY <1>7, <2>1, SumsFit
<1>11. g[Dim] % Word = g[Dim]
  <2>1. g[Dim] <= MemoryEnd + MemorySize
    BY <1>9, <1>10, AllocatorOK DEF AllocatorOK, MemorySize, Separate, FTypeOK
  <2>2. QED BY <1>9, <2>1, Below
<1>12. used_memory' = g[Dim]
  BY <1>s, <1>1, <1>5, <1>9, <1>11 DEF Wrapped
<1>13. Sums(g)'
  BY <1>2, <1>7, <1>8 DEF Sums
<1>14. QED BY <1>2, <1>4, <1>12, <1>13 DEF Counted

(* A fragment that is given back: from it on the sums have its size less.  It was
   used, so they had it. *)
LEMMA UFree ==
    ASSUME FTypeOK, FTypeOK', Separate, Owned, Counted, NEW b \in held, FFree(b)
    PROVE  Owned' /\ Counted'
<1>1. PICK i \in 1 .. Dim :
        /\ page_frames[i].start = b.start
        /\ page_frames' = [page_frames EXCEPT ![i].used = FALSE]
        /\ used_memory' = Wrapped(used_memory - page_frames[i].size)
        /\ held' = held \ {b}
  BY DEF FFree, Release, Unused, GivenBack
<1>s. PICK s : s = page_frames[i].size
  OBVIOUS
<1>2. /\ Dim' = Dim /\ Dim \in Nat /\ s \in Nat
      /\ \A j \in 1 .. Dim : /\ page_frames'[j].start = page_frames[j].start
                             /\ page_frames'[j].size = page_frames[j].size
                             /\ j # i => page_frames'[j] = page_frames[j]
      /\ ~page_frames'[i].used
  BY <1>1, <1>s, Marked, Parts DEF Dim
<1>3. page_frames[i].used
  <2>1. PICK j \in 1 .. Dim : Home(b, j)
    BY DEF Separate
  <2>2. j = i
    BY <1>1, <2>1, OneFragment DEF Home
  <2>3. QED BY <2>1, <2>2 DEF Home
<1>4. Owned'
  <2> SUFFICES ASSUME NEW j \in 1 .. Dim, page_frames'[j].used
               PROVE  \E c \in held' : Home(c, j)'
    BY <1>2 DEF Owned
  <2>1. j # i
    BY <1>2
  <2>2. PICK c \in held : Home(c, j)
    BY <1>2, <2>1 DEF Owned
  <2>3. c # b
    BY <1>1, <2>1, <2>2, OneFragment DEF Home
  <2>4. Home(c, j)'
    BY <1>2, <2>1, <2>2 DEF Home
  <2>5. QED BY <1>1, <2>2, <2>3, <2>4
<1>5. PICK f : Sums(f) /\ used_memory = f[Dim]
  BY DEF Counted
<1>6. \A n \in 0 .. Dim : f[n] \in Nat
  BY <1>5 DEF Sums
<1>7. ASSUME NEW n \in i .. Dim PROVE f[n] >= s
  <2> DEFINE S == {m \in i .. Dim : f[m] < s}
  <2>1. ASSUME S # {} PROVE FALSE
    <3>1. S \in SUBSET Nat
      BY <1>2
    <3>2. PICK m \in S : \A r \in S : m <= r
      BY <2>1, <3>1, Least
    <3>3. m \in 1 .. Dim /\ m - 1 \in 0 .. Dim /\ m \in 0 .. Dim /\ f[m] < s
      BY <1>2
    <3>4. f[m] = f[m - 1] + Taken(m) /\ Taken(m) \in Nat
      BY <1>5, <3>3, Parts DEF Sums
    <3>5. CASE m = i
      <4>1. Taken(m) = s
        BY <1>s, <1>3, <3>5 DEF Taken
      <4>2. QED BY <1>2, <1>6, <3>3, <3>4, <4>1
    <3>6. CASE m # i
      <4>1. m - 1 \in i .. Dim /\ m - 1 < m
        BY <1>2, <3>3, <3>6
      <4>2. m - 1 \notin S
        BY <3>2, <3>3, <4>1
      <4>3. ~(f[m - 1] < s)
        BY <4>1, <4>2
      <4>4. QED BY <1>2, <1>6, <3>3, <3>4, <4>3
    <3>7. QED BY <3>5, <3>6
  <2>2. f[n] \in Nat
    BY <1>2, <1>6
  <2>3. QED BY <1>2, <2>1, <2>2
<1>g. PICK g : g = [n \in 0 .. Dim |-> IF n >= i THEN f[n] - s ELSE f[n]]
  OBVIOUS
<1>8. \A n \in 0 .. Dim : g[n] \in Nat /\ g[n] = IF n >= i THEN f[n] - s ELSE f[n]
  <2> TAKE n \in 0 .. Dim
  <2>1. g[n] = IF n >= i THEN f[n] - s ELSE f[n]
    BY <1>g
  <2>2. f[n] \in Nat /\ (n >= i => f[n] >= s)
    BY <1>2, <1>6, <1>7
  <2>3. QED BY <1>2, <2>1, <2>2
<1>9. g \in [0 .. Dim -> Nat] /\ g[0] = 0
  BY <1>2, <1>5, <1>g, <1>8 DEF Sums
<1>10. ASSUME NEW n \in 1 .. Dim PROVE g[n] = g[n - 1] + Taken(n)'
  <2>1. n - 1 \in 0 .. Dim /\ n \in 0 .. Dim /\ f[n] = f[n - 1] + Taken(n) /\ f[n - 1] \in Nat
    BY <1>2, <1>5, <1>6 DEF Sums
  <2>2. CASE n = i
    <3>1. Taken(n) = s /\ Taken(n)' = 0
      BY <1>s, <1>2, <1>3, <2>2 DEF Taken
    <3>2. QED BY <1>2, <1>8, <2>1, <2>2, <3>1
  <2>3. CASE n # i
    <3>1. Taken(n)' = Taken(n) /\ Taken(n) \in Nat
      BY <1>2, <2>3, Parts DEF Taken
    <3>2. n >= i <=> n - 1 >= i
      BY <2>3
    <3>3. QED BY <1>2, <1>8, <2>1, <3>1, <3>2
  <2>4. QED BY <2>2, <2>3
<1>11. g[Dim] = f[Dim] - s /\ g[Dim] \in Nat /\ g[Dim] <= f[Dim]
  BY <1>2, <1>6, <1>8
<1>12. f[Dim] <= open
  <2> DEFINE w == [n \in 1 .. Dim |-> Taken(n)]
  <2>1. \A n \in 1 .. Dim : w[n] \in Nat /\ w[n] <= page_frames[n].size /\ f[n] = f[n - 1] + w[n]
    BY <1>5, Parts DEF Sums
  <2> HIDE DEF w
  <2>2. QED BY <1>5, <2>1, SumsFit DEF Sums
<1>13. g[Dim] % Word = g[Dim]
  <2>1. f[Dim] \in Nat
    BY <1>2, <1>6
  <2>2. g[Dim] <= MemoryEnd + MemorySize
    BY <1>11, <1>12, <2>1, AllocatorOK DEF AllocatorOK, MemorySize, Separate, FTypeOK
  <2>3. QED BY <1>11, <2>2, Below
<1>14. used_memory' = g[Dim]
  BY <1>1, <1>5, <1>11, <1>13, <1>s DEF Wrapped
<1>15. Sums(g)'
  BY <1>2, <1>9, <1>10 DEF Sums
<1>16. QED BY <1>2, <1>4, <1>14, <1>15 DEF Counted

(* Every call keeps the count. *)
LEMMA UStep == UInv /\ [FNext]_fvars => UInv'
<1> SUFFICES ASSUME UInv, [FNext]_fvars PROVE UInv'
  OBVIOUS
<1>1. FTypeOK /\ FTypeOK' /\ IInv'
  BY TypesStep, Inductive DEF UInv, IInv
<1> SUFFICES ASSUME careful', modest' PROVE Owned' /\ Counted'
  BY <1>1 DEF UInv
<1>2. ASSUME careful, modest PROVE Separate /\ Owned /\ Counted
  BY <1>2 DEF UInv, IInv
<1>3. ASSUME NEW size \in Sizes, Reuse(size) PROVE Owned' /\ Counted'
  <2>1. careful /\ modest /\ size <= MemorySize
    BY <1>3 DEF Reuse, Given
  <2>2. QED BY <1>1, <1>2, <1>3, <2>1, UReuse
<1>4. ASSUME NEW size \in Sizes, Extend(size) PROVE Owned' /\ Counted'
  <2>1. careful /\ modest /\ size <= MemorySize
    BY <1>4 DEF Extend, Given
  <2>2. Separate'
    BY <1>1 DEF IInv
  <2>3. QED BY <1>1, <1>2, <1>4, <2>1, <2>2, UExtend
<1>5. ASSUME NEW b \in held, FFree(b) PROVE Owned' /\ Counted'
  <2>1. careful /\ modest
    BY <1>5 DEF FFree, GivenBack
  <2>2. QED BY <1>1, <1>2, <1>5, <2>1, UFree
<1>6. ASSUME NEW i \in 1 .. Dim, FFreeAgain(i) PROVE Owned' /\ Counted'
  BY <1>6 DEF FFreeAgain, GivenBackByAnother
<1>7. CASE UNCHANGED fvars
  <2>1. careful /\ modest /\ Dim' = Dim /\ page_frames' = page_frames /\ held' = held /\ used_memory' = used_memory
    BY <1>7 DEF fvars, avars, Dim
  <2>2. Owned'
    BY <1>2, <2>1 DEF Owned, Home
  <2>3. PICK f : Sums(f) /\ used_memory = f[Dim]
    BY <1>2, <2>1 DEF Counted
  <2>4. Sums(f)' /\ used_memory' = f[Dim]
    BY <2>1, <2>3 DEF Sums, Taken
  <2>5. QED BY <2>1, <2>2, <2>4 DEF Counted
<1>8. QED BY <1>3, <1>4, <1>5, <1>6, <1>7 DEF FNext

(* UsedMemoryIsHeld says this with the recursive sum. *)
LEMMA CountedIsEnough == FTypeOK /\ (careful /\ modest => Owned /\ Counted) => UsedMemoryIsHeld
<1> SUFFICES ASSUME FTypeOK, Owned, Counted, careful, modest PROVE UsedMemoryIsHeld
  BY DEF UsedMemoryIsHeld
<1>1. PICK f : Sums(f) /\ used_memory = f[Dim]
  BY DEF Counted
<1>2. used_memory % Word = used_memory
  BY FirstFitOK DEF FTypeOK, FirstFitOK
<1>3. QED BY <1>1, <1>2, TakenIsSum DEF UsedMemoryIsHeld, Owned, Home

(* As long as everybody gives back only what it holds, and asks for no more than
   the whole memory, used_memory is what the fragments take that are held
   (memory_alloc, memory_free, memory_state_get), however many there are. *)
THEOREM FirstFitCountsWhatIsHeld == FSpec => []UsedMemoryIsHeld
<1>1. FSpec => []UInv
  BY UInit, UStep, PTL DEF FSpec
<1>2. UInv => UsedMemoryIsHeld
  BY CountedIsEnough DEF UInv, IInv
<1>3. QED BY <1>1, <1>2, PTL

-----------------------------------------------------------------------------
(* Size is what its recursive definition says: the function exists, on 0 .. n for
   every n. *)
Doubles(f, n) == f = [o \in 0 .. n |-> IF o = 0 THEN 1 ELSE 2 * f[o - 1]]

(* There is such a function for every n. *)
LEMMA DoublesExist == \A n \in Nat : \E f : Doubles(f, n)
<1> DEFINE S == {n \in Nat : ~ \E f : Doubles(f, n)}
<1>1. ASSUME S # {} PROVE FALSE
  <2>1. PICK m \in S : \A r \in S : m <= r
    BY <1>1, Least
  <2>2. m # 0
    <3>1. Doubles([o \in 0 .. 0 |-> 1], 0)
      BY DEF Doubles
    <3>2. QED BY <3>1
  <2>3. m \in Nat /\ m - 1 \in Nat /\ m - 1 \notin S
    BY <2>1, <2>2
  <2>4. PICK f : Doubles(f, m - 1)
    BY <2>3
  <2> DEFINE g == [o \in 0 .. m |-> IF o = m THEN 2 * f[m - 1] ELSE f[o]]
  <2>5. ASSUME NEW o \in 0 .. m PROVE g[o] = IF o = 0 THEN 1 ELSE 2 * g[o - 1]
    <3>1. CASE o = m
      BY <2>2, <2>3, <3>1
    <3>2. CASE o # m
      <4>1. o \in 0 .. m - 1 /\ g[o] = f[o]
        BY <2>3, <3>2
      <4>2. f[o] = IF o = 0 THEN 1 ELSE 2 * f[o - 1]
        BY <2>4, <4>1 DEF Doubles
      <4>3. o # 0 => g[o - 1] = f[o - 1]
        BY <2>3, <3>2, <4>1
      <4>4. QED BY <4>1, <4>2, <4>3
    <3>3. QED BY <3>1, <3>2
  <2>6. g = [o \in 0 .. m |-> g[o]]
    OBVIOUS
  <2> HIDE DEF g
  <2>7. Doubles(g, m)
    BY <2>5, <2>6 DEF Doubles
  <2>8. QED BY <2>7
<1>2. QED BY <1>1

(* The sizes of the orders double, and none is zero. *)
LEMMA SizeSteps ==
    /\ Size[0] = 1
    /\ \A o \in 0 .. MaxOrder : Size[o + 1] = 2 * Size[o]
    /\ MaxOrder \in Nat /\ MinLevel \in Nat /\ MinLevel <= MaxOrder
<1>1. MaxOrder \in Nat /\ MaxOrder + 1 \in Nat /\ MinLevel \in Nat /\ MinLevel <= MaxOrder
  BY BuddyOK DEF BuddyOK
<1>2. PICK f : Doubles(f, MaxOrder + 1)
  BY <1>1, DoublesExist
<1>3. Doubles(Size, MaxOrder + 1)
  BY <1>2 DEF Doubles, Size
<1>4. ASSUME NEW o \in 0 .. MaxOrder + 1 PROVE Size[o] = IF o = 0 THEN 1 ELSE 2 * Size[o - 1]
  BY <1>3 DEF Doubles
<1>5. Size[0] = 1
  BY <1>1, <1>4
<1>6. ASSUME NEW o \in 0 .. MaxOrder PROVE Size[o + 1] = 2 * Size[o]
  <2>1. o + 1 \in 0 .. MaxOrder + 1 /\ o + 1 # 0 /\ o + 1 - 1 = o
    BY <1>1
  <2>2. QED BY <1>4, <2>1
<1>7. QED BY <1>1, <1>5, <1>6

(* No order has size 0. *)
LEMMA SizePositive == \A o \in 0 .. MaxOrder + 1 : Size[o] \in Nat \ {0}
<1> DEFINE S == {o \in 0 .. MaxOrder + 1 : Size[o] \notin Nat \ {0}}
<1>1. ASSUME S # {} PROVE FALSE
  <2>0. S \in SUBSET Nat
    BY SizeSteps
  <2>1. PICK m \in S : \A r \in S : m <= r
    BY <1>1, <2>0, Least
  <2>2. m # 0
    BY SizeSteps
  <2>3. m - 1 \in 0 .. MaxOrder /\ m - 1 \notin S /\ m = (m - 1) + 1
    BY <2>1, <2>2, SizeSteps
  <2>4. m - 1 \in 0 .. MaxOrder + 1
    BY <2>3, SizeSteps
  <2>5. Size[m - 1] \in Nat \ {0}
    BY <2>3, <2>4
  <2>6. Size[m] = 2 * Size[m - 1]
    BY <2>3, SizeSteps
  <2>7. QED BY <2>1, <2>5, <2>6
<1>2. QED BY <1>1

(* A size is a multiple of each smaller one, and an even one if it is larger. *)
LEMMA SizeDivides ==
    \A o, q \in 0 .. MaxOrder + 1 : o <= q => \E m \in Nat \ {0} : Size[q] = m * Size[o]
<1> TAKE o \in 0 .. MaxOrder + 1
<1> DEFINE S == {q \in o .. MaxOrder + 1 : ~ \E m \in Nat \ {0} : Size[q] = m * Size[o]}
<1>1. ASSUME S # {} PROVE FALSE
  <2>0. S \in SUBSET Nat
    BY SizeSteps
  <2>1. PICK q \in S : \A r \in S : q <= r
    BY <1>1, <2>0, Least
  <2>2. q # o
    BY SizePositive
  <2>3. q - 1 \in o .. MaxOrder + 1 /\ q - 1 \in 0 .. MaxOrder /\ q - 1 \notin S /\ q = (q - 1) + 1
    BY <2>1, <2>2, SizeSteps
  <2>4. PICK m \in Nat \ {0} : Size[q - 1] = m * Size[o]
    BY <2>3
  <2>5. Size[q] = 2 * Size[q - 1] /\ Size[o] \in Nat
    BY <2>3, SizeSteps, SizePositive
  <2>6. Size[q] = (2 * m) * Size[o] /\ 2 * m \in Nat \ {0}
    BY <2>4, <2>5
  <2>7. QED BY <2>1, <2>6
<1>2. \A q \in 0 .. MaxOrder + 1 : o <= q => q \in o .. MaxOrder + 1 /\ q \notin S
  BY <1>1, SizeSteps
<1>3. QED BY <1>2

(* A size is at most half of each larger one. *)
LEMMA SizeGrows ==
    \A o, q \in 0 .. MaxOrder + 1 : o < q => 2 * Size[o] <= Size[q]
<1> TAKE o, q \in 0 .. MaxOrder + 1
<1> HAVE o < q
<1>1. o \in 0 .. MaxOrder /\ o + 1 \in 0 .. MaxOrder + 1 /\ o + 1 <= q
  BY SizeSteps
<1>2. PICK m \in Nat \ {0} : Size[q] = m * Size[o + 1]
  BY <1>1, SizeDivides
<1>3. Size[o + 1] = 2 * Size[o] /\ Size[o + 1] \in Nat
  BY <1>1, SizeSteps, SizePositive
<1>4. m * Size[o + 1] >= Size[o + 1]
  BY <1>3
<1>5. QED BY <1>2, <1>3, <1>4

-----------------------------------------------------------------------------
(* Multiples. *)
LEMMA Remainder ==
    ASSUME NEW q \in Int, NEW m \in Nat \ {0}, NEW r \in 0 .. m - 1, NEW x, x = q * m + r
    PROVE  x % m = r
OBVIOUS

(* Dividing by a positive factor keeps the order. *)
LEMMA LessFactor ==
    ASSUME NEW x \in Int, NEW y \in Int, NEW s \in Nat \ {0}, x * s < y * s
    PROVE  x < y
OBVIOUS

(* A number is even or odd. *)
LEMMA Half == \A k \in Nat : \E c \in Nat, r \in {0, 1} : k = 2 * c + r
<1> TAKE k \in Nat
<1>1. PICK c : c = k \div 2
  OBVIOUS
<1>2. c \in Nat /\ 2 * c <= k /\ k < 2 * c + 2
  BY <1>1
<1>3. k - 2 * c \in {0, 1} /\ k = 2 * c + (k - 2 * c)
  BY <1>2
<1>4. QED BY <1>2, <1>3

(* Multiplying by a positive factor keeps the order. *)
LEMMA MoreFactor ==
    ASSUME NEW x \in Int, NEW y \in Int, NEW s \in Nat \ {0}, x < y
    PROVE  x * s + s <= y * s /\ (0 <= x => 0 <= x * s)
OBVIOUS

-----------------------------------------------------------------------------
(* Where blocks may be: block a of order o begins at a multiple of its size and
   ends within the memory. *)
Placed(a, o) ==
    /\ \E k \in Nat : a = MemoryStart + k * Size[o]
    /\ a + Size[o] <= MemoryEnd

(* What the assumptions say of the constants. *)
LEMMA Bounds ==
    /\ MemoryStart \in Nat /\ MemoryEnd \in Nat /\ MemoryEnd = MemoryStart + Size[MaxOrder]
    /\ Orders \subseteq 0 .. MaxOrder /\ MinLevel \in Orders /\ MaxOrder \in Orders
    /\ \A o : o \in Orders <=> o \in Nat /\ MinLevel <= o /\ o <= MaxOrder
    /\ HeaderSize \in Nat /\ HeaderSize > 0 /\ HeaderSize < Size[MinLevel]
<1>1. MinLevel \in 0 .. MaxOrder + 1 /\ MaxOrder \in 0 .. MaxOrder + 1
  BY SizeSteps
<1>2. Size[MinLevel] \in Nat /\ Size[MaxOrder] \in Nat
  BY <1>1, SizePositive
<1>3. QED BY <1>2, AllocatorOK, BuddyOK, SizeSteps DEF AllocatorOK, BuddyOK, MemorySize, Orders

(* A block that is placed lies in the memory, and begins at an address of the map. *)
LEMMA PlacedIn ==
    ASSUME NEW o \in Orders, NEW a, Placed(a, o)
    PROVE  a \in Nat /\ MemoryStart <= a /\ a < MemoryEnd /\ a \in Addresses
<1>1. PICK k \in Nat : a = MemoryStart + k * Size[o]
  BY DEF Placed
<1>2. MinLevel \in 0 .. MaxOrder + 1 /\ o \in 0 .. MaxOrder + 1 /\ MinLevel <= o
  BY Bounds, SizeSteps
<1>3. Size[o] \in Nat \ {0} /\ Size[MinLevel] \in Nat \ {0}
  BY <1>2, SizePositive
<1>4. PICK m \in Nat \ {0} : Size[o] = m * Size[MinLevel]
  BY <1>2, SizeDivides
<1>5. k * Size[o] \in Nat
  BY <1>3
<1>6. a \in Nat /\ MemoryStart <= a /\ a < MemoryEnd
  BY <1>1, <1>3, <1>5, Bounds DEF Placed
<1>7. a - MemoryStart = (k * m) * Size[MinLevel] + 0 /\ k * m \in Int
  BY <1>1, <1>3, <1>4, Bounds
<1>8. (a - MemoryStart) % Size[MinLevel] = 0
  BY <1>3, <1>7, Remainder
<1>9. QED BY <1>6, <1>8, Bounds DEF Addresses

(* Two blocks that overlap: the larger one has the other in it. *)
LEMMA Nested ==
    ASSUME NEW o \in Orders, NEW q \in Orders, o <= q,
           NEW a, NEW b, Placed(a, o), Placed(b, q),
           a < b + Size[q], b < a + Size[o]
    PROVE  b <= a /\ a + Size[o] <= b + Size[q]
<1>1. PICK k \in Nat : a = MemoryStart + k * Size[o]
  BY DEF Placed
<1>2. PICK l \in Nat : b = MemoryStart + l * Size[q]
  BY DEF Placed
<1>3. o \in 0 .. MaxOrder + 1 /\ q \in 0 .. MaxOrder + 1
  BY Bounds, SizeSteps
<1>4. PICK m \in Nat \ {0} : Size[q] = m * Size[o]
  BY <1>3, SizeDivides
<1> DEFINE s == Size[o]
           d == k - l * m
<1>5. s \in Nat \ {0}
  BY <1>3, SizePositive
<1>6. d \in Int /\ a = b + d * s /\ Size[q] = m * s
  BY <1>1, <1>2, <1>4, <1>5, Bounds
<1>7. b \in Int
  BY PlacedIn
<1> HIDE DEF s, d
<1>8. d * s < m * s /\ (-1) * s < d * s
  BY <1>5, <1>6, <1>7 DEF s
<1>9. d < m /\ -1 < d
  BY <1>5, <1>6, <1>8, LessFactor
<1>10. d * s + s <= m * s /\ 0 <= d * s
  BY <1>5, <1>6, <1>9, MoreFactor
<1>11. QED BY <1>5, <1>6, <1>7, <1>10 DEF s

(* A block and its buddy are the halves of a block of the next order. *)
LEMMA BuddyHalves ==
    ASSUME NEW o \in Orders, o # MaxOrder, NEW a, Placed(a, o)
    PROVE  LET y == BuddyOf(a, o)
               left == IF a < y THEN a ELSE y
               right == IF a < y THEN y ELSE a
           IN  /\ Placed(y, o) /\ y # a /\ BuddyOf(y, o) = a
               /\ Placed(left, o + 1) /\ right = left + Size[o]
<1> DEFINE s == Size[o]
<1>1. PICK k \in Nat : a = MemoryStart + k * s
  BY DEF Placed
<1>2. o \in 0 .. MaxOrder /\ o \in 0 .. MaxOrder + 1 /\ o + 1 \in 0 .. MaxOrder + 1 /\ MaxOrder \in 0 .. MaxOrder + 1
      /\ o + 1 <= MaxOrder
  BY Bounds, SizeSteps
<1>3. s \in Nat \ {0} /\ Size[o + 1] = 2 * s
  BY <1>2, SizeSteps, SizePositive
<1>4. PICK m \in Nat \ {0} : MemoryEnd = MemoryStart + m * (2 * s)
  BY <1>2, <1>3, SizeDivides, Bounds
<1>5. a + s <= MemoryEnd
  BY DEF Placed
<1> HIDE DEF s
<1>6. k < 2 * m
  <2>1. k * s < (2 * m) * s
    BY <1>1, <1>3, <1>4, <1>5, Bounds
  <2>2. QED BY <1>3, <2>1, LessFactor
<1>7. PICK c \in Nat, r \in {0, 1} : k = 2 * c + r
  BY Half
<1> DEFINE left == MemoryStart + c * (2 * s)
<1>8. left \in Int /\ c < m
  BY <1>3, <1>6, <1>7, Bounds
<1>9. left + 2 * s <= MemoryEnd
  <2>1. c * (2 * s) + 2 * s <= m * (2 * s)
    BY <1>3, <1>8, MoreFactor
  <2>2. QED BY <1>3, <1>4, <2>1, Bounds
<1>10. Placed(left, o + 1)
  BY <1>3, <1>9 DEF Placed
<1>11. left = MemoryStart + (2 * c) * s /\ left + s = MemoryStart + (2 * c + 1) * s
  BY <1>3, Bounds
<1>12. Placed(left, o) /\ Placed(left + s, o)
  <2>1. 2 * c \in Nat /\ 2 * c + 1 \in Nat
    BY <1>7
  <2>2. left + s <= MemoryEnd /\ (left + s) + s <= MemoryEnd
    BY <1>3, <1>8, <1>9, Bounds
  <2> HIDE DEF left
  <2>3. QED BY <1>11, <2>1, <2>2 DEF Placed, s
<1>13. BuddyOf(left, o) = left + s
  <2>1. left - MemoryStart = c * (2 * s) + 0
    BY <1>3, Bounds
  <2>2. (left - MemoryStart) % (2 * s) = 0
    <3>1. PICK t : t = 2 * s
      OBVIOUS
    <3>2. t \in Nat \ {0} /\ 0 \in 0 .. t - 1 /\ c \in Int
      BY <1>3, <3>1
    <3> HIDE DEF left
    <3>3. left - MemoryStart = c * t + 0
      BY <2>1, <3>1
    <3>4. (c * t + 0) % t = 0
      BY <3>2, Remainder
    <3>5. QED BY <3>1, <3>3, <3>4
  <2>3. QED BY <1>3, <2>2 DEF BuddyOf, s
<1>14. BuddyOf(left + s, o) = left
  <2>1. (left + s) - MemoryStart = c * (2 * s) + s
    BY <1>3, Bounds
  <2>2. ((left + s) - MemoryStart) % (2 * s) = s
    <3>1. PICK t : t = 2 * s
      OBVIOUS
    <3>2. t \in Nat \ {0} /\ s \in 0 .. t - 1 /\ c \in Int
      BY <1>3, <3>1
    <3> HIDE DEF left
    <3>3. (left + s) - MemoryStart = c * t + s
      BY <2>1, <3>1
    <3>4. (c * t + s) % t = s
      BY <3>2, Remainder
    <3>5. QED BY <3>1, <3>3, <3>4
  <2>3. BuddyOf(left + s, o) = (left + s) - s
    BY <1>3, <2>2 DEF BuddyOf, s
  <2>4. QED BY <1>3, <1>8, <2>3
<1>15. a = left \/ a = left + s
  BY <1>1, <1>7, <1>11
<1> HIDE DEF left
<1>16. QED BY <1>3, <1>8, <1>10, <1>12, <1>13, <1>14, <1>15 DEF s

-----------------------------------------------------------------------------
(* The blocks that begin at the places in S, with the orders of their headers
   in h, tile the memory. *)
Beyond(h, a) == a + Size[h[a].order]
Tiles(h, S) ==
    /\ S \subseteq Addresses
    /\ \A a \in S : h[a].order \in Orders /\ Placed(a, h[a].order)
    /\ \A a, b \in S : a < b => Beyond(h, a) <= b
    /\ \A x \in MemoryStart .. MemoryEnd - 1 : \E a \in S : a <= x /\ x < Beyond(h, a)

(* The size of an order is a positive number. *)
LEMMA OrdersKnown ==
    \A o \in Orders : /\ o \in 0 .. MaxOrder /\ o \in 0 .. MaxOrder + 1 /\ o \in Nat
                      /\ Size[o] \in Nat \ {0} /\ Size[o + 1] = 2 * Size[o]
                      /\ o # MaxOrder => o + 1 \in Orders
<1> TAKE o \in Orders
<1>1. o \in 0 .. MaxOrder /\ o \in 0 .. MaxOrder + 1 /\ o \in Nat /\ (o # MaxOrder => o + 1 \in Orders)
  BY Bounds, SizeSteps
<1>2. QED BY <1>1, SizeSteps, SizePositive

(* A larger order has room for two of a smaller one, and no two have one size. *)
LEMMA SizeOrders ==
    \A o, q \in Orders : /\ o < q => Size[o] + Size[o] <= Size[q]
                         /\ o <= q => Size[o] <= Size[q]
                         /\ Size[o] = Size[q] => o = q
<1> TAKE o, q \in Orders
<1>1. Size[o] \in Nat \ {0} /\ Size[q] \in Nat \ {0} /\ o \in Nat /\ q \in Nat
  BY OrdersKnown
<1>2. (o < q => 2 * Size[o] <= Size[q]) /\ (q < o => 2 * Size[q] <= Size[o])
  BY OrdersKnown, SizeGrows
<1>3. QED BY <1>1, <1>2

(* Only the orders of the headers in S matter. *)
LEMMA TilesSame ==
    ASSUME NEW h, NEW g, NEW S, Tiles(h, S), \A a \in S : g[a].order = h[a].order
    PROVE  Tiles(g, S)
BY DEF Tiles, Beyond

(* The first block in the other half of a block's parent begins where the buddy
   does, and is not larger. *)
LEMMA BuddyBegins ==
    ASSUME NEW h, NEW S, Tiles(h, S), NEW a \in S, h[a].order # MaxOrder
    PROVE  BuddyOf(a, h[a].order) \in S /\ h[BuddyOf(a, h[a].order)].order <= h[a].order
<1>1. PICK o \in Orders : o = h[a].order /\ o # MaxOrder /\ Placed(a, o)
  BY DEF Tiles
<1>2. PICK y : y = BuddyOf(a, o)
  OBVIOUS
<1>3. PICK left : left = IF a < y THEN a ELSE y
  OBVIOUS
<1>4. PICK s : s = Size[o]
  OBVIOUS
<1>5. /\ Placed(y, o) /\ y # a /\ Placed(left, o + 1)
      /\ (IF a < y THEN y ELSE a) = left + s
  BY <1>1, <1>2, <1>3, <1>4, BuddyHalves
<1>6. s \in Nat \ {0} /\ Size[o + 1] = s + s /\ o + 1 \in Orders /\ o \in Nat
  BY <1>1, <1>4, OrdersKnown
<1>7. a \in Int /\ y \in Int /\ left \in Int /\ MemoryStart <= y /\ y < MemoryEnd /\ MemoryStart \in Int /\ MemoryEnd \in Int
  BY <1>1, <1>5, <1>6, PlacedIn, Bounds
<1>8. (a = left /\ y = left + s) \/ (y = left /\ a = left + s)
  BY <1>3, <1>5, <1>7
<1>9. PICK p \in S : p <= y /\ y < Beyond(h, p)
  BY <1>7 DEF Tiles
<1>10. PICK q \in Orders : q = h[p].order /\ Placed(p, q)
  BY DEF Tiles
<1>11. Beyond(h, p) = p + Size[q] /\ Beyond(h, a) = a + s /\ p \in Int /\ Size[q] \in Nat \ {0} /\ q \in Nat
  <2>1. Beyond(h, p) = p + Size[q] /\ Beyond(h, a) = a + s
    BY <1>1, <1>4, <1>10 DEF Beyond
  <2>2. p \in Int
    BY <1>10, PlacedIn
  <2>3. QED BY <2>1, <2>2, OrdersKnown
<1>12. p # a
  BY <1>1, <1>6, <1>7, <1>8, <1>9, <1>11
<1>13. /\ p < a => p + Size[q] <= a
       /\ a < p => a + s <= p
  BY <1>11 DEF Tiles
<1>14. q <= o
  <2> SUFFICES ASSUME o + 1 <= q PROVE FALSE
    BY <1>6, <1>11
  <2>1. p <= left /\ left + (s + s) <= p + Size[q]
    <3>1. left < p + Size[q] /\ p < left + (s + s)
      BY <1>6, <1>7, <1>8, <1>9, <1>11
    <3>2. QED BY <1>5, <1>6, <1>10, <3>1, Nested
  <2>2. QED BY <1>6, <1>7, <1>8, <1>11, <1>12, <1>13, <2>1
<1>15. y = p
  <2>1. p < y + s /\ y < p + Size[q]
    BY <1>6, <1>7, <1>9, <1>11
  <2>2. y <= p
    BY <1>1, <1>4, <1>5, <1>10, <1>14, <2>1, Nested
  <2>3. QED BY <1>7, <1>9, <1>11, <2>2
<1>16. QED BY <1>1, <1>2, <1>10, <1>14, <1>15

(* Two halves become one block. *)
LEMMA TilesJoin ==
    ASSUME NEW h, NEW S, Tiles(h, S), NEW a \in S, NEW o \in Orders, o # MaxOrder, o = h[a].order,
           NEW y \in S, y = BuddyOf(a, o), h[y].order = o,
           NEW left, left = (IF a < y THEN a ELSE y),
           NEW right, right = (IF a < y THEN y ELSE a),
           NEW g, \A b \in S \ {right} : g[b].order = IF b = left THEN o + 1 ELSE h[b].order
    PROVE  Tiles(g, S \ {right}) /\ left \in S \ {right} /\ Placed(left, o + 1)
<1>1. PICK s : s = Size[o]
  OBVIOUS
<1>2. Placed(a, o) /\ S \subseteq Addresses
  BY DEF Tiles
<1>3. /\ Placed(y, o) /\ y # a /\ Placed(left, o + 1) /\ right = left + s
  BY <1>1, <1>2, BuddyHalves
<1>4. s \in Nat \ {0} /\ Size[o + 1] = s + s /\ o + 1 \in Orders
  BY <1>1, OrdersKnown
<1>5. left \in S /\ right \in S /\ h[left].order = o /\ h[right].order = o /\ left \in Int /\ right \in Int /\ left # right
  BY <1>2, <1>3, <1>4, PlacedIn
<1>6. \A b \in S : b \in Int /\ Beyond(h, b) \in Int
  BY PlacedIn, OrdersKnown DEF Tiles, Beyond
<1>7. /\ Beyond(g, left) = left + (s + s) /\ Beyond(h, left) = left + s /\ Beyond(h, right) = left + (s + s)
      /\ \A b \in S \ {left, right} : Beyond(g, b) = Beyond(h, b)
  BY <1>1, <1>3, <1>4, <1>5 DEF Beyond
<1>8. \A b \in S \ {right} : g[b].order \in Orders /\ Placed(b, g[b].order)
  BY <1>3, <1>4, <1>5 DEF Tiles
<1>9. ASSUME NEW b \in S \ {right}, NEW c \in S \ {right}, b < c PROVE Beyond(g, b) <= c
  <2>1. Beyond(h, b) <= c
    BY <1>9 DEF Tiles
  <2>2. CASE b = left
    <3>1. right < c
      BY <1>3, <1>6, <1>7, <2>1, <2>2
    <3>2. Beyond(h, right) <= c
      BY <1>5, <3>1 DEF Tiles
    <3>3. QED BY <1>7, <2>2, <3>2
  <2>3. CASE b # left
    BY <1>7, <2>1, <2>3
  <2>4. QED BY <2>2, <2>3
<1>10. ASSUME NEW x \in MemoryStart .. MemoryEnd - 1
       PROVE  \E b \in S \ {right} : b <= x /\ x < Beyond(g, b)
  <2>1. PICK p \in S : p <= x /\ x < Beyond(h, p)
    BY DEF Tiles
  <2>2. x \in Int
    BY Bounds
  <2>3. CASE p \in {left, right}
    <3>1. left <= x /\ x < Beyond(g, left) /\ left \in S \ {right}
      BY <1>3, <1>4, <1>5, <1>7, <2>1, <2>2, <2>3
    <3>2. QED BY <3>1
  <2>4. CASE p \notin {left, right}
    BY <1>7, <2>1, <2>4
  <2>5. QED BY <2>3, <2>4
<1>11. QED BY <1>2, <1>3, <1>5, <1>8, <1>9, <1>10 DEF Tiles

(* A block has its halves, and the halves of its left half. *)
LEMMA PlacedSmaller ==
    ASSUME NEW o \in Orders, NEW q \in Orders, o <= q, NEW a, Placed(a, q)
    PROVE  Placed(a, o) /\ (o < q => Placed(RightHalf(a, o), o))
<1>1. PICK k \in Nat : a = MemoryStart + k * Size[q]
  BY DEF Placed
<1>2. PICK m \in Nat \ {0} : Size[q] = m * Size[o]
  BY OrdersKnown, SizeDivides
<1>3. PICK s : s = Size[o]
  OBVIOUS
<1>4. s \in Nat \ {0} /\ Size[q] \in Nat \ {0} /\ Size[o + 1] = 2 * s /\ Size[o] <= Size[q]
  BY <1>3, OrdersKnown, SizeOrders
<1>5. a \in Nat
  BY PlacedIn
<1>6. k * m \in Nat /\ a = MemoryStart + (k * m) * s
  BY <1>1, <1>2, <1>3, <1>4, Bounds
<1>7. a + Size[q] <= MemoryEnd
  BY DEF Placed
<1>8. Placed(a, o)
  BY <1>3, <1>4, <1>5, <1>6, <1>7, Bounds DEF Placed
<1>9. ASSUME o < q PROVE Placed(RightHalf(a, o), o)
  <2>1. s + s <= Size[q]
    BY <1>3, <1>9, SizeOrders
  <2>2. a + s = MemoryStart + (k * m + 1) * s /\ k * m + 1 \in Nat
    BY <1>4, <1>6, Bounds
  <2>3. (a + s) + s <= MemoryEnd
    BY <1>4, <1>5, <1>7, <2>1, Bounds
  <2>4. QED BY <1>3, <2>2, <2>3 DEF Placed, RightHalf
<1>10. QED BY <1>8, <1>9

(* A block becomes its left-most part of order need and the right halves down to
   it (split_block). *)
LEMMA TilesSplit ==
    ASSUME NEW h, NEW S, Tiles(h, S), NEW a \in S, NEW from \in Orders, from = h[a].order,
           NEW need \in Orders, need <= from, NEW g,
           g[a].order = need,
           \A q \in need .. from - 1 : g[RightHalf(a, q)].order = q,
           \A b \in S \ {a} : g[b].order = h[b].order
    PROVE  /\ Tiles(g, S \cup {RightHalf(a, q) : q \in need .. from - 1})
           /\ \A q \in need .. from - 1 : RightHalf(a, q) \notin S
<1> DEFINE R == {RightHalf(a, q) : q \in need .. from - 1}
<1>1. Placed(a, from) /\ a \in Int /\ S \subseteq Addresses
  BY PlacedIn DEF Tiles
<1>2. ASSUME NEW q \in need .. from - 1
      PROVE  /\ q \in Orders /\ q \in Nat /\ q < from /\ q + 1 \in Orders /\ need <= q /\ q + 1 <= from
             /\ Size[q] \in Nat \ {0} /\ Size[q + 1] = Size[q] + Size[q]
             /\ Placed(RightHalf(a, q), q) /\ RightHalf(a, q) = a + Size[q]
  <2>1. q \in Orders /\ q \in Nat /\ q < from /\ need <= q /\ q + 1 <= from /\ q # MaxOrder
    BY Bounds, SizeSteps
  <2>2. QED BY <1>1, <2>1, PlacedSmaller, OrdersKnown DEF RightHalf
<1>3. /\ Beyond(g, a) = a + Size[need] /\ Beyond(h, a) = a + Size[from]
      /\ Size[need] \in Nat \ {0} /\ Size[from] \in Nat \ {0} /\ Size[need] <= Size[from]
      /\ Placed(a, need)
  BY <1>1, OrdersKnown, SizeOrders, PlacedSmaller DEF Beyond
<1>4. \A b \in S : b \in Int /\ Beyond(h, b) \in Int /\ (b # a => Beyond(g, b) = Beyond(h, b)) /\ b < Beyond(h, b)
  <2> TAKE b \in S
  <2>1. h[b].order \in Orders /\ Placed(b, h[b].order)
    BY DEF Tiles
  <2>2. b \in Int /\ Size[h[b].order] \in Nat \ {0}
    BY <2>1, PlacedIn, OrdersKnown
  <2>3. QED BY <2>2 DEF Beyond
<1>5. ASSUME NEW q \in need .. from - 1
      PROVE  /\ Beyond(g, RightHalf(a, q)) = a + Size[q + 1]
             /\ Size[q + 1] <= Size[from] /\ Size[need] <= Size[q]
             /\ a + Size[q + 1] <= Beyond(h, a)
  <2>1. Beyond(g, RightHalf(a, q)) = (a + Size[q]) + Size[q]
    BY <1>2 DEF Beyond
  <2>2. Size[q + 1] <= Size[from] /\ Size[need] <= Size[q]
    BY <1>2, SizeOrders
  <2>3. QED BY <1>1, <1>2, <1>3, <2>1, <2>2
<1>6. ASSUME NEW c \in S, c # a, NEW q \in need .. from - 1
      PROVE  (c < a /\ Beyond(h, c) <= a) \/ (a < c /\ a + Size[q + 1] <= c)
  <2>1. c \in Int /\ (c < a => Beyond(h, c) <= a) /\ (a < c => Beyond(h, a) <= c)
    BY <1>4 DEF Tiles
  <2>2. QED BY <1>1, <1>2, <1>4, <1>5, <1>6, <2>1
<1>7. ASSUME NEW q \in need .. from - 1 PROVE RightHalf(a, q) \notin S
  <2> SUFFICES ASSUME RightHalf(a, q) \in S PROVE FALSE
    OBVIOUS
  <2>1. RightHalf(a, q) = a + Size[q] /\ RightHalf(a, q) # a
    BY <1>1, <1>2
  <2>2. QED BY <1>1, <1>2, <1>6, <2>1
<1>8. \A b \in S \cup R : g[b].order \in Orders /\ Placed(b, g[b].order)
  <2>1. \A b \in S \ {a} : g[b].order \in Orders /\ Placed(b, g[b].order)
    BY DEF Tiles
  <2>2. QED BY <1>2, <1>3, <2>1
<1>9. ASSUME NEW b \in S, NEW c \in S, b < c PROVE Beyond(g, b) <= c
  <2>1. Beyond(h, b) <= c
    BY <1>9 DEF Tiles
  <2>2. CASE b = a
    BY <1>1, <1>3, <1>4, <2>1, <2>2
  <2>3. CASE b # a
    BY <1>4, <2>1, <2>3
  <2>4. QED BY <2>2, <2>3
<1>10. ASSUME NEW b \in S, NEW q \in need .. from - 1
       PROVE  /\ b < RightHalf(a, q) => Beyond(g, b) <= RightHalf(a, q)
              /\ RightHalf(a, q) < b => Beyond(g, RightHalf(a, q)) <= b
  <2>1. CASE b = a
    BY <1>1, <1>2, <1>3, <1>5, <2>1
  <2>2. CASE b # a
    <3>1. Beyond(g, b) = Beyond(h, b) /\ b \in Int /\ Beyond(h, b) \in Int
      BY <1>4, <2>2
    <3>2. QED BY <1>1, <1>2, <1>5, <1>6, <2>2, <3>1
  <2>3. QED BY <2>1, <2>2
<1>11. ASSUME NEW q \in need .. from - 1, NEW r \in need .. from - 1, RightHalf(a, q) < RightHalf(a, r)
       PROVE  Beyond(g, RightHalf(a, q)) <= RightHalf(a, r)
  <2>1. Size[q] < Size[r]
    BY <1>1, <1>2, <1>11
  <2>2. q < r
    BY <1>2, <2>1, SizeOrders
  <2>3. Size[q] + Size[q] <= Size[r]
    BY <1>2, <2>2, SizeOrders
  <2>4. QED BY <1>1, <1>2, <1>5, <2>3
<1>12. \A b, c \in S \cup R : b < c => Beyond(g, b) <= c
  BY <1>9, <1>10, <1>11
<1>13. ASSUME NEW x \in MemoryStart .. MemoryEnd - 1
       PROVE  \E b \in S \cup R : b <= x /\ x < Beyond(g, b)
  <2>1. PICK p \in S : p <= x /\ x < Beyond(h, p)
    BY DEF Tiles
  <2>2. x \in Int
    BY Bounds
  <2>3. CASE p # a
    BY <1>4, <2>1, <2>3
  <2>4. CASE p = a /\ x < a + Size[need]
    BY <1>3, <2>1, <2>4
  <2>5. CASE p = a /\ ~(x < a + Size[need])
    <3> DEFINE Q == {q \in need .. from : x < a + Size[q]}
    <3>0. need \in Nat /\ from \in Nat
      BY OrdersKnown
    <3>1. from \in Q
      BY <1>3, <2>1, <2>5, OrdersKnown
    <3>2. Q \in SUBSET Nat
      BY <3>0
    <3>3. PICK m \in Q : \A r \in Q : m <= r
      BY <3>1, <3>2, Least
    <3>4. m # need /\ m \in need .. from /\ m \in Nat /\ x < a + Size[m]
      BY <2>5, <3>2
    <3>5. m - 1 \in need .. from - 1 /\ m - 1 \in need .. from /\ m - 1 < m /\ (m - 1) + 1 = m
      BY <3>0, <3>4
    <3>6. m - 1 \notin Q
      BY <3>3, <3>4, <3>5
    <3>7. ~(x < a + Size[m - 1])
      BY <3>5, <3>6
    <3> HIDE DEF Q
    <3>8. RightHalf(a, m - 1) <= x /\ x < Beyond(g, RightHalf(a, m - 1))
      BY <1>1, <1>2, <1>5, <2>2, <3>4, <3>5, <3>7
    <3>9. QED BY <3>5, <3>8
  <2>6. QED BY <2>3, <2>4, <2>5
<1>14. S \cup R \subseteq Addresses
  BY <1>1, <1>2, PlacedIn
<1>15. QED BY <1>7, <1>8, <1>12, <1>13, <1>14 DEF Tiles

-----------------------------------------------------------------------------
(* A list without its place i, with a first one more, and without its first. *)
InList(l, a) == \E i \in 1 .. Len(l) : l[i] = a
Single(l) == \A i, j \in 1 .. Len(l) : l[i] = l[j] => i = j

(* RemoveAt, place by place. *)
LEMMA RemovedAt ==
    ASSUME NEW T, NEW l \in Seq(T), NEW i \in 1 .. Len(l)
    PROVE  /\ RemoveAt(l, i) \in Seq(T) /\ Len(RemoveAt(l, i)) = Len(l) - 1
           /\ \A j \in 1 .. Len(l) - 1 : RemoveAt(l, i)[j] = IF j < i THEN l[j] ELSE l[j + 1]
<1> DEFINE u == SubSeq(l, 1, i - 1)
           v == SubSeq(l, i + 1, Len(l))
<1>1. Len(l) \in Nat /\ i \in Nat /\ \A j \in 1 .. Len(l) : l[j] \in T
  OBVIOUS
<1>2. u \in Seq(T) /\ Len(u) = i - 1 /\ \A j \in 1 .. i - 1 : u[j] = l[j]
  <2>1. \A j \in 1 .. i - 1 : l[j] \in T
    BY <1>1
  <2>2. u \in Seq(T) /\ Len(u) = (IF 1 <= i - 1 THEN (i - 1) - 1 + 1 ELSE 0) /\ \A j \in 1 .. (i - 1) - 1 + 1 : u[j] = l[1 + j - 1]
    BY <1>1, <2>1, SubSeqProperties
  <2> HIDE DEF u
  <2>3. Len(u) = i - 1
    BY <1>1, <2>2
  <2>4. ASSUME NEW j \in 1 .. i - 1 PROVE u[j] = l[j]
    <3>1. j \in 1 .. (i - 1) - 1 + 1 /\ 1 + j - 1 = j
      BY <1>1
    <3>2. QED BY <2>2, <3>1
  <2>5. QED BY <2>2, <2>3, <2>4
<1>3. v \in Seq(T) /\ Len(v) = Len(l) - i /\ \A j \in 1 .. Len(l) - i : v[j] = l[i + j]
  <2>1. \A j \in i + 1 .. Len(l) : l[j] \in T
    BY <1>1
  <2>2. /\ v \in Seq(T) /\ Len(v) = IF i + 1 <= Len(l) THEN Len(l) - (i + 1) + 1 ELSE 0
        /\ \A j \in 1 .. Len(l) - (i + 1) + 1 : v[j] = l[(i + 1) + j - 1]
    BY <1>1, <2>1, SubSeqProperties
  <2> HIDE DEF v
  <2>3. Len(v) = Len(l) - i
    BY <1>1, <2>2
  <2>4. ASSUME NEW j \in 1 .. Len(l) - i PROVE v[j] = l[i + j]
    <3>1. j \in 1 .. Len(l) - (i + 1) + 1 /\ (i + 1) + j - 1 = i + j
      BY <1>1
    <3>2. QED BY <2>2, <3>1
  <2>5. QED BY <2>2, <2>3, <2>4
<1>4. RemoveAt(l, i) = u \o v
  BY DEF RemoveAt
<1> HIDE DEF u, v
<1>5. /\ u \o v \in Seq(T) /\ Len(u \o v) = Len(u) + Len(v)
      /\ \A j \in 1 .. Len(u) + Len(v) : (u \o v)[j] = IF j <= Len(u) THEN u[j] ELSE v[j - Len(u)]
  BY <1>2, <1>3, ConcatProperties
<1>6. ASSUME NEW j \in 1 .. Len(l) - 1 PROVE (u \o v)[j] = IF j < i THEN l[j] ELSE l[j + 1]
  <2>1. j \in 1 .. Len(u) + Len(v)
    BY <1>1, <1>2, <1>3
  <2>2. CASE j < i
    <3>1. j \in 1 .. i - 1 /\ j <= Len(u)
      BY <1>1, <1>2, <2>2
    <3>2. QED BY <1>2, <1>5, <2>1, <2>2, <3>1
  <2>3. CASE ~(j < i)
    <3>1. j - (i - 1) \in 1 .. Len(l) - i /\ i + (j - (i - 1)) = j + 1 /\ ~(j <= Len(u)) /\ j - Len(u) = j - (i - 1)
      BY <1>1, <1>2, <2>3
    <3>2. (u \o v)[j] = v[j - (i - 1)]
      BY <1>5, <2>1, <3>1
    <3>3. v[j - (i - 1)] = l[j + 1]
      BY <1>3, <3>1
    <3>4. QED BY <2>3, <3>2, <3>3
  <2>4. QED BY <2>2, <2>3
<1>7. QED BY <1>1, <1>2, <1>3, <1>4, <1>5, <1>6

(* Without place i: the other entries. *)
LEMMA WithoutPlace ==
    ASSUME NEW T, NEW l \in Seq(T), Single(l), NEW i \in 1 .. Len(l)
    PROVE  /\ RemoveAt(l, i) \in Seq(T) /\ Single(RemoveAt(l, i))
           /\ \A a : InList(RemoveAt(l, i), a) <=> InList(l, a) /\ a # l[i]
<1> DEFINE m == RemoveAt(l, i)
<1>1. Len(l) \in Nat /\ i \in Nat
  OBVIOUS
<1>2. /\ m \in Seq(T) /\ Len(m) = Len(l) - 1
      /\ \A j \in 1 .. Len(l) - 1 : m[j] = IF j < i THEN l[j] ELSE l[j + 1]
  BY RemovedAt
<1> HIDE DEF m
<1> DEFINE old(j) == IF j < i THEN j ELSE j + 1
<1>3. \A j \in 1 .. Len(m) : old(j) \in 1 .. Len(l) /\ old(j) # i /\ m[j] = l[old(j)]
  BY <1>1, <1>2
<1>4. \A j, k \in 1 .. Len(m) : old(j) = old(k) => j = k
  BY <1>1, <1>2
<1>5. \A n \in 1 .. Len(l) : n # i => \E j \in 1 .. Len(m) : old(j) = n
  <2> TAKE n \in 1 .. Len(l)
  <2> HAVE n # i
  <2>1. CASE n < i
    <3>1. n \in 1 .. Len(m) /\ old(n) = n
      BY <1>1, <1>2, <2>1
    <3>2. QED BY <3>1
  <2>2. CASE ~(n < i)
    <3>1. n - 1 \in 1 .. Len(m) /\ old(n - 1) = n
      BY <1>1, <1>2, <2>2
    <3>2. QED BY <3>1
  <2>3. QED BY <2>1, <2>2
<1> HIDE DEF old
<1>6. Single(m)
  BY <1>3, <1>4 DEF Single
<1>7. ASSUME NEW a PROVE InList(m, a) <=> InList(l, a) /\ a # l[i]
  <2>1. ASSUME InList(m, a) PROVE InList(l, a) /\ a # l[i]
    BY <1>3, <2>1 DEF InList, Single
  <2>2. ASSUME InList(l, a), a # l[i] PROVE InList(m, a)
    BY <1>3, <1>5, <2>2 DEF InList
  <2>3. QED BY <2>1, <2>2
<1>8. QED BY <1>2, <1>6, <1>7 DEF m

(* Without its first: the other entries. *)
LEMMA WithoutFirst ==
    ASSUME NEW T, NEW l \in Seq(T), Single(l), l # <<>>
    PROVE  /\ Tail(l) \in Seq(T) /\ Single(Tail(l)) /\ Head(l) = l[1] /\ Head(l) \in T /\ InList(l, Head(l))
           /\ \A a : InList(Tail(l), a) <=> InList(l, a) /\ a # Head(l)
<1>1. /\ Tail(l) \in Seq(T) /\ Len(Tail(l)) = Len(l) - 1 /\ Head(l) \in T
      /\ \A i \in 1 .. Len(Tail(l)) : Tail(l)[i] = l[i + 1]
  BY HeadTailProperties
<1>2. Len(l) \in Nat /\ Len(l) >= 1 /\ Head(l) = l[1] /\ 1 \in 1 .. Len(l)
  OBVIOUS
<1>3. \A i \in 1 .. Len(Tail(l)) : i + 1 \in 1 .. Len(l) /\ i + 1 # 1
  BY <1>1, <1>2
<1>4. Single(Tail(l))
  <2> SUFFICES ASSUME NEW i \in 1 .. Len(Tail(l)), NEW j \in 1 .. Len(Tail(l)), Tail(l)[i] = Tail(l)[j]
               PROVE  i = j
    BY DEF Single
  <2>1. i + 1 = j + 1
    BY <1>1, <1>3 DEF Single
  <2>2. QED BY <2>1, <1>1, <1>2
<1>5. ASSUME NEW a PROVE InList(Tail(l), a) <=> InList(l, a) /\ a # Head(l)
  <2>1. ASSUME InList(Tail(l), a) PROVE InList(l, a) /\ a # Head(l)
    BY <1>1, <1>2, <1>3, <2>1 DEF InList, Single
  <2>2. ASSUME InList(l, a), a # Head(l) PROVE InList(Tail(l), a)
    <3>1. PICK n \in 1 .. Len(l) : l[n] = a
      BY <2>2 DEF InList
    <3>2. n - 1 \in 1 .. Len(Tail(l)) /\ (n - 1) + 1 = n
      BY <1>1, <1>2, <2>2, <3>1
    <3>3. QED BY <1>1, <3>1, <3>2 DEF InList
  <2>3. QED BY <2>1, <2>2
<1>6. QED BY <1>1, <1>2, <1>4, <1>5 DEF InList

(* With a first one more. *)
LEMMA WithFirst ==
    ASSUME NEW T, NEW l \in Seq(T), Single(l), NEW b \in T, ~InList(l, b)
    PROVE  /\ <<b>> \o l \in Seq(T) /\ Single(<<b>> \o l)
           /\ \A a : InList(<<b>> \o l, a) <=> InList(l, a) \/ a = b
<1> DEFINE m == <<b>> \o l
<1>1. <<b>> \in Seq(T) /\ Len(<<b>>) = 1 /\ <<b>>[1] = b /\ Len(l) \in Nat
  OBVIOUS
<1>2. /\ m \in Seq(T) /\ Len(m) = Len(l) + 1
      /\ \A i \in 1 .. 1 + Len(l) : m[i] = IF i <= 1 THEN <<b>>[i] ELSE l[i - 1]
  BY <1>1, ConcatProperties
<1> HIDE DEF m
<1>3. m[1] = b /\ \A i \in 1 .. Len(m) : i # 1 => i - 1 \in 1 .. Len(l) /\ m[i] = l[i - 1] /\ m[i] # b
  <2>1. m[1] = b /\ 1 \in 1 .. Len(m)
    BY <1>1, <1>2
  <2>2. ASSUME NEW i \in 1 .. Len(m), i # 1 PROVE i - 1 \in 1 .. Len(l) /\ m[i] = l[i - 1]
    BY <1>1, <1>2, <2>2
  <2>3. QED BY <2>1, <2>2 DEF InList
<1>4. Single(m)
  <2> SUFFICES ASSUME NEW i \in 1 .. Len(m), NEW j \in 1 .. Len(m), m[i] = m[j] PROVE i = j
    BY DEF Single
  <2>1. CASE i = 1 \/ j = 1
    BY <1>3, <2>1
  <2>2. CASE i # 1 /\ j # 1
    <3>1. i - 1 = j - 1
      BY <1>3, <2>2 DEF Single
    <3>2. QED BY <1>1, <1>2, <3>1
  <2>3. QED BY <2>1, <2>2
<1>5. ASSUME NEW a PROVE InList(m, a) <=> InList(l, a) \/ a = b
  <2>1. ASSUME InList(m, a) PROVE InList(l, a) \/ a = b
    BY <1>3, <2>1 DEF InList
  <2>2. CASE a = b
    BY <1>1, <1>2, <1>3, <2>2 DEF InList
  <2>3. ASSUME InList(l, a) PROVE InList(m, a)
    <3>1. PICK n \in 1 .. Len(l) : l[n] = a
      BY <2>3 DEF InList
    <3>2. n + 1 \in 1 .. Len(m) /\ n + 1 # 1 /\ (n + 1) - 1 = n
      BY <1>1, <1>2
    <3>3. QED BY <1>3, <3>1, <3>2 DEF InList
  <2>4. QED BY <2>1, <2>2, <2>3
<1>6. QED BY <1>2, <1>4, <1>5 DEF m

-----------------------------------------------------------------------------
(* A heap: headers h and lists L such that the blocks that are listed and those at
   the places in U, which are not, tile the memory. *)
Headers == [order : Orders \cup {0}, status : {"FREE", "OCCUPIED", "DATA"}]
Lists   == [Orders -> Seq(Addresses)]
Heaps   == [header : [Addresses -> Headers], lists : Lists, whole : BOOLEAN, block : Addresses]
Listed(L) == {a \in Addresses : \E o \in Orders : InList(L[o], a)}
InOrder(h, L) == \A o \in Orders : Single(L[o]) /\ \A a : InList(L[o], a) => h[a].order = o
HeapOK(h, L, U) == InOrder(h, L) /\ U \cap Listed(L) = {} /\ Tiles(h, U \cup Listed(L))

(* What NothingToJoin needs: the listed blocks are marked free, as long as no wrong
   one was marked. *)
AllFree(h, L) == \A o \in Orders : \A a : InList(L[o], a) => h[a].status = "FREE"
Unjoined(L) == \A o \in Orders \ {MaxOrder} : \A a, b : InList(L[o], a) /\ InList(L[o], b) => b # BuddyOf(a, o)

(* What is in a list is listed. *)
LEMMA InListIn ==
    ASSUME NEW L \in Lists, NEW o \in Orders, NEW a, InList(L[o], a)
    PROVE  a \in Addresses /\ a \in Listed(L)
<1>1. L[o] \in Seq(Addresses)
  BY DEF Lists
<1>2. \A i \in 1 .. Len(L[o]) : L[o][i] \in Addresses
  BY <1>1
<1>3. QED BY <1>2 DEF InList, Listed

(* A round of the loop of memory_free that joins: what becomes of the heap. *)
Joins(s) == OrderOf(s) < MaxOrder /\ JoinsWith(s, BuddyOf(s.block, OrderOf(s)), OrderOf(s))

(* The buddy y leaves the list of order o, and the left one of the two gets the
   next order; in its place i, remove_block marks the head or the block before y. *)
LEMMA JoinedHeap ==
    ASSUME NEW s \in Heaps, Joins(s), NEW o \in Orders, o = OrderOf(s),
           NEW y \in Addresses, y = BuddyOf(s.block, o), InList(s.lists[o], y),
           NEW left \in Addresses, left = (IF s.block < y THEN s.block ELSE y)
    PROVE  \E i \in 1 .. Len(s.lists[o]) :
              /\ s.lists[o][i] = y
              /\ Joined(s) \in Heaps
              /\ Joined(s).block = left
              /\ Joined(s).whole = (s.whole /\ i = 1)
              /\ Joined(s).lists = [s.lists EXCEPT ![o] = RemoveAt(s.lists[o], i)]
              /\ \A b \in Addresses : /\ Joined(s).header[b].order = IF b = left THEN o + 1 ELSE s.header[b].order
                                      /\ b = left => Joined(s).header[b].status = "FREE"
                                      /\ b # left /\ (i = 1 \/ ~InList(s.lists[o], b)) /\ b # y
                                            => Joined(s).header[b] = s.header[b]
<1> DEFINE l == s.lists[o]
<1>1. /\ s.header \in [Addresses -> Headers] /\ s.lists \in [Orders -> Seq(Addresses)] /\ s.whole \in BOOLEAN
      /\ s.block \in Addresses /\ l \in Seq(Addresses)
      /\ s = [header |-> s.header, lists |-> s.lists, whole |-> s.whole, block |-> s.block]
  BY DEF Heaps, Lists
<1>2. y \in ToSet(l)
  BY <1>1 DEF InList, ToSet
<1>3. PICK i : i = PlaceOf(y, l)
  OBVIOUS
<1>4. i \in 1 .. Len(l) /\ l[i] = y
  BY <1>3 DEF InList, PlaceOf
<1>5. PICK mark : mark = IF i = 1 THEN y ELSE l[i - 1]
  OBVIOUS
<1>6. mark \in Addresses /\ (i = 1 => mark = y) /\ InList(l, mark)
  <2>1. CASE i = 1
    BY <1>4, <1>5, <2>1 DEF InList
  <2>2. CASE i # 1
    <3>1. i - 1 \in 1 .. Len(l) /\ \A k \in 1 .. Len(l) : l[k] \in Addresses
      BY <1>1, <1>4, <2>2
    <3>2. QED BY <1>5, <2>2, <3>1 DEF InList
  <2>3. QED BY <2>1, <2>2
<1>7. RemoveAt(l, i) \in Seq(Addresses)
  BY <1>1, <1>4, RemovedAt
<1>20. PICK u : u = [s EXCEPT !.lists[o] = RemoveAt(@, i), !.header[mark].status = "OCCUPIED", !.whole = @ /\ i = 1]
  OBVIOUS
<1>21. PICK t : t = [u EXCEPT !.header[left] = [order |-> o + 1, status |-> "FREE"], !.block = left]
  OBVIOUS
<1>8. Joined(s) = t
  <2>1. Unlinked(s, y, o) = u
    BY <1>2, <1>3, <1>5, <1>20 DEF Unlinked
  <2>2. QED BY <1>21, <2>1 DEF Joined, Joins
<1>9. /\ u.header = [s.header EXCEPT ![mark].status = "OCCUPIED"]
      /\ u.lists = [s.lists EXCEPT ![o] = RemoveAt(l, i)]
      /\ u.whole = (s.whole /\ i = 1) /\ u.block = s.block
      /\ u = [header |-> u.header, lists |-> u.lists, whole |-> u.whole, block |-> u.block]
  <2>1. u.header = [s.header EXCEPT ![mark].status = "OCCUPIED"]
    BY <1>1, <1>20
  <2>2. u.lists = [s.lists EXCEPT ![o] = RemoveAt(l, i)] /\ u.block = s.block
    BY <1>1, <1>20
  <2>3. u.whole = (s.whole /\ i = 1)
    BY <1>1, <1>20, Zenon
  <2>4. u = [header |-> u.header, lists |-> u.lists, whole |-> u.whole, block |-> u.block]
    BY <1>1, <1>20
  <2>5. QED BY <2>1, <2>2, <2>3, <2>4
<1>10. /\ t.header = [u.header EXCEPT ![left] = [order |-> o + 1, status |-> "FREE"]]
       /\ t.lists = u.lists /\ t.whole = u.whole /\ t.block = left
       /\ t = [header |-> t.header, lists |-> t.lists, whole |-> t.whole, block |-> t.block]
  <2>1. u = [header |-> u.header, lists |-> u.lists, whole |-> u.whole, block |-> u.block]
    BY <1>9
  <2>2. t.header = [u.header EXCEPT ![left] = [order |-> o + 1, status |-> "FREE"]]
    BY <1>21, <2>1
  <2>3. t.lists = u.lists /\ t.whole = u.whole /\ t.block = left
    BY <1>21, <2>1
  <2>4. t = [header |-> t.header, lists |-> t.lists, whole |-> t.whole, block |-> t.block]
    BY <1>21, <2>1
  <2>5. QED BY <2>2, <2>3, <2>4
<1> HIDE DEF l
<1>11. o + 1 \in Orders
  BY OrdersKnown DEF Joins
<1>12. s.header[mark] \in Headers /\ [s.header[mark] EXCEPT !.status = "OCCUPIED"] \in Headers
       /\ [s.header[mark] EXCEPT !.status = "OCCUPIED"].order = s.header[mark].order
       /\ [order |-> o + 1, status |-> "FREE"] \in Headers
  BY <1>1, <1>6, <1>11 DEF Headers
<1>13. /\ u.header \in [Addresses -> Headers]
       /\ \A b \in Addresses : /\ b # mark => u.header[b] = s.header[b]
                               /\ u.header[b].order = s.header[b].order
  BY <1>1, <1>6, <1>9, <1>12
<1>14. /\ t.header \in [Addresses -> Headers]
       /\ \A b \in Addresses : /\ b # left => t.header[b] = u.header[b]
                               /\ b = left => t.header[b] = [order |-> o + 1, status |-> "FREE"]
  BY <1>10, <1>12, <1>13
<1>15. t.lists \in Lists /\ t.lists = [s.lists EXCEPT ![o] = RemoveAt(l, i)]
  BY <1>1, <1>7, <1>9, <1>10 DEF Lists
<1>16. t.whole = (s.whole /\ i = 1) /\ t.whole \in BOOLEAN
  BY <1>1, <1>9, <1>10
<1>17. t \in Heaps
  BY <1>10, <1>14, <1>15, <1>16 DEF Heaps
<1>18. ASSUME NEW b \in Addresses
       PROVE  /\ t.header[b].order = IF b = left THEN o + 1 ELSE s.header[b].order
              /\ b = left => t.header[b].status = "FREE"
              /\ b # left /\ (i = 1 \/ ~InList(l, b)) /\ b # y => t.header[b] = s.header[b]
  BY <1>6, <1>13, <1>14
<1>19. QED BY <1>4, <1>8, <1>10, <1>15, <1>16, <1>17, <1>18 DEF l

-----------------------------------------------------------------------------
(* Sums: f has in place k what the first k of w add up to. *)
Adds(f, w, n) == f = [k \in 0 .. n |-> IF k = 0 THEN 0 ELSE f[k - 1] + w[k - 1]]
SumOf(w, n) == CHOOSE f : Adds(f, w, n)

(* There is such a function for every w and n. *)
LEMMA AddsExist == ASSUME NEW w PROVE \A n \in Nat : \E f : Adds(f, w, n)
<1> DEFINE S == {n \in Nat : ~ \E f : Adds(f, w, n)}
<1>1. ASSUME S # {} PROVE FALSE
  <2>1. PICK m \in S : \A r \in S : m <= r
    BY <1>1, Least
  <2>2. m # 0
    <3>1. Adds([k \in 0 .. 0 |-> 0], w, 0)
      BY DEF Adds
    <3>2. QED BY <3>1
  <2>3. m \in Nat /\ m - 1 \in Nat /\ m - 1 \notin S
    BY <2>1, <2>2
  <2>4. PICK f : Adds(f, w, m - 1)
    BY <2>3
  <2> DEFINE g == [k \in 0 .. m |-> IF k = m THEN f[m - 1] + w[m - 1] ELSE f[k]]
  <2>5. ASSUME NEW k \in 0 .. m PROVE g[k] = IF k = 0 THEN 0 ELSE g[k - 1] + w[k - 1]
    <3>1. CASE k = m
      <4>1. k - 1 \in 0 .. m /\ k - 1 # m /\ k # 0 /\ k - 1 = m - 1
        BY <2>2, <2>3, <3>1
      <4>2. g[k - 1] = f[m - 1] /\ g[k] = f[m - 1] + w[m - 1]
        BY <3>1, <4>1
      <4> HIDE DEF g
      <4>3. QED BY <4>1, <4>2
    <3>2. CASE k # m
      <4>1. k \in 0 .. m - 1 /\ g[k] = f[k]
        BY <2>3, <3>2
      <4>2. f[k] = IF k = 0 THEN 0 ELSE f[k - 1] + w[k - 1]
        BY <2>4, <4>1 DEF Adds
      <4>3. k # 0 => g[k - 1] = f[k - 1]
        BY <2>3, <3>2, <4>1
      <4> HIDE DEF g
      <4>4. CASE k = 0
        BY <4>1, <4>2, <4>4
      <4>5. CASE k # 0
        BY <4>1, <4>2, <4>3, <4>5
      <4>6. QED BY <4>4, <4>5
    <3>3. QED BY <3>1, <3>2
  <2>6. g = [k \in 0 .. m |-> g[k]]
    OBVIOUS
  <2> HIDE DEF g
  <2>7. Adds(g, w, m)
    BY <2>5, <2>6 DEF Adds
  <2>8. QED BY <2>7
<1>2. QED BY <1>1

(* The one that is chosen goes by steps. *)
LEMMA SumSteps ==
    ASSUME NEW w, NEW n \in Nat
    PROVE  /\ Adds(SumOf(w, n), w, n) /\ SumOf(w, n)[0] = 0
           /\ \A k \in 0 .. n - 1 : SumOf(w, n)[k + 1] = SumOf(w, n)[k] + w[k]
<1>1. PICK f : f = SumOf(w, n)
  OBVIOUS
<1>2. Adds(f, w, n)
  BY <1>1, AddsExist DEF SumOf
<1>3. f[0] = 0
  BY <1>2 DEF Adds
<1>4. ASSUME NEW k \in 0 .. n - 1 PROVE f[k + 1] = f[k] + w[k]
  <2>1. k + 1 \in 0 .. n /\ k + 1 # 0 /\ (k + 1) - 1 = k
    OBVIOUS
  <2>2. QED BY <1>2, <2>1 DEF Adds
<1>5. QED BY <1>1, <1>2, <1>3, <1>4

(* A sum is known from its steps. *)
LEMMA SumKnown ==
    ASSUME NEW w, NEW n \in Nat, NEW f, Adds(f, w, n),
           NEW e, e[0] = 0, \A k \in 0 .. n - 1 : e[k + 1] = e[k] + w[k]
    PROVE  \A k \in 0 .. n : f[k] = e[k]
<1> DEFINE S == {k \in 0 .. n : f[k] # e[k]}
<1>1. ASSUME S # {} PROVE FALSE
  <2>0. S \in SUBSET Nat
    OBVIOUS
  <2>1. PICK m \in S : \A r \in S : m <= r
    <3> HIDE DEF S
    <3>1. QED BY <1>1, <2>0, Least
  <2>2. m \in 0 .. n /\ f[m] # e[m]
    OBVIOUS
  <2>3. m # 0
    BY <2>2 DEF Adds
  <2>4. m - 1 \in 0 .. n - 1 /\ m - 1 \in 0 .. n /\ m - 1 \notin S /\ (m - 1) + 1 = m
    BY <2>1, <2>2, <2>3
  <2>5. f[m] = f[m - 1] + w[m - 1]
    BY <2>2, <2>3 DEF Adds
  <2>6. e[m] = e[m - 1] + w[m - 1]
    BY <2>4
  <2>7. f[m - 1] = e[m - 1]
    BY <2>4
  <2>8. QED BY <2>2, <2>5, <2>6, <2>7
<1>2. QED BY <1>1

(* A sum of numbers is a number. *)
LEMMA SumNatural ==
    ASSUME NEW n \in Nat, NEW w, \A k \in 0 .. n - 1 : w[k] \in Nat
    PROVE  \A k \in 0 .. n : SumOf(w, n)[k] \in Nat
<1>1. PICK f : f = SumOf(w, n)
  OBVIOUS
<1>2. f[0] = 0 /\ \A k \in 0 .. n - 1 : f[k + 1] = f[k] + w[k]
  BY <1>1, SumSteps
<1> DEFINE S == {k \in 0 .. n : f[k] \notin Nat}
<1>3. ASSUME S # {} PROVE FALSE
  <2>0. S \in SUBSET Nat
    OBVIOUS
  <2>1. PICK m \in S : \A r \in S : m <= r
    <3> HIDE DEF S
    <3>1. QED BY <1>3, <2>0, Least
  <2>2. m \in 0 .. n /\ f[m] \notin Nat
    OBVIOUS
  <2>3. m # 0
    BY <1>2, <2>2
  <2>4. m - 1 \in 0 .. n - 1 /\ m - 1 \in 0 .. n /\ m - 1 \notin S /\ (m - 1) + 1 = m
    BY <2>1, <2>2, <2>3
  <2>5. f[m] = f[m - 1] + w[m - 1] /\ f[m - 1] \in Nat
    BY <1>2, <2>4
  <2>6. QED BY <2>2, <2>4, <2>5
<1>4. QED BY <1>1, <1>3

(* Two sums of which the difference is known step by step. *)
LEMMA SumChanges ==
    ASSUME NEW n \in Nat, NEW w, \A k \in 0 .. n - 1 : w[k] \in Nat, NEW v,
           NEW d, d[0] = 0, \A k \in 0 .. n : d[k] \in Int,
           \A k \in 0 .. n - 1 : v[k] = w[k] + (d[k + 1] - d[k])
    PROVE  SumOf(v, n)[n] = SumOf(w, n)[n] + d[n]
<1>1. PICK f : f = SumOf(w, n)
  OBVIOUS
<1>2. f[0] = 0 /\ \A k \in 0 .. n - 1 : f[k + 1] = f[k] + w[k]
  BY <1>1, SumSteps
<1>3. \A k \in 0 .. n : f[k] \in Nat
  BY <1>1, SumNatural
<1>4. PICK e : e = [k \in 0 .. n |-> f[k] + d[k]]
  OBVIOUS
<1>5. e[0] = 0 /\ \A k \in 0 .. n : e[k] = f[k] + d[k]
  BY <1>2, <1>4
<1>6. ASSUME NEW k \in 0 .. n - 1 PROVE e[k + 1] = e[k] + v[k]
  <2>1. k \in 0 .. n /\ k + 1 \in 0 .. n
    OBVIOUS
  <2>2. e[k + 1] = f[k + 1] + d[k + 1] /\ e[k] = f[k] + d[k] /\ f[k + 1] = f[k] + w[k]
    BY <1>2, <1>5, <2>1
  <2>3. f[k] \in Nat /\ d[k] \in Int /\ d[k + 1] \in Int /\ w[k] \in Nat /\ v[k] = w[k] + (d[k + 1] - d[k])
    BY <1>3, <2>1
  <2>4. QED BY <2>2, <2>3
<1>7. Adds(SumOf(v, n), v, n)
  BY SumSteps
<1>8. SumOf(v, n)[n] = e[n]
  BY <1>5, <1>6, <1>7, SumKnown
<1>9. QED BY <1>1, <1>5, <1>8

(* ... and of which one step differs. *)
LEMMA SumChangesOnce ==
    ASSUME NEW n \in Nat, NEW w, \A k \in 0 .. n - 1 : w[k] \in Nat, NEW v,
           NEW i \in 0 .. n - 1, NEW c \in Int, v[i] = w[i] + c,
           \A k \in 0 .. n - 1 : k # i => v[k] = w[k]
    PROVE  SumOf(v, n)[n] = SumOf(w, n)[n] + c
<1>1. PICK d : d = [k \in 0 .. n |-> IF k <= i THEN 0 ELSE c]
  OBVIOUS
<1>2. d[0] = 0 /\ d[n] = c /\ \A k \in 0 .. n : d[k] \in Int
  BY <1>1
<1>3. ASSUME NEW k \in 0 .. n - 1 PROVE v[k] = w[k] + (d[k + 1] - d[k])
  <2>1. w[k] \in Nat /\ k \in 0 .. n /\ k + 1 \in 0 .. n
    OBVIOUS
  <2>2. CASE k = i
    BY <1>1, <2>1, <2>2
  <2>3. CASE k # i
    <3>1. d[k + 1] = d[k] /\ d[k] \in Int
      BY <1>1, <2>1, <2>3
    <3>2. v[k] = w[k]
      BY <2>3
    <3>3. QED BY <2>1, <3>1, <3>2
  <2>4. QED BY <2>2, <2>3
<1>4. QED BY <1>2, <1>3, SumChanges

-----------------------------------------------------------------------------
(* The memory in the lists. *)
Weight(L) == [o \in 0 .. MaxOrder |-> IF o \in Orders THEN Len(L[o]) * Size[o] ELSE 0]
Total(L) == SumOf(Weight(L), MaxOrder + 1)[MaxOrder + 1]

(* What the lists of a heap weigh. *)
LEMMA WeightIs ==
    ASSUME NEW L \in Lists
    PROVE  /\ \A o \in 0 .. MaxOrder : Weight(L)[o] \in Nat
           /\ \A o \in Orders : o \in 0 .. MaxOrder /\ Len(L[o]) \in Nat /\ Weight(L)[o] = Len(L[o]) * Size[o]
           /\ \A o \in 0 .. MaxOrder : o \notin Orders => Weight(L)[o] = 0
           /\ Total(L) \in Nat
<1>0. MaxOrder \in Nat /\ MaxOrder + 1 \in Nat /\ MaxOrder = MaxOrder
  BY SizeSteps
<1>1. PICK w : w = Weight(L)
  OBVIOUS
<1>2. \A o \in 0 .. MaxOrder : w[o] = IF o \in Orders THEN Len(L[o]) * Size[o] ELSE 0
  BY <1>1 DEF Weight
<1>3. ASSUME NEW o \in Orders
      PROVE  o \in 0 .. MaxOrder /\ Len(L[o]) \in Nat /\ w[o] = Len(L[o]) * Size[o] /\ w[o] \in Nat
  <2>1. o \in 0 .. MaxOrder /\ Size[o] \in Nat
    BY OrdersKnown
  <2>2. Len(L[o]) \in Nat
    BY DEF Lists
  <2>3. Len(L[o]) * Size[o] \in Nat
    BY <2>1, <2>2
  <2>4. QED BY <1>2, <2>1, <2>2, <2>3
<1>4. \A o \in 0 .. MaxOrder : w[o] \in Nat /\ (o \notin Orders => w[o] = 0)
  BY <1>2, <1>3
<1>5. Total(L) \in Nat
  <2>2. PICK n \in Nat : n = MaxOrder + 1 /\ n - 1 = MaxOrder /\ n \in 0 .. n
    BY <1>0
  <2>4. \A k \in 0 .. n - 1 : w[k] \in Nat
    BY <1>4, <2>2
  <2>5. \A k \in 0 .. n : SumOf(w, n)[k] \in Nat
    BY <2>4, SumNatural
  <2>3. SumOf(w, MaxOrder + 1)[MaxOrder + 1] \in Nat
    BY <2>2, <2>5
  <2>6. QED BY <1>1, <2>3 DEF Total
<1>6. QED BY <1>0, <1>1, <1>3, <1>4, <1>5

(* A list with one block more or less. *)
LEMMA TotalChanges ==
    ASSUME NEW L \in Lists, NEW M \in Lists, NEW o \in Orders, NEW c \in {-1, 1},
           Len(M[o]) = Len(L[o]) + c, \A q \in Orders : q # o => M[q] = L[q]
    PROVE  Total(M) = Total(L) + c * Size[o]
<1>0. MaxOrder + 1 \in Nat
  BY SizeSteps
<1>1. PICK w : w = Weight(L)
  OBVIOUS
<1>2. PICK v : v = Weight(M)
  OBVIOUS
<1>3. PICK s : s = Size[o]
  OBVIOUS
<1>4. s \in Nat /\ c \in Int /\ c * s \in Int
  BY <1>3, OrdersKnown
<1>5. v[o] = w[o] + c * s
  <2>1. w[o] = Len(L[o]) * s /\ v[o] = Len(M[o]) * s /\ Len(L[o]) \in Nat
    BY <1>1, <1>2, <1>3, WeightIs
  <2>2. \A x \in Nat : (x + c) * s = x * s + c * s
    BY <1>4
  <2>3. QED BY <2>1, <2>2
<1>6. \A q \in 0 .. MaxOrder : w[q] \in Nat /\ (q # o => v[q] = w[q])
  <2> TAKE q \in 0 .. MaxOrder
  <2>1. w[q] \in Nat
    BY <1>1, WeightIs
  <2>2. CASE q \in Orders
    <3>1. w[q] = Len(L[q]) * Size[q] /\ v[q] = Len(M[q]) * Size[q]
      BY <1>1, <1>2, <2>2, WeightIs
    <3>2. QED BY <2>1, <2>2, <3>1
  <2>3. CASE q \notin Orders
    BY <1>1, <1>2, <2>1, <2>3, WeightIs
  <2>4. QED BY <2>2, <2>3
<1>7. o \in 0 .. MaxOrder
  BY WeightIs
<1>8. SumOf(v, MaxOrder + 1)[MaxOrder + 1] = SumOf(w, MaxOrder + 1)[MaxOrder + 1] + c * s
  <2>1. PICK n \in Nat : n = MaxOrder + 1 /\ n - 1 = MaxOrder
    BY SizeSteps
  <2>2. PICK e \in Int : e = c * s
    BY <1>4
  <2>3. o \in 0 .. n - 1 /\ v[o] = w[o] + e /\ \A q \in 0 .. n - 1 : w[q] \in Nat /\ (q # o => v[q] = w[q])
    <3>1. 0 .. n - 1 = 0 .. MaxOrder
      BY <2>1
    <3>2. v[o] = w[o] + e
      BY <1>5, <2>2
    <3>3. QED BY <1>6, <1>7, <3>1, <3>2
  <2>4. SumOf(v, n)[n] = SumOf(w, n)[n] + e
    BY <2>3, SumChangesOnce
  <2>5. QED BY <2>1, <2>2, <2>4
<1>9. QED BY <1>1, <1>2, <1>3, <1>8 DEF Total

(* What memory_alloc leaves: the lists from need up to from have one block more
   each, and that of from one less. *)
LEMMA TotalSplits ==
    ASSUME NEW L \in Lists, NEW M \in Lists, NEW need \in Orders, NEW from \in Orders, need <= from,
           Len(M[from]) = Len(L[from]) - 1,
           \A q \in need .. from - 1 : Len(L[q]) = 0 /\ Len(M[q]) = 1,
           \A q \in Orders : q \notin need .. from => M[q] = L[q]
    PROVE  Total(M) = Total(L) - Size[need]
<1>0. PICK n \in Nat : n = MaxOrder + 1
  BY SizeSteps
<1>1. PICK w : w = Weight(L)
  OBVIOUS
<1>2. PICK v : v = Weight(M)
  OBVIOUS
<1>3. need \in Nat /\ from \in Nat /\ need < n /\ from < n /\ n - 1 = MaxOrder
  <2>1. need \in 0 .. MaxOrder /\ from \in 0 .. MaxOrder
    BY OrdersKnown
  <2>2. QED BY <1>0, <2>1, SizeSteps
<1>4. \A q \in need .. from : q \in Orders /\ Size[q] \in Nat
  <2> TAKE q \in need .. from
  <2>1. q \in Orders
    BY <1>3, Bounds
  <2>2. QED BY <2>1, OrdersKnown
<1>5. PICK d : d = [k \in 0 .. n |-> IF k <= need THEN 0
                                     ELSE IF k <= from THEN Size[k] - Size[need] ELSE 0 - Size[need]]
  OBVIOUS
<1>6. PICK s \in Nat : s = Size[need]
  BY <1>3, <1>4
<1>7. ASSUME NEW k \in 0 .. n
      PROVE  /\ k \in Nat /\ (k < need => d[k] = 0)
             /\ k \in need .. from => d[k] = Size[k] - s /\ Size[k] \in Nat
             /\ k > from => d[k] = 0 - s
             /\ d[k] \in Int
  <2>1. d[k] = IF k <= need THEN 0 ELSE IF k <= from THEN Size[k] - s ELSE 0 - s
    BY <1>5, <1>6
  <2>2. CASE k < need
    BY <1>3, <2>1, <2>2
  <2>3. CASE k \in need .. from
    <3>1. Size[k] \in Nat /\ d[k] = Size[k] - s
      BY <1>3, <1>4, <1>6, <2>1, <2>3
    <3>2. QED BY <1>3, <2>3, <3>1
  <2>4. CASE k > from
    BY <1>3, <2>1, <2>4
  <2>5. QED BY <1>3, <2>2, <2>3, <2>4
<1>8. \A q \in 0 .. n - 1 : w[q] \in Nat
  <2>1. 0 .. n - 1 = 0 .. MaxOrder
    BY <1>3
  <2>2. QED BY <1>1, <2>1, WeightIs
<1>9. ASSUME NEW k \in 0 .. n - 1 PROVE v[k] = w[k] + (d[k + 1] - d[k])
  <2>0. k \in 0 .. n /\ k + 1 \in 0 .. n /\ k \in Nat /\ w[k] \in Nat
    BY <1>8
  <2>1. CASE k \in need .. from - 1
    <3>1. k \in Orders /\ k \in need .. from /\ k + 1 \in need .. from
      BY <1>3, <1>4, <2>1
    <3>5. Len(L[k]) = 0 /\ Len(M[k]) = 1
      BY <2>1
    <3>6. w[k] = Len(L[k]) * Size[k] /\ v[k] = Len(M[k]) * Size[k]
      BY <1>1, <1>2, <3>1, WeightIs
    <3>7. Size[k] \in Nat /\ Size[k + 1] = 2 * Size[k]
      BY <3>1, OrdersKnown
    <3>2. w[k] = 0 * Size[k] /\ v[k] = 1 * Size[k] /\ Size[k] \in Nat /\ Size[k + 1] = 2 * Size[k]
      BY <3>5, <3>6, <3>7
    <3>3. d[k] = Size[k] - s /\ d[k + 1] = Size[k + 1] - s
      BY <1>7, <2>0, <3>1
    <3>4. QED BY <3>2, <3>3
  <2>2. CASE k = from
    <3>6. w[k] = Len(L[k]) * Size[k] /\ v[k] = Len(M[k]) * Size[k] /\ Len(L[k]) \in Nat
      BY <1>1, <1>2, <2>2, WeightIs
    <3>7. Size[k] \in Nat
      BY <2>2, OrdersKnown
    <3>1. w[k] = Len(L[k]) * Size[k] /\ v[k] = (Len(L[k]) - 1) * Size[k] /\ Len(L[k]) \in Nat /\ Size[k] \in Nat
      BY <2>2, <3>6, <3>7
    <3>2. k \in need .. from /\ k + 1 > from
      BY <1>3, <2>2
    <3>3. d[k] = Size[k] - s /\ d[k + 1] = 0 - s
      BY <1>7, <2>0, <3>2
    <3>4. v[k] = w[k] - Size[k]
      <4>1. \A x \in Nat, y \in Nat : (x - 1) * y = x * y - y
        OBVIOUS
      <4>2. QED BY <3>1, <4>1
    <3>5. QED BY <2>0, <3>1, <3>3, <3>4
  <2>3. CASE k \notin need .. from
    <3>1. v[k] = w[k]
      <4>1. CASE k \in Orders
        BY <1>1, <1>2, <2>3, <4>1, WeightIs
      <4>2. CASE k \notin Orders
        <5>1. k \in 0 .. MaxOrder
          BY <1>3
        <5>2. QED BY <1>1, <1>2, <4>2, <5>1, WeightIs
      <4>3. QED BY <4>1, <4>2
    <3>2. d[k + 1] = d[k] /\ d[k] \in Int
      <4>1. CASE k > from
        BY <1>3, <1>7, <2>0, <4>1
      <4>2. CASE k < need
        <5>1. d[k] = 0 /\ (k + 1 < need => d[k + 1] = 0)
          BY <1>7, <2>0, <4>2
        <5>2. k + 1 = need => d[k + 1] = 0
          BY <1>3, <1>6, <1>7, <2>0
        <5>3. QED BY <1>3, <2>0, <4>2, <5>1, <5>2
      <4>3. QED BY <1>3, <2>0, <2>3, <4>1, <4>2
    <3>3. QED BY <2>0, <3>1, <3>2
  <2>4. QED BY <1>3, <2>0, <2>1, <2>2, <2>3
<1>10. d[0] = 0 /\ d[n] = 0 - s
  <2>1. 0 \in 0 .. n /\ n \in 0 .. n /\ n > from /\ 0 <= need
    BY <1>3
  <2>2. d[0] = 0
    BY <1>5, <2>1
  <2>3. QED BY <1>7, <2>1, <2>2
<1>11. SumOf(v, n)[n] = SumOf(w, n)[n] + d[n]
  <2>1. d[0] = 0 /\ \A k \in 0 .. n : d[k] \in Int
    BY <1>7, <1>10
  <2>2. QED BY <1>8, <1>9, <2>1, SumChanges
<1>12. Total(M) = Total(L) + (0 - s) /\ Total(L) \in Nat
  BY <1>0, <1>1, <1>2, <1>10, <1>11, WeightIs DEF Total
<1>13. QED BY <1>6, <1>12

-----------------------------------------------------------------------------
(* In the loop of memory_free: the blocks at the places in H are held, and the
   loop has let their headers, g, as they were. *)
LoopOK(s, H, g) ==
    /\ s \in Heaps
    /\ HeapOK(s.header, s.lists, H \cup {s.block})
    /\ s.block \notin H /\ H \subseteq Addresses
    /\ \A a \in H : s.header[a] = g[a] /\ g[a].status = "OCCUPIED"
    /\ s.whole => AllFree(s.header, s.lists) /\ Unjoined(s.lists)

(* What joins is a free block: it is in the list of its order. *)
LEMMA BuddyListed ==
    ASSUME NEW s, NEW H, NEW g, LoopOK(s, H, g), Joins(s)
    PROVE  LET o == OrderOf(s)
               y == BuddyOf(s.block, o)
           IN  o \in Orders /\ o # MaxOrder /\ InList(s.lists[o], y) /\ y \in Listed(s.lists)
               /\ y # s.block /\ y \notin H
               /\ BuddyOf(y, o) = s.block
<1> DEFINE S == H \cup {s.block} \cup Listed(s.lists)
<1>1. PICK o : o = OrderOf(s)
  OBVIOUS
<1>2. PICK y : y = BuddyOf(s.block, o)
  OBVIOUS
<1>3. Tiles(s.header, S) /\ s.block \in S
  BY DEF LoopOK, HeapOK
<1>4. o = s.header[s.block].order /\ o < MaxOrder /\ o # MaxOrder
  BY <1>1, SizeSteps DEF OrderOf, Joins
<1>5. o \in Orders /\ Placed(s.block, o)
  BY <1>3, <1>4 DEF Tiles
<1>6. y \in S
  BY <1>2, <1>3, <1>4, BuddyBegins
<1>7. y # s.block /\ BuddyOf(y, o) = s.block
  BY <1>2, <1>4, <1>5, BuddyHalves
<1>8. s.header[y].status = "FREE" /\ s.header[y].order = o
  BY <1>1, <1>2 DEF Joins, JoinsWith
<1>9. y \notin H
  BY <1>8 DEF LoopOK
<1>10. y \in Listed(s.lists)
  BY <1>6, <1>7, <1>9
<1>11. PICK q \in Orders : InList(s.lists[q], y)
  BY <1>10 DEF Listed
<1>12. q = o
  BY <1>8, <1>11 DEF LoopOK, HeapOK, InOrder
<1>13. QED BY <1>1, <1>2, <1>4, <1>5, <1>7, <1>9, <1>10, <1>11, <1>12

(* A round of the loop keeps what must hold in it, and what the block and the
   lists add up to. *)
Worth(s) == Total(s.lists) + Size[OrderOf(s)]

(* What the block and the lists are worth together does not change by a round. *)
LEMMA JoinedKeeps ==
    ASSUME NEW s, NEW H, NEW g, LoopOK(s, H, g), Joins(s)
    PROVE  /\ LoopOK(Joined(s), H, g) /\ OrderOf(Joined(s)) = OrderOf(s) + 1
           /\ Worth(Joined(s)) = Worth(s)
<1>1. PICK o \in Orders : o = OrderOf(s) /\ o # MaxOrder
  BY BuddyListed
<1>2. PICK a : a = s.block
  OBVIOUS
<1>3. PICK y : y = BuddyOf(a, o)
  OBVIOUS
<1>4. /\ InList(s.lists[o], y) /\ y \in Listed(s.lists) /\ y # a /\ y \notin H
  BY <1>1, <1>2, <1>3, BuddyListed
<1>5. PICK left : left = IF a < y THEN a ELSE y
  OBVIOUS
<1>6. PICK right : right = IF a < y THEN y ELSE a
  OBVIOUS
<1>7. /\ s \in Heaps /\ a \in Addresses /\ y \in Addresses /\ left \in Addresses /\ s.lists \in Lists
      /\ {left, right} = {a, y} /\ left # right /\ H \subseteq Addresses /\ a \notin H
  BY <1>2, <1>4, <1>5, <1>6 DEF LoopOK, Heaps, Listed
<1>8. PICK t : t = Joined(s)
  OBVIOUS
<1> DEFINE l == s.lists[o]
<1>9. PICK i \in 1 .. Len(l) :
         /\ l[i] = y /\ t \in Heaps /\ t.block = left /\ t.whole = (s.whole /\ i = 1)
         /\ t.lists = [s.lists EXCEPT ![o] = RemoveAt(l, i)]
         /\ \A b \in Addresses : /\ t.header[b].order = IF b = left THEN o + 1 ELSE s.header[b].order
                                 /\ b = left => t.header[b].status = "FREE"
                                 /\ b # left /\ (i = 1 \/ ~InList(l, b)) /\ b # y => t.header[b] = s.header[b]
  BY <1>1, <1>2, <1>3, <1>4, <1>5, <1>7, <1>8, JoinedHeap
<1>10. /\ InOrder(s.header, s.lists) /\ (H \cup {a}) \cap Listed(s.lists) = {}
       /\ Tiles(s.header, (H \cup {a}) \cup Listed(s.lists))
  BY <1>2 DEF LoopOK, HeapOK
<1>11. l \in Seq(Addresses) /\ Single(l)
  BY <1>7, <1>10 DEF Lists, InOrder
<1>12. /\ Single(RemoveAt(l, i)) /\ \A b : InList(RemoveAt(l, i), b) <=> InList(l, b) /\ b # y
  BY <1>9, <1>11, WithoutPlace
<1>13. \A q \in Orders : t.lists[q] = IF q = o THEN RemoveAt(l, i) ELSE s.lists[q]
  BY <1>7, <1>9 DEF Lists
<1>14. \A q \in Orders : InList(s.lists[q], y) => q = o
  BY <1>4, <1>10 DEF InOrder
<1> HIDE DEF l
<1>15. \A q \in Orders : Single(t.lists[q]) /\ \A b : InList(t.lists[q], b) <=> InList(s.lists[q], b) /\ b # y
  <2> TAKE q \in Orders
  <2>1. CASE q = o
    BY <1>12, <1>13, <2>1 DEF l
  <2>2. CASE q # o
    BY <1>10, <1>13, <1>14, <2>2 DEF InOrder
  <2>3. QED BY <2>1, <2>2
<1>16. \A b : b \in Listed(t.lists) <=> b \in Listed(s.lists) /\ b # y
  BY <1>15 DEF Listed
<1>17. ASSUME NEW q \in Orders, NEW b, InList(t.lists[q], b)
       PROVE  b \in Addresses /\ b \in Listed(s.lists) /\ b # left /\ b # right /\ InList(s.lists[q], b) /\ b # y
  <2>1. InList(s.lists[q], b) /\ b # y
    BY <1>15, <1>17
  <2>2. b \in Addresses /\ b \in Listed(s.lists)
    BY <1>7, <2>1, InListIn
  <2>3. b # a
    BY <1>10, <2>2
  <2>4. QED BY <1>7, <2>1, <2>2, <2>3
<1>18. InOrder(t.header, t.lists)
  <2>1. ASSUME NEW q \in Orders, NEW b, InList(t.lists[q], b) PROVE t.header[b].order = q
    <3>1. s.header[b].order = q
      BY <1>10, <1>17, <2>1 DEF InOrder
    <3>2. QED BY <1>9, <1>17, <2>1, <3>1
  <2>2. QED BY <1>15, <2>1 DEF InOrder
<1> DEFINE S == (H \cup {a}) \cup Listed(s.lists)
<1>19. (H \cup {left}) \cup Listed(t.lists) = S \ {right} /\ (H \cup {left}) \cap Listed(t.lists) = {}
  BY <1>4, <1>7, <1>10, <1>16
<1>20. Tiles(t.header, S \ {right})
  <2>1. a \in S /\ y \in S /\ S \subseteq Addresses
    BY <1>4, <1>7 DEF Listed
  <2>2. s.header[a].order = o /\ s.header[y].order = o
    BY <1>1, <1>2, <1>4, <1>10 DEF OrderOf, InOrder
  <2>3. \A b \in S \ {right} : t.header[b].order = IF b = left THEN o + 1 ELSE s.header[b].order
    BY <1>9, <2>1
  <2> HIDE DEF S
  <2>4. Tiles(s.header, S)
    BY <1>10 DEF S
  <2>5. QED BY <1>1, <1>3, <1>5, <1>6, <2>1, <2>2, <2>3, <2>4, TilesJoin
<1>21. HeapOK(t.header, t.lists, H \cup {t.block})
  BY <1>9, <1>18, <1>19, <1>20 DEF HeapOK
<1>22. left \notin H
  BY <1>4, <1>7
<1>23. ASSUME NEW b \in H PROVE t.header[b] = g[b] /\ g[b].status = "OCCUPIED"
  <2>1. s.header[b] = g[b] /\ g[b].status = "OCCUPIED" /\ b \in Addresses
    BY <1>7 DEF LoopOK
  <2>2. b # left /\ b # y
    BY <1>4, <1>22
  <2>3. ~InList(l, b)
    BY <1>7, <1>10, InListIn DEF l
  <2>4. QED BY <1>9, <2>1, <2>2, <2>3
<1>24. ASSUME t.whole PROVE AllFree(t.header, t.lists) /\ Unjoined(t.lists)
  <2>1. s.whole /\ i = 1
    BY <1>9, <1>24
  <2>2. AllFree(s.header, s.lists) /\ Unjoined(s.lists)
    BY <2>1 DEF LoopOK
  <2>3. ASSUME NEW q \in Orders, NEW b, InList(t.lists[q], b) PROVE t.header[b].status = "FREE"
    <3>1. s.header[b].status = "FREE"
      BY <1>17, <2>2, <2>3 DEF AllFree
    <3>2. t.header[b] = s.header[b]
      BY <1>9, <1>17, <2>1, <2>3
    <3>3. QED BY <3>1, <3>2
  <2>4. Unjoined(t.lists)
    BY <1>17, <2>2 DEF Unjoined
  <2>5. QED BY <2>3, <2>4 DEF AllFree
<1>25. LoopOK(t, H, g)
  BY <1>7, <1>9, <1>21, <1>22, <1>23, <1>24 DEF LoopOK
<1>26. OrderOf(t) = o + 1
  BY <1>7, <1>9 DEF OrderOf
<1>27. Worth(t) = Worth(s)
  <2>1. t.lists \in Lists /\ s.lists \in Lists
    BY <1>7, <1>9 DEF Heaps
  <2>2. Len(t.lists[o]) = Len(s.lists[o]) + (-1)
    <3>1. Len(RemoveAt(l, i)) = Len(l) - 1 /\ Len(l) \in Nat
      BY <1>9, <1>11, RemovedAt
    <3>2. QED BY <1>13, <3>1 DEF l
  <2>3. \A q \in Orders : q # o => t.lists[q] = s.lists[q]
    BY <1>13
  <2>4. Total(t.lists) = Total(s.lists) + (-1) * Size[o]
    BY <2>1, <2>2, <2>3, TotalChanges
  <2>5. Size[OrderOf(t)] = 2 * Size[o] /\ Size[o] \in Nat /\ Total(s.lists) \in Nat
    BY <1>26, <2>1, OrdersKnown, WeightIs
  <2>6. QED BY <1>1, <2>4, <2>5 DEF Worth
<1>28. QED BY <1>1, <1>8, <1>25, <1>26, <1>27

-----------------------------------------------------------------------------
(* The loop of memory_free. *)
Rounds(f, s, n) == f = [k \in 0 .. n |-> IF k = 0 THEN s ELSE Joined(f[k - 1])]

(* There is such a function for every n. *)
LEMMA RoundsExist ==
    ASSUME NEW s
    PROVE  \A n \in Nat : \E f : Rounds(f, s, n)
<1> DEFINE S == {n \in Nat : ~ \E f : Rounds(f, s, n)}
<1>1. ASSUME S # {} PROVE FALSE
  <2>1. PICK m \in S : \A r \in S : m <= r
    BY <1>1, Least
  <2>2. m # 0
    <3>1. Rounds([k \in 0 .. 0 |-> s], s, 0)
      BY DEF Rounds
    <3>2. QED BY <3>1
  <2>3. m \in Nat /\ m - 1 \in Nat /\ m - 1 \notin S
    BY <2>1, <2>2
  <2>4. PICK f : Rounds(f, s, m - 1)
    BY <2>3
  <2> DEFINE g == [k \in 0 .. m |-> IF k = m THEN Joined(f[m - 1]) ELSE f[k]]
  <2>5. ASSUME NEW k \in 0 .. m PROVE g[k] = IF k = 0 THEN s ELSE Joined(g[k - 1])
    <3>1. CASE k = m
      <4>1. k - 1 \in 0 .. m /\ k - 1 # m /\ k # 0 /\ k - 1 = m - 1
        BY <2>2, <2>3, <3>1
      <4>2. g[k - 1] = f[m - 1] /\ g[k] = Joined(f[m - 1])
        BY <3>1, <4>1
      <4> HIDE DEF g
      <4>3. QED BY <4>1, <4>2
    <3>2. CASE k # m
      <4>1. k \in 0 .. m - 1 /\ g[k] = f[k]
        BY <2>3, <3>2
      <4>2. f[k] = IF k = 0 THEN s ELSE Joined(f[k - 1])
        BY <2>4, <4>1 DEF Rounds
      <4>3. k # 0 => g[k - 1] = f[k - 1]
        BY <2>3, <3>2, <4>1
      <4> HIDE DEF g
      <4>4. CASE k = 0
        BY <4>1, <4>2, <4>4
      <4>5. CASE k # 0
        BY <4>1, <4>2, <4>3, <4>5
      <4>6. QED BY <4>4, <4>5
    <3>3. QED BY <3>1, <3>2
  <2>6. g = [k \in 0 .. m |-> g[k]]
    OBVIOUS
  <2> HIDE DEF g
  <2>7. Rounds(g, s, m)
    BY <2>5, <2>6 DEF Rounds
  <2>8. QED BY <2>7
<1>2. QED BY <1>1

(* What no longer joins stays as it is. *)
LEMMA JoinedStays == ASSUME NEW s, ~Joins(s) PROVE Joined(s) = s
BY DEF Joined, Joins

(* MaxOrder rounds are enough: after the last one nothing joins. *)
LEMMA LoopEnds ==
    ASSUME NEW s, NEW H, NEW g, LoopOK(s, H, g), NEW f, Rounds(f, s, MaxOrder)
    PROVE  LoopOK(f[MaxOrder], H, g) /\ ~Joins(f[MaxOrder]) /\ Worth(f[MaxOrder]) = Worth(s)
<1> DEFINE Good(n) == /\ LoopOK(f[n], H, g) /\ Worth(f[n]) = Worth(s)
                      /\ Joins(f[n]) => n <= OrderOf(f[n])
           S == {n \in 0 .. MaxOrder : ~Good(n)}
<1>0. MaxOrder \in Nat
  BY SizeSteps
<1>1. \A n \in 0 .. MaxOrder : f[n] = IF n = 0 THEN s ELSE Joined(f[n - 1])
  BY DEF Rounds
<1>2. \A u : LoopOK(u, H, g) => OrderOf(u) \in Orders /\ OrderOf(u) \in 0 .. MaxOrder
  BY OrdersKnown DEF LoopOK, HeapOK, Tiles, OrderOf
<1>3. ASSUME S # {} PROVE FALSE
  <2>0. S \in SUBSET Nat
    BY <1>0
  <2>1. PICK m \in S : \A r \in S : m <= r
    <3> HIDE DEF S
    <3>1. QED BY <1>3, <2>0, Least
  <2>2. m # 0
    <3>1. f[0] = s
      BY <1>0, <1>1
    <3>2. Good(0)
      BY <1>2, <3>1
    <3>3. QED BY <2>1, <3>2
  <2>3. m \in Nat /\ m - 1 \in 0 .. MaxOrder /\ m - 1 \notin S /\ f[m] = Joined(f[m - 1])
    BY <1>0, <1>1, <2>1, <2>2
  <2>4. Good(m - 1)
    BY <2>3
  <2>5. PICK u : u = f[m - 1]
    OBVIOUS
  <2>6. CASE Joins(u)
    <3>1. LoopOK(Joined(u), H, g) /\ OrderOf(Joined(u)) = OrderOf(u) + 1 /\ Worth(Joined(u)) = Worth(s)
      BY <2>4, <2>5, <2>6, JoinedKeeps
    <3>2. OrderOf(u) \in 0 .. MaxOrder /\ m - 1 <= OrderOf(u)
      BY <1>2, <2>4, <2>5, <2>6
    <3>3. LoopOK(f[m], H, g) /\ m <= OrderOf(f[m]) /\ Worth(f[m]) = Worth(s)
      BY <2>3, <2>5, <3>1, <3>2
    <3>4. QED BY <2>1, <3>3
  <2>7. CASE ~Joins(u)
    <3>1. f[m] = u
      BY <2>3, <2>5, <2>7, JoinedStays
    <3>2. Good(m)
      BY <2>4, <2>5, <2>7, <3>1
    <3>3. QED BY <2>1, <3>2
  <2>8. QED BY <2>6, <2>7
<1>4. Good(MaxOrder)
  BY <1>0, <1>3
<1>5. ASSUME Joins(f[MaxOrder]) PROVE FALSE
  <2>1. MaxOrder <= OrderOf(f[MaxOrder])
    BY <1>4, <1>5
  <2>2. OrderOf(f[MaxOrder]) < MaxOrder
    BY <1>5 DEF Joins
  <2>3. OrderOf(f[MaxOrder]) \in 0 .. MaxOrder
    BY <1>2, <1>4
  <2>4. QED BY <1>0, <2>1, <2>2, <2>3
<1>6. QED BY <1>4, <1>5

(* memory_free of a: the loop begins with it and ends with a block that joins with
   no other. *)
Freed(a) == [header |-> [header EXCEPT ![a].status = "FREE"],
             lists |-> free_blocks, whole |-> whole, block |-> a]
Put(s, h, L) ==
    /\ h = [s.header EXCEPT ![s.block].status = "FREE"]
    /\ L = [s.lists EXCEPT ![OrderOf(s)] = <<s.block>> \o @]

(* What the last round of the loop leaves is put in the lists. *)
LEMMA Released ==
    ASSUME NEW a, ReleaseBlock(a), NEW H, NEW g, LoopOK(Freed(a), H, g)
    PROVE  \E s : /\ LoopOK(s, H, g) /\ ~Joins(s) /\ Worth(s) = Worth(Freed(a))
                  /\ Put(s, header', free_blocks') /\ whole' = s.whole
<1>1. PICK freed : freed = Freed(a)
  OBVIOUS
<1> DEFINE Step(f) == [n \in 0 .. MaxOrder |-> IF n = 0 THEN freed ELSE Joined(f[n - 1])]
           round == CHOOSE f : f = Step(f)
<1>2. \E f : f = Step(f)
  <2>1. PICK f : Rounds(f, freed, MaxOrder)
    BY SizeSteps, RoundsExist
  <2>2. QED BY <2>1 DEF Rounds
<1>3. round = Step(round)
  <2> HIDE DEF Step
  <2>1. QED BY <1>2
<1>4. Rounds(round, freed, MaxOrder)
  <2> HIDE DEF round
  <2>1. QED BY <1>3 DEF Rounds
<1>5. PICK s : s = round[MaxOrder]
  OBVIOUS
<1>6. LoopOK(s, H, g) /\ ~Joins(s) /\ Worth(s) = Worth(freed)
  <2> HIDE DEF round
  <2>1. LoopOK(freed, H, g)
    BY <1>1
  <2>2. QED BY <1>4, <1>5, <2>1, LoopEnds
<1>7. /\ header' = [s.header EXCEPT ![s.block].status = "FREE"]
      /\ free_blocks' = [s.lists EXCEPT ![OrderOf(s)] = <<s.block>> \o @]
      /\ whole' = s.whole
  BY <1>1, <1>5, Zenon DEF ReleaseBlock, Freed
<1>8. Put(s, header', free_blocks')
  BY <1>7, Zenon DEF Put
<1>9. QED BY <1>1, <1>6, <1>7, <1>8, Zenon

-----------------------------------------------------------------------------
(* The inductive invariant of the buddy manager. *)
PlaceOfHeld(b) == b.start - HeaderSize
HeldPlaces == {PlaceOfHeld(b) : b \in held}
BTypes ==
    /\ header \in [Addresses -> Headers] /\ free_blocks \in Lists /\ whole \in BOOLEAN
    /\ ATypeOK
HeldOnce == \A b, c \in held : PlaceOfHeld(b) = PlaceOfHeld(c) => b = c
HeldFits ==
    \A b \in held : /\ header[PlaceOfHeld(b)].status = "OCCUPIED"
                    /\ b.size + HeaderSize <= Size[header[PlaceOfHeld(b)].order]
BInv ==
    /\ BTypes /\ HeapOK(header, free_blocks, HeldPlaces) /\ HeldOnce /\ HeldFits
    /\ whole => AllFree(header, free_blocks) /\ Unjoined(free_blocks)

(* At the start the memory is one free block. *)
LEMMA BuddyInit == BInit => BInv
<1> SUFFICES ASSUME BInit PROVE BInv
  OBVIOUS
<1> USE DEF BInit, AInit
<1>1. Placed(MemoryStart, MaxOrder) /\ MaxOrder \in Orders /\ MemoryStart \in Int /\ MemoryEnd \in Int
  <2>1. MaxOrder \in Orders /\ Size[MaxOrder] \in Nat /\ MemoryStart \in Int /\ MemoryEnd \in Int
    BY Bounds, OrdersKnown
  <2>2. MemoryStart = MemoryStart + 0 * Size[MaxOrder] /\ MemoryStart + Size[MaxOrder] <= MemoryEnd
    BY <2>1, Bounds
  <2>3. Placed(MemoryStart, MaxOrder)
    BY <2>2 DEF Placed
  <2>4. QED BY <2>1, <2>3
<1>2. MemoryStart \in Addresses
  BY <1>1, PlacedIn
<1>3. header[MemoryStart] = [order |-> MaxOrder, status |-> "FREE"]
  BY <1>2
<1>4. header \in [Addresses -> Headers]
  <2>1. [order |-> MaxOrder, status |-> "FREE"] \in Headers /\ None \in Headers
    BY <1>1 DEF Headers, None
  <2>2. QED BY <2>1
<1>5. <<MemoryStart>> \in Seq(Addresses) /\ << >> \in Seq(Addresses) /\ Len(<<MemoryStart>>) = 1 /\ <<MemoryStart>>[1] = MemoryStart /\ Len(<< >>) = 0
  BY <1>2
<1>6. free_blocks \in Lists
  BY <1>5 DEF Lists
<1>7. \A o \in Orders : \A a : InList(free_blocks[o], a) <=> o = MaxOrder /\ a = MemoryStart
  BY <1>5 DEF InList
<1>8. \A o \in Orders : Single(free_blocks[o])
  BY <1>5 DEF Single
<1>9. Listed(free_blocks) = {MemoryStart} /\ HeldPlaces = {}
  BY <1>1, <1>2, <1>7 DEF Listed, HeldPlaces
<1> HIDE DEF BInit
<1>10. InOrder(header, free_blocks)
  BY <1>3, <1>7, <1>8 DEF InOrder
<1>11. Tiles(header, {MemoryStart})
  <2>1. Beyond(header, MemoryStart) = MemoryEnd
    BY <1>3, Bounds DEF Beyond
  <2>2. \A x \in MemoryStart .. MemoryEnd - 1 : MemoryStart <= x /\ x < MemoryEnd
    BY <1>1
  <2>3. header[MemoryStart].order = MaxOrder
    BY <1>3
  <2>4. QED BY <1>1, <1>2, <2>1, <2>2, <2>3 DEF Tiles
<1>12. HeapOK(header, free_blocks, HeldPlaces)
  BY <1>9, <1>10, <1>11 DEF HeapOK
<1>13. AllFree(header, free_blocks) /\ Unjoined(free_blocks)
  BY <1>3, <1>7 DEF AllFree, Unjoined
<1>14. HeldOnce /\ HeldFits /\ BTypes
  BY <1>4, <1>6 DEF BInit, HeldOnce, HeldFits, BTypes, ATypeOK
<1>15. QED BY <1>12, <1>13, <1>14 DEF BInv

(* memory_free keeps the invariant. *)
LEMMA LoopBegins ==
    ASSUME BInv, NEW b \in held, NEW a, a = PlaceOfHeld(b), NEW H, H = HeldPlaces \ {a}
    PROVE  LoopOK(Freed(a), H, header)
<1>1. a \in HeldPlaces
  BY DEF HeldPlaces
<1>2. HeapOK(header, free_blocks, HeldPlaces) /\ HeldPlaces \subseteq Addresses
  BY DEF BInv, HeapOK, Tiles
<1>3. a \in Addresses /\ H \cup {a} = HeldPlaces /\ a \notin H /\ H \subseteq Addresses
  BY <1>1, <1>2
<1>4. PICK h : h = [header EXCEPT ![a].status = "FREE"]
  OBVIOUS
<1>5. header \in [Addresses -> Headers] /\ free_blocks \in Lists /\ whole \in BOOLEAN
  BY DEF BInv, BTypes
<1>6. header[a] \in Headers /\ [header[a] EXCEPT !.status = "FREE"] \in Headers /\ [header[a] EXCEPT !.status = "FREE"].order = header[a].order
  BY <1>3, <1>5 DEF Headers
<1>7. h \in [Addresses -> Headers] /\ \A c \in Addresses : h[c].order = header[c].order /\ (c # a => h[c] = header[c])
  BY <1>3, <1>4, <1>5, <1>6
<1>8. PICK s : s = Freed(a)
  OBVIOUS
<1>9. s.header = h /\ s.lists = free_blocks /\ s.whole = whole /\ s.block = a /\ s = [header |-> h, lists |-> free_blocks, whole |-> whole, block |-> a]
  BY <1>4, <1>8 DEF Freed
<1>10. s \in Heaps
  BY <1>3, <1>5, <1>7, <1>9 DEF Heaps
<1>11. \A o \in Orders : \A c : InList(free_blocks[o], c) => c \in Addresses /\ c \in Listed(free_blocks) /\ c # a
  <2>1. a \notin Listed(free_blocks)
    BY <1>1, <1>2 DEF HeapOK
  <2>2. QED BY <1>5, <2>1, InListIn
<1>12. HeapOK(h, free_blocks, H \cup {a})
  <2>1. InOrder(h, free_blocks)
    BY <1>2, <1>7, <1>11 DEF HeapOK, InOrder
  <2>2. Tiles(header, HeldPlaces \cup Listed(free_blocks))
    BY <1>2 DEF HeapOK
  <2>3. HeldPlaces \cup Listed(free_blocks) \subseteq Addresses
    BY <1>2 DEF Listed
  <2>4. Tiles(h, HeldPlaces \cup Listed(free_blocks))
    BY <1>7, <2>2, <2>3, TilesSame
  <2>5. QED BY <1>2, <1>3, <2>1, <2>4 DEF HeapOK
<1>13. \A c \in H : header[c].status = "OCCUPIED"
  BY DEF BInv, HeldFits, HeldPlaces
<1>14. whole => AllFree(h, free_blocks) /\ Unjoined(free_blocks)
  BY <1>7, <1>11 DEF BInv, AllFree
<1>15. \A c \in H : h[c] = header[c]
  BY <1>3, <1>7
<1>16. LoopOK(s, H, header)
  BY <1>3, <1>9, <1>10, <1>12, <1>13, <1>14, <1>15 DEF LoopOK
<1>17. QED BY <1>8, <1>16

-----------------------------------------------------------------------------
(* The end of memory_free: the block goes to the list of its order. *)
LEMMA Inserted ==
    ASSUME NEW s, NEW H, NEW g, LoopOK(s, H, g), ~Joins(s), NEW h, NEW L, Put(s, h, L)
    PROVE  /\ h \in [Addresses -> Headers] /\ L \in Lists /\ HeapOK(h, L, H)
           /\ \A c \in H : h[c] = g[c]
           /\ s.whole => AllFree(h, L) /\ Unjoined(L)
           /\ Total(L) = Worth(s)
<1>1. PICK a : a = s.block
  OBVIOUS
<1>2. PICK o : o = OrderOf(s)
  OBVIOUS
<1>3. /\ s.header \in [Addresses -> Headers] /\ s.lists \in Lists /\ a \in Addresses
      /\ a \notin H /\ H \subseteq Addresses
  BY <1>1 DEF LoopOK, Heaps
<1>4. /\ InOrder(s.header, s.lists) /\ (H \cup {a}) \cap Listed(s.lists) = {}
      /\ Tiles(s.header, (H \cup {a}) \cup Listed(s.lists))
  BY <1>1 DEF LoopOK, HeapOK
<1>5. o = s.header[a].order /\ o \in Orders /\ Placed(a, o)
  BY <1>1, <1>2, <1>4 DEF OrderOf, Tiles
<1>6. /\ s.header[a] \in Headers /\ [s.header[a] EXCEPT !.status = "FREE"] \in Headers
      /\ [s.header[a] EXCEPT !.status = "FREE"].order = s.header[a].order
      /\ [s.header[a] EXCEPT !.status = "FREE"].status = "FREE"
  BY <1>3 DEF Headers
<1>7. /\ h \in [Addresses -> Headers] /\ h[a].status = "FREE"
      /\ \A c \in Addresses : h[c].order = s.header[c].order /\ (c # a => h[c] = s.header[c])
  <2>1. h = [s.header EXCEPT ![a].status = "FREE"]
    BY <1>1 DEF Put
  <2>2. QED BY <1>3, <1>6, <2>1
<1>8. PICK l : l = s.lists[o]
  OBVIOUS
<1>9. l \in Seq(Addresses) /\ Single(l) /\ ~InList(l, a)
  <2>1. a \notin Listed(s.lists)
    BY <1>4
  <2>2. QED BY <1>3, <1>4, <1>5, <1>8, <2>1 DEF Lists, InOrder, Listed
<1>10. <<a>> \o l \in Seq(Addresses) /\ Single(<<a>> \o l) /\ \A c : InList(<<a>> \o l, c) <=> InList(l, c) \/ c = a
  BY <1>3, <1>9, WithFirst
<1>11. L \in Lists /\ \A q \in Orders : L[q] = IF q = o THEN <<a>> \o l ELSE s.lists[q]
  <2>1. PICK m : m = <<a>> \o l
    OBVIOUS
  <2>2. m \in Seq(Addresses)
    BY <1>10, <2>1
  <2>3. L = [s.lists EXCEPT ![o] = m]
    BY <1>1, <1>2, <1>8, <2>1 DEF Put
  <2>4. L \in Lists /\ \A q \in Orders : L[q] = IF q = o THEN m ELSE s.lists[q]
    BY <1>3, <1>5, <2>2, <2>3 DEF Lists
  <2>5. QED BY <2>1, <2>4
<1>12. \A q \in Orders : Single(L[q]) /\ \A c : InList(L[q], c) <=> InList(s.lists[q], c) \/ (q = o /\ c = a)
  <2> TAKE q \in Orders
  <2>1. CASE q = o
    BY <1>8, <1>10, <1>11, <2>1
  <2>2. CASE q # o
    BY <1>4, <1>11, <2>2 DEF InOrder
  <2>3. QED BY <2>1, <2>2
<1>13. Listed(L) = Listed(s.lists) \cup {a}
  BY <1>3, <1>5, <1>12 DEF Listed
<1>14. \A q \in Orders : \A c : InList(s.lists[q], c) => c \in Addresses /\ c # a
  BY <1>3, <1>4, InListIn
<1>15. InOrder(h, L)
  BY <1>3, <1>4, <1>5, <1>7, <1>12, <1>14 DEF InOrder
<1>16. Tiles(h, H \cup Listed(L))
  <2>1. (H \cup {a}) \cup Listed(s.lists) = H \cup Listed(L) /\ H \cup Listed(L) \subseteq Addresses
    BY <1>3, <1>13 DEF Listed
  <2>2. Tiles(s.header, H \cup Listed(L))
    BY <1>4, <2>1
  <2>3. QED BY <1>7, <2>1, <2>2, TilesSame
<1>17. HeapOK(h, L, H)
  BY <1>3, <1>4, <1>13, <1>15, <1>16 DEF HeapOK
<1>18. \A c \in H : h[c] = g[c]
  BY <1>3, <1>7 DEF LoopOK
<1>19. ASSUME s.whole PROVE AllFree(h, L) /\ Unjoined(L)
  <2>1. AllFree(s.header, s.lists) /\ Unjoined(s.lists)
    BY <1>19 DEF LoopOK
  <2>2. AllFree(h, L)
    BY <1>7, <1>12, <1>14, <2>1 DEF AllFree
  <2>3. ASSUME NEW q \in Orders \ {MaxOrder}, NEW c, NEW d, InList(L[q], c), InList(L[q], d), d = BuddyOf(c, q)
        PROVE  FALSE
    <3>1. c \in Listed(L) /\ d \in Listed(L)
      BY <1>11, <2>3, InListIn
    <3>2. h[c].order = q /\ h[d].order = q
      BY <1>15, <2>3 DEF InOrder
    <3>3. Placed(c, q)
      BY <1>16, <3>1, <3>2 DEF Tiles
    <3>4. c # d /\ c = BuddyOf(d, q)
      BY <2>3, <3>3, BuddyHalves
    <3>5. ~(InList(s.lists[q], c) /\ InList(s.lists[q], d))
      BY <2>1, <2>3 DEF Unjoined
    <3>6. q = o /\ (c = a \/ d = a)
      BY <1>12, <2>3, <3>5
    <3>7. PICK e : e \in {c, d} /\ e # a /\ e = BuddyOf(a, o) /\ InList(s.lists[o], e)
      <4>1. CASE c = a
        <5>1. InList(s.lists[o], d)
          BY <1>12, <2>3, <3>4, <3>6, <4>1
        <5>2. QED BY <2>3, <3>4, <3>6, <4>1, <5>1
      <4>2. CASE d = a
        <5>1. InList(s.lists[o], c)
          BY <1>12, <2>3, <3>4, <3>6, <4>2
        <5>2. QED BY <2>3, <3>4, <3>6, <4>2, <5>1
      <4>3. QED BY <3>6, <4>1, <4>2
    <3>8. s.header[e].status = "FREE" /\ s.header[e].order = o
      BY <1>4, <1>5, <2>1, <3>7 DEF AllFree, InOrder
    <3>9. o < MaxOrder
      <4>1. o \in 0 .. MaxOrder /\ o # MaxOrder
        BY <1>5, <3>6, OrdersKnown
      <4>2. QED BY <4>1, SizeSteps
    <3>10. QED BY <1>1, <1>2, <3>7, <3>8, <3>9 DEF Joins, JoinsWith
  <2>4. QED BY <2>2, <2>3 DEF Unjoined
<1>20. Total(L) = Worth(s)
  <2>1. Len(<<a>> \o l) = Len(l) + 1
    BY <1>9
  <2>2. Len(L[o]) = Len(s.lists[o]) + 1 /\ \A q \in Orders : q # o => L[q] = s.lists[q]
    BY <1>5, <1>8, <1>11, <2>1
  <2>3. Total(L) = Total(s.lists) + 1 * Size[o]
    BY <1>3, <1>5, <1>11, <2>2, TotalChanges
  <2>4. Size[o] \in Nat
    BY <1>5, OrdersKnown
  <2>5. QED BY <1>2, <2>3, <2>4 DEF Worth
<1>21. QED BY <1>7, <1>11, <1>17, <1>18, <1>19, <1>20

(* memory_free keeps the invariant, and what is held no longer is in the lists. *)
LEMMA FreeKeeps ==
    ASSUME BInv, NEW b \in held, BFree(b)
    PROVE  /\ BInv' /\ HeldPlaces' = HeldPlaces \ {PlaceOfHeld(b)}
           /\ \A c \in HeldPlaces \ {PlaceOfHeld(b)} : header'[c] = header[c]
           /\ Total(free_blocks') = Total(free_blocks) + Size[header[PlaceOfHeld(b)].order]
<1>1. PICK a : a = PlaceOfHeld(b)
  OBVIOUS
<1>2. PICK H : H = HeldPlaces \ {a}
  OBVIOUS
<1>3. ReleaseBlock(a) /\ held' = held \ {b} /\ careful' = careful /\ modest' = modest
  BY <1>1 DEF BFree, PlaceOfHeld, GivenBack
<1>4. PICK g : g = header
  OBVIOUS
<1>5. LoopOK(Freed(a), H, g)
  BY <1>1, <1>2, <1>4, LoopBegins
<1>6. PICK s : /\ LoopOK(s, H, g) /\ ~Joins(s) /\ Worth(s) = Worth(Freed(a))
               /\ Put(s, header', free_blocks') /\ whole' = s.whole
  BY <1>3, <1>5, Released, Zenon
<1>7. /\ header' \in [Addresses -> Headers] /\ free_blocks' \in Lists /\ HeapOK(header', free_blocks', H)
      /\ \A c \in H : header'[c] = g[c]
      /\ whole' => AllFree(header', free_blocks') /\ Unjoined(free_blocks')
      /\ Total(free_blocks') = Worth(s)
  <2>1. PICK h : h = header'
    OBVIOUS
  <2>2. PICK L : L = free_blocks'
    OBVIOUS
  <2>3. LoopOK(s, H, g) /\ ~Joins(s)
    BY <1>6
  <2>4. Put(s, h, L)
    BY <1>6, <2>1, <2>2
  <2>5. /\ h \in [Addresses -> Headers] /\ L \in Lists /\ HeapOK(h, L, H)
        /\ \A c \in H : h[c] = g[c]
        /\ s.whole => AllFree(h, L) /\ Unjoined(L)
        /\ Total(L) = Worth(s)
    BY <2>3, <2>4, Inserted
  <2>6. QED BY <1>6, <2>1, <2>2, <2>5, Zenon
<1>8. HeldPlaces' = H /\ HeldOnce'
  BY <1>1, <1>2, <1>3 DEF BInv, HeldOnce, HeldPlaces, PlaceOfHeld
<1>9. \A c \in held' : c \in held /\ PlaceOfHeld(c) \in H
  BY <1>1, <1>2, <1>3 DEF BInv, HeldOnce, HeldPlaces
<1>10. HeldFits'
  BY <1>4, <1>7, <1>9 DEF BInv, HeldFits, PlaceOfHeld
<1>11. BTypes'
  BY <1>3, <1>6, <1>7 DEF BInv, BTypes, ATypeOK, LoopOK, Heaps
<1>12. BInv'
  BY <1>7, <1>8, <1>10, <1>11 DEF BInv
<1>13. Worth(Freed(a)) = Total(free_blocks) + Size[header[a].order]
  <2>1. header \in [Addresses -> Headers] /\ HeldPlaces \subseteq Addresses
    BY DEF BInv, BTypes, HeapOK, Tiles
  <2>2. a \in Addresses
    BY <1>1, <2>1 DEF HeldPlaces
  <2>3. header[a] \in Headers
    BY <2>1, <2>2
  <2>4. [header EXCEPT ![a].status = "FREE"][a].order = header[a].order
    BY <2>1, <2>2, <2>3 DEF Headers
  <2>5. Freed(a).lists = free_blocks /\ OrderOf(Freed(a)) = header[a].order
    BY <2>4 DEF Freed, OrderOf
  <2>6. QED BY <2>5 DEF Worth
<1>14. QED BY <1>1, <1>2, <1>4, <1>6, <1>7, <1>8, <1>12, <1>13

-----------------------------------------------------------------------------
(* memory_alloc: the headers g and lists M that it leaves of h and L. *)
Split(h, L, g, M, a, need, from) ==
    /\ a = Head(L[from])
    /\ g = [b \in Addresses |->
              CASE b = a -> [order |-> need, status |-> "OCCUPIED"]
                [] \E o \in need .. from - 1 : b = RightHalf(a, o) ->
                      [order |-> CHOOSE o \in need .. from - 1 : b = RightHalf(a, o), status |-> "FREE"]
                [] OTHER -> h[b]]
    /\ M = [o \in Orders |->
              CASE o = from -> Tail(L[o])
                [] o \in need .. from - 1 -> <<RightHalf(a, o)>>
                [] OTHER -> L[o]]

(* The right halves are blocks of their own, each of another order. *)
LEMMA Halves ==
    ASSUME NEW need \in Orders, NEW from \in Orders, NEW a, Placed(a, from)
    PROVE  \A q \in need .. from - 1 :
              /\ q \in Orders /\ q < from /\ q # MaxOrder /\ RightHalf(a, q) # a
              /\ Placed(RightHalf(a, q), q) /\ RightHalf(a, q) \in Addresses
              /\ \A r \in need .. from - 1 : RightHalf(a, q) = RightHalf(a, r) => q = r
<1>1. a \in Int
  BY PlacedIn
<1>2. ASSUME NEW q \in need .. from - 1
      PROVE  /\ q \in Orders /\ q < from /\ q # MaxOrder /\ RightHalf(a, q) # a /\ RightHalf(a, q) = a + Size[q]
             /\ Size[q] \in Nat /\ Placed(RightHalf(a, q), q) /\ RightHalf(a, q) \in Addresses
  <2>1. q \in Orders /\ q < from /\ q <= from /\ q # MaxOrder
    BY Bounds, SizeSteps
  <2>2. Size[q] \in Nat \ {0}
    BY <2>1, OrdersKnown
  <2>3. Placed(RightHalf(a, q), q)
    BY <2>1, PlacedSmaller
  <2>4. RightHalf(a, q) \in Addresses
    BY <2>1, <2>3, PlacedIn
  <2>5. QED BY <1>1, <2>1, <2>2, <2>3, <2>4 DEF RightHalf
<1>3. ASSUME NEW q \in need .. from - 1, NEW r \in need .. from - 1, RightHalf(a, q) = RightHalf(a, r)
      PROVE  q = r
  <2>1. Size[q] = Size[r]
    BY <1>1, <1>2, <1>3
  <2>2. QED BY <1>2, <2>1, SizeOrders
<1>4. QED BY <1>2, <1>3

(* No other block begins where a right half of a block would. *)
LEMMA HalfApart ==
    ASSUME NEW h, NEW S, Tiles(h, S), NEW a \in S, NEW q \in Orders, q < h[a].order
    PROVE  RightHalf(a, q) \notin S
<1> SUFFICES ASSUME RightHalf(a, q) \in S PROVE FALSE
  OBVIOUS
<1>1. h[a].order \in Orders /\ Placed(a, h[a].order)
  BY DEF Tiles
<1>2. PICK from \in Orders : from = h[a].order /\ Placed(a, from)
  BY <1>1
<1>3. a \in Int /\ Size[q] \in Nat \ {0} /\ Size[from] \in Nat \ {0} /\ Size[q] + Size[q] <= Size[from]
  BY <1>2, PlacedIn, OrdersKnown, SizeOrders
<1>4. RightHalf(a, q) = a + Size[q] /\ Beyond(h, a) = a + Size[from]
  BY <1>2 DEF RightHalf, Beyond
<1>5. a < RightHalf(a, q)
  BY <1>3, <1>4
<1>6. Beyond(h, a) <= RightHalf(a, q)
  BY <1>5 DEF Tiles
<1>7. QED BY <1>3, <1>4, <1>6

CanSplit(h, L, U, need, from) ==
    /\ h \in [Addresses -> Headers] /\ L \in Lists /\ HeapOK(h, L, U)
    /\ need \in Orders /\ from \in Orders /\ need <= from
    /\ L[from] # << >> /\ \A q \in need .. from - 1 : L[q] = << >>

After(h, L, U, g, M, a, need) ==
    /\ a \in Addresses /\ a \notin U /\ g \in [Addresses -> Headers] /\ M \in Lists
    /\ HeapOK(g, M, U \cup {a}) /\ g[a] = [order |-> need, status |-> "OCCUPIED"]
    /\ \A b \in U : g[b] = h[b]
    /\ AllFree(h, L) => AllFree(g, M)
    /\ Unjoined(L) => Unjoined(M)
    /\ Total(M) = Total(L) - Size[need]

(* Such a split leaves a heap, in which the block that is given is held. *)
LEMMA SplitHeap ==
    ASSUME NEW h, NEW L, NEW U, NEW need, NEW from, CanSplit(h, L, U, need, from),
           NEW a, NEW g, NEW M, Split(h, L, g, M, a, need, from)
    PROVE  After(h, L, U, g, M, a, need)
<1> DEFINE cut == need .. from - 1
           R == {RightHalf(a, q) : q \in cut}
           S == U \cup Listed(L)
<1>34. /\ h \in [Addresses -> Headers] /\ L \in Lists /\ HeapOK(h, L, U)
       /\ need \in Orders /\ from \in Orders /\ need <= from
       /\ L[from] # << >> /\ \A q \in cut : L[q] = << >>
  BY DEF CanSplit
<1> USE <1>34
<1>1. InOrder(h, L) /\ U \cap Listed(L) = {} /\ Tiles(h, S) /\ S \subseteq Addresses
  BY DEF HeapOK, Tiles
<1>2. L[from] \in Seq(Addresses) /\ Single(L[from])
  BY <1>1 DEF Lists, InOrder
<1>3. /\ Tail(L[from]) \in Seq(Addresses) /\ Single(Tail(L[from])) /\ a \in Addresses /\ InList(L[from], a)
      /\ \A b : InList(Tail(L[from]), b) <=> InList(L[from], b) /\ b # a
  <2>1. a = Head(L[from])
    BY DEF Split
  <2>2. QED BY <1>2, <2>1, WithoutFirst
<1>4. a \in Listed(L) /\ a \in S /\ a \notin U /\ h[a].order = from
  BY <1>1, <1>3 DEF Listed, InOrder
<1>5. Placed(a, from)
  BY <1>1, <1>4 DEF Tiles
<1>6. \A q \in cut : /\ q \in Orders /\ q < from /\ q # MaxOrder /\ RightHalf(a, q) # a
                     /\ Placed(RightHalf(a, q), q) /\ RightHalf(a, q) \in Addresses
                     /\ \A r \in cut : RightHalf(a, q) = RightHalf(a, r) => q = r
  BY <1>5, Halves
<1> DEFINE G(b) == CASE b = a -> [order |-> need, status |-> "OCCUPIED"]
                     [] \E o \in cut : b = RightHalf(a, o) ->
                           [order |-> CHOOSE o \in cut : b = RightHalf(a, o), status |-> "FREE"]
                     [] OTHER -> h[b]
<1>26. g = [b \in Addresses |-> G(b)]
  BY Zenon DEF Split
<1> HIDE DEF cut
<1>31. G(a) = [order |-> need, status |-> "OCCUPIED"]
  BY <1>6
<1>32. ASSUME NEW b \in Addresses, b # a, \E o \in cut : b = RightHalf(a, o)
       PROVE  G(b) = [order |-> CHOOSE o \in cut : b = RightHalf(a, o), status |-> "FREE"]
  BY <1>32
<1>33. ASSUME NEW b \in Addresses, b # a, b \notin R PROVE G(b) = h[b]
  BY <1>33
<1> HIDE DEF G
<1>28. \A b \in Addresses : g[b] = G(b)
  BY <1>26, Zenon
<1>7. g[a] = [order |-> need, status |-> "OCCUPIED"]
  BY <1>3, <1>28, <1>31
<1>8. ASSUME NEW q \in cut PROVE g[RightHalf(a, q)] = [order |-> q, status |-> "FREE"]
  <2>1. PICK x : x = RightHalf(a, q)
    OBVIOUS
  <2>2. x \in Addresses /\ x # a /\ \E o \in cut : x = RightHalf(a, o)
    BY <1>6, <2>1
  <2>3. (CHOOSE o \in cut : x = RightHalf(a, o)) = q
    BY <1>6, <2>1
  <2>4. g[x] = [order |-> CHOOSE o \in cut : x = RightHalf(a, o), status |-> "FREE"]
    BY <1>28, <1>32, <2>2
  <2>5. QED BY <2>1, <2>3, <2>4
<1>9. \A b \in Addresses : b # a /\ b \notin R => g[b] = h[b]
  BY <1>28, <1>33
<1>10. g \in [Addresses -> Headers]
  <2>1. \A q \in cut : [order |-> q, status |-> "FREE"] \in Headers
    BY <1>6 DEF Headers
  <2>2. [order |-> need, status |-> "OCCUPIED"] \in Headers
    BY DEF Headers
  <2>3. \A b \in Addresses : g[b] \in Headers
    BY <1>7, <1>8, <1>9, <2>1, <2>2
  <2>4. g = [b \in Addresses |-> g[b]]
    BY <1>26
  <2>5. QED BY <2>3, <2>4
<1>11. /\ Tiles(g, S \cup R) /\ \A q \in cut : RightHalf(a, q) \notin S
  <2>1. g[a].order = need
    BY <1>7
  <2>2. \A q \in cut : g[RightHalf(a, q)].order = q
    <3> TAKE q \in cut
    <3>1. g[RightHalf(a, q)] = [order |-> q, status |-> "FREE"]
      BY <1>8
    <3>2. QED BY <3>1
  <2>4. \A q \in cut : RightHalf(a, q) \notin S
    BY <1>1, <1>4, <1>6, HalfApart
  <2>3. \A b \in S \ {a} : g[b].order = h[b].order
    BY <1>1, <1>9, <2>4
  <2> HIDE DEF S
  <2>5. QED BY <1>1, <1>4, <2>1, <2>2, <2>3, <2>4, TilesSplit DEF cut
<1>12. /\ M \in Lists
       /\ \A q \in Orders : M[q] = IF q = from THEN Tail(L[from])
                                  ELSE IF q \in cut THEN <<RightHalf(a, q)>> ELSE L[q]
  <2>1. \A q \in Orders : M[q] = IF q = from THEN Tail(L[from])
                                 ELSE IF q \in cut THEN <<RightHalf(a, q)>> ELSE L[q]
    BY DEF Split, cut
  <2>2. \A q \in cut : <<RightHalf(a, q)>> \in Seq(Addresses)
    BY <1>6
  <2>3. \A q \in Orders : L[q] \in Seq(Addresses)
    BY DEF Lists
  <2>4. \A q \in Orders : M[q] \in Seq(Addresses)
    BY <1>3, <2>1, <2>2, <2>3
  <2>5. M = [q \in Orders |-> M[q]]
    BY DEF Split
  <2>6. QED BY <2>1, <2>4, <2>5 DEF Lists
<1>13. ASSUME NEW x
       PROVE  Single(<<x>>) /\ \A b : InList(<<x>>, b) <=> b = x
  <2>1. Len(<<x>>) = 1 /\ <<x>>[1] = x
    OBVIOUS
  <2>2. QED BY <2>1 DEF Single, InList
<1>14. \A q \in Orders : InList(L[q], a) => q = from
  BY <1>1, <1>4 DEF InOrder
<1>15. \A q \in Orders : Single(M[q]) /\ \A b : InList(M[q], b) <=>
                            \/ q \notin cut /\ InList(L[q], b) /\ b # a
                            \/ q \in cut /\ b = RightHalf(a, q)
  <2> TAKE q \in Orders
  <2>1. CASE q = from
    <3>1. q \notin cut
      BY <1>6, <2>1, OrdersKnown
    <3>2. QED BY <1>3, <1>12, <2>1, <3>1
  <2>2. CASE q # from /\ q \in cut
    <3>1. M[q] = <<RightHalf(a, q)>>
      BY <1>12, <2>2
    <3>2. PICK x : x = RightHalf(a, q)
      OBVIOUS
    <3>3. Single(M[q]) /\ \A b : InList(M[q], b) <=> b = RightHalf(a, q)
      BY <1>13, <3>1, <3>2
    <3>4. QED BY <2>2, <3>3
  <2>3. CASE q # from /\ q \notin cut
    BY <1>1, <1>12, <1>14, <2>3 DEF InOrder
  <2>4. QED BY <2>1, <2>2, <2>3
<1>16. \A q \in cut : \A b : ~InList(L[q], b)
  BY DEF InList, cut
<1>17. Listed(M) = (Listed(L) \ {a}) \cup R
  <2>1. ASSUME NEW b \in Listed(M) PROVE b \in (Listed(L) \ {a}) \cup R
    BY <1>15 DEF Listed
  <2>2. ASSUME NEW b \in Listed(L), b # a PROVE b \in Listed(M)
    BY <1>15, <1>16, <2>2 DEF Listed
  <2>3. ASSUME NEW q \in cut PROVE RightHalf(a, q) \in Listed(M)
    BY <1>6, <1>15 DEF Listed
  <2>4. QED BY <2>1, <2>2, <2>3
<1>18. U \cup {a} \cup Listed(M) = S \cup R /\ (U \cup {a}) \cap Listed(M) = {} /\ a \notin R /\ U \cap R = {}
  BY <1>1, <1>4, <1>6, <1>11, <1>17
<1>19. \A q \in Orders : \A b : InList(L[q], b) /\ b # a => b \in Listed(L) /\ g[b] = h[b]
  <2>1. \A q \in Orders : \A b : InList(L[q], b) => b \in Addresses /\ b \in Listed(L)
    BY InListIn
  <2>2. \A b \in Listed(L) : b \notin R
    BY <1>11
  <2>3. QED BY <1>9, <2>1, <2>2
<1>20. InOrder(g, M)
  <2>1. ASSUME NEW q \in Orders, NEW b, InList(M[q], b) PROVE g[b].order = q
    <3>1. CASE q \in cut
      <4>1. b = RightHalf(a, q)
        BY <1>15, <2>1, <3>1
      <4>2. g[RightHalf(a, q)] = [order |-> q, status |-> "FREE"]
        BY <1>8, <3>1
      <4>3. QED BY <4>1, <4>2
    <3>2. CASE q \notin cut
      BY <1>1, <1>15, <1>19, <2>1, <3>2 DEF InOrder
    <3>3. QED BY <3>1, <3>2
  <2>2. QED BY <1>15, <2>1 DEF InOrder
<1>21. HeapOK(g, M, U \cup {a})
  BY <1>11, <1>18, <1>20 DEF HeapOK
<1>22. \A b \in U : g[b] = h[b]
  BY <1>1, <1>4, <1>9, <1>18
<1>23. ASSUME AllFree(h, L) PROVE AllFree(g, M)
  <2>1. ASSUME NEW q \in Orders, NEW b, InList(M[q], b) PROVE g[b].status = "FREE"
    <3>1. CASE q \in cut
      <4>1. b = RightHalf(a, q)
        BY <1>15, <2>1, <3>1
      <4>2. g[RightHalf(a, q)] = [order |-> q, status |-> "FREE"]
        BY <1>8, <3>1
      <4>3. QED BY <4>1, <4>2
    <3>2. CASE q \notin cut
      BY <1>15, <1>19, <1>23, <2>1, <3>2 DEF AllFree
    <3>3. QED BY <3>1, <3>2
  <2>2. QED BY <2>1 DEF AllFree
<1>24. ASSUME Unjoined(L) PROVE Unjoined(M)
  <2>1. ASSUME NEW q \in Orders \ {MaxOrder}, NEW b, NEW c, InList(M[q], b), InList(M[q], c)
        PROVE  c # BuddyOf(b, q)
    <3>1. CASE q \in cut
      <4>0. b = RightHalf(a, q) /\ c = RightHalf(a, q)
        BY <1>15, <2>1, <3>1
      <4>1. b = c /\ Placed(b, q)
        BY <1>6, <3>1, <4>0
      <4>2. BuddyOf(b, q) # b
        BY <4>1, BuddyHalves
      <4>3. QED BY <4>1, <4>2
    <3>2. CASE q \notin cut
      BY <1>15, <1>24, <2>1, <3>2 DEF Unjoined
    <3>3. QED BY <3>1, <3>2
  <2>2. QED BY <2>1 DEF Unjoined
<1>25. Total(M) = Total(L) - Size[need]
  <2>1. Len(M[from]) = Len(L[from]) - 1
    <3>1. Len(Tail(L[from])) = Len(L[from]) - 1
      BY <1>2, HeadTailProperties
    <3>2. QED BY <1>12, <3>1
  <2>2. ASSUME NEW q \in cut PROVE Len(L[q]) = 0 /\ Len(M[q]) = 1
    <3>1. q \in Orders /\ q # from
      BY <1>6, OrdersKnown
    <3>2. M[q] = <<RightHalf(a, q)>> /\ L[q] = << >>
      BY <1>12, <3>1
    <3>3. QED BY <3>2
  <2>3. ASSUME NEW q \in Orders, q \notin need .. from PROVE M[q] = L[q]
    <3>1. need \in Nat /\ from \in Nat /\ q \in Nat
      BY OrdersKnown
    <3>2. q # from /\ q \notin cut
      BY <2>3, <3>1 DEF cut
    <3>3. QED BY <1>12, <3>2
  <2>4. \A q \in need .. from - 1 : Len(L[q]) = 0 /\ Len(M[q]) = 1
    BY <2>2 DEF cut
  <2>5. QED BY <1>12, <2>1, <2>3, <2>4, TotalSplits
<1>40. QED BY <1>3, <1>4, <1>7, <1>10, <1>12, <1>21, <1>22, <1>23, <1>24, <1>25 DEF After

-----------------------------------------------------------------------------

(* LowestOf is the least number of a set. *)
LEMMA Lowest ==
    ASSUME NEW T \in SUBSET Nat, T # {}
    PROVE  LowestOf(T) \in T /\ \A q \in T : LowestOf(T) <= q
<1>1. \E m \in T : \A q \in T : m <= q
  BY Least
<1>2. QED BY <1>1 DEF LowestOf

(* The order that memory_alloc looks for is that of a block with room for the
   header and what was asked for. *)
LEMMA OrderIsEnough ==
    ASSUME NEW size \in Sizes, size <= MemorySize
    PROVE  OrderFor(size) \in MinLevel .. MaxOrder + 1 /\ size + HeaderSize <= Size[OrderFor(size)]
<1> DEFINE T == {o \in MinLevel .. MaxOrder + 1 : Size[o] >= size + HeaderSize}
<1>1. T \in SUBSET Nat
  BY SizeSteps
<1>2. MaxOrder + 1 \in T
  <2>1. Size[MaxOrder + 1] = 2 * Size[MaxOrder] /\ Size[MinLevel] <= Size[MaxOrder] /\ Size[MaxOrder] \in Nat /\ Size[MinLevel] \in Nat
    BY Bounds, OrdersKnown, SizeOrders
  <2>2. size \in Nat /\ MemorySize = Size[MaxOrder]
    BY AllocatorOK, BuddyOK DEF AllocatorOK, BuddyOK
  <2>3. Size[MaxOrder + 1] >= size + HeaderSize
    <3>1. HeaderSize \in Nat /\ HeaderSize < Size[MinLevel]
      BY Bounds
    <3>2. size <= Size[MaxOrder]
      BY <2>2
    <3>3. QED BY <2>1, <2>2, <3>1, <3>2
  <2>4. QED BY <2>3, SizeSteps
<1>3. LowestOf(T) \in T
  <2> HIDE DEF T
  <2>1. QED BY <1>1, <1>2, Lowest
<1>4. QED BY <1>3 DEF OrderFor

(* memory_alloc keeps the invariant, and what is held was in the lists. *)
LEMMA AllocKeeps ==
    ASSUME BInv, NEW size \in Sizes, BAlloc(size)
    PROVE  /\ BInv'
           /\ \E a \in Addresses \ HeldPlaces : /\ HeldPlaces' = HeldPlaces \cup {a}
                                                /\ \A c \in HeldPlaces : header'[c] = header[c]
                                                /\ header'[a].order \in Orders
                                                /\ Total(free_blocks') = Total(free_blocks) - Size[header'[a].order]
<1>1. PICK need : need = OrderFor(size)
  OBVIOUS
<1> DEFINE large == {o \in Orders : o >= need /\ free_blocks[o] # << >>}
<1>2. PICK from : from = LowestOf(large)
  OBVIOUS
<1>3. PICK a : a = Head(free_blocks[from])
  OBVIOUS
<1>4. size <= MemorySize /\ large # {}
  BY <1>1 DEF BAlloc
<1>5. need \in MinLevel .. MaxOrder + 1 /\ size + HeaderSize <= Size[need]
  BY <1>1, <1>4, OrderIsEnough
<1>6. large \in SUBSET Nat
  BY OrdersKnown
<1>7. from \in large /\ \A q \in large : from <= q
  <2> HIDE DEF large
  <2>1. QED BY <1>2, <1>4, <1>6, Lowest
<1>8. from \in Orders /\ need \in Orders /\ need <= from /\ free_blocks[from] # << >>
  <2>1. from \in Orders /\ from >= need /\ free_blocks[from] # << >>
    BY <1>7
  <2>2. from \in Nat /\ need \in Nat
    <3>1. from \in Nat
      BY <2>1, OrdersKnown
    <3>2. need \in Nat
      BY <1>5, SizeSteps
    <3>3. QED BY <3>1, <3>2
  <2>3. QED BY <1>5, <2>1, <2>2, Bounds
<1>9. \A q \in need .. from - 1 : free_blocks[q] = << >>
  <2> SUFFICES ASSUME NEW q \in need .. from - 1, free_blocks[q] # << >> PROVE FALSE
    OBVIOUS
  <2>1. need \in Nat /\ from \in Nat /\ MinLevel <= need /\ from <= MaxOrder
    BY <1>8, Bounds, OrdersKnown
  <2>2. q \in Orders /\ q >= need /\ q < from
    BY <2>1, Bounds
  <2>3. q \in large
    BY <2>2
  <2>4. QED BY <1>7, <2>1, <2>2, <2>3
<1>10. PICK h : h = header
  OBVIOUS
<1>11. PICK L : L = free_blocks
  OBVIOUS
<1>12. PICK g : g = header'
  OBVIOUS
<1>13. PICK M : M = free_blocks'
  OBVIOUS
<1>14. Split(h, L, g, M, a, need, from)
  <2> DEFINE n == OrderFor(size)
             f == LowestOf({o \in Orders : o >= n /\ free_blocks[o] # << >>})
  <2>1. Split(header, free_blocks, header', free_blocks', Head(free_blocks[f]), n, f)
    BY DEF BAlloc, Split
  <2> HIDE DEF n, f
  <2>2. n = need /\ f = from
    BY <1>1, <1>2 DEF n, f
  <2>3. QED BY <1>3, <1>10, <1>11, <1>12, <1>13, <2>1, <2>2
<1>29. Given(a + HeaderSize, size) /\ whole' = whole
  BY <1>1, <1>2, <1>3, Zenon DEF BAlloc
<1>30. /\ held' = held \cup {[start |-> a + HeaderSize, size |-> size]}
       /\ careful' = careful /\ modest' = (modest /\ size <= MemorySize)
  BY <1>29 DEF Given
<1>15. PICK U : U = HeldPlaces
  OBVIOUS
<1>16. h \in [Addresses -> Headers] /\ L \in Lists /\ HeapOK(h, L, U)
  BY <1>10, <1>11, <1>15 DEF BInv, BTypes
<1>17. L[from] # << >> /\ \A q \in need .. from - 1 : L[q] = << >>
  BY <1>8, <1>9, <1>11
<1> HIDE DEF large
<1>18. /\ a \in Addresses /\ a \notin U /\ g \in [Addresses -> Headers] /\ M \in Lists
       /\ HeapOK(g, M, U \cup {a}) /\ g[a] = [order |-> need, status |-> "OCCUPIED"]
       /\ \A b \in U : g[b] = h[b]
       /\ AllFree(h, L) => AllFree(g, M)
       /\ Unjoined(L) => Unjoined(M)
       /\ Total(M) = Total(L) - Size[need]
  <2>1. CanSplit(h, L, U, need, from)
    BY <1>8, <1>16, <1>17 DEF CanSplit
  <2>2. After(h, L, U, g, M, a, need)
    BY <1>14, <2>1, SplitHeap
  <2>3. QED BY <2>2 DEF After
<1>19. PICK new : new = [start |-> a + HeaderSize, size |-> size]
  OBVIOUS
<1>20. new \in Grants /\ new.start - HeaderSize = a /\ new.size = size
  <2>1. a \in Nat /\ HeaderSize \in Nat
    BY <1>18, Bounds DEF Addresses
  <2>2. QED BY <1>19, <2>1 DEF Grants
<1>21. held' = held \cup {new}
  BY <1>19, <1>30
<1>22. HeldPlaces' = U \cup {a} /\ \A b \in held : PlaceOfHeld(b) \in U
  BY <1>15, <1>20, <1>21 DEF HeldPlaces, PlaceOfHeld
<1>23. HeldOnce'
  <2>1. \A b \in held : PlaceOfHeld(b) # a
    BY <1>18, <1>22
  <2>2. QED BY <1>20, <1>21, <2>1 DEF BInv, HeldOnce, PlaceOfHeld
<1>24. HeldFits'
  <2>1. \A b \in held : header'[PlaceOfHeld(b)] = header[PlaceOfHeld(b)]
    BY <1>10, <1>12, <1>18, <1>22
  <2>2. header'[a] = [order |-> need, status |-> "OCCUPIED"]
    BY <1>12, <1>18
  <2>3. ASSUME NEW b \in held'
        PROVE  /\ header'[PlaceOfHeld(b)].status = "OCCUPIED"
               /\ b.size + HeaderSize <= Size[header'[PlaceOfHeld(b)].order]
    <3>1. CASE b \in held
      BY <2>1, <3>1 DEF BInv, HeldFits
    <3>2. CASE b = new
      BY <1>5, <1>20, <2>2, <3>2 DEF PlaceOfHeld
    <3>3. QED BY <1>21, <3>1, <3>2
  <2>4. QED BY <2>3 DEF HeldFits, PlaceOfHeld
<1>25. BTypes'
  BY <1>12, <1>13, <1>18, <1>20, <1>21, <1>29, <1>30 DEF BInv, BTypes, ATypeOK
<1>26. HeapOK(header', free_blocks', HeldPlaces')
  BY <1>12, <1>13, <1>18, <1>22
<1>27. whole' => AllFree(header', free_blocks') /\ Unjoined(free_blocks')
  BY <1>10, <1>11, <1>12, <1>13, <1>18, <1>29 DEF BInv
<1>28. BInv'
  BY <1>23, <1>24, <1>25, <1>26, <1>27 DEF BInv
<1>31. /\ a \in Addresses \ HeldPlaces /\ HeldPlaces' = HeldPlaces \cup {a}
       /\ \A c \in HeldPlaces : header'[c] = header[c]
       /\ header'[a].order \in Orders /\ Total(free_blocks') = Total(free_blocks) - Size[header'[a].order]
  BY <1>8, <1>10, <1>11, <1>12, <1>13, <1>15, <1>18, <1>22
<1>32. QED BY <1>28, <1>31

(* Every call of memory_alloc and memory_free keeps the invariant. *)
LEMMA BuddyInductive == BInv /\ [BNext]_bvars => BInv'
<1> SUFFICES ASSUME BInv, [BNext]_bvars PROVE BInv'
  OBVIOUS
<1>1. ASSUME NEW size \in Sizes, BAlloc(size) PROVE BInv'
  BY <1>1, AllocKeeps
<1>2. ASSUME NEW b \in held, BFree(b) PROVE BInv'
  BY <1>2, FreeKeeps
<1>3. CASE UNCHANGED bvars
  BY <1>3 DEF bvars, avars, BInv, BTypes, ATypeOK, HeapOK, HeldPlaces, PlaceOfHeld, HeldOnce, HeldFits, InOrder, Listed,
              Tiles, Beyond, AllFree, Unjoined
<1>4. QED BY <1>1, <1>2, <1>3 DEF BNext

-----------------------------------------------------------------------------
(* What the invariant says of the parts that the memory is made of. *)
Places == HeldPlaces \cup Listed(free_blocks)
PartAt(a) == [start |-> a, size |-> Size[header[a].order]]

(* Two ways to say what is in a list. *)
LEMMA InToSet ==
    ASSUME BInv, NEW o \in Orders
    PROVE  \A a : a \in ToSet(free_blocks[o]) <=> InList(free_blocks[o], a)
<1>1. PICK l \in Seq(Addresses) : l = free_blocks[o]
  BY DEF BInv, BTypes, Lists
<1>2. DOMAIN l = 1 .. Len(l)
  OBVIOUS
<1>3. \A a : a \in ToSet(l) <=> InList(l, a)
  BY <1>2 DEF ToSet, InList
<1>4. QED BY <1>1, <1>3

(* The parts are the blocks that begin at these places. *)
LEMMA PartsArePlaces ==
    ASSUME BInv
    PROVE  /\ FreeParts = {PartAt(a) : a \in Listed(free_blocks)}
           /\ HeldParts = {PartAt(a) : a \in HeldPlaces}
<1>1. HeldParts = {PartAt(a) : a \in HeldPlaces}
  BY DEF HeldParts, HeldPlaces, PlaceOfHeld, PartAt
<1>2. \A o \in Orders : \A a : InList(free_blocks[o], a) => a \in Listed(free_blocks) /\ header[a].order = o
  BY InListIn DEF BInv, BTypes, HeapOK, InOrder
<1>3. ASSUME NEW p \in FreeParts PROVE \E a \in Listed(free_blocks) : p = PartAt(a)
  <2>0. PICK o \in Orders : p \in {[start |-> a, size |-> Size[o]] : a \in ToSet(free_blocks[o])}
    BY DEF FreeParts
  <2>1. PICK a \in ToSet(free_blocks[o]) : p = [start |-> a, size |-> Size[o]]
    BY <2>0
  <2>2. InList(free_blocks[o], a)
    BY InToSet
  <2>3. a \in Listed(free_blocks) /\ header[a].order = o
    BY <1>2, <2>2
  <2>4. QED BY <2>1, <2>3 DEF PartAt
<1>4. ASSUME NEW a \in Listed(free_blocks) PROVE PartAt(a) \in FreeParts
  <2>1. PICK o \in Orders : InList(free_blocks[o], a)
    BY DEF Listed
  <2>2. a \in ToSet(free_blocks[o]) /\ header[a].order = o
    BY <1>2, <2>1, InToSet
  <2>3. PartAt(a) = [start |-> a, size |-> Size[o]]
    BY <2>2 DEF PartAt
  <2>4. QED BY <2>2, <2>3 DEF FreeParts
<1>5. FreeParts = {PartAt(a) : a \in Listed(free_blocks)}
  BY <1>3, <1>4
<1>6. QED BY <1>1, <1>5

(* They tile the memory. *)
LEMMA PlacesAre ==
    ASSUME BInv
    PROVE  /\ Tiles(header, Places)
           /\ \A a \in Places : /\ a \in Int /\ Size[header[a].order] \in Nat \ {0}
                                /\ PartAt(a).start = a /\ PartAt(a).size = Size[header[a].order]
                                /\ Beyond(header, a) = a + Size[header[a].order]
<1>1. Tiles(header, Places)
  BY DEF BInv, HeapOK, Places
<1>2. ASSUME NEW a \in Places PROVE a \in Int /\ Size[header[a].order] \in Nat \ {0}
  <2>1. header[a].order \in Orders /\ Placed(a, header[a].order)
    BY <1>1 DEF Tiles
  <2>2. QED BY <2>1, PlacedIn, OrdersKnown
<1>3. QED BY <1>1, <1>2 DEF PartAt, Beyond

(* So each address is in one part, and no two parts overlap. *)
LEMMA BuddyPartition == BInv => MemoryIsPartitioned
<1> SUFFICES ASSUME BInv PROVE MemoryIsPartitioned
  OBVIOUS
<1>1. /\ FreeParts = {PartAt(a) : a \in Listed(free_blocks)}
      /\ HeldParts = {PartAt(a) : a \in HeldPlaces}
  BY PartsArePlaces
<1>2. FreeParts \cup HeldParts = {PartAt(a) : a \in Places}
  BY <1>1 DEF Places
<1>3. BTypeOK
  BY DEF BInv, BTypes, ATypeOK, BTypeOK, Headers, Lists
<1>4. ASSUME NEW x \in Addresses
      PROVE  \E p \in FreeParts \cup HeldParts : x \in p.start .. p.start + p.size - 1
  <2>1. x \in MemoryStart .. MemoryEnd - 1 /\ x \in Int
    BY Bounds DEF Addresses
  <2>2. PICK a \in Places : a <= x /\ x < Beyond(header, a)
    BY <2>1, PlacesAre DEF Tiles
  <2>3. x \in PartAt(a).start .. PartAt(a).start + PartAt(a).size - 1
    BY <2>1, <2>2, PlacesAre
  <2>4. QED BY <1>2, <2>3
<1>5. ASSUME NEW p \in FreeParts \cup HeldParts, NEW q \in FreeParts \cup HeldParts, p # q
      PROVE  Apart(p, q)
  <2>1. PICK a \in Places : p = PartAt(a)
    BY <1>2
  <2>2. PICK b \in Places : q = PartAt(b)
    BY <1>2
  <2>3. a # b
    BY <1>5, <2>1, <2>2
  <2>4. (a < b => Beyond(header, a) <= b) /\ (b < a => Beyond(header, b) <= a)
    BY PlacesAre DEF Tiles
  <2>5. p.start + p.size <= q.start \/ q.start + q.size <= p.start
    BY <2>1, <2>2, <2>3, <2>4, PlacesAre
  <2>6. QED BY <2>5 DEF Apart
<1>6. FreeParts \cap HeldParts = {}
  <2> SUFFICES ASSUME NEW p \in FreeParts, p \in HeldParts PROVE FALSE
    OBVIOUS
  <2>1. PICK a \in Listed(free_blocks) : p = PartAt(a)
    BY <1>1
  <2>2. PICK b \in HeldPlaces : p = PartAt(b)
    BY <1>1
  <2>3. a = b
    BY <2>1, <2>2 DEF PartAt
  <2>4. QED BY <2>3 DEF BInv, HeapOK
<1>7. \A o \in Orders : IsInjective(free_blocks[o]) /\ \A a \in ToSet(free_blocks[o]) : header[a].order = o
  <2> TAKE o \in Orders
  <2>1. Single(free_blocks[o]) /\ \A a : InList(free_blocks[o], a) => header[a].order = o
    BY DEF BInv, HeapOK, InOrder
  <2>2. DOMAIN free_blocks[o] = 1 .. Len(free_blocks[o])
    BY DEF BInv, BTypes, Lists
  <2>3. QED BY <2>1, <2>2, InToSet DEF IsInjective, Single
<1>8. QED BY <1>3, <1>4, <1>5, <1>6, <1>7 DEF MemoryIsPartitioned

(* What is listed and marked free has been joined. *)
LEMMA BuddyNothingToJoin == BInv => NothingToJoin
BY InToSet DEF BInv, NothingToJoin, Unjoined

(* Blocks that are held have a header each, in tiles of their own. *)
LEMMA BuddyApart == BInv => NoOverlap
<1> SUFFICES ASSUME BInv, NEW b \in held, NEW c \in held, b # c PROVE Apart(b, c)
  BY DEF NoOverlap
<1>1. PICK p : p = PlaceOfHeld(b)
  OBVIOUS
<1>2. PICK q : q = PlaceOfHeld(c)
  OBVIOUS
<1>3. p # q /\ p \in HeldPlaces /\ q \in HeldPlaces
  BY <1>1, <1>2 DEF BInv, HeldOnce, HeldPlaces
<1>4. p \in Places /\ q \in Places
  BY <1>3 DEF Places
<1>5. p \in Int /\ q \in Int /\ (p < q => Beyond(header, p) <= q) /\ (q < p => Beyond(header, q) <= p)
  BY <1>4, PlacesAre DEF Tiles
<1>6. b.size + HeaderSize <= Size[header[p].order] /\ c.size + HeaderSize <= Size[header[q].order]
  BY <1>1, <1>2 DEF BInv, HeldFits
<1>7. b.start = p + HeaderSize /\ c.start = q + HeaderSize /\ b.size \in Nat /\ c.size \in Nat /\ HeaderSize \in Nat
  <2>1. b \in Grants /\ c \in Grants
    BY DEF BInv, BTypes, ATypeOK
  <2>2. b.start \in Nat /\ b.size \in Nat /\ c.start \in Nat /\ c.size \in Nat
    BY <2>1, AllocatorOK DEF Grants, AllocatorOK
  <2>3. HeaderSize \in Nat
    BY Bounds
  <2>4. QED BY <1>1, <1>2, <2>2, <2>3 DEF PlaceOfHeld
<1>8. /\ Beyond(header, p) = p + Size[header[p].order] /\ Size[header[p].order] \in Nat
      /\ Beyond(header, q) = q + Size[header[q].order] /\ Size[header[q].order] \in Nat
  BY <1>4, PlacesAre
<1>9. b.start + b.size <= c.start \/ c.start + c.size <= b.start
  BY <1>3, <1>5, <1>6, <1>7, <1>8
<1>10. QED BY <1>9 DEF Apart

(* The buddy manager by itself: whatever is asked for and freed, the blocks that
   are listed and those that are held stay a partition of the memory, no two free
   halves are left, and no two holders share a byte (memory_alloc, memory_free). *)
THEOREM BuddyKeepsThePartition == BSpec => [](MemoryIsPartitioned /\ NothingToJoin /\ NoOverlap)
<1>1. BInv => MemoryIsPartitioned /\ NothingToJoin /\ NoOverlap
  BY BuddyPartition, BuddyNothingToJoin, BuddyApart
<1>2. QED BY BuddyInit, BuddyInductive, <1>1, PTL DEF BSpec

-----------------------------------------------------------------------------
(* The memory that is held: a sum over the places where a block may begin. *)
At(k) == MemoryStart + k * Size[MinLevel]
HeldWeight(h, U) == [k \in 0 .. Cells - 1 |-> IF At(k) \in U THEN Size[h[At(k)].order] ELSE 0]
HeldTotal(h, U) == SumOf(HeldWeight(h, U), Cells)[Cells]

(* Division takes a factor away. *)
LEMMA Quotient ==
    ASSUME NEW m \in Nat, NEW s \in Nat \ {0}
    PROVE  (m * s) \div s = m
OBVIOUS

(* A number without remainder is a multiple. *)
LEMMA Divided ==
    ASSUME NEW x \in Nat, NEW s \in Nat \ {0}, x % s = 0
    PROVE  \E k \in Nat : x = k * s
<1>1. x = s * (x \div s)
  OBVIOUS
<1>2. x \div s \in Nat
  OBVIOUS
<1>3. PICK k \in Nat : k = x \div s
  BY <1>2
<1>4. x = k * s
  BY <1>1, <1>3
<1>5. QED BY <1>4

(* A positive factor cancels. *)
LEMMA SameFactor ==
    ASSUME NEW k \in Int, NEW l \in Int, NEW s \in Nat \ {0}, k * s = l * s
    PROVE  k = l
OBVIOUS

(* The places where a block may begin are the cells, each once. *)
LEMMA CellsAre ==
    /\ Cells \in Nat /\ \A k \in 0 .. Cells - 1 : At(k) = MemoryStart + k * Size[MinLevel]
    /\ \A a \in Addresses : \E k \in 0 .. Cells - 1 : a = At(k)
    /\ \A k, l \in 0 .. Cells - 1 : At(k) = At(l) => k = l
<1>1. PICK s : s = Size[MinLevel]
  OBVIOUS
<1>2. s \in Nat \ {0} /\ MemoryStart \in Nat
  BY <1>1, Bounds, OrdersKnown
<1>3. PICK m \in Nat \ {0} : Size[MaxOrder] = m * s
  BY <1>1, OrdersKnown, Bounds, SizeDivides
<1>4. MemorySize = m * s /\ MemoryEnd = MemoryStart + m * s
  BY <1>3, BuddyOK, Bounds DEF BuddyOK
<1>5. Cells = m
  <2>1. (m * s) \div s = m
    BY <1>2, Quotient
  <2>2. QED BY <1>1, <1>4, <2>1 DEF Cells
<1>6. ASSUME NEW a \in Addresses PROVE \E k \in 0 .. Cells - 1 : a = At(k)
  <2>1. PICK x \in Nat : x = a - MemoryStart /\ x < m * s /\ x % s = 0 /\ a = MemoryStart + x
    <3>1. m * s \in Nat
      BY <1>2
    <3>2. a \in MemoryStart .. MemoryEnd - 1 /\ (a - MemoryStart) % s = 0
      BY <1>1 DEF Addresses
    <3>3. a - MemoryStart \in Nat /\ a - MemoryStart < m * s /\ a = MemoryStart + (a - MemoryStart)
      BY <1>2, <1>4, <3>1, <3>2
    <3>4. QED BY <3>2, <3>3
  <2>2. PICK k \in Nat : x = k * s
    BY <1>2, <2>1, Divided
  <2>3. k < m
    BY <1>2, <2>1, <2>2, LessFactor
  <2>4. k \in 0 .. Cells - 1
    BY <1>5, <2>3
  <2>5. QED BY <1>1, <2>1, <2>2, <2>4 DEF At
<1>7. ASSUME NEW k \in 0 .. Cells - 1, NEW l \in 0 .. Cells - 1, At(k) = At(l) PROVE k = l
  <2>1. k \in Int /\ l \in Int /\ k * s \in Int /\ l * s \in Int
    BY <1>2, <1>5
  <2>2. At(k) = MemoryStart + k * s /\ At(l) = MemoryStart + l * s
    BY <1>1 DEF At
  <2>3. k * s = l * s
    <3>1. PICK x \in Int : x = k * s
      BY <2>1
    <3>2. PICK y \in Int : y = l * s
      BY <2>1
    <3>3. MemoryStart + x = MemoryStart + y
      BY <1>7, <2>2, <3>1, <3>2
    <3>4. x = y
      BY <1>2, <3>3
    <3>5. QED BY <3>1, <3>2, <3>4
  <2>4. QED BY <1>2, <2>1, <2>3, SameFactor
<1>8. QED BY <1>5, <1>6, <1>7 DEF At

(* One block more that is held counts with its size. *)
LEMMA HeldChanges ==
    ASSUME NEW U, NEW h, \A c \in U : h[c].order \in Orders,
           NEW g, \A c \in U : g[c].order = h[c].order,
           NEW a \in Addresses \ U, g[a].order \in Orders
    PROVE  HeldTotal(g, U \cup {a}) = HeldTotal(h, U) + Size[g[a].order]
<1>1. PICK n \in Nat : n = Cells
  BY CellsAre
<1>2. PICK w : w = HeldWeight(h, U)
  OBVIOUS
<1>3. PICK v : v = HeldWeight(g, U \cup {a})
  OBVIOUS
<1>4. PICK i \in 0 .. n - 1 : a = At(i)
  BY <1>1, CellsAre
<1>5. PICK c \in Int : c = Size[g[a].order]
  BY OrdersKnown
<1>6. \A k \in 0 .. n - 1 : w[k] = IF At(k) \in U THEN Size[h[At(k)].order] ELSE 0
  BY <1>1, <1>2 DEF HeldWeight
<1>7. \A k \in 0 .. n - 1 : v[k] = IF At(k) \in U \cup {a} THEN Size[g[At(k)].order] ELSE 0
  BY <1>1, <1>3 DEF HeldWeight
<1>8. \A k \in 0 .. n - 1 : w[k] \in Nat
  BY <1>6, OrdersKnown
<1>9. v[i] = w[i] + c
  <2>1. w[i] = 0 /\ v[i] = c
    BY <1>4, <1>5, <1>6, <1>7
  <2>2. QED BY <2>1
<1>10. ASSUME NEW k \in 0 .. n - 1, k # i PROVE v[k] = w[k]
  <2>1. At(k) # a
    BY <1>1, <1>4, <1>10, CellsAre
  <2>2. QED BY <1>6, <1>7, <2>1
<1>11. SumOf(v, n)[n] = SumOf(w, n)[n] + c
  BY <1>8, <1>9, <1>10, SumChangesOnce
<1>12. QED BY <1>1, <1>2, <1>3, <1>5, <1>11 DEF HeldTotal

-----------------------------------------------------------------------------
(* What is in the lists and what is held add up to the memory. *)
Balanced == Total(free_blocks) + HeldTotal(header, HeldPlaces) = MemorySize
BalancedInv == BInv /\ Balanced

(* What is held is a number of bytes. *)
LEMMA HeldNatural ==
    ASSUME NEW U, NEW h, \A c \in U : h[c].order \in Orders
    PROVE  HeldTotal(h, U) \in Nat
<1>1. PICK n \in Nat : n = Cells /\ n \in 0 .. n
  BY CellsAre
<1>2. PICK w : w = HeldWeight(h, U)
  OBVIOUS
<1>3. \A k \in 0 .. n - 1 : w[k] \in Nat
  BY <1>1, <1>2, OrdersKnown DEF HeldWeight
<1>4. \A k \in 0 .. n : SumOf(w, n)[k] \in Nat
  BY <1>3, SumNatural
<1>5. QED BY <1>1, <1>2, <1>4 DEF HeldTotal

(* Both totals are numbers. *)
LEMMA HeldTotalIs ==
    ASSUME BInv
    PROVE  HeldTotal(header, HeldPlaces) \in Nat /\ Total(free_blocks) \in Nat
<1>1. \A c \in HeldPlaces : header[c].order \in Orders
  BY DEF BInv, HeapOK, Tiles
<1>2. QED BY <1>1, HeldNatural, WeightIs DEF BInv, BTypes

(* At the start the whole memory is listed. *)
LEMMA BalancedStart == BInit => BalancedInv
<1> SUFFICES ASSUME BInit PROVE Balanced
  BY BuddyInit DEF BalancedInv
<1>1. BInv
  BY BuddyInit
<1>2. HeldTotal(header, HeldPlaces) = 0
  <2>1. PICK n \in Nat : n = Cells /\ n \in 0 .. n
    BY CellsAre
  <2>2. PICK w : w = HeldWeight(header, HeldPlaces)
    OBVIOUS
  <2>3. HeldPlaces = {}
    BY DEF BInit, AInit, HeldPlaces
  <2>4. \A k \in 0 .. n - 1 : w[k] = 0
    BY <2>1, <2>2, <2>3 DEF HeldWeight
  <2>5. PICK e : e = [k \in 0 .. n |-> 0]
    OBVIOUS
  <2>6. e[0] = 0 /\ \A k \in 0 .. n - 1 : e[k + 1] = e[k] + w[k]
    BY <2>4, <2>5
  <2>7. Adds(SumOf(w, n), w, n)
    BY SumSteps
  <2>8. SumOf(w, n)[n] = e[n]
    BY <2>1, <2>6, <2>7, SumKnown
  <2>9. QED BY <2>1, <2>2, <2>5, <2>8 DEF HeldTotal
<1>3. Total(free_blocks) = MemorySize
  <2>1. PICK n \in Nat : n = MaxOrder + 1 /\ n - 1 = MaxOrder /\ n \in 0 .. n
    BY SizeSteps
  <2>2. PICK w : w = Weight(free_blocks)
    OBVIOUS
  <2>3. PICK s \in Nat : s = Size[MaxOrder] /\ s = MemorySize
    BY Bounds, OrdersKnown, BuddyOK DEF BuddyOK
  <2>4. free_blocks \in Lists /\ MaxOrder \in Orders
    BY <1>1, Bounds DEF BInv, BTypes
  <2>5. \A o \in Orders : Len(free_blocks[o]) = IF o = MaxOrder THEN 1 ELSE 0
    BY DEF BInit
  <2>6. w[MaxOrder] = s
    <3>1. w[MaxOrder] = 1 * s
      BY <2>2, <2>3, <2>4, <2>5, WeightIs
    <3>2. QED BY <3>1
  <2>7. ASSUME NEW o \in 0 .. n - 1, o # MaxOrder PROVE w[o] = 0
    <3>1. CASE o \in Orders
      <4>1. w[o] = 0 * Size[o] /\ Size[o] \in Nat
        BY <2>2, <2>4, <2>5, <2>7, <3>1, WeightIs, OrdersKnown
      <4>2. QED BY <4>1
    <3>2. CASE o \notin Orders
      BY <2>1, <2>2, <2>4, <3>2, WeightIs
    <3>3. QED BY <3>1, <3>2
  <2>8. PICK e : e = [k \in 0 .. n |-> IF k = n THEN s ELSE 0]
    OBVIOUS
  <2>9. e[0] = 0 /\ e[n] = s
    BY <2>1, <2>8, SizeSteps
  <2>10. ASSUME NEW k \in 0 .. n - 1 PROVE e[k + 1] = e[k] + w[k]
    <3>1. e[k] = 0 /\ e[k + 1] = IF k = MaxOrder THEN s ELSE 0
      BY <2>1, <2>8
    <3>2. w[k] = IF k = MaxOrder THEN s ELSE 0
      BY <2>6, <2>7
    <3>3. QED BY <3>1, <3>2
  <2>11. Adds(SumOf(w, n), w, n)
    BY SumSteps
  <2>14. \A k \in 0 .. n : SumOf(w, n)[k] = e[k]
    BY <2>9, <2>10, <2>11, SumKnown
  <2>12. SumOf(w, n)[n] = s
    BY <2>1, <2>9, <2>14
  <2>13. QED BY <2>1, <2>2, <2>3, <2>12 DEF Total
<1>4. QED BY <1>2, <1>3, HeldTotalIs, <1>1 DEF Balanced

(* memory_alloc and memory_free move a block from one sum to the other: what the
   splitting and joining do within the lists adds nothing and takes nothing. *)
LEMMA BalancedStep == BalancedInv /\ [BNext]_bvars => BalancedInv'
<1> SUFFICES ASSUME BInv, Balanced, [BNext]_bvars PROVE BInv' /\ Balanced'
  BY DEF BalancedInv
<1>0. BInv'
  BY BuddyInductive
<1>1. \A c \in HeldPlaces : header[c].order \in Orders
  BY DEF BInv, HeapOK, Tiles
<1>2. PICK h : h = header
  OBVIOUS
<1>3. PICK g : g = header'
  OBVIOUS
<1>4. PICK U : U = HeldPlaces
  OBVIOUS
<1>5. HeldTotal(header, HeldPlaces) \in Nat /\ Total(free_blocks) \in Nat
  BY HeldTotalIs
<1>6. ASSUME NEW size \in Sizes, BAlloc(size) PROVE Balanced'
  <2>1. PICK a \in Addresses \ HeldPlaces :
            /\ HeldPlaces' = HeldPlaces \cup {a}
            /\ \A c \in HeldPlaces : header'[c] = header[c]
            /\ header'[a].order \in Orders
            /\ Total(free_blocks') = Total(free_blocks) - Size[header'[a].order]
    BY <1>6, AllocKeeps
  <2>2. PICK s \in Nat : s = Size[g[a].order]
    BY <1>3, <2>1, OrdersKnown
  <2>3. a \in Addresses \ U /\ g[a].order \in Orders
    BY <1>3, <1>4, <2>1
  <2>4. (\A c \in U : h[c].order \in Orders) /\ \A c \in U : g[c].order = h[c].order
    BY <1>1, <1>2, <1>3, <1>4, <2>1
  <2>5. HeldTotal(g, U \cup {a}) = HeldTotal(h, U) + Size[g[a].order]
    BY <2>3, <2>4, HeldChanges
  <2>6. HeldTotal(header', HeldPlaces') = HeldTotal(header, HeldPlaces) + s
    BY <1>2, <1>3, <1>4, <2>1, <2>2, <2>5
  <2>7. Total(free_blocks') = Total(free_blocks) - s
    BY <1>3, <2>1, <2>2
  <2>8. QED BY <1>5, <2>2, <2>6, <2>7 DEF Balanced, MemorySize
<1>7. ASSUME NEW b \in held, BFree(b) PROVE Balanced'
  <2>1. PICK a : a = PlaceOfHeld(b)
    OBVIOUS
  <2>2. /\ HeldPlaces' = HeldPlaces \ {a}
        /\ \A c \in HeldPlaces \ {a} : header'[c] = header[c]
        /\ Total(free_blocks') = Total(free_blocks) + Size[header[a].order]
    BY <1>7, <2>1, FreeKeeps
  <2>3. a \in HeldPlaces /\ HeldPlaces \subseteq Addresses
    BY <2>1 DEF HeldPlaces, BInv, HeapOK, Tiles
  <2>4. PICK V : V = U \ {a}
    OBVIOUS
  <2>5. a \in Addresses \ V /\ h[a].order \in Orders /\ V \cup {a} = U
    BY <1>1, <1>2, <1>4, <2>3, <2>4
  <2>6. \A c \in V : g[c].order \in Orders /\ h[c].order = g[c].order
    BY <1>1, <1>2, <1>3, <1>4, <2>2, <2>4
  <2>7. HeldTotal(h, V \cup {a}) = HeldTotal(g, V) + Size[h[a].order]
    BY <2>5, <2>6, HeldChanges
  <2>8. PICK s \in Nat : s = Size[h[a].order]
    BY <2>5, OrdersKnown
  <2>9. HeldTotal(header, HeldPlaces) = HeldTotal(header', HeldPlaces') + s
    BY <1>2, <1>3, <1>4, <2>2, <2>4, <2>5, <2>7, <2>8
  <2>10. Total(free_blocks') = Total(free_blocks) + s
    BY <1>2, <2>2, <2>8
  <2>11. HeldTotal(header', HeldPlaces') \in Nat
    <3>1. HeldTotal(g, V) \in Nat
      BY <2>6, HeldNatural
    <3>2. QED BY <1>3, <1>4, <2>2, <2>4, <3>1
  <2>12. QED BY <1>5, <2>8, <2>9, <2>10, <2>11 DEF Balanced, MemorySize
<1>8. ASSUME UNCHANGED bvars PROVE Balanced'
  <2>1. header' = header /\ free_blocks' = free_blocks /\ HeldPlaces' = HeldPlaces
    BY <1>8 DEF bvars, avars, HeldPlaces, PlaceOfHeld
  <2>2. HeldTotal(header', HeldPlaces') = HeldTotal(header, HeldPlaces)
    BY <2>1
  <2>3. Total(free_blocks') = Total(free_blocks)
    BY <2>1
  <2>4. QED BY <2>2, <2>3 DEF Balanced, MemorySize
<1>9. QED BY <1>0, <1>6, <1>7, <1>8 DEF BNext

-----------------------------------------------------------------------------
(* The two sums of the model are these. *)
LEMMA ReportedIs ==
    ASSUME BInv
    PROVE  /\ reported_free \in Nat
           /\ Total(free_blocks) = reported_free + Len(free_blocks[MaxOrder]) * Size[MaxOrder]
<1>1. PICK n \in Nat : n = MaxOrder + 1 /\ n - 1 = MaxOrder /\ n \in 0 .. n /\ MaxOrder \in 0 .. n
  BY SizeSteps
<1>2. PICK w : w = Weight(free_blocks)
  OBVIOUS
<1>3. PICK f : f = SumOf(w, n)
  OBVIOUS
<1>4. free_blocks \in Lists /\ MaxOrder \in Orders /\ MaxOrder \in Nat
  BY Bounds, SizeSteps DEF BInv, BTypes
<1>5. f[0] = 0 /\ \A k \in 0 .. n - 1 : f[k + 1] = f[k] + w[k]
  BY <1>3, SumSteps
<1>6. \A k \in 0 .. n - 1 : w[k] \in Nat
  BY <1>1, <1>2, <1>4, WeightIs
<1>7. \A k \in 0 .. n : f[k] \in Nat
  BY <1>3, <1>6, SumNatural
<1>8. Total(free_blocks) = f[MaxOrder] + Len(free_blocks[MaxOrder]) * Size[MaxOrder]
  <2>1. f[n] = f[MaxOrder] + w[MaxOrder]
    BY <1>1, <1>5
  <2>2. w[MaxOrder] = Len(free_blocks[MaxOrder]) * Size[MaxOrder]
    BY <1>2, <1>4, WeightIs
  <2>3. Total(free_blocks) = f[n]
    BY <1>1, <1>2, <1>3 DEF Total
  <2>4. QED BY <2>1, <2>2, <2>3
<1>9. reported_free = f[MaxOrder]
  <2> DEFINE Step(g) == [k \in 0 .. MaxOrder |-> IF k = 0 THEN 0 ELSE g[k - 1] + FreeIn(k - 1)]
             sum == CHOOSE g : g = Step(g)
  <2>1. PICK v : v = [k \in 0 .. MaxOrder |-> FreeIn(k)]
    OBVIOUS
  <2>2. ASSUME NEW k \in 0 .. MaxOrder - 1 PROVE v[k] = w[k] /\ FreeIn(k) = w[k]
    <3>1. k \in 0 .. MaxOrder /\ k \in Nat /\ k < MaxOrder
      BY <1>4
    <3>2. k \in ReportedOrders <=> k \in Orders
      BY <3>1, SizeSteps DEF ReportedOrders, Orders
    <3>3. FreeIn(k) = w[k]
      <4>1. CASE k \in Orders
        BY <1>2, <1>4, <3>1, <3>2, <4>1, WeightIs DEF FreeIn
      <4>2. CASE k \notin Orders
        BY <1>2, <1>4, <3>1, <3>2, <4>2, WeightIs DEF FreeIn
      <4>3. QED BY <4>1, <4>2
    <3>4. QED BY <2>1, <3>1, <3>3
  <2>3. \E g : g = Step(g)
    <3>1. PICK g : Adds(g, v, MaxOrder)
      BY <1>4, AddsExist
    <3>2. \A k \in 0 .. MaxOrder : k # 0 => v[k - 1] = FreeIn(k - 1)
      BY <1>4, <2>1
    <3>3. g = Step(g)
      BY <3>1, <3>2 DEF Adds
    <3>4. QED BY <3>3
  <2>4. sum = Step(sum)
    <3> HIDE DEF Step
    <3>1. QED BY <2>3
  <2>5. reported_free = sum[MaxOrder]
    BY DEF reported_free
  <2> HIDE DEF sum
  <2>6. Adds(sum, v, MaxOrder)
    <3>1. \A k \in 0 .. MaxOrder : k # 0 => v[k - 1] = FreeIn(k - 1)
      BY <1>4, <2>1
    <3>2. QED BY <2>4, <3>1 DEF Adds
  <2>7. \A k \in 0 .. MaxOrder - 1 : f[k + 1] = f[k] + v[k]
    BY <1>1, <1>4, <1>5, <2>2
  <2>8. \A k \in 0 .. MaxOrder : sum[k] = f[k]
    BY <1>4, <1>5, <2>6, <2>7, SumKnown
  <2>9. QED BY <1>4, <2>5, <2>8
<1>10. QED BY <1>1, <1>7, <1>8, <1>9

(* ... and held_memory is the total of what is held. *)
LEMMA HeldMemoryIs == ASSUME BInv PROVE held_memory = HeldTotal(header, HeldPlaces)
<1>1. PICK n \in Nat : n = Cells /\ n \in 0 .. n
  BY CellsAre
<1>2. PICK w : w = HeldWeight(header, HeldPlaces)
  OBVIOUS
<1>3. PICK f : f = SumOf(w, n)
  OBVIOUS
<1>4. f[0] = 0 /\ Adds(f, w, n) /\ \A k \in 0 .. n - 1 : f[k + 1] = f[k] + w[k]
  BY <1>3, SumSteps
<1> DEFINE Cell(k) == HeldAt(MemoryStart + k * Size[MinLevel])
<1>5. ASSUME NEW k \in 0 .. n - 1 PROVE w[k] = Cell(k)
  <2>1. At(k) \in HeldPlaces <=> \E b \in held : At(k) = b.start - HeaderSize
    BY DEF HeldPlaces, PlaceOfHeld
  <2>2. w[k] = IF At(k) \in HeldPlaces THEN Size[header[At(k)].order] ELSE 0
    BY <1>1, <1>2 DEF HeldWeight
  <2>3. QED BY <2>1, <2>2 DEF HeldAt, At
<1> DEFINE Step(g) == [k \in 0 .. Cells |-> IF k = 0 THEN 0 ELSE g[k - 1] + Cell(k - 1)]
           sum == CHOOSE g : g = Step(g)
<1>6. held_memory = sum[Cells]
  BY DEF held_memory
<1> HIDE DEF Cell
<1>7. \A k \in 0 .. Cells : k # 0 => w[k - 1] = Cell(k - 1)
  BY <1>1, <1>5
<1>8. f = Step(f)
  BY <1>1, <1>4, <1>7 DEF Adds
<1>9. sum = Step(sum)
  <2> HIDE DEF Step
  <2>1. QED BY <1>8
<1> HIDE DEF sum
<1>10. Adds(sum, w, n)
  BY <1>1, <1>7, <1>9 DEF Adds
<1>11. sum[n] = f[n]
  BY <1>1, <1>4, <1>10, SumKnown
<1>12. QED BY <1>1, <1>2, <1>3, <1>6, <1>11 DEF HeldTotal

(* While the memory is not one free block the list of the last order, which the
   sum of memory_state_get leaves out, is empty. *)
LEMMA BalancedReports == BalancedInv /\ free_blocks[MaxOrder] = <<>> => ReportsWhatIsNotHeld
<1> SUFFICES ASSUME BInv, Balanced, free_blocks[MaxOrder] = <<>> PROVE ReportsWhatIsNotHeld
  BY DEF BalancedInv
<1>1. PICK s \in Nat : s = Size[MaxOrder] /\ s = MemorySize
  BY Bounds, OrdersKnown, BuddyOK DEF BuddyOK
<1>2. PICK m \in Nat : m = Len(free_blocks[MaxOrder]) /\ (m = 0 <=> free_blocks[MaxOrder] = << >>)
  <2>1. free_blocks[MaxOrder] \in Seq(Addresses)
    BY Bounds DEF BInv, BTypes, Lists
  <2>2. QED BY <2>1
<1>3. PICK u \in Nat : u = HeldTotal(header, HeldPlaces) /\ u = held_memory
  BY HeldTotalIs, HeldMemoryIs
<1>4. PICK r \in Nat : r = reported_free /\ Total(free_blocks) = r + m * s
  BY <1>1, <1>2, ReportedIs
<1>5. r + m * s + u = s
  BY <1>1, <1>3, <1>4 DEF Balanced
<1>6. m * s = 0 /\ r = s - u
  BY <1>2, <1>5
<1>7. QED BY <1>1, <1>3, <1>4, <1>6 DEF ReportsWhatIsNotHeld

-----------------------------------------------------------------------------
(* The build has one of the managers; what belongs to the other one stays as it
   was at the start. *)
OneBlock == [o \in Orders |-> IF o = MaxOrder THEN <<MemoryStart>> ELSE <<>>]
FirstFitRuns == UInv /\ free_blocks = OneBlock
BuddyRuns == BalancedInv /\ page_frames = <<>> /\ open \in Nat /\ used_memory = 0
MInv ==
    /\ manager \in {"gnamem", "buddy"}
    /\ manager = "gnamem" => FirstFitRuns
    /\ manager = "buddy" => BuddyRuns

(* At the start both managers are as they begin. *)
LEMMA MemoryStarts == MInit => MInv
<1> SUFFICES ASSUME MInit PROVE MInv
  OBVIOUS
<1>1. FInit /\ BInit /\ manager \in {"gnamem", "buddy"}
  BY DEF MInit
<1>2. UInv /\ BalancedInv
  BY <1>1, UInit, BalancedStart
<1>3. free_blocks = OneBlock /\ page_frames = <<>> /\ used_memory = 0
  BY <1>1 DEF FInit, BInit, OneBlock
<1>4. open \in Nat
  BY <1>2 DEF UInv, IInv, FTypeOK
<1>5. QED BY <1>1, <1>2, <1>3, <1>4 DEF MInv, FirstFitRuns, BuddyRuns

(* A step is one of the manager that runs. *)
LEMMA MemorySteps == MInv /\ [MNext]_mvars => MInv'
<1> SUFFICES ASSUME MInv, [MNext]_mvars PROVE MInv'
  OBVIOUS
<1>1. manager' = manager
  BY DEF MNext, mvars
<1>2. CASE manager = "gnamem"
  <2>1. UInv /\ free_blocks = OneBlock
    BY <1>2 DEF MInv, FirstFitRuns
  <2>2. [FNext]_fvars /\ free_blocks' = free_blocks
    BY <1>2 DEF MNext, mvars, fvars, bvars, avars
  <2>3. UInv'
    BY <2>1, <2>2, UStep
  <2>4. (free_blocks = OneBlock)'
    BY <2>1, <2>2 DEF OneBlock
  <2>5. QED BY <1>1, <1>2, <2>3, <2>4 DEF MInv, FirstFitRuns
<1>3. CASE manager = "buddy"
  <2>1. BalancedInv /\ page_frames = <<>> /\ open \in Nat /\ used_memory = 0
    BY <1>3 DEF MInv, BuddyRuns
  <2>2. [BNext]_bvars /\ page_frames' = page_frames /\ open' = open /\ used_memory' = used_memory
    BY <1>3 DEF MNext, mvars, fvars, bvars, avars
  <2>3. BalancedInv'
    BY <2>1, <2>2, BalancedStep
  <2>4. QED BY <1>1, <1>3, <2>1, <2>2, <2>3 DEF MInv, BuddyRuns
<1>4. QED BY <1>2, <1>3 DEF MInv

(* When the buddy manager runs there are no fragments, and none is counted. *)
LEMMA NoFragments ==
    ASSUME BuddyRuns
    PROVE  FTypeOK /\ Owned /\ Counted
<1>1. page_frames = <<>> /\ open \in Nat /\ used_memory = 0 /\ Dim = 0
  BY DEF BuddyRuns, Dim
<1>2. ATypeOK
  BY DEF BuddyRuns, BalancedInv, BInv, BTypes
<1>3. page_frames \in Seq(Fragments) /\ used_memory \in 0 .. Word - 1
  BY <1>1, FirstFitOK, AllocatorOK DEF FirstFitOK, AllocatorOK, MemorySize
<1>4. FTypeOK
  BY <1>1, <1>2, <1>3 DEF FTypeOK, ATypeOK
<1>5. Owned
  BY <1>1 DEF Owned
<1>6. Sums([n \in 0 .. 0 |-> 0])
  BY <1>1 DEF Sums
<1>7. QED BY <1>1, <1>4, <1>5, <1>6 DEF Counted

(* When the other one runs the lists of the buddy manager hold one block, of the
   last order. *)
LEMMA NothingListed == FirstFitRuns => NothingToJoin
<1> SUFFICES ASSUME FirstFitRuns, NEW o \in Orders \ {MaxOrder} PROVE ToSet(free_blocks[o]) = {}
  BY DEF NothingToJoin
<1>1. free_blocks[o] = <<>>
  BY DEF FirstFitRuns, OneBlock
<1>2. QED BY <1>1 DEF ToSet

(* So this holds at every moment. *)
LEMMA MemoryInvariant == MSpec => []MInv
  BY MemoryStarts, MemorySteps, PTL DEF MSpec

(* As long as everybody gives back only what it holds, memory_alloc gives nobody's
   memory to somebody else: the buddy manager for every size that is asked for, the
   first-fit manager while it has granted no more than the whole memory at once. *)
THEOREM MemoryIsNotShared == MSpec => []NothingShared
<1>1. MInv => NothingShared
  <2>1. UInv => IInv
    BY DEF UInv
  <2>2. BalancedInv => BInv
    BY DEF BalancedInv
  <2>3. QED BY <2>1, <2>2, SeparateIsEnough, BuddyApart DEF MInv, FirstFitRuns, BuddyRuns, NothingShared
<1>2. QED BY MemoryInvariant, <1>1, PTL

(* The fragments of the first-fit manager are fragments, and the numbers stay
   below the word. *)
THEOREM FragmentsAreFragments == MSpec => []FTypeOK
<1>1. MInv => FTypeOK
  BY NoFragments DEF MInv, FirstFitRuns, UInv, IInv
<1>2. QED BY MemoryInvariant, <1>1, PTL

(* used_memory of the first-fit manager is the fragments that are used, and each
   of these is held by somebody. *)
THEOREM UsedMemoryIsCounted == MSpec => []UsedMemoryIsHeld
<1>1. MInv => FTypeOK /\ (careful /\ modest => Owned /\ Counted)
  BY NoFragments DEF MInv, FirstFitRuns, UInv, IInv
<1>2. QED BY MemoryInvariant, <1>1, CountedIsEnough, PTL

(* At every moment the memory of the buddy manager is the blocks in its lists and
   the blocks that are held, each once: split_block, merge and remove_block lose
   none and repeat none, and the lists keep no block twice. *)
THEOREM MemoryStaysPartitioned == MSpec => []Partitioned
<1>1. MInv => Partitioned
  BY BuddyPartition DEF MInv, BuddyRuns, BalancedInv, Partitioned
<1>2. QED BY MemoryInvariant, <1>1, PTL

(* The loop of memory_free ends when nothing is left to join: two halves of a
   block are never both free, as long as remove_block has marked no wrong one. *)
THEOREM HalvesAreJoined == MSpec => []NothingToJoin
<1>1. MInv => NothingToJoin
  BY NothingListed, BuddyNothingToJoin DEF MInv, BuddyRuns, BalancedInv
<1>2. QED BY MemoryInvariant, <1>1, PTL

(* While the memory is not one free block memory_state_get of the buddy manager
   reports the memory that is not held. *)
THEOREM ReportsAreTrue == MSpec => []ReportsWhenSplit
<1>1. MInv => ReportsWhenSplit
  BY BalancedReports DEF MInv, BuddyRuns, Reports, ReportsWhenSplit
<1>2. QED BY MemoryInvariant, <1>1, PTL
=============================================================================
