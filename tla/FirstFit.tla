------------------------------ MODULE FirstFit ------------------------------
(***************************************************************************)
(* The memory manager of Kernel/memory-manager/memory-manager.c: the       *)
(* memory is cut into fragments, one after the other, when they are first  *)
(* needed; they are used again, whole, and never joined.                   *)
(***************************************************************************)
EXTENDS Allocator, Sequences

CONSTANTS
    Word,               \* 2^64, where sizes and addresses wrap
    FramesBound         \* bound: the number of fragments

ASSUME FirstFitOK ==
    /\ Word \in Nat /\ Word % 8 = 0 /\ MemoryEnd + MemorySize + 8 <= Word
    /\ MemoryStart % 8 = 0 /\ MemorySize % 8 = 0
    /\ FramesBound \in Nat

VARIABLES
    page_frames,        \* the fragments: start, size, used
    open,               \* page_frames[page_frames_dim].start: where the next one begins
    used_memory

fvars == <<page_frames, open, used_memory, avars>>

Unbounded(n) == n               \* mutant: the numbers do not wrap
Wrapped(n) == n % Word
Aligned(n) == (Wrapped(n + 7) \div 8) * 8       \* (n + 7) & ~7

FInit ==
    /\ page_frames = <<>> /\ open = Aligned(MemoryStart) /\ used_memory = 0
    /\ AInit

Dim == Len(page_frames)

(* memory_alloc: the first fragment that is not used and large enough, or a new
   one at the end; only its start is compared with the end of the memory.  Those
   that were passed on the way started before it when they were cut.  (When there
   is none NULL is returned: no step.) *)
FitsAnyhow(i, size) == TRUE     \* mutant: the size of the fragment is not looked at
Fits(i, size) == page_frames[i].size >= Aligned(size)
Fitting(size) == {i \in 1 .. Dim : ~page_frames[i].used /\ Fits(i, size)}

Reuse(size) ==
    \E i \in Fitting(size) :
        /\ \A j \in Fitting(size) : i <= j
        /\ page_frames[i].start <= MemoryEnd
        /\ page_frames' = [page_frames EXCEPT ![i].used = TRUE]
        /\ used_memory' = Wrapped(used_memory + page_frames[i].size)
        /\ Given(page_frames[i].start, size)
        /\ UNCHANGED open

Extend(size) ==
    /\ Fitting(size) = {} /\ open <= MemoryEnd
    /\ Dim < FramesBound
    /\ page_frames' = Append(page_frames, [start |-> open, size |-> Aligned(size), used |-> TRUE])
    /\ open' = Wrapped(open + Aligned(size))
    /\ used_memory' = Wrapped(used_memory + Aligned(size))
    /\ Given(open, size)

(* memory_free: the first fragment that starts there, used or not.  (When there
   is none -1 is returned: no step.) *)
StaysUsed(i) == page_frames     \* mutant: the fragment is not marked
Unused(i) == [page_frames EXCEPT ![i].used = FALSE]
Release(start) ==
    \E i \in 1 .. Dim :
        /\ page_frames[i].start = start
        /\ \A j \in 1 .. Dim : page_frames[j].start = start => i <= j
        /\ page_frames' = Unused(i)
        /\ used_memory' = Wrapped(used_memory - page_frames[i].size)
        /\ UNCHANGED open

(* Who holds a block gives it back; somebody frees one that it does not hold
   (bound: once). *)
FFree(b) == Release(b.start) /\ GivenBack(b)
FFreeAgain(i) == careful /\ Release(page_frames[i].start) /\ GivenBackByAnother

FNext ==
    \/ \E size \in Sizes : Reuse(size) \/ Extend(size)
    \/ \E b \in held : FFree(b)
    \/ \E i \in 1 .. Dim : FFreeAgain(i)

FSpec == FInit /\ [][FNext]_fvars

-----------------------------------------------------------------------------
Fragments == [start : Nat, size : Nat, used : BOOLEAN]
FTypeOK ==
    /\ page_frames \in Seq(Fragments) /\ open \in Nat /\ used_memory \in 0 .. Word - 1
    /\ ATypeOK

(* Every fragment that is used is held by somebody, and used_memory is what
   these fragments take (memory_alloc, memory_free, memory_state_get): nothing
   is leaked or counted twice.  Two histories are excepted: somebody has freed
   what it did not hold (careful), or was given a block of more than the whole
   memory (modest). *)
Taken(i) == IF page_frames[i].used THEN page_frames[i].size ELSE 0
UsedMemoryIsHeld ==
    LET taken[n \in 0 .. Dim] == IF n = 0 THEN 0 ELSE taken[n - 1] + Taken(n) IN
    careful /\ modest =>
        /\ \A i \in 1 .. Dim : page_frames[i].used =>
              \E b \in held : b.start = page_frames[i].start /\ b.size <= page_frames[i].size
        /\ used_memory = taken[Dim] % Word
=============================================================================
