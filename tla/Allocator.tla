------------------------------ MODULE Allocator ------------------------------
(***************************************************************************)
(* What both memory managers (Kernel/memory-manager) promise to those who  *)
(* call memory_alloc and memory_free: a block that is given is not part of *)
(* one that somebody holds.                                                *)
(***************************************************************************)
EXTENDS Integers

CONSTANTS
    MemoryStart, MemoryEnd,     \* MEMORY_START, MEMORY_END
    Sizes                       \* the sizes that are asked for, in bytes

MemorySize == MemoryEnd - MemoryStart

ASSUME AllocatorOK ==
    /\ MemoryStart \in Nat /\ MemoryEnd \in Nat /\ MemoryStart < MemoryEnd
    /\ Sizes \subseteq Nat \ {0}

VARIABLES
    held,       \* the blocks that were given and not given back: their start and the size asked for
    careful,    \* history: nobody has given back what it does not hold
    modest      \* history: nobody was given a block of more than the whole memory

avars == <<held, careful, modest>>

Grants == [start : Nat, size : Sizes]

AInit == held = {} /\ careful = TRUE /\ modest = TRUE

(* memory_alloc and memory_free, as those who call them see them. *)
Given(start, size) ==
    /\ held' = held \cup {[start |-> start, size |-> size]}
    /\ modest' = (modest /\ size <= MemorySize)
    /\ UNCHANGED careful
GivenBack(b) == held' = held \ {b} /\ UNCHANGED <<careful, modest>>
GivenBackByAnother == careful' = FALSE /\ UNCHANGED <<held, modest>>

Apart(b, c) == b.start + b.size <= c.start \/ c.start + c.size <= b.start

ATypeOK == held \subseteq Grants /\ careful \in BOOLEAN /\ modest \in BOOLEAN

(* What memory-manager.h promises for every size: the block that memory_alloc
   returns has at least that size, so that it is not part of one that somebody
   holds.  It binds who frees to pointers that memory_alloc returned, which are
   invalid afterwards (careful). *)
NoOverlap == careful => \A b, c \in held : b # c => Apart(b, c)
=============================================================================
