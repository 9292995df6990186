-------------------------------- MODULE Buddy --------------------------------
(***************************************************************************)
(* The memory manager of Kernel/memory-manager/buddymm.c: blocks of a      *)
(* power of two bytes are split in two, and joined again when both halves  *)
(* are free.  A block begins with its header; its first byte is its name.  *)
(***************************************************************************)
EXTENDS Allocator, Sequences, SequencesExt

CONSTANTS
    MinLevel, MaxOrder,     \* MIN_LEVEL, and max_order: MemorySize is 1 << MaxOrder
    HeaderSize              \* sizeof(block_t)

Size[o \in 0 .. MaxOrder + 1] == IF o = 0 THEN 1 ELSE 2 * Size[o - 1]     \* 1L << o

ASSUME BuddyOK ==
    /\ MinLevel \in Nat /\ MaxOrder \in Nat /\ MinLevel <= MaxOrder
    /\ MemorySize = Size[MaxOrder] /\ HeaderSize \in 1 .. Size[MinLevel] - 1

Orders    == MinLevel .. MaxOrder
Addresses == {a \in MemoryStart .. MemoryEnd - 1 : (a - MemoryStart) % Size[MinLevel] = 0}
None      == [order |-> 0, status |-> "DATA"]      \* no header was written here

VARIABLES
    header,         \* what is at the places where a block may begin: order, status
    free_blocks,    \* free_blocks[o]: the list of the free blocks of order o
    whole           \* history: remove_block has not taken a block behind another

bvars == <<header, free_blocks, whole, avars>>

BInit ==
    /\ header = [a \in Addresses |->
          IF a = MemoryStart THEN [order |-> MaxOrder, status |-> "FREE"] ELSE None]
    /\ free_blocks = [o \in Orders |-> IF o = MaxOrder THEN <<MemoryStart>> ELSE <<>>]
    /\ whole = TRUE
    /\ AInit

LowestOf(set) == CHOOSE o \in set : \A q \in set : o <= q

(* memory_alloc.  A block of the order at hand is split down to the order that
   is needed: each right half is the only block of its list then, and the
   left one is given, without its header.  (When there is no block NULL is
   returned: no step.) *)
OrderFor(size) == LowestOf({o \in MinLevel .. MaxOrder + 1 : Size[o] >= size + HeaderSize})
RightHalf(a, o) == a + Size[o]
BAlloc(size) ==
    /\ size <= MemorySize
    /\ LET need == OrderFor(size)
           large == {o \in Orders : o >= need /\ free_blocks[o] # <<>>}
       IN
       /\ large # {}
       /\ LET from == LowestOf(large)
              a    == Head(free_blocks[from])
              cut  == need .. from - 1
          IN
          /\ header' = [b \in Addresses |->
                CASE b = a -> [order |-> need, status |-> "OCCUPIED"]
                  [] \E o \in cut : b = RightHalf(a, o) ->
                        [order |-> CHOOSE o \in cut : b = RightHalf(a, o), status |-> "FREE"]
                  [] OTHER -> header[b]]
          /\ free_blocks' = [o \in Orders |->
                CASE o = from -> Tail(free_blocks[o])
                  [] o \in cut -> <<RightHalf(a, o)>>
                  [] OTHER -> free_blocks[o]]
          /\ Given(a + HeaderSize, size)
    /\ UNCHANGED whole

(* The buddy of a among the blocks of order o: bit o of the position is flipped. *)
BuddyOf(a, o) ==
    IF (a - MemoryStart) % Size[o + 1] < Size[o] THEN a + Size[o] ELSE a - Size[o]

(* remove_block of y, which is in the list of order o, from heap h.  It marks
   the head as occupied if y is the head, else the block BEFORE y.  (It does
   nothing when y is not in the list.) *)
PlaceOf(y, list) == CHOOSE i \in 1 .. Len(list) : list[i] = y
Unlinked(h, y, o) ==
    LET i == PlaceOf(y, h.lists[o])
        mark == IF i = 1 THEN y ELSE h.lists[o][i - 1]
    IN  IF y \notin ToSet(h.lists[o]) THEN h
        ELSE [h EXCEPT !.lists[o] = RemoveAt(@, i), !.header[mark].status = "OCCUPIED",
                       !.whole = @ /\ i = 1]

(* The loop of memory_free: the block of heap h takes its buddy in as long as that
   is free and of the same order. *)
SameOrderOnly(h, y, o) == h.header[y].order = o     \* mutant: also a buddy in use
JoinsOnce(h, y, o) == h.header[y].status = "FREE" /\ h.header[y].order = o /\ o = MinLevel    \* mutant: no loop
JoinsWith(h, y, o) == h.header[y].status = "FREE" /\ h.header[y].order = o
OrderOf(h) == h.header[h.block].order
Joined(h) ==
    LET o == OrderOf(h)
        y == BuddyOf(h.block, o)
        left == IF h.block < y THEN h.block ELSE y
    IN  IF o < MaxOrder /\ JoinsWith(h, y, o)
        THEN [Unlinked(h, y, o) EXCEPT !.header[left] = [order |-> o + 1, status |-> "FREE"], !.block = left]
        ELSE h

(* memory_free of the block that begins at a; nothing when it looks free.  Each
   round of the loop raises the order, so MaxOrder rounds are enough. *)
ReleaseBlock(a) ==
    /\ header[a].status = "OCCUPIED" /\ header[a].order \in Orders
    /\ LET freed == [header |-> [header EXCEPT ![a].status = "FREE"],
                     lists |-> free_blocks, whole |-> whole, block |-> a]
           round[n \in 0 .. MaxOrder] == IF n = 0 THEN freed ELSE Joined(round[n - 1])
           h == round[MaxOrder]
       IN  /\ header' = [h.header EXCEPT ![h.block].status = "FREE"]
           /\ free_blocks' = [h.lists EXCEPT ![OrderOf(h)] = <<h.block>> \o @]
           /\ whole' = h.whole

(* Who holds a block gives it back, and nobody frees one that it does not hold
   (bound: the header of such a one can be anything). *)
BFree(b) == ReleaseBlock(b.start - HeaderSize) /\ GivenBack(b)

BNext ==
    \/ \E size \in Sizes : BAlloc(size)
    \/ \E b \in held : BFree(b)

BSpec == BInit /\ [][BNext]_bvars

-----------------------------------------------------------------------------
BTypeOK ==
    /\ header \in [Addresses -> [order : Orders \cup {0}, status : {"FREE", "OCCUPIED", "DATA"}]]
    /\ free_blocks \in [Orders -> Seq(Addresses)] /\ whole \in BOOLEAN
    /\ ATypeOK

(* The memory is the blocks that are free and those that are held, each once,
   none in part: no splitting and joining loses or repeats any (split_block,
   merge, remove_block).  The headers of the free ones are those of their
   list. *)
FreeParts == UNION {{[start |-> a, size |-> Size[o]] : a \in ToSet(free_blocks[o])} : o \in Orders}
HeldParts == {[start |-> b.start - HeaderSize, size |-> Size[header[b.start - HeaderSize].order]] : b \in held}
MemoryIsPartitioned ==
    /\ BTypeOK
    /\ \A a \in Addresses : \E p \in FreeParts \cup HeldParts :
          a \in p.start .. p.start + p.size - 1
    /\ \A p, q \in FreeParts \cup HeldParts : p # q => Apart(p, q)
    /\ FreeParts \cap HeldParts = {}
    /\ \A o \in Orders : IsInjective(free_blocks[o]) /\ \A a \in ToSet(free_blocks[o]) : header[a].order = o

(* As long as remove_block has marked no wrong block, two halves are never both
   free: what can be joined is joined (memory_free). *)
NothingToJoin ==
    whole => \A o \in Orders \ {MaxOrder} : \A a, b \in ToSet(free_blocks[o]) : b # BuddyOf(a, o)

(* memory_state_get, whose sum goes over the orders below max_order.  (Sums are
   recursive functions: over the orders, and over the places where a block of
   the smallest size may begin.) *)
LargerOrders == MinLevel + 1 .. MaxOrder - 1    \* mutant: the smallest are left out
ReportedOrders == MinLevel .. MaxOrder - 1
FreeIn(o) == IF o \in ReportedOrders THEN Len(free_blocks[o]) * Size[o] ELSE 0
reported_free ==
    LET sum[n \in 0 .. MaxOrder] == IF n = 0 THEN 0 ELSE sum[n - 1] + FreeIn(n - 1) IN sum[MaxOrder]

Cells == MemorySize \div Size[MinLevel]
HeldAt(a) == IF \E b \in held : a = b.start - HeaderSize THEN Size[header[a].order] ELSE 0
held_memory ==
    LET sum[n \in 0 .. Cells] ==
            IF n = 0 THEN 0 ELSE sum[n - 1] + HeldAt(MemoryStart + (n - 1) * Size[MinLevel])
    IN  sum[Cells]
ReportsWhatIsNotHeld == reported_free = MemorySize - held_memory
=============================================================================
