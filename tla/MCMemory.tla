------------------------------ MODULE MCMemory ------------------------------
(* The two memory managers side by side.  The build has one of them (the Makefile
   of the kernel defines buddy or does not): manager says which. *)
EXTENDS FirstFit, Buddy

VARIABLE manager

mvars == <<fvars, bvars, manager>>

MInit == FInit /\ BInit /\ manager \in {"gnamem", "buddy"}
MNext ==
    /\ \/ manager = "gnamem" /\ FNext /\ UNCHANGED <<header, free_blocks, whole>>
       \/ manager = "buddy" /\ BNext /\ UNCHANGED <<page_frames, open, used_memory>>
    /\ UNCHANGED manager
MSpec == MInit /\ [][MNext]_mvars

(* The memory of the buddy manager is the blocks that are free and those that
   are held, each once, and its lists and headers keep their types (split_block,
   merge, remove_block). *)
Partitioned == manager = "buddy" => MemoryIsPartitioned

(* No block that is given is part of one that somebody holds, while everybody
   frees only what it holds.  The first-fit manager is excepted once it has
   granted a block of more than the whole memory; the buddy manager never does
   (memory_alloc, memory_free). *)
NothingShared == manager = "buddy" \/ modest => NoOverlap

(* memory_state_get of the buddy manager reports what is not held, as
   memory-manager.h says of it. *)
Reports == manager = "buddy" => ReportsWhatIsNotHeld

(* ... and so it does while some block was split: when the memory is not one free
   block, its list being the one that the sum leaves out. *)
ReportsWhenSplit == free_blocks[MaxOrder] = <<>> => Reports
=============================================================================
