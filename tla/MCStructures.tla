---------------------------- MODULE MCStructures ----------------------------
(* The parts that share no state with the others, each by itself: chosen says
   which one a behaviour is about.  The ring of pcb-queueADT.c; the memory
   managers; a table of three philosophers and a fourth that comes and goes. *)
EXTENDS PCBQueue, MCMemory, Phylo

VARIABLE chosen

parts == <<qvars, mvars, vars, chosen>>

StructuresInit ==
    /\ QInit /\ MInit /\ Init
    /\ chosen \in {"ring", "memory", "table"}
    /\ chosen # "memory" => manager = "buddy"

StructuresNext ==
    /\ \/ chosen = "ring" /\ CountedNext /\ UNCHANGED <<mvars, vars>>
       \/ chosen = "memory" /\ MNext /\ UNCHANGED <<qvars, vars>>
       \/ chosen = "table" /\ Next /\ UNCHANGED <<qvars, mvars>>
    /\ UNCHANGED chosen

StructuresSpec == StructuresInit /\ [][StructuresNext]_parts
=============================================================================
