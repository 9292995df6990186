----------------------------- MODULE MCPCBQueue -----------------------------
(* Small rings for TLC: the constants are in the cfg files. *)
EXTENDS PCBQueue
=============================================================================
