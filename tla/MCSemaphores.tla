---------------------------- MODULE MCSemaphores ----------------------------
(* A few processes and semaphores for TLC: the constants are in the cfg files. *)
EXTENDS Semaphores
=============================================================================
