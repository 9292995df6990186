------------------------------ MODULE MCFamily ------------------------------
(* Family with the shell and two more slots, and processes that follow each
   other in them: see Family.cfg. *)
EXTENDS Family
=============================================================================
