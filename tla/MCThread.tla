------------------------------ MODULE MCThread ------------------------------
(* Thread on a small instance: every block but the boot thread's is alike. *)
EXTENDS Thread, TLC

Blocks == Permutations(Threads \ {Boot})
=============================================================================
