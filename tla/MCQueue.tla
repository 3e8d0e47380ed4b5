------------------------------ MODULE MCQueue ------------------------------
(* Instances of Queue for TLC; the constants are given in the configurations. *)
EXTENDS Queue
=============================================================================
