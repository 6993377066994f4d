----------------------------- MODULE MCRestart -----------------------------
(* Instances of Restart for TLC. *)
EXTENDS Restart

CONSTANTS f1, r1, r2
=============================================================================
