------------------------------ MODULE MCEditor ------------------------------
(* Instances of Editor for TLC. *)
EXTENDS Editor, TLC

CONSTANTS u1, u2, trig, a, b

Symmetry == Permutations(Users)
=============================================================================
