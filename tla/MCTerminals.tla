---------------------------- MODULE MCTerminals ----------------------------
(* Instances of Terminals for TLC. *)
EXTENDS Terminals

CONSTANTS r1, r2, p1, p2

(* Runs of two nodes side by side. *)
TwoPanes == [r \in Runs |-> IF r = r2 THEN p2 ELSE p1]

(* The second links the terminal of the first. *)
OneLink == [r \in Runs |-> IF r = r2 THEN {p1} ELSE {}]
=============================================================================
