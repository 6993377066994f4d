--------------------------- MODULE MCSpecStore ----------------------------
(* Instances of SpecStore for TLC. *)
EXTENDS SpecStore, TLC

CONSTANTS f1, o1, o2, skeleton, timed, cyclic

Symmetry == Permutations(Ops)

(* The skeleton, the same node with another trigger, and one lint rejects. *)
Swap == skeleton :> timed @@ timed :> skeleton
=============================================================================
