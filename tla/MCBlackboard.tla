---------------------------- MODULE MCBlackboard ----------------------------
(* Two flows whose specs name one blackboardDir, that of the first one's id; *)
(* it may move to a workDir.                                               *)
EXTENDS Blackboard, TLC

CONSTANTS f1, f2, c1, c2, p1, up, t1, t2, s, w, o

Shared == f1 :> s @@ f2 :> s
Owns == f1 :> s @@ f2 :> o
OneMoves == f1 :> {w} @@ f2 :> {}
=============================================================================
