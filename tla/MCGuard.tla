------------------------------ MODULE MCGuard ------------------------------
(* Instances of Guard for TLC. *)
EXTENDS Guard, TLC

CONSTANTS f1, r1, r2, r3, cheap, dear, usd, tokens, h1, h2

Sym == Permutations({r1, r2, r3})

(* Two metrics whose caps bind in turn: the cheap model is dear in tokens.  *)
(* The log already shows one unit of money spent before this boot.         *)
Worst == (cheap :> (usd :> 1 @@ tokens :> 2)) @@ (dear :> (usd :> 2 @@ tokens :> 1))
RunLimit == [f \in Flows |-> usd :> 2 @@ tokens :> 2]
FlowLimit == [f \in Flows |-> usd :> 5 @@ tokens :> 5]
Boot == [f \in Flows |-> usd :> 1 @@ tokens :> 0]
Usage == {usd :> 1 @@ tokens :> 2}

Two == [f \in Flows |-> 2]
=============================================================================
