---------------------------- MODULE MCLayering -----------------------------
(* Candidate specs for Layering: every forward graph of up to four edges on *)
(* four nodes (cycles and self-loops included), alone, with one edge drawn *)
(* twice or with a feedback edge; all nodes declared, or one missing.      *)
EXTENDS Layering

CONSTANTS a, b, c, d, art

Link(p) == [id |-> 0, from |-> p[1], to |-> p[2], feedback |-> FALSE]
Pairs == {P \in SUBSET (Ids \X Ids) : Cardinality(P) <= 4}
Extras == { {}, {[id |-> 1, from |-> a, to |-> b, feedback |-> FALSE]},
            {[id |-> 1, from |-> c, to |-> a, feedback |-> TRUE]} }

Graphs == {{Link(p) : p \in P} \cup X : P \in Pairs, X \in Extras}
AllOrBut == {Ids, Ids \ {d}}
Writers == [x \in Artifacts |-> {b, c}]
=============================================================================
