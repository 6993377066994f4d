------------------------------ MODULE Layering ------------------------------
(***************************************************************************)
(* The graph algorithms between a flow's spec and the order its agents run *)
(* in, one after the other over one candidate spec:                        *)
(*   - findForwardCycle (packages/shared/src/schemas.ts), the depth-first  *)
(*     search lint uses to reject a cycle of forward edges;                *)
(*   - kahnLayers and lint (packages/engine/src/spec.ts), which layer the  *)
(*     nodes to reject two writers of one artifact in one layer;           *)
(*   - plan (packages/engine/src/orchestrator.ts), which layers them again *)
(*     to decide what runs in parallel.                                    *)
(*                                                                         *)
(* Each step is a call of dfs, a neighbour it looks at, its return, or one *)
(* pass of a layering loop.  The order of a node's neighbours is left open.*)
(***************************************************************************)
EXTENDS Integers, FiniteSets, Sequences

CONSTANTS
  Ids,        \* node ids an edge may name
  NodeSets,   \* the candidate specs' node ids
  EdgeSets,   \* the candidate specs' edges
  Triggers,   \* ids of Trigger nodes
  Artifacts,
  Produces    \* [Artifacts -> SUBSET Ids]: nodes that declare the artifact

(* [id]: two edges may join the same two nodes. *)
Edge == [id : Nat, from : Ids, to : Ids, feedback : BOOLEAN]

ASSUME CandidateAssumption ==
  /\ IsFiniteSet(Ids)
  /\ NodeSets \subseteq SUBSET Ids
  /\ \A E \in EdgeSets : E \subseteq Edge /\ IsFiniteSet(E)
  /\ Triggers \subseteq Ids
  /\ Produces \in [Artifacts -> SUBSET Ids]

VARIABLES
  nodes, edges,  \* the candidate, constant
  pc,            \* "search", "lint" (kahnLayers), "plan", "done"
  color, stack, fresh, cycle,      \* findForwardCycle
  indegree, frontier,              \* the layering loop in progress
  depth,                           \* kahnLayers' result, NoLayer if unset
  placed, layers,                  \* plan's result
  issues                           \* lint's result

searchVars == <<color, stack, fresh, cycle>>
planVars   == <<placed, layers>>
vars == <<nodes, edges, pc, searchVars, indegree, frontier, depth, planVars,
          issues>>

NoLayer == -1

Known   == {e \in edges : e.from \in nodes /\ e.to \in nodes}
Forward == {e \in Known : ~ e.feedback}

Into(E, n)  == {e \in E : e.to = n}
OutOf(E, S) == {e \in E : e.from \in S}

Init ==
  /\ nodes \in NodeSets /\ edges \in EdgeSets
  /\ pc = "search"
  /\ color = [n \in Ids |-> "white"]
  /\ stack = <<>> /\ cycle = <<>>
  (* adj: an edge whose source is unknown is dropped; the target is not     *)
  (* looked up until the search follows it.                                 *)
  /\ fresh = {e \in edges : ~ e.feedback /\ e.from \in nodes}
  /\ indegree = [n \in Ids |-> 0] /\ frontier = {}
  /\ depth = [n \in Ids |-> NoLayer]
  /\ placed = {} /\ layers = <<>>
  /\ issues = {}

----------------------------------------------------------------------------
(* findForwardCycle *)

Top == stack[Len(stack)]

Searching == pc = "search" /\ cycle = <<>>

Enter(n) ==
  /\ color' = [color EXCEPT ![n] = "gray"]
  /\ stack' = Append(stack, n)

SearchRoot(n) ==
  /\ Searching /\ stack = <<>>
  /\ n \in nodes /\ color[n] = "white"
  /\ Enter(n)
  /\ UNCHANGED <<nodes, edges, pc, fresh, cycle, indegree, frontier, depth,
                 planVars, issues>>

(* dfs(v) for a white neighbour v. *)
Descend(e) ==
  /\ Searching /\ stack # <<>>
  /\ e \in fresh /\ e.from = Top
  /\ e.to \in nodes /\ color[e.to] = "white"
  /\ fresh' = fresh \ {e}
  /\ Enter(e.to)
  /\ UNCHANGED <<nodes, edges, pc, cycle, indegree, frontier, depth, planVars,
                 issues>>

PosOf(n) == CHOOSE i \in 1 .. Len(stack) : stack[i] = n

(* A gray neighbour closes a cycle: the stack from it on. *)
FindCycle(e) ==
  /\ Searching /\ stack # <<>>
  /\ e \in fresh /\ e.from = Top
  /\ e.to \in nodes /\ color[e.to] = "gray"
  /\ fresh' = fresh \ {e}
  /\ cycle' = SubSeq(stack, PosOf(e.to), Len(stack))
  /\ UNCHANGED <<nodes, edges, pc, color, stack, indegree, frontier, depth,
                 planVars, issues>>

PassBy(e) ==
  /\ Searching /\ stack # <<>>
  /\ e \in fresh /\ e.from = Top
  /\ e.to \in nodes => color[e.to] = "black"
  /\ fresh' = fresh \ {e}
  /\ UNCHANGED <<nodes, edges, pc, color, stack, cycle, indegree, frontier,
                 depth, planVars, issues>>

Return ==
  /\ Searching /\ stack # <<>>
  /\ \A e \in fresh : e.from # Top
  /\ color' = [color EXCEPT ![Top] = "black"]
  /\ stack' = SubSeq(stack, 1, Len(stack) - 1)
  /\ UNCHANGED <<nodes, edges, pc, fresh, cycle, indegree, frontier, depth,
                 planVars, issues>>

----------------------------------------------------------------------------
(* kahnLayers and lint *)

Sources(deg) == {n \in nodes : deg[n] = 0}

(* One pass over the frontier takes the out-edges of all its nodes away.    *)
TakeAway(F) == [n \in Ids |->
  indegree[n] - Cardinality(Into(OutOf(Forward, F), n))]

Released(F) == {n \in nodes : indegree[n] > 0 /\ TakeAway(F)[n] = 0}

StartLayering ==
  /\ indegree' = [n \in Ids |-> Cardinality(Into(Forward, n))]
  /\ frontier' = {n \in nodes : Into(Forward, n) = {}}

structuralIssues ==
  (IF nodes \cap Triggers = {} THEN {"no_trigger"} ELSE {})
  \cup (IF Known # edges THEN {"dangling_edge"} ELSE {})

(* Fault: lint looks for the cycle among the edges it could already match   *)
(* to the roots it started from.                                           *)
StopSearchEarly ==
  /\ pc = "search"
  /\ stack = <<>> \/ cycle # <<>>
  /\ cycle # <<>> \/ \E n \in nodes : color[n] = "black"
  /\ issues' = structuralIssues
       \cup (IF cycle # <<>> THEN {"forward_cycle"} ELSE {})
  /\ IF cycle # <<>>
     THEN pc' = "replan" /\ UNCHANGED <<indegree, frontier, depth>>
     ELSE /\ pc' = "lint" /\ StartLayering
          /\ depth' = [n \in Ids |->
               IF n \in nodes /\ Into(Forward, n) = {} THEN 0 ELSE NoLayer]
  /\ UNCHANGED <<nodes, edges, searchVars, planVars>>

(* The search has ended: the structural issues are known, and the layering  *)
(* starts unless there is a cycle.                                         *)
StopSearch ==
  /\ pc = "search"
  /\ \/ cycle # <<>>
     \/ stack = <<>> /\ \A n \in nodes : color[n] # "white"
  /\ issues' = structuralIssues
       \cup (IF cycle # <<>> THEN {"forward_cycle"} ELSE {})
  /\ IF cycle # <<>>
     THEN pc' = "replan" /\ UNCHANGED <<indegree, frontier, depth>>
     ELSE /\ pc' = "lint" /\ StartLayering
          /\ depth' = [n \in Ids |->
               IF n \in nodes /\ Into(Forward, n) = {} THEN 0 ELSE NoLayer]
  /\ UNCHANGED <<nodes, edges, searchVars, planVars>>

(* The deepest layer a pass over the frontier offers to n, or its own.      *)
Offered(n) ==
  LET offers == {depth[e.from] + 1 : e \in Into(OutOf(Forward, frontier), n)}
                  \cup {depth[n]}
  IN CHOOSE d \in offers : \A c \in offers : c <= d

(* Fault: the first layer offered to a node is kept. *)
LintPassFirst ==
  /\ pc = "lint" /\ frontier # {}
  /\ indegree' = TakeAway(frontier)
  /\ frontier' = Released(frontier)
  /\ depth' = [n \in Ids |-> IF n \in nodes /\ depth[n] = NoLayer
                             THEN Offered(n) ELSE depth[n]]
  /\ UNCHANGED <<nodes, edges, pc, searchVars, planVars, issues>>

LintPass ==
  /\ pc = "lint" /\ frontier # {}
  /\ indegree' = TakeAway(frontier)
  /\ frontier' = Released(frontier)
  /\ depth' = [n \in Ids |-> IF n \in nodes THEN Offered(n) ELSE depth[n]]
  /\ UNCHANGED <<nodes, edges, pc, searchVars, planVars, issues>>

SameLayer(S) == \E m, n \in S : m # n /\ depth[m] # NoLayer /\ depth[m] = depth[n]

LintDone ==
  /\ pc = "lint" /\ frontier = {}
  /\ issues' = issues \cup
       (IF \E a \in Artifacts : SameLayer(Produces[a] \cap nodes)
        THEN {"duplicate_writer"} ELSE {})
  /\ pc' = "replan"
  /\ UNCHANGED <<nodes, edges, searchVars, indegree, frontier, depth, planVars>>

----------------------------------------------------------------------------
(* orchestrator.plan *)

StartPlan ==
  /\ pc = "replan"
  /\ pc' = "plan"
  /\ StartLayering
  /\ UNCHANGED <<nodes, edges, searchVars, depth, planVars, issues>>

PlanPass ==
  /\ pc = "plan" /\ frontier # {}
  /\ layers' = Append(layers, frontier \ placed)
  /\ placed' = placed \cup frontier
  /\ indegree' = TakeAway(frontier \ placed)
  /\ frontier' = Released(frontier \ placed)
  /\ UNCHANGED <<nodes, edges, pc, searchVars, depth, issues>>

(* Fault: what the loop could not place is dropped. *)
PlanDropsLeftover ==
  /\ pc = "plan" /\ frontier = {}
  /\ pc' = "done"
  /\ UNCHANGED <<nodes, edges, searchVars, indegree, frontier, depth, placed,
                 layers, issues>>

(* What the loop could not place becomes the last layer. *)
PlanDone ==
  /\ pc = "plan" /\ frontier = {}
  /\ layers' = IF placed = nodes THEN layers ELSE Append(layers, nodes \ placed)
  /\ pc' = "done"
  /\ UNCHANGED <<nodes, edges, searchVars, indegree, frontier, depth, placed,
                 issues>>

----------------------------------------------------------------------------

Search ==
  \/ \E n \in Ids : SearchRoot(n)
  \/ \E e \in edges : Descend(e) \/ FindCycle(e) \/ PassBy(e)
  \/ Return \/ StopSearch

Next ==
  \/ Search \/ LintPass \/ LintDone
  \/ StartPlan \/ PlanPass \/ PlanDone

Spec == Init /\ [][Next]_vars

----------------------------------------------------------------------------
(* Properties *)

LayeringTypeOK ==
  /\ nodes \subseteq Ids /\ edges \subseteq Edge /\ IsFiniteSet(edges)
  /\ pc \in {"search", "lint", "replan", "plan", "done"}
  /\ color \in [Ids -> {"white", "gray", "black"}]
  /\ stack \in Seq(nodes) /\ cycle \in Seq(nodes)
  /\ fresh \subseteq {e \in edges : ~ e.feedback /\ e.from \in nodes}
  /\ indegree \in [Ids -> Int] /\ frontier \subseteq nodes
  /\ depth \in [Ids -> Int]
  /\ placed \subseteq nodes /\ layers \in Seq(SUBSET nodes)

(* Every non-empty set of nodes has one without a predecessor in the set.   *)
Acyclic ==
  \A S \in (SUBSET nodes) \ {{}} :
    \E n \in S : \A e \in Forward : e.to = n => e.from \notin S

(* lint reports a forward cycle exactly when the forward edges have one,    *)
(* and what it names is one: each node has a forward edge to the next and  *)
(* the last to the first.                                                  *)
CycleExact ==
  /\ pc # "search" => ("forward_cycle" \in issues <=> ~ Acyclic)
  /\ \A i \in DOMAIN cycle : \E e \in Forward :
       /\ e.from = cycle[i]
       /\ e.to = cycle[IF i = Len(cycle) THEN 1 ELSE i + 1]

(* The plan is total: every node is in exactly one layer, whatever the      *)
(* graph; and unless the graph was rejected no forward edge points at the  *)
(* layer it starts from or an earlier one, so a layer that is started has  *)
(* all the predecessors of its nodes behind it.                            *)
PlanIsALayering ==
  /\ pc = "done" => nodes = UNION {layers[i] : i \in DOMAIN layers}
  /\ \A i, j \in DOMAIN layers : i # j => layers[i] \cap layers[j] = {}
  /\ pc = "done" /\ "forward_cycle" \notin issues =>
       \A e \in Forward : \A i, j \in DOMAIN layers :
         e.from \in layers[i] /\ e.to \in layers[j] => i < j

(* The single-writer check and the plan agree on what runs side by side:    *)
(* a spec without issues is never planned with two nodes that declare the  *)
(* same artifact in one layer.                                             *)
SingleWriterPlanned ==
  pc = "done" /\ issues = {} =>
    \A a \in Artifacts : \A i \in DOMAIN layers :
      \A m, n \in Produces[a] \cap layers[i] : m = n
=============================================================================
