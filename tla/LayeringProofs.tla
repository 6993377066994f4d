--------------------------- MODULE LayeringProofs ---------------------------
(***************************************************************************)
(* Proofs about Layering for every graph, of any size: the cycle search is *)
(* exact, the plan is a layering, and lint and plan agree on the layers.   *)
(* The inductive invariant, LayeringInv, has a part for each phase.        *)
(***************************************************************************)
EXTENDS Layering, FiniteSetTheorems, SequenceTheorems, TLAPS

(* The search: the stack is a path of forward edges through the gray nodes, *)
(* an edge that has been looked at leads to a black node or is the stack's *)
(* link, and what is black is closed under successors and has no cycle.    *)

Chained ==
  \A i \in 1 .. Len(stack) - 1 :
    \E e \in Forward : e.from = stack[i] /\ e.to = stack[i + 1]

Explored(e) ==
  \/ color[e.to] = "black"
  \/ \E i \in 1 .. Len(stack) - 1 : stack[i] = e.from /\ stack[i + 1] = e.to

Black == {n \in nodes : color[n] = "black"}

AcyclicOn(T) ==
  \A S \in (SUBSET T) \ {{}} :
    \E n \in S : \A e \in Forward : e.to = n => e.from \notin S

GrayStack ==
  /\ \A i, j \in 1 .. Len(stack) : stack[i] = stack[j] => i = j
  /\ \A n \in nodes :
       color[n] = "gray" <=> \E i \in 1 .. Len(stack) : stack[i] = n

Closed == \A e \in Forward : color[e.from] = "black" => color[e.to] = "black"

SearchInv ==
  /\ GrayStack /\ Chained /\ Closed
  /\ \A e \in Forward \ fresh : Explored(e)
  /\ AcyclicOn(Black)

(* What the search has found is a cycle. *)
CycleCloses ==
  \A i \in DOMAIN cycle : \E e \in Forward :
    /\ e.from = cycle[i]
    /\ e.to = cycle[IF i = Len(cycle) THEN 1 ELSE i + 1]

Vetted == "forward_cycle" \notin issues

(* A layering loop: the nodes it has taken, the edges a node still waits    *)
(* for.  A node in the frontier waits for none.                            *)
Taken == {n \in nodes : indegree[n] = 0 /\ n \notin frontier}

Waiting(n) == {e \in Into(Forward, n) : e.from \notin Taken}

Kahn ==
  /\ \A n \in nodes : indegree[n] = Cardinality(Waiting(n))
  /\ \A n \in frontier : indegree[n] = 0

(* lint's layers: behind all predecessors and right behind one of them. *)
Deep(n) ==
  /\ depth[n] \in Nat
  /\ \A e \in Into(Forward, n) : depth[e.from] < depth[n]
  /\ depth[n] = 0 \/ \E e \in Into(Forward, n) : depth[e.from] = depth[n] - 1

LevelsUpTo(k) ==
  /\ \A n \in frontier : depth[n] = k
  /\ \A n \in Taken : depth[n] < k
  /\ \A n \in nodes : depth[n] <= k
  /\ \A n \in Taken \cup frontier : Deep(n)

Linted ==
  Vetted =>
    /\ \A n \in nodes : Deep(n)
    /\ "duplicate_writer" \notin issues =>
         \A a \in Artifacts : ~ SameLayer(Produces[a] \cap nodes)

(* The plan's layers: the same, of positions in a sequence. *)
Disjoint ==
  \A i, j \in DOMAIN layers : i # j => layers[i] \cap layers[j] = {}

Follows(n, j) ==
  /\ \A e \in Into(Forward, n) : \E i \in 1 .. j - 1 : e.from \in layers[i]
  /\ j = 1 \/ \E e \in Into(Forward, n) : e.from \in layers[j - 1]

Layered == \A j \in DOMAIN layers : \A n \in layers[j] : Follows(n, j)

Planned == UNION {layers[i] : i \in DOMAIN layers}

(* The phases. *)
InSearch == pc = "search" /\ cycle = <<>> => SearchInv
Verdict  == pc # "search" => (Vetted <=> Acyclic)
Unplanned == pc \in {"search", "lint", "replan"} => layers = <<>> /\ placed = {}
InLint   == pc = "lint" => Vetted /\ Kahn /\ \E k \in Nat : LevelsUpTo(k)
PastLint == pc \in {"replan", "plan", "done"} => Linted
InPlan   ==
  pc = "plan" =>
    /\ Kahn /\ placed = Taken /\ Planned = Taken
    /\ Disjoint /\ Layered
    /\ \A n \in frontier : Follows(n, Len(layers) + 1)
IsDone   == pc = "done" => Planned = nodes /\ Disjoint /\ (Vetted => Layered)

LayeringInv ==
  /\ LayeringTypeOK /\ CycleCloses
  /\ InSearch /\ Verdict /\ Unplanned /\ InLint /\ PastLint /\ InPlan /\ IsDone

----------------------------------------------------------------------------
(* The parts of the invariant depend on few variables. *)

LEMMA ForwardFacts ==
  ASSUME LayeringTypeOK
  PROVE  /\ \A e \in Forward : e \in edges /\ e.from \in nodes /\ e.to \in nodes
                                 /\ ~ e.feedback
         /\ \A e \in fresh : e.to \in nodes => e \in Forward
         /\ IsFiniteSet(Forward)
<1>1. Forward \subseteq edges
  BY DEF Forward, Known
<1>2. IsFiniteSet(Forward)
  BY <1>1, FS_Subset DEF LayeringTypeOK
<1>. QED BY <1>2 DEF LayeringTypeOK, Forward, Known

LEMMA SameGraph ==
  ASSUME nodes' = nodes, edges' = edges
  PROVE  Forward' = Forward /\ (Acyclic' <=> Acyclic)
BY DEF Forward, Known, Acyclic

LEMMA InitInv == Init => LayeringInv
<1> SUFFICES ASSUME Init PROVE LayeringInv
  OBVIOUS
<1>1. LayeringTypeOK
  BY CandidateAssumption DEF Init, LayeringTypeOK, NoLayer
<1>2. GrayStack /\ Chained /\ Closed /\ AcyclicOn(Black)
  BY <1>1 DEF Init, GrayStack, Chained, Closed, AcyclicOn, Black,
              LayeringTypeOK, Forward, Known
<1>3. Forward \ fresh = {}
  BY DEF Init, Forward, Known
<1>4. SearchInv
  BY <1>2, <1>3 DEF SearchInv
<1>. QED
  BY <1>1, <1>4 DEF Init, LayeringInv, CycleCloses, InSearch, Verdict, Unplanned,
                    InLint, PastLint, InPlan, IsDone

----------------------------------------------------------------------------
(* The search. *)

LEMMA TopFacts ==
  ASSUME LayeringTypeOK, stack # <<>>
  PROVE  /\ Len(stack) \in Nat /\ Len(stack) >= 1
         /\ \A i \in 1 .. Len(stack) : stack[i] \in nodes
         /\ Top \in nodes /\ Top = stack[Len(stack)]
BY DEF LayeringTypeOK, Top

(* dfs is called on a white node: a root, or the neighbour e.to of Top. *)
LEMMA EnterStep ==
  ASSUME LayeringTypeOK, SearchInv, NEW n \in nodes, color[n] = "white", Enter(n),
         UNCHANGED <<nodes, edges>>,
         fresh' \in SUBSET fresh,
         \/ stack = <<>> /\ fresh' = fresh
         \/ stack # <<>> /\ \E e \in Forward :
              e.from = Top /\ e.to = n /\ fresh' = fresh \ {e}
  PROVE  SearchInv'
<1>0. Forward' = Forward /\ nodes' = nodes /\ n \in Ids
  BY SameGraph DEF LayeringTypeOK
<1>1. /\ Len(stack) \in Nat
      /\ Len(stack') = Len(stack) + 1
      /\ \A i \in 1 .. Len(stack) : stack'[i] = stack[i]
      /\ stack'[Len(stack) + 1] = n
  BY AppendProperties DEF Enter, LayeringTypeOK
<1>2. /\ color'[n] = "gray"
      /\ \A m \in nodes : m # n => color'[m] = color[m]
  BY <1>0 DEF Enter, LayeringTypeOK
<1>3. \A i \in 1 .. Len(stack) : stack[i] # n /\ stack[i] \in nodes
  <2>1. \A i \in 1 .. Len(stack) : stack[i] \in nodes
    BY DEF LayeringTypeOK
  <2>2. \A i \in 1 .. Len(stack) : color[stack[i]] = "gray"
    BY <2>1 DEF SearchInv, GrayStack
  <2>. QED BY <2>1, <2>2
<1>4. GrayStack'
  <2>1. \A i, j \in 1 .. Len(stack') : stack'[i] = stack'[j] => i = j
    BY <1>1, <1>3 DEF SearchInv, GrayStack
  <2>2. ASSUME NEW m \in nodes
        PROVE  color'[m] = "gray" <=> \E i \in 1 .. Len(stack') : stack'[i] = m
    <3>1. CASE m = n
      BY <3>1, <1>1, <1>2
    <3>2. CASE m # n
      BY <3>2, <1>1, <1>2 DEF SearchInv, GrayStack
    <3>. QED BY <3>1, <3>2
  <2>. QED BY <2>1, <2>2 DEF GrayStack
<1>5. Chained'
  <2> SUFFICES ASSUME NEW i \in 1 .. Len(stack') - 1
               PROVE  \E e \in Forward : e.from = stack'[i] /\ e.to = stack'[i + 1]
    BY <1>0 DEF Chained
  <2>1. CASE i < Len(stack)
    <3>1. i \in 1 .. Len(stack) - 1
      BY <2>1, <1>1
    <3>. QED BY <3>1, <1>1 DEF SearchInv, Chained
  <2>2. CASE i = Len(stack)
    <3>1. stack # <<>>
      BY <2>2, <1>1
    <3>. QED BY <3>1, <2>2, <1>1, TopFacts
  <2>. QED BY <2>1, <2>2, <1>1
<1>6. Closed' /\ Black' = Black
  BY <1>0, <1>2, ForwardFacts DEF SearchInv, Closed, Black
<1>7. AcyclicOn(Black)'
  BY <1>0, <1>6 DEF SearchInv, AcyclicOn
<1>8. ASSUME NEW d \in Forward, d \notin fresh'
      PROVE  Explored(d)'
  <2>1. CASE d \notin fresh
    <3>1. CASE color[d.to] = "black"
      BY <3>1, <1>2, ForwardFacts DEF Explored
    <3>2. CASE \E i \in 1 .. Len(stack) - 1 : stack[i] = d.from /\ stack[i + 1] = d.to
      <4>1. PICK i \in 1 .. Len(stack) - 1 : stack[i] = d.from /\ stack[i + 1] = d.to
        BY <3>2
      <4>2. i \in 1 .. Len(stack') - 1 /\ stack'[i] = d.from /\ stack'[i + 1] = d.to
        BY <4>1, <1>1
      <4>. QED BY <4>2 DEF Explored
    <3>. QED BY <2>1, <3>1, <3>2 DEF SearchInv, Explored
  <2>2. CASE d \in fresh
    <3>1. stack # <<>> /\ d.from = Top /\ d.to = n
      BY <2>2, <1>8
    <3>2. /\ Len(stack) \in 1 .. Len(stack') - 1
          /\ stack'[Len(stack)] = d.from /\ stack'[Len(stack) + 1] = d.to
      BY <3>1, <1>1, TopFacts
    <3>. QED BY <3>2 DEF Explored
  <2>. QED BY <2>1, <2>2
<1>. QED BY <1>0, <1>4, <1>5, <1>6, <1>7, <1>8 DEF SearchInv

(* An edge to a black node, or to no node, is looked at. *)
LEMMA PassByStep ==
  ASSUME LayeringTypeOK, SearchInv, NEW e \in fresh, PassBy(e)
  PROVE  SearchInv'
<1>1. UNCHANGED <<nodes, edges, color, stack>> /\ fresh' = fresh \ {e}
  BY DEF PassBy
<1>2. Forward' = Forward
  BY <1>1, SameGraph
<1>3. GrayStack' /\ Chained' /\ Closed'
  BY <1>1, <1>2 DEF SearchInv, GrayStack, Chained, Closed
<1>4. Black' = Black
  BY <1>1 DEF Black
<1>5. AcyclicOn(Black)'
  BY <1>2, <1>4 DEF SearchInv, AcyclicOn
<1>6. ASSUME NEW d \in Forward, d \notin fresh' PROVE Explored(d)'
  <2>1. Explored(d)
    BY <1>1, <1>6, ForwardFacts DEF SearchInv, PassBy, Explored
  <2>. QED BY <2>1, <1>1 DEF Explored
<1>. QED BY <1>2, <1>3, <1>5, <1>6 DEF SearchInv

(* dfs returns from Top, all of whose edges have been looked at. *)
LEMMA ReturnStep ==
  ASSUME LayeringTypeOK, SearchInv, Return
  PROVE  SearchInv'
<1>0. /\ nodes' = nodes /\ edges' = edges /\ fresh' = fresh /\ Forward' = Forward
      /\ stack # <<>>
  BY SameGraph DEF Return
<1>1. /\ Len(stack) \in Nat /\ Len(stack) >= 1 /\ Top \in nodes
      /\ \A i \in 1 .. Len(stack) : stack[i] \in nodes
      /\ Top = stack[Len(stack)]
  BY <1>0, TopFacts
<1>2. /\ stack' \in Seq(nodes)
      /\ Len(stack') = Len(stack) - 1
      /\ \A i \in 1 .. Len(stack) - 1 : stack'[i] = stack[i]
  <2>1. \A i \in 1 .. Len(stack) - 1 : stack[i] \in nodes
    BY <1>1
  <2>2. stack' = SubSeq(stack, 1, Len(stack) - 1)
    BY DEF Return
  <2>3. /\ stack' \in Seq(nodes)
        /\ Len(stack') = IF 1 <= Len(stack) - 1 THEN (Len(stack) - 1) - 1 + 1 ELSE 0
        /\ \A i \in 1 .. (Len(stack) - 1) - 1 + 1 : stack'[i] = stack[1 + i - 1]
    <3>1. Len(stack) - 1 \in Int
      BY <1>1
    <3>. QED BY <2>1, <2>2, <3>1, SubSeqProperties
  <2>4. \A i \in 1 .. Len(stack) - 1 :
          i \in 1 .. (Len(stack) - 1) - 1 + 1 /\ 1 + i - 1 = i
    BY <1>1
  <2>5. \A i \in 1 .. Len(stack) - 1 : stack'[i] = stack[i]
    BY <2>3, <2>4
  <2>6. Len(stack') = Len(stack) - 1
    <3>1. PICK k \in Nat : k = Len(stack) /\ k >= 1
      BY <1>1
    <3>2. Len(stack') = IF 1 <= k - 1 THEN (k - 1) - 1 + 1 ELSE 0
      BY <2>3, <3>1
    <3>3. Len(stack') = k - 1
      BY <3>1, <3>2
    <3>. QED BY <3>1, <3>3
  <2>. QED BY <2>3, <2>5, <2>6
<1>3. /\ color'[Top] = "black"
      /\ \A m \in nodes : m # Top => color'[m] = color[m]
      /\ color[Top] = "gray"
  BY <1>1 DEF Return, LayeringTypeOK, SearchInv, GrayStack
<1>4. \A i \in 1 .. Len(stack) - 1 : stack[i] # Top
  BY <1>1 DEF SearchInv, GrayStack
<1>5. GrayStack'
  <2>1. \A i, j \in 1 .. Len(stack') : stack'[i] = stack'[j] => i = j
    BY <1>1, <1>2, SMTT(30) DEF SearchInv, GrayStack
  <2>2. ASSUME NEW m \in nodes
        PROVE  color'[m] = "gray" <=> \E i \in 1 .. Len(stack') : stack'[i] = m
    <3>1. CASE m = Top
      BY <3>1, <1>1, <1>2, <1>3, <1>4
    <3>2. CASE m # Top
      <4>1. \A i \in 1 .. Len(stack) : stack[i] = m => i \in 1 .. Len(stack) - 1
        BY <3>2, <1>1
      <4>. QED BY <3>2, <4>1, <1>1, <1>2, <1>3 DEF SearchInv, GrayStack
    <3>. QED BY <3>1, <3>2
  <2>. QED BY <2>1, <2>2, <1>0 DEF GrayStack
<1>6. Chained'
  <2> SUFFICES ASSUME NEW i \in 1 .. Len(stack') - 1
               PROVE  \E e \in Forward : e.from = stack'[i] /\ e.to = stack'[i + 1]
    BY <1>0 DEF Chained
  <2>1. /\ i \in 1 .. Len(stack) - 1 /\ stack'[i] = stack[i]
        /\ stack'[i + 1] = stack[i + 1]
    BY <1>1, <1>2
  <2>. QED BY <2>1 DEF SearchInv, Chained
<1>7. \A e \in Forward : e.from = Top => color[e.to] = "black"
  <2> SUFFICES ASSUME NEW e \in Forward, e.from = Top PROVE color[e.to] = "black"
    OBVIOUS
  <2>1. e \notin fresh
    BY DEF Return
  <2>2. Explored(e)
    BY <2>1 DEF SearchInv
  <2>. QED BY <2>2, <1>4 DEF Explored
<1>8. Closed'
  BY <1>0, <1>1, <1>3, <1>7, ForwardFacts DEF SearchInv, Closed
<1>9. ASSUME NEW d \in Forward, d \notin fresh' PROVE Explored(d)'
  <2>1. CASE color[d.to] = "black"
    BY <2>1, <1>3, ForwardFacts DEF Explored
  <2>2. CASE \E i \in 1 .. Len(stack) - 1 : stack[i] = d.from /\ stack[i + 1] = d.to
    <3>1. PICK i \in 1 .. Len(stack) - 1 : stack[i] = d.from /\ stack[i + 1] = d.to
      BY <2>2
    <3>2. CASE i = Len(stack) - 1
      BY <3>1, <3>2, <1>1, <1>3 DEF Explored
    <3>3. CASE i # Len(stack) - 1
      <4>1. i \in 1 .. Len(stack') - 1 /\ stack'[i] = d.from /\ stack'[i + 1] = d.to
        BY <3>1, <3>3, <1>1, <1>2
      <4>. QED BY <4>1 DEF Explored
    <3>. QED BY <3>2, <3>3
  <2>. QED BY <1>9, <1>0, <2>1, <2>2 DEF SearchInv, Explored
<1>10. AcyclicOn(Black)'
  <2>1. \A n \in Black' : n = Top \/ n \in Black
    BY <1>0, <1>3 DEF Black
  <2> SUFFICES ASSUME NEW S \in (SUBSET Black') \ {{}}
               PROVE  \E n \in S : \A e \in Forward : e.to = n => e.from \notin S
    BY <1>0 DEF AcyclicOn
  <2>2. CASE Top \in S
    <3>1. ASSUME NEW e \in Forward, e.to = Top, e.from \in S PROVE FALSE
      <4>1. e.from # Top
        BY <3>1, <1>3, <1>7
      <4>2. e.from \in Black
        BY <3>1, <4>1, <2>1
      <4>. QED BY <3>1, <4>2, <1>3 DEF Black, SearchInv, Closed
    <3>. QED BY <2>2, <3>1
  <2>3. CASE Top \notin S
    <3>1. S \in (SUBSET Black) \ {{}}
      BY <2>1, <2>3
    <3>. QED BY <3>1 DEF SearchInv, AcyclicOn
  <2>. QED BY <2>2, <2>3
<1>. QED BY <1>0, <1>5, <1>6, <1>8, <1>9, <1>10 DEF SearchInv

(* The stack from a gray neighbour on is a cycle. *)
LEMMA FindCycleStep ==
  ASSUME LayeringTypeOK, SearchInv, NEW e \in fresh, FindCycle(e)
  PROVE  CycleCloses' /\ cycle' \in Seq(nodes) /\ cycle' # <<>>
<1>0. /\ nodes' = nodes /\ edges' = edges /\ Forward' = Forward
      /\ stack # <<>> /\ e.from = Top /\ e.to \in nodes /\ color[e.to] = "gray"
      /\ e \in Forward
  BY SameGraph, ForwardFacts DEF FindCycle
<1>1. /\ Len(stack) \in Nat /\ Len(stack) >= 1
      /\ \A i \in 1 .. Len(stack) : stack[i] \in nodes
      /\ Top = stack[Len(stack)]
  BY <1>0, TopFacts
<1>2. PICK p \in 1 .. Len(stack) : p = PosOf(e.to) /\ stack[p] = e.to
  BY <1>0 DEF SearchInv, GrayStack, PosOf
<1>3. cycle' = SubSeq(stack, p, Len(stack))
  BY <1>2 DEF FindCycle
<1>4. /\ cycle' \in Seq(nodes)
      /\ Len(cycle') = Len(stack) - p + 1
      /\ \A i \in 1 .. Len(stack) - p + 1 : cycle'[i] = stack[p + i - 1]
  <2>1. \A i \in p .. Len(stack) : stack[i] \in nodes
    BY <1>1
  <2>2. p \in Int /\ p <= Len(stack) /\ Len(stack) \in Int
    BY <1>1
  <2>. QED BY <1>3, <2>1, <2>2, SubSeqProperties
<1>5. /\ DOMAIN cycle' = 1 .. Len(cycle') /\ Len(cycle') \in Nat /\ Len(cycle') >= 1
      /\ \A i \in 1 .. Len(cycle') : cycle'[i] = stack[p + i - 1]
  BY <1>1, <1>4
<1>6. ASSUME NEW i \in DOMAIN cycle'
      PROVE  \E d \in Forward :
               /\ d.from = cycle'[i]
               /\ d.to = cycle'[IF i = Len(cycle') THEN 1 ELSE i + 1]
  <2>1. CASE i = Len(cycle')
    <3>1. p + i - 1 = Len(stack) /\ p + 1 - 1 = p /\ 1 \in 1 .. Len(cycle')
      BY <2>1, <1>1, <1>4, <1>5
    <3>2. cycle'[i] = Top /\ cycle'[1] = e.to
      BY <3>1, <1>1, <1>2, <1>5
    <3>. QED BY <2>1, <3>2, <1>0
  <2>2. CASE i # Len(cycle')
    <3>0. /\ p + i - 1 \in 1 .. Len(stack) - 1
          /\ i \in 1 .. Len(cycle') /\ i + 1 \in 1 .. Len(cycle')
          /\ p + (i + 1) - 1 = (p + i - 1) + 1
      <4>1. i \in 1 .. Len(stack) - p + 1 /\ i # Len(stack) - p + 1
        BY <2>2, <1>4, <1>5
      <4>. QED BY <4>1, <1>1, <1>4, SMTT(30)
    <3>1. /\ cycle'[i] = stack[p + i - 1]
          /\ cycle'[i + 1] = stack[(p + i - 1) + 1]
      BY <3>0, <1>5, SMTT(30)
    <3>2. \E d \in Forward : d.from = stack[p + i - 1] /\ d.to = stack[(p + i - 1) + 1]
      BY <3>0 DEF SearchInv, Chained
    <3>. QED BY <2>2, <3>1, <3>2
  <2>. QED BY <2>1, <2>2
<1>. QED BY <1>0, <1>4, <1>5, <1>6 DEF CycleCloses

(* A cycle is a set of nodes each of which has a predecessor in it. *)
LEMMA CycleIsCyclic ==
  ASSUME LayeringTypeOK, CycleCloses, cycle # <<>>
  PROVE  ~ Acyclic
<1> DEFINE S == {cycle[i] : i \in DOMAIN cycle}
<1>1. /\ DOMAIN cycle = 1 .. Len(cycle) /\ Len(cycle) \in Nat /\ Len(cycle) >= 1
      /\ \A i \in DOMAIN cycle : cycle[i] \in nodes
  BY DEF LayeringTypeOK
<1>2. cycle[1] \in S /\ S \in (SUBSET nodes) \ {{}}
  <2>1. 1 \in DOMAIN cycle
    BY <1>1
  <2>2. cycle[1] \in S /\ S \subseteq nodes
    BY <2>1, <1>1
  <2>. QED BY <2>2
<1>3. ASSUME NEW n \in S PROVE \E e \in Forward : e.to = n /\ e.from \in S
  <2>1. PICK i \in DOMAIN cycle : n = cycle[i]
    OBVIOUS
  <2>2. PICK j \in DOMAIN cycle : i = IF j = Len(cycle) THEN 1 ELSE j + 1
    <3>1. CASE i = 1
      BY <3>1, <1>1
    <3>2. CASE i # 1
      <4>1. i - 1 \in DOMAIN cycle /\ i = (IF i - 1 = Len(cycle) THEN 1 ELSE i - 1 + 1)
        BY <3>2, <1>1
      <4>. QED BY <4>1
    <3>. QED BY <3>1, <3>2
  <2>. QED BY <2>1, <2>2 DEF CycleCloses
<1>. QED BY <1>2, <1>3 DEF Acyclic

(* The search ends with every node black, and so with no cycle. *)
LEMMA NoCycleLeft ==
  ASSUME LayeringTypeOK, SearchInv, stack = <<>>, \A n \in nodes : color[n] # "white"
  PROVE  Acyclic
<1>1. \A n \in nodes : color[n] \in {"white", "gray", "black"}
  BY DEF LayeringTypeOK
<1>2. \A n \in nodes : color[n] # "gray"
  BY DEF SearchInv, GrayStack
<1>3. Black = nodes
  BY <1>1, <1>2 DEF Black
<1>. QED BY <1>3 DEF SearchInv, AcyclicOn, Acyclic

----------------------------------------------------------------------------
(* The layering loops. *)

LEMMA IntoFacts ==
  ASSUME LayeringTypeOK
  PROVE  \A n : /\ IsFiniteSet(Into(Forward, n)) /\ IsFiniteSet(Waiting(n))
                /\ Waiting(n) \subseteq Into(Forward, n)
                /\ Cardinality(Waiting(n)) \in Nat
                /\ Cardinality(Waiting(n)) = 0 <=> Waiting(n) = {}
                /\ \A e \in Into(Forward, n) : e \in Forward /\ e.from \in nodes
                                                 /\ e.to = n
<1> SUFFICES ASSUME NEW n
    PROVE  /\ IsFiniteSet(Into(Forward, n)) /\ IsFiniteSet(Waiting(n))
           /\ Waiting(n) \subseteq Into(Forward, n)
           /\ Cardinality(Waiting(n)) \in Nat
           /\ Cardinality(Waiting(n)) = 0 <=> Waiting(n) = {}
           /\ \A e \in Into(Forward, n) : e \in Forward /\ e.from \in nodes
                                            /\ e.to = n
  OBVIOUS
<1>1. Into(Forward, n) \subseteq Forward /\ Waiting(n) \subseteq Into(Forward, n)
  BY DEF Into, Waiting
<1>2. IsFiniteSet(Into(Forward, n))
  BY <1>1, ForwardFacts, FS_Subset
<1>3. IsFiniteSet(Waiting(n))
  BY <1>1, <1>2, FS_Subset
<1>4. /\ Cardinality(Waiting(n)) \in Nat
      /\ Cardinality(Waiting(n)) = 0 <=> Waiting(n) = {}
  BY <1>3, FS_CardinalityType, FS_EmptySet
<1>. QED BY <1>1, <1>2, <1>3, <1>4, ForwardFacts DEF Into

(* A loop starts with nothing taken and the nodes without predecessors in   *)
(* the frontier.                                                           *)
LEMMA StartKahn ==
  ASSUME LayeringTypeOK, StartLayering, nodes' = nodes, edges' = edges
  PROVE  /\ Kahn' /\ Taken' = {}
         /\ \A n \in frontier' : n \in nodes /\ Into(Forward, n) = {}
         /\ indegree' \in [Ids -> Int] /\ frontier' \subseteq nodes
<1>0. Forward' = Forward
  BY SameGraph
<1>1. \A n : /\ IsFiniteSet(Into(Forward, n))
             /\ Cardinality(Into(Forward, n)) \in Nat
             /\ Cardinality(Into(Forward, n)) = 0 <=> Into(Forward, n) = {}
  BY IntoFacts, FS_CardinalityType, FS_EmptySet
<1>2. /\ \A n \in nodes : indegree'[n] = Cardinality(Into(Forward, n))
      /\ indegree' \in [Ids -> Int]
      /\ frontier' = {n \in nodes : Into(Forward, n) = {}}
  BY <1>1 DEF StartLayering, LayeringTypeOK
<1>3. Taken' = {}
  <2> SUFFICES ASSUME NEW n \in Taken' PROVE FALSE
    OBVIOUS
  <2>1. n \in nodes /\ indegree'[n] = 0 /\ n \notin frontier'
    BY DEF Taken
  <2>. QED BY <2>1, <1>1, <1>2
<1>4. \A n : Waiting(n)' = Into(Forward, n)
  BY <1>0, <1>3 DEF Waiting, Into
<1>5. Kahn'
  <2>1. \A n \in nodes' : indegree'[n] = Cardinality(Waiting(n)')
    BY <1>2, <1>4
  <2>2. \A n \in frontier' : indegree'[n] = 0
    BY <1>1, <1>2
  <2>. QED BY <2>1, <2>2 DEF Kahn
<1>. QED BY <1>2, <1>3, <1>5

(* A node that is taken or in the frontier waits for nothing. *)
LEMMA NothingAhead ==
  ASSUME LayeringTypeOK, Kahn, NEW n \in Taken \cup frontier
  PROVE  \A e \in Into(Forward, n) : e.from \in Taken
<1>1. n \in nodes /\ indegree[n] = 0
  BY DEF Kahn, Taken, LayeringTypeOK
<1>2. Waiting(n) = {}
  BY <1>1, IntoFacts DEF Kahn
<1>. QED BY <1>2 DEF Waiting

(* A pass takes the frontier; what it releases has a predecessor there and  *)
(* all its predecessors are taken.                                         *)
LEMMA KahnPass ==
  ASSUME LayeringTypeOK, Kahn, nodes' = nodes, edges' = edges,
         indegree' = TakeAway(frontier), frontier' = Released(frontier)
  PROVE  /\ Kahn' /\ Taken' = Taken \cup frontier
         /\ \A n \in frontier' :
              /\ n \in nodes /\ n \notin Taken'
              /\ \E e \in Into(Forward, n) : e.from \in frontier
              /\ \A e \in Into(Forward, n) : e.from \in Taken'
         /\ indegree' \in [Ids -> Int] /\ frontier' \subseteq nodes
<1> DEFINE Gone(n) == Into(OutOf(Forward, frontier), n)
           Left(n) == {e \in Into(Forward, n) : e.from \notin Taken \cup frontier}
<1>0. Forward' = Forward
  BY SameGraph
<1>1. \A n : /\ Gone(n) = Waiting(n) \cap Gone(n) /\ Left(n) = Waiting(n) \ Gone(n)
             /\ Gone(n) \subseteq Into(Forward, n)
             /\ \A e \in Gone(n) : e.from \in frontier
  BY DEF Into, OutOf, Waiting, Taken
<1>2. ASSUME NEW n
      PROVE  /\ Cardinality(Gone(n)) \in Nat /\ Cardinality(Left(n)) \in Nat
             /\ Cardinality(Left(n)) = Cardinality(Waiting(n)) - Cardinality(Gone(n))
             /\ Cardinality(Left(n)) = 0 <=> Left(n) = {}
             /\ Cardinality(Gone(n)) = 0 <=> Gone(n) = {}
  <2>1. IsFiniteSet(Waiting(n)) /\ IsFiniteSet(Into(Forward, n))
    BY IntoFacts
  <2>2. IsFiniteSet(Gone(n))
    BY <2>1, <1>1, FS_Subset
  <2>3. /\ IsFiniteSet(Left(n))
        /\ Cardinality(Left(n)) =
             Cardinality(Waiting(n)) - Cardinality(Waiting(n) \cap Gone(n))
    <3>1. /\ IsFiniteSet(Waiting(n) \ Gone(n))
          /\ Cardinality(Waiting(n) \ Gone(n)) =
               Cardinality(Waiting(n)) - Cardinality(Waiting(n) \cap Gone(n))
      <4> HIDE DEF Gone
      <4>. QED BY <2>1, FS_Difference
    <3>2. Left(n) = Waiting(n) \ Gone(n)
      BY <1>1
    <3>. QED BY <3>1, <3>2
  <2>4. Waiting(n) \cap Gone(n) = Gone(n)
    BY <1>1
  <2>. QED BY <2>2, <2>3, <2>4, FS_CardinalityType, FS_EmptySet
<1> HIDE DEF Gone, Left
<1>3. /\ indegree' \in [Ids -> Int]
      /\ \A n \in nodes : indegree'[n] = indegree[n] - Cardinality(Gone(n))
      /\ frontier' = {n \in nodes : indegree[n] > 0 /\ indegree'[n] = 0}
  BY <1>2 DEF TakeAway, Released, LayeringTypeOK, Gone
<1>4. \A n \in nodes : /\ indegree[n] \in Nat
                       /\ indegree'[n] = Cardinality(Left(n))
                       /\ indegree[n] = 0 => indegree'[n] = 0
                       /\ indegree[n] > 0 /\ indegree'[n] = 0 => Gone(n) # {}
  <2> SUFFICES ASSUME NEW n \in nodes
        PROVE  /\ indegree[n] \in Nat
               /\ indegree'[n] = Cardinality(Left(n))
               /\ indegree[n] = 0 => indegree'[n] = 0
               /\ indegree[n] > 0 /\ indegree'[n] = 0 => Gone(n) # {}
    OBVIOUS
  <2>1. /\ indegree[n] = Cardinality(Waiting(n)) /\ indegree[n] \in Nat
    BY IntoFacts DEF Kahn
  <2>. QED BY <2>1, <1>2, <1>3
<1>5. Taken' = Taken \cup frontier
  <2>1. ASSUME NEW n \in Taken' PROVE n \in Taken \cup frontier
    <3>1. n \in nodes /\ indegree'[n] = 0 /\ n \notin frontier'
      BY DEF Taken
    <3>2. indegree[n] = 0
      BY <3>1, <1>3, <1>4
    <3>. QED BY <3>1, <3>2 DEF Taken
  <2>2. ASSUME NEW n \in Taken \cup frontier PROVE n \in Taken'
    <3>1. n \in nodes /\ indegree[n] = 0
      BY DEF Taken, Kahn, LayeringTypeOK
    <3>2. indegree'[n] = 0 /\ n \notin frontier'
      BY <3>1, <1>3, <1>4
    <3>. QED BY <3>1, <3>2 DEF Taken
  <2>. QED BY <2>1, <2>2
<1>6. \A n : Waiting(n)' = Left(n)
  BY <1>0, <1>5 DEF Waiting, Into, Left
<1>7. Kahn'
  BY <1>3, <1>4, <1>6 DEF Kahn
<1>8. ASSUME NEW n \in frontier'
      PROVE  /\ n \in nodes /\ n \notin Taken'
             /\ \E e \in Into(Forward, n) : e.from \in frontier
             /\ \A e \in Into(Forward, n) : e.from \in Taken'
  <2>1. n \in nodes /\ indegree[n] > 0 /\ indegree'[n] = 0
    BY <1>3
  <2>2. Gone(n) # {} /\ Left(n) = {}
    BY <2>1, <1>2, <1>4
  <2>3. \E e \in Into(Forward, n) : e.from \in frontier
    BY <2>2, <1>1
  <2>. QED BY <2>1, <2>2, <2>3, <1>5 DEF Left, Taken
<1>. QED BY <1>3, <1>5, <1>7, <1>8

(* Without a cycle a loop whose frontier is empty has taken every node. *)
LEMMA AllTaken ==
  ASSUME LayeringTypeOK, Kahn, frontier = {}, Acyclic
  PROVE  Taken = nodes
<1> SUFFICES ASSUME nodes \ Taken # {} PROVE FALSE
  BY DEF Taken
<1>1. PICK n \in nodes \ Taken : \A e \in Forward : e.to = n => e.from \notin nodes \ Taken
  BY DEF Acyclic
<1>2. Waiting(n) = {}
  BY <1>1, IntoFacts DEF Waiting
<1>3. indegree[n] = 0
  BY <1>2, IntoFacts DEF Kahn
<1>. QED BY <1>1, <1>3 DEF Taken

----------------------------------------------------------------------------
(* lint's layers. *)

(* What a pass offers: one below the frontier, to the frontier's successors. *)
LEMMA OfferedFacts ==
  ASSUME LayeringTypeOK, NEW k \in Nat, LevelsUpTo(k), NEW n \in nodes
  PROVE  /\ (\E e \in Into(Forward, n) : e.from \in frontier) => Offered(n) = k + 1
         /\ (\A e \in Into(Forward, n) : e.from \notin frontier) => Offered(n) = depth[n]
<1> DEFINE Ahead == {depth[e.from] + 1 : e \in Into(OutOf(Forward, frontier), n)}
<1>1. depth[n] \in Int /\ depth[n] <= k
  BY DEF LevelsUpTo, LayeringTypeOK
<1>2. Offered(n) = CHOOSE d \in Ahead \cup {depth[n]} :
                     \A c \in Ahead \cup {depth[n]} : c <= d
  BY DEF Offered
<1>3. \A e \in Into(OutOf(Forward, frontier), n) : depth[e.from] = k
  BY DEF Into, OutOf, LevelsUpTo
<1>4. ASSUME NEW e \in Into(Forward, n), e.from \in frontier
      PROVE  Offered(n) = k + 1
  <2>1. e \in Into(OutOf(Forward, frontier), n)
    BY <1>4 DEF Into, OutOf
  <2>2. Ahead = {k + 1}
    BY <2>1, <1>3
  <2> HIDE DEF Ahead
  <2>3. /\ k + 1 \in Ahead \cup {depth[n]}
        /\ \A c \in Ahead \cup {depth[n]} : c <= k + 1 /\ (k + 1 <= c => c = k + 1)
    BY <2>2, <1>1
  <2>. QED BY <2>3, <1>2
<1>5. ASSUME \A e \in Into(Forward, n) : e.from \notin frontier
      PROVE  Offered(n) = depth[n]
  <2>1. Into(OutOf(Forward, frontier), n) = {}
    BY <1>5 DEF Into, OutOf
  <2>2. Ahead = {}
    BY <2>1
  <2> HIDE DEF Ahead
  <2>. QED BY <2>2, <1>1, <1>2
<1>. QED BY <1>4, <1>5

LEMMA LintPassStep ==
  ASSUME LayeringTypeOK, Kahn, NEW k \in Nat, LevelsUpTo(k), LintPass
  PROVE  Kahn' /\ LevelsUpTo(k + 1)' /\ LayeringTypeOK'
<1>0. /\ nodes' = nodes /\ edges' = edges /\ Forward' = Forward
      /\ indegree' = TakeAway(frontier) /\ frontier' = Released(frontier)
      /\ UNCHANGED <<pc, searchVars, planVars>>
  BY SameGraph DEF LintPass
<1>1. /\ Kahn' /\ Taken' = Taken \cup frontier
      /\ \A n \in frontier' :
           /\ n \in nodes /\ n \notin Taken'
           /\ \E e \in Into(Forward, n) : e.from \in frontier
           /\ \A e \in Into(Forward, n) : e.from \in Taken'
      /\ indegree' \in [Ids -> Int] /\ frontier' \subseteq nodes
  BY <1>0, KahnPass
<1>2. \A n \in nodes : depth'[n] = Offered(n)
  BY DEF LintPass, LayeringTypeOK
<1>3. \A n \in nodes : depth'[n] = k + 1 \/ depth'[n] = depth[n]
  BY <1>2, OfferedFacts
<1>4. \A n \in frontier' : depth'[n] = k + 1
  BY <1>1, <1>2, OfferedFacts
<1>5. \A n \in Taken' : n \in nodes /\ n \in Taken \cup frontier
                          /\ depth'[n] = depth[n] /\ depth[n] <= k
  <2> SUFFICES ASSUME NEW n \in Taken'
               PROVE  n \in nodes /\ n \in Taken \cup frontier
                        /\ depth'[n] = depth[n] /\ depth[n] <= k
    OBVIOUS
  <2>1. n \in Taken \cup frontier /\ n \in nodes
    BY <1>1 DEF Taken, LayeringTypeOK
  <2>2. \A e \in Into(Forward, n) : e.from \notin frontier
    BY <2>1, NothingAhead DEF Taken
  <2>. QED BY <2>1, <2>2, <1>2, OfferedFacts DEF LevelsUpTo
<1>6. \A n \in Ids : depth'[n] \in Int
  <2> SUFFICES ASSUME NEW n \in Ids PROVE depth'[n] \in Int
    OBVIOUS
  <2>1. CASE n \in nodes
    <3>1. depth'[n] = k + 1 \/ depth'[n] = depth[n]
      BY <2>1, <1>3
    <3>2. depth[n] \in Int /\ k + 1 \in Int
      BY DEF LayeringTypeOK
    <3>. QED BY <3>1, <3>2
  <2>2. CASE n \notin nodes
    BY <2>2 DEF LintPass, LayeringTypeOK
  <2>. QED BY <2>1, <2>2
<1>7. LayeringTypeOK'
  <2>1. depth' \in [Ids -> Int]
    BY <1>6 DEF LintPass
  <2>. QED BY <2>1, <1>0, <1>1 DEF LayeringTypeOK, searchVars, planVars
<1>8. ASSUME NEW n \in Taken' \cup frontier' PROVE Deep(n)'
  <2>0. \A e \in Into(Forward, n) : e.from \in Taken'
    <3>1. CASE n \in Taken'
      BY <3>1, <1>1, NothingAhead
    <3>2. CASE n \in frontier'
      BY <3>2, <1>1
    <3>. QED BY <3>1, <3>2
  <2>1. \A e \in Into(Forward, n) :
          depth'[e.from] = depth[e.from] /\ depth[e.from] <= k
    BY <2>0, <1>5
  <2>2. CASE n \in Taken'
    <3>1. Deep(n) /\ depth'[n] = depth[n]
      BY <2>2, <1>5 DEF LevelsUpTo
    <3>. QED BY <3>1, <2>1, <1>0 DEF Deep, Into
  <2>3. CASE n \in frontier'
    <3>1. depth'[n] = k + 1
      BY <2>3, <1>4
    <3>2. PICK e \in Into(Forward, n) : e.from \in frontier
      BY <2>3, <1>1
    <3>3. depth[e.from] = k
      BY <3>2 DEF LevelsUpTo
    <3>4. \A d \in Into(Forward, n) : depth'[d.from] < depth'[n]
      <4>1. \A d \in Into(Forward, n) : depth[d.from] \in Int
        BY IntoFacts DEF LayeringTypeOK
      <4>. QED BY <4>1, <2>1, <3>1
    <3>5. depth'[e.from] = depth'[n] - 1
      BY <2>1, <3>1, <3>2, <3>3
    <3>6. depth'[n] \in Nat
      BY <3>1
    <3>7. Into(Forward, n)' = Into(Forward, n)
      BY <1>0 DEF Into
    <3>. QED BY <3>2, <3>4, <3>5, <3>6, <3>7 DEF Deep
  <2>. QED BY <2>2, <2>3
<1>9. LevelsUpTo(k + 1)'
  <2>1. \A n \in Taken' : depth'[n] < k + 1
    BY <1>5, <1>6 DEF LayeringTypeOK
  <2>2. \A n \in nodes : depth'[n] <= k + 1
    <3>1. \A n \in nodes : depth[n] \in Int /\ depth[n] <= k
      BY DEF LevelsUpTo, LayeringTypeOK
    <3>. QED BY <3>1, <1>3
  <2>. QED BY <1>0, <1>4, <1>8, <2>1, <2>2 DEF LevelsUpTo
<1>. QED BY <1>1, <1>7, <1>9

----------------------------------------------------------------------------
(* The plan's layers. *)

LEMMA LayersFacts ==
  ASSUME LayeringTypeOK
  PROVE  /\ Len(layers) \in Nat /\ DOMAIN layers = 1 .. Len(layers)
         /\ \A i \in DOMAIN layers : layers[i] \subseteq nodes
BY DEF LayeringTypeOK

(* A layer that is disjoint from the others may be appended. *)
LEMMA AppendLayer ==
  ASSUME LayeringTypeOK, Disjoint, NEW L \in SUBSET nodes, L \cap Planned = {},
         layers' = Append(layers, L)
  PROVE  /\ layers' \in Seq(SUBSET nodes) /\ Len(layers') = Len(layers) + 1
         /\ DOMAIN layers' = 1 .. Len(layers) + 1
         /\ \A i \in 1 .. Len(layers) : layers'[i] = layers[i]
         /\ layers'[Len(layers) + 1] = L
         /\ Planned' = Planned \cup L /\ Disjoint'
<1>1. /\ layers' \in Seq(SUBSET nodes) /\ Len(layers') = Len(layers) + 1
      /\ \A i \in 1 .. Len(layers) : layers'[i] = layers[i]
      /\ layers'[Len(layers) + 1] = L
  BY AppendProperties DEF LayeringTypeOK
<1>2. DOMAIN layers' = 1 .. Len(layers) + 1 /\ Len(layers) \in Nat
  BY <1>1, LayersFacts
<1>3. DOMAIN layers = 1 .. Len(layers)
  BY LayersFacts
<1>4. Planned' = Planned \cup L
  <2>1. ASSUME NEW n \in Planned' PROVE n \in Planned \cup L
    <3>1. PICK i \in 1 .. Len(layers) + 1 : n \in layers'[i]
      BY <1>2 DEF Planned
    <3>2. i \in 1 .. Len(layers) \/ i = Len(layers) + 1
      BY <1>2
    <3>. QED BY <3>1, <3>2, <1>1, <1>3 DEF Planned
  <2>2. ASSUME NEW n \in Planned PROVE n \in Planned'
    <3>1. PICK i \in 1 .. Len(layers) : n \in layers[i]
      BY <1>3 DEF Planned
    <3>2. i \in DOMAIN layers' /\ n \in layers'[i]
      BY <3>1, <1>1, <1>2
    <3>. QED BY <3>2 DEF Planned
  <2>3. ASSUME NEW n \in L PROVE n \in Planned'
    <3>1. Len(layers) + 1 \in DOMAIN layers'
      BY <1>2
    <3>. QED BY <3>1, <1>1 DEF Planned
  <2>. QED BY <2>1, <2>2, <2>3
<1>5. \A i \in 1 .. Len(layers) : layers[i] \cap L = {}
  BY <1>3 DEF Planned
<1>6. Disjoint'
  <2> SUFFICES ASSUME NEW i \in 1 .. Len(layers) + 1, NEW j \in 1 .. Len(layers) + 1,
                      i # j
               PROVE  layers'[i] \cap layers'[j] = {}
    BY <1>2 DEF Disjoint
  <2>1. \/ i \in 1 .. Len(layers) /\ j \in 1 .. Len(layers)
        \/ i = Len(layers) + 1 /\ j \in 1 .. Len(layers)
        \/ i \in 1 .. Len(layers) /\ j = Len(layers) + 1
    BY <1>2
  <2>. QED BY <2>1, <1>1, <1>3, <1>5 DEF Disjoint
<1>. QED BY <1>1, <1>2, <1>4, <1>6

LEMMA PlanPassStep ==
  ASSUME LayeringTypeOK, pc = "plan", InPlan, PlanPass
  PROVE  InPlan' /\ LayeringTypeOK'
<1>0. Kahn /\ placed = Taken /\ Planned = Taken /\ Disjoint /\ Layered
        /\ \A n \in frontier : Follows(n, Len(layers) + 1)
  BY DEF InPlan
<1>1. frontier \ placed = frontier
  BY <1>0 DEF Taken
<1>2. /\ nodes' = nodes /\ edges' = edges /\ Forward' = Forward
      /\ indegree' = TakeAway(frontier) /\ frontier' = Released(frontier)
      /\ layers' = Append(layers, frontier) /\ placed' = placed \cup frontier
      /\ UNCHANGED <<pc, searchVars, depth>>
  BY <1>1, SameGraph DEF PlanPass
<1>3. /\ Kahn' /\ Taken' = Taken \cup frontier
      /\ \A n \in frontier' :
           /\ n \in nodes /\ n \notin Taken'
           /\ \E e \in Into(Forward, n) : e.from \in frontier
           /\ \A e \in Into(Forward, n) : e.from \in Taken'
      /\ indegree' \in [Ids -> Int] /\ frontier' \subseteq nodes
  BY <1>0, <1>2, KahnPass
<1>4. frontier \in SUBSET nodes /\ frontier \cap Planned = {}
  BY <1>0 DEF LayeringTypeOK, Taken
<1>5. /\ layers' \in Seq(SUBSET nodes) /\ Len(layers') = Len(layers) + 1
      /\ DOMAIN layers' = 1 .. Len(layers) + 1
      /\ \A i \in 1 .. Len(layers) : layers'[i] = layers[i]
      /\ layers'[Len(layers) + 1] = frontier
      /\ Planned' = Planned \cup frontier /\ Disjoint'
  BY <1>0, <1>2, <1>4, AppendLayer
<1>6. Len(layers) \in Nat /\ DOMAIN layers = 1 .. Len(layers)
  BY LayersFacts
<1>7. LayeringTypeOK'
  <2>1. placed' \subseteq nodes
    BY <1>2, <1>4 DEF LayeringTypeOK
  <2>. QED BY <2>1, <1>2, <1>3, <1>5 DEF LayeringTypeOK, searchVars
<1>8. \A n : Into(Forward, n)' = Into(Forward, n)
  BY <1>2 DEF Into
<1>9. ASSUME NEW n, NEW j \in 1 .. Len(layers) + 1, Follows(n, j)
      PROVE  Follows(n, j)'
  <2>1. \A i \in 1 .. j - 1 : layers'[i] = layers[i]
    BY <1>5, <1>6
  <2>2. \A e \in Into(Forward, n) : \E i \in 1 .. j - 1 : e.from \in layers'[i]
    BY <1>9, <2>1 DEF Follows
  <2>3. j = 1 \/ \E e \in Into(Forward, n) : e.from \in layers'[j - 1]
    <3>1. j = 1 \/ j - 1 \in 1 .. j - 1
      BY <1>6
    <3>. QED BY <1>9, <2>1, <3>1 DEF Follows
  <2>. QED BY <2>2, <2>3, <1>8 DEF Follows
<1>10. Layered'
  <2> SUFFICES ASSUME NEW j \in 1 .. Len(layers) + 1, NEW n \in layers'[j]
               PROVE  Follows(n, j)'
    BY <1>5 DEF Layered
  <2>1. CASE j = Len(layers) + 1
    BY <2>1, <1>0, <1>5, <1>9
  <2>2. CASE j # Len(layers) + 1
    <3>1. j \in 1 .. Len(layers) /\ n \in layers[j]
      BY <2>2, <1>5, <1>6
    <3>2. Follows(n, j)
      BY <3>1, <1>0, <1>6 DEF Layered
    <3>. QED BY <3>2, <1>9
  <2>. QED BY <2>1, <2>2
<1>11. ASSUME NEW n \in frontier', NEW j \in Nat, j = Len(layers) + 2
       PROVE  Follows(n, j)'
  <2>0. j - 1 = Len(layers) + 1
    BY <1>6, <1>11
  <2>1. ASSUME NEW e \in Into(Forward, n)
        PROVE  \E i \in 1 .. j - 1 : e.from \in layers'[i]
    <3>1. e.from \in Planned'
      BY <1>0, <1>3, <1>5
    <3>. QED BY <2>0, <3>1, <1>5 DEF Planned
  <2>2. \E e \in Into(Forward, n) : e.from \in layers'[j - 1]
    BY <2>0, <1>3, <1>5
  <2>. QED BY <2>1, <2>2, <1>8 DEF Follows
<1>12. ASSUME NEW n \in frontier'
       PROVE  Follows(n, Len(layers) + 1)'
  <2>1. PICK j \in Nat : j = Len(layers) + 2
    BY <1>6
  <2>2. j = Len(layers') + 1
    BY <2>1, <1>5, <1>6
  <2>3. Follows(n, j)'
    BY <2>1, <1>11
  <2>. QED BY <2>2, <2>3
<1>. QED BY <1>0, <1>2, <1>3, <1>5, <1>7, <1>10, <1>12 DEF InPlan

----------------------------------------------------------------------------
(* Each action preserves the invariant. *)

LEMMA SearchingInv ==
  ASSUME LayeringInv,
         (\E n \in Ids : SearchRoot(n)) \/ (\E e \in edges : Descend(e) \/ PassBy(e))
           \/ Return
  PROVE  LayeringInv'
<1>1. LayeringTypeOK /\ SearchInv /\ pc = "search" /\ cycle = <<>>
  BY DEF LayeringInv, InSearch, SearchRoot, Descend, PassBy, Return, Searching
<1>2. /\ UNCHANGED <<nodes, edges, pc, cycle, indegree, frontier, depth, planVars,
                     issues>>
      /\ SearchInv' /\ color' \in [Ids -> {"white", "gray", "black"}]
      /\ stack' \in Seq(nodes) /\ fresh' \subseteq fresh
  <2>1. ASSUME NEW n \in nodes, color[n] = "white", Enter(n)
        PROVE  /\ color' \in [Ids -> {"white", "gray", "black"}]
               /\ stack' \in Seq(nodes)
    BY <1>1, <2>1, AppendProperties DEF Enter, LayeringTypeOK
  <2>2. CASE \E n \in Ids : SearchRoot(n)
    <3>1. PICK n \in Ids : SearchRoot(n)
      BY <2>2
    <3>2. SearchInv'
      BY <1>1, <3>1, EnterStep DEF SearchRoot
    <3>. QED BY <3>1, <3>2, <2>1 DEF SearchRoot
  <2>3. CASE \E e \in edges : Descend(e)
    <3>1. PICK e \in edges : Descend(e)
      BY <2>3
    <3>2. e \in Forward /\ e.from = Top /\ stack # <<>>
      BY <1>1, <3>1, ForwardFacts DEF Descend
    <3>3. SearchInv'
      BY <1>1, <3>1, <3>2, EnterStep DEF Descend
    <3>. QED BY <3>1, <3>3, <2>1 DEF Descend
  <2>4. CASE \E e \in edges : PassBy(e)
    <3>1. PICK e \in edges : PassBy(e)
      BY <2>4
    <3>2. SearchInv'
      BY <1>1, <3>1, PassByStep DEF PassBy
    <3>. QED BY <1>1, <3>1, <3>2 DEF PassBy, LayeringTypeOK
  <2>5. CASE Return
    <3>1. SearchInv'
      BY <1>1, <2>5, ReturnStep
    <3>2. Top \in nodes /\ \A i \in 1 .. Len(stack) - 1 : stack[i] \in nodes
      BY <1>1, <2>5, TopFacts DEF Return
    <3>3. SubSeq(stack, 1, Len(stack) - 1) \in Seq(nodes)
      BY <1>1, <3>2, SubSeqProperties DEF LayeringTypeOK
    <3>. QED BY <1>1, <2>5, <3>1, <3>2, <3>3 DEF Return, LayeringTypeOK
  <2>. QED BY <2>2, <2>3, <2>4, <2>5
<1>3. LayeringTypeOK'
  BY <1>1, <1>2 DEF LayeringTypeOK, planVars
<1>4. CycleCloses' /\ Unplanned'
  BY <1>1, <1>2, SameGraph DEF LayeringInv, CycleCloses, Unplanned, planVars
<1>. QED
  BY <1>1, <1>2, <1>3, <1>4 DEF LayeringInv, InSearch, Verdict, InLint, PastLint,
                                InPlan, IsDone

LEMMA FindCycleInv ==
  ASSUME LayeringInv, NEW e \in edges, FindCycle(e)
  PROVE  LayeringInv'
<1>1. LayeringTypeOK /\ SearchInv /\ pc = "search" /\ e \in fresh
  BY DEF LayeringInv, InSearch, FindCycle, Searching
<1>2. CycleCloses' /\ cycle' \in Seq(nodes) /\ cycle' # <<>>
  BY <1>1, FindCycleStep
<1>3. LayeringTypeOK'
  BY <1>1, <1>2 DEF LayeringTypeOK, FindCycle, planVars
<1>. QED
  BY <1>1, <1>2, <1>3 DEF LayeringInv, FindCycle, InSearch, Verdict, Unplanned,
                          InLint, PastLint, InPlan, IsDone, planVars

LEMMA StopSearchInv ==
  ASSUME LayeringInv, StopSearch
  PROVE  LayeringInv'
<1>0. /\ LayeringTypeOK /\ pc = "search" /\ nodes' = nodes /\ edges' = edges
      /\ UNCHANGED <<searchVars, planVars>>
      /\ (Acyclic' <=> Acyclic) /\ layers = <<>> /\ placed = {}
  <2>1. LayeringTypeOK /\ pc = "search" /\ layers = <<>> /\ placed = {}
    BY DEF LayeringInv, StopSearch, Unplanned
  <2>2. nodes' = nodes /\ edges' = edges /\ UNCHANGED <<searchVars, planVars>>
    BY DEF StopSearch
  <2>. QED BY <2>1, <2>2, SameGraph
<1>1. CycleCloses' /\ Unplanned'
  BY <1>0, SameGraph DEF LayeringInv, CycleCloses, Unplanned, searchVars, planVars
<1>2. "forward_cycle" \notin structuralIssues
  BY DEF structuralIssues
<1>3. CASE cycle # <<>>
  <2>1. ~ Acyclic
    BY <1>0, <1>3, CycleIsCyclic DEF LayeringInv
  <2>2. /\ pc' = "replan" /\ "forward_cycle" \in issues'
        /\ UNCHANGED <<indegree, frontier, depth>>
    BY <1>3 DEF StopSearch
  <2>3. LayeringTypeOK'
    BY <1>0, <2>2 DEF LayeringTypeOK, searchVars, planVars
  <2>. QED
    BY <1>0, <1>1, <2>1, <2>2, <2>3 DEF LayeringInv, InSearch, Verdict, Vetted,
         InLint, PastLint, Linted, InPlan, IsDone
<1>4. CASE cycle = <<>>
  <2>1. Acyclic
    BY <1>0, <1>4, NoCycleLeft DEF LayeringInv, InSearch, StopSearch
  <2>2. /\ pc' = "lint" /\ "forward_cycle" \notin issues' /\ StartLayering
        /\ depth' = [n \in Ids |->
             IF n \in nodes /\ Into(Forward, n) = {} THEN 0 ELSE NoLayer]
    BY <1>2, <1>4 DEF StopSearch
  <2>3. /\ Kahn' /\ Taken' = {}
        /\ \A n \in frontier' : n \in nodes /\ Into(Forward, n) = {}
        /\ indegree' \in [Ids -> Int] /\ frontier' \subseteq nodes
    BY <1>0, <2>2, StartKahn
  <2>4. /\ depth' \in [Ids -> Int]
        /\ \A n \in nodes : depth'[n] \in {-1, 0}
        /\ \A n \in frontier' : depth'[n] = 0
    BY <1>0, <2>2, <2>3 DEF NoLayer, LayeringTypeOK
  <2>5. LayeringTypeOK'
    BY <1>0, <2>2, <2>3, <2>4 DEF LayeringTypeOK, searchVars, planVars
  <2>6. LevelsUpTo(0)'
    <3>1. ASSUME NEW n \in frontier' PROVE Deep(n)'
      <4>1. Into(Forward, n)' = {} /\ depth'[n] = 0
        BY <1>0, <2>3, <2>4, SameGraph DEF Into
      <4>. QED BY <4>1 DEF Deep
    <3>2. \A n \in nodes' : depth'[n] <= 0
      BY <1>0, <2>4
    <3>. QED BY <2>3, <2>4, <3>1, <3>2 DEF LevelsUpTo
  <2>7. InLint'
    BY <2>2, <2>3, <2>6 DEF InLint, Vetted
  <2>. QED
    BY <1>0, <1>1, <2>1, <2>2, <2>5, <2>7 DEF LayeringInv, InSearch, Verdict, Vetted,
         PastLint, InPlan, IsDone
<1>. QED BY <1>3, <1>4

LEMMA LintPassInv ==
  ASSUME LayeringInv, LintPass
  PROVE  LayeringInv'
<1>1. LayeringTypeOK /\ pc = "lint" /\ Vetted /\ Kahn /\ Verdict /\ Unplanned
  BY DEF LayeringInv, InLint, LintPass
<1>2. PICK k \in Nat : LevelsUpTo(k)
  BY <1>1 DEF LayeringInv, InLint
<1>3. Kahn' /\ LevelsUpTo(k + 1)' /\ LayeringTypeOK'
  BY <1>1, <1>2, LintPassStep
<1>4. UNCHANGED <<nodes, edges, pc, searchVars, planVars, issues>>
  BY DEF LintPass
<1>5. CycleCloses' /\ Unplanned' /\ Verdict'
  BY <1>1, <1>4, SameGraph DEF LayeringInv, CycleCloses, Unplanned, Verdict, Vetted,
                               searchVars, planVars
<1>6. InLint'
  <2>1. k + 1 \in Nat /\ Vetted'
    BY <1>1, <1>4 DEF Vetted
  <2>2. PICK j \in Nat : j = k + 1
    BY <2>1
  <2>3. LevelsUpTo(j)'
    BY <1>3, <2>2
  <2>. QED BY <1>3, <2>1, <2>3 DEF InLint
<1>. QED BY <1>1, <1>3, <1>4, <1>5, <1>6 DEF LayeringInv, InSearch, PastLint, InPlan,
                                             IsDone

LEMMA LintDoneInv ==
  ASSUME LayeringInv, LintDone
  PROVE  LayeringInv'
<1>1. /\ LayeringTypeOK /\ pc = "lint" /\ Vetted /\ Kahn /\ frontier = {} /\ Acyclic
      /\ Unplanned
  BY DEF LayeringInv, InLint, LintDone, Verdict
<1>2. PICK k \in Nat : LevelsUpTo(k)
  BY <1>1 DEF LayeringInv, InLint
<1>3. Taken = nodes
  BY <1>1, AllTaken
<1>4. /\ UNCHANGED <<nodes, edges, searchVars, indegree, frontier, depth, planVars>>
      /\ pc' = "replan"
      /\ issues' = issues \cup
           (IF \E a \in Artifacts : SameLayer(Produces[a] \cap nodes)
            THEN {"duplicate_writer"} ELSE {})
  BY DEF LintDone
<1>5. CycleCloses' /\ Unplanned' /\ Acyclic' /\ Vetted' /\ LayeringTypeOK'
  <2>1. Acyclic' /\ CycleCloses'
    BY <1>1, <1>4, SameGraph DEF LayeringInv, CycleCloses, searchVars
  <2>2. Unplanned' /\ Vetted'
    BY <1>1, <1>4 DEF Unplanned, Vetted, planVars
  <2>. QED BY <1>1, <1>4, <2>1, <2>2 DEF LayeringTypeOK, searchVars, planVars
<1>6. Linted'
  <2>1. \A n \in nodes : Deep(n)'
    <3>1. \A n \in nodes : Deep(n)
      BY <1>2, <1>3 DEF LevelsUpTo
    <3>2. depth' = depth /\ Forward' = Forward
      BY <1>4, SameGraph
    <3>. QED BY <3>1, <3>2 DEF Deep, Into
  <2>2. ASSUME "duplicate_writer" \notin issues'
        PROVE  \A a \in Artifacts : ~ SameLayer(Produces[a] \cap nodes)'
    <3>1. \A a \in Artifacts : ~ SameLayer(Produces[a] \cap nodes)
      BY <1>4, <2>2
    <3>. QED BY <3>1, <1>4 DEF SameLayer
  <2>. QED BY <1>4, <2>1, <2>2 DEF Linted
<1>. QED BY <1>4, <1>5, <1>6 DEF LayeringInv, InSearch, Verdict, InLint, PastLint,
                                 InPlan, IsDone

(* What lint found stands while the graph, its depths and issues do. *)
LEMMA SameLinted ==
  ASSUME Linted, nodes' = nodes, edges' = edges, depth' = depth, issues' = issues
  PROVE  Linted'
<1>1. \A n : Into(Forward, n)' = Into(Forward, n)
  BY SameGraph DEF Into
<1>2. \A n : Deep(n)' <=> Deep(n)
  BY <1>1 DEF Deep
<1>3. \A a \in Artifacts :
        SameLayer(Produces[a] \cap nodes)' <=> SameLayer(Produces[a] \cap nodes)
  BY DEF SameLayer
<1>. QED BY <1>2, <1>3 DEF Linted, Vetted

LEMMA StartPlanInv ==
  ASSUME LayeringInv, StartPlan
  PROVE  LayeringInv'
<1>1. /\ LayeringTypeOK /\ pc = "replan" /\ layers = <<>> /\ placed = {}
      /\ Verdict /\ Linted
  BY DEF LayeringInv, StartPlan, Unplanned, PastLint
<1>2. /\ UNCHANGED <<nodes, edges, searchVars, depth, planVars, issues>>
      /\ pc' = "plan" /\ StartLayering /\ Forward' = Forward /\ (Acyclic' <=> Acyclic)
  <2>1. /\ UNCHANGED <<nodes, edges, searchVars, depth, planVars, issues>>
        /\ pc' = "plan" /\ StartLayering
    BY DEF StartPlan
  <2>. QED BY <2>1, SameGraph
<1>3. /\ Kahn' /\ Taken' = {}
      /\ \A n \in frontier' : n \in nodes /\ Into(Forward, n) = {}
      /\ indegree' \in [Ids -> Int] /\ frontier' \subseteq nodes
  BY <1>1, <1>2, StartKahn
<1>4. CycleCloses' /\ Verdict' /\ LayeringTypeOK'
  BY <1>1, <1>2, <1>3 DEF LayeringInv, CycleCloses, Verdict, Vetted, LayeringTypeOK,
                          searchVars, planVars
<1>5. Linted'
  BY <1>1, <1>2, SameLinted
<1>6. layers' = <<>> /\ placed' = {}
  BY <1>1, <1>2 DEF planVars
<1>7. Planned' = {} /\ Disjoint' /\ Layered'
  BY <1>6 DEF Planned, Disjoint, Layered
<1>8. ASSUME NEW n \in frontier' PROVE Follows(n, Len(layers) + 1)'
  <2>1. Into(Forward, n)' = {}
    BY <1>2, <1>3 DEF Into
  <2>2. Len(layers') + 1 = 1
    BY <1>6
  <2>. QED BY <2>1, <2>2 DEF Follows
<1>9. InPlan'
  BY <1>3, <1>6, <1>7, <1>8 DEF InPlan
<1>. QED BY <1>2, <1>4, <1>5, <1>9 DEF LayeringInv, InSearch, Unplanned, InLint,
                                       PastLint, IsDone

LEMMA PlanPassInv ==
  ASSUME LayeringInv, PlanPass
  PROVE  LayeringInv'
<1>1. LayeringTypeOK /\ pc = "plan" /\ InPlan /\ Verdict /\ Linted
  BY DEF LayeringInv, PlanPass, PastLint
<1>2. InPlan' /\ LayeringTypeOK'
  BY <1>1, PlanPassStep
<1>3. /\ UNCHANGED <<nodes, edges, pc, searchVars, depth, issues>>
      /\ Forward' = Forward /\ (Acyclic' <=> Acyclic)
  <2>1. UNCHANGED <<nodes, edges, pc, searchVars, depth, issues>>
    BY DEF PlanPass
  <2>. QED BY <2>1, SameGraph
<1>4. CycleCloses' /\ Verdict'
  BY <1>1, <1>3 DEF LayeringInv, CycleCloses, Verdict, Vetted, searchVars
<1>5. Linted'
  BY <1>1, <1>3, SameLinted
<1>. QED BY <1>1, <1>2, <1>3, <1>4, <1>5 DEF LayeringInv, InSearch, Unplanned, InLint,
                                             PastLint, IsDone

LEMMA PlanDoneInv ==
  ASSUME LayeringInv, PlanDone
  PROVE  LayeringInv'
<1>1. /\ LayeringTypeOK /\ pc = "plan" /\ Verdict /\ Linted /\ frontier = {}
      /\ Kahn /\ placed = Taken /\ Planned = Taken /\ Disjoint /\ Layered
  BY DEF LayeringInv, PlanDone, PastLint, InPlan
<1>2. /\ UNCHANGED <<nodes, edges, searchVars, indegree, frontier, depth, placed,
                     issues>>
      /\ pc' = "done" /\ Forward' = Forward /\ (Acyclic' <=> Acyclic)
  <2>1. /\ UNCHANGED <<nodes, edges, searchVars, indegree, frontier, depth, placed,
                       issues>>
        /\ pc' = "done"
    BY DEF PlanDone
  <2>. QED BY <2>1, SameGraph
<1>3. CycleCloses' /\ Verdict'
  BY <1>1, <1>2 DEF LayeringInv, CycleCloses, Verdict, Vetted, searchVars
<1>4. Linted'
  BY <1>1, <1>2, SameLinted
<1>5. layers' \in Seq(SUBSET nodes) /\ Planned' = nodes /\ Disjoint'
        /\ (Vetted' => Layered')
  <2>1. CASE placed = nodes
    <3>1. layers' = layers
      BY <2>1 DEF PlanDone
    <3>2. Layered'
      BY <3>1, <1>1, <1>2 DEF Layered, Follows, Into
    <3>. QED BY <2>1, <3>1, <3>2, <1>1 DEF LayeringTypeOK, Planned, Disjoint
  <2>2. CASE placed # nodes
    <3>1. layers' = Append(layers, nodes \ placed)
      BY <2>2 DEF PlanDone
    <3>2. ~ Vetted'
      BY <2>2, <1>1, <1>2, AllTaken DEF Verdict, Vetted
    <3>3. nodes \ placed \in SUBSET nodes /\ (nodes \ placed) \cap Planned = {}
      BY <1>1
    <3>4. /\ layers' \in Seq(SUBSET nodes)
          /\ Planned' = Planned \cup (nodes \ placed) /\ Disjoint'
      BY <1>1, <3>1, <3>3, AppendLayer
    <3>. QED BY <3>2, <3>4, <1>1 DEF Taken
  <2>. QED BY <2>1, <2>2
<1>6. LayeringTypeOK' /\ IsDone'
  BY <1>1, <1>2, <1>5 DEF LayeringTypeOK, IsDone, searchVars
<1>. QED BY <1>2, <1>3, <1>4, <1>6 DEF LayeringInv, InSearch, Unplanned, InLint,
                                       PastLint, InPlan

LEMMA NextInv ==
  ASSUME LayeringInv, [Next]_vars
  PROVE  LayeringInv'
<1>1. CASE Search
  BY <1>1, SearchingInv, FindCycleInv, StopSearchInv DEF Search
<1>2. CASE LintPass
  BY <1>2, LintPassInv
<1>3. CASE LintDone
  BY <1>3, LintDoneInv
<1>4. CASE StartPlan
  BY <1>4, StartPlanInv
<1>5. CASE PlanPass
  BY <1>5, PlanPassInv
<1>6. CASE PlanDone
  BY <1>6, PlanDoneInv
<1>7. CASE UNCHANGED vars
  <2>1. /\ nodes' = nodes /\ edges' = edges /\ pc' = pc /\ color' = color
        /\ stack' = stack /\ fresh' = fresh /\ cycle' = cycle
        /\ indegree' = indegree /\ frontier' = frontier /\ depth' = depth
        /\ placed' = placed /\ layers' = layers /\ issues' = issues
    BY <1>7 DEF vars, searchVars, planVars
  <2>2. Forward' = Forward /\ (Acyclic' <=> Acyclic)
    BY <2>1, SameGraph
  <2>3. LayeringTypeOK' /\ CycleCloses'
    BY <2>1, <2>2 DEF LayeringInv, LayeringTypeOK, CycleCloses
  <2>4. InSearch'
    <3>1. Black' = Black
      BY <2>1 DEF Black
    <3>2. SearchInv' <=> SearchInv
      BY <2>1, <2>2, <3>1 DEF SearchInv, GrayStack, Chained, Closed, Explored, AcyclicOn
    <3>. QED BY <2>1, <3>2 DEF LayeringInv, InSearch
  <2>5. Verdict' /\ Unplanned'
    BY <2>1, <2>2 DEF LayeringInv, Verdict, Vetted, Unplanned
  <2>6. Taken' = Taken /\ \A n : Into(Forward, n)' = Into(Forward, n)
    BY <2>1, <2>2 DEF Taken, Into
  <2>7. Kahn' <=> Kahn
    BY <2>1, <2>6 DEF Kahn, Waiting
  <2>8. \A n : Deep(n)' <=> Deep(n)
    BY <2>1, <2>6 DEF Deep
  <2>9. InLint'
    BY <2>1, <2>6, <2>7, <2>8 DEF LayeringInv, InLint, Vetted, LevelsUpTo
  <2>10. PastLint'
    BY <2>1, <2>8 DEF LayeringInv, PastLint, Linted, Vetted, SameLayer
  <2>11. Planned' = Planned /\ (Disjoint' <=> Disjoint)
    BY <2>1 DEF Planned, Disjoint
  <2>12. \A n, j : Follows(n, j)' <=> Follows(n, j)
    BY <2>1, <2>6 DEF Follows
  <2>13. InPlan' /\ IsDone'
    BY <2>1, <2>6, <2>7, <2>11, <2>12 DEF LayeringInv, InPlan, IsDone, Layered, Vetted
  <2>. QED BY <2>3, <2>4, <2>5, <2>9, <2>10, <2>13 DEF LayeringInv
<1>. QED BY <1>1, <1>2, <1>3, <1>4, <1>5, <1>6, <1>7 DEF Next

LEMMA Invariance == Spec => []LayeringInv
<1>1. Init => LayeringInv
  BY InitInv
<1>2. LayeringInv /\ [Next]_vars => LayeringInv'
  BY NextInv
<1>. QED BY <1>1, <1>2, PTL DEF Spec

----------------------------------------------------------------------------
(* What the invariant says of the results. *)

(* lint and plan put a node at the same depth: each puts it right behind    *)
(* the last of its predecessors.  Of the nodes on which they differed one  *)
(* would have no predecessor among them.                                   *)
LEMMA SameDepth ==
  ASSUME LayeringTypeOK, Acyclic, Disjoint, Layered, \A n \in nodes : Deep(n),
         Planned = nodes,
         NEW j \in DOMAIN layers, NEW n \in layers[j]
  PROVE  depth[n] = j - 1
<1> DEFINE Differ == {m \in nodes : \E i \in DOMAIN layers :
                                      m \in layers[i] /\ depth[m] # i - 1}
<1> SUFFICES ASSUME n \in Differ PROVE FALSE
  BY LayersFacts
<1>1. PICK m \in Differ : \A e \in Forward : e.to = m => e.from \notin Differ
  BY DEF Acyclic
<1>2. PICK i \in DOMAIN layers : m \in nodes /\ m \in layers[i] /\ depth[m] # i - 1
  OBVIOUS
<1>3. i \in Nat /\ i >= 1 /\ \A h \in 1 .. i - 1 : h \in DOMAIN layers
  BY LayersFacts
<1>4. Follows(m, i) /\ Deep(m)
  BY <1>2 DEF Layered
<1>5. ASSUME NEW e \in Into(Forward, m), NEW h \in 1 .. i - 1, e.from \in layers[h]
      PROVE  depth[e.from] = h - 1
  <2>1. e \in Forward /\ e.to = m /\ e.from \in nodes
    BY IntoFacts
  <2>2. e.from \notin Differ
    BY <1>1, <2>1
  <2>. QED BY <1>3, <1>5, <2>1, <2>2
<1>6. \A e \in Into(Forward, m) : depth[e.from] \in Int /\ depth[e.from] <= i - 2
  <2> SUFFICES ASSUME NEW e \in Into(Forward, m)
               PROVE  depth[e.from] \in Int /\ depth[e.from] <= i - 2
    OBVIOUS
  <2>1. PICK h \in 1 .. i - 1 : e.from \in layers[h]
    BY <1>4 DEF Follows
  <2>2. depth[e.from] = h - 1
    BY <1>5, <2>1
  <2>. QED BY <1>3, <2>1, <2>2
<1>7. depth[m] \in Nat
  BY <1>4 DEF Deep
<1>8. depth[m] <= i - 1
  <2>1. CASE depth[m] = 0
    BY <2>1, <1>3
  <2>2. CASE \E e \in Into(Forward, m) : depth[e.from] = depth[m] - 1
    BY <2>2, <1>3, <1>6, <1>7
  <2>. QED BY <1>4, <2>1, <2>2 DEF Deep
<1>9. depth[m] >= i - 1
  <2>1. CASE i = 1
    BY <2>1, <1>7
  <2>2. CASE i # 1
    <3>1. PICK e \in Into(Forward, m) : e.from \in layers[i - 1]
      BY <1>4, <2>2 DEF Follows
    <3>2. i - 1 \in 1 .. i - 1
      BY <1>3, <2>2
    <3>3. depth[e.from] = (i - 1) - 1
      BY <1>5, <3>1, <3>2
    <3>4. depth[e.from] < depth[m]
      BY <1>4 DEF Deep
    <3>. QED BY <1>3, <1>7, <3>3, <3>4
  <2>. QED BY <2>1, <2>2
<1>. QED BY <1>2, <1>3, <1>7, <1>8, <1>9

LEMMA ResultsSound ==
  ASSUME LayeringInv
  PROVE  CycleExact /\ PlanIsALayering /\ SingleWriterPlanned
<1>1. LayeringTypeOK
  BY DEF LayeringInv
<1>2. CycleExact
  BY DEF LayeringInv, CycleExact, CycleCloses, Verdict, Vetted
<1>3. Disjoint
  <2>1. CASE pc \in {"search", "lint", "replan"}
    BY <2>1 DEF LayeringInv, Unplanned, Disjoint
  <2>2. CASE pc \in {"plan", "done"}
    BY <2>2 DEF LayeringInv, InPlan, IsDone
  <2>. QED BY <1>1, <2>1, <2>2 DEF LayeringTypeOK
<1>4. ASSUME pc = "done", Vetted, NEW e \in Forward,
             NEW i \in DOMAIN layers, NEW j \in DOMAIN layers,
             e.from \in layers[i], e.to \in layers[j]
      PROVE  i < j
  <2>1. e \in Into(Forward, e.to)
    BY DEF Into
  <2>2. Follows(e.to, j)
    BY <1>4 DEF LayeringInv, IsDone, Layered
  <2>3. PICK h \in 1 .. j - 1 : e.from \in layers[h]
    BY <2>1, <2>2 DEF Follows
  <2>4. j \in Nat /\ h \in DOMAIN layers
    BY <1>1, <2>3, LayersFacts
  <2>5. h = i
    BY <1>3, <1>4, <2>3, <2>4 DEF Disjoint
  <2>. QED BY <2>3, <2>4, <2>5
<1>5. PlanIsALayering
  BY <1>3, <1>4 DEF LayeringInv, IsDone, Planned, Disjoint, Vetted, PlanIsALayering
<1>6. SingleWriterPlanned
  <2> SUFFICES ASSUME pc = "done", issues = {}, NEW a \in Artifacts,
                      NEW i \in DOMAIN layers,
                      NEW m \in Produces[a] \cap layers[i],
                      NEW n \in Produces[a] \cap layers[i], m # n
               PROVE  FALSE
    BY DEF SingleWriterPlanned
  <2>1. Vetted /\ Acyclic /\ Layered /\ Linted /\ Planned = nodes
    BY DEF LayeringInv, IsDone, Verdict, PastLint, Vetted
  <2>2. (\A p \in nodes : Deep(p)) /\ ~ SameLayer(Produces[a] \cap nodes)
    BY <2>1 DEF Linted
  <2>3. depth[m] = i - 1 /\ depth[n] = i - 1
    BY <1>1, <1>3, <2>1, <2>2, SameDepth
  <2>4. m \in nodes /\ n \in nodes
    BY <1>1, LayersFacts
  <2>5. depth[m] # NoLayer
    BY <2>2, <2>4 DEF Deep, NoLayer
  <2>. QED BY <2>2, <2>3, <2>4, <2>5 DEF SameLayer
<1>. QED BY <1>2, <1>5, <1>6

(* The search keeps its stack, colors and cycle, and the layering loops     *)
(* their degrees, depths and layers, within the candidate's nodes.         *)
THEOREM LayeringTypeCorrect == Spec => []LayeringTypeOK
<1>1. LayeringInv => LayeringTypeOK
  BY DEF LayeringInv
<1>. QED BY <1>1, Invariance, PTL

(* findForwardCycle, whatever order it meets the neighbours in, reports a   *)
(* cycle exactly when there is one, and what it reports is one.            *)
THEOREM LayeringCycleExact == Spec => []CycleExact
<1>. QED BY ResultsSound, Invariance, PTL

(* plan puts every node in exactly one layer, rejected graphs included, and *)
(* every forward edge of an accepted one leads to a later layer.           *)
THEOREM LayeringPlanIsALayering == Spec => []PlanIsALayering
<1>. QED BY ResultsSound, Invariance, PTL

(* Nodes that plan runs side by side are in one layer of kahnLayers, too,   *)
(* so that a spec lint accepts never runs two writers of an artifact at    *)
(* once.                                                                   *)
THEOREM LayeringSingleWriterPlanned == Spec => []SingleWriterPlanned
<1>. QED BY ResultsSound, Invariance, PTL

=============================================================================
