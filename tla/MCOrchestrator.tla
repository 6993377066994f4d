--------------------------- MODULE MCOrchestrator ---------------------------
(* Instances of Orchestrator for TLC. *)
EXTENDS Orchestrator, TLC

CONSTANTS f1, f2, na, nb, nc, opus, usd, h1

NodeRuns == Flows \X Nodes \X (1 .. MaxCycleNo)
One == [f \in Flows |-> 1]
Two == [f \in Flows |-> 2]
Three == [f \in Flows |-> 3]

(* One model that reserves 2; the flow cap leaves room for two runs. *)
OneMetric == {usd}
AnyModel == [n \in Nodes |-> opus]
Worst == opus :> (usd :> 2)
RunLimit == [f \in Flows |-> usd :> 2]
FlowLimit == [f \in Flows |-> usd :> 4]
LooseFlowLimit == [f \in Flows |-> usd :> 5]
NoSpend == [f \in Flows |-> usd :> 0]
Overshoot == {usd :> 1, usd :> 3}

Contents == Nodes \X (1 .. MaxCycleNo)

(* na and nb fan out, nc joins them. *)
JoinLayers == [f \in Flows |-> << {na, nb}, {nc} >>]
JoinPreds == [f \in Flows |-> [n \in Nodes |-> IF n = nc THEN {na, nb} ELSE {}]]

(* na feeds nb. *)
ChainLayers == [f \in Flows |-> << {na}, {nb} >>]
ChainPreds == [f \in Flows |-> [n \in Nodes |-> IF n = nb THEN {na} ELSE {}]]
=============================================================================
