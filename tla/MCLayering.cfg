\* Lint and plan over small graphs.
SPECIFICATION Spec
CONSTANTS
  a = a b = b c = c d = d art = art
  Ids = {a, b, c, d}
  NodeSets <- AllOrBut
  EdgeSets <- Graphs
  Triggers = {a}
  Artifacts = {art}
  Produces <- Writers
INVARIANTS CycleExact PlanIsALayering SingleWriterPlanned
CHECK_DEADLOCK FALSE
