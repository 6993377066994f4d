\* Terminal runs: a fan-out of two and a join, auto mode, firings of up to
\* two cycles each, three cycles in all.
SPECIFICATION OrchestratorSpec
CONSTANTS
  f1 = f1 f2 = f2 na = na nb = nb nc = nc opus = opus usd = usd h1 = h1
  Flows = {f1}
  Nodes = {na, nb, nc}
  Runs <- NodeRuns
  Models = {opus}
  Metrics <- OneMetric
  WorstCase <- Worst
  RunCap <- RunLimit
  FlowCap <- FlowLimit
  BootSpend <- NoSpend
  MaxConcurrent <- Two
  MaxCyclesPerArm <- Two
  ConvergenceWindow <- Three
  Hashes = {h1}
  Deltas = {}
  MaxExcess = 0
  MaxCycleNo = 3
  Layers <- JoinLayers
  Preds <- JoinPreds
  Producers = {na}
  Unsafe = {nb}
  Unreadable = {na}
  Review = {}
  Scheduled = {}
  ModelOf <- AnyModel
  FakeRunner = FALSE
INVARIANTS NoLeaseLeak BarrierRespected KilledRunEndsCycle
PROPERTIES ImplementsFiring
