\* Fake runs that meter their usage, overshoot and fold artifact hashes, in a flow
\* that reviews each of its up to two cycles a firing; turns, runs and pane
\* teardowns are fair, users and triggers are not.
SPECIFICATION FairSpec
CONSTANTS
  f1 = f1 f2 = f2 na = na nb = nb nc = nc opus = opus usd = usd h1 = h1
  Flows = {f1}
  Nodes = {na, nb}
  Runs <- NodeRuns
  Models = {opus}
  Metrics <- OneMetric
  WorstCase <- Worst
  RunCap <- RunLimit
  FlowCap <- LooseFlowLimit
  BootSpend <- NoSpend
  MaxConcurrent <- Two
  MaxCyclesPerArm <- Two
  ConvergenceWindow <- One
  Hashes <- Contents
  Deltas <- Overshoot
  MaxExcess = 2
  MaxCycleNo = 3
  Layers <- ChainLayers
  Preds <- ChainPreds
  Producers = {na}
  Unsafe = {nb}
  Unreadable = {na}
  Review = {f1}
  Scheduled = {f1}
  ModelOf <- AnyModel
  FakeRunner = TRUE
INVARIANTS ConvergedWroteNothingNew AwaitingIsQuiescent RodandoIsRunning
PROPERTIES CycleEnds
