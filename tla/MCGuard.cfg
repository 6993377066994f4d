\* One flow: three runs, two metrics whose caps bind in turn, two cycles with two
\* artifact contents; every order of admissions, meters, releases, switches and
\* gates.
SPECIFICATION Spec
CONSTANTS
  f1 = f1 r1 = r1 r2 = r2 r3 = r3 cheap = cheap dear = dear
  usd = usd tokens = tokens h1 = h1 h2 = h2
  Flows = {f1}
  Runs = {r1, r2, r3}
  Models = {cheap, dear}
  Metrics = {usd, tokens}
  WorstCase <- Worst
  RunCap <- RunLimit
  FlowCap <- FlowLimit
  BootSpend <- Boot
  MaxConcurrent <- Two
  MaxCyclesPerArm <- Two
  ConvergenceWindow <- Two
  Hashes = {h1, h2}
  Deltas <- Usage
  MaxExcess = 3
  MaxCycleNo = 2
SYMMETRY Sym
INVARIANTS KilledIsQuiet OverCapIsAborted FlowCapHeld BarrenNeverOvercounts
