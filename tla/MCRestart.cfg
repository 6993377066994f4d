\* One flow, two runs, each of which may cost what it reserved; two cycles,
\* three boots; the cap leaves room for two runs.
SPECIFICATION FairSpec
CONSTANTS
  f1 = f1 r1 = r1 r2 = r2
  Flows = {f1}
  Runs = {r1, r2}
  Costs = {1}
  WorstCase = 1
  Cap = 2
  DryRuns = {None, f1}
  None = None
  FakeMode = FALSE
  MaxCycle = 2
  MaxBoots = 3
INVARIANTS OnlyLiveRunsOpen CycleNumbersRise ShownIsHeld MeterIsLog SpawnsAreAuthed
CHECK_DEADLOCK FALSE
PROPERTY BootNotWedged
