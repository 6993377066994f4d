\* One flow, two commands at a time, three commands over all boots, three versions.
SPECIFICATION StoreSpec
CONSTANTS
  f1 = f1 o1 = o1 o2 = o2
  skeleton = skeleton timed = timed cyclic = cyclic
  Flows = {f1}
  Ops = {o1, o2}
  Topologies = {skeleton, timed, cyclic}
  Accepted = {skeleton, timed}
  Skeleton = skeleton
  Retriggered <- Swap
  None = None Broken = Broken Header = Header
  MaxVersion = 3
  MaxCommands = 3
SYMMETRY Symmetry
INVARIANTS NoTextLost SettledAgree
PROPERTY VersionsRise
CHECK_DEADLOCK FALSE
