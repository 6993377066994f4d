\* Two writes of two flows that may share a directory; one engine stop.
SPECIFICATION FairSpec
CONSTANTS
  f1 = f1 f2 = f2 c1 = c1 c2 = c2 p1 = p1 up = up t1 = t1 t2 = t2 s = s w = w
  o = o
  Flows = {f1, f2}
  Paths = {p1, up}
  Safe = {p1}
  Own <- Owns
  Texts = {t1, t2}
  Sandbox <- Shared
  WorkDirs <- OneMoves
  Calls = {c1, c2}
  None = None
  MaxStops = 1
INVARIANT EventsMatchFiles
PROPERTY EveryWriteSettles
CHECK_DEADLOCK FALSE
