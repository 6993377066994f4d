\* Two flows, two events, one broken socket, two user actions.
SPECIFICATION FairSpec
CONSTANTS
  f1 = f1 f2 = f2
  Flows = {f1, f2}
  None = None
  MaxLog = 2
  MaxDrops = 1
  MaxClicks = 2
INVARIANTS FoldedOnce LiveTailComplete RailFollowsLog
PROPERTY ComesBack
CHECK_DEADLOCK FALSE
