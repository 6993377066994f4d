\* Two runs side by side, each the first in its pane.
SPECIFICATION TerminalsSpec
CONSTANTS
  r1 = r1 r2 = r2 p1 = p1 p2 = p2
  Panes = {p1, p2}
  Runs = {r1, r2}
  PaneOf <- TwoPanes
  Links <- OneLink
  Killable = {}
  Viewed = {}
  Abortable = {}
  MaxSeq = 1
INVARIANT SettledByOwn
CHECK_DEADLOCK FALSE
