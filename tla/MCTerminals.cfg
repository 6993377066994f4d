\* Two runs side by side, with every abort, timeout, exit code and teardown; the
\* terminal of the first is linked by the second and opened by a browser.
SPECIFICATION TerminalsSpec
CONSTANTS
  r1 = r1 r2 = r2 p1 = p1 p2 = p2
  Panes = {p1, p2}
  Runs = {r1, r2}
  PaneOf <- TwoPanes
  Links <- OneLink
  Killable = {p1, p2}
  Viewed = {p1}
  Abortable = {r1, r2}
  MaxSeq = 1
INVARIANT AbortedIsKilled
PROPERTIES OkIsEarned EveryCallReturns
CHECK_DEADLOCK FALSE
