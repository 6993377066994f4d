\* Two browsers on a flow of a Trigger and an agent, with room for one more.
SPECIFICATION Spec
CONSTANTS
  u1 = u1 u2 = u2 trig = trig a = a b = b
  Users = {u1, u2}
  Nodes = {trig, a, b}
  Triggers = {trig}
  Stored = {trig, a}
  None = None
  MaxEdits = 4
  MaxDrops = 1
INVARIANTS SpecSound CopiesAgree
SYMMETRY Symmetry
CHECK_DEADLOCK FALSE
