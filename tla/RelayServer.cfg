SPECIFICATION BindingsSpec
CONSTANTS
  d1 = d1
  d2 = d2
  j1 = j1
  j2 = j2
  j3 = j3
  s1 = s1
  p1 = p1
  p2 = p2
  x1 = x1
  x2 = x2
  b1 = b1
  b2 = b2
  None = None
  Devices = {d1, d2}
  Jobs = {j1, j2, j3}
  Snapshots = {s1}
  Kinds = {"preview", "restore", "rollback"}
  Projects = {p1, p2}
  Paths = {x1, x2}
  BindingIds = {b1, b2}
  MaxBindings = 2
  MaxFaults = 1
SYMMETRY MCSymmetry
INVARIANTS OneActiveJobPerDevice RestoresAreGrounded OneCounterpart BindingsAreDurable
PROPERTIES StatusOnlyAdvances
CHECK_DEADLOCK FALSE
