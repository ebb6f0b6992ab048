SPECIFICATION DeliverySpec
CONSTANTS
  d1 = d1
  j1 = j1
  j2 = j2
  None = None
  Devices = {d1}
  Me = d1
  Jobs = {j1, j2}
  Snapshots = {}
  Kinds = {"export"}
  MaxFaults = 1
  MaxTroubles = 4
  MaxStale = 2
SYMMETRY MCSymmetry
INVARIANTS RunsAtMostOnce
CHECK_DEADLOCK FALSE
