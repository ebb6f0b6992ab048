SPECIFICATION FairDeliverySpec
CONSTANTS
  d1 = d1
  j1 = j1
  j2 = j2
  None = None
  Devices = {d1}
  Me = d1
  Jobs = {j1, j2}
  Snapshots = {}
  Kinds = {"export"}
  MaxFaults = 0
  MaxTroubles = 6
  MaxStale = 2
INVARIANTS RunsAtMostOnce ReportsAreTrue CancelledNeverRuns
PROPERTIES JobsAreSettled
CHECK_DEADLOCK FALSE
