SPECIFICATION CalmSpec
CONSTANTS
  session = session
  tool = tool
  p1 = p1
  p2 = p2
  r1 = r1
  r2 = r2
  Absent = Absent
  None = None
  Files <- MCFiles
  Extras <- MCExtras
  Contents <- MCTwoContents
  Bundles <- MCPair
  PreviewIds = {p1, p2}
  RestoreIds = {r1, r2}
  MaxFaults = 1
SYMMETRY MCSymmetry
INVARIANTS OneUnfinished Recoverable
PROPERTIES JournalLifecycle RolledBackIsExact NothingLost AllOrNothing
