SPECIFICATION FairCalmSpec
CONSTANTS
  session = session
  tool = tool
  p1 = p1
  p2 = p2
  r1 = r1
  r2 = r2
  Absent = Absent
  None = None
  Files <- MCFiles
  Extras <- MCExtras
  Contents <- MCContents
  Bundles <- MCBundles
  PreviewIds = {p1}
  RestoreIds = {r1}
  MaxFaults = 1

PROPERTIES InterruptedIsResolved
