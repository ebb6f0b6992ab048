SPECIFICATION Spec
CONSTANTS
  session = session
  tool = tool
  p1 = p1
  p2 = p2
  r1 = r1
  r2 = r2
  Absent = Absent
  None = None
  Files <- MCOneFile
  Extras <- MCNoExtras
  Contents <- MCTwoContents
  Bundles <- MCGrowing
  PreviewIds = {p1, p2}
  RestoreIds = {r1, r2}
  MaxFaults = 1
SYMMETRY MCSymmetry

INVARIANTS PlansOnlyAppend
