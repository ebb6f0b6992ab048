SPECIFICATION RetentionSpec
CONSTANTS
  d1 = d1
  d2 = d2
  j1 = j1
  j2 = j2
  j3 = j3
  s1 = s1
  s2 = s2
  h1 = h1
  None = None
  Devices = {d1, d2}
  Jobs = {j1, j2, j3}
  Snapshots = {s1, s2}
  Hashes = {h1}
  Kinds = {"preview", "restore"}
  Quota = 2
  UploadSlots = 2
  MaxFaults = 1
SYMMETRY MCJobSymmetry
INVARIANTS RetentionTypeOK ActivePreviewHasSnapshot FilesMatchRecords SurvivesUntilUsed NoDuplicateKept
CHECK_DEADLOCK FALSE
