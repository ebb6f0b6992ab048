SPECIFICATION FairRetentionSpec
CONSTANTS
  d1 = d1
  d2 = d2
  j1 = j1
  j2 = j2
  j3 = j3
  s1 = s1
  s2 = s2
  h1 = h1
  None = None
  Devices = {d1}
  Jobs = {j1}
  Snapshots = {s1, s2}
  Hashes = {h1}
  Kinds = {"export", "preview"}
  Quota = 1
  UploadSlots = 2
  MaxFaults = 1
INVARIANTS QuotaKept
PROPERTIES TemporaryEventuallyEvicted
CHECK_DEADLOCK FALSE
