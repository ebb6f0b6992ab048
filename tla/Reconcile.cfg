SPECIFICATION FairReconcileSpec
CONSTANTS
  t1 = t1
  t2 = t2
  t3 = t3
  mine = mine
  other = other
  None = None
  Threads = {t1, t2, t3}
  Requested = {t1, t2}
  Homes = {mine, other}
  Wanted = mine
  PageSize = 1
  MaxPages = 3
  MaxStrays = 1
INVARIANTS VerifiedIsIndexed RepairedWereRead FailureHasReason
PROPERTIES AlwaysReturns
CHECK_DEADLOCK FALSE
