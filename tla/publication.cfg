SPECIFICATION TrendSpec
CONSTANTS
  Keep = 2
  MaxRuns = 3
  MaxActive = 2
  Reasons = {never}
  MaxRows = 2
INVARIANTS
  StoredIsBounded
  TrendsFollowCards
  LossNeedsFailures
\* MaxRuns runs and no more: the behaviour ends there.
CHECK_DEADLOCK FALSE
