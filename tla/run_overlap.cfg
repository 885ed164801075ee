SPECIFICATION FairRunSpec
CONSTANTS
  web = web
  cli = cli
  None = None
  Procs <- TwoProcs
  TTL = 1
  MaxCrashes = 1
  MaxLeaks = 0
  ArrCount = 1
  HasTautulli = FALSE
  RequesterCount = 0
  MaxRuns = 2
  MaxCancels = 1
  MaxErrors = 0
INVARIANTS
  RunsAreApart
  OrphanRowsNeedMishap
  FreeWhenQuiet
PROPERTIES
  EveryRunEnds
  ImplementsRunBook
