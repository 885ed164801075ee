SPECIFICATION RunSpec
CONSTANTS
  web = web
  cli = cli
  None = None
  Procs <- OneProc
  TTL = 1
  ArrCount = 1
  HasTautulli = TRUE
  RequesterCount = 2
  MaxRuns = 1
  MaxCrashes = 1
  MaxLeaks = 1
  MaxCancels = 1
  MaxErrors = 1
INVARIANTS
  PublishedIsComplete
  StepsInOrder
