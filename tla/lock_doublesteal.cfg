SPECIFICATION LockSpec
CONSTANTS
  web = web
  cli = cli
  None = None
  Procs <- TwoProcs
  TTL = 1
  MaxCrashes = 1
  MaxLeaks = 0
INVARIANT StealNeedsSilence
