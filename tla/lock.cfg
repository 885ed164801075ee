SPECIFICATION FairLockSpec
CONSTANTS
  web = web
  cli = cli
  None = None
  Procs <- TwoProcs
  TTL = 1
  MaxCrashes = 2
  MaxLeaks = 1
INVARIANTS
  RobbedIsAudited
  
  PromptExclusion
PROPERTIES
  
  OrphanReclaimed
