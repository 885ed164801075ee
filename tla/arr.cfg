SPECIFICATION ArrSpec
CONSTANTS
  m1 = m1
  m2 = m2
  Items <- TwoItems
  MaxRuns = 3
  MaxActive = 2
SYMMETRY Symmetry
INVARIANTS
  ArrTypeOK
  PullHeals
  DeathHasWitness
  FilesHaveItems
  ItemsAreOneAnswer
\* All MaxRuns runs may have ended.
CHECK_DEADLOCK FALSE
