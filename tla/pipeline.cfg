SPECIFICATION PipeSpec
CONSTANTS
  k1 = k1
  k2 = k2
  k3 = k3
  Keys = {k1, k2, k3}
  Sections <- MCSections
  Parts <- MCParts
  Sized <- MCSized
  Replies <- MCReplies
  MaxRuns = 2
  MaxRetries = 3
  NeverDays = 90
  StaleDays = 180
  MoviePct = 80
  EpisodePct = 80
  Worlds <- MCWorlds
INVARIANTS
  PlexPullHeals
  CaughtIsJudgedRight
PROPERTIES
  IdsLostNeedOutage
  PlexDeathHasWitness
\* MaxRuns runs and no more: the behaviour ends there.
CHECK_DEADLOCK FALSE
