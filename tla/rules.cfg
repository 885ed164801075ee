SPECIFICATION DeriveSpec
CONSTANTS
  NeverDays = 90
  StaleDays = 180
  MoviePct = 80
  EpisodePct = 80
  Worlds <- MCWorlds
  Later <- PageWorlds
INVARIANTS
  EarliestWins
  ScopesAgree
  FinishedIsEarned
  
  IgnoringOnlyHides
  
  
