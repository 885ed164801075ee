SPECIFICATION HistSpec
CONSTANTS
  MaxPlay = 5
  Cutoff = 1
  PageSize = 2
INVARIANTS
  
  WalkCovers
