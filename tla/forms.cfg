SPECIFICATION FormsSpec
CONSTANTS
  k1 = k1
  k2 = k2
  u1 = u1
  u2 = u2
  default = default
  chosen = chosen
  Unset = Unset
  Bad = Bad
  KeyOrder <- MCKeyOrder
  Values = {default, chosen}
  Env <- MCEnv
  UserOrder <- MCUserOrder
  MaxRenames = 1
  Arounds <- MCArounds
INVARIANTS
  SavedIsAudited
  MappingTakesEffect
PROPERTIES
  ManualLostOnlyByRace
  EveryoneGetsOn
