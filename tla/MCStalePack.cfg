SPECIFICATION CacheSpec
CONSTANTS
  Slots = {"codes", "proj"}
  ProjOnly = {"proj"}
  Ids = {1, 2, 3}
  Raws = {1, 2, 3}
  MaxRepacks = 1
  MaxProjRepacks = 1
  MaxBuilt = 2
  MaxGen = 6
  MaxCalls = 6
PROPERTIES
  PacksAreOfTheirWeights
