SPECIFICATION FairRestSpec
CHECK_DEADLOCK FALSE
CONSTANTS
  Budget = 2
  Ceiling = 3
  FreeFloor = 4
  FreeReads <- MCFreeReads
  Big = 2
  SamplePeriod = 1
  ReclaimPeriod = 1
  StallTicks = 3
  Wants <- MCWants
  MaxHeld = 3
  MaxOthers = 2
  Loops <- MCLoops
  Slots = {"codes", "proj"}
  ProjOnly = {"proj"}
  Ids = {1, 2, 3}
  Raws = {1, 2, 3}
  MaxRepacks = 1
  MaxProjRepacks = 1
  MaxBuilt = 2
  MaxGen = 6
  MaxCalls = 6
  Programs = {"main"}
  Configs <- MCConfigs
  MaxBytes = 3
  LoopBodies <- MCBodies
  LoopCalls <- MCCalls
  Int32Half = 4
  SpecCacheMax = 3
  SpecMinFolds = 1
  SpecFoldBytes = 1024
  SpecMax = 2
  SlotValues <- MCSlotValues
INVARIANTS
  RefusedForNeed
  BigWithinBudget
  WithinBudget
  RepacksEnd
  WindowsAreWhereTheyAre
  TablesOutliveGraphs
PROPERTIES
  EveryAskEnds
  PacksAreOfTheirBuffers
  DeadGoFirst
  GrantNeverShrinks
