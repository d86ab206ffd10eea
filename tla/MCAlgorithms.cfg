SPECIFICATION AlgSpec
CONSTANTS
  Inputs <- MCInputs
  Expressions <- MCExpressions
  TraceBudget = 10
  UnrollMax = 3
  Unknown = 20
  CompileBytes = 12
  ChunkMax = 4
  ChunkMaxCost = 6
  ChunkBytes = 9
  ChunkAcc = 1
  HalfRange = 4
  LongestLoop = 12
  WindowMax = 24
INVARIANTS
  NothingDropped
  IndexedOpsAreExact
  TransfersAreWhole
  CountedIsExactInIntegers
  GraphsFit
  WindowsAreExact
