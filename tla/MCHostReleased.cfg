SPECIFICATION TransfersSpec
CONSTANTS
  Inputs <- MCInputs
  Expressions <- MCExpressions
  WindowMax = 24
  TraceBudget = 10
  UnrollMax = 3
  Unknown = 20
  CompileBytes = 12
  ChunkMax = 4
  ChunkMaxCost = 6
  ChunkBytes = 9
  ChunkAcc = 1
  HalfRange = 4
  LongestLoop = 12
INVARIANTS
  HostIsReleased
CHECK_DEADLOCK FALSE
