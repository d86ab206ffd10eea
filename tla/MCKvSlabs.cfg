SPECIFICATION KvAlone
CONSTANTS
  c1 = c1
  Args <- MCArgs
  Consts <- MCConsts
  Programs <- MCPrograms
  Moves <- MCMoves
  Bytes <- MCBytes
  MaxTrip = 2
  MaxLoops = 1
  CsePassOn = TRUE
  FoldPassOn = TRUE
  FoldMax = 2
  FoldTotal = 2
  Blocks <- MCBlocks
  Dims <- MCDims
  Scalars <- MCScalars
  KeyOf <- MCKeyOf
  Envs <- MCEnvs
  Grow <- SlabGrow
  MaxUpdates = 0
  MaxReads = 0
  Graphs <- MCGraphs
  WeightMin = 2
INVARIANTS
  KvIsLiteral
