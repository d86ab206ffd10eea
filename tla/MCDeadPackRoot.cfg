SPECIFICATION PlanSpec
CONSTANTS
  Blocks <- MCBlocks
INVARIANTS
  RootsAreLive
