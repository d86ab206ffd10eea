SPECIFICATION RangeSpec
CONSTANTS
  Inputs <- MCInputs
  Expressions <- MCMixed
INVARIANTS
  NegativeExactly
