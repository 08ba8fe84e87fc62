CONSTANTS
  Radix = 32
  NR = 3
  Bodies = {"ripple", "compact", "shoup"}
  ClampHigh = {2}
  ClampLow = {1}
  MaxCallerSteps = 5
  Keys <- SomeKeys
  Blocks <- SomeBlocks
SPECIFICATION Spec
INVARIANTS LimbTypeOK TablesExact ProductSoFar ReducedSoFar
PROPERTY ImplementsLazy
CHECK_DEADLOCK FALSE
