CONSTANTS
  Cores = {"default", "compact"}
  MaxCalls = 4
  Requests <- SomeRequests
  Grids <- SomeGrids
SPECIFICATION Spec
INVARIANT KnownKeyStream
PROPERTY ImplementsRfc
CHECK_DEADLOCK FALSE
