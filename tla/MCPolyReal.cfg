CONSTANTS
  Radix = 256
  NR = 16
  Bodies = {"ripple", "compact"}
  ClampHigh = {3, 7, 11, 15}
  ClampLow = {4, 8, 12}
  MaxCallerSteps = 5
  TheKey <- RfcKey
  Message <- RfcBlocks
  Keys <- OneKey
  Blocks <- TheseBlocks
SPECIFICATION RealSpec
INVARIANT KnownTag
CHECK_DEADLOCK FALSE
