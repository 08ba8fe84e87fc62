CONSTANTS
  Top = 256
  TagSpace = 64
  Rs <- AllMultipliers
  Ss <- EdgePads
  Blocks <- EdgeBlocks
SPECIFICATION Spec
INVARIANT InRange
PROPERTY ImplementsMac
