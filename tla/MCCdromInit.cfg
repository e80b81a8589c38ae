SPECIFICATION KernelSpec
CONSTANTS
  Media <- MCMedia
  PvdLba = 1
  Lbas <- MCLbas
  Counts <- MCCounts
  MaxSwaps = 1
  Tries = 5
PROPERTIES
  FailsOnlyWithoutDisc
CHECK_DEADLOCK FALSE
