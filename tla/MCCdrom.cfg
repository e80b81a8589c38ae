SPECIFICATION FairSpec
CONSTANTS
  Media <- MCMedia
  PvdLba = 1
  Lbas <- MCLbas
  Counts <- MCCounts
  MaxSwaps = 3
INVARIANTS
  TypeOK
  ReadInOrder
  DataReadyIsWhole
PROPERTIES
  ReadEnds
  ReadsSectors
