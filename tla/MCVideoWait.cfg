SPECIFICATION FairSpec
CONSTANTS
  BufWords = 16
  VertexBase = 6
  MaxCount = 15
  MaxPush = 2
  MaxJobs = 2
  Pokes <- MCNoPokes
  MaxPokes = 0
PROPERTIES
  WaitEnds
CHECK_DEADLOCK FALSE
