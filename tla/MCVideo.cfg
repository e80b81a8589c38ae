SPECIFICATION FairSpec
CONSTANTS
  BufWords = 16
  VertexBase = 6
  MaxCount = 15
  MaxPush = 4
  MaxJobs = 3
  Pokes <- MCPokes
  MaxPokes = 2
INVARIANTS
  TypeOK
  BlankAnnounced
PROPERTIES
  DrawsWhatWasPushed
  SubmitShown
  Presents
CHECK_DEADLOCK FALSE
