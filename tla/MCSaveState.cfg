SPECIFICATION Spec
CONSTANTS
  Channels <- MCChannels
  BurstSize = 4
  AddrSpace = 8
  Ram = {1, 2, 3, 4, 5}
  Rom = {}
  Local = {5}
  Vram = {4}
  Stores = {1}
  Jobs <- MCJobs
  Media <- MCMedia
  PvdLba = 1
  Lbas = {0}
  Counts = {2}
  MaxSwaps = 3
  DriveCommands = {1, 3}
  Programs <- MCPrograms
  ForeignFiles <- MCForeign
  MaxSessions = 3
INVARIANTS
  TypeOK
  OneMachine
  RestartedCopyIsWhole
  NoFrameTwice
PROPERTIES
  NoStaleData
  HandOffSurvives
CHECK_DEADLOCK FALSE
