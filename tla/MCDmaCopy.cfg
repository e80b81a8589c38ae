SPECIFICATION FairSpec
CONSTANTS
  Channels <- MCChannels
  BurstSize = 8
  AddrSpace = 12
  Ram <- MCRam
  Rom <- MCRom
  Drivers <- MCDrivers
  ChannelOf <- MCChannelOf
  Jobs <- MCJobs
  Pokes <- MCPokes
  MaxPokes = 1
INVARIANTS
  TypeOK
  StatusInv
  DoneMeansCopied
PROPERTIES
  CompletionSignalled
  CopyReturns
