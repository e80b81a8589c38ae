SPECIFICATION FairSpec
CONSTANTS
  Channels <- MCTailChannels
  BurstSize = 8
  AddrSpace = 12
  Ram <- MCRam
  Rom <- MCRom
  Drivers <- MCTailDrivers
  ChannelOf <- MCTailChannelOf
  Jobs <- MCTailJobs
  Pokes <- MCPokes
  MaxPokes = 0
PROPERTIES
  CopyReturns
