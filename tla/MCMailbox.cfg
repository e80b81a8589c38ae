SPECIFICATION FairSpec
CONSTANTS
  Cells <- MCCells
  Clients <- MCClients
  Kernel = "kernel"
  Requests <- MCRequests
  Discs = {TRUE}
  Held <- MCHeld
  Strays <- MCStrays
  Stores <- MCStores
  Watched <- MCWatched
  MaxCalls <- MCMaxCalls
  MaxStrays = 1
INVARIANTS
  TypeOK
  OwnAnswer
  TruthfulPad
  BytesInOrder
PROPERTIES
  WedgedForEver
  CallEnds
