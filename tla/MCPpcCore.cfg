SPECIFICATION Spec
CONSTANTS
  PageSize = 2
  SegPages = 4
  ApiPages = 2
  Segments = 2
  MinBlock = 4
  Slots = {0}
  Hash <- MCHash
  Vector = 2
  Code = {0, 1, 2, 7}
  Ram = {8}
  Values = {0, 8}
  Targets = {15}
  Modes <- MCModes
  Bats <- MCBats
  Vsids = {0, 1, 3}
  Frames = {0, 5}
  MaxPages = 2
INVARIANTS
  TypeOK
  ContextKept
  TranslationTruthful
PROPERTIES
  FaultsArePrecise
