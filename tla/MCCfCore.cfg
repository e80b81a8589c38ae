SPECIFICATION Spec
CONSTANTS
  Bits <- MCBits
  CodeEnd = 4
  Targets = {0}
  StackLow = 100
  StackTop = 112
  IrqLevels = {3, 4}
  Operands = {1, 2}
  DataDepth = 0
  MaxFaults = 1
  MaxRetries = 1
INVARIANTS
  TypeOK
  ComparisonsSurvive
PROPERTIES
  EveryReturnIsItsOwn
  FaultsSpareTheStack
CHECK_DEADLOCK FALSE
