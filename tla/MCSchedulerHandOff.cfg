SPECIFICATION Spec
CONSTANTS
  CfPerPpc = 140
  PpcPerCf = 266
  Quantum = 16
  SrMasks <- MCSrMasks
  MaxCycles = 20
  MaxResets = 1
PROPERTIES
  HeldUntilStop
CHECK_DEADLOCK FALSE
