SPECIFICATION Spec
CONSTANTS
  CfPerPpc = 140
  PpcPerCf = 266
  Quantum = 16
  SrMasks <- MCSrMasks
  MaxCycles = 48
  MaxResets = 1
INVARIANTS
  TypeOK
  ClockRatio
  HoldProtocol
PROPERTIES
  WokenByItsInterrupt
  InterruptStorm
CHECK_DEADLOCK FALSE
