SPECIFICATION Spec
CONSTANTS
  MaxTime = 5
  HalfRange = 3
  MaxAtsCmds = 2
  NumberOfRts = 0
  MaxCmdsPerSec = 1
  AtsBuffSize = 3
  AutoStart = 0
  AtsLoads <- MCAtsLoads
  AppendLoads <- MCAppendLoads
  RtsLoads <- None
  JumpTimes <- MCJumpTimes
  Horizon = 2
  ReloadExecuting = FALSE
INVARIANTS
  TypeOK
  AtMostOnce
  AtpInOrder
  AtsNotEarly
PROPERTIES
  SafeSwitch
