SPECIFICATION LiveSpec
CONSTANTS
  MaxTime = 7
  HalfRange = 4
  MaxAtsCmds = 0
  NumberOfRts = 2
  MaxCmdsPerSec = 2
  AtsBuffSize = 0
  AutoStart = 1
  AtsLoads <- None
  AppendLoads <- None
  RtsLoads <- MCRtsLoads
  JumpTimes <- None
  Horizon = 2
  ReloadExecuting = FALSE
INVARIANTS
  ActiveCount
PROPERTIES
  RtsProgress
