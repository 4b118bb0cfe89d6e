SPECIFICATION LiveSpec
CONSTANTS
  MaxTime = 5
  HalfRange = 3
  MaxAtsCmds = 2
  NumberOfRts = 1
  MaxCmdsPerSec = 2
  AtsBuffSize = 3
  AutoStart = 0
  AtsLoads <- MCMixedAts
  AppendLoads <- None
  RtsLoads <- MCMixedRts
  JumpTimes <- None
  Horizon = 2
  ReloadExecuting = FALSE
INVARIANTS
  RtsNotEarly
  RateLimit
PROPERTIES
  WakeupEnds
