SPECIFICATION LiveSpec
CONSTANTS
  WPs <- MCWPs
  NumAPs = 2
  NotUsed = "none"
  Outcomes <- NoErrors
  DefaultWdt <- OneWp
  DefaultAdt <- TwoAps
  WdtLoads <- Same
  AdtLoads <- SwapLoads
  PowerOnState = "DISABLED"
  EquSize = 5
  AgeCap = 0
  FailCap = 2
INVARIANTS
  OneRequest
  Consecutive
PROPERTIES
  EventuallyRequested
