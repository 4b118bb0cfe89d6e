SPECIFICATION Spec
CONSTANTS
  WPs <- MCWPs
  NumAPs = 1
  NotUsed = "none"
  Outcomes <- WithErrors
  DefaultWdt <- TwoMsgs
  DefaultAdt <- OneAp
  WdtLoads <- Reload
  AdtLoads <- Refused
  PowerOnState = "DISABLED"
  EquSize = 5
  AgeCap = 2
  FailCap = 2
INVARIANTS
  TypeOK
  Fresh
PROPERTIES
  RequestsCertain
  ErrorsAreMeasured
