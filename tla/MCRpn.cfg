SPECIFICATION LockstepSpec
CONSTANTS
  WPs <- MCWPs
  EquSize = 7
CHECK_DEADLOCK FALSE
INVARIANTS
  ValidIsLegal
  InvalidDecidesNothing
  DecidedIsCertain
