CONSTANTS
  WPs <- Watchpoints
  EquSize = 20
  Undisturbed <- Changeovers
  Patient = TRUE
  Resets = TRUE
SPECIFICATION LiveSpec
INVARIANTS InstrumentJustified Armed NoResetLoop
PROPERTIES Entered Left
