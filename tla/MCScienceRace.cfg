CONSTANTS
  WPs <- Watchpoints
  EquSize = 20
  Undisturbed <- Nothing
  Patient = TRUE
  Resets = FALSE
SPECIFICATION Spec
INVARIANT SafeOutsideScience
