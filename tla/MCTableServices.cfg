CONSTANTS
  s1 = s1
  d = d
  b1 = b1
  v1 = v1
  v2 = v2
  None = None
  Tables = {s1, d}
  Layouts <- MCLayouts
  Shared = {b1}
  Slots = {v1, v2}
  Patient = TRUE
SPECIFICATION Spec
SYMMETRY Symmetry
INVARIANTS
  TypeOK
  BuffersAccounted
  SlotsAccounted
  OnlyValidated
PROPERTIES
  Steady
