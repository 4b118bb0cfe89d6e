SPECIFICATION Spec
CONSTANTS
  Regions <- MCRegions
  SciStatusMax = 1
  U8Mod = 1
  U16Mod = 3
INVARIANTS
  TypeOK
  BootsAccounted
PROPERTIES
  ImplementsStore
