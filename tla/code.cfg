CONSTANTS
  MaxStack = 18
  MaxIndexRK = 2
  MaxArgC = 511
  MaxArgSBx = 60
  FieldsPerFlush = 2
  MaxVars = 12
  MaxUpvalues = 3
  MaxLevels = 12
  StackSize = 40
  Chunks <- AllChunks
SPECIFICATION Spec
INVARIANTS
  Meant
  AssertsHold
  OpenInScope
  LimitsExact
