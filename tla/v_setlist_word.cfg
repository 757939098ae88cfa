CONSTANTS
  MaxStack = 250
  MaxIndexRK = 255
  MaxArgC = 26
  MaxArgSBx = 131071
  FieldsPerFlush = 1
  MaxVars = 200
  MaxUpvalues = 60
  MaxLevels = 200
  StackSize = 20
  Chunks <- BigTables
SPECIFICATION Spec
INVARIANT RealC
