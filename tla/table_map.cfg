SPECIFICATION Spec
CONSTANTS
  Nil = Nil
  a = a
  b = b
  c = c
  v1 = v1
  Ints = {1, 2, 3}
  Others = {a, b}
  Collectable = {a, b}
  Pow2Keys = {a}
  Hash <- Hashes
  Values = {v1}
  MaxBits = 3
  MaxInt = 3
  Sizes <- InitialSizes
  Positional = {2}
INVARIANTS
  NodesSound
  CursorFound
  SizesSound
PROPERTIES
  MapSpec
