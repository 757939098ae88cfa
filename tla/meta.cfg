SPECIFICATION Spec
CONSTANTS
  t1 = t1
  t2 = t2
  u1 = u1
  u2 = u2
  f1 = f1
  f2 = f2
  one = one
  Nil = Nil
  NULL = NULL
  Basic = Basic
  Tables = {t1, t2}
  Userdata = {u1, u2}
  Functions = {f1, f2}
  Plain = {one}
  Slots = {"x", "__index", "__newindex", "__mode", "__eq", "__lt", "__le", "__add", "__len", "__concat", "__call"}
  Programs <- MCPrograms
  MaxTagLoop = 3
  MaxDepth = 2
INVARIANTS CacheTruthful
PROPERTIES LoopsAnswered Comparing
VIEW View
