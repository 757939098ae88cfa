SPECIFICATION Spec
CONSTANTS
  Main = main
  Coroutines = {co1, co2}
  MaxCcalls = 3
  Margin = 1
  MaxCalls = 3
  BasicCi = 3
  Handlers = {"none"}
  Hook = TRUE
  Finalizers = FALSE
INVARIANTS FramesKept CStackKept StatusIsReal
SYMMETRY Symmetry
VIEW View
CHECK_DEADLOCK FALSE
