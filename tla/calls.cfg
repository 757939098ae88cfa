SPECIFICATION Spec
CONSTANTS
  Main = main
  Coroutines = {}
  MaxCcalls = 3
  Margin = 2
  MaxCalls = 5
  BasicCi = 2
  Handlers = {"none", "notfunction", "lua", "c"}
  Hook = TRUE
  Finalizers = TRUE
INVARIANTS ThreadRestored WithinLimits
CHECK_DEADLOCK FALSE
