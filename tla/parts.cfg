SPECIFICATION Spec
CONSTANTS
  RefValues = {1, 2}
  MaxRef = 5
  BUFFERSIZE = 2
  LIMIT = 4
  MaxAdded = 12
  MaxHandles = 4
  IO_INPUT = 1
  IO_OUTPUT = 2
  ModNames = {m1, m2}
  MaxNested = 4
  MaxUdata = 4
  MaxSignals = 3
  MaxElements = 5
  SortKeys = {1, 2, 3}
  Contents = {0, 1, 2, 4, 6}
  MaxCopies = 2
  MINSTRTABSIZE = 1
  MaxTableSize = 8
  MaxBlocks = 4
  MaxCalls = 7
  StackUpvals = {u1}
  MAXCAPTURES = 32
  Examples <- AllExamples
INVARIANTS
  RefsKept BufferKept HandlesTrue LoadedOnce
  FinalizersSafe OneErrorEach StringsSound NoStalePointer
  PatternMeans TextCovered
PROPERTIES
  CloseEnds SortSound
CHECK_DEADLOCK FALSE
