SPECIFICATION UserHeapSpec
CHECK_DEADLOCK FALSE
CONSTANTS
  PageUnits = 8
  HeaderUnits = 2
  InitialUnits = 32
  UserBase = 64
  UserLimit = 512
  HeapStart = 128
  Sizes = {1, 4}
  MaxMallocs = 3
INVARIANT MallocStaysInHeap
