SPECIFICATION Spec
CHECK_DEADLOCK FALSE
CONSTANTS
  Parts = {"syscalls"}
  Devices = {14}
  Bounds <- MCBounds
  Frequencies = {17, 500}
  Milliseconds = {1, 2}
  UintRange = 65536
  Descriptors <- MCDescriptors
  MaxTraps = 3
  Numbers = {10, 12, 15, 30, 31, 300}
  Fds = {2, 60}
  Word = 64
  UserBase = 8
  UserEnd = 62
  UtsSize = 5
  TopCalls = 3
  MaxSyscalls = 5
  HashOf <- MCHash
  Keys = {1, 2, 3}
  Values = {11, 12}
  BucketCounts = {1, 3}
  Missing = Missing
  MaxOps = 5
  Spaces = {s1, s2}
  VPages <- MCPages
  PhysFrames = {1, 2, 3}
  COW_MAX_REFCOUNT = 3
  Budgets = {1, 3, 5}
  MaxCowCalls = 4
INVARIANT CallsReturnResult
