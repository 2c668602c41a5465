SPECIFICATION Spec
CHECK_DEADLOCK FALSE
SYMMETRY Symmetry
CONSTANTS
  Parts = {"memory", "frames", "disk", "files"}
  TotalFrames = 13
  MinAlloc = 2
  FanOut = 2
  KernelPml4 = 1
  Procs = {p1, p2}
  USER_BASE = 1
  USER_END = 8
  HeapStart = 2
  StackPages = 1
  WordPages = 10
  KERNEL_HEAP_BASE = 10
  KERNEL_HEAP_MAX = 13
  KERNEL_GENERAL_BASE = 12
  KERNEL_GENERAL_MAX = 16
  MAX_REGIONS = 4
  Device = 99
  Lengths = {1, 2}
  Breaks = {1, 4}
  MaxCalls = 6
  Places = {0, 3, 7}
  PageUnits = 4
  MemoryMaps <- MCMaps
  E820_MAX_ENTRIES = 3
  Areas <- MCAreas
  Bitmap <- MCBitmap
  FramesPerUnit = 8
  FirstFrame = 4
  Wanted = {1, 2, 3}
  MaxFrameCalls = 6
  Requests <- MCRequests
  Attached = {0}
  Lba48 = {0}
  LbaMax = 4
  CountMax = 2
  MaxRequests = 3
  MaxFaults = 1
  Sector = 2
  MinBlock = 4
  Direct = 2
  Pointer = 2
  Descriptor = 2
  MinEntry = 1
  Images <- MCImages
  Faults = {3, 9, 16, 24}
  Opens <- MCOpens
  Paths <- MCPaths
  MountPoints = {"/", "/mnt"}
  Seeks <- MCSeeks
  Counts = {1, 9}
  Names = {"x"}
  Supers = {1, 2}
  InodeIds = {1, 2, 3, 4}
  Files = {1, 2}
  Dentries = {1, 2}
  Wrap = 64
  Bounds <- MCBounds
INVARIANTS
  FramesSound
  GrantsUsable
  InterruptGate
  
  InodesKept
  FilesAsOnDisk
PROPERTIES
  CallsKeepSpaces
