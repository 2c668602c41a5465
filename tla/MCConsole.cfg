SPECIFICATION Spec
CHECK_DEADLOCK FALSE
CONSTANTS
  Parts = {"keyboard", "uart", "shell", "list", "heap", "strings", "klog"}
  Size = 3
  KeyCodes <- MCKeyCodes
  TxSize = 3
  RxSize = 3
  FifoDepth = 2
  Loads <- MCLoads
  Width = 4
  Height = 3
  TabStop = 2
  Printable = {"$", " ", "c", "e", "g", "h"}
  BufferSize = 5
  MaxCommands = 4
  MaxArgs = 1
  Keys = {"c", "e", "g", "h", " ", "BS", "LF", "ESC"}
  Extra <- MCExtra
  Places <- MCPlaces
  MaxKeys = 5
  h1 = h1
  h2 = h2
  n1 = n1
  n2 = n2
  n3 = n3
  Heads = {h1, h2}
  Nodes = {n1, n2, n3}
  CutFirst = FALSE
  KERNEL_HEAP_BASE = 4
  KERNEL_HEAP_MAX = 20
  PAGE_SIZE = 4
  HEAP_INIT_PAGES = 2
  MinExpandPages = 1
  Sizes = {1, 5}
  Alignments = {4}
  MaxLive = 3
  MaxStores = 1
  WordBits = 6
  Requests <- MCRequests
  Jobs <- MCJobs
  FilterLevel = 1
  NameRoom = 6
  SuffixRoom = 3
INVARIANTS
  ShiftNeverSticks
  OutputKept
  LineOnScreen
  PointersAgree
  HeapSound
  LibraryExact
  MessagesExact
PROPERTIES
  KeyboardImplementsFifo
  ReceiverImplementsFifo
  
  ConsoleProgress
