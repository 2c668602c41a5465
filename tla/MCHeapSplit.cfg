SPECIFICATION HeapSpec
CHECK_DEADLOCK FALSE
CONSTANTS
  KERNEL_HEAP_BASE = 4
  KERNEL_HEAP_MAX = 24
  PAGE_SIZE = 4
  HEAP_INIT_PAGES = 2
  MinExpandPages = 1
  Sizes = {1, 3, 5}
  Alignments = {}
  MaxLive = 3
  MaxStores = 0
INVARIANT HeadersIntact
