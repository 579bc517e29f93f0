CONSTANTS
  PAGE_SIZE = 4
  Fanout = 4
  Frames <- AllFrames
  TagLists <- FullList
  MemMaps <- OneMap
  BootMem <- LoaderTables
  BootCR3 = 24
  KernelPages = 5
  KernelFrame = 8
  FbFrame = 28
  FbPages = 2
  Counts = {1, 2}
SPECIFICATION HeapSpec
CHECK_DEADLOCK FALSE
PROPERTIES
  HookKeepsContract
