CONSTANTS
  PAGE_SIZE = 4
  Fanout = 4
  Frames <- AllFrames
  TagLists <- Lists
  MemMaps <- Maps
  BootMem <- LoaderTables
  BootCR3 = 24
  KernelPages = 5
  KernelFrame = 8
  FbFrame = 28
  FbPages = 2
SPECIFICATION Spec
CHECK_DEADLOCK FALSE
INVARIANTS
  TypeOK
  TagsFoundBeforeUse
  SpaceKept
  LiveTablesTaken
PROPERTIES
  Starts
