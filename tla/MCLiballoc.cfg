CONSTANTS
  SIZEOF_MAJOR = 40
  SIZEOF_MINOR = 40
  ALIGNMENT = 16
  ALIGN_INFO = 16
  l_pageSize = 4096
  l_pageCount = 16
  UINT = 1048576
  Bases <- ThreeBases
  Requests = {20005, 40000, 65425}
  Resizes = {0, 40000}
  Arrays <- OneArray
  MaxBlocks = 4
  MaxErrors = 1
SPECIFICATION Spec
INVARIANTS
  TypeOK
  BlocksDisjoint
  ListsSound
  UsageExact
  PointersResolve
  RoomAsRequested
PROPERTIES
  SearchComplete
  CallsReturn
  HeapSpec
