CONSTANTS
  PAGE_SIZE = 4
  Fanout = 2
  Frames <- AllFrames
  MemMap <- TightMap
  Pages4K <- SmallPages
  Regions2M = {}
  Regions1G = {}
  Targets = {13}
  Permissions <- WritableOnly
SPECIFICATION Spec
INVARIANTS
  NullIsNoTable
