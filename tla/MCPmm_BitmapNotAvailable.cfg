CONSTANTS
  PAGE_SIZE = 4
  MemMaps <- AllMaps
SPECIFICATION Spec
INVARIANT BitmapNotAvailable
