CONSTANTS
  PAGE_SIZE = 4
  MemMaps <- AllMaps
SPECIFICATION Spec
INVARIANTS
  TypeOK
  HeldPagesMarked
  OnlyUsableHeld
  FreeMemoryExact
