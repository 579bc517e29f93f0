CONSTANTS
  PAGE_SIZE = 4
  Fanout = 2
  Frames <- AllFrames
  MemMap <- RoomyMap
  Pages4K <- SmallPages
  Regions2M <- MediumRegions
  Regions1G <- LargeRegions
  Targets = {14, 16}
  Permissions <- WritableOnly
SPECIFICATION Spec
INVARIANTS
  TypeOK
  TablesFormATree
  NoTableLost
  PagewalkAgrees
  MapsAsAsked
PROPERTIES
  ImplementsAddressSpace
