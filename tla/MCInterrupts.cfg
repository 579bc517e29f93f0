CONSTANTS
  Lines <- TimerKeyboardClock
  Scancodes <- FewScancodes
  PastTable = 7
  CmdSize = 3
  ConSize = 4
  MaxKeys = 4
  MaxTicks = 2
SPECIFICATION Spec
INVARIANTS
  TypeOK
  RightHandler
  NoPanic
  RoomForKeys
  KeysInOrder
PROPERTIES
  KeysRead
