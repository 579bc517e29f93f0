CONSTANTS
  CHAR_BIT = 2
  SHORT_BIT = 3
  INT_BIT = 4
  LONG_BIT = 8
  NTOA_BUFFER_SIZE = 5
  WRAP = 8
  MEMORY = 20
  Calls <- AllCalls
SPECIFICATION Spec
CHECK_DEADLOCK FALSE
INVARIANTS
  TypeOK
  PrintsAsIntended
  StoresWhatFits
  SentInOrder
PROPERTIES
  CallReturns
