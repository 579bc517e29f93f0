CONSTANTS
  FontWidth = 1
  FontHeight = 2
  Width = 10
  Height = 10
  Pitch = 10
  Texts <- SomeTexts
  Messages <- TickCounts
  MaxEscapes = 1
SPECIFICATION Spec
INVARIANTS
  Reentrant
