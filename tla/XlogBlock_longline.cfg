SPECIFICATION Spec
CONSTANTS
  Room = 13
  CryptRoom = 2
  Sizes <- OneOrThree
  MaxLines = 3
  MaxCrashes = 0
PROPERTY ImplementsBlock
CHECK_DEADLOCK FALSE
