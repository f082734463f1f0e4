SPECIFICATION Spec
CONSTANTS
  Room = 6
  CryptRoom = 2
  Sizes <- OneOrTwo
  MaxLines = 3
  MaxCrashes = 0
INVARIANT LengthAssert
CHECK_DEADLOCK FALSE
