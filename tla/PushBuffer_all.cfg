SPECIFICATION FairSpec
CONSTANTS
  MaxDelay = 2
  WaitTime = 2
  TryTime = 1
  MaxTime = 4
INVARIANTS
  TypeOK
  
PROPERTIES
  Streams
  LoopEnds
CHECK_DEADLOCK FALSE
