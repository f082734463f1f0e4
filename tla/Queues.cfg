SPECIFICATION QueuesSpec
CONSTANTS
  h1 = h1
  h2 = h2
  u1 = u1
  Handlers <- MCHandlers
  Users <- MCUsers
  MaxPosts = 2
  MaxDepth = 2
  MaxClock = 1
  Alarms <- MCAlarms
  Own <- MCOwn
  After <- MCAfter
  MaxTime = 2
  MaxMoves = 2
INVARIANTS
  TypesOK
  QueueSafe
  
PROPERTIES
  QueueServes
  BecomesInactive
CHECK_DEADLOCK FALSE
