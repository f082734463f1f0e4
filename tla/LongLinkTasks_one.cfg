SPECIFICATION FairSpec
CONSTANTS
  t1 = t1
  t2 = t2
  Tasks <- MCOneTask
  MaxConns = 2
  Heartbeats = TRUE
  Priority <- MCPriority
  SendOnly <- None
  NeedAuthed <- None
  RetryCount = 0
  AppConnects = FALSE
  Stops <- MCOneTask
  Calls = {"ClearTasks", "TimerCheckSuc"}
  MaxCalls = 1
PROPERTIES
  ImplementsLedger
  AllEnds
CHECK_DEADLOCK FALSE
