SPECIFICATION FairSpec
CONSTANTS
  t1 = t1
  t2 = t2
  Tasks <- MCOneTask
  MaxConns = 2
  Heartbeats = FALSE
  Priority <- MCPriority
  SendOnly <- None
  NeedAuthed <- None
  RetryCount = 1
  AppConnects = TRUE
  Stops <- None
  Calls = {"RedoTasks"}
  MaxCalls = 1
PROPERTIES
  RedoIsDone
CHECK_DEADLOCK FALSE
