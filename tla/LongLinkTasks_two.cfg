SPECIFICATION Spec
CONSTANTS
  t1 = t1
  t2 = t2
  Tasks <- MCTasks
  MaxConns = 2
  Heartbeats = FALSE
  Priority <- MCPriority
  SendOnly <- MCSendOnly
  NeedAuthed <- MCOneTask
  RetryCount = 1
  AppConnects = TRUE
  Stops <- None
  Calls = {"RedoTasks", "OnNetworkChange"}
  MaxCalls = 1
INVARIANTS
  TypeOK
  TasksDriven
  FreshRequests
  RetryBound
PROPERTIES
  ImplementsLedger
CHECK_DEADLOCK FALSE
