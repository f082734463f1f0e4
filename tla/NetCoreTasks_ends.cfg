SPECIFICATION FairSpec
CONSTANTS
  t1 = t1
  t2 = t2
  Tasks <- MCOneTask
  NeedAuthed <- None
  RetryCount = 1
  TotalTimeout <- MCTotal
  TryTime = 1
  Channel <- MCChannel
  Fast <- None
  SendOnly <- None
  Sensitive <- None
  RetryInterval = 1
  Stops <- None
  Calls = {"RedoTasks", "OnNetworkChange", "ClearTasks"}
  MaxCalls = 1
  MaxConnects = 1
PROPERTY AllEnds
CHECK_DEADLOCK FALSE
