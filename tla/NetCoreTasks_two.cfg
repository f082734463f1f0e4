SPECIFICATION Spec
CONSTANTS
  t1 = t1
  t2 = t2
  Tasks <- MCTasks
  NeedAuthed <- MCOtherTask
  RetryCount = 0
  TotalTimeout <- MCMixedTotal
  TryTime = 1
  Channel <- MCChannel
  Fast <- None
  SendOnly <- None
  Sensitive <- None
  RetryInterval = 1
  Stops <- MCOneTask
  Calls = {}
  MaxCalls = 0
  MaxConnects = 1
INVARIANTS
  TypeOK
  OneOwner
  WorkersSound
  TimersArmed
PROPERTIES
  ImplementsLedger
CHECK_DEADLOCK FALSE
