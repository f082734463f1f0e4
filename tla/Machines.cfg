SPECIFICATION MachinesSpec
CONSTANTS
  c1 = c1
  c2 = c2
  Callers <- MCCallers
  MaxStarts = 2
  Room = 13
  CryptRoom = 2
  Sizes <- OneOrTwo
  MaxLines = 3
  MaxCrashes = 2
  MaxDay = 2
  MaxRecords = 3
  MaxFaults = 3
  MaxSessions = 2
  MaxAttempts = 2
  MaxChecks = 3
  MaxCheckers = 2
  MaxChanges = 4
INVARIANTS
  TypesOK
  ThreadSafe
  
  
  ChecksSafe
PROPERTIES
  JoinMeansEnd
  ThreadEnds
  ImplementsBlock
  ImplementsLife
  PushEnds
  ChecksEnd
CHECK_DEADLOCK FALSE
