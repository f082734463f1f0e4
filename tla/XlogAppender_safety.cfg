SPECIFICATION Spec
CONSTANTS
  t1 = t1
  t2 = t2
  Threads <- MCThreads
  NotifyMark = 1
  FullMark = 1
  BlockLength = 2
  Modes <- BothModes
  SyncFlush = TRUE
  SetModeClosed = TRUE
  MaxLines = 2
  MaxCrashes = 1
  MaxFails = 1
SYMMETRY ThreadSym
INVARIANTS
  AtMostOnce
  

  
