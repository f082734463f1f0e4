SPECIFICATION FairSpec
CONSTANTS
  t1 = t1
  t2 = t2
  Threads <- MCThreads
  NotifyMark = 1
  FullMark = 2
  BlockLength = 2
  Modes <- AsyncOnly
  SyncFlush = FALSE
  SetModeClosed = FALSE
  MaxLines = 3
  MaxCrashes = 1
  MaxFails = 1
INVARIANTS
  TypeOK
  SessionOrder
  FlusherReady
PROPERTIES
  NothingStuck
