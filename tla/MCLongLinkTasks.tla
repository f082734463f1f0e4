---------------------------- MODULE MCLongLinkTasks ----------------------------
(* Model values for the runs of LongLinkTasks.                             *)
EXTENDS LongLinkTasks

CONSTANTS t1, t2

MCTasks    == {t1, t2}
MCOneTask  == {t1}
MCPriority == [t \in Tasks |-> IF t = t1 THEN 1 ELSE 0]
MCSendOnly == {t2}
None       == {}
=============================================================================
