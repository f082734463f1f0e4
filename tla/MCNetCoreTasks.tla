---------------------------- MODULE MCNetCoreTasks ----------------------------
(* Model values for the runs of NetCoreTasks.                              *)
EXTENDS NetCoreTasks

CONSTANTS t1, t2

MCTasks      == {t1, t2}
MCOneTask    == {t1}
MCOtherTask  == {t2}
MCChannel    == [t \in Tasks |-> IF t = t1 THEN "both" ELSE "short"]
MCTotal      == [t \in Tasks |-> 3]
MCMixedTotal == [t \in Tasks |-> IF t = t1 THEN 2 ELSE 0]
None         == {}
=============================================================================
