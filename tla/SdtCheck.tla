------------------------------- MODULE SdtCheck -------------------------------
(***************************************************************************)
(* SdtCore (mars/sdt/src/sdt_core.cc): one thread runs the checkers of one *)
(* check after the other and reports.  StartCheck holds a mutex against    *)
(* other callers, the thread does not take it.  What a checker finds out   *)
(* is a choice: go on or finish.  A check is a number.                     *)
(***************************************************************************)
EXTENDS Integers, Sequences

CONSTANTS MaxChecks, MaxCheckers

VARIABLES
  checking, cancel,
  check_list,    \* the checkers, each named after its check
  check_status,
  thread,        \* place of the thread, "off" when it does not run
  left,          \* checkers the loop of __RunOn has before it
  checks,        \* checks that were accepted
  reported,      \* checks in the order of their reports
  lost,          \* checks accepted while the thread was on its way out
  core           \* "up", "going" (the destructor waits), "gone"

sdtVars == <<checking, cancel, check_list, check_status, thread, left, checks, reported, lost, core>>

Init ==
  /\ checking = FALSE /\ cancel = FALSE /\ check_list = <<>> /\ check_status = "continue"
  /\ thread = "off"
  /\ left = <<>> /\ checks = 0 /\ reported = <<>> /\ lost = {} /\ core = "up"

Request(n) ==
  /\ checks < MaxChecks /\ checks' = checks + 1 /\ checking' = TRUE /\ check_status' = "continue"
  /\ check_list' = check_list \o [i \in 1..n |-> checks + 1]
  /\ lost' = IF thread = "off" THEN lost ELSE lost \cup {checks + 1}

(* The mode chooses the checkers.  A thread that still runs is not started *)
(* again, and nothing tells the caller.                                    *)
StartCheck(n) ==
  /\ core = "up" /\ ~checking /\ Request(n) /\ thread' = IF thread = "off" THEN "start" ELSE thread
  /\ UNCHANGED <<cancel, left, reported, core>>

CancelCheck ==
  /\ core = "up" /\ cancel' = TRUE
  /\ UNCHANGED <<checking, check_list, check_status, thread, left, checks, reported, lost, core>>

(* The destructor: without a thread it resets, else it joins.              *)
Destroy ==
  /\ core = "up" /\ cancel' = TRUE
  /\ IF thread = "off" THEN check_list' = <<>> /\ checking' = FALSE /\ core' = "gone"
     ELSE core' = "going" /\ UNCHANGED <<check_list, checking>>
  /\ UNCHANGED <<check_status, thread, left, checks, reported, lost>>

Joined ==
  /\ core = "going" /\ thread = "off" /\ core' = "gone"
  /\ UNCHANGED <<checking, cancel, check_list, check_status, thread, left, checks, reported, lost>>
-----------------------------------------------------------------------------
(* __RunOn                                                                 *)

Begin ==
  /\ thread = "start" /\ thread' = "loop" /\ left' = check_list
  /\ UNCHANGED <<checking, cancel, check_list, check_status, checks, reported, lost, core>>

Over == left = <<>> \/ cancel \/ check_status = "finish"

Check ==
  /\ thread = "loop" /\ ~Over /\ left' = Tail(left) /\ check_status' \in {"continue", "finish"}
  /\ UNCHANGED <<checking, cancel, check_list, thread, checks, reported, lost, core>>

(* __DumpCheckResult, which calls the application.                         *)
Report ==
  /\ thread = "loop" /\ Over /\ thread' = "reset" /\ reported' = Append(reported, checks)
  /\ UNCHANGED <<checking, cancel, check_list, check_status, left, checks, lost, core>>

(* Wrong: it stays busy.                                                   *)
ResetKeepsBusy ==
  /\ thread = "reset" /\ check_list' = <<>> /\ thread' = "ending"
  /\ UNCHANGED <<checking, cancel, check_status, left, checks, reported, lost, core>>

Reset ==
  /\ thread = "reset" /\ check_list' = <<>> /\ checking' = FALSE /\ thread' = "ending"
  /\ UNCHANGED <<cancel, check_status, left, checks, reported, lost, core>>

End ==
  /\ thread = "ending" /\ thread' = "off"
  /\ UNCHANGED <<checking, cancel, check_list, check_status, left, checks, reported, lost, core>>
-----------------------------------------------------------------------------
Thread == Begin \/ Check \/ Report \/ Reset \/ End
Calls == CancelCheck \/ Destroy \/ \E n \in 0..MaxCheckers : StartCheck(n)
Next == Calls \/ Thread \/ Joined
Spec == Init /\ [][Next]_sdtVars

(* A checker comes back: its queries have timeouts.                        *)
FairSpec == Spec /\ WF_sdtVars(Thread) /\ WF_sdtVars(Joined)
-----------------------------------------------------------------------------
(* Properties                                                              *)

TypeOK ==
  /\ checking \in BOOLEAN /\ cancel \in BOOLEAN /\ checks \in 0..MaxChecks
  /\ thread \in {"off", "start", "loop", "reset", "ending"} /\ core \in {"up", "going", "gone"}
  /\ Len(check_list) <= MaxCheckers /\ Len(left) <= MaxCheckers

(* While the thread goes through the list nobody changes it, and all it    *)
(* holds belongs to the check that runs.                                   *)
ListIsOwn ==
  thread \in {"loop", "reset"} => \A i \in DOMAIN check_list : check_list[i] = checks

(* A busy core has a thread that will make it free, but for a check that   *)
(* was accepted after the thread had made it free and before it was gone:  *)
(* that one never runs, and no check is accepted after it.                 *)
BusyHasThread ==
  /\ checking /\ lost = {} => thread \in {"start", "loop", "reset"}
  /\ \A c \in lost : c = checks

(* Every other check is reported once, in the order they were accepted.    *)
EveryCheckReports ==
  /\ \A i, j \in DOMAIN reported : i < j => reported[i] < reported[j]
  /\ thread = "off" => \A c \in 1..checks : c \in lost \/ \E i \in DOMAIN reported : reported[i] = c

(* A check ends, and so does a destructor that waits for it.               *)
ChecksEnd == (checking /\ lost = {} ~> ~checking \/ lost # {}) /\ (core = "going" ~> core = "gone")
=============================================================================
