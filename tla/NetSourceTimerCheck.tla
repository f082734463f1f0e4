-------------------------- MODULE NetSourceTimerCheck --------------------------
(***************************************************************************)
(* The periodic check of the addresses while a bad one is used             *)
(* (mars/stn/src/netsource_timercheck.cc).  Its functions run in the queue *)
(* of NetCore under a handler of their own: what is posted to them is      *)
(* inbox, the periodic message is counted.  A thread tries to connect; its *)
(* select ends by the breaker, by an answer or after ten seconds.          *)
(***************************************************************************)
EXTENDS Integers, Sequences

CONSTANTS MaxChanges, MaxChecks  \* bounds: of the environment, of the frequency limit

VARIABLES
  active,      \* what ActiveLogic last signalled
  inbox,       \* __StartCheck and __StopCheck, posted to the handler
  asyncpost,   \* asyncpost_ names a message
  periodics,   \* periodic messages of the handler that the queue holds
  joining,     \* __StopCheck is in join
  thread,      \* place of the thread
  broken,      \* the pipe of the breaker has something to read
  installed,   \* the handler of asyncreg_ is installed
  changes, checks

timerCheckVars == <<active, inbox, asyncpost, periodics, joining, thread, broken, installed, changes, checks>>

(* Built while the application is active.                                  *)
Init ==
  /\ active = TRUE /\ inbox = <<"start">> /\ asyncpost = FALSE /\ periodics = 0
  /\ joining = FALSE /\ thread = "off" /\ broken = FALSE /\ installed = TRUE
  /\ changes = 0 /\ checks = 0

Change == changes < MaxChanges /\ changes' = changes + 1

OnActiveChanged ==
  /\ Change /\ active' = ~active
  /\ inbox' = Append(inbox, IF active THEN "stop" ELSE "start")
  /\ UNCHANGED <<asyncpost, periodics, joining, thread, broken, installed, checks>>

Takes(call) == installed /\ ~joining /\ inbox # <<>> /\ Head(inbox) = call /\ inbox' = Tail(inbox)

(* Wrong: it does not look whether there is a periodic message.            *)
StartCheckAgain ==
  /\ Takes("start") /\ asyncpost' = TRUE /\ periodics' = periodics + 1
  /\ UNCHANGED <<active, joining, thread, broken, installed, changes, checks>>

StartCheck ==
  /\ Takes("start") /\ asyncpost' = TRUE
  /\ periodics' = IF asyncpost THEN periodics ELSE periodics + 1
  /\ UNCHANGED <<active, joining, thread, broken, installed, changes, checks>>

(* Without a thread it returns before it cancels the periodic message.     *)
StopCheck ==
  /\ Takes("stop") /\ joining' = (asyncpost /\ thread # "off") /\ broken' = (broken \/ joining')
  /\ UNCHANGED <<active, asyncpost, periodics, thread, installed, changes, checks>>

(* asyncreg_.Cancel takes all messages of the handler, the posted calls    *)
(* too, and uninstalls it.                                                 *)
Joined ==
  /\ joining /\ thread = "off" /\ joining' = FALSE /\ asyncpost' = FALSE
  /\ periodics' = 0 /\ inbox' = <<>> /\ installed' = FALSE
  /\ UNCHANGED <<active, thread, broken, changes, checks>>

(* The queue has no handler for what is posted from then on.               *)
Unheard ==
  /\ ~installed /\ inbox # <<>> /\ inbox' = Tail(inbox)
  /\ UNCHANGED <<active, asyncpost, periodics, joining, thread, broken, installed, changes, checks>>

(* __Check, when the type of the address calls for one.                    *)
Check ==
  /\ ~joining /\ periodics > 0 /\ thread = "off" /\ checks < MaxChecks
  /\ checks' = checks + 1 /\ thread' = "clear"
  /\ UNCHANGED <<active, inbox, asyncpost, periodics, joining, broken, installed, changes>>

(* NetCore::OnNetworkChange.                                               *)
CancelConnect ==
  /\ ~joining /\ Change /\ broken' = (broken \/ thread # "off")
  /\ UNCHANGED <<active, inbox, asyncpost, periodics, joining, thread, installed, checks>>
-----------------------------------------------------------------------------
(* __Run                                                                   *)

Run(from, to) ==
  /\ thread = from /\ thread' = to
  /\ UNCHANGED <<active, inbox, asyncpost, periodics, joining, installed, changes, checks>>

(* A break that came before is gone.  No address to try: the thread ends.  *)
Clear == Run("clear", "select") /\ broken' = FALSE
NoAddress == Run("clear", "off") /\ broken' = FALSE
Broken  == broken /\ Run("select", "off") /\ UNCHANGED broken
TimeOut == Run("select", "off") /\ UNCHANGED broken
Answer  == Run("select", "off") /\ UNCHANGED broken

RunsOn == Clear \/ NoAddress \/ Broken \/ TimeOut
Handlers == StartCheck \/ StopCheck \/ Joined \/ Unheard
Next == OnActiveChanged \/ CancelConnect \/ Check \/ Handlers \/ RunsOn \/ Answer
Spec == Init /\ [][Next]_timerCheckVars

(* The queue and the thread go on; nobody answers.                         *)
FairSpec == Spec /\ WF_timerCheckVars(Handlers) /\ WF_timerCheckVars(RunsOn)
-----------------------------------------------------------------------------
(* Properties                                                              *)

TypeOK ==
  /\ thread \in {"off", "clear", "select"} /\ changes \in 0..MaxChanges /\ checks \in 0..MaxChecks
  /\ joining => asyncpost

(* There is one periodic message when asyncpost_ says so and none          *)
(* otherwise, through any sequence of starts and stops.                    *)
OnePeriodic == periodics = IF asyncpost THEN 1 ELSE 0

(* An active application has its check until the first stop that found a   *)
(* thread at work.  After that one there is no check again.                *)
ActiveIsChecked ==
  /\ active /\ inbox = <<>> /\ installed /\ ~joining => asyncpost
  /\ ~installed => periodics = 0 /\ thread = "off"

(* __StopCheck comes back, although the break may be lost.                 *)
StopReturns == joining ~> ~joining
=============================================================================
