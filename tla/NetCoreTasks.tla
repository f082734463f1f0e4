----------------------------- MODULE NetCoreTasks -----------------------------
(***************************************************************************)
(* The way of a task through NetCore (stn/src/net_core.cc): to the manager *)
(* of the long link or of short links, from there to its end or to the     *)
(* zombie list (stn/src/zombie_task_manager.cc), and from there back.      *)
(*                                                                         *)
(* The short links are those of ShortLinkTasks.  Of the long link only     *)
(* what LongLinkTasks shows it to promise is left: a task it has taken     *)
(* ends once.  All of this runs in the thread of one message queue; a task *)
(* that leaves the zombie list is posted to that queue like one of the     *)
(* application.                                                            *)
(*                                                                         *)
(* Not modelled: hooks (nothing sets them), pushes, connection reports,    *)
(* address scores.                                                         *)
(***************************************************************************)
EXTENDS ShortLinkTasks, SequencesExt

CONSTANTS
  Channel,        \* channel_select of each task
  Fast,           \* tasks with kChannelFastStrategy
  SendOnly,       \* tasks without an answer
  Sensitive,      \* network_status_sensitive
  RetryInterval,  \* RETRY_INTERVAL of the zombie list in ticks
  Stops, Calls,   \* tasks the application may stop; other calls it may make
  MaxCalls,       \* bound of the model: how many of them
  MaxConnects     \* bound of the model: how often the long link connects

ASSUME NetCoreAssumption ==
  /\ Channel \in [Tasks -> {"short", "long", "both"}]
  /\ Fast \subseteq Tasks /\ SendOnly \subseteq Tasks /\ Sensitive \subseteq Tasks
  /\ Stops \subseteq Tasks /\ Calls \subseteq {"ClearTasks", "RedoTasks", "OnNetworkChange"}
  /\ RetryInterval \in Nat \ {0} /\ MaxCalls \in Nat /\ MaxConnects \in Nat

VARIABLES
  longTasks,       \* tasks of the long link manager
  connected,       \* the long link is kConnected
  lsttask_,        \* the zombie list
  zombieTimer,     \* the periodic __TimerChecker is in the message queue
  idleTime,        \* ticks since net_core_last_start_task_time_
  outcome,         \* history: how t ended
  calls, connects, stopped

zombieVars == <<lsttask_, zombieTimer, idleTime>>
appVars    == <<calls, connects, stopped>>
vars == <<shortVars, task, age, messages, tries, longTasks, connected, zombieVars, outcome, appVars>>

Init ==
  /\ ShortInit
  /\ longTasks = {} /\ connected = FALSE
  /\ lsttask_ = {} /\ zombieTimer = FALSE /\ idleTime = 0
  /\ outcome = [t \in Tasks |-> "new"]
  /\ calls = 0 /\ connects = 0 /\ stopped = {}

-----------------------------------------------------------------------------
(* Application and long link                                               *)

AppStart(t) ==
  /\ outcome[t] = "new" /\ outcome' = [outcome EXCEPT ![t] = "posted"]
  /\ messages' = Append(messages, On("StartTask", t))
  /\ UNCHANGED <<shortVars, task, age, tries, longTasks, connected, zombieVars, appVars>>

AppStop(t) ==
  /\ t \in Stops \ stopped /\ outcome[t] # "new" /\ stopped' = stopped \cup {t}
  /\ messages' = Append(messages, On("StopTask", t))
  /\ UNCHANGED <<shortVars, task, age, tries, longTasks, connected, zombieVars, outcome,
                 calls, connects>>

AppCall(type) ==
  /\ calls < MaxCalls /\ calls' = calls + 1
  /\ messages' = Append(messages, [type |-> type])
  /\ UNCHANGED <<shortVars, task, age, tries, longTasks, connected, zombieVars, outcome,
                 connects, stopped>>

LongConnects ==
  /\ ~connected /\ connects < MaxConnects
  /\ connected' = TRUE /\ connects' = connects + 1
  /\ messages' = Append(messages, [type |-> "kConnected"])
  /\ UNCHANGED <<shortVars, task, age, tries, longTasks, zombieVars, outcome, calls, stopped>>

LongBreaks ==
  /\ connected /\ connected' = FALSE
  /\ UNCHANGED <<shortVars, task, age, messages, tries, longTasks, zombieVars, outcome, appVars>>

(* Time passes.  No age is counted further than it can matter.             *)
Tick ==
  /\ age' = [t \in Tasks |->
       IF t \in longTasks \cup lst_cmd_ \cup lsttask_
          /\ (age[t] < TaskTimeout(t) \/ age[t] < task[t].total_timetout)
       THEN age[t] + 1 ELSE age[t]]
  /\ idleTime' = IF idleTime < RetryInterval THEN idleTime + 1 ELSE idleTime
  /\ UNCHANGED <<shortVars, task, messages, tries, longTasks, connected, lsttask_, zombieTimer,
                 outcome, appVars>>
-----------------------------------------------------------------------------
(* NetCore::__CallBack and the zombie list                                 *)

EndAs(S, how, U, other) ==
  outcome' = [t \in Tasks |-> IF t \in S THEN how ELSE IF t \in U THEN other ELSE outcome[t]]

Left(t) == IF task[t].total_timetout > age[t] THEN task[t].total_timetout - age[t] ELSE 0

(* What enters or leaves the zombie list takes the rest of its time along. *)
Reckon(S) ==
  /\ task' = [t \in Tasks |-> IF t \in S THEN [retry_count |-> 0, total_timetout |-> Left(t)]
                                         ELSE task[t]]
  /\ age' = [t \in Tasks |-> IF t \in S THEN 0 ELSE age[t]]

(* ZombieTaskManager::SaveTask takes a task that has time left.            *)
Savable(S) == {t \in S : t \notin Sensitive /\ Left(t) > 0}

(* Wrong: SaveTask does not start the checker.                             *)
CallBackNoTimer(fail, end) ==
  LET saved == Savable(fail)
  IN /\ lsttask_' = lsttask_ \cup saved /\ UNCHANGED zombieTimer
     /\ Reckon(saved) /\ EndAs((fail \cup end) \ saved, "failed", {}, "")

(* Wrong: the application hears of the end of a task that is saved.        *)
CallBackEndsSaved(fail, end) ==
  LET saved == Savable(fail)
  IN /\ lsttask_' = lsttask_ \cup saved
     /\ zombieTimer' = (zombieTimer \/ saved # {})
     /\ Reckon(saved) /\ EndAs(fail \cup end, "failed", {}, "")

(* The tasks of fail have used up their tries or their time and may be     *)
(* saved; those of end may not.                                            *)
CallBack(fail, end) ==
  LET saved == Savable(fail)
  IN /\ lsttask_' = lsttask_ \cup saved
     /\ zombieTimer' = (zombieTimer \/ saved # {})
     /\ Reckon(saved) /\ EndAs((fail \cup end) \ saved, "failed", {}, "")

NoCallBack == UNCHANGED <<lsttask_, zombieTimer, task, age, outcome>>

Expired == {t \in lsttask_ : Left(t) = 0}

(* Wrong: what is posted stays in the list.                                *)
RestartKeeps(S, ok, queue) ==
  LET again == SetToSeq(S \ Expired)
  IN /\ lsttask_' = lsttask_ \ Expired /\ Reckon(S \ Expired)
     /\ messages' = queue \o [i \in DOMAIN again |-> On("StartTask", again[i])]
     /\ EndAs(S \cap Expired, "failed", ok, "ok")

(* Zombies of S are posted like new tasks, but end if their time is over;  *)
(* the tasks of ok have ended well.                                        *)
Restart(S, ok, queue) ==
  LET again == SetToSeq(S \ Expired)
  IN /\ lsttask_' = lsttask_ \ S /\ Reckon(S \ Expired)
     /\ messages' = queue \o [i \in DOMAIN again |-> On("StartTask", again[i])]
     /\ EndAs(S \cap Expired, "failed", ok, "ok")
-----------------------------------------------------------------------------
(* The message queue takes a message                                       *)

Take(type)    == Idle /\ messages # <<>> /\ Head(messages).type = type
TakeOf(type, t) == Take(type) /\ Head(messages).task = t

(* Invalid parameters, no channel, no network, or a short link for a task  *)
(* without an answer.                                                      *)
Reject(t) ==
  /\ TakeOf("StartTask", t) /\ messages' = Tail(messages)
  /\ EndAs({t}, "failed", {}, "")
  /\ UNCHANGED <<shortVars, task, age, tries, longTasks, connected, zombieVars, appVars>>

UsesLong(t) == \/ Channel[t] = "long"
               \/ Channel[t] = "both" /\ connected /\ (t \in Fast => longTasks = {})

StartLong(t) ==
  /\ TakeOf("StartTask", t) /\ UsesLong(t) /\ messages' = Tail(messages)
  /\ longTasks' = longTasks \cup {t} /\ idleTime' = 0
  /\ EndAs({t}, "pending", {}, "")
  /\ UNCHANGED <<shortVars, task, age, tries, connected, lsttask_, zombieTimer, appVars>>

StartShort(t) ==
  /\ TakeOf("StartTask", t) /\ ~UsesLong(t) /\ t \notin SendOnly /\ messages' = Tail(messages)
  /\ Enlist(t) /\ idleTime' = 0
  /\ EndAs({t}, "pending", {}, "")
  /\ UNCHANGED <<worker, broken, doom, shortTimer, task, age, tries, longTasks, connected,
                 lsttask_, zombieTimer, appVars>>

StopTask(t) ==
  /\ TakeOf("StopTask", t) /\ messages' = Tail(messages)
  /\ longTasks' = longTasks \ {t} /\ lsttask_' = lsttask_ \ {t} /\ Drop({t} \cap lst_cmd_)
  /\ EndAs({t} \cap (longTasks \cup lsttask_ \cup lst_cmd_), "stopped", {}, "")
  /\ UNCHANGED <<profile, worker, broken, after, shortTimer, task, age, tries, connected,
                 zombieTimer, idleTime, appVars>>

ClearTasks ==
  /\ Take("ClearTasks") /\ messages' = Tail(messages)
  /\ longTasks' = {} /\ lsttask_' = {} /\ Drop(lst_cmd_)
  /\ EndAs(longTasks \cup lsttask_ \cup lst_cmd_, "cleared", {}, "")
  /\ UNCHANGED <<profile, worker, broken, after, shortTimer, task, age, tries, connected,
                 zombieTimer, idleTime, appVars>>

RedoTasks ==
  /\ Take("RedoTasks") /\ messages' = Tail(messages) /\ RedoShort
  /\ UNCHANGED <<lst_cmd_, worker, broken, shortTimer, task, age, tries, longTasks, connected,
                 zombieVars, outcome, appVars>>

OnNetworkChange ==
  /\ Take("OnNetworkChange") /\ Restart(lsttask_, {}, Tail(messages)) /\ RedoShort
  /\ UNCHANGED <<lst_cmd_, worker, broken, shortTimer, tries, longTasks, connected,
                 zombieTimer, idleTime, appVars>>

(* __OnLongLinkConnStatusChange, and the report of the connection.         *)
LongConnected ==
  /\ Take("kConnected") /\ Restart(lsttask_, {}, Tail(messages))
  /\ UNCHANGED <<shortVars, tries, longTasks, connected, zombieTimer, idleTime, appVars>>

OnSend(t) ==
  /\ TakeOf("OnSend", t) /\ messages' = Tail(messages)
  /\ profile' = IF t \in Running THEN [profile EXCEPT ![t].start_send_time = TRUE] ELSE profile
  /\ UNCHANGED <<lst_cmd_, worker, broken, doom, after, shortTimer, task, age, tries, longTasks,
                 connected, zombieVars, outcome, appVars>>
-----------------------------------------------------------------------------
(* Answers                                                                 *)

(* ShortLinkTaskManager::OnSessionTimeout.                                 *)
SessionTimeout ==
  LET dead == UsedUp(lst_cmd_)
  IN SingleResp(dead, lst_cmd_ \ dead) /\ CallBack(dead, {}) /\ after' = "loop"

Fail1(t) == LET dead == UsedUp({t}) IN SingleResp(dead, {t} \ dead) /\ CallBack(dead, {})

(* __OnResponse of an error, or of an answer Buf2Resp cannot read; nothing *)
(* happens if the worker is not found in the list.                         *)
OnError(t) ==
  /\ TakeOf("OnResponse", t) /\ messages' = Tail(messages)
  /\ IF t \in Running THEN Fail1(t) ELSE UNCHANGED <<lst_cmd_, profile, doom>> /\ NoCallBack
  /\ UNCHANGED <<worker, broken, after, shortTimer, tries, longTasks, connected, idleTime, appVars>>

(* __OnResponse of an answer, with what Buf2Resp makes of it.              *)
OnAnswer(t, handle) ==
  /\ TakeOf("OnResponse", t) /\ Head(messages).status = "ok" /\ t \in Running
  /\ \/ /\ handle = "NoError" /\ SingleResp({t}, {})
        /\ Restart(lsttask_, {t}, Tail(messages)) /\ UNCHANGED <<zombieTimer, after>>
     \/ /\ handle = "TaskEnd" /\ SingleResp({t}, {})
        /\ CallBack({}, {t}) /\ messages' = Tail(messages) /\ UNCHANGED after
     \/ handle = "SessionTimeout" /\ SessionTimeout /\ messages' = Tail(messages)
  /\ UNCHANGED <<worker, broken, shortTimer, tries, longTasks, connected, idleTime, appVars>>

(* The long link ends a task: with its answer, with an error that the next *)
(* try will not mend, or because tries or time are used up.                *)
LongEnd(t, how) ==
  /\ Idle /\ t \in longTasks /\ longTasks' = longTasks \ {t}
  /\ \/ /\ how = "ok" /\ tries' = [tries EXCEPT ![t] = @ + 1]
        /\ Restart(lsttask_, {t}, messages) /\ UNCHANGED zombieTimer
     \/ how = "fail" /\ CallBack({t}, {}) /\ UNCHANGED <<messages, tries>>
     \/ how = "end" /\ CallBack({}, {t}) /\ UNCHANGED <<messages, tries>>
  /\ UNCHANGED <<shortVars, connected, idleTime, appVars>>

(* A session timeout the long link finds concerns the short links as well. *)
LongSessionTimeout ==
  /\ Idle /\ longTasks # {} /\ SessionTimeout
  /\ UNCHANGED <<worker, broken, shortTimer, messages, tries, longTasks, connected, idleTime, appVars>>
-----------------------------------------------------------------------------
(* Delayed messages and the rest of handlers                               *)

ShortTimer ==
  /\ Idle /\ shortTimer /\ shortTimer' = FALSE /\ after' = "loop"
  /\ UNCHANGED <<lst_cmd_, profile, worker, broken, doom, task, age, messages, tries, longTasks,
                 connected, zombieVars, outcome, appVars>>

(* ZombieTaskManager::__TimerChecker.                                      *)
ZombieTimer ==
  /\ Idle /\ zombieTimer
  /\ LET due == IF idleTime < RetryInterval THEN {} ELSE {t \in lsttask_ : age[t] >= RetryInterval}
     IN Restart(Expired \cup due, {}, messages)
  /\ zombieTimer' = (lsttask_' # {})
  /\ UNCHANGED <<shortVars, tries, longTasks, connected, idleTime, appVars>>

(* __RunLoop as far as __RunOnTimeout; an answer that is late is a choice. *)
RunLoop(late) ==
  /\ doom = {} /\ after = "loop"
  /\ late \subseteq {t \in Running : profile[t].start_send_time} \ OutOfTime
  /\ IF lst_cmd_ = {}
     THEN after' = "none" /\ UNCHANGED <<lst_cmd_, profile, doom>> /\ NoCallBack
     ELSE LET dead == OutOfTime \cup UsedUp(late)
          IN SingleResp(dead, late \ dead) /\ CallBack(dead, {}) /\ after' = "start"
  /\ UNCHANGED <<worker, broken, shortTimer, messages, tries, longTasks, connected, idleTime, appVars>>

(* Wrong: nothing is posted while all tasks run.                           *)
RunOnStartTaskIdle(passed, authed, refused) ==
  /\ doom = {} /\ after = "start" /\ after' = "none"
  /\ refused \subseteq Startable(passed, authed)
  /\ lst_cmd_' = lst_cmd_ \ refused /\ StartWorkers(Startable(passed, authed) \ refused)
  /\ EndAs(refused, "failed", {}, "")
  /\ shortTimer' = (shortTimer \/ \E t \in lst_cmd_' : ~profile'[t].running_id)
  /\ UNCHANGED <<broken, doom, task, age, messages, longTasks, connected, zombieVars, appVars>>

(* __RunOnStartTask: a retry waits for its interval, a task may be refused *)
(* (Req2Buf, avalanche check), the others get a worker.                    *)
RunOnStartTask(passed, authed, refused) ==
  /\ doom = {} /\ after = "start" /\ after' = "none"
  /\ refused \subseteq Startable(passed, authed)
  /\ lst_cmd_' = lst_cmd_ \ refused /\ StartWorkers(Startable(passed, authed) \ refused)
  /\ EndAs(refused, "failed", {}, "")
  /\ shortTimer' = (shortTimer \/ lst_cmd_' # {})
  /\ UNCHANGED <<broken, doom, task, age, messages, longTasks, connected, zombieVars, appVars>>
-----------------------------------------------------------------------------
Handles == {"NoError", "TaskEnd", "SessionTimeout"}

Rest == UNCHANGED <<longTasks, connected, zombieVars, outcome, appVars>>

Handler == \/ \E t \in Tasks : (Break(t) \/ Destroy(t)) /\ Rest
           \/ \E late \in SUBSET Tasks : RunLoop(late)
           \/ \E passed, refused \in SUBSET Tasks, authed \in BOOLEAN :
                 RunOnStartTask(passed, authed, refused)

Message ==
  \/ ClearTasks \/ RedoTasks \/ OnNetworkChange \/ LongConnected
  \/ \E t \in Tasks : \/ Reject(t) \/ StartLong(t) \/ StartShort(t) \/ StopTask(t)
                      \/ OnSend(t) \/ OnError(t)
                      \/ \E handle \in Handles : OnAnswer(t, handle)

LongLink == \/ \E t \in Tasks, how \in {"ok", "fail", "end"} : LongEnd(t, how)
            \/ LongSessionTimeout

App == \/ \E t \in Tasks : AppStart(t) \/ AppStop(t)
       \/ \E type \in Calls : AppCall(type)
       \/ LongConnects \/ LongBreaks

Next == \/ App \/ Message \/ LongLink \/ Handler \/ ShortTimer \/ ZombieTimer \/ Tick
        \/ (\E t \in Tasks : Worker(t)) /\ Rest

Spec == Init /\ [][Next]_vars

(* The queue and its timers run, time passes, a worker that was told to    *)
(* end does, and the long link ends what it has taken (EveryTaskEnds of    *)
(* LongLinkTasks).                                                         *)
Fairness ==
  /\ WF_vars(Handler) /\ WF_vars(Message) /\ WF_vars(Tick)
  /\ SF_vars(ShortTimer) /\ SF_vars(ZombieTimer)
  /\ \A t \in Tasks : /\ WF_vars((Cancelled(t) \/ Respond(t)) /\ Rest)
                      /\ SF_vars(LongEnd(t, "fail"))

FairSpec == Spec /\ Fairness
-----------------------------------------------------------------------------
(* Properties                                                              *)

(* Types; what a task may still take never grows beyond what it was given. *)
TypeOK ==
  /\ lst_cmd_ \subseteq Tasks /\ longTasks \subseteq Tasks /\ lsttask_ \subseteq Tasks
  /\ profile \in [Tasks -> Profile]
  /\ \A t \in Tasks : /\ task[t].retry_count \in 0..RetryCount
                      /\ task[t].total_timetout \in 0..TotalTimeout[t]
  /\ age \in [Tasks -> Nat] /\ tries \in [Tasks -> Nat]
  /\ worker \in [Tasks -> Places] /\ broken \subseteq doom /\ doom \subseteq Tasks
  /\ after \in {"none", "loop", "start"}
  /\ {shortTimer, zombieTimer, connected} \subseteq BOOLEAN
  /\ idleTime \in 0..RetryInterval
  /\ outcome \in [Tasks -> {"new", "posted", "pending", "ok", "failed", "stopped", "cleared"}]
  /\ calls \in 0..MaxCalls /\ connects \in 0..MaxConnects /\ stopped \subseteq Tasks

Posts(t) == Cardinality({i \in DOMAIN messages : messages[i] = On("StartTask", t)})
Owners(t) == Cardinality({S \in {<<"long", longTasks>>, <<"short", lst_cmd_>>, <<"zombie", lsttask_>>} :
                            t \in S[2]})

(* However a task moves between the managers, the zombie list and the      *)
(* queue, exactly one of them has it until it ends, and none afterwards.   *)
OneOwner ==
  \A t \in Tasks : Owners(t) + Posts(t) = IF outcome[t] \in {"posted", "pending"} THEN 1 ELSE 0

(* Between two handlers the workers there are are those of running tasks:  *)
(* none is left behind, none is missing.                                   *)
WorkersOwned == Idle => {t \in Tasks : worker[t] # "none"} = Running

(* No message of a destroyed worker is in the queue: the next worker may   *)
(* get its address and with it its answer.                                 *)
NoStaleAnswer ==
  \A m \in Queued : m.type \in {"OnSend", "OnResponse"} => worker[m.task] # "none"

(* Workers and their messages belong to the tasks that run.                *)
WorkersSound == WorkersOwned /\ NoStaleAnswer

(* Who waits is looked at again.                                           *)
TimersArmed == Idle => (lst_cmd_ # {} => shortTimer) /\ (lsttask_ # {} => zombieTimer)

(* NetCore is a task service like the managers under it.                   *)
Ledger == INSTANCE TaskLedger WITH
  state <- [t \in Tasks |-> IF outcome[t] = "posted" THEN "pending" ELSE outcome[t]], tries <- tries
ImplementsLedger == Ledger!Spec

(* Every task ends: the way through the zombie list does not go on for     *)
(* ever.  No handler waits for ever for a worker.                          *)
EveryTaskEnds == \A t \in Tasks : outcome[t] = "pending" ~> outcome[t] # "pending"
HandlersEnd   == ~Idle ~> Idle
AllEnds       == EveryTaskEnds /\ HandlersEnd
=============================================================================
