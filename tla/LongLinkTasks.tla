----------------------------- MODULE LongLinkTasks -----------------------------
(***************************************************************************)
(* The task manager of the long connection                                 *)
(* (stn/src/longlink_task_manager.cc) with the calls of NetCore that reach *)
(* it, in the thread of the message queue, over the connection of LongLink *)
(*                                                                         *)
(* A handler of the message queue runs alone, but not at once: it waits    *)
(* for the end of the connection thread in Disconnect, and requests are    *)
(* given to the connection one by one.  mq is what the handler in progress *)
(* has still to do.                                                        *)
(*                                                                         *)
(* Not modelled: pushes, statistics and network reports, the wake lock,    *)
(* and the interval between connection attempts (MakeSureConnected may     *)
(* start one or not).                                                      *)
(***************************************************************************)
EXTENDS LongLink

CONSTANTS
  Priority,     \* Priority[t]: a smaller one goes first
  SendOnly,     \* tasks that end when they are sent
  NeedAuthed,   \* tasks that wait for a login
  RetryCount,   \* task.retry_count
  AppConnects,  \* whether other threads start connections
  Stops,        \* tasks the application may stop
  Calls,        \* calls that concern all tasks and may be made ...
  MaxCalls      \* bound of the model: ... and how many of them

ASSUME TasksAssumption ==
  /\ Priority \in [Tasks -> Nat] /\ SendOnly \subseteq Tasks /\ NeedAuthed \subseteq Tasks
  /\ RetryCount \in Nat /\ MaxCalls \in Nat
  /\ AppConnects \in BOOLEAN /\ Stops \subseteq Tasks
  /\ Calls \subseteq {"RedoTasks", "OnNetworkChange", "ClearTasks", "TimerCheckSuc"}

VARIABLES
  lst_cmd_,         \* the tasks, sorted by priority
  task,             \* task[t]: the TaskProfile of t
  retry_interval_,  \* 0, or 1 for DEF_TASK_RETRY_INTERNAL
  timer,            \* a delayed __RunLoop is in the message queue
  mq, todo,         \* steps left of the handler; tasks left of __RunOnStartTask
  joining,          \* the connection whose thread the handler waits for
  outcome, sends,   \* history: how t ended; how often it was given to LongLink
  redos, calls, stopped  \* history: RedoTasks done; calls; t's StopTask returned

taskVars == <<lst_cmd_, task, retry_interval_, timer, outcome, sends, redos>>
mqVars   == <<mq, todo, joining>>
vars     == <<linkVars, taskVars, mqVars, calls, stopped>>

Profile == [running_id : BOOLEAN, start_send_time : BOOLEAN, remain_retry_count : 0..RetryCount,
            antiavalanche_checked : BOOLEAN]

NewProfile == [running_id |-> FALSE, start_send_time |-> FALSE, remain_retry_count |-> RetryCount,
               antiavalanche_checked |-> FALSE]

Listed == Members(lst_cmd_)

Init ==
  /\ LinkInit
  /\ lst_cmd_ = <<>> /\ task = [t \in Tasks |-> NewProfile]
  /\ retry_interval_ = 0 /\ timer = FALSE
  /\ mq = <<>> /\ todo = <<>> /\ joining = 0
  /\ outcome = [t \in Tasks |-> "new"] /\ sends = [t \in Tasks |-> 0]
  /\ redos = 0 /\ calls = 0 /\ stopped = {}
-----------------------------------------------------------------------------
(* Threads of the application and of netsource_timercheck.  NetCore posts  *)
(* all of this to the message queue, except MakeSureLongLinkConnect.       *)

AppStart(t) ==
  /\ outcome[t] = "new" /\ outcome' = [outcome EXCEPT ![t] = "posted"]
  /\ Post(On("StartTask", t))
  /\ UNCHANGED <<connectstatus_, disconnectinternalcode_, lstsenddata_, thread_, errtype, is_noop,
                 conn, server, lst_cmd_, task, retry_interval_, timer, sends, redos,
                 mqVars, calls, stopped>>

AppStop(t) ==
  /\ t \in Stops /\ outcome[t] # "new" /\ t \notin stopped /\ stopped' = stopped \cup {t}
  /\ Post(On("StopTask", t))
  /\ UNCHANGED <<connectstatus_, disconnectinternalcode_, lstsenddata_, thread_, errtype, is_noop,
                 conn, server, taskVars, mqVars, calls>>

AppCall(type) ==
  /\ calls < MaxCalls /\ calls' = calls + 1
  /\ type = "TimerCheckSuc" => connectstatus_ = "kConnected"
  /\ Post([type |-> type])
  /\ UNCHANGED <<connectstatus_, disconnectinternalcode_, lstsenddata_, thread_, errtype, is_noop,
                 conn, server, taskVars, mqVars, stopped>>

(* MakesureLonglinkConnected, and the monitor when the activity changes.   *)
AppConnect ==
  /\ AppConnects /\ MakeSureConnected
  /\ UNCHANGED <<lstsenddata_, errtype, is_noop, server, messages, taskVars, mqVars, calls, stopped>>
-----------------------------------------------------------------------------
(* Helpers                                                                 *)

InitSendParam(p) ==
  [p EXCEPT !.running_id = FALSE, !.start_send_time = FALSE]

Without(S)   == Only(lst_cmd_, Listed \ S)
EndAs(S, how) == [t \in Tasks |-> IF t \in S THEN how ELSE outcome[t]]

(* Wrong: the task stays in the list.                                      *)
End1KeepsListed(t, how) ==
  /\ UNCHANGED lst_cmd_ /\ outcome' = EndAs({t}, how)
  /\ retry_interval_' = IF how = "ok" THEN 0 ELSE retry_interval_

(* __SingleRespHandle with kEctOK, or with a failure that ends the task.   *)
End1(t, how) ==
  /\ lst_cmd_' = Without({t}) /\ outcome' = EndAs({t}, how)
  /\ retry_interval_' = IF how = "ok" THEN 0 ELSE retry_interval_

(* __BatchErrorRespHandle after the tasks of gone have ended: every other  *)
(* running task ends when its retries are used up and else is charged one. *)
BatchErrorResp(gone) ==
  LET running == {t \in Listed \ gone : task[t].running_id}
      ends    == {t \in running : task[t].remain_retry_count = 0}
  IN /\ lst_cmd_' = Without(gone \cup ends)
     /\ outcome' = EndAs(gone \cup ends, "failed")
     /\ task' = [t \in Tasks |->
                  IF t \in running \ ends
                  THEN InitSendParam([task[t] EXCEPT !.remain_retry_count = @ - 1])
                  ELSE task[t]]
     /\ retry_interval_' = IF lst_cmd_' # <<>> THEN 1 ELSE retry_interval_

(* CancelMessage(asyncreg_, 0): the callbacks of the connection, but not   *)
(* the delayed __RunLoop, and not what others posted.                      *)
Kept   == {m \in Members(messages) : m.type \notin {"OnSend", "OnResponse", "OnError"}}
Cancel == messages' = Only(messages, Kept)

Then(steps) == mq' = steps \o Tail(mq)
Finished    == mq' = Tail(mq)
-----------------------------------------------------------------------------
(* The steps of a handler                                                  *)

Disconnect ==
  /\ mq # <<>> /\ Head(mq) = "disconnect"
  /\ DisconnectBegin
  /\ IF thread_ = "none" THEN Finished ELSE Then(<<"join">>)
  /\ UNCHANGED <<connectstatus_, thread_, errtype, is_noop, conn, server, messages,
                 taskVars, todo, joining, calls, stopped>>

(* thread_.join(): nothing to wait for, or it waits for the thread that    *)
(* runs now ...                                                            *)
Join ==
  /\ mq # <<>> /\ Head(mq) = "join"
  /\ IF thread_ = "none" THEN Finished /\ UNCHANGED joining
                         ELSE Then(<<"joining">>) /\ joining' = conn
  /\ UNCHANGED <<linkVars, taskVars, todo, calls, stopped>>

(* ... to end.                                                             *)
Joined ==
  /\ mq # <<>> /\ Head(mq) = "joining" /\ (thread_ = "none" \/ conn # joining)
  /\ Finished /\ joining' = 0
  /\ UNCHANGED <<linkVars, taskVars, todo, calls, stopped>>

CancelMessage ==
  /\ mq # <<>> /\ Head(mq) = "cancel"
  /\ Cancel /\ Finished
  /\ UNCHANGED <<connectstatus_, disconnectinternalcode_, lstsenddata_, thread_, errtype, is_noop,
                 conn, server, taskVars, todo, joining, calls, stopped>>

(* The connect of NetworkChange, whose interval is 0.                      *)
Reconnect ==
  /\ mq # <<>> /\ Head(mq) = "connect"
  /\ MakeSureConnected /\ Finished
  /\ UNCHANGED <<lstsenddata_, errtype, is_noop, server, messages, taskVars, todo, joining,
                 calls, stopped>>

(* LongLinkTaskManager::RedoTasks up to its __RunLoop.                     *)
RedoTasks ==
  /\ mq # <<>> /\ Head(mq) = "redo"
  /\ task' = [t \in Tasks |-> IF t \in Listed THEN InitSendParam(task[t]) ELSE task[t]]
  /\ retry_interval_' = 0 /\ redos' = redos + 1
  /\ Cancel /\ Then(<<"loop">>)
  /\ UNCHANGED <<connectstatus_, disconnectinternalcode_, lstsenddata_, thread_, errtype, is_noop,
                 conn, server, lst_cmd_, timer, outcome, sends, todo, joining, calls, stopped>>

(* The end of ClearTasks.                                                  *)
Clear ==
  /\ mq # <<>> /\ Head(mq) = "clear"
  /\ Cancel /\ Finished
  /\ lst_cmd_' = <<>> /\ outcome' = EndAs(Listed, "cleared")
  /\ UNCHANGED <<connectstatus_, disconnectinternalcode_, lstsenddata_, thread_, errtype, is_noop,
                 conn, server, task, retry_interval_, timer, sends, redos, todo, joining,
                 calls, stopped>>

(* OnSessionTimeout, and what __BatchErrorRespHandle does for it.          *)
SessionTimeout ==
  /\ mq # <<>> /\ Head(mq) = "session"
  /\ Cancel /\ Then(<<"disconnect", "cancel", "noretry", "loop">>)
  /\ BatchErrorResp({})
  /\ UNCHANGED <<connectstatus_, disconnectinternalcode_, lstsenddata_, thread_, errtype, is_noop,
                 conn, server, timer, sends, redos, todo, joining, calls, stopped>>

NoRetryInterval ==
  /\ mq # <<>> /\ Head(mq) = "noretry"
  /\ retry_interval_' = 0 /\ Finished
  /\ UNCHANGED <<linkVars, lst_cmd_, task, timer, outcome, sends, redos, todo, joining,
                 calls, stopped>>
-----------------------------------------------------------------------------
(* __RunLoop                                                               *)

(* __RunOnTimeout ends the tasks out of time, over.  Then, or when the     *)
(* answer to a request is late, the connection is given up.                *)
RunLoop(over, late) ==
  /\ mq # <<>> /\ Head(mq) = "loop"
  /\ over \subseteq Listed /\ late \subseteq {t \in Listed : task[t].running_id /\ task[t].start_send_time}
  /\ IF over \cup late = {}
     THEN /\ IF lst_cmd_ = <<>> THEN Finished ELSE Then(<<"start">>)
          /\ UNCHANGED <<lst_cmd_, outcome, task, retry_interval_>>
     ELSE /\ Then(<<"disconnect", "cancel", "disconnect", "cancel", "start">>)
          /\ BatchErrorResp(over)
  /\ UNCHANGED <<linkVars, timer, sends, redos, todo, joining, calls, stopped>>

(* Wrong: a task on the connection is started again.                       *)
StartableRunning(t, passed) ==
  task[t].remain_retry_count < RetryCount => retry_interval_ = 0 \/ passed

(* Tasks __RunOnStartTask goes through; a retry waits until the interval   *)
(* since lastbatcherrortime_ has passed.                                   *)
Startable(t, passed) ==
  /\ ~task[t].running_id
  /\ task[t].remain_retry_count < RetryCount => retry_interval_ = 0 \/ passed

RunOnStartTask(passed) ==
  /\ mq # <<>> /\ Head(mq) = "start"
  /\ todo' = Only(lst_cmd_, {t \in Listed : Startable(t, passed)}) /\ Then(<<"each">>)
  /\ UNCHANGED <<linkVars, taskVars, joining, calls, stopped>>

Each(t) == mq # <<>> /\ Head(mq) = "each" /\ todo # <<>> /\ t = Head(todo)

SkipNotAuthed(t) ==
  /\ Each(t) /\ t \in NeedAuthed
  /\ todo' = Tail(todo)
  /\ UNCHANGED <<linkVars, taskVars, mq, joining, calls, stopped>>

(* Req2Buf or the avalanche check fails.  The first time they come before  *)
(* the connection is looked at.                                            *)
Refuse(t) ==
  /\ Each(t) /\ (task[t].antiavalanche_checked => connectstatus_ = "kConnected")
  /\ End1(t, "failed") /\ todo' = Tail(todo)
  /\ UNCHANGED <<linkVars, task, timer, sends, redos, mq, joining, calls, stopped>>

(* Not connected: perhaps a connection is started; the rest has to wait.   *)
BreakOff(t) ==
  /\ Each(t) /\ connectstatus_ # "kConnected"
  /\ MakeSureConnected \/ UNCHANGED <<thread_, conn, connectstatus_, disconnectinternalcode_>>
  /\ task' = [task EXCEPT ![t].antiavalanche_checked = TRUE] /\ todo' = <<>>
  /\ UNCHANGED <<lstsenddata_, errtype, is_noop, server, messages, lst_cmd_, retry_interval_,
                 timer, outcome, sends, redos, mq, joining, calls, stopped>>

(* The connection was lost since MakeSureConnected looked.                 *)
SendFail(t) ==
  /\ Each(t) /\ conn > 0 /\ connectstatus_ # "kConnected"
  /\ task' = [task EXCEPT ![t].antiavalanche_checked = TRUE] /\ todo' = Tail(todo)
  /\ UNCHANGED <<linkVars, lst_cmd_, retry_interval_, timer, outcome, sends, redos, mq, joining,
                 calls, stopped>>

SendTask(t) ==
  /\ Each(t) /\ Send(t)
  /\ task' = [task EXCEPT ![t].antiavalanche_checked = TRUE, ![t].running_id = TRUE]
  /\ sends' = [sends EXCEPT ![t] = @ + 1] /\ todo' = Tail(todo)
  /\ IF t \in SendOnly THEN End1(t, "ok") ELSE UNCHANGED <<lst_cmd_, outcome, retry_interval_>>
  /\ UNCHANGED <<connectstatus_, disconnectinternalcode_, thread_, errtype, is_noop, conn, server,
                 messages, timer, redos, mq, joining, calls, stopped>>

(* Wrong: no delayed __RunLoop while a task is on the connection.          *)
RunLoopEndIdle ==
  /\ mq # <<>> /\ Head(mq) = "each" /\ todo = <<>>
  /\ timer' = (timer \/ \E t \in Listed : ~task[t].running_id) /\ Finished
  /\ UNCHANGED <<linkVars, lst_cmd_, task, retry_interval_, outcome, sends, redos, todo,
                 joining, calls, stopped>>

(* A delayed __RunLoop is posted, or the one there is kept.                *)
RunLoopEnd ==
  /\ mq # <<>> /\ Head(mq) = "each" /\ todo = <<>>
  /\ timer' = (timer \/ lst_cmd_ # <<>>) /\ Finished
  /\ UNCHANGED <<linkVars, lst_cmd_, task, retry_interval_, outcome, sends, redos, todo,
                 joining, calls, stopped>>
-----------------------------------------------------------------------------
(* The message queue takes a message                                       *)

Take(type) == mq = <<>> /\ messages # <<>> /\ Head(messages).type = type
              /\ messages' = Tail(messages)

Timer ==
  /\ mq = <<>> /\ timer /\ timer' = FALSE /\ mq' = <<"loop">>
  /\ UNCHANGED <<linkVars, lst_cmd_, task, retry_interval_, outcome, sends, redos, todo,
                 joining, calls, stopped>>

(* The alarm of the connection monitor, after a connection was lost.       *)
AutoConnect ==
  /\ mq = <<>> /\ MakeSureConnected
  /\ UNCHANGED <<lstsenddata_, errtype, is_noop, server, messages, taskVars, mqVars, calls, stopped>>

SignalConnection ==
  /\ Take("kConnected") /\ mq' = <<"loop">>
  /\ UNCHANGED <<connectstatus_, disconnectinternalcode_, lstsenddata_, thread_, errtype, is_noop,
                 conn, server, taskVars, todo, joining, calls, stopped>>

(* Wrong: behind all others, whatever the priority.                        *)
StartTaskUnsorted(t) ==
  /\ Take("StartTask") /\ t = Head(messages).task /\ lst_cmd_' = Append(lst_cmd_, t)
  /\ outcome' = [outcome EXCEPT ![t] = "listed"] /\ mq' = <<"loop">>
  /\ UNCHANGED <<connectstatus_, disconnectinternalcode_, lstsenddata_, thread_, errtype, is_noop,
                 conn, server, task, retry_interval_, timer, sends, redos, todo, joining,
                 calls, stopped>>

StartTask(t) ==
  /\ Take("StartTask") /\ t = Head(messages).task
  /\ lst_cmd_' = Only(lst_cmd_, {u \in Listed : Priority[u] <= Priority[t]})
                 \o <<t>> \o Only(lst_cmd_, {u \in Listed : Priority[u] > Priority[t]})
  /\ outcome' = [outcome EXCEPT ![t] = "listed"] /\ mq' = <<"loop">>
  /\ UNCHANGED <<connectstatus_, disconnectinternalcode_, lstsenddata_, thread_, errtype, is_noop,
                 conn, server, task, retry_interval_, timer, sends, redos, todo, joining,
                 calls, stopped>>

StopTask(t) ==
  /\ Take("StopTask") /\ t = Head(messages).task
  /\ IF t \in Listed
     THEN Stop(t) /\ lst_cmd_' = Without({t}) /\ outcome' = EndAs({t}, "stopped")
     ELSE UNCHANGED <<lstsenddata_, lst_cmd_, outcome>>
  /\ UNCHANGED <<connectstatus_, disconnectinternalcode_, thread_, errtype, is_noop, conn, server,
                 task, retry_interval_, timer, sends, redos, mqVars, calls, stopped>>

(* Wrong: RedoTasks does not give up the connection.                       *)
ProgramKeepsLink(type) ==
  CASE type = "RedoTasks"       -> <<"redo">>
    [] type = "OnNetworkChange" -> <<"disconnect", "connect", "redo">>
    [] type = "ClearTasks"      -> <<"disconnect", "clear">>
    [] type = "TimerCheckSuc"   -> <<"disconnect">>

(* The calls of NetCore that concern all tasks.                            *)
Program(type) ==
  CASE type = "RedoTasks"       -> <<"disconnect", "redo">>
    [] type = "OnNetworkChange" -> <<"disconnect", "connect", "redo">>
    [] type = "ClearTasks"      -> <<"disconnect", "clear">>
    [] type = "TimerCheckSuc"   -> <<"disconnect">>

NetCoreCall(type) ==
  /\ Take(type) /\ mq' = Program(type)
  /\ UNCHANGED <<connectstatus_, disconnectinternalcode_, lstsenddata_, thread_, errtype, is_noop,
                 conn, server, taskVars, todo, joining, calls, stopped>>

OnSendTask(t) ==
  /\ Take("OnSend") /\ t = Head(messages).task
  /\ task' = IF t \in Listed THEN [task EXCEPT ![t].start_send_time = TRUE] ELSE task
  /\ UNCHANGED <<connectstatus_, disconnectinternalcode_, lstsenddata_, thread_, errtype, is_noop,
                 conn, server, lst_cmd_, retry_interval_, timer, outcome, sends, redos,
                 mqVars, calls, stopped>>

(* __OnResponse of an error; a bad package, kEctNetMsgXP, is one that      *)
(* disconnects twice.                                                      *)
OnErrorResponse ==
  /\ Take("OnError")
  /\ BatchErrorResp({})
  /\ \/ mq' = <<"disconnect", "cancel">>
     \/ mq' = <<"disconnect", "cancel", "disconnect", "cancel">>
  /\ UNCHANGED <<connectstatus_, disconnectinternalcode_, lstsenddata_, thread_, errtype, is_noop,
                 conn, server, timer, sends, redos, todo, joining, calls, stopped>>

(* Wrong: the answer to a task that is gone ends it once more.             *)
OnResponseUnchecked(t, handle) ==
  /\ Take("OnResponse") /\ t = Head(messages).task
  /\ End1(t, IF handle = "NoError" THEN "ok" ELSE "failed")
  /\ UNCHANGED <<connectstatus_, disconnectinternalcode_, lstsenddata_, thread_, errtype, is_noop,
                 conn, server, task, timer, sends, redos, mqVars, calls, stopped>>

(* __OnResponse of a package, with what Buf2Resp makes of it.              *)
OnResponse(t, handle) ==
  /\ Take("OnResponse") /\ t = Head(messages).task
  /\ IF t \notin Listed
     THEN UNCHANGED <<lst_cmd_, outcome, task, retry_interval_, mq>>
     ELSE CASE handle = "NoError" -> End1(t, "ok") /\ UNCHANGED <<task, mq>>
            [] handle = "TaskEnd" -> End1(t, "failed") /\ UNCHANGED <<task, mq>>
            [] handle = "Default" -> BatchErrorResp({}) /\ mq' = <<"disconnect", "cancel">>
            [] handle = "SessionTimeout" ->
                 mq' = <<"session">> /\ UNCHANGED <<lst_cmd_, outcome, task, retry_interval_>>
  /\ UNCHANGED <<connectstatus_, disconnectinternalcode_, lstsenddata_, thread_, errtype, is_noop,
                 conn, server, timer, sends, redos, todo, joining, calls, stopped>>
-----------------------------------------------------------------------------
Handles == {"NoError", "TaskEnd", "Default", "SessionTimeout"}

Handler ==
  \/ Disconnect \/ Join \/ Joined \/ CancelMessage \/ Reconnect \/ RedoTasks \/ Clear
  \/ SessionTimeout \/ NoRetryInterval \/ RunLoopEnd
  \/ \E over, late \in SUBSET Tasks : RunLoop(over, late)
  \/ \E passed \in BOOLEAN : RunOnStartTask(passed)
  \/ \E t \in Tasks : SkipNotAuthed(t) \/ Refuse(t) \/ BreakOff(t) \/ SendFail(t) \/ SendTask(t)

Message ==
  \/ SignalConnection \/ OnErrorResponse \/ AutoConnect
  \/ \E type \in Calls : NetCoreCall(type)
  \/ \E t \in Tasks : StartTask(t) \/ StopTask(t) \/ OnSendTask(t)
                      \/ \E handle \in Handles : OnResponse(t, handle)

App == \/ \E t \in Tasks : AppStart(t) \/ AppStop(t)
       \/ \E type \in Calls : AppCall(type)
       \/ AppConnect

Connection == LinkThread /\ UNCHANGED <<taskVars, mqVars, calls, stopped>>

Next == App \/ Message \/ Timer \/ Handler \/ Connection

Spec == Init /\ [][Next]_vars

(* The message queue and its timers run, time passes, and the connection   *)
(* thread does what it can do without the network: a connect ends, and a   *)
(* broken select returns.                                                  *)
Fairness ==
  /\ WF_vars(Handler) /\ WF_vars(Message) /\ WF_vars(Timer)
  /\ WF_vars(OwnStep /\ UNCHANGED <<taskVars, mqVars, calls, stopped>>)
  /\ \A t \in Tasks : SF_vars(\E over, late \in SUBSET Tasks : t \in over /\ RunLoop(over, late))

FairSpec == Spec /\ Fairness
-----------------------------------------------------------------------------
(* Properties                                                              *)

(* Types; the list is sorted, without repeats and holds the tasks that     *)
(* have not ended.                                                         *)
TypeOK ==
  /\ LinkTypeOK
  /\ lst_cmd_ \in Seq(Tasks) /\ Listed = {t \in Tasks : outcome[t] = "listed"}
  /\ \A i, j \in DOMAIN lst_cmd_ : i < j => /\ lst_cmd_[i] # lst_cmd_[j]
                                            /\ Priority[lst_cmd_[i]] <= Priority[lst_cmd_[j]]
  /\ task \in [Tasks -> Profile]
  /\ retry_interval_ \in {0, 1} /\ timer \in BOOLEAN
  /\ todo \in Seq(Tasks) /\ joining \in 0..MaxConns
  /\ outcome \in [Tasks -> {"new", "posted", "listed", "ok", "failed", "stopped", "cleared"}]
  /\ sends \in [Tasks -> Nat] /\ redos \in Nat /\ calls \in 0..MaxCalls
  /\ stopped \subseteq Tasks

(* Whatever is cancelled, a task in the list is looked at again: between   *)
(* two handlers a delayed __RunLoop is in the queue.                       *)
TimerArmed == mq = <<>> /\ lst_cmd_ # <<>> => timer

InFlight(t) ==
  \/ t \in server \/ \E i \in DOMAIN lstsenddata_ : lstsenddata_[i].task = t
  \/ On("OnResponse", t) \in Members(messages)

ErrorComes == \/ thread_ = "failed"
              \/ thread_ = "closing" /\ errtype # "kEctOK"
              \/ OnError \in Members(messages)

(* A task that counts as running is on the connection, or the error that   *)
(* takes it off the connection is on its way: no task is left waiting for  *)
(* an answer that cannot come.                                             *)
NoOrphan == mq = <<>> => \A t \in Listed : task[t].running_id => InFlight(t) \/ ErrorComes

(* A task in the list always has something that will move it on: the       *)
(* timer between two handlers, and the connection or its error when it runs. *)
TasksDriven == TimerArmed /\ NoOrphan

(* A request is sent on the connection it was made for, never on the next  *)
(* one, and is on it once.                                                 *)
FreshRequests ==
  \A i \in DOMAIN lstsenddata_ : lstsenddata_[i].task # "noop" =>
    /\ lstsenddata_[i].conn = conn
    /\ lstsenddata_[i].task \notin server
    /\ \A j \in DOMAIN lstsenddata_ : lstsenddata_[i].task = lstsenddata_[j].task => i = j

(* A task is sent once and again for each retry it is charged and for each *)
(* RedoTasks: stale callbacks and cancelled answers give it no more.       *)
RetryBound ==
  \A t \in Tasks : sends[t] <= 1 + (RetryCount - task[t].remain_retry_count) + redos

(* The manager is a task service: each task ends once.                     *)
Ledger == INSTANCE TaskLedger WITH
  state <- [t \in Tasks |-> CASE outcome[t] \in {"new", "posted"} -> "new"
                              [] outcome[t] = "listed" -> "pending"
                              [] OTHER -> outcome[t]],
  tries <- sends
ImplementsLedger == Ledger!Spec

(* Every task ends, and every handler of the message queue does.           *)
EveryTaskEnds == \A t \in Tasks : outcome[t] = "listed" ~> outcome[t] # "listed"
HandlersEnd   == mq # <<>> ~> mq = <<>>
AllEnds       == EveryTaskEnds /\ HandlersEnd

(* stn_logic.h, lines 100 to 102: RedoTasks reconnects the long link and   *)
(* redoes all tasks.                                                       *)
RedoIsDone == (mq # <<>> /\ mq[Len(mq)] = "redo") ~> (mq = <<>> \/ mq[Len(mq)] # "redo")
=============================================================================
