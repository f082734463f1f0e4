---------------------------- MODULE ShortLinkTasks ----------------------------
(***************************************************************************)
(* The task manager of short connections                                   *)
(* (stn/src/shortlink_task_manager.cc) and the worker thread each running  *)
(* task has (stn/src/shortlink.cc).                                        *)
(*                                                                         *)
(* A worker is named after its task: a new one may get the address of the  *)
(* one before it.  A handler of the message queue changes the list at      *)
(* once, but then destroys workers one by one and waits for the thread of  *)
(* each; doom is what is left of that, after what the handler does then.   *)
(* The calls to NetCore are added by NetCoreTasks.                         *)
(*                                                                         *)
(* Not modelled: statistics, proxies, profiles and priorities; the end of  *)
(* a package that takes too long is a choice.                              *)
(***************************************************************************)
EXTENDS Naturals, Sequences, FiniteSets, Selection

CONSTANTS
  Tasks,
  NeedAuthed,   \* tasks that wait for a login
  RetryCount,   \* task.retry_count as the application gives it
  TotalTimeout, \* task.total_timetout in ticks, 0 when not given
  TryTime       \* ticks ComputeTaskTimeout allows for each try

ASSUME ShortLinkAssumption ==
  /\ NeedAuthed \subseteq Tasks /\ RetryCount \in Nat
  /\ TotalTimeout \in [Tasks -> Nat] /\ TryTime \in Nat \ {0}

VARIABLES
  lst_cmd_,         \* tasks of the manager
  profile,          \* profile[t]: the TaskProfile of t
  task,             \* task[t]: what changes of the Task itself
  age,              \* ticks since start_task_time or save_time
  worker, broken,   \* worker[t]: place of its thread; its breaker_ is broken
  doom, after,      \* workers the handler has to destroy; what it does then
  shortTimer,       \* a delayed __RunLoop is in the message queue
  messages,         \* immediate messages of the message queue
  tries             \* history: workers made for t, and answers of the long link

shortVars == <<lst_cmd_, profile, worker, broken, doom, after, shortTimer>>

Places  == {"none", "connect", "rw", "ok", "error", "done"}
Profile == [running_id : BOOLEAN, start_send_time : BOOLEAN, remain_retry_count : 0..RetryCount,
            retry_time_interval : {0, 1}]

NewProfile(retry_count) ==
  [running_id |-> FALSE, start_send_time |-> FALSE, remain_retry_count |-> retry_count,
   retry_time_interval |-> 0]

ShortInit ==
  /\ lst_cmd_ = {} /\ profile = [t \in Tasks |-> NewProfile(0)]
  /\ task = [t \in Tasks |-> [retry_count |-> RetryCount, total_timetout |-> TotalTimeout[t]]]
  /\ age = [t \in Tasks |-> 0]
  /\ worker = [t \in Tasks |-> "none"] /\ broken = {}
  /\ doom = {} /\ after = "none" /\ shortTimer = FALSE
  /\ messages = <<>> /\ tries = [t \in Tasks |-> 0]

Idle == doom = {} /\ after = "none"

On(type, t)  == [type |-> type, task |-> t]
Queued       == {messages[i] : i \in DOMAIN messages}

(* ComputeTaskTimeout.                                                     *)
TaskTimeout(t) ==
  LET whole == TryTime * (task[t].retry_count + 1)
      total == task[t].total_timetout
  IN IF 0 < total /\ total < whole THEN total ELSE whole

OutOfTime == {t \in lst_cmd_ : age[t] >= TaskTimeout(t)}
Running   == {t \in lst_cmd_ : profile[t].running_id}
-----------------------------------------------------------------------------
(* The worker thread of t.  After its breaker is broken it still may have  *)
(* an answer in hand.                                                      *)

WorkerStep(t, from, to) == worker[t] = from /\ worker' = [worker EXCEPT ![t] = to]

Connected(t) ==
  /\ WorkerStep(t, "connect", "rw")
  /\ messages' = Append(messages, On("OnSend", t))
  /\ UNCHANGED <<lst_cmd_, profile, task, age, broken, doom, after, shortTimer, tries>>

(* No address or no connection.  A look-up that __CancelAndWaitWorkerThread *)
(* cancels ends here, too.                                                 *)
ConnectFails(t) ==
  /\ WorkerStep(t, "connect", "error")
  /\ UNCHANGED <<lst_cmd_, profile, task, age, broken, doom, after, shortTimer, messages, tries>>

(* The answer is complete, or the connection fails.                        *)
Received(t, what) ==
  /\ t \notin broken /\ WorkerStep(t, "rw", what)
  /\ UNCHANGED <<lst_cmd_, profile, task, age, broken, doom, after, shortTimer, messages, tries>>

(* The thread sees that it is cancelled.                                   *)
Cancelled(t) ==
  /\ t \in broken /\ worker[t] \in {"connect", "rw"}
  /\ worker' = [worker EXCEPT ![t] = "done"]
  /\ UNCHANGED <<lst_cmd_, profile, task, age, broken, doom, after, shortTimer, messages, tries>>

(* ShortLink::__OnResponse.                                                *)
Respond(t) ==
  /\ worker[t] \in {"ok", "error"} /\ worker' = [worker EXCEPT ![t] = "done"]
  /\ messages' = Append(messages, [type |-> "OnResponse", task |-> t, status |-> worker[t]])
  /\ UNCHANGED <<lst_cmd_, profile, task, age, broken, doom, after, shortTimer, tries>>

Worker(t) == Connected(t) \/ ConnectFails(t) \/ Cancelled(t) \/ Respond(t)
             \/ \E what \in {"ok", "error"} : Received(t, what)
-----------------------------------------------------------------------------
(* __DeleteShortLink: the breaker is broken, the thread joined, and the    *)
(* messages that carry the worker as their title are cancelled.            *)

Break(t) ==
  /\ t \in doom /\ broken = {}
  /\ broken' = {t}
  /\ UNCHANGED <<lst_cmd_, profile, task, age, worker, doom, after, shortTimer, messages, tries>>

(* Wrong: the messages stay.                                               *)
DestroyKeeps(t) ==
  /\ t \in broken /\ worker[t] = "done"
  /\ worker' = [worker EXCEPT ![t] = "none"] /\ broken' = {} /\ doom' = doom \ {t}
  /\ UNCHANGED <<lst_cmd_, profile, task, age, after, shortTimer, messages, tries>>

Destroy(t) ==
  /\ t \in broken /\ worker[t] = "done"
  /\ worker' = [worker EXCEPT ![t] = "none"] /\ broken' = {} /\ doom' = doom \ {t}
  /\ messages' = Only(messages, {m \in Queued : m.type \in {"OnSend", "OnResponse"} => m.task # t})
  /\ UNCHANGED <<lst_cmd_, profile, task, age, after, shortTimer, tries>>
-----------------------------------------------------------------------------
(* Effects the handlers have on list, profiles and workers                 *)

InitSendParam(p) == [p EXCEPT !.running_id = FALSE, !.start_send_time = FALSE]

(* Where __SingleRespHandle charges a retry, with InitSendParam.           *)
Charged(p) == [NewProfile(p.remain_retry_count - 1) EXCEPT !.retry_time_interval = 1]

(* __SingleRespHandle without its callback: the tasks of over end, those   *)
(* of again are charged a retry.                                           *)
SingleResp(over, again) ==
  /\ lst_cmd_' = lst_cmd_ \ over
  /\ profile' = [t \in Tasks |->
       IF t \in again THEN Charged(profile[t]) ELSE profile[t]]
  /\ doom' = (over \cup again) \cap Running

(* Wrong: 0 > remain_retry_count.                                          *)
UsedUpBelow(S) == {t \in S : profile[t].remain_retry_count < 0}

(* Those of S that __SingleRespHandle ends when they fail.                 *)
UsedUp(S) == {t \in S : profile[t].remain_retry_count = 0}

(* StartTask.                                                              *)
Enlist(t) ==
  /\ lst_cmd_' = lst_cmd_ \cup {t} /\ profile' = [profile EXCEPT ![t] = NewProfile(task[t].retry_count)]
  /\ after' = "loop"

(* StopTask and ClearTasks.                                                *)
Drop(S) == lst_cmd_' = lst_cmd_ \ S /\ doom' = S \cap Running

(* RedoTasks.                                                              *)
RedoShort ==
  /\ profile' = [t \in Tasks |-> IF t \in lst_cmd_ THEN InitSendParam(profile[t]) ELSE profile[t]]
  /\ doom' = Running /\ after' = "loop"

(* What __RunOnStartTask starts or refuses.                                *)
Startable(passed, authed) ==
  {t \in lst_cmd_ \ Running : /\ profile[t].retry_time_interval = 0 \/ t \in passed
                              /\ t \in NeedAuthed => authed}

StartWorkers(S) ==
  /\ profile' = [t \in Tasks |-> IF t \in S THEN [profile[t] EXCEPT !.running_id = TRUE] ELSE profile[t]]
  /\ worker' = [t \in Tasks |-> IF t \in S THEN "connect" ELSE worker[t]]
  /\ tries' = [t \in Tasks |-> IF t \in S THEN tries[t] + 1 ELSE tries[t]]
=============================================================================
