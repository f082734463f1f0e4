------------------------------ MODULE ActiveSync ------------------------------
(***************************************************************************)
(* Three users of alarms and the signals between them: ActiveLogic         *)
(* (mars/baseevent/src/active_logic.cc), TimingSync (mars/stn/src/         *)
(* timing_sync.cc) and LongLinkConnectMonitor                              *)
(* (mars/stn/src/longlink_connect_monitor.cc).                             *)
(*                                                                         *)
(* Two queues handle their messages at the same time: the default queue    *)
(* (foreground changes, the alarms of ActiveLogic and TimingSync) and the  *)
(* queue of NetCore (statuses of the connection, network changes, the      *)
(* alarm of the monitor).  What a handler has still to do is todo[q].  The *)
(* interval of the monitor is a choice: connect now, or start the alarm.   *)
(***************************************************************************)
EXTENDS Alarm

CONSTANT MaxMoves  \* bound: foreground and network changes, connects, early alarms

ASSUME UsersAssumption ==
  /\ Alarms = {"active", "sync", "monitor"} /\ MaxMoves \in Nat
  /\ Own = [a \in Alarms |-> IF a = "monitor" THEN "net" ELSE "def"]

VARIABLES
  todo,          \* todo[q]: steps left of the handler that runs in q
  isforeground, isactive,
  since,         \* lastforegroundchangetime_
  link,          \* connectstatus_ of the connection: "connecting", "connected", "none"
  heardUp,       \* whether TimingSync last heard of a connection, not of its end
  moves          \* moves of the environment

syncVars == <<alarmVars, todo, isforeground, isactive, since, link, heardUp, moves>>
restVars == <<isforeground, isactive, since, link, heardUp, moves>>

(* NetCore is up, the first connection is being made.                      *)
Init ==
  /\ AlarmInit({"active", "sync"})
  /\ todo = [q \in Queues |-> <<>>]
  /\ isforeground = FALSE /\ isactive = TRUE /\ since = 0
  /\ link = "connecting" /\ heardUp = FALSE
  /\ moves = 0

Move == moves < MaxMoves /\ moves' = moves + 1
Do(op, a) == [op |-> op, on |-> a]
News(kind) == queue' = [queue EXCEPT !["net"] = Append(@, Message(kind, "none"))]
Free(q)  == todo[q] = <<>> /\ queue[q] # <<>>
Arrived(q, kind) == Free(q) /\ Head(queue[q]).kind = kind
Rest(q)  == Tail(queue[q])

(* OnActiveChanged, OnNetworkChange: a waiting alarm starts again.         *)
Resync == <<Do("ifwaiting", "sync")>>
AutoIntervalConnect == <<Do("cancel", "monitor"), Do("interval", "monitor")>>
SignalActive == AutoIntervalConnect \o Resync

Handle(q, steps) ==
  /\ queue' = [queue EXCEPT ![q] = Rest(q)] /\ todo' = [todo EXCEPT ![q] = steps]
  /\ UNCHANGED <<clock, due, timers>>
-----------------------------------------------------------------------------
(* ActiveLogic                                                             *)

Flip ==
  /\ Move
  /\ \E kind \in {"foreground", "background"} :
       queue' = [queue EXCEPT !["def"] = Append(@, Message(kind, "none"))]
  /\ UNCHANGED <<clock, due, timers, todo, isforeground, isactive, since, link, heardUp>>

(* Wrong: the alarm does not start again in the background.                *)
OnForegroundNoStart(kind) ==
  /\ Arrived("def", kind) /\ (kind = "foreground") # isforeground
  /\ isforeground' = (kind = "foreground") /\ isactive' = TRUE /\ since' = clock
  /\ Handle("def", <<Do("cancel", "active")>>
                   \o AutoIntervalConnect \o (IF isactive THEN <<>> ELSE SignalActive))
  /\ UNCHANGED <<link, heardUp, moves>>

OnForeground(kind) ==
  /\ Arrived("def", kind) /\ (kind = "foreground") # isforeground
  /\ isforeground' = (kind = "foreground") /\ isactive' = TRUE /\ since' = clock
  /\ Handle("def", <<Do("cancel", "active")>>
                   \o (IF kind = "background" THEN <<Do("start", "active")>> ELSE <<>>)
                   \o AutoIntervalConnect \o (IF isactive THEN <<>> ELSE SignalActive))
  /\ UNCHANGED <<link, heardUp, moves>>

OnSameForeground(kind) ==
  /\ Arrived("def", kind) /\ (kind = "foreground") = isforeground
  /\ Handle("def", <<>>) /\ UNCHANGED restVars

OnInActive ==
  /\ Arrived("def", "run") /\ Head(queue["def"]).alarm = "active"
  /\ isactive' = (isforeground /\ isactive)
  /\ Handle("def", SignalActive)
  /\ UNCHANGED <<isforeground, since, link, heardUp, moves>>
-----------------------------------------------------------------------------
(* TimingSync                                                              *)

SyncOnAlarm ==
  /\ Arrived("def", "run") /\ Head(queue["def"]).alarm = "sync"
  /\ Handle("def", <<Do("start", "sync")>>) /\ UNCHANGED restVars

(* Statuses reach the monitor first, then TimingSync, which is interested  *)
(* in the beginning and the end of a connection only.                      *)
OnConnecting ==
  /\ Arrived("net", "connecting")
  /\ Handle("net", <<Do("cancel", "monitor")>>) /\ UNCHANGED restVars

OnConnected ==
  /\ Arrived("net", "connected") /\ heardUp' = TRUE
  /\ Handle("net", <<Do("cancel", "monitor"), Do("cancel", "sync")>>)
  /\ UNCHANGED <<isforeground, isactive, since, link, moves>>

OnDisconnected ==
  /\ Arrived("net", "disconnected") /\ heardUp' = FALSE
  /\ Handle("net", <<Do("cancel", "monitor"), Do("start", "monitor"), Do("start", "sync")>>)
  /\ UNCHANGED <<isforeground, isactive, since, link, moves>>

OnConnectFailed ==
  /\ Arrived("net", "failed")
  /\ Handle("net", <<Do("cancel", "monitor"), Do("start", "monitor")>>) /\ UNCHANGED restVars

MonitorOnAlarm ==
  /\ Arrived("net", "run") /\ Handle("net", AutoIntervalConnect) /\ UNCHANGED restVars

(* NetCore::OnNetworkChange: TimingSync, then the monitor, whose interval  *)
(* for this kind of connect is 0.                                          *)
OnNetworkChange ==
  /\ todo["net"] = <<>> /\ Move
  /\ todo' = [todo EXCEPT !["net"] = Resync \o <<Do("disconnect", "monitor"), Do("connect", "monitor")>>]
  /\ UNCHANGED <<alarmVars, isforeground, isactive, since, link, heardUp>>

(* An alarm message of the monitor, passed on by the default queue.        *)
NetTakeTimer ==
  /\ Arrived("net", "alarm") /\ Check(Head(queue["net"]).alarm, "net", Rest("net"), timers)
  /\ UNCHANGED <<clock, todo, restVars>>
-----------------------------------------------------------------------------
(* The steps of handlers                                                   *)

Next1(q) == Head(todo[q])
Busy(q, op) == todo[q] # <<>> /\ Next1(q).op = op
Done(q) == todo' = [todo EXCEPT ![q] = Tail(@)]

DoCancel(q) ==
  /\ Busy(q, "cancel") /\ Done(q) /\ Cancel(Next1(q).on)
  /\ UNCHANGED <<clock, restVars>>

DoStart(q) ==
  /\ Busy(q, "start") /\ Done(q) /\ Start(Next1(q).on)
  /\ UNCHANGED <<clock, queue, restVars>>

DoIfWaiting(q) ==
  /\ Busy(q, "ifwaiting")
  /\ todo' = [todo EXCEPT ![q] = IF "sync" \notin waiting THEN Tail(@)
                                 ELSE <<Do("cancel", "sync"), Do("start", "sync")>> \o Tail(@)]
  /\ UNCHANGED <<alarmVars, restVars>>

(* MakeSureConnected: the thread of the connection starts.                 *)
Connect ==
  /\ link = "none" /\ Move
  /\ link' = "connecting" /\ News("connecting")
  /\ UNCHANGED <<clock, due, timers, isforeground, isactive, since, heardUp>>

(* __IntervalConnect: nothing while it connects or is connected; connect   *)
(* when the interval has passed; else __AutoIntervalConnect starts the     *)
(* alarm for the rest.                                                     *)
DoInterval(q) ==
  /\ Busy(q, "interval")
  /\ \/ link # "none" /\ Done(q) /\ UNCHANGED <<alarmVars, restVars>>
     \/ Done(q) /\ Connect
     \/ /\ link = "none" /\ UNCHANGED <<alarmVars, restVars>>
        /\ todo' = [todo EXCEPT ![q] = <<Do("start", "monitor")>> \o Tail(@)]

DoDisconnect(q) ==
  /\ Busy(q, "disconnect") /\ Done(q) /\ link' = "none"
  /\ IF link = "none" THEN UNCHANGED queue
     ELSE News(IF link = "connected" THEN "disconnected" ELSE "failed")
  /\ UNCHANGED <<clock, due, timers, isforeground, isactive, since, heardUp, moves>>

DoConnect(q) ==
  /\ Busy(q, "connect") /\ Done(q)
  /\ \/ Connect
     \/ (moves = MaxMoves \/ link # "none") /\ UNCHANGED <<alarmVars, restVars>>

(* The connection, as far as others hear of it.                            *)
LinkChanges ==
  /\ \/ link = "connecting" /\ link' = "connected" /\ News("connected")
     \/ link = "connecting" /\ link' = "none" /\ News("failed")
     \/ link = "connected" /\ link' = "none" /\ News("disconnected")
  /\ UNCHANGED <<clock, due, timers, todo, isforeground, isactive, since, heardUp, moves>>

DefTakeTimer(t) ==
  /\ todo["def"] = <<>> /\ t \in timers /\ TakeTimer(t) /\ UNCHANGED <<clock, todo, restVars>>

Outside(A) == A /\ UNCHANGED <<todo, restVars>>

EarlyAlarm(a) ==
  /\ Move /\ PlatformAlarm(a)
  /\ UNCHANGED <<todo, isforeground, isactive, since, link, heardUp>>
-----------------------------------------------------------------------------
Steps(q) == DoCancel(q) \/ DoStart(q) \/ DoIfWaiting(q) \/ DoInterval(q) \/ DoDisconnect(q) \/ DoConnect(q)
DefHandles ==
  \/ \E kind \in {"foreground", "background"} : OnForeground(kind) \/ OnSameForeground(kind)
  \/ OnInActive \/ SyncOnAlarm
NetHandles ==
  OnConnecting \/ OnConnected \/ OnDisconnected \/ OnConnectFailed \/ MonitorOnAlarm \/ NetTakeTimer
TimerTurn == \E t \in timers : DefTakeTimer(t)

Next ==
  \/ Flip \/ OnNetworkChange \/ LinkChanges \/ Outside(Tick)
  \/ \E a \in Alarms : EarlyAlarm(a)
  \/ TimerTurn \/ DefHandles \/ NetHandles \/ \E q \in Queues : Steps(q)

Spec == Init /\ [][Next]_syncVars

(* Both queues run on; a timed message that is due gets its turn although  *)
(* others may come first (strong).  The application, the network and the   *)
(* platform's alarm promise nothing.                                       *)
FairSpec ==
  /\ Spec /\ WF_syncVars(DefHandles) /\ WF_syncVars(NetHandles) /\ WF_syncVars(Outside(Tick))
  /\ SF_syncVars(TimerTurn) /\ \A q \in Queues : WF_syncVars(Steps(q))
-----------------------------------------------------------------------------
(* Properties                                                              *)

TypeOK ==
  /\ clock \in 0..MaxTime /\ waiting \subseteq Alarms
  /\ isforeground \in BOOLEAN /\ isactive \in BOOLEAN /\ heardUp \in BOOLEAN
  /\ link \in {"connecting", "connected", "none"}
  /\ \A q \in Queues : \A i \in DOMAIN todo[q] : todo[q][i].on \in Alarms

Posted(a)   == \E i \in DOMAIN queue[Own[a]] : LET m == queue[Own[a]][i] IN m.kind = "run" /\ m.alarm = a
Pending(a, ops) == \E q \in Queues : \E i \in DOMAIN todo[q] : todo[q][i].on = a /\ todo[q][i].op \in ops

(* The application is held inactive only in the background, and only when  *)
(* it was there for the whole time: no alarm of an earlier stay, and none  *)
(* that came early, makes it so.                                           *)
InactiveHonest ==
  /\ isforeground => isactive
  /\ ~isactive => clock >= since + After["active"]

(* In the background it becomes inactive in the end, unless it comes back  *)
(* or its time runs out after the end of the model.                        *)
GoesInactive == []<>(isforeground \/ ~isactive \/ due["active"] > MaxTime)

(* While TimingSync has last heard of no connection, its alarm waits, or   *)
(* somebody is about to start it, whichever handlers of the two queues     *)
(* cancel and start it between one another.                                *)
SyncArmed == ~heardUp => "sync" \in waiting \/ Posted("sync") \/ Pending("sync", {"start"})

(* Without a connection the alarm of the monitor waits, or news or a       *)
(* handler are on the way that will start it, or connect at once because   *)
(* the interval is over.                                                   *)
MonitorArmed ==
  link = "none" =>
    \/ "monitor" \in waiting \/ Posted("monitor") \/ Pending("monitor", {"start", "interval"})
    \/ \E i \in DOMAIN queue["net"] : queue["net"][i].kind \in {"failed", "disconnected"}

(* Whatever handlers of two queues start and cancel between one another:   *)
(* an alarm that waits has a message that will end it, TimingSync and the  *)
(* monitor have theirs while there is no connection, and no alarm of an    *)
(* earlier stay in the background holds the application inactive.          *)
AlarmsHold == WaitingHasTimer /\ SyncArmed /\ MonitorArmed /\ InactiveHonest
=============================================================================
