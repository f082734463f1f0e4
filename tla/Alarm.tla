-------------------------------- MODULE Alarm --------------------------------
(***************************************************************************)
(* Alarms (mars/comm/alarm.cc): Start broadcasts a timed message to the    *)
(* default queue (and asks the platform for a second one), OnAlarm checks  *)
(* it in the alarm's own queue and posts __Run there.  Start and Cancel    *)
(* are steps a handler of any queue may take.                              *)
(*                                                                         *)
(* A message carries the sequence number of its start, and one that does  *)
(* not agree with that of the alarm is ignored: here it is gone as soon as *)
(* the alarm has another.  Alarms that run in a thread of their own are    *)
(* left out (no alarm of stn or of ActiveLogic is one).                    *)
(***************************************************************************)
EXTENDS Integers, Sequences, Selection

CONSTANTS
  Alarms,
  Own,     \* Own[a]: the queue a runs in, "def" or "net"
  After,   \* After[a]: ticks from the start of a to its end
  MaxTime  \* bound of the model

Queues == {"def", "net"}

ASSUME AlarmAssumption ==
  Own \in [Alarms -> Queues] /\ After \in [Alarms -> Nat \ {0}] /\ MaxTime \in Nat

VARIABLES
  clock,
  due,     \* due[a]: starttime_ + after_ while status_ is kStart, else 0
  timers,  \* messages of Start and of the platform: [alarm, at]
  queue    \* queue[q]: messages posted to q: [kind, alarm]

alarmVars == <<clock, due, timers, queue>>
waiting == {a \in Alarms : due[a] # 0}
Timer(a, at) == [alarm |-> a, at |-> at]

AlarmInit(started) ==
  /\ clock = 0
  /\ due = [a \in Alarms |-> IF a \in started THEN After[a] ELSE 0]
  /\ timers = {Timer(a, After[a]) : a \in started}
  /\ queue = [q \in Queues |-> <<>>]

Message(kind, a) == [kind |-> kind, alarm |-> a]
Others(messages, a, kinds) == Only(messages, {m \in Members(messages) : m.alarm # a \/ m.kind \notin kinds})
Ended(a) == due' = [due EXCEPT ![a] = 0] /\ timers' = {t \in timers : t.alarm # a}
-----------------------------------------------------------------------------
(* Start: refused while the alarm waits.                                   *)
Start(a) ==
  IF a \in waiting THEN UNCHANGED <<due, timers>>
  ELSE /\ due' = [due EXCEPT ![a] = clock + After[a]]
       /\ timers' = timers \cup {Timer(a, clock + After[a])}

(* Wrong: __Run stays posted.                                              *)
CancelKeepsRun(a) == queue' = [queue EXCEPT ![Own[a]] = Others(@, a, {"alarm"})] /\ Ended(a)

(* What is left of OnAlarm and __Run in the own queue is cancelled too.    *)
Cancel(a) == queue' = [queue EXCEPT ![Own[a]] = Others(@, a, {"alarm", "run"})] /\ Ended(a)
-----------------------------------------------------------------------------
(* OnAlarm in the own queue: __Run is posted behind what waits there.  A   *)
(* message that comes early is ignored: Android stays awake for the other. *)
Check(a, q, rest, others) ==
  IF clock >= due[a]
  THEN Ended(a) /\ queue' = [queue EXCEPT ![q] = Append(Others(rest, a, {"alarm"}), Message("run", a))]
  ELSE UNCHANGED due /\ timers' = others /\ queue' = [queue EXCEPT ![q] = rest]

(* The default queue takes a message that is due: OnAlarm there, which     *)
(* passes it on when the alarm has another queue.                          *)
TakeTimer(t) ==
  /\ t.at <= clock
  /\ IF Own[t.alarm] = "def" THEN Check(t.alarm, "def", queue["def"], timers \ {t})
     ELSE /\ queue' = [queue EXCEPT !["net"] = Append(@, Message("alarm", t.alarm))]
          /\ timers' = timers \ {t} /\ UNCHANGED due

(* The alarm of the platform may come early.  When it comes in time it is  *)
(* one more message like that of Start.                                    *)
PlatformAlarm(a) ==
  /\ a \in waiting /\ clock < due[a]
  /\ timers' = timers \cup {Timer(a, clock)}
  /\ UNCHANGED <<clock, due, queue>>

Tick == clock < MaxTime /\ clock' = clock + 1 /\ UNCHANGED <<due, timers, queue>>

(* An alarm that waits has a message that will end it, in the default      *)
(* queue or passed on to its own.                                          *)
WaitingHasTimer ==
  \A a \in waiting :
    \/ \E t \in timers : t.alarm = a /\ t.at >= due[a]
    \/ \E i \in DOMAIN queue[Own[a]] : queue[Own[a]][i] = Message("alarm", a)
=============================================================================
