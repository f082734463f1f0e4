------------------------------- MODULE MCQueues -------------------------------
(* A message queue, and the alarms that run in two of them, checked side   *)
(* by side: a behaviour is one of the two at work (focus) while the other  *)
(* rests.  The clocks are their own.                                       *)
EXTENDS ActiveSync

CONSTANTS Handlers, Users, MaxPosts, MaxDepth
CONSTANT  MaxClock  \* bound of the clock of the message queue

ASSUME QueuesAssumption == MaxPosts \in Nat /\ MaxDepth \in Nat \ {0} /\ MaxClock \in Nat

CONSTANTS h1, h2, u1

MCHandlers == {h1, h2}
MCUsers    == {u1}
MCAlarms   == {"active", "sync", "monitor"}
MCOwn      == [a \in MCAlarms |-> IF a = "monitor" THEN "net" ELSE "def"]
MCAfter    == [a \in MCAlarms |-> IF a = "active" THEN 2 ELSE 1]

VARIABLES focus, mq_clock, lastSeq, list, installed, levels, breakflag, user, gone

Mq == INSTANCE MessageQueue WITH clock <- mq_clock, MaxTime <- MaxClock

mqVars == <<mq_clock, lastSeq, list, installed, levels, breakflag, user, gone>>
all == <<focus, syncVars, mqVars>>

AlarmOnly == focus = "alarm" /\ UNCHANGED <<focus, mqVars>>
MqOnly    == focus = "queue" /\ UNCHANGED <<focus, syncVars>>

QueuesInit == focus \in {"alarm", "queue"} /\ Init /\ Mq!Init
QueuesNext == (Next /\ AlarmOnly) \/ (Mq!Next /\ MqOnly)

(* The fairness of each, as its module justifies it.                       *)
AlarmFair ==
  /\ WF_all(DefHandles /\ AlarmOnly) /\ WF_all(NetHandles /\ AlarmOnly)
  /\ WF_all(Outside(Tick) /\ AlarmOnly) /\ SF_all(TimerTurn /\ AlarmOnly)
  /\ \A q \in Queues : WF_all(Steps(q) /\ AlarmOnly)
MqFair ==
  /\ WF_all(Mq!Loop /\ MqOnly) /\ WF_all(Mq!Tick /\ MqOnly)
  /\ \A u \in Users : WF_all(Mq!Waiter(u) /\ MqOnly)

QueuesSpec == QueuesInit /\ [][QueuesNext]_all /\ AlarmFair /\ MqFair
-----------------------------------------------------------------------------
(* Properties                                                              *)

(* The types of both.                                                      *)
TypesOK == TypeOK /\ Mq!TypeOK

(* A message is in one place, a handler that was cancelled and waited for  *)
(* is never called, and who waits is known to what is waited for.          *)
QueueSafe == Mq!OnePlace /\ Mq!NoCallAfterWait /\ Mq!NoForgottenWaiter

(* A wait outlasts the run of its message and ends, a message is not put   *)
(* off, and the queue ends when it is told to.                             *)
QueueServes == Mq!WaitOutlastsRun /\ Mq!NeverPutOff /\ Mq!WaitsEnd /\ Mq!BreakEnds

(* In the background the application is held inactive in the end.          *)
BecomesInactive == focus = "alarm" => GoesInactive
=============================================================================
