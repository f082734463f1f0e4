-------------------------- MODULE ActiveSync_proofs --------------------------
(***************************************************************************)
(* Proofs about ActiveSync: what the handlers of two queues do to the      *)
(* alarms of ActiveLogic, TimingSync and the connect monitor leaves every  *)
(* alarm that is needed armed, for any times and numbers of changes.       *)
(***************************************************************************)
EXTENDS ActiveSync, SelectionTheorems

GoodNews == {"connecting", "connected"}
BadNews  == {"failed", "disconnected"}
DefMsg == {Message(kind, "none") : kind \in {"foreground", "background"}}
            \cup {Message("run", a) : a \in {"active", "sync"}}
NetMsg == {Message(kind, "none") : kind \in GoodNews \cup BadNews}
            \cup {Message(kind, "monitor") : kind \in {"alarm", "run"}}
Msg    == DefMsg \cup NetMsg
MsgOf(q) == IF q = "def" THEN DefMsg ELSE NetMsg

DefStep == {Do(op, a) : op \in {"cancel", "start"}, a \in Alarms}
             \cup {Do("ifwaiting", "sync"), Do("interval", "monitor")}
NetStep == {Do(op, a) : op \in {"cancel", "start"}, a \in {"sync", "monitor"}}
             \cup {Do("ifwaiting", "sync")}
             \cup {Do(op, "monitor") : op \in {"interval", "disconnect", "connect"}}
Step    == DefStep \cup NetStep
StepOf(q) == IF q = "def" THEN DefStep ELSE NetStep

In(q)   == Members(queue[q])
Todo(q) == Members(todo[q])

QueueType == /\ queue \in [Queues -> Seq(Msg)]
             /\ \A q \in Queues : queue[q] \in Seq(MsgOf(q))
TodoType  == /\ todo \in [Queues -> Seq(Step)]
             /\ \A q \in Queues : todo[q] \in Seq(StepOf(q))
TypeInv ==
  /\ TypeOK /\ QueueType /\ TodoType
  /\ due \in [Alarms -> Nat] /\ timers \subseteq [alarm : Alarms, at : Nat]
  /\ since \in Nat /\ since <= clock /\ moves \in Nat

(* A message of Start is there until it comes, and one that was passed on  *)
(* came in time.                                                           *)
TimerInv ==
  /\ \A t \in timers : due[t.alarm] # 0
  /\ \A a \in waiting :
       \/ \E t \in timers : t.alarm = a /\ t.at >= due[a]
       \/ Message("alarm", a) \in In(Own[a]) /\ clock >= due[a]

Waits(a) == due[a] # 0
Ran(a)   == Message("run", a) \in In(Own[a])
Armed(a) == Waits(a) \/ Ran(a)
Has(q, a, ops) == \E s \in Todo(q) : s.on = a /\ s.op \in ops

(* Each cancel of alarm a among the steps s is followed by one of ops.     *)
Covered(s, a, ops) ==
  \A i \in DOMAIN s : s[i] = Do("cancel", a) =>
    \E j \in DOMAIN s : j > i /\ s[j].on = a /\ s[j].op \in ops

(* Who cancels the alarm of TimingSync starts it again, but for the news   *)
(* of a connection.                                                        *)
SyncOps == {"start"}
SyncInv ==
  /\ Covered(todo["def"], "sync", SyncOps)
  /\ heardUp \/ Covered(todo["net"], "sync", SyncOps)
  /\ heardUp \/ Armed("sync") \/ \E q \in Queues : Has(q, "sync", SyncOps)

(* Good news that are no longer true are followed by bad ones, and so is a *)
(* handler that cancels the alarm of the monitor for good.                 *)
MonitorOps == {"start", "interval"}
BadIn(s) == \E m \in Members(s) : m.kind \in BadNews
Told(s) == \A i \in DOMAIN s : s[i].kind \in GoodNews => \E j \in DOMAIN s : j > i /\ s[j].kind \in BadNews
MonitorInv ==
  /\ Covered(todo["def"], "monitor", MonitorOps)
  /\ link = "none" =>
       /\ Told(queue["net"])
       /\ Covered(todo["net"], "monitor", MonitorOps) \/ BadIn(queue["net"])
       /\ Armed("monitor") \/ BadIn(queue["net"]) \/ \E q \in Queues : Has(q, "monitor", MonitorOps)

(* The alarm of ActiveLogic was started in the background and when it      *)
(* began, unless the handler at work is about to cancel it.                *)
Cancels == Do("cancel", "active") \in Todo("def")
Starts  == Do("start", "active") \in Todo("def")
ActiveInv ==
  /\ InactiveHonest
  /\ Starts => ~isforeground
  /\ ~Cancels =>
       /\ Waits("active") => ~isforeground /\ due["active"] >= since + After["active"]
       /\ Ran("active") => ~isforeground /\ clock >= since + After["active"]

AlarmsInv == TypeInv /\ TimerInv /\ SyncInv /\ MonitorInv /\ ActiveInv
-----------------------------------------------------------------------------
(* Messages, steps and the lists of them                                   *)

LEMMA Names ==
  /\ \A kind, a : Message(kind, a).kind = kind /\ Message(kind, a).alarm = a
  /\ \A op, a : Do(op, a).op = op /\ Do(op, a).on = a
  /\ \A kind, a, k, b : Message(kind, a) = Message(k, b) <=> kind = k /\ a = b
  /\ \A op, a, o, b : Do(op, a) = Do(o, b) <=> op = o /\ a = b
  /\ \A m \in Msg : m = Message(m.kind, m.alarm)
  /\ \A s \in Step : s = Do(s.op, s.on) /\ s.on \in Alarms
BY UsersAssumption DEF Message, Do, Msg, DefMsg, NetMsg, Step, DefStep, NetStep

LEMMA Kinds ==
  /\ \A m \in DefMsg : \/ m.kind \in {"foreground", "background"} /\ m.alarm = "none"
                       \/ m.kind = "run" /\ m.alarm \in {"active", "sync"}
  /\ \A m \in NetMsg : \/ m.kind \in GoodNews \cup BadNews /\ m.alarm = "none"
                       \/ m.kind \in {"alarm", "run"} /\ m.alarm = "monitor"
  /\ \A q \in Queues, a \in Alarms : Message("run", a) \in MsgOf(q) <=> q = Own[a]
  /\ \A q \in Queues, a \in Alarms : Message("alarm", a) \in MsgOf(q) => q = Own[a]
  /\ Message("alarm", "monitor") \in NetMsg
  /\ \A kind \in GoodNews \cup BadNews : Message(kind, "none") \in NetMsg
  /\ \A kind \in {"foreground", "background"} : Message(kind, "none") \in DefMsg
BY UsersAssumption DEF Message, MsgOf, DefMsg, NetMsg, Queues, GoodNews, BadNews

LEMMA Owners ==
  /\ Alarms = {"active", "sync", "monitor"} /\ Queues = {"def", "net"}
  /\ Own["active"] = "def" /\ Own["sync"] = "def" /\ Own["monitor"] = "net"
BY UsersAssumption DEF Queues

LEMMA CoveredTail ==
  ASSUME NEW S, NEW s \in Seq(S), NEW a, NEW ops, s # <<>>, Covered(s, a, ops)
  PROVE  /\ Covered(Tail(s), a, ops)
         /\ Head(s) = Do("cancel", a) => \E x \in Members(Tail(s)) : x.on = a /\ x.op \in ops
<1> DEFINE r == Tail(s)
<1>1. /\ DOMAIN s = 1..Len(s) /\ DOMAIN r = 1..Len(s) - 1 /\ Len(s) \in Nat \ {0}
      /\ \A i \in 1..Len(s) - 1 : r[i] = s[i + 1]
      /\ Head(s) = s[1]
  OBVIOUS
<1> HIDE DEF r
<1>2. ASSUME NEW i \in DOMAIN r, r[i] = Do("cancel", a)
      PROVE  \E j \in DOMAIN r : j > i /\ r[j].on = a /\ r[j].op \in ops
  <2>1. PICK j \in 1..Len(s) : j > i + 1 /\ s[j].on = a /\ s[j].op \in ops  BY <1>1, <1>2 DEF Covered
  <2>2. j - 1 \in DOMAIN r /\ j - 1 > i /\ r[j - 1] = s[j]  BY <1>1, <2>1
  <2> QED  BY <2>1, <2>2
<1>3. ASSUME Head(s) = Do("cancel", a)  PROVE \E x \in Members(r) : x.on = a /\ x.op \in ops
  <2>1. PICK j \in 1..Len(s) : j > 1 /\ s[j].on = a /\ s[j].op \in ops  BY <1>1, <1>3 DEF Covered
  <2>2. j - 1 \in DOMAIN r /\ r[j - 1] = s[j]  BY <1>1, <2>1
  <2> QED  BY <2>1, <2>2 DEF Members
<1> QED  BY <1>2, <1>3 DEF Covered, r

LEMMA Joined ==
  ASSUME NEW S, NEW s \in Seq(S), NEW t \in Seq(S)
  PROVE  /\ s \o t \in Seq(S)
         /\ Members(s \o t) = Members(s) \cup Members(t)
         /\ \A a, ops : Covered(s, a, ops) /\ Covered(t, a, ops) => Covered(s \o t, a, ops)
<1> DEFINE r == s \o t
<1>1. /\ DOMAIN s = 1..Len(s) /\ DOMAIN t = 1..Len(t) /\ DOMAIN r = 1..Len(s) + Len(t)
      /\ Len(s) \in Nat /\ Len(t) \in Nat /\ r \in Seq(S)
      /\ \A i \in 1..Len(s) : r[i] = s[i]
      /\ \A i \in 1..Len(t) : r[Len(s) + i] = t[i]
  OBVIOUS
<1> HIDE DEF r
<1>2. \A i \in DOMAIN r : i \in 1..Len(s) \/ (i - Len(s) \in 1..Len(t) /\ r[i] = t[i - Len(s)])
  <2>1. ASSUME NEW i \in DOMAIN r, i \notin 1..Len(s)
        PROVE  i - Len(s) \in 1..Len(t) /\ Len(s) + (i - Len(s)) = i
    BY <1>1, <2>1
  <2> QED  BY <1>1, <2>1
<1>3. \A i \in 1..Len(t) : Len(s) + i \in DOMAIN r  BY <1>1
<1>4. \A i \in 1..Len(s) : i \in DOMAIN r  BY <1>1
<1>5. Members(r) = Members(s) \cup Members(t)
  <2>1. \A x \in Members(r) : x \in Members(s) \cup Members(t)  BY <1>1, <1>2 DEF Members
  <2>2. \A x \in Members(s) : x \in Members(r)  BY <1>1, <1>4 DEF Members
  <2>3. \A x \in Members(t) : x \in Members(r)  BY <1>1, <1>3 DEF Members
  <2> QED  BY <2>1, <2>2, <2>3
<1>6. ASSUME NEW a, NEW ops, Covered(s, a, ops), Covered(t, a, ops)
      PROVE  Covered(r, a, ops)
  <2> SUFFICES ASSUME NEW i \in DOMAIN r, r[i] = Do("cancel", a)
               PROVE  \E j \in DOMAIN r : j > i /\ r[j].on = a /\ r[j].op \in ops
    BY DEF Covered
  <2>1. CASE i \in 1..Len(s)
    <3>1. PICK j \in 1..Len(s) : j > i /\ s[j].on = a /\ s[j].op \in ops  BY <1>1, <1>6, <2>1 DEF Covered
    <3> QED  BY <1>1, <1>4, <3>1
  <2>2. CASE i - Len(s) \in 1..Len(t) /\ r[i] = t[i - Len(s)]
    <3>1. PICK j \in 1..Len(t) : j > i - Len(s) /\ t[j].on = a /\ t[j].op \in ops
      BY <1>1, <1>6, <2>2 DEF Covered
    <3>2. Len(s) + j > i /\ r[Len(s) + j] = t[j] /\ Len(s) + j \in DOMAIN r  BY <1>1, <1>3, <3>1
    <3> QED  BY <3>1, <3>2
  <2> QED  BY <1>2, <2>1, <2>2
<1> QED  BY <1>1, <1>5, <1>6 DEF r

LEMMA ToldTail ==
  ASSUME NEW S, NEW s \in Seq(S), s # <<>>, Told(s)
  PROVE  Told(Tail(s)) /\ (Head(s).kind \in GoodNews => BadIn(Tail(s)))
<1> DEFINE r == Tail(s)
<1>1. /\ DOMAIN s = 1..Len(s) /\ DOMAIN r = 1..Len(s) - 1 /\ Len(s) \in Nat \ {0}
      /\ \A i \in 1..Len(s) - 1 : r[i] = s[i + 1]
      /\ Head(s) = s[1]
  OBVIOUS
<1> HIDE DEF r
<1>2. ASSUME NEW i \in DOMAIN r, r[i].kind \in GoodNews
      PROVE  \E j \in DOMAIN r : j > i /\ r[j].kind \in BadNews
  <2>1. PICK j \in 1..Len(s) : j > i + 1 /\ s[j].kind \in BadNews  BY <1>1, <1>2 DEF Told
  <2>2. j - 1 \in DOMAIN r /\ j - 1 > i /\ r[j - 1] = s[j]  BY <1>1, <2>1
  <2> QED  BY <2>1, <2>2
<1>3. ASSUME Head(s).kind \in GoodNews  PROVE BadIn(r)
  <2>1. PICK j \in 1..Len(s) : j > 1 /\ s[j].kind \in BadNews  BY <1>1, <1>3 DEF Told
  <2>2. j - 1 \in DOMAIN r /\ r[j - 1] = s[j]  BY <1>1, <2>1
  <2> QED  BY <2>1, <2>2 DEF Members, BadIn
<1> QED  BY <1>2, <1>3 DEF Told, r

LEMMA ToldAppend ==
  ASSUME NEW S, NEW s \in Seq(S), NEW m \in S, m.kind \in BadNews \/ (Told(s) /\ m.kind \notin GoodNews)
  PROVE  Told(Append(s, m))
<1> DEFINE r == Append(s, m)
<1>1. /\ DOMAIN s = 1..Len(s) /\ DOMAIN r = 1..Len(s) + 1 /\ Len(s) \in Nat
      /\ \A i \in 1..Len(s) : r[i] = s[i]
      /\ r[Len(s) + 1] = m
  OBVIOUS
<1> HIDE DEF r
<1>2. m.kind \notin GoodNews  BY DEF GoodNews, BadNews
<1>3. ASSUME NEW i \in DOMAIN r, r[i].kind \in GoodNews
      PROVE  \E j \in DOMAIN r : j > i /\ r[j].kind \in BadNews
  <2>1. i \in 1..Len(s)  BY <1>1, <1>2, <1>3
  <2>2. CASE m.kind \in BadNews  BY <1>1, <2>1, <2>2
  <2>3. CASE Told(s)
    <3>1. PICK j \in 1..Len(s) : j > i /\ s[j].kind \in BadNews  BY <1>1, <1>3, <2>1, <2>3 DEF Told
    <3> QED  BY <1>1, <3>1
  <2> QED  BY <2>2, <2>3
<1> QED  BY <1>3 DEF Told, r

LEMMA ToldOnly ==
  ASSUME NEW S, NEW s \in Seq(S), NEW K, Told(s), \A m \in Members(s) : m.kind \in BadNews => m \in K
  PROVE  Told(Only(s, K))
<1> DEFINE r == Only(s, K)
<1>1. PICK n \in Nat : \E f \in [1..n -> 1..Len(s)] : ChosenAt(s, K, n, f)  BY OnlyPlaces
<1>2. PICK f \in [1..n -> 1..Len(s)] : ChosenAt(s, K, n, f)  BY <1>1
<1>3. /\ DOMAIN r = 1..n /\ DOMAIN s = 1..Len(s)
      /\ \A k \in 1..n : r[k] = s[f[k]] /\ f[k] \in 1..Len(s)
      /\ \A k, l \in 1..n : k < l => f[k] < f[l]
      /\ \A i \in 1..Len(s) : s[i] \in K => \E k \in 1..n : f[k] = i
  BY <1>2 DEF ChosenAt
<1> HIDE DEF r
<1>4. ASSUME NEW i \in DOMAIN r, r[i].kind \in GoodNews
      PROVE  \E j \in DOMAIN r : j > i /\ r[j].kind \in BadNews
  <2>1. PICK j \in 1..Len(s) : j > f[i] /\ s[j].kind \in BadNews  BY <1>3, <1>4 DEF Told
  <2>2. s[j] \in K  BY <1>3, <2>1 DEF Members
  <2>3. PICK k \in 1..n : f[k] = j  BY <1>3, <2>2
  <2>4. k > i
    <3>1. k = i \/ k < i \/ k > i  BY <1>3
    <3>2. f[k] \in Nat /\ f[i] \in Nat  BY <1>3
    <3> QED  BY <1>3, <2>1, <2>3, <3>1, <3>2
  <2> QED  BY <1>3, <2>1, <2>3, <2>4
<1> QED  BY <1>4 DEF Told, r
-----------------------------------------------------------------------------
(* What the steps do to the queues                                         *)

(* The alarms whose __Run is posted, and those with a message passed on to *)
(* their own queue.                                                        *)
Runs   == {a \in Alarms : Ran(a)}
Passed == {a \in Alarms : Message("alarm", a) \in In(Own[a])}

LEMMA QueueSame ==
  ASSUME QueueType, queue' = queue
  PROVE  QueueType' /\ Runs' = Runs /\ Passed' = Passed
BY DEF QueueType, Runs, Passed, Ran, In

LEMMA QueuePosts ==
  ASSUME QueueType, NEW q \in Queues, NEW m \in MsgOf(q),
         queue' = [queue EXCEPT ![q] = Append(@, m)]
  PROVE  /\ QueueType'
         /\ queue'[q] = Append(queue[q], m) /\ In(q)' = In(q) \cup {m}
         /\ \A p \in Queues \ {q} : queue'[p] = queue[p]
         /\ \A a \in Alarms : m = Message("alarm", a) => Runs' = Runs /\ Passed' = Passed \cup {a}
         /\ m.kind \notin {"run", "alarm"} => Runs' = Runs /\ Passed' = Passed
<1>1. PICK s \in Seq(MsgOf(q)) : s = queue[q]  BY DEF QueueType
<1>2. Append(s, m) \in Seq(MsgOf(q)) /\ Members(Append(s, m)) = Members(s) \cup {m}  BY MembersAppend
<1>3. MsgOf(q) \subseteq Msg /\ Append(s, m) \in Seq(Msg)
  <2>1. m \in Msg /\ s \in Seq(Msg)  BY <1>1 DEF QueueType, MsgOf, Msg
  <2> QED  BY <2>1 DEF MsgOf, Msg
<1>4. queue'[q] = Append(queue[q], m) /\ \A p \in Queues \ {q} : queue'[p] = queue[p]
  BY DEF QueueType
<1>5. QueueType'  BY <1>1, <1>2, <1>3, <1>4 DEF QueueType
<1>6. In(q)' = In(q) \cup {m}  BY <1>1, <1>2, <1>4 DEF In
<1>7. \A p \in Queues \ {q} : In(p)' = In(p)  BY <1>4 DEF In
<1>8. \A a \in Alarms, kind \in {"run", "alarm"} :
        Message(kind, a) \in In(Own[a])' <=> Message(kind, a) \in In(Own[a]) \/ (m = Message(kind, a) /\ q = Own[a])
  BY <1>6, <1>7, Owners
<1>9. \A a \in Alarms, kind \in {"run", "alarm"} : m = Message(kind, a) => q = Own[a]  BY Kinds
<1>10. ASSUME NEW a \in Alarms, m = Message("alarm", a)
       PROVE  Runs' = Runs /\ Passed' = Passed \cup {a}
  <2>1. \A b \in Alarms : m # Message("run", b) /\ (m = Message("alarm", b) <=> b = a)  BY <1>10, Names
  <2> QED  BY <1>8, <1>9, <2>1 DEF Runs, Ran, Passed
<1>11. ASSUME m.kind \notin {"run", "alarm"}  PROVE Runs' = Runs /\ Passed' = Passed
  <2>1. \A b \in Alarms : m # Message("run", b) /\ m # Message("alarm", b)  BY <1>11, Names
  <2> QED  BY <1>8, <2>1 DEF Runs, Ran, Passed
<1> QED  BY <1>4, <1>5, <1>6, <1>10, <1>11

LEMMA QueueRests ==
  ASSUME QueueType, NEW q \in Queues, queue[q] # <<>>, queue' = [queue EXCEPT ![q] = Rest(q)]
  PROVE  /\ QueueType'
         /\ Head(queue[q]) \in MsgOf(q) /\ queue'[q] = Tail(queue[q])
         /\ In(q) = {Head(queue[q])} \cup In(q)'
         /\ \A p \in Queues \ {q} : queue'[p] = queue[p]
         /\ Runs' \subseteq Runs /\ Passed' \subseteq Passed
         /\ \A a \in Runs : a \in Runs' \/ Head(queue[q]) = Message("run", a)
         /\ \A a \in Passed : a \in Passed' \/ Head(queue[q]) = Message("alarm", a)
<1>1. PICK s \in Seq(MsgOf(q)) : s = queue[q]  BY DEF QueueType
<1>2. Tail(s) \in Seq(MsgOf(q)) /\ Head(s) \in MsgOf(q) /\ Members(s) = {Head(s)} \cup Members(Tail(s))
  BY <1>1, MembersTail
<1>3. s \in Seq(Msg)  BY <1>1 DEF QueueType
<1>4. Tail(s) \in Seq(Msg)  BY <1>1, <1>3, MembersTail
<1>5. queue'[q] = Tail(s) /\ \A p \in Queues \ {q} : queue'[p] = queue[p]
  BY <1>1 DEF QueueType, Rest
<1>6. QueueType'  BY <1>2, <1>4, <1>5 DEF QueueType, Rest
<1>7. In(q) = {Head(queue[q])} \cup In(q)'  BY <1>1, <1>2, <1>5 DEF In
<1>8. \A p \in Queues \ {q} : In(p)' = In(p)  BY <1>5 DEF In
<1>9. \A a \in Alarms : \A kind :
        /\ Message(kind, a) \in In(Own[a])' => Message(kind, a) \in In(Own[a])
        /\ Message(kind, a) \in In(Own[a]) => Message(kind, a) \in In(Own[a])' \/ Head(queue[q]) = Message(kind, a)
  BY <1>7, <1>8, Owners
<1> QED  BY <1>1, <1>2, <1>5, <1>6, <1>7, <1>9 DEF Runs, Ran, Passed

(* Cancel takes all that names the alarm.                                  *)
LEMMA QueueDrops ==
  ASSUME QueueType, NEW a \in Alarms,
         queue' = [queue EXCEPT ![Own[a]] = Others(@, a, {"alarm", "run"})]
  PROVE  /\ QueueType'
         /\ Runs' = Runs \ {a} /\ Passed' = Passed \ {a}
         /\ Told(queue["net"]) => Told(queue["net"])'
         /\ BadIn(queue["net"]) => BadIn(queue["net"])'
<1>1. PICK q \in Queues : q = Own[a]  BY Owners
<1>2. PICK s \in Seq(MsgOf(q)) : s = queue[q]  BY DEF QueueType
<1>3. PICK K : K = {m \in Members(s) : m.alarm # a \/ m.kind \notin {"alarm", "run"}}  OBVIOUS
<1>4. queue'[q] = Only(s, K) /\ \A p \in Queues \ {q} : queue'[p] = queue[p]
  BY <1>1, <1>2, <1>3 DEF QueueType, Others
<1>5. Only(s, K) \in Seq(MsgOf(q)) /\ Members(Only(s, K)) = Members(s) \cap K  BY MembersOnly
<1>6. Only(s, K) \in Seq(Msg)  BY <1>2, MembersOnly DEF QueueType
<1>7. QueueType'  BY <1>1, <1>2, <1>3, <1>4, <1>5, <1>6 DEF QueueType, Others
<1>8. Members(s) \subseteq MsgOf(q)  BY MembersOf
<1>9. \A m \in MsgOf(q) : m.kind \in BadNews \cup GoodNews => m.kind \notin {"alarm", "run"}
  BY DEF BadNews, GoodNews
<1>10. \A b \in Alarms, kind \in {"run", "alarm"} :
         Message(kind, b) \in In(Own[b])' <=> Message(kind, b) \in In(Own[b]) /\ b # a
  <2> SUFFICES ASSUME NEW b \in Alarms, NEW kind \in {"run", "alarm"}
               PROVE  Message(kind, b) \in In(Own[b])' <=> Message(kind, b) \in In(Own[b]) /\ b # a
    OBVIOUS
  <2>1. CASE Own[b] = q
    <3>1. In(Own[b])' = Members(s) \cap K /\ In(Own[b]) = Members(s)  BY <1>1, <1>2, <1>4, <1>5, <2>1 DEF In
    <3>2. PICK m : m = Message(kind, b)  OBVIOUS
    <3>3. m.alarm = b /\ m.kind = kind  BY <3>2, Names
    <3> QED  BY <1>3, <3>1, <3>2, <3>3
  <2>2. CASE Own[b] # q
    <3>1. b # a /\ Own[b] \in Queues  BY <1>1, <2>2, Owners
    <3> QED  BY <1>4, <2>2, <3>1 DEF In
  <2> QED  BY <2>1, <2>2
<1>11. Runs' = Runs \ {a} /\ Passed' = Passed \ {a}  BY <1>10 DEF Runs, Passed, Ran
<1>12. \A m \in Members(s) : m.kind \in BadNews => m \in K  BY <1>3, <1>8, <1>9
<1>13. Told(s) => Told(Only(s, K))  BY <1>12, ToldOnly
<1>14. BadIn(s) => BadIn(Only(s, K))  BY <1>5, <1>12 DEF BadIn
<1>15. CASE q = "net"  BY <1>2, <1>4, <1>7, <1>11, <1>13, <1>14, <1>15
<1>16. CASE q # "net"
  <2>1. queue'["net"] = queue["net"]  BY <1>4, <1>16, Owners
  <2> QED  BY <1>7, <1>11, <2>1
<1> QED  BY <1>15, <1>16

(* OnAlarm takes its messages, and posts __Run behind what waits.          *)
LEMMA QueueFires ==
  ASSUME QueueType, NEW a \in Alarms, NEW rest \in Seq(MsgOf(Own[a])),
         rest = queue[Own[a]] \/ (queue[Own[a]] # <<>> /\ rest = Tail(queue[Own[a]]) /\ Head(queue[Own[a]]).kind = "alarm"),
         queue' = [queue EXCEPT ![Own[a]] = Append(Others(rest, a, {"alarm"}), Message("run", a))]
  PROVE  /\ QueueType'
         /\ Runs' = Runs \cup {a} /\ Passed' = Passed \ {a}
         /\ Told(queue["net"]) => Told(queue["net"])'
         /\ BadIn(queue["net"]) => BadIn(queue["net"])'
<1>1. PICK q \in Queues : q = Own[a]  BY Owners
<1>2. PICK s \in Seq(MsgOf(q)) : s = queue[q]  BY DEF QueueType
<1>3. PICK K : K = {m \in Members(rest) : m.alarm # a \/ m.kind \notin {"alarm"}}  OBVIOUS
<1>4. PICK o : o = Only(rest, K)  OBVIOUS
<1>5. PICK r : r = Message("run", a)  OBVIOUS
<1>6. r \in MsgOf(q) /\ r \in Msg /\ r.kind = "run" /\ r.alarm = a
  <2>1. r \in MsgOf(q)  BY <1>1, <1>5, Kinds
  <2> QED  BY <1>5, <2>1, Names DEF MsgOf, Msg
<1>7. queue'[q] = Append(o, r) /\ \A p \in Queues \ {q} : queue'[p] = queue[p]
  BY <1>1, <1>2, <1>3, <1>4, <1>5 DEF QueueType, Others
<1>8. o \in Seq(MsgOf(q)) /\ Members(o) = Members(rest) \cap K  BY <1>1, <1>4, MembersOnly
<1>9. Append(o, r) \in Seq(MsgOf(q)) /\ Members(Append(o, r)) = Members(o) \cup {r}
  BY <1>6, <1>8, MembersAppend
<1>10. Append(o, r) \in Seq(Msg)
  <2>1. MsgOf(q) \subseteq Msg  BY DEF MsgOf, Msg
  <2> QED  BY <1>9, <2>1
<1>11. QueueType'  BY <1>1, <1>3, <1>4, <1>5, <1>7, <1>9, <1>10 DEF QueueType, Others
<1>12. /\ Members(s) = Members(rest) \/ \E m \in MsgOf(q) : m.kind = "alarm" /\ Members(s) = {m} \cup Members(rest)
       /\ Told(s) => Told(rest)
  <2>1. CASE rest = s  BY <2>1
  <2>2. CASE s # <<>> /\ rest = Tail(s) /\ Head(s).kind = "alarm"
    BY <1>2, <2>2, MembersTail, ToldTail
  <2> QED  BY <1>1, <1>2, <2>1, <2>2
<1>13. Members(rest) \subseteq MsgOf(q) /\ Members(s) \subseteq MsgOf(q)  BY <1>1, MembersOf
<1>14. \A m \in MsgOf(q) : m.kind = "alarm" => m.alarm = a
  BY <1>1, Kinds, Owners DEF MsgOf, GoodNews, BadNews
<1>15. \A m \in Members(s) : m.kind = "alarm" \/ m \in Members(o)
  BY <1>3, <1>8, <1>12
<1>16. Members(o) \subseteq Members(s) /\ \A m \in Members(o) : m.kind # "alarm"
  BY <1>3, <1>8, <1>12, <1>13, <1>14
<1>17. ASSUME NEW b \in Alarms
       PROVE  /\ Message("run", b) \in In(Own[b])' <=> Message("run", b) \in In(Own[b]) \/ b = a
              /\ Message("alarm", b) \in In(Own[b])' <=> Message("alarm", b) \in In(Own[b]) /\ b # a
  <2>1. CASE Own[b] = q
    <3>1. In(Own[b])' = Members(o) \cup {r} /\ In(Own[b]) = Members(s)  BY <1>2, <1>7, <1>9, <2>1 DEF In
    <3>2. PICK m, n : m = Message("run", b) /\ n = Message("alarm", b)  OBVIOUS
    <3>3. m.kind = "run" /\ n.kind = "alarm" /\ n.alarm = b /\ (m = r <=> a = b)  BY <1>5, <3>2, Names
    <3>4. m \in Members(o) <=> m \in Members(s)  BY <1>15, <1>16, <3>3
    <3>5. n \notin Members(o) /\ n # r  BY <1>6, <1>16, <3>3
    <3>6. n \in Members(s) => b = a  BY <1>13, <1>14, <3>3
    <3> QED  BY <3>1, <3>2, <3>3, <3>4, <3>5, <3>6
  <2>2. CASE Own[b] # q
    <3>1. b # a /\ Own[b] \in Queues  BY <1>1, <2>2, Owners
    <3> QED  BY <1>7, <2>2, <3>1 DEF In
  <2> QED  BY <2>1, <2>2
<1>18. Runs' = Runs \cup {a} /\ Passed' = Passed \ {a}  BY <1>17 DEF Runs, Passed, Ran
<1>19. \A m \in Members(rest) : m.kind \in BadNews => m \in K  BY <1>3 DEF BadNews
<1>20. Told(rest) => Told(o)  BY <1>1, <1>4, <1>19, ToldOnly
<1>21. Told(o) => Told(Append(o, r))
  <2>1. r.kind \notin GoodNews  BY <1>6 DEF GoodNews
  <2> QED  BY <1>6, <1>8, <2>1, ToldAppend
<1>22. BadIn(s) => BadIn(Append(o, r))  BY <1>9, <1>15 DEF BadIn, BadNews
<1>23. CASE q = "net"  BY <1>2, <1>7, <1>11, <1>12, <1>18, <1>20, <1>21, <1>22, <1>23
<1>24. CASE q # "net"
  <2>1. queue'["net"] = queue["net"]  BY <1>7, <1>24, Owners
  <2> QED  BY <1>11, <1>18, <2>1
<1> QED  BY <1>23, <1>24
-----------------------------------------------------------------------------
(* What a step does to the alarms                                          *)

Kept == Runs' = Runs /\ Passed' = Passed
Idle == UNCHANGED <<clock, due, timers>> /\ Kept
Ticked == clock' = clock + 1 /\ UNCHANGED <<due, timers>> /\ Kept
Took(a) ==
  /\ UNCHANGED <<clock, due, timers>> /\ Passed' = Passed
  /\ Runs' \subseteq Runs /\ Runs \subseteq Runs' \cup {a}
Undone(a) == clock' = clock /\ Ended(a) /\ Runs' = Runs \ {a} /\ Passed' = Passed \ {a}
Began(a) ==
  /\ clock' = clock /\ due' = [due EXCEPT ![a] = clock + After[a]]
  /\ timers' = timers \cup {Timer(a, clock + After[a])} /\ Kept
Fired(a) ==
  /\ clock' = clock /\ clock >= due[a] /\ (a # "monitor" => due[a] # 0)
  /\ Ended(a) /\ Runs' = Runs \cup {a} /\ Passed' = Passed \ {a}
PassedOn(t) ==
  /\ UNCHANGED <<clock, due>> /\ t.at <= clock /\ timers' = timers \ {t}
  /\ Runs' = Runs /\ Passed' = Passed \cup {t.alarm}

(* A message that comes early changes nothing but itself.                  *)
Early(a) ==
  /\ UNCHANGED <<clock, due>> /\ Runs' = Runs /\ clock < due[a]
  /\ \A t \in timers' : t \in timers \/ t = Timer(a, clock)
  /\ \A t \in timers : t \in timers' \/ (t.alarm = a /\ t.at <= clock)
  /\ \A b \in Alarms \ {a} : b \in Passed => b \in Passed'

Lets ==
  \/ Idle \/ Ticked
  \/ \E a \in Alarms : Fired(a) \/ Early(a)
  \/ \E t \in timers : PassedOn(t)
Spares == Lets \/ \E a \in Alarms : Began(a)
Effect == Spares \/ \E a \in Alarms : Took(a) \/ Undone(a)

(* An alarm that waits will wait or be posted, unless it is cancelled or   *)
(* its __Run is taken.                                                     *)
LEMMA ArmedStep ==
  ASSUME TypeInv
  PROVE  /\ Spares => \A b \in Alarms : Armed(b) => Armed(b)'
         /\ \A a \in Alarms : Took(a) \/ Undone(a) => \A b \in Alarms \ {a} : Armed(b) => Armed(b)'
<1>1. /\ \A b \in Alarms : Armed(b) <=> due[b] # 0 \/ b \in Runs
      /\ \A b \in Alarms : Armed(b)' <=> due'[b] # 0 \/ b \in Runs'
  BY DEF Armed, Waits, Runs
<1>2. due \in [Alarms -> Nat] /\ clock \in Nat /\ \A a \in Alarms : clock + After[a] # 0
  BY AlarmAssumption DEF TypeInv, TypeOK
<1>3. Idle \/ Ticked => due' = due /\ Runs' = Runs  BY DEF Idle, Ticked, Kept
<1>4. ASSUME NEW a \in Alarms
      PROVE  /\ Began(a) => Runs' = Runs /\ \A b \in Alarms : due'[b] = 0 => due[b] = 0
             /\ Fired(a) => Runs' = Runs \cup {a} /\ \A b \in Alarms \ {a} : due'[b] = due[b]
             /\ Early(a) => Runs' = Runs /\ due' = due
             /\ Took(a) => due' = due /\ Runs \subseteq Runs' \cup {a}
             /\ Undone(a) => Runs' = Runs \ {a} /\ \A b \in Alarms \ {a} : due'[b] = due[b]
  <2>1. Began(a) => Runs' = Runs /\ \A b \in Alarms : due'[b] = 0 => due[b] = 0  BY <1>2 DEF Began, Kept
  <2>2. Fired(a) => Runs' = Runs \cup {a} /\ \A b \in Alarms \ {a} : due'[b] = due[b]
    BY <1>2 DEF Fired, Ended
  <2>3. Undone(a) => Runs' = Runs \ {a} /\ \A b \in Alarms \ {a} : due'[b] = due[b]
    BY <1>2 DEF Undone, Ended
  <2> QED  BY <2>1, <2>2, <2>3 DEF Early, Took
<1>5. \A t \in timers : PassedOn(t) => Runs' = Runs /\ due' = due  BY DEF PassedOn
<1>6. Spares => \A b \in Alarms : Armed(b) => Armed(b)'
  BY <1>1, <1>3, <1>4, <1>5 DEF Spares, Lets
<1>7. \A a \in Alarms : Took(a) \/ Undone(a) => \A b \in Alarms \ {a} : Armed(b) => Armed(b)'
  BY <1>1, <1>4
<1> QED  BY <1>6, <1>7

LEMMA TimerStep ==
  ASSUME TypeInv, TimerInv, Effect  PROVE TimerInv'
<1> DEFINE InTime(a)  == \E t \in timers : t.alarm = a /\ t.at >= due[a]
           Late(a) == a \in Passed /\ clock >= due[a]
           Good == /\ \A t \in timers' : due'[t.alarm] # 0
                   /\ \A a \in Alarms : due'[a] # 0 => InTime(a)' \/ Late(a)'
<1>1. /\ due \in [Alarms -> Nat] /\ clock \in Nat /\ timers \subseteq [alarm : Alarms, at : Nat]
      /\ \A a \in Alarms : clock + After[a] \in Nat \ {0}
      /\ Passed \subseteq Alarms
  BY AlarmAssumption DEF TypeInv, TypeOK, Passed
<1>2. /\ \A t \in timers : due[t.alarm] # 0
      /\ \A a \in Alarms : due[a] # 0 => InTime(a) \/ Late(a)
  BY DEF TimerInv, waiting, Passed
<1>3. Good
  <2>1. CASE Idle  BY <1>2, <2>1 DEF Idle, Kept
  <2>2. CASE Ticked  BY <1>1, <1>2, <2>2 DEF Ticked, Kept
  <2>3. ASSUME NEW a \in Alarms, Took(a) PROVE Good
    BY <1>2, <2>3 DEF Took
  <2>4. ASSUME NEW a \in Alarms, Undone(a) \/ Fired(a) PROVE Good
    <3>1. /\ due' = [due EXCEPT ![a] = 0] /\ timers' = {t \in timers : t.alarm # a}
          /\ clock' = clock /\ Passed' = Passed \ {a}
      BY <2>4 DEF Undone, Fired, Ended
    <3>2. \A b \in Alarms : b # a => due'[b] = due[b]  BY <1>1, <3>1
    <3>3. due'[a] = 0  BY <1>1, <3>1
    <3>4. \A t \in timers' : due'[t.alarm] # 0  BY <1>1, <1>2, <3>1, <3>2
    <3>5. \A b \in Alarms : b # a => (InTime(b) => InTime(b)') /\ (Late(b) => Late(b)')  BY <3>1, <3>2
    <3> QED  BY <1>2, <3>2, <3>3, <3>4, <3>5
  <2>5. ASSUME NEW a \in Alarms, Began(a) PROVE Good
    <3>1. PICK n \in Nat \ {0} : n = clock + After[a]  BY <1>1
    <3>2. /\ due' = [due EXCEPT ![a] = n] /\ timers' = timers \cup {Timer(a, n)}
          /\ clock' = clock /\ Passed' = Passed
      BY <2>5, <3>1 DEF Began, Kept
    <3>3. Timer(a, n) \in timers' /\ Timer(a, n).alarm = a /\ Timer(a, n).at = n  BY <3>2 DEF Timer
    <3>4. due'[a] = n /\ \A b \in Alarms : b # a => due'[b] = due[b]  BY <1>1, <3>2
    <3>5. \A t \in timers' : due'[t.alarm] # 0  BY <1>1, <1>2, <3>2, <3>3, <3>4
    <3>6. InTime(a)'  BY <3>3, <3>4
    <3>7. \A b \in Alarms : b # a => (InTime(b) => InTime(b)') /\ (Late(b) => Late(b)')  BY <3>2, <3>4
    <3> QED  BY <1>2, <3>4, <3>5, <3>6, <3>7
  <2>6. ASSUME NEW a \in Alarms, Early(a) PROVE Good
    <3>1. /\ due' = due /\ clock' = clock /\ clock < due[a]
          /\ \A t \in timers' : t \in timers \/ t = Timer(a, clock)
          /\ \A t \in timers : t \in timers' \/ (t.alarm = a /\ t.at <= clock)
          /\ \A b \in Alarms \ {a} : b \in Passed => b \in Passed'
      BY <2>6 DEF Early
    <3>2. due[a] # 0 /\ Timer(a, clock).alarm = a  BY <1>1, <3>1 DEF Timer
    <3>3. \A t \in timers' : due'[t.alarm] # 0  BY <1>2, <3>1, <3>2
    <3>4. \A b \in Alarms : b # a => (InTime(b) => InTime(b)') /\ (Late(b) => Late(b)')  BY <3>1
    <3>5. InTime(a)'
      <4>1. ~Late(a)  BY <1>1, <3>1
      <4>2. PICK t \in timers : t.alarm = a /\ t.at >= due[a]  BY <1>2, <3>2, <4>1
      <4>3. t.at \in Nat /\ due[a] \in Nat /\ ~(t.at <= clock)  BY <1>1, <3>1, <4>2
      <4> QED  BY <3>1, <4>2, <4>3
    <3> QED  BY <1>2, <3>1, <3>3, <3>4, <3>5
  <2>7. ASSUME NEW t \in timers, PassedOn(t) PROVE Good
    <3>1. PICK a \in Alarms : a = t.alarm  BY <1>1
    <3>2. /\ due' = due /\ clock' = clock /\ t.at <= clock /\ timers' = timers \ {t}
          /\ Passed' = Passed \cup {a}
      BY <2>7, <3>1 DEF PassedOn
    <3>3. ASSUME NEW b \in Alarms, InTime(b)  PROVE InTime(b)' \/ Late(b)'
      <4>1. PICK u \in timers : u.alarm = b /\ u.at >= due[b]  BY <3>3
      <4>2. CASE u = t
        <5>1. b = a /\ due[b] \in Nat /\ t.at \in Nat /\ clock >= due[b]  BY <1>1, <3>1, <3>2, <4>1, <4>2
        <5> QED  BY <3>2, <5>1
      <4> QED  BY <3>2, <4>1, <4>2
    <3>4. \A b \in Alarms : Late(b) => Late(b)'  BY <3>2
    <3> QED  BY <1>2, <3>2, <3>3, <3>4
  <2> QED  BY <2>1, <2>2, <2>3, <2>4, <2>5, <2>6, <2>7 DEF Effect, Spares, Lets
<1> QED  BY <1>3 DEF TimerInv, waiting, Passed

(* The news of the net queue stay true.                                    *)
NewsKept == (Told(queue["net"]) => Told(queue["net"])') /\ (BadIn(queue["net"]) => BadIn(queue["net"])')

LEMMA StartEffect ==
  ASSUME TypeInv, NEW a \in Alarms, Start(a), clock' = clock, queue' = queue
  PROVE  (Began(a) \/ Idle) /\ Armed(a)' /\ NewsKept /\ QueueType' /\ (Idle => Waits(a))
<1>1. Kept /\ QueueType' /\ NewsKept  BY QueueSame DEF TypeInv, Kept, NewsKept, Told, BadIn
<1>2. CASE a \in waiting
  <2>1. Idle /\ due' = due  BY <1>1, <1>2 DEF Start, Idle
  <2> QED  BY <1>1, <1>2, <2>1 DEF waiting, Armed, Waits
<1>3. CASE a \notin waiting
  <2>1. Began(a) /\ due' = [due EXCEPT ![a] = clock + After[a]]  BY <1>1, <1>3 DEF Start, Began
  <2>2. due' = [due EXCEPT ![a] = clock + After[a]]  BY <2>1
  <2>3. clock \in Nat /\ After[a] \in Nat \ {0} /\ due \in [Alarms -> Nat] /\ due[a] = 0
    BY <1>3, AlarmAssumption DEF TypeInv, TypeOK, waiting
  <2>4. clock + After[a] # 0 /\ due'[a] = clock + After[a]  BY <2>2, <2>3
  <2> QED  BY <1>1, <2>1, <2>3, <2>4 DEF Armed, Waits, Idle
<1> QED  BY <1>2, <1>3

LEMMA CancelEffect ==
  ASSUME TypeInv, NEW a \in Alarms, Cancel(a), clock' = clock
  PROVE  Undone(a) /\ NewsKept /\ QueueType'
BY QueueDrops DEF TypeInv, Cancel, Undone, NewsKept

LEMMA DefTakeEffect ==
  ASSUME TypeInv, TimerInv, NEW t \in timers, DefTakeTimer(t)
  PROVE  Lets /\ NewsKept /\ QueueType'
<1>1. PICK a \in Alarms : a = t.alarm  BY DEF TypeInv
<1>2. QueueType /\ clock' = clock /\ t.at <= clock /\ due[a] # 0 /\ due \in [Alarms -> Nat] /\ clock \in Nat
  BY <1>1 DEF DefTakeTimer, TakeTimer, TypeInv, TypeOK, TimerInv
<1>3. CASE Own[a] = "def" /\ clock >= due[a]
  <2>1. queue' = [queue EXCEPT !["def"] = Append(Others(queue["def"], a, {"alarm"}), Message("run", a))] /\ Ended(a)
    BY <1>1, <1>3 DEF DefTakeTimer, TakeTimer, Check
  <2>2. queue["def"] \in Seq(MsgOf("def"))  BY <1>2, Owners DEF QueueType
  <2>3. QueueType' /\ Runs' = Runs \cup {a} /\ Passed' = Passed \ {a} /\ NewsKept
    BY <1>2, <1>3, <2>1, <2>2, QueueFires DEF NewsKept
  <2>4. Fired(a)  BY <1>2, <1>3, <2>1, <2>3 DEF Fired
  <2> QED  BY <2>3, <2>4 DEF Lets
<1>4. CASE Own[a] = "def" /\ ~(clock >= due[a])
  <2>1. queue' = queue /\ due' = due /\ timers' = timers \ {t}
    BY <1>1, <1>4, Owners DEF DefTakeTimer, TakeTimer, Check, TypeInv, QueueType
  <2>2. QueueType' /\ Kept /\ NewsKept  BY <1>2, <2>1, QueueSame DEF Kept, NewsKept, Told, BadIn
  <2>3. Early(a)  BY <1>1, <1>2, <1>4, <2>1, <2>2 DEF Early, Kept
  <2> QED  BY <2>2, <2>3 DEF Lets
<1>5. CASE Own[a] # "def"
  <2>1. a = "monitor"  BY <1>5, Owners
  <2>2. PICK m : m = Message("alarm", "monitor")  OBVIOUS
  <2>3. queue' = [queue EXCEPT !["net"] = Append(@, m)] /\ timers' = timers \ {t} /\ due' = due
    BY <1>1, <1>5, <2>1, <2>2 DEF DefTakeTimer, TakeTimer
  <2>4. m \in MsgOf("net") /\ m.kind = "alarm"  BY <2>2, Kinds, Names DEF MsgOf
  <2>5. /\ QueueType' /\ queue'["net"] = Append(queue["net"], m) /\ In("net")' = In("net") \cup {m}
        /\ Runs' = Runs /\ Passed' = Passed \cup {a}
    BY <1>2, <2>1, <2>2, <2>3, <2>4, QueuePosts, Owners
  <2>6. NewsKept
    <3>1. queue["net"] \in Seq(MsgOf("net"))  BY <1>2, Owners DEF QueueType
    <3>2. Told(queue["net"]) => Told(queue["net"])'
      BY <2>4, <2>5, <3>1, ToldAppend DEF GoodNews
    <3> QED  BY <2>5, <3>2 DEF NewsKept, BadIn, In
  <2>7. PassedOn(t)  BY <1>1, <1>2, <2>3, <2>5 DEF PassedOn
  <2> QED  BY <2>5, <2>6, <2>7 DEF Lets
<1> QED  BY <1>3, <1>4, <1>5

LEMMA NetTakeEffect ==
  ASSUME TypeInv, NetTakeTimer
  PROVE  Lets /\ NewsKept /\ QueueType'
<1>1. PICK q \in Queues : q = "net"  BY Owners
<1>2. /\ QueueType /\ queue[q] # <<>> /\ clock' = clock /\ due \in [Alarms -> Nat] /\ clock \in Nat
      /\ Head(queue[q]).kind = "alarm"
  BY <1>1 DEF NetTakeTimer, Arrived, Free, TypeInv, TypeOK
<1>3. PICK s \in Seq(MsgOf(q)) : s = queue[q]  BY <1>2 DEF QueueType
<1>4. Head(s) \in MsgOf(q) /\ Tail(s) \in Seq(MsgOf(q))  BY <1>2, <1>3, MembersTail
<1>5. Head(s).alarm = "monitor"  BY <1>1, <1>2, <1>3, <1>4, Kinds DEF MsgOf, GoodNews, BadNews
<1>6. PICK a \in Alarms : a = "monitor"  BY Owners
<1>7. Own[a] = q /\ Check(a, q, Tail(s), timers)  BY <1>1, <1>3, <1>5, <1>6, Owners DEF NetTakeTimer, Rest
<1>8. CASE clock >= due[a]
  <2>1. queue' = [queue EXCEPT ![Own[a]] = Append(Others(Tail(s), a, {"alarm"}), Message("run", a))] /\ Ended(a)
    BY <1>7, <1>8 DEF Check
  <2>2. QueueType' /\ Runs' = Runs \cup {a} /\ Passed' = Passed \ {a} /\ NewsKept
    BY <1>2, <1>3, <1>4, <1>7, <2>1, QueueFires DEF NewsKept
  <2>3. Fired(a)  BY <1>2, <1>6, <1>8, <2>1, <2>2 DEF Fired
  <2> QED  BY <2>2, <2>3 DEF Lets
<1>9. CASE ~(clock >= due[a])
  <2>1. queue' = [queue EXCEPT ![q] = Rest(q)] /\ due' = due /\ timers' = timers
    BY <1>3, <1>7, <1>9 DEF Check, Rest
  <2>2. PICK m : m = Head(queue[q])  OBVIOUS
  <2>3. m.kind = "alarm" /\ m.alarm = a  BY <1>2, <1>3, <1>5, <1>6, <2>2
  <2>4. /\ QueueType' /\ queue'[q] = Tail(queue[q]) /\ In(q) = {m} \cup In(q)'
        /\ Runs' \subseteq Runs /\ Passed' \subseteq Passed
        /\ \A b \in Runs : b \in Runs' \/ m = Message("run", b)
        /\ \A b \in Passed : b \in Passed' \/ m = Message("alarm", b)
    BY <1>2, <2>1, <2>2, QueueRests
  <2>5. \A b \in Alarms : m # Message("run", b) /\ (m = Message("alarm", b) => b = a)  BY <2>3, Names
  <2>6. Runs' = Runs /\ \A b \in Alarms \ {a} : b \in Passed => b \in Passed'  BY <2>4, <2>5 DEF Runs
  <2>7. Early(a)  BY <1>2, <1>9, <2>1, <2>6 DEF Early
  <2>8. NewsKept
    <3>1. Told(s) => Told(Tail(s))  BY <1>2, <1>3, ToldTail
    <3>2. m.kind \notin BadNews  BY <2>3 DEF BadNews
    <3> QED  BY <1>1, <1>3, <2>4, <3>1, <3>2 DEF NewsKept, BadIn, In
  <2> QED  BY <2>4, <2>7, <2>8 DEF Lets
<1> QED  BY <1>8, <1>9

LEMMA EarlyAlarmEffect ==
  ASSUME TypeInv, NEW a \in Alarms, PlatformAlarm(a)
  PROVE  Lets /\ NewsKept /\ QueueType'
<1>1. QueueType' /\ Kept /\ NewsKept
  BY QueueSame DEF PlatformAlarm, TypeInv, Kept, NewsKept, Told, BadIn
<1>2. Early(a)  BY <1>1 DEF PlatformAlarm, Early, Kept
<1> QED  BY <1>1, <1>2 DEF Lets

(* News of the connection, or a change of the foreground, is posted.       *)
LEMMA NewsEffect ==
  ASSUME TypeInv, NEW kind \in GoodNews \cup BadNews, News(kind), UNCHANGED <<clock, due, timers>>
  PROVE  Lets /\ QueueType' /\ (kind \in BadNews => Told(queue["net"])' /\ BadIn(queue["net"])')
<1>1. PICK m : m = Message(kind, "none")  OBVIOUS
<1>2. m \in MsgOf("net") /\ m.kind = kind  BY <1>1, Kinds, Names DEF MsgOf
<1>3. m.kind \notin {"run", "alarm"}  BY <1>2 DEF GoodNews, BadNews
<1>4. QueueType /\ queue["net"] \in Seq(MsgOf("net"))  BY Owners DEF TypeInv, QueueType
<1>5. QueueType' /\ queue'["net"] = Append(queue["net"], m) /\ In("net")' = In("net") \cup {m} /\ Kept
  BY <1>1, <1>2, <1>3, <1>4, QueuePosts, Owners DEF News, Kept
<1>6. Idle  BY <1>5 DEF Idle
<1>7. kind \in BadNews => Told(queue["net"])' /\ BadIn(queue["net"])'
  BY <1>2, <1>4, <1>5, ToldAppend DEF BadIn, In
<1> QED  BY <1>5, <1>6, <1>7 DEF Lets

LEMMA FlipEffect ==
  ASSUME TypeInv, Flip
  PROVE  Lets /\ NewsKept /\ QueueType'
<1>1. PICK kind \in {"foreground", "background"} : queue' = [queue EXCEPT !["def"] = Append(@, Message(kind, "none"))]
  BY DEF Flip
<1>2. PICK m : m = Message(kind, "none")  OBVIOUS
<1>3. m \in MsgOf("def") /\ m.kind = kind  BY <1>2, Kinds, Names DEF MsgOf
<1>4. QueueType' /\ queue'["net"] = queue["net"] /\ Kept
  BY <1>1, <1>2, <1>3, QueuePosts, Owners DEF TypeInv, Kept
<1>5. Idle  BY <1>4 DEF Idle, Flip
<1>6. NewsKept  BY <1>4 DEF NewsKept
<1> QED  BY <1>4, <1>5, <1>6 DEF Lets

(* A handler takes the first message m of its queue.                       *)
Takes(q, m) ==
  /\ m \in MsgOf(q)
  /\ m.kind = "run" => m.alarm \in Alarms /\ Ran(m.alarm) /\ Took(m.alarm)
  /\ m.kind \notin {"run", "alarm"} => Idle
  /\ m.kind \notin GoodNews \cup BadNews => NewsKept
  /\ m.kind \in GoodNews => (Told(queue["net"]) => Told(queue["net"])' /\ BadIn(queue["net"])')
  /\ m.kind \in BadNews => (Told(queue["net"]) => Told(queue["net"])')
  /\ QueueType'

LEMMA HandleEffect ==
  ASSUME TypeInv, NEW q \in Queues, Free(q), queue' = [queue EXCEPT ![q] = Rest(q)],
         UNCHANGED <<clock, due, timers>>
  PROVE  Takes(q, Head(queue[q]))
<1>1. PICK m : m = Head(queue[q])  OBVIOUS
<1>2. /\ QueueType' /\ m \in MsgOf(q) /\ queue'[q] = Tail(queue[q]) /\ In(q) = {m} \cup In(q)'
      /\ \A p \in Queues \ {q} : queue'[p] = queue[p]
      /\ Runs' \subseteq Runs /\ Passed' \subseteq Passed
      /\ \A b \in Runs : b \in Runs' \/ m = Message("run", b)
      /\ \A b \in Passed : b \in Passed' \/ m = Message("alarm", b)
  BY <1>1, QueueRests DEF TypeInv, Free
<1>3. m.kind # "alarm" => Passed' = Passed
  <2>1. m.kind # "alarm" => \A b \in Alarms : m # Message("alarm", b)  BY Names
  <2> QED  BY <1>2, <2>1 DEF Passed
<1>4. m.kind # "run" => Runs' = Runs
  <2>1. m.kind # "run" => \A b \in Alarms : m # Message("run", b)  BY Names
  <2> QED  BY <1>2, <2>1 DEF Runs
<1>5. ASSUME m.kind = "run"  PROVE m.alarm \in Alarms /\ Ran(m.alarm) /\ Took(m.alarm)
  <2>1. m \in Msg /\ m.alarm \in Alarms  BY <1>2, <1>5, Kinds, Owners DEF MsgOf, Msg, GoodNews, BadNews
  <2>2. PICK a \in Alarms : a = m.alarm  BY <2>1
  <2>3. m = Message("run", a)  BY <1>5, <2>1, <2>2, Names
  <2>4. q = Own[a]  BY <1>2, <2>3, Kinds
  <2>5. Ran(a)  BY <1>2, <2>3, <2>4 DEF Ran
  <2>6. \A b \in Alarms : m = Message("run", b) => b = a  BY <2>3, Names
  <2>7. Took(a)  BY <1>2, <1>3, <1>5, <2>6 DEF Took, Runs
  <2> QED  BY <2>2, <2>5, <2>7
<1>6. m.kind \notin {"run", "alarm"} => Idle  BY <1>3, <1>4 DEF Idle, Kept
<1>7. CASE q = "net"
  <2>1. PICK s \in Seq(MsgOf(q)) : s = queue[q]  BY DEF TypeInv, QueueType
  <2>2. Told(s) => Told(Tail(s)) /\ (m.kind \in GoodNews => BadIn(Tail(s)))
    BY <1>1, <2>1, ToldTail DEF Free
  <2>3. m.kind \notin BadNews => (BadIn(s) => BadIn(Tail(s)))  BY <1>2, <2>1 DEF BadIn, In
  <2>4. m.kind \notin GoodNews \cup BadNews => NewsKept  BY <1>2, <1>7, <2>1, <2>2, <2>3 DEF NewsKept
  <2> QED  BY <1>1, <1>2, <1>5, <1>6, <1>7, <2>1, <2>2, <2>4 DEF Takes
<1>8. CASE q # "net"
  <2>1. queue'["net"] = queue["net"]  BY <1>2, <1>8, Owners
  <2>2. m.kind \notin GoodNews \cup BadNews
    <3>1. q = "def" /\ m \in DefMsg  BY <1>2, <1>8, Owners DEF MsgOf
    <3> QED  BY <3>1, Kinds DEF GoodNews, BadNews
  <2>3. NewsKept  BY <2>1 DEF NewsKept
  <2> QED  BY <1>1, <1>2, <1>5, <1>6, <2>2, <2>3 DEF Takes
<1> QED  BY <1>7, <1>8
-----------------------------------------------------------------------------
(* What a step does to the handlers                                        *)

Sound(s) == Covered(s, "sync", SyncOps) /\ Covered(s, "monitor", MonitorOps)

LEMMA Tuples ==
  /\ \A x : Members(<<x>>) = {x}
  /\ \A x, y : Members(<<x, y>>) = {x, y}
  /\ \A x, y, z : Members(<<x, y, z>>) = {x, y, z}
  /\ Members(<<>>) = {}
<1>1. \A x : DOMAIN <<x>> = {1}  OBVIOUS
<1>2. \A x, y : DOMAIN <<x, y>> = {1, 2}  OBVIOUS
<1>3. \A x, y, z : DOMAIN <<x, y, z>> = {1, 2, 3}  OBVIOUS
<1>4. DOMAIN <<>> = {}  OBVIOUS
<1> QED  BY <1>1, <1>2, <1>3, <1>4 DEF Members

LEMMA CoveredNone ==
  ASSUME NEW s, NEW a, NEW ops, Do("cancel", a) \notin Members(s)
  PROVE  Covered(s, a, ops)
BY DEF Covered, Members

(* The steps of handlers, and the alarms they cancel.                      *)
LEMMA Programs ==
  /\ \A q \in Queues : /\ AutoIntervalConnect \in Seq(StepOf(q)) /\ Resync \in Seq(StepOf(q))
                       /\ SignalActive \in Seq(StepOf(q)) /\ <<>> \in Seq(StepOf(q))
                       /\ <<Do("cancel", "sync"), Do("start", "sync")>> \in Seq(StepOf(q))
                       /\ <<Do("start", "monitor")>> \in Seq(StepOf(q))
  /\ Sound(AutoIntervalConnect) /\ Sound(Resync) /\ Sound(SignalActive) /\ Sound(<<>>)
  /\ Sound(<<Do("cancel", "sync"), Do("start", "sync")>>) /\ Sound(<<Do("start", "monitor")>>)
  /\ Members(AutoIntervalConnect) = {Do("cancel", "monitor"), Do("interval", "monitor")}
  /\ Members(SignalActive) = Members(AutoIntervalConnect) \cup {Do("ifwaiting", "sync")}
<1>1. PICK c, i, w, d, t, n : /\ c = Do("cancel", "monitor") /\ i = Do("interval", "monitor")
                              /\ w = Do("ifwaiting", "sync") /\ d = Do("cancel", "sync")
                              /\ t = Do("start", "sync") /\ n = Do("start", "monitor")
  OBVIOUS
<1>2. /\ c # d /\ i # d /\ w # d /\ t # d /\ n # d /\ i # c /\ w # c /\ d # c /\ t # c /\ n # c
      /\ i.on = "monitor" /\ i.op = "interval" /\ t.on = "sync" /\ t.op = "start"
  BY <1>1, Names
<1>3. \A q \in Queues : {c, i, w, d, t, n} \subseteq StepOf(q)
  BY <1>1, Owners DEF StepOf, DefStep, NetStep
<1>4. AutoIntervalConnect = <<c, i>> /\ Resync = <<w>> /\ SignalActive = <<c, i>> \o <<w>>
  BY <1>1 DEF AutoIntervalConnect, Resync, SignalActive
<1>5. \A q \in Queues : /\ <<c, i>> \in Seq(StepOf(q)) /\ <<w>> \in Seq(StepOf(q)) /\ <<>> \in Seq(StepOf(q))
                        /\ <<d, t>> \in Seq(StepOf(q)) /\ <<n>> \in Seq(StepOf(q))
  BY <1>3
<1>6. /\ Members(<<c, i>>) = {c, i} /\ Members(<<w>>) = {w} /\ Members(<<d, t>>) = {d, t}
      /\ Members(<<n>>) = {n} /\ Members(<<>>) = {}
  BY Tuples
<1>7. Covered(<<c, i>>, "sync", SyncOps) /\ Covered(<<d, t>>, "monitor", MonitorOps)
  BY <1>1, <1>2, <1>6, CoveredNone
<1>8. Sound(<<w>>) /\ Sound(<<n>>) /\ Sound(<<>>)  BY <1>1, <1>2, <1>6, CoveredNone DEF Sound
<1>9. Covered(<<c, i>>, "monitor", MonitorOps)
  <2>1. DOMAIN <<c, i>> = {1, 2} /\ <<c, i>>[1] = c /\ <<c, i>>[2] = i  OBVIOUS
  <2> QED  BY <1>1, <1>2, <2>1 DEF Covered, MonitorOps
<1>10. Covered(<<d, t>>, "sync", SyncOps)
  <2>1. DOMAIN <<d, t>> = {1, 2} /\ <<d, t>>[1] = d /\ <<d, t>>[2] = t  OBVIOUS
  <2> QED  BY <1>1, <1>2, <2>1 DEF Covered, SyncOps
<1>11. Sound(<<c, i>>) /\ Sound(<<d, t>>)  BY <1>7, <1>9, <1>10 DEF Sound
<1>12. ASSUME NEW q \in Queues
       PROVE  /\ <<c, i>> \o <<w>> \in Seq(StepOf(q)) /\ Sound(<<c, i>> \o <<w>>)
              /\ Members(<<c, i>> \o <<w>>) = {c, i} \cup {w}
  <2>1. PICK x, y \in Seq(StepOf(q)) : x = <<c, i>> /\ y = <<w>>  BY <1>5
  <2>2. /\ x \o y \in Seq(StepOf(q)) /\ Members(x \o y) = Members(x) \cup Members(y)
        /\ \A a, ops : Covered(x, a, ops) /\ Covered(y, a, ops) => Covered(x \o y, a, ops)
    BY Joined
  <2> QED  BY <1>6, <1>8, <1>11, <2>1, <2>2 DEF Sound
<1> QED  BY <1>1, <1>4, <1>5, <1>6, <1>8, <1>11, <1>12, Owners

(* A handler begins with the steps s.                                      *)
Begins(q, s) == todo[q] = <<>> /\ s \in Seq(StepOf(q)) /\ todo' = [todo EXCEPT ![q] = s]

LEMMA TodoBegins ==
  ASSUME TypeInv, NEW q \in Queues, NEW s, Begins(q, s)
  PROVE  /\ TodoType' /\ todo'[q] = s /\ Todo(q) = {} /\ Todo(q)' = Members(s)
         /\ \A p \in Queues \ {q} : todo'[p] = todo[p] /\ Todo(p)' = Todo(p)
<1>1. \A p \in Queues : StepOf(p) \subseteq Step  BY DEF StepOf, Step
<1>2. s \in Seq(StepOf(q)) /\ s \in Seq(Step)  BY <1>1 DEF Begins
<1>3. todo'[q] = s /\ \A p \in Queues \ {q} : todo'[p] = todo[p]  BY DEF Begins, TypeInv, TodoType
<1>4. TodoType'  BY <1>2, <1>3 DEF Begins, TypeInv, TodoType
<1>5. Todo(q) = {}  BY Tuples DEF Todo, Begins
<1> QED  BY <1>3, <1>4, <1>5 DEF Todo

(* A handler does its first step, which may give it more.                  *)
Works(q, more) ==
  todo[q] # <<>> /\ more \in Seq(StepOf(q)) /\ todo' = [todo EXCEPT ![q] = more \o Tail(todo[q])]

LEMMA TodoWorks ==
  ASSUME TypeInv, NEW q \in Queues, NEW more, Works(q, more)
  PROVE  /\ TodoType' /\ Next1(q) \in StepOf(q)
         /\ \E r : Todo(q) = {Next1(q)} \cup r /\ Todo(q)' = Members(more) \cup r
         /\ \A p \in Queues \ {q} : todo'[p] = todo[p] /\ Todo(p)' = Todo(p)
         /\ \A a, ops : Covered(todo[q], a, ops) /\ Covered(more, a, ops) =>
              Covered(todo[q], a, ops)' /\ (Next1(q) = Do("cancel", a) => Has(q, a, ops)')
<1>1. \A p \in Queues : StepOf(p) \subseteq Step  BY DEF StepOf, Step
<1>2. PICK s \in Seq(StepOf(q)) : s = todo[q]  BY DEF TypeInv, TodoType
<1>3. PICK r : r = Tail(s)  OBVIOUS
<1>4. PICK x : x = more \o r  OBVIOUS
<1>5. s # <<>> /\ more \in Seq(StepOf(q)) /\ Next1(q) = Head(s)  BY <1>2 DEF Works, Next1
<1>6. r \in Seq(StepOf(q)) /\ Head(s) \in StepOf(q) /\ Members(s) = {Head(s)} \cup Members(r)
  BY <1>3, <1>5, MembersTail
<1>7. x \in Seq(StepOf(q)) /\ Members(x) = Members(more) \cup Members(r)
  BY <1>4, <1>5, <1>6, Joined
<1>8. x \in Seq(Step)  BY <1>1, <1>7
<1>9. todo'[q] = x /\ \A p \in Queues \ {q} : todo'[p] = todo[p]
  BY <1>2, <1>3, <1>4 DEF Works, TypeInv, TodoType
<1>10. TodoType'  BY <1>2, <1>3, <1>4, <1>7, <1>8, <1>9 DEF Works, TypeInv, TodoType
<1>11. Todo(q) = {Next1(q)} \cup Members(r) /\ Todo(q)' = Members(more) \cup Members(r)
  BY <1>2, <1>5, <1>6, <1>7, <1>9 DEF Todo
<1>12. ASSUME NEW a, NEW ops, Covered(s, a, ops), Covered(more, a, ops)
       PROVE  Covered(x, a, ops) /\ (Head(s) = Do("cancel", a) => \E y \in Members(x) : y.on = a /\ y.op \in ops)
  <2>1. Covered(r, a, ops) /\ (Head(s) = Do("cancel", a) => \E y \in Members(r) : y.on = a /\ y.op \in ops)
    BY <1>3, <1>5, <1>12, CoveredTail
  <2>2. Covered(x, a, ops)  BY <1>4, <1>5, <1>6, <1>12, <2>1, Joined
  <2> QED  BY <1>7, <2>1, <2>2
<1>13. \A a, ops : Covered(todo[q], a, ops) /\ Covered(more, a, ops) =>
              Covered(todo[q], a, ops)' /\ (Next1(q) = Do("cancel", a) => Has(q, a, ops)')
  BY <1>2, <1>5, <1>9, <1>12 DEF Has, Todo
<1>14. \A p \in Queues \ {q} : Todo(p)' = Todo(p)  BY <1>9 DEF Todo
<1> QED  BY <1>5, <1>6, <1>9, <1>10, <1>11, <1>13, <1>14
-----------------------------------------------------------------------------
(* TimingSync's alarm                                                      *)

(* Its part of a step: what the alarm, the handlers and the news become.   *)
LEMMA SyncRests ==
  ASSUME TypeInv, SyncInv, todo' = todo, heardUp' = heardUp, Armed("sync") => Armed("sync")'
  PROVE  SyncInv'
BY DEF SyncInv, Has, Todo

LEMMA SyncBegins ==
  ASSUME TypeInv, SyncInv, NEW q \in Queues, NEW s, Begins(q, s), Covered(s, "sync", SyncOps),
         heardUp' = heardUp, (Armed("sync") => Armed("sync")') \/ Has(q, "sync", SyncOps)'
  PROVE  SyncInv'
<1>1. /\ todo'[q] = s /\ Todo(q) = {} /\ \A p \in Queues \ {q} : todo'[p] = todo[p] /\ Todo(p)' = Todo(p)
  BY TodoBegins
<1>2. \A p \in Queues : Covered(todo[p], "sync", SyncOps) => Covered(todo[p], "sync", SyncOps)'
  BY <1>1
<1>3. \A p \in Queues : Has(p, "sync", SyncOps) => Has(p, "sync", SyncOps)'  BY <1>1 DEF Has
<1> QED  BY <1>2, <1>3, Owners DEF SyncInv

LEMMA SyncWorks ==
  ASSUME TypeInv, SyncInv, NEW q \in Queues, NEW more, Works(q, more), Covered(more, "sync", SyncOps),
         heardUp' = heardUp, (Armed("sync") => Armed("sync")') \/ Next1(q) = Do("cancel", "sync"),
         Next1(q) = Do("start", "sync") => Armed("sync")'
  PROVE  SyncInv'
<1>1. /\ Next1(q) \in StepOf(q) /\ \E r : Todo(q) = {Next1(q)} \cup r /\ Todo(q)' = Members(more) \cup r
      /\ \A p \in Queues \ {q} : todo'[p] = todo[p] /\ Todo(p)' = Todo(p)
      /\ Covered(todo[q], "sync", SyncOps) =>
           Covered(todo[q], "sync", SyncOps)' /\ (Next1(q) = Do("cancel", "sync") => Has(q, "sync", SyncOps)')
  BY TodoWorks
<1>2. \A p \in Queues : Covered(todo[p], "sync", SyncOps) => Covered(todo[p], "sync", SyncOps)'
  BY <1>1
<1>3. Next1(q) \in Step  BY <1>1 DEF StepOf, Step
<1>4. Next1(q).on = "sync" /\ Next1(q).op \in SyncOps => Next1(q) = Do("start", "sync")
  BY <1>3, Names DEF SyncOps
<1>5. \A p \in Queues : Has(p, "sync", SyncOps) => Has(p, "sync", SyncOps)' \/ Armed("sync")'
  BY <1>1, <1>4 DEF Has
<1>6. heardUp \/ Covered(todo[q], "sync", SyncOps)  BY Owners DEF SyncInv
<1>7. Next1(q) = Do("cancel", "sync") => heardUp \/ Has(q, "sync", SyncOps)'  BY <1>1, <1>6
<1> QED  BY <1>2, <1>5, <1>7, Owners DEF SyncInv

(* The monitor's alarm                                                     *)

LEMMA MonitorRests ==
  ASSUME TypeInv, MonitorInv, todo' = todo, Armed("monitor") => Armed("monitor")',
         \/ link' # "none"
         \/ Told(queue["net"])' /\ BadIn(queue["net"])'
         \/ link = "none" /\ NewsKept
  PROVE  MonitorInv'
BY DEF MonitorInv, Has, Todo, NewsKept

LEMMA MonitorBegins ==
  ASSUME TypeInv, MonitorInv, NEW q \in Queues, NEW s, Begins(q, s),
         Covered(s, "monitor", MonitorOps) \/ (q = "net" /\ (link = "none" => BadIn(queue["net"])')),
         link' = link, (Armed("monitor") => Armed("monitor")') \/ Has(q, "monitor", MonitorOps)',
         link = "none" => (Told(queue["net"]) => Told(queue["net"])'),
         \/ NewsKept \/ (link = "none" => BadIn(queue["net"])')
         \/ q = "net" /\ Covered(s, "monitor", MonitorOps) /\ Has(q, "monitor", MonitorOps)'
  PROVE  MonitorInv'
<1>1. /\ todo'[q] = s /\ Todo(q) = {} /\ \A p \in Queues \ {q} : todo'[p] = todo[p] /\ Todo(p)' = Todo(p)
  BY TodoBegins
<1>2. \A p \in Queues \ {q} : Covered(todo[p], "monitor", MonitorOps) => Covered(todo[p], "monitor", MonitorOps)'
  BY <1>1
<1>3. \A p \in Queues : Has(p, "monitor", MonitorOps) => Has(p, "monitor", MonitorOps)'  BY <1>1 DEF Has
<1>4. Covered(s, "monitor", MonitorOps) <=> Covered(todo[q], "monitor", MonitorOps)'  BY <1>1
<1>5. CASE q = "def"  BY <1>2, <1>3, <1>4, <1>5, Owners DEF MonitorInv, NewsKept
<1>6. CASE q = "net"  BY <1>2, <1>3, <1>4, <1>6, Owners DEF MonitorInv, NewsKept
<1> QED  BY <1>5, <1>6, Owners

LEMMA MonitorWorks ==
  ASSUME TypeInv, MonitorInv, NEW q \in Queues, NEW more, Works(q, more), Covered(more, "monitor", MonitorOps),
         (Armed("monitor") => Armed("monitor")') \/ Next1(q) = Do("cancel", "monitor"),
         Next1(q).on = "monitor" /\ Next1(q).op \in MonitorOps =>
           link' # "none" \/ Armed("monitor")' \/ Has(q, "monitor", MonitorOps)',
         link' = "none" => Told(queue["net"])' /\ (BadIn(queue["net"])' \/ (link = "none" /\ NewsKept))
  PROVE  MonitorInv'
<1>1. /\ Next1(q) \in StepOf(q) /\ \E r : Todo(q) = {Next1(q)} \cup r /\ Todo(q)' = Members(more) \cup r
      /\ \A p \in Queues \ {q} : todo'[p] = todo[p] /\ Todo(p)' = Todo(p)
      /\ Covered(todo[q], "monitor", MonitorOps) =>
           Covered(todo[q], "monitor", MonitorOps)' /\ (Next1(q) = Do("cancel", "monitor") => Has(q, "monitor", MonitorOps)')
  BY TodoWorks
<1>2. \A p \in Queues : Covered(todo[p], "monitor", MonitorOps) => Covered(todo[p], "monitor", MonitorOps)'
  BY <1>1
<1>3. link' # "none" \/ \A p \in Queues :
        Has(p, "monitor", MonitorOps) => Has(p, "monitor", MonitorOps)' \/ Armed("monitor")' \/ Has(q, "monitor", MonitorOps)'
  BY <1>1 DEF Has
<1>4. CASE link' # "none"  BY <1>2, <1>4, Owners DEF MonitorInv
<1>5. CASE link' = "none" /\ BadIn(queue["net"])'  BY <1>2, <1>5, Owners DEF MonitorInv
<1>6. CASE link' = "none" /\ link = "none" /\ NewsKept
  <2>1. Covered(todo[q], "monitor", MonitorOps) \/ BadIn(queue["net"])  BY <1>6, Owners DEF MonitorInv
  <2>2. Covered(todo[q], "monitor", MonitorOps) => (Next1(q) = Do("cancel", "monitor") => Has(q, "monitor", MonitorOps)')
    BY <1>1
  <2> QED  BY <1>2, <1>3, <1>6, <2>1, <2>2, Owners DEF MonitorInv, NewsKept
<1> QED  BY <1>4, <1>5, <1>6

(* The alarm of ActiveLogic                                                *)

Spared == Lets \/ \E a \in Alarms \ {"active"} : Began(a) \/ Took(a) \/ Undone(a)

LEMMA ActiveRests ==
  ASSUME TypeInv, ActiveInv, Spared, UNCHANGED <<isforeground, isactive, since>>,
         Starts' => Starts, Cancels => Cancels'
  PROVE  ActiveInv'
<1> DEFINE Same  == due'["active"] = due["active"] /\ ("active" \in Runs' => "active" \in Runs)
           Rings == due'["active"] = 0 /\ due["active"] # 0 /\ clock >= due["active"]
<1>1. /\ due \in [Alarms -> Nat] /\ clock \in Nat /\ since \in Nat /\ After["active"] \in Nat
      /\ "active" \in Alarms
  BY AlarmAssumption, Owners DEF TypeInv, TypeOK
<1>2. PICK b \in Nat : b = since + After["active"]  BY <1>1
<1>3. since' + After["active"] = b  BY <1>2
<1>4. clock' \in Nat /\ clock' >= clock
  BY <1>1 DEF Spared, Lets, Idle, Ticked, Took, Undone, Began, Fired, PassedOn, Early
<1>5. Same \/ Rings
  <2>1. CASE \E a \in Alarms \ {"active"} : Took(a) \/ Undone(a)
    BY <1>1, <2>1 DEF Took, Undone, Ended
  <2>2. CASE Idle \/ Ticked \/ \E t \in timers : PassedOn(t)
    BY <2>2 DEF Idle, Ticked, PassedOn, Kept
  <2>3. ASSUME NEW a \in Alarms \ {"active"}, Began(a)  PROVE Same
    BY <1>1, <2>3 DEF Began, Kept
  <2>4. ASSUME NEW a \in Alarms, Early(a)  PROVE Same
    BY <2>4 DEF Early
  <2>5. ASSUME NEW a \in Alarms, Fired(a)  PROVE Same \/ Rings
    BY <1>1, <2>5 DEF Fired, Ended
  <2> QED  BY <2>1, <2>2, <2>3, <2>4, <2>5 DEF Spared, Lets
<1>6. /\ Ran("active") <=> "active" \in Runs
      /\ Ran("active")' <=> "active" \in Runs'
  BY <1>1 DEF Runs
<1>7. /\ isforeground => isactive
      /\ ~isactive => clock >= b
      /\ Starts => ~isforeground
      /\ ~Cancels => /\ due["active"] # 0 => ~isforeground /\ due["active"] >= b
                     /\ "active" \in Runs => ~isforeground /\ clock >= b
  BY <1>2, <1>6 DEF ActiveInv, InactiveHonest, Waits
<1>8. /\ isforeground' => isactive'
      /\ ~isactive' => clock' >= b
      /\ Starts' => ~isforeground'
      /\ ~Cancels' => /\ due'["active"] # 0 => ~isforeground' /\ due'["active"] >= b
                      /\ "active" \in Runs' => ~isforeground' /\ clock' >= b
  <2> HIDE DEF Same, Rings
  <2>1. CASE Same
    <3> USE DEF Same
    <3> QED  BY <1>1, <1>2, <1>4, <1>7, <2>1
  <2>2. CASE Rings
    <3>1. ~Cancels => ~isforeground /\ clock' >= b /\ due'["active"] = 0
      BY <1>1, <1>2, <1>4, <1>7, <2>2 DEF Rings
    <3> QED  BY <1>1, <1>2, <1>4, <1>7, <3>1
  <2> QED  BY <1>5, <2>1, <2>2
<1> QED  BY <1>3, <1>6, <1>8 DEF ActiveInv, InactiveHonest, Waits

LEMMA ActiveUndone ==
  ASSUME TypeInv, ActiveInv, Undone("active"), UNCHANGED <<isforeground, isactive, since>>, Starts' => Starts
  PROVE  ActiveInv'
<1>1. "active" \in Alarms /\ due \in [Alarms -> Nat]  BY Owners DEF TypeInv
<1>2. clock' = clock /\ due'["active"] = 0 /\ "active" \notin Runs'  BY <1>1 DEF Undone, Ended
<1>3. ~Ran("active")'  BY <1>1, <1>2 DEF Runs
<1> QED  BY <1>2, <1>3 DEF ActiveInv, InactiveHonest, Waits

LEMMA ActiveBegan ==
  ASSUME TypeInv, ActiveInv, Began("active"), UNCHANGED <<isforeground, isactive, since>>, Starts, Cancels => Cancels'
  PROVE  ActiveInv'
<1>1. /\ due \in [Alarms -> Nat] /\ clock \in Nat /\ since \in Nat /\ After["active"] \in Nat
      /\ "active" \in Alarms /\ since <= clock
  BY AlarmAssumption, Owners DEF TypeInv, TypeOK
<1>2. clock' = clock /\ due'["active"] = clock + After["active"] /\ Runs' = Runs
  BY <1>1 DEF Began, Kept
<1>3. Ran("active")' <=> Ran("active")  BY <1>1, <1>2 DEF Runs
<1>4. due'["active"] >= since + After["active"]  BY <1>1, <1>2
<1> QED  BY <1>2, <1>3, <1>4 DEF ActiveInv, InactiveHonest, Waits

(* Types                                                                   *)

RestType ==
  /\ isforeground' \in BOOLEAN /\ isactive' \in BOOLEAN /\ heardUp' \in BOOLEAN
  /\ link' \in {"connecting", "connected", "none"}
  /\ since' = since \/ (since' = clock /\ clock' = clock)
  /\ moves' = moves \/ moves' = moves + 1

LEMMA TypeStep ==
  ASSUME TypeInv, Effect, QueueType', TodoType', RestType, Ticked => clock < MaxTime
  PROVE  TypeInv'
<1>1. /\ due \in [Alarms -> Nat] /\ clock \in 0..MaxTime /\ clock \in Nat /\ since \in Nat /\ since <= clock
      /\ timers \subseteq [alarm : Alarms, at : Nat] /\ moves \in Nat /\ MaxTime \in Nat
      /\ \A a \in Alarms : clock + After[a] \in Nat
  BY AlarmAssumption DEF TypeInv, TypeOK
<1>2. /\ clock' \in 0..MaxTime /\ clock' >= clock
      /\ clock' = clock \/ Ticked
  <2>1. clock' = clock \/ Ticked
    BY DEF Effect, Spares, Lets, Idle, Took, Undone, Began, Fired, PassedOn, Early
  <2>2. Ticked => clock' = clock + 1  BY DEF Ticked
  <2> QED  BY <1>1, <2>1, <2>2
<1>3. due' \in [Alarms -> Nat] /\ timers' \subseteq [alarm : Alarms, at : Nat]
  <2>1. CASE Idle \/ Ticked \/ (\E t \in timers : PassedOn(t)) \/ \E a \in Alarms : Took(a)
    BY <1>1, <2>1 DEF Idle, Ticked, PassedOn, Took
  <2>2. ASSUME NEW a \in Alarms, Undone(a) \/ Fired(a)  PROVE <1>3
    BY <1>1, <2>2 DEF Undone, Fired, Ended
  <2>3. ASSUME NEW a \in Alarms, Began(a)  PROVE <1>3
    BY <1>1, <2>3 DEF Began, Timer
  <2>4. ASSUME NEW a \in Alarms, Early(a)  PROVE <1>3
    <3>1. due' = due /\ \A t \in timers' : t \in timers \/ t = Timer(a, clock)  BY <2>4 DEF Early
    <3>2. Timer(a, clock) \in [alarm : Alarms, at : Nat]  BY <1>1 DEF Timer
    <3> QED  BY <1>1, <3>1, <3>2
  <2> QED  BY <2>1, <2>2, <2>3, <2>4 DEF Effect, Spares, Lets
<1>4. since' \in Nat /\ since' <= clock' /\ moves' \in Nat  BY <1>1, <1>2 DEF RestType
<1>5. \A q \in Queues : \A i \in DOMAIN todo'[q] : todo'[q][i].on \in Alarms
  <2>1. ASSUME NEW q \in Queues, NEW i \in DOMAIN todo'[q]  PROVE todo'[q][i] \in Step
    <3>1. PICK s \in Seq(Step) : s = todo'[q]  BY DEF TodoType
    <3> QED  BY <3>1
  <2> QED  BY <2>1, Names
<1>6. TypeOK'
  <2>1. waiting' \subseteq Alarms  BY DEF waiting
  <2> QED  BY <1>2, <1>5, <2>1 DEF TypeOK, RestType
<1> QED  BY <1>3, <1>4, <1>6 DEF TypeInv
-----------------------------------------------------------------------------
(* Every step                                                              *)

(* The environment, and messages of alarms.                                *)
LEMMA AloneStep ==
  ASSUME AlarmsInv, Lets, NewsKept, QueueType', Ticked => clock < MaxTime,
         UNCHANGED <<todo, isforeground, isactive, since, link, heardUp>>,
         moves' = moves \/ moves' = moves + 1
  PROVE  AlarmsInv'
<1>1. TypeInv /\ TimerInv /\ SyncInv /\ MonitorInv /\ ActiveInv  BY DEF AlarmsInv
<1>2. Effect /\ Spares /\ Spared  BY DEF Effect, Spares, Spared
<1>3. RestType  BY <1>1 DEF RestType, TypeInv, TypeOK
<1>4. TodoType'  BY <1>1 DEF TypeInv, TodoType
<1>5. TypeInv'  BY <1>1, <1>2, <1>3, <1>4, TypeStep
<1>6. TimerInv'  BY <1>1, <1>2, TimerStep
<1>7. \A a \in Alarms : Armed(a) => Armed(a)'  BY <1>1, <1>2, ArmedStep
<1>8. SyncInv'  BY <1>1, <1>7, SyncRests, Owners
<1>9. MonitorInv'
  <2>1. link' # "none" \/ (link = "none" /\ NewsKept)  OBVIOUS
  <2> QED  BY <1>1, <1>7, <2>1, MonitorRests, Owners
<1>10. ActiveInv'
  <2>1. (Starts' <=> Starts) /\ (Cancels' <=> Cancels)  BY DEF Starts, Cancels, Todo
  <2> QED  BY <1>1, <1>2, <2>1, ActiveRests
<1> QED  BY <1>5, <1>6, <1>8, <1>9, <1>10 DEF AlarmsInv

LEMMA OutsideSteps ==
  ASSUME AlarmsInv
  PROVE  /\ Flip \/ Outside(Tick) \/ NetTakeTimer => AlarmsInv'
         /\ \A a \in Alarms : EarlyAlarm(a) => AlarmsInv'
         /\ \A t \in timers : DefTakeTimer(t) => AlarmsInv'
<1>1. TypeInv /\ TimerInv /\ clock \in Nat  BY DEF AlarmsInv, TypeInv, TypeOK
<1> DEFINE Quiet == UNCHANGED <<todo, isforeground, isactive, since, link, heardUp>> /\ (moves' = moves \/ moves' = moves + 1)
<1>2. clock' = clock => ~Ticked  BY <1>1 DEF Ticked
<1>3. ASSUME Flip  PROVE AlarmsInv'
  <2>1. Quiet /\ clock' = clock  BY <1>3 DEF Flip, Move
  <2>2. Lets /\ NewsKept /\ QueueType'  BY <1>1, <1>3, FlipEffect
  <2> QED  BY <1>2, <2>1, <2>2, AloneStep
<1>4. ASSUME Outside(Tick)  PROVE AlarmsInv'
  <2>1. Quiet /\ clock < MaxTime /\ queue' = queue  BY <1>4 DEF Outside, Tick, restVars
  <2>2. QueueType' /\ Kept /\ NewsKept  BY <1>1, <2>1, QueueSame DEF Kept, NewsKept, TypeInv, Told, BadIn
  <2>3. Ticked  BY <1>4, <2>2 DEF Outside, Tick, Ticked
  <2> QED  BY <2>1, <2>2, <2>3, AloneStep DEF Lets
<1>5. ASSUME NetTakeTimer  PROVE AlarmsInv'
  <2>1. Quiet /\ clock' = clock  BY <1>5 DEF NetTakeTimer, restVars
  <2>2. Lets /\ NewsKept /\ QueueType'  BY <1>1, <1>5, NetTakeEffect
  <2> QED  BY <1>2, <2>1, <2>2, AloneStep
<1>6. ASSUME NEW a \in Alarms, EarlyAlarm(a)  PROVE AlarmsInv'
  <2>1. Quiet /\ clock' = clock /\ PlatformAlarm(a)  BY <1>6 DEF EarlyAlarm, Move, PlatformAlarm
  <2>2. Lets /\ NewsKept /\ QueueType'  BY <1>1, <2>1, EarlyAlarmEffect
  <2> QED  BY <1>2, <2>1, <2>2, AloneStep
<1>7. ASSUME NEW t \in timers, DefTakeTimer(t)  PROVE AlarmsInv'
  <2>1. Quiet /\ clock' = clock  BY <1>7 DEF DefTakeTimer, restVars
  <2>2. Lets /\ NewsKept /\ QueueType'  BY <1>1, <1>7, DefTakeEffect
  <2> QED  BY <1>2, <2>1, <2>2, AloneStep
<1> QED  BY <1>3, <1>4, <1>5, <1>6, <1>7

(* The connection ends with news of it, and there is none of a connection  *)
(* that has not ended.                                                     *)
LEMMA LinkStep ==
  ASSUME AlarmsInv, LinkChanges
  PROVE  AlarmsInv'
<1>1. TypeInv /\ TimerInv /\ SyncInv /\ MonitorInv /\ ActiveInv  BY DEF AlarmsInv
<1>2. /\ UNCHANGED <<clock, due, timers, todo, isforeground, isactive, since, heardUp, moves>>
      /\ link' \in {"connecting", "connected", "none"}
  BY DEF LinkChanges
<1>3. PICK kind \in GoodNews \cup BadNews : News(kind) /\ (link' # "none" \/ kind \in BadNews)
  BY DEF LinkChanges, GoodNews, BadNews
<1>4. Lets /\ QueueType' /\ (kind \in BadNews => Told(queue["net"])' /\ BadIn(queue["net"])')
  BY <1>1, <1>2, <1>3, NewsEffect
<1>5. Effect /\ Spares /\ Spared  BY <1>4 DEF Effect, Spares, Spared
<1>6. RestType /\ TodoType' /\ ~Ticked
  BY <1>1, <1>2 DEF RestType, TypeInv, TypeOK, TodoType, Ticked
<1>7. TypeInv'  BY <1>1, <1>4, <1>5, <1>6, TypeStep
<1>8. TimerInv'  BY <1>1, <1>5, TimerStep
<1>9. \A a \in Alarms : Armed(a) => Armed(a)'  BY <1>1, <1>5, ArmedStep
<1>10. SyncInv'  BY <1>1, <1>2, <1>9, SyncRests, Owners
<1>11. MonitorInv'
  <2>1. link' # "none" \/ (Told(queue["net"])' /\ BadIn(queue["net"])')  BY <1>3, <1>4
  <2> QED  BY <1>1, <1>2, <1>9, <2>1, MonitorRests, Owners
<1>12. ActiveInv'
  <2>1. (Starts' <=> Starts) /\ (Cancels' <=> Cancels)  BY <1>2 DEF Starts, Cancels, Todo
  <2> QED  BY <1>1, <1>2, <1>5, <2>1, ActiveRests
<1> QED  BY <1>7, <1>8, <1>10, <1>11, <1>12 DEF AlarmsInv

(* Handlers of the default queue.                                          *)
LEMMA DefBegins ==
  ASSUME AlarmsInv, NEW s, Begins("def", s), Sound(s), NewsKept, QueueType',
         Idle \/ (\E a \in Alarms \ {"monitor"} : Took(a)),
         (Armed("sync") => Armed("sync")') \/ Has("def", "sync", SyncOps)',
         UNCHANGED <<link, heardUp, moves>>, RestType, ActiveInv'
  PROVE  AlarmsInv'
<1>1. TypeInv /\ TimerInv /\ SyncInv /\ MonitorInv  BY DEF AlarmsInv
<1>2. Effect  BY DEF Effect, Spares, Lets
<1>3. clock' = clock /\ clock \in Nat  BY <1>1 DEF Idle, Took, TypeInv, TypeOK
<1>4. ~Ticked  BY <1>3 DEF Ticked
<1>5. PICK q \in Queues : q = "def"  BY Owners
<1>6. Begins(q, s) /\ ((Armed("sync") => Armed("sync")') \/ Has(q, "sync", SyncOps)')  BY <1>5
<1>7. TodoType'  BY <1>1, <1>6, TodoBegins
<1>8. TypeInv'  BY <1>1, <1>2, <1>4, <1>7, TypeStep
<1>9. TimerInv'  BY <1>1, <1>2, TimerStep
<1>10. Armed("monitor") => Armed("monitor")'
  <2>1. CASE Idle  BY <1>1, <2>1, ArmedStep, Owners DEF Spares, Lets
  <2>2. ASSUME NEW a \in Alarms \ {"monitor"}, Took(a)  PROVE <1>10
    <3>1. a \in Alarms /\ "monitor" \in Alarms \ {a}  BY Owners
    <3> QED  BY <1>1, <2>2, <3>1, ArmedStep
  <2> QED  BY <2>1, <2>2
<1>11. SyncInv'  BY <1>1, <1>6, SyncBegins DEF Sound
<1>12. MonitorInv'
  <2>1. Told(queue["net"]) => Told(queue["net"])'  BY DEF NewsKept
  <2> QED  BY <1>1, <1>6, <1>10, <2>1, MonitorBegins DEF Sound
<1> QED  BY <1>8, <1>9, <1>11, <1>12 DEF AlarmsInv

(* What a handler of the default queue finds and leaves.                   *)
LEMMA DefTakes ==
  ASSUME AlarmsInv, NEW s \in Seq(StepOf("def")), NEW kind, Arrived("def", kind), Handle("def", s)
  PROVE  /\ Begins("def", s) /\ Takes("def", Head(queue["def"])) /\ Head(queue["def"]).kind = kind
         /\ ~Cancels /\ ~Starts
         /\ Cancels' <=> Do("cancel", "active") \in Members(s)
         /\ Starts' <=> Do("start", "active") \in Members(s)
<1>1. PICK q \in Queues : q = "def"  BY Owners
<1>2. TypeInv /\ Free(q) /\ Begins(q, s)  BY <1>1 DEF AlarmsInv, Arrived, Handle, Begins, Free
<1>3. queue' = [queue EXCEPT ![q] = Rest(q)] /\ UNCHANGED <<clock, due, timers>>  BY <1>1 DEF Handle
<1>4. Takes(q, Head(queue[q]))  BY <1>2, <1>3, HandleEffect
<1>5. Todo(q) = {} /\ Todo(q)' = Members(s)  BY <1>2, TodoBegins
<1> QED  BY <1>1, <1>2, <1>4, <1>5 DEF Arrived, Cancels, Starts

LEMMA ForegroundStep ==
  ASSUME AlarmsInv, NEW kind \in {"foreground", "background"}, OnForeground(kind)
  PROVE  AlarmsInv'
<1> DEFINE more == IF kind = "background" THEN <<Do("start", "active")>> ELSE <<>>
           then == IF isactive THEN <<>> ELSE SignalActive
<1>1. PICK c, n : c = Do("cancel", "active") /\ n = Do("start", "active")  OBVIOUS
<1>2. c \in StepOf("def") /\ n \in StepOf("def")  BY <1>1, Owners DEF StepOf, DefStep
<1>3. PICK x : x = <<c>>  OBVIOUS
<1>4. PICK y : y = more  OBVIOUS
<1>5. PICK z : z = AutoIntervalConnect  OBVIOUS
<1>6. PICK w : w = then  OBVIOUS
<1>7. PICK S : S = StepOf("def")  OBVIOUS
<1>8. \A op, a : a # "active" => Do(op, a) # c /\ Do(op, a) # n  BY <1>1, Names
<1>9. n # c  BY <1>1, Names
<1>10. x \in Seq(S) /\ Sound(x) /\ Members(x) = {c}
  <2>1. Members(x) = {c}  BY <1>3, Tuples
  <2>2. Do("cancel", "sync") # c /\ Do("cancel", "monitor") # c  BY <1>1, Names
  <2> QED  BY <1>2, <1>3, <1>7, <2>1, <2>2, CoveredNone DEF Sound
<1>11. y \in Seq(S) /\ Sound(y) /\ Members(y) = (IF kind = "background" THEN {n} ELSE {})
  <2>1. CASE kind = "background"
    <3>1. y = <<n>>  BY <1>1, <1>4, <2>1
    <3>2. Members(y) = {n}  BY <3>1, Tuples
    <3>3. Do("cancel", "sync") # n /\ Do("cancel", "monitor") # n  BY <1>1, Names
    <3> QED  BY <1>2, <1>7, <2>1, <3>1, <3>2, <3>3, CoveredNone DEF Sound
  <2>2. CASE kind # "background"
    <3>1. y = <<>>  BY <1>4, <2>2
    <3> QED  BY <1>7, <2>2, <3>1, Programs, Tuples, Owners
  <2> QED  BY <2>1, <2>2
<1>12. z \in Seq(S) /\ Sound(z) /\ c \notin Members(z) /\ n \notin Members(z)
  BY <1>5, <1>7, <1>8, Programs, Owners
<1>13. w \in Seq(S) /\ Sound(w) /\ c \notin Members(w) /\ n \notin Members(w)
  <2>1. CASE isactive
    <3>1. w = <<>>  BY <1>6, <2>1
    <3> QED  BY <1>7, <3>1, Programs, Tuples, Owners
  <2>2. CASE ~isactive
    <3>1. w = SignalActive  BY <1>6, <2>2
    <3> QED  BY <1>7, <1>8, <3>1, Programs, Owners
  <2> QED  BY <2>1, <2>2
<1> HIDE DEF more, then
<1>14. PICK s : s = ((x \o y) \o z) \o w  OBVIOUS
<1>15. s \in Seq(S) /\ Sound(s) /\ Members(s) = ((Members(x) \cup Members(y)) \cup Members(z)) \cup Members(w)
  <2>1. PICK u : u = x \o y  OBVIOUS
  <2>2. u \in Seq(S) /\ Sound(u) /\ Members(u) = Members(x) \cup Members(y)
    BY <1>10, <1>11, <2>1, Joined DEF Sound
  <2>3. PICK v : v = u \o z  OBVIOUS
  <2>4. v \in Seq(S) /\ Sound(v) /\ Members(v) = Members(u) \cup Members(z)
    BY <1>12, <2>2, <2>3, Joined DEF Sound
  <2>5. s = v \o w  BY <1>14, <2>1, <2>3
  <2>6. s \in Seq(S) /\ Sound(s) /\ Members(s) = Members(v) \cup Members(w)
    BY <1>13, <2>4, <2>5, Joined DEF Sound
  <2> QED  BY <2>2, <2>4, <2>6
<1>16. Handle("def", s) /\ Arrived("def", kind)
  BY <1>1, <1>3, <1>4, <1>5, <1>6, <1>14 DEF OnForeground, more, then
<1>17. /\ Begins("def", s) /\ Takes("def", Head(queue["def"])) /\ Head(queue["def"]).kind = kind
       /\ Cancels' /\ (Starts' => kind = "background")
  <2>1. c \in Members(s) /\ (n \in Members(s) => kind = "background")
    BY <1>9, <1>10, <1>11, <1>12, <1>13, <1>15
  <2> QED  BY <1>1, <1>7, <1>15, <1>16, <2>1, DefTakes
<1>18. Idle /\ NewsKept /\ QueueType'
  BY <1>17 DEF Takes, GoodNews, BadNews
<1>19. /\ isforeground' = (kind = "foreground") /\ isactive' = TRUE /\ since' = clock
       /\ UNCHANGED <<link, heardUp, moves>> /\ clock' = clock
  BY <1>16 DEF OnForeground, Handle
<1>20. TypeInv /\ RestType  BY <1>19 DEF AlarmsInv, RestType, TypeInv, TypeOK
<1>21. ActiveInv'
  <2>1. Starts' => ~isforeground'  BY <1>17, <1>19
  <2> QED  BY <1>17, <1>19, <2>1 DEF ActiveInv, InactiveHonest
<1>22. Armed("sync") => Armed("sync")'  BY <1>18, <1>20, ArmedStep, Owners DEF Spares, Lets
<1> QED  BY <1>15, <1>17, <1>18, <1>19, <1>20, <1>21, <1>22, DefBegins

LEMMA DefSteps ==
  ASSUME AlarmsInv, DefHandles
  PROVE  AlarmsInv'
<1>1. TypeInv /\ ActiveInv /\ TypeOK  BY DEF AlarmsInv, TypeInv
<1>2. PICK S : S = StepOf("def")  OBVIOUS
<1>3. ASSUME NEW kind \in {"foreground", "background"}, OnSameForeground(kind)  PROVE AlarmsInv'
  <2>1. PICK s : s = <<>>  OBVIOUS
  <2>2. s \in Seq(S) /\ Sound(s) /\ Members(s) = {}  BY <1>2, <2>1, Programs, Tuples, Owners
  <2>3. Arrived("def", kind) /\ Handle("def", s) /\ UNCHANGED restVars /\ clock' = clock
    BY <1>3, <2>1 DEF OnSameForeground, Handle
  <2>4. /\ Begins("def", s) /\ Takes("def", Head(queue["def"])) /\ Head(queue["def"]).kind = kind
        /\ ~Cancels /\ ~Starts'
    BY <1>2, <2>2, <2>3, DefTakes
  <2>5. Idle /\ NewsKept /\ QueueType'  BY <2>4 DEF Takes, GoodNews, BadNews
  <2>6. RestType /\ UNCHANGED <<link, heardUp, moves, isforeground, isactive, since>>
    BY <1>1, <2>3 DEF RestType, TypeOK, restVars
  <2>7. Spared /\ Spares  BY <2>5 DEF Spared, Spares, Lets
  <2>8. ActiveInv'  BY <1>1, <2>4, <2>6, <2>7, ActiveRests
  <2>9. Armed("sync") => Armed("sync")'  BY <1>1, <2>7, ArmedStep, Owners
  <2> QED  BY <2>2, <2>4, <2>5, <2>6, <2>8, <2>9, DefBegins
<1>4. ASSUME OnInActive  PROVE AlarmsInv'
  <2>1. PICK s : s = SignalActive  OBVIOUS
  <2>2. s \in Seq(S) /\ Sound(s) /\ Do("cancel", "active") \notin Members(s) /\ Do("start", "active") \notin Members(s)
    BY <1>2, <2>1, Programs, Names, Owners
  <2>3. /\ Arrived("def", "run") /\ Handle("def", s) /\ Head(queue["def"]).alarm = "active"
        /\ isactive' = (isforeground /\ isactive)
        /\ UNCHANGED <<isforeground, since, link, heardUp, moves>> /\ clock' = clock
    BY <1>4, <2>1 DEF OnInActive, Handle
  <2>4. /\ Begins("def", s) /\ Takes("def", Head(queue["def"])) /\ Head(queue["def"]).kind = "run"
        /\ ~Cancels /\ ~Starts'
    BY <1>2, <2>2, <2>3, DefTakes
  <2>5. Ran("active") /\ Took("active") /\ NewsKept /\ QueueType'
    BY <2>3, <2>4 DEF Takes, GoodNews, BadNews
  <2>6. RestType  BY <1>1, <2>3 DEF RestType, TypeOK
  <2>7. ~isforeground /\ clock >= since + After["active"] /\ "active" \in Alarms
    BY <1>1, <2>4, <2>5, Owners DEF ActiveInv
  <2>8. ActiveInv'
    <3>1. due' = due /\ (Ran("active")' => Ran("active"))  BY <2>5, <2>7 DEF Took, Runs
    <3>2. /\ isforeground' = FALSE /\ clock' = clock /\ since' = since
          /\ clock >= since + After["active"]
      BY <1>1, <2>3, <2>7 DEF TypeOK
    <3> QED  BY <1>1, <2>4, <3>1, <3>2 DEF ActiveInv, InactiveHonest, Waits
  <2>9. Armed("sync") => Armed("sync")'  BY <1>1, <2>5, ArmedStep, Owners
  <2>10. \E a \in Alarms \ {"monitor"} : Took(a)  BY <2>5, Owners
  <2> QED  BY <1>2, <2>2, <2>3, <2>4, <2>5, <2>6, <2>8, <2>9, <2>10, DefBegins
<1>5. ASSUME SyncOnAlarm  PROVE AlarmsInv'
  <2>1. PICK n : n = Do("start", "sync")  OBVIOUS
  <2>2. PICK s : s = <<n>>  OBVIOUS
  <2>3. n \in S /\ Members(s) = {n}  BY <1>2, <2>1, <2>2, Owners, Tuples DEF StepOf, DefStep
  <2>4. /\ Do("cancel", "sync") # n /\ Do("cancel", "monitor") # n /\ Do("cancel", "active") # n
        /\ Do("start", "active") # n /\ n.on = "sync" /\ n.op = "start"
    BY <2>1, Names
  <2>5. s \in Seq(S) /\ Sound(s)  BY <2>2, <2>3, <2>4, CoveredNone DEF Sound
  <2>6. /\ Arrived("def", "run") /\ Handle("def", s) /\ Head(queue["def"]).alarm = "sync"
        /\ UNCHANGED restVars /\ clock' = clock
    BY <1>5, <2>1, <2>2 DEF SyncOnAlarm, Handle
  <2>7. /\ Begins("def", s) /\ Takes("def", Head(queue["def"])) /\ Head(queue["def"]).kind = "run"
        /\ ~Cancels /\ ~Starts'
    BY <1>2, <2>3, <2>4, <2>5, <2>6, DefTakes
  <2>8. Took("sync") /\ NewsKept /\ QueueType'  BY <2>6, <2>7 DEF Takes, GoodNews, BadNews
  <2>9. RestType /\ UNCHANGED <<link, heardUp, moves, isforeground, isactive, since>>
    BY <1>1, <2>6 DEF RestType, TypeOK, restVars
  <2>10. \E a \in Alarms \ {"active"} : Took(a)  BY <2>8, Owners
  <2>11. ActiveInv'  BY <1>1, <2>7, <2>9, <2>10, ActiveRests DEF Spared
  <2>12. Has("def", "sync", SyncOps)'
    <3>1. PICK q \in Queues : q = "def"  BY Owners
    <3>2. Todo(q)' = Members(s)  BY <1>1, <2>7, <3>1, TodoBegins
    <3> QED  BY <2>3, <2>4, <3>1, <3>2 DEF Has, SyncOps
  <2>13. \E a \in Alarms \ {"monitor"} : Took(a)  BY <2>8, Owners
  <2> QED  BY <1>2, <2>5, <2>7, <2>8, <2>9, <2>11, <2>12, <2>13, DefBegins
<1>6. ASSUME NEW kind \in {"foreground", "background"}, OnForeground(kind)  PROVE AlarmsInv'
  BY <1>6, ForegroundStep
<1> QED  BY <1>3, <1>4, <1>5, <1>6 DEF DefHandles

(* Handlers of the net queue.                                              *)
LEMMA NetBegins ==
  ASSUME AlarmsInv, NEW s, Begins("net", s), QueueType', SyncInv',
         Idle \/ Took("monitor"), UNCHANGED <<isforeground, isactive, since, link>>, RestType,
         (Armed("monitor") => Armed("monitor")') \/ Has("net", "monitor", MonitorOps)',
         Told(queue["net"]) => Told(queue["net"])',
         \/ link = "none" => BadIn(queue["net"])'
         \/ /\ Covered(s, "monitor", MonitorOps)
            /\ NewsKept \/ Has("net", "monitor", MonitorOps)'
  PROVE  AlarmsInv'
<1>1. TypeInv /\ TimerInv /\ MonitorInv /\ ActiveInv  BY DEF AlarmsInv
<1>2. Effect /\ Spared  BY Owners DEF Effect, Spares, Lets, Spared
<1>3. clock' = clock /\ clock \in Nat  BY <1>1 DEF Idle, Took, TypeInv, TypeOK
<1>4. ~Ticked  BY <1>3 DEF Ticked
<1>5. PICK q \in Queues : q = "net"  BY Owners
<1>6. Begins(q, s) /\ ((Armed("monitor") => Armed("monitor")') \/ Has(q, "monitor", MonitorOps)')  BY <1>5
<1>7. TodoType' /\ Todo("def")' = Todo("def")  BY <1>1, <1>5, <1>6, TodoBegins, Owners
<1>8. TypeInv'  BY <1>1, <1>2, <1>4, <1>7, TypeStep
<1>9. TimerInv'  BY <1>1, <1>2, TimerStep
<1>10. MonitorInv'  BY <1>1, <1>5, <1>6, MonitorBegins
<1>11. ActiveInv'
  <2>1. (Starts' => Starts) /\ (Cancels => Cancels')  BY <1>7 DEF Starts, Cancels
  <2> QED  BY <1>1, <1>2, <2>1, ActiveRests
<1> QED  BY <1>8, <1>9, <1>10, <1>11 DEF AlarmsInv

LEMMA NetTakes ==
  ASSUME AlarmsInv, NEW s \in Seq(StepOf("net")), NEW kind, Arrived("net", kind), Handle("net", s)
  PROVE  /\ Begins("net", s) /\ Takes("net", Head(queue["net"])) /\ Head(queue["net"]).kind = kind
         /\ Todo("net")' = Members(s) /\ todo'["net"] = s /\ todo'["def"] = todo["def"]
<1>1. PICK q \in Queues : q = "net"  BY Owners
<1>2. TypeInv /\ Free(q) /\ Begins(q, s)  BY <1>1 DEF AlarmsInv, Arrived, Handle, Begins, Free
<1>3. queue' = [queue EXCEPT ![q] = Rest(q)] /\ UNCHANGED <<clock, due, timers>>  BY <1>1 DEF Handle
<1>4. Takes(q, Head(queue[q]))  BY <1>2, <1>3, HandleEffect
<1>5. todo'[q] = s /\ Todo(q)' = Members(s) /\ todo'["def"] = todo["def"]
  BY <1>1, <1>2, TodoBegins, Owners
<1> QED  BY <1>1, <1>2, <1>4, <1>5 DEF Arrived

(* The alarm of TimingSync when the net queue takes up a handler that does *)
(* not cancel it.                                                          *)
LEMMA SyncNet ==
  ASSUME AlarmsInv, NEW s, Begins("net", s), Do("cancel", "sync") \notin Members(s),
         Idle \/ Took("monitor"), heardUp' = heardUp
  PROVE  SyncInv'
<1>1. TypeInv /\ SyncInv  BY DEF AlarmsInv
<1>2. PICK q \in Queues : q = "net"  BY Owners
<1>3. Armed("sync") => Armed("sync")'
  <2>1. CASE Idle  BY <1>1, <2>1, ArmedStep, Owners DEF Spares, Lets
  <2>2. CASE Took("monitor")  BY <1>1, <2>2, ArmedStep, Owners
  <2> QED  BY <2>1, <2>2
<1>4. Covered(s, "sync", SyncOps)  BY CoveredNone
<1> QED  BY <1>1, <1>2, <1>3, <1>4, SyncBegins

(* The beginning of a connection: it is still there, or news of its end    *)
(* are behind.                                                             *)
LEMMA ConnectingStep ==
  ASSUME AlarmsInv, OnConnecting \/ OnConnected
  PROVE  AlarmsInv'
<1>1. PICK c, d : c = Do("cancel", "monitor") /\ d = Do("cancel", "sync")  OBVIOUS
<1>2. PICK S : S = StepOf("net")  OBVIOUS
<1>3. c \in S /\ d \in S /\ c # d  BY <1>1, <1>2, Names DEF StepOf, NetStep
<1>4. TypeInv /\ TypeOK /\ MonitorInv /\ SyncInv  BY DEF AlarmsInv, TypeInv
<1>5. ASSUME NEW s \in Seq(S), NEW kind \in GoodNews, Arrived("net", kind), Handle("net", s),
             UNCHANGED <<isforeground, isactive, since, link, moves>>, heardUp' \in BOOLEAN, SyncInv'
      PROVE  AlarmsInv'
  <2>1. Begins("net", s) /\ Takes("net", Head(queue["net"])) /\ Head(queue["net"]).kind = kind
    BY <1>2, <1>5, NetTakes
  <2>2. /\ Idle /\ QueueType'
        /\ Told(queue["net"]) => Told(queue["net"])' /\ BadIn(queue["net"])'
    BY <2>1 DEF Takes, GoodNews, BadNews
  <2>3. link = "none" => Told(queue["net"])  BY <1>4 DEF MonitorInv
  <2>4. RestType  BY <1>4, <1>5 DEF RestType, TypeOK
  <2>5. Armed("monitor") => Armed("monitor")'  BY <1>4, <2>2, ArmedStep, Owners DEF Spares, Lets
  <2> QED  BY <1>5, <2>1, <2>2, <2>3, <2>4, <2>5, NetBegins
<1>6. ASSUME OnConnecting  PROVE AlarmsInv'
  <2>1. PICK s : s = <<c>>  OBVIOUS
  <2>2. s \in Seq(S) /\ Members(s) = {c}  BY <1>3, <2>1, Tuples
  <2>3. /\ Arrived("net", "connecting") /\ Handle("net", s)
        /\ UNCHANGED <<isforeground, isactive, since, link, heardUp, moves>>
    BY <1>1, <1>6, <2>1 DEF OnConnecting, restVars
  <2>4. Begins("net", s) /\ Takes("net", Head(queue["net"])) /\ Head(queue["net"]).kind = "connecting"
    BY <1>2, <2>2, <2>3, NetTakes
  <2>5. Idle  BY <2>4 DEF Takes
  <2>6. SyncInv'  BY <1>1, <1>3, <2>2, <2>3, <2>4, <2>5, SyncNet
  <2>7. heardUp' \in BOOLEAN /\ "connecting" \in GoodNews  BY <1>4, <2>3 DEF TypeOK, GoodNews
  <2> QED  BY <1>5, <2>2, <2>3, <2>6, <2>7
<1>7. ASSUME OnConnected  PROVE AlarmsInv'
  <2>1. PICK s : s = <<c, d>>  OBVIOUS
  <2>2. s \in Seq(S)  BY <1>3, <2>1
  <2>3. /\ Arrived("net", "connected") /\ Handle("net", s) /\ heardUp' = TRUE
        /\ UNCHANGED <<isforeground, isactive, since, link, moves>>
    BY <1>1, <1>7, <2>1 DEF OnConnected
  <2>4. todo'["def"] = todo["def"]  BY <1>2, <2>2, <2>3, NetTakes
  <2>5. SyncInv'  BY <1>4, <2>3, <2>4 DEF SyncInv
  <2>6. heardUp' \in BOOLEAN /\ "connected" \in GoodNews  BY <2>3 DEF GoodNews
  <2> QED  BY <1>5, <2>2, <2>3, <2>5, <2>6
<1> QED  BY <1>6, <1>7

LEMMA DisconnectedStep ==
  ASSUME AlarmsInv, OnDisconnected \/ OnConnectFailed \/ MonitorOnAlarm
  PROVE  AlarmsInv'
<1>1. PICK c, n, t, i : /\ c = Do("cancel", "monitor") /\ n = Do("start", "monitor")
                        /\ t = Do("start", "sync") /\ i = Do("interval", "monitor")
  OBVIOUS
<1>2. PICK S : S = StepOf("net")  OBVIOUS
<1>3. {c, n, t, i} \subseteq S  BY <1>1, <1>2 DEF StepOf, NetStep
<1>4. /\ Do("cancel", "sync") \notin {c, n, t, i} /\ c # n /\ c # i /\ c # t
      /\ n.on = "monitor" /\ n.op \in MonitorOps /\ i.on = "monitor" /\ i.op \in MonitorOps
      /\ t.on = "sync" /\ t.op \in SyncOps
  BY <1>1, Names DEF MonitorOps, SyncOps
<1>5. TypeInv /\ TypeOK /\ MonitorInv /\ SyncInv  BY DEF AlarmsInv, TypeInv
<1>6. ASSUME NEW s \in Seq(S), NEW kind \in BadNews \cup {"run"}, Arrived("net", kind), Handle("net", s),
             UNCHANGED <<isforeground, isactive, since, link, moves>>, heardUp' \in BOOLEAN,
             NEW m, m \in Members(s), m.on = "monitor", m.op \in MonitorOps,
             Members(s) \subseteq {c, n, t, i}, Covered(s, "monitor", MonitorOps),
             heardUp' = heardUp \/ t \in Members(s)
      PROVE  AlarmsInv'
  <2>1. /\ Begins("net", s) /\ Takes("net", Head(queue["net"])) /\ Head(queue["net"]).kind = kind
        /\ Todo("net")' = Members(s) /\ todo'["net"] = s /\ todo'["def"] = todo["def"]
    BY <1>2, <1>6, NetTakes
  <2>2. QueueType' /\ (Told(queue["net"]) => Told(queue["net"])')
    BY <2>1 DEF Takes, GoodNews, BadNews, NewsKept
  <2>3. Idle \/ Took("monitor")
    <3>1. PICK h : h = Head(queue["net"])  OBVIOUS
    <3>2. h \in NetMsg /\ h.kind = kind  BY <2>1, <3>1 DEF Takes, MsgOf
    <3>3. kind = "run" => h.alarm = "monitor"  BY <3>2, Kinds DEF GoodNews, BadNews
    <3> QED  BY <2>1, <3>1, <3>3 DEF Takes, BadNews
  <2>4. RestType  BY <1>5, <1>6 DEF RestType, TypeOK
  <2>5. Has("net", "monitor", MonitorOps)'  BY <1>6, <2>1 DEF Has
  <2>6. SyncInv'
    <3>1. CASE heardUp' = heardUp
      <4>1. Do("cancel", "sync") \notin Members(s)  BY <1>4, <1>6
      <4> QED  BY <2>1, <2>3, <3>1, <4>1, SyncNet
    <3>2. CASE t \in Members(s)
      <4>1. Has("net", "sync", SyncOps)'  BY <1>4, <2>1, <3>2 DEF Has
      <4>2. Covered(s, "sync", SyncOps)  BY <1>4, <1>6, CoveredNone
      <4>3. Covered(todo["net"], "sync", SyncOps)' /\ Covered(todo["def"], "sync", SyncOps)'
        BY <1>5, <2>1, <4>2 DEF SyncInv
      <4> QED  BY <4>1, <4>3, Owners DEF SyncInv
    <3> QED  BY <1>6, <3>1, <3>2
  <2> QED  BY <1>6, <2>1, <2>2, <2>3, <2>4, <2>5, <2>6, NetBegins
<1>7. ASSUME OnDisconnected  PROVE AlarmsInv'
  <2>1. PICK s : s = <<c, n, t>>  OBVIOUS
  <2>2. s \in Seq(S) /\ Members(s) = {c, n, t}  BY <1>3, <2>1, Tuples
  <2>3. Covered(s, "monitor", MonitorOps)
    <3>1. DOMAIN s = {1, 2, 3} /\ s[1] = c /\ s[2] = n /\ s[3] = t  BY <2>1
    <3> QED  BY <1>1, <1>4, <3>1 DEF Covered
  <2>4. /\ Arrived("net", "disconnected") /\ Handle("net", s) /\ heardUp' \in BOOLEAN
        /\ UNCHANGED <<isforeground, isactive, since, link, moves>>
    BY <1>1, <1>7, <2>1 DEF OnDisconnected
  <2>5. "disconnected" \in BadNews \cup {"run"}  BY DEF BadNews
  <2> QED  BY <1>4, <1>6, <2>2, <2>3, <2>4, <2>5
<1>8. ASSUME OnConnectFailed  PROVE AlarmsInv'
  <2>1. PICK s : s = <<c, n>>  OBVIOUS
  <2>2. s \in Seq(S) /\ Members(s) = {c, n}  BY <1>3, <2>1, Tuples
  <2>3. Covered(s, "monitor", MonitorOps)
    <3>1. DOMAIN s = {1, 2} /\ s[1] = c /\ s[2] = n  BY <2>1
    <3> QED  BY <1>1, <1>4, <3>1 DEF Covered
  <2>4. /\ Arrived("net", "failed") /\ Handle("net", s)
        /\ UNCHANGED <<isforeground, isactive, since, link, heardUp, moves>>
    BY <1>1, <1>8, <2>1 DEF OnConnectFailed, restVars
  <2>5. "failed" \in BadNews \cup {"run"} /\ heardUp' \in BOOLEAN  BY <1>5, <2>4 DEF BadNews, TypeOK
  <2> QED  BY <1>4, <1>6, <2>2, <2>3, <2>4, <2>5
<1>9. ASSUME MonitorOnAlarm  PROVE AlarmsInv'
  <2>1. PICK s : s = AutoIntervalConnect  OBVIOUS
  <2>2. s \in Seq(S) /\ Members(s) = {c, i} /\ Covered(s, "monitor", MonitorOps)
    BY <1>1, <1>2, <2>1, Programs, Owners DEF Sound
  <2>3. /\ Arrived("net", "run") /\ Handle("net", s)
        /\ UNCHANGED <<isforeground, isactive, since, link, heardUp, moves>>
    BY <1>9, <2>1 DEF MonitorOnAlarm, restVars
  <2>4. heardUp' \in BOOLEAN  BY <1>5, <2>3 DEF TypeOK
  <2> QED  BY <1>4, <1>6, <2>2, <2>3, <2>4
<1> QED  BY <1>7, <1>8, <1>9

LEMMA NetworkStep ==
  ASSUME AlarmsInv, OnNetworkChange
  PROVE  AlarmsInv'
<1>1. PICK d, e, w : d = Do("disconnect", "monitor") /\ e = Do("connect", "monitor") /\ w = Do("ifwaiting", "sync")
  OBVIOUS
<1>2. PICK S : S = StepOf("net")  OBVIOUS
<1>3. {d, e, w} \subseteq S  BY <1>1, <1>2 DEF StepOf, NetStep
<1>4. Do("cancel", "sync") \notin {d, e, w} /\ Do("cancel", "monitor") \notin {d, e, w}  BY <1>1, Names
<1>5. TypeInv /\ TypeOK /\ MonitorInv  BY DEF AlarmsInv, TypeInv
<1>6. PICK x : x = <<w>>  OBVIOUS
<1>7. PICK y : y = <<d, e>>  OBVIOUS
<1>8. x \in Seq(S) /\ y \in Seq(S) /\ Members(x) = {w} /\ Members(y) = {d, e}
  BY <1>3, <1>6, <1>7, Tuples
<1>9. PICK s : s = x \o y  OBVIOUS
<1>10. s \in Seq(S) /\ Members(s) \subseteq {d, e, w}  BY <1>8, <1>9, Joined
<1>11. Begins("net", s) /\ UNCHANGED <<clock, due, timers, queue, isforeground, isactive, since, link, heardUp>>
  BY <1>1, <1>2, <1>6, <1>7, <1>9, <1>10 DEF OnNetworkChange, Begins, Resync, alarmVars
<1>12. QueueType' /\ Idle /\ NewsKept
  BY <1>5, <1>11, QueueSame DEF TypeInv, Idle, Kept, NewsKept, Told, BadIn
<1>13. RestType  BY <1>5, <1>11 DEF RestType, TypeOK, OnNetworkChange, Move
<1>14. SyncInv'  BY <1>4, <1>10, <1>11, <1>12, SyncNet
<1>15. Armed("monitor") => Armed("monitor")'  BY <1>5, <1>12, ArmedStep, Owners DEF Spares, Lets
<1>16. Covered(s, "monitor", MonitorOps)  BY <1>4, <1>10, CoveredNone
<1>17. Told(queue["net"]) => Told(queue["net"])'  BY <1>12 DEF NewsKept
<1> QED  BY <1>11, <1>12, <1>13, <1>14, <1>15, <1>16, <1>17, NetBegins

(* The steps of handlers.                                                  *)
LEMMA WorksStep ==
  ASSUME AlarmsInv, NEW q \in Queues, NEW more, Works(q, more), Effect, clock' = clock,
         QueueType', RestType, SyncInv', MonitorInv', ActiveInv'
  PROVE  AlarmsInv'
<1>1. TypeInv /\ TimerInv /\ clock \in Nat  BY DEF AlarmsInv, TypeInv, TypeOK
<1>2. TodoType'  BY <1>1, TodoWorks
<1>3. ~Ticked  BY <1>1 DEF Ticked
<1>4. TypeInv'  BY <1>1, <1>2, <1>3, TypeStep
<1>5. TimerInv'  BY <1>1, TimerStep
<1> QED  BY <1>4, <1>5 DEF AlarmsInv

LEMMA DoneWorks ==
  ASSUME TypeInv, NEW q \in Queues, todo[q] # <<>>, Done(q)
  PROVE  Works(q, <<>>) /\ Sound(<<>>) /\ Members(<<>>) = {}
<1>1. PICK s \in Seq(StepOf(q)) : s = todo[q]  BY DEF TypeInv, TodoType
<1>2. Tail(s) \in Seq(StepOf(q))  BY <1>1, MembersTail
<1>3. <<>> \o Tail(s) = Tail(s) /\ <<>> \in Seq(StepOf(q))  BY <1>2
<1>4. todo' = [todo EXCEPT ![q] = <<>> \o Tail(todo[q])]  BY <1>1, <1>3 DEF Done
<1> QED  BY <1>3, <1>4, Programs, Tuples DEF Works

(* What the handlers have still to do with the alarm of ActiveLogic.       *)
LEMMA ActiveTodo ==
  ASSUME TypeInv, NEW q \in Queues, NEW more, Works(q, more), Do("start", "active") \notin Members(more)
  PROVE  /\ Starts' => Starts
         /\ Next1(q) # Do("cancel", "active") => (Cancels => Cancels')
         /\ Next1(q) = Do("start", "active") => Starts
<1>1. Next1(q) \in StepOf(q)  BY TodoWorks
<1>2. PICK r : Todo(q) = {Next1(q)} \cup r /\ Todo(q)' = Members(more) \cup r  BY TodoWorks
<1>3. \A p \in Queues \ {q} : Todo(p)' = Todo(p)  BY TodoWorks
<1>4. Starts' => Starts  BY <1>2, <1>3, Owners DEF Starts
<1>5. Next1(q) # Do("cancel", "active") => (Cancels => Cancels')  BY <1>2, <1>3, Owners DEF Cancels
<1>6. Next1(q) = Do("start", "active") => q = "def"
  <2>1. Do("start", "active") \notin NetStep
    <3>1. PICK n : n = Do("start", "active")  OBVIOUS
    <3>2. n.on = "active"  BY <3>1, Names
    <3>3. \A s \in NetStep : s.on \in {"sync", "monitor"}  BY Names DEF NetStep
    <3> QED  BY <3>1, <3>2, <3>3
  <2> QED  BY <1>1, <2>1 DEF StepOf
<1>7. Next1(q) = Do("start", "active") => Starts  BY <1>2, <1>6 DEF Starts
<1> QED  BY <1>4, <1>5, <1>7

LEMMA PlainStep ==
  ASSUME AlarmsInv, NEW q \in Queues, NEW more, Works(q, more), Sound(more),
         Do("start", "active") \notin Members(more), Next1(q).op \notin {"cancel", "start"},
         Lets, clock' = clock, QueueType', RestType,
         UNCHANGED <<isforeground, isactive, since, heardUp>>,
         \/ link' # "none" \/ (Told(queue["net"])' /\ BadIn(queue["net"])') \/ (link = "none" /\ NewsKept),
         Next1(q).op = "interval" => link' # "none" \/ Has(q, "monitor", MonitorOps)'
  PROVE  AlarmsInv'
<1>1. TypeInv /\ TimerInv /\ SyncInv /\ MonitorInv /\ ActiveInv  BY DEF AlarmsInv
<1>2. Effect /\ Spares /\ Spared  BY DEF Effect, Spares, Spared
<1>3. \A a \in Alarms : Armed(a) => Armed(a)'  BY <1>1, <1>2, ArmedStep
<1>4. \A a : Next1(q) # Do("cancel", a) /\ Next1(q) # Do("start", a)  BY Names
<1>5. SyncInv'
  <2>1. Armed("sync") => Armed("sync")'  BY <1>3, Owners
  <2> QED  BY <1>1, <1>4, <2>1, SyncWorks DEF Sound
<1>6. MonitorInv'
  <2>1. Armed("monitor") => Armed("monitor")'  BY <1>3, Owners
  <2>2. Next1(q).on = "monitor" /\ Next1(q).op \in MonitorOps =>
           link' # "none" \/ Armed("monitor")' \/ Has(q, "monitor", MonitorOps)'
    BY DEF MonitorOps
  <2>3. link' = "none" => Told(queue["net"])' /\ (BadIn(queue["net"])' \/ (link = "none" /\ NewsKept))
    BY <1>1 DEF MonitorInv, NewsKept
  <2> QED  BY <1>1, <2>1, <2>2, <2>3, MonitorWorks DEF Sound
<1>7. ActiveInv'
  <2>1. (Starts' => Starts) /\ (Cancels => Cancels')  BY <1>1, <1>4, ActiveTodo
  <2> QED  BY <1>1, <1>2, <2>1, ActiveRests
<1> QED  BY <1>2, <1>5, <1>6, <1>7, WorksStep

LEMMA CancelStep ==
  ASSUME AlarmsInv, NEW q \in Queues, DoCancel(q)
  PROVE  AlarmsInv'
<1>1. TypeInv /\ TypeOK /\ TimerInv /\ SyncInv /\ MonitorInv /\ ActiveInv  BY DEF AlarmsInv, TypeInv
<1>2. PICK more : more = <<>>  OBVIOUS
<1>3. Works(q, more) /\ Sound(more) /\ Members(more) = {}
  BY <1>1, <1>2, DoneWorks DEF DoCancel, Busy
<1>4. Next1(q) \in Step  BY <1>1, <1>3, TodoWorks DEF StepOf, Step
<1>5. PICK a \in Alarms : a = Next1(q).on  BY <1>4, Names
<1>6. Next1(q) = Do("cancel", a)  BY <1>4, <1>5, Names DEF DoCancel, Busy
<1>7. Cancel(a) /\ clock' = clock /\ UNCHANGED <<isforeground, isactive, since, link, heardUp, moves>>
  BY <1>5 DEF DoCancel, restVars
<1>8. Undone(a) /\ NewsKept /\ QueueType'  BY <1>1, <1>7, CancelEffect
<1>9. Effect /\ RestType  BY <1>1, <1>7, <1>8 DEF Effect, RestType, TypeOK
<1>10. \A b \in Alarms \ {a} : Armed(b) => Armed(b)'  BY <1>1, <1>8, ArmedStep
<1>11. Next1(q).op = "cancel" /\ \A b : Next1(q) # Do("start", b) /\ (Next1(q) = Do("cancel", b) <=> b = a)
  BY <1>6, Names
<1>12. SyncInv'
  <2>1. (Armed("sync") => Armed("sync")') \/ Next1(q) = Do("cancel", "sync")  BY <1>10, <1>11, Owners
  <2> QED  BY <1>1, <1>3, <1>7, <1>11, <2>1, SyncWorks DEF Sound
<1>13. MonitorInv'
  <2>1. (Armed("monitor") => Armed("monitor")') \/ Next1(q) = Do("cancel", "monitor")  BY <1>10, <1>11, Owners
  <2>2. Next1(q).op \notin MonitorOps  BY <1>11 DEF MonitorOps
  <2>3. link' = "none" => Told(queue["net"])' /\ link = "none"  BY <1>1, <1>7, <1>8 DEF MonitorInv, NewsKept
  <2> QED  BY <1>1, <1>3, <1>8, <2>1, <2>2, <2>3, MonitorWorks DEF Sound
<1>14. ActiveInv'
  <2>1. (Starts' => Starts) /\ (a # "active" => (Cancels => Cancels'))
    BY <1>1, <1>3, <1>11, ActiveTodo
  <2>2. CASE a = "active"  BY <1>1, <1>7, <1>8, <2>1, <2>2, ActiveUndone
  <2>3. CASE a # "active"
    <3>1. Spared  BY <1>8, <2>3 DEF Spared
    <3> QED  BY <1>1, <1>7, <2>1, <2>3, <3>1, ActiveRests
  <2> QED  BY <2>2, <2>3
<1> QED  BY <1>3, <1>7, <1>8, <1>9, <1>12, <1>13, <1>14, WorksStep

LEMMA StartStep ==
  ASSUME AlarmsInv, NEW q \in Queues, DoStart(q)
  PROVE  AlarmsInv'
<1>1. TypeInv /\ TypeOK /\ TimerInv /\ SyncInv /\ MonitorInv /\ ActiveInv  BY DEF AlarmsInv, TypeInv
<1>2. PICK more : more = <<>>  OBVIOUS
<1>3. Works(q, more) /\ Sound(more) /\ Members(more) = {}
  BY <1>1, <1>2, DoneWorks DEF DoStart, Busy
<1>4. Next1(q) \in Step  BY <1>1, <1>3, TodoWorks DEF StepOf, Step
<1>5. PICK a \in Alarms : a = Next1(q).on  BY <1>4, Names
<1>6. Next1(q) = Do("start", a)  BY <1>4, <1>5, Names DEF DoStart, Busy
<1>7. /\ Start(a) /\ clock' = clock /\ queue' = queue
      /\ UNCHANGED <<isforeground, isactive, since, link, heardUp, moves>>
  BY <1>5 DEF DoStart, restVars
<1>8. (Began(a) \/ Idle) /\ Armed(a)' /\ NewsKept /\ QueueType'  BY <1>1, <1>7, StartEffect
<1>9. Effect /\ Spares /\ RestType  BY <1>1, <1>7, <1>8 DEF Effect, Spares, Lets, RestType, TypeOK
<1>10. \A b \in Alarms : Armed(b) => Armed(b)'  BY <1>1, <1>9, ArmedStep
<1>11. /\ \A b : Next1(q) # Do("cancel", b) /\ (Next1(q) = Do("start", b) <=> b = a)
       /\ Next1(q).on = a
  BY <1>6, Names
<1>12. SyncInv'
  <2>1. Armed("sync") => Armed("sync")'  BY <1>10, Owners
  <2>2. Next1(q) = Do("start", "sync") => Armed("sync")'  BY <1>8, <1>11
  <2> QED  BY <1>1, <1>3, <1>7, <2>1, <2>2, SyncWorks DEF Sound
<1>13. MonitorInv'
  <2>1. Armed("monitor") => Armed("monitor")'  BY <1>10, Owners
  <2>2. Next1(q).on = "monitor" => Armed("monitor")'  BY <1>8, <1>11
  <2>3. link' = "none" => Told(queue["net"])' /\ link = "none"  BY <1>1, <1>7, <1>8 DEF MonitorInv, NewsKept
  <2> QED  BY <1>1, <1>3, <1>8, <2>1, <2>2, <2>3, MonitorWorks DEF Sound
<1>14. ActiveInv'
  <2>1. (Starts' => Starts) /\ (Cancels => Cancels') /\ (a = "active" => Starts)
    BY <1>1, <1>3, <1>11, ActiveTodo
  <2>2. CASE a = "active" /\ Began(a)  BY <1>1, <1>7, <2>1, <2>2, ActiveBegan
  <2>3. CASE a # "active" \/ Idle
    <3>1. Spared  BY <1>8, <2>3 DEF Spared, Lets
    <3> QED  BY <1>1, <1>7, <2>1, <3>1, ActiveRests
  <2> QED  BY <1>8, <2>2, <2>3
<1> QED  BY <1>3, <1>7, <1>8, <1>9, <1>12, <1>13, <1>14, WorksStep

(* A handler looks, and goes on or gets more to do.                        *)
LEMMA LookSteps ==
  ASSUME AlarmsInv, NEW q \in Queues
  PROVE  DoIfWaiting(q) \/ DoInterval(q) \/ DoConnect(q) \/ DoDisconnect(q) => AlarmsInv'
<1>1. TypeInv /\ TypeOK /\ MonitorInv  BY DEF AlarmsInv, TypeInv
<1>2. PICK none : none = <<>>  OBVIOUS
<1>3. todo[q] # <<>> /\ Done(q) =>
        Works(q, none) /\ Sound(none) /\ Do("start", "active") \notin Members(none)
  BY <1>1, <1>2, DoneWorks
<1> DEFINE Same == UNCHANGED <<alarmVars, restVars>>
           RestSame == UNCHANGED <<isforeground, isactive, since, heardUp>>
<1>4. Same => /\ Lets /\ NewsKept /\ QueueType' /\ clock' = clock /\ RestType /\ RestSame
              /\ link' # "none" \/ (link = "none" /\ NewsKept)
  <2>1. ASSUME Same  PROVE Lets /\ NewsKept /\ QueueType' /\ clock' = clock
    <3>1. UNCHANGED <<clock, due, timers, queue>>  BY <2>1 DEF alarmVars
    <3>2. QueueType' /\ Idle /\ NewsKept
      BY <1>1, <3>1, QueueSame DEF TypeInv, Idle, Kept, NewsKept, Told, BadIn
    <3> QED  BY <3>1, <3>2 DEF Lets
  <2>2. Same => RestType /\ RestSame /\ link' = link  BY <1>1 DEF RestType, TypeOK, restVars
  <2> QED  BY <2>1, <2>2
<1>5. Connect => Lets /\ QueueType' /\ clock' = clock /\ RestType /\ RestSame /\ link' # "none"
  <2>1. ASSUME Connect  PROVE Lets /\ QueueType'
    <3>1. News("connecting") /\ UNCHANGED <<clock, due, timers>> /\ "connecting" \in GoodNews \cup BadNews
      BY <2>1 DEF Connect, GoodNews
    <3> QED  BY <1>1, <3>1, NewsEffect
  <2>2. Connect => clock' = clock /\ RestType /\ RestSame /\ link' # "none"
    BY <1>1 DEF Connect, RestType, TypeOK, Move
  <2> QED  BY <2>1, <2>2
<1>6. PICK c, d : c = <<Do("cancel", "sync"), Do("start", "sync")>> /\ d = <<Do("start", "monitor")>>  OBVIOUS
<1>7. /\ Sound(c) /\ Sound(d) /\ c \in Seq(StepOf(q)) /\ d \in Seq(StepOf(q))
      /\ Do("start", "active") \notin Members(c) /\ Do("start", "active") \notin Members(d)
      /\ Members(d) = {Do("start", "monitor")}
  <2>1. Members(c) = {Do("cancel", "sync"), Do("start", "sync")} /\ Members(d) = {Do("start", "monitor")}
    BY <1>6, Tuples
  <2>2. Sound(c) /\ Sound(d) /\ c \in Seq(StepOf(q)) /\ d \in Seq(StepOf(q))  BY <1>6, Programs
  <2>3. \A n : n = Do("start", "active") =>
          n # Do("cancel", "sync") /\ n # Do("start", "sync") /\ n # Do("start", "monitor")
    BY Names
  <2> QED  BY <2>1, <2>2, <2>3
<1> HIDE DEF Same, RestSame
<1>8. ASSUME DoIfWaiting(q)  PROVE AlarmsInv'
  <2>1. Same /\ Next1(q).op = "ifwaiting" /\ todo[q] # <<>>  BY <1>8 DEF DoIfWaiting, Busy, Same
  <2>2. CASE "sync" \notin waiting
    <3>1. Done(q)  BY <1>8, <2>2 DEF DoIfWaiting, Done
    <3> QED  BY <1>3, <1>4, <2>1, <3>1, PlainStep DEF RestSame
  <2>3. CASE "sync" \in waiting
    <3>1. Works(q, c)  BY <1>6, <1>7, <1>8, <2>1, <2>3 DEF DoIfWaiting, Works
    <3> QED  BY <1>4, <1>7, <2>1, <3>1, PlainStep DEF RestSame
  <2> QED  BY <2>2, <2>3
<1>9. ASSUME DoInterval(q)  PROVE AlarmsInv'
  <2>1. Next1(q).op = "interval" /\ todo[q] # <<>>  BY <1>9 DEF DoInterval, Busy
  <2>2. CASE link # "none" /\ Done(q) /\ Same
    <3>1. link' # "none"  BY <2>2 DEF Same, restVars
    <3> QED  BY <1>3, <1>4, <2>1, <2>2, <3>1, PlainStep DEF RestSame
  <2>3. CASE Done(q) /\ Connect  BY <1>3, <1>5, <2>1, <2>3, PlainStep DEF RestSame
  <2>4. CASE link = "none" /\ Same /\ todo' = [todo EXCEPT ![q] = d \o Tail(@)]
    <3>1. Works(q, d)  BY <1>7, <2>1, <2>4 DEF Works
    <3>2. Has(q, "monitor", MonitorOps)'
      <4>1. PICK n : n = Do("start", "monitor")  OBVIOUS
      <4>2. n.on = "monitor" /\ n.op \in MonitorOps  BY <4>1, Names DEF MonitorOps
      <4>3. n \in Todo(q)'  BY <1>1, <1>7, <3>1, <4>1, TodoWorks
      <4> QED  BY <4>2, <4>3 DEF Has
    <3> QED  BY <1>4, <1>7, <2>1, <2>4, <3>1, <3>2, PlainStep DEF RestSame
  <2> QED  BY <1>6, <1>9, <2>2, <2>3, <2>4 DEF DoInterval, Same
<1>10. ASSUME DoConnect(q)  PROVE AlarmsInv'
  <2>1. Next1(q).op = "connect" /\ todo[q] # <<>> /\ Done(q) /\ (Connect \/ Same)
    BY <1>10 DEF DoConnect, Busy, Same
  <2>2. CASE Connect  BY <1>3, <1>5, <2>1, <2>2, PlainStep DEF RestSame
  <2>3. CASE Same  BY <1>3, <1>4, <2>1, <2>3, PlainStep DEF RestSame
  <2> QED  BY <2>1, <2>2, <2>3
<1>11. ASSUME DoDisconnect(q)  PROVE AlarmsInv'
  <2>1. /\ Next1(q).op = "disconnect" /\ todo[q] # <<>> /\ Done(q) /\ link' = "none"
        /\ UNCHANGED <<clock, due, timers, isforeground, isactive, since, heardUp, moves>>
    BY <1>11 DEF DoDisconnect, Busy
  <2>2. RestType /\ RestSame  BY <1>1, <2>1 DEF RestType, TypeOK, RestSame
  <2>3. CASE link = "none"
    <3>1. Same  BY <1>11, <2>1, <2>3 DEF DoDisconnect, Same, alarmVars, restVars
    <3> QED  BY <1>3, <1>4, <2>1, <3>1, PlainStep DEF RestSame
  <2>4. CASE link # "none"
    <3>1. PICK kind \in BadNews : News(kind)  BY <1>11, <2>4 DEF DoDisconnect, BadNews
    <3>2. kind \in GoodNews \cup BadNews  OBVIOUS
    <3>3. Lets /\ QueueType' /\ Told(queue["net"])' /\ BadIn(queue["net"])'
      BY <1>1, <2>1, <3>1, <3>2, NewsEffect
    <3> QED  BY <1>3, <2>1, <2>2, <3>3, PlainStep DEF RestSame
  <2> QED  BY <2>3, <2>4
<1> QED  BY <1>8, <1>9, <1>10, <1>11

LEMMA AlarmsInit == Init => AlarmsInv
<1> SUFFICES ASSUME Init  PROVE AlarmsInv  OBVIOUS
<1>1. /\ clock = 0 /\ queue = [q \in Queues |-> <<>>] /\ todo = [q \in Queues |-> <<>>]
      /\ isforeground = FALSE /\ isactive = TRUE /\ since = 0 /\ link = "connecting"
      /\ heardUp = FALSE /\ moves = 0
      /\ due = [a \in Alarms |-> IF a \in {"active", "sync"} THEN After[a] ELSE 0]
      /\ timers = {Timer(a, After[a]) : a \in {"active", "sync"}}
  BY DEF Init, AlarmInit
<1>2. \A a \in Alarms : After[a] \in Nat \ {0}  BY AlarmAssumption
<1>3. /\ due \in [Alarms -> Nat] /\ due["active"] = After["active"] /\ due["sync"] = After["sync"]
      /\ due["monitor"] = 0 /\ timers \subseteq [alarm : Alarms, at : Nat]
      /\ \A t \in timers : due[t.alarm] # 0
      /\ \A a \in {"active", "sync"} : \E t \in timers : t.alarm = a /\ t.at = due[a]
  <2>1. PICK f : f = [a \in {"active", "sync"} |-> Timer(a, After[a])]  OBVIOUS
  <2>2. \A a \in {"active", "sync"} : f[a].alarm = a /\ f[a].at = After[a] /\ f[a] \in [alarm : Alarms, at : Nat]
    BY <1>2, <2>1, Owners DEF Timer
  <2>3. timers = {f[a] : a \in {"active", "sync"}}  BY <1>1, <2>1
  <2>4. /\ due \in [Alarms -> Nat] /\ due["active"] = After["active"] /\ due["sync"] = After["sync"]
        /\ due["monitor"] = 0
    BY <1>1, <1>2, Owners
  <2>5. \A a \in {"active", "sync"} : due[a] = After[a] /\ due[a] # 0  BY <1>2, <2>4, Owners
  <2>6. \A t \in timers : \E a \in {"active", "sync"} : t = f[a]  BY <2>3
  <2>7. timers \subseteq [alarm : Alarms, at : Nat] /\ \A t \in timers : due[t.alarm] # 0
    BY <2>2, <2>5, <2>6
  <2>8. \A a \in {"active", "sync"} : f[a] \in timers  BY <2>3
  <2> QED  BY <2>2, <2>4, <2>5, <2>7, <2>8
<1>4. \A q \in Queues : queue[q] = <<>> /\ todo[q] = <<>> /\ In(q) = {} /\ Todo(q) = {}
  BY <1>1, Tuples DEF In, Todo
<1>5. QueueType /\ TodoType  BY <1>1, <1>4 DEF QueueType, TodoType
<1>6. TypeInv
  <2>1. MaxTime \in Nat  BY AlarmAssumption
  <2>2. \A q \in Queues : DOMAIN todo[q] = {}  BY <1>4
  <2>3. /\ clock \in 0..MaxTime /\ link \in {"connecting", "connected", "none"}
        /\ {a \in Alarms : due[a] # 0} \subseteq Alarms
    BY <1>1, <2>1
  <2>4. isforeground \in BOOLEAN /\ isactive \in BOOLEAN /\ heardUp \in BOOLEAN  BY <1>1
  <2>5. TypeOK  BY <2>2, <2>3, <2>4 DEF TypeOK, waiting
  <2> QED  BY <1>1, <1>3, <1>5, <2>5 DEF TypeInv
<1>7. TimerInv
  <2>1. \A a \in waiting : a \in {"active", "sync"} /\ due[a] \in Nat  BY <1>3, Owners DEF waiting
  <2> QED  BY <1>3, <2>1 DEF TimerInv
<1>8. Sound(<<>>)  BY Programs
<1>9. Armed("sync")  BY <1>2, <1>3, Owners DEF Armed, Waits
<1>10. SyncInv /\ MonitorInv  BY <1>1, <1>4, <1>8, <1>9, Owners DEF SyncInv, MonitorInv, Sound
<1>11. ActiveInv
  <2>1. ~Ran("active") /\ ~Starts  BY <1>4, Owners DEF Ran, Starts
  <2>2. due["active"] >= since + After["active"]  BY <1>1, <1>2, <1>3, Owners
  <2> QED  BY <1>1, <2>1, <2>2 DEF ActiveInv, InactiveHonest
<1> QED  BY <1>6, <1>7, <1>10, <1>11 DEF AlarmsInv

LEMMA AlarmsNext == AlarmsInv /\ [Next]_syncVars => AlarmsInv'
<1> SUFFICES ASSUME AlarmsInv, [Next]_syncVars  PROVE AlarmsInv'  OBVIOUS
<1>1. CASE Flip \/ Outside(Tick)  BY <1>1, OutsideSteps
<1>2. CASE OnNetworkChange  BY <1>2, NetworkStep
<1>3. CASE LinkChanges  BY <1>3, LinkStep
<1>4. ASSUME NEW a \in Alarms, EarlyAlarm(a)  PROVE AlarmsInv'  BY <1>4, OutsideSteps
<1>5. CASE TimerTurn  BY <1>5, OutsideSteps DEF TimerTurn
<1>6. CASE DefHandles  BY <1>6, DefSteps
<1>7. CASE NetHandles
  <2>1. CASE NetTakeTimer  BY <2>1, OutsideSteps
  <2>2. CASE OnConnecting \/ OnConnected  BY <2>2, ConnectingStep
  <2>3. CASE OnDisconnected \/ OnConnectFailed \/ MonitorOnAlarm  BY <2>3, DisconnectedStep
  <2> QED  BY <1>7, <2>1, <2>2, <2>3 DEF NetHandles
<1>8. ASSUME NEW q \in Queues, Steps(q)  PROVE AlarmsInv'
  <2>1. CASE DoCancel(q)  BY <2>1, CancelStep
  <2>2. CASE DoStart(q)  BY <2>2, StartStep
  <2>3. CASE DoIfWaiting(q) \/ DoInterval(q) \/ DoConnect(q) \/ DoDisconnect(q)  BY <2>3, LookSteps
  <2> QED  BY <1>8, <2>1, <2>2, <2>3 DEF Steps
<1>9. CASE UNCHANGED syncVars
  <2>1. /\ UNCHANGED <<clock, due, timers, queue, todo, isforeground, isactive, since, link, heardUp, moves>>
    BY <1>9 DEF syncVars, alarmVars
  <2>2. TypeInv /\ clock \in Nat  BY DEF AlarmsInv, TypeInv, TypeOK
  <2>3. QueueType' /\ Idle /\ NewsKept
    BY <2>1, <2>2, QueueSame DEF TypeInv, Idle, Kept, NewsKept, Told, BadIn
  <2>4. ~Ticked  BY <2>1, <2>2 DEF Ticked
  <2> QED  BY <2>1, <2>3, <2>4, AloneStep DEF Lets
<1> QED  BY <1>1, <1>2, <1>3, <1>4, <1>5, <1>6, <1>7, <1>8, <1>9 DEF Next
-----------------------------------------------------------------------------
(* The theorems                                                            *)

LEMMA AlarmsAlways == Spec => []AlarmsInv
BY AlarmsInit, AlarmsNext, PTL DEF Spec

(* The invariant says at least what the property does.                     *)
LEMMA AlarmsMean == AlarmsInv => AlarmsHold
<1> SUFFICES ASSUME AlarmsInv  PROVE AlarmsHold  OBVIOUS
<1>1. TypeInv /\ TimerInv /\ SyncInv /\ MonitorInv /\ ActiveInv  BY DEF AlarmsInv
<1>2. \A a \in Alarms : a \in waiting <=> Waits(a)  BY DEF waiting, Waits
<1>3. \A a \in Alarms : Ran(a) => Posted(a)
  <2> SUFFICES ASSUME NEW a \in Alarms, Ran(a)  PROVE Posted(a)  OBVIOUS
  <2>1. PICK m : m = Message("run", a)  OBVIOUS
  <2>2. m.kind = "run" /\ m.alarm = a  BY <2>1, Names
  <2>3. PICK i \in DOMAIN queue[Own[a]] : queue[Own[a]][i] = m  BY <2>1 DEF Ran, In, Members
  <2> QED  BY <2>2, <2>3 DEF Posted
<1>4. \A q \in Queues : \A a, ops : Has(q, a, ops) => Pending(a, ops)
  BY DEF Has, Pending, Todo, Members
<1>5. WaitingHasTimer
  <2> SUFFICES ASSUME NEW a \in waiting
               PROVE  \/ \E t \in timers : t.alarm = a /\ t.at >= due[a]
                      \/ \E i \in DOMAIN queue[Own[a]] : queue[Own[a]][i] = Message("alarm", a)
    BY DEF WaitingHasTimer
  <2> QED  BY <1>1 DEF TimerInv, In, Members
<1>6. SyncArmed  BY <1>1, <1>2, <1>3, <1>4, Owners DEF SyncInv, SyncArmed, SyncOps, Armed
<1>7. MonitorArmed
  <2>1. BadIn(queue["net"]) => \E i \in DOMAIN queue["net"] : queue["net"][i].kind \in {"failed", "disconnected"}
    BY DEF BadIn, Members, BadNews
  <2> QED  BY <1>1, <1>2, <1>3, <1>4, <2>1, Owners DEF MonitorInv, MonitorArmed, MonitorOps, Armed
<1>8. InactiveHonest  BY <1>1 DEF ActiveInv
<1> QED  BY <1>5, <1>6, <1>7, <1>8 DEF AlarmsHold

(* Handlers have steps about alarms there are, and time and statuses are   *)
(* what the program can have.                                              *)
THEOREM AlarmTypes == Spec => []TypeOK
<1>1. AlarmsInv => TypeOK  BY DEF AlarmsInv, TypeInv
<1> QED  BY <1>1, AlarmsAlways, PTL

(* An alarm that waits has a message that will end it; TimingSync and the  *)
(* connect monitor have theirs, or somebody is about to start it, while    *)
(* there is no connection; and only a whole stay in the background makes   *)
(* the application inactive.                                               *)
THEOREM AlarmsKept == Spec => []AlarmsHold
BY AlarmsMean, AlarmsAlways, PTL
=============================================================================
