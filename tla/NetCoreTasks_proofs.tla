------------------------- MODULE NetCoreTasks_proofs -------------------------
(***************************************************************************)
(* Proofs about NetCoreTasks: a task is in one place, workers are those of *)
(* running tasks, who waits is looked at again, and NetCore implements a   *)
(* task ledger, for any tasks, channels, calls and bounds.                 *)
(***************************************************************************)
EXTENDS NetCoreTasks, SelectionTheorems

Msg ==
  {On(type, t) : type \in {"StartTask", "StopTask", "OnSend"}, t \in Tasks}
    \cup {[type |-> "OnResponse", task |-> t, status |-> what] : t \in Tasks, what \in {"ok", "error"}}
    \cup {[type |-> type] : type \in Calls \cup {"kConnected"}}

(* The queue holds messages, and the lists are finite at any time.         *)
TypeInv ==
  /\ TypeOK
  /\ messages \in Seq(Msg)
  /\ IsFiniteSet(lst_cmd_) /\ IsFiniteSet(lsttask_)

(* The queue q has no message to start t, or exactly one.                  *)
Never(q, t) == \A i \in DOMAIN q : q[i] # On("StartTask", t)
Once(q, t)  == \E i \in DOMAIN q : /\ q[i] = On("StartTask", t)
                                   /\ \A j \in DOMAIN q : q[j] = On("StartTask", t) => j = i

Live(t) == outcome[t] \in {"posted", "pending"}

(* The places a task can be in, with what that says of all the others.     *)
Nowhere(t)  == /\ ~Live(t) /\ Never(messages, t)
               /\ t \notin longTasks /\ t \notin lst_cmd_ /\ t \notin lsttask_
InQueue(t)  == /\ Live(t) /\ Once(messages, t)
               /\ t \notin longTasks /\ t \notin lst_cmd_ /\ t \notin lsttask_
InLong(t)   == /\ Live(t) /\ Never(messages, t)
               /\ t \in longTasks /\ t \notin lst_cmd_ /\ t \notin lsttask_
InShort(t)  == /\ Live(t) /\ Never(messages, t)
               /\ t \notin longTasks /\ t \in lst_cmd_ /\ t \notin lsttask_
InZombie(t) == /\ Live(t) /\ Never(messages, t)
               /\ t \notin longTasks /\ t \notin lst_cmd_ /\ t \in lsttask_

InOnePlace(t) == Nowhere(t) \/ InQueue(t) \/ InLong(t) \/ InShort(t) \/ InZombie(t)
PlaceInv == \A t \in Tasks : InOnePlace(t)

(* A message of a worker in q means that the worker is there.              *)
Answered(q, place) ==
  \A i \in DOMAIN q : q[i].type \in {"OnSend", "OnResponse"} => place[q[i].task] # "none"

(* Workers are those of running tasks and those still to destroy.          *)
Owned ==
  /\ \A t \in Tasks : worker[t] # "none" <=> t \in Running \/ t \in doom
  /\ \A t \in Running : t \notin doom

WorkerInv == Owned /\ Answered(messages, worker)

TimerInv ==
  /\ after = "none" /\ lst_cmd_ # {} => shortTimer
  /\ lsttask_ # {} => zombieTimer

TriesInv ==
  \A t \in Tasks : /\ worker[t] # "none" => tries[t] > 0
                   /\ outcome[t] = "new" => tries[t] = 0

NetInv == TypeInv /\ PlaceInv /\ WorkerInv /\ TimerInv /\ TriesInv
-----------------------------------------------------------------------------
(* The message queue                                                       *)

(* A message to start a task names it and nothing else.                    *)
LEMMA MessageShapes ==
  /\ \A type \in {"StartTask", "StopTask", "OnSend"}, t \in Tasks :
        On(type, t) \in Msg /\ On(type, t).type = type /\ On(type, t).task = t
  /\ \A t \in Tasks, what \in {"ok", "error"} : \A m :
        m = [type |-> "OnResponse", task |-> t, status |-> what]
        => m \in Msg /\ m.type = "OnResponse" /\ m.task = t
  /\ \A c \in Calls \cup {"kConnected"} :
        /\ [type |-> c] \in Msg /\ [type |-> c].type = c
        /\ c \notin {"StartTask", "OnSend", "OnResponse"}
  /\ \A m \in Msg : m.type \in {"OnSend", "OnResponse"} => m.task \in Tasks
  /\ \A m \in Msg : m.type = "StartTask" => m.task \in Tasks /\ m = On("StartTask", m.task)
<1>1. \A type \in Calls \cup {"kConnected"} : type \in {"ClearTasks", "RedoTasks", "OnNetworkChange", "kConnected"}
  BY NetCoreAssumption
<1>2. \A m \in Msg : m.type = "StartTask" => m.task \in Tasks /\ m = On("StartTask", m.task)
  BY <1>1 DEF Msg, On
<1>3. \A type \in {"StartTask", "StopTask", "OnSend"}, t \in Tasks :
        On(type, t) \in Msg /\ On(type, t).type = type /\ On(type, t).task = t
  BY DEF Msg, On
<1>4. \A t \in Tasks, what \in {"ok", "error"} : \A m :
        m = [type |-> "OnResponse", task |-> t, status |-> what]
        => m \in Msg /\ m.type = "OnResponse" /\ m.task = t
  BY DEF Msg
<1>5. ASSUME NEW c \in Calls \cup {"kConnected"}
      PROVE  /\ [type |-> c] \in Msg /\ [type |-> c].type = c
             /\ c \notin {"StartTask", "OnSend", "OnResponse"}
  <2>1. [type |-> c] \in Msg  BY DEF Msg
  <2>2. [type |-> c].type = c  OBVIOUS
  <2>3. c \notin {"StartTask", "OnSend", "OnResponse"}  BY <1>1
  <2> QED  BY <2>1, <2>2, <2>3
<1>6. \A m \in Msg : m.type \in {"OnSend", "OnResponse"} => m.task \in Tasks
  BY <1>1 DEF Msg, On
<1> QED  BY <1>2, <1>3, <1>4, <1>5, <1>6

(* A message of another kind at the end of the queue changes nothing for   *)
(* the tasks to start; one that starts t is the only one if t had none.    *)
LEMMA AppendMessage ==
  ASSUME NEW q \in Seq(Msg), NEW m \in Msg
  PROVE  /\ Append(q, m) \in Seq(Msg)
         /\ \A t : /\ Never(q, t) /\ m # On("StartTask", t) => Never(Append(q, m), t)
                   /\ Once(q, t) /\ m # On("StartTask", t) => Once(Append(q, m), t)
                   /\ Never(q, t) /\ m = On("StartTask", t) => Once(Append(q, m), t)
         /\ \A place : Answered(q, place)
                       /\ (m.type \in {"OnSend", "OnResponse"} => place[m.task] # "none")
                       => Answered(Append(q, m), place)
<1> DEFINE r == Append(q, m)
<1>1. /\ r \in Seq(Msg) /\ DOMAIN q = 1..Len(q) /\ DOMAIN r = 1..Len(q) + 1 /\ Len(q) \in Nat
      /\ \A i \in 1..Len(q) : r[i] = q[i]
      /\ r[Len(q) + 1] = m
  OBVIOUS
<1> HIDE DEF r
<1>2. \A t : Never(q, t) /\ m # On("StartTask", t) => Never(r, t)  BY <1>1 DEF Never
<1>3. \A t : Once(q, t) /\ m # On("StartTask", t) => Once(r, t)  BY <1>1 DEF Once
<1>4. \A t : Never(q, t) /\ m = On("StartTask", t) => Once(r, t)
  <2> SUFFICES ASSUME NEW t, Never(q, t), m = On("StartTask", t)  PROVE Once(r, t)  OBVIOUS
  <2>1. Len(q) + 1 \in DOMAIN r /\ r[Len(q) + 1] = On("StartTask", t)  BY <1>1
  <2>2. \A j \in DOMAIN r : r[j] = On("StartTask", t) => j = Len(q) + 1  BY <1>1 DEF Never
  <2> QED  BY <2>1, <2>2 DEF Once
<1>5. \A place : Answered(q, place)
                 /\ (m.type \in {"OnSend", "OnResponse"} => place[m.task] # "none")
                 => Answered(r, place)
  BY <1>1 DEF Answered
<1> QED  BY <1>1, <1>2, <1>3, <1>4, <1>5 DEF r

(* Taking the first message away.                                          *)
LEMMA TakeMessage ==
  ASSUME NEW q \in Seq(Msg), q # <<>>
  PROVE  /\ Tail(q) \in Seq(Msg) /\ Head(q) \in Msg
         /\ \A t : /\ Never(q, t) => Never(Tail(q), t) /\ Head(q) # On("StartTask", t)
                   /\ Once(q, t) /\ Head(q) # On("StartTask", t) => Once(Tail(q), t)
                   /\ Once(q, t) /\ Head(q) = On("StartTask", t) => Never(Tail(q), t)
         /\ \A place : Answered(q, place) => Answered(Tail(q), place)
<1> DEFINE r == Tail(q)
<1>1. /\ r \in Seq(Msg) /\ DOMAIN q = 1..Len(q) /\ DOMAIN r = 1..Len(q) - 1
      /\ Len(q) \in Nat \ {0}
      /\ \A i \in 1..Len(q) - 1 : r[i] = q[i + 1]
      /\ Head(q) = q[1] /\ q[1] \in Msg
  OBVIOUS
<1> HIDE DEF r
<1>2. \A t : Never(q, t) => Never(r, t) /\ Head(q) # On("StartTask", t)  BY <1>1 DEF Never
<1>3. \A t : Once(q, t) /\ Head(q) # On("StartTask", t) => Once(r, t)
  <2> SUFFICES ASSUME NEW t, Once(q, t), Head(q) # On("StartTask", t)  PROVE Once(r, t)  OBVIOUS
  <2>1. PICK i \in 1..Len(q) : /\ q[i] = On("StartTask", t)
                               /\ \A j \in 1..Len(q) : q[j] = On("StartTask", t) => j = i
    BY <1>1 DEF Once
  <2>2. i - 1 \in DOMAIN r /\ r[i - 1] = On("StartTask", t)  BY <1>1, <2>1
  <2>3. \A j \in DOMAIN r : r[j] = On("StartTask", t) => j = i - 1  BY <1>1, <2>1
  <2> QED  BY <2>2, <2>3 DEF Once
<1>4. \A t : Once(q, t) /\ Head(q) = On("StartTask", t) => Never(r, t)
  <2> SUFFICES ASSUME NEW t, Once(q, t), Head(q) = On("StartTask", t)  PROVE Never(r, t)  OBVIOUS
  <2>1. \A j \in 1..Len(q) : q[j] = On("StartTask", t) => j = 1  BY <1>1 DEF Once
  <2> QED  BY <1>1, <2>1 DEF Never
<1>5. \A place : Answered(q, place) => Answered(r, place)  BY <1>1 DEF Answered
<1> QED  BY <1>1, <1>2, <1>3, <1>4, <1>5 DEF r

(* The tasks of S are posted once each.                                    *)
LEMMA PostMessages ==
  ASSUME NEW q \in Seq(Msg), NEW S \in SUBSET Tasks, IsFiniteSet(S)
  PROVE  LET again == SetToSeq(S)
             r     == q \o [i \in DOMAIN again |-> On("StartTask", again[i])]
         IN /\ r \in Seq(Msg)
            /\ \A t : /\ Never(q, t) /\ t \notin S => Never(r, t)
                      /\ Once(q, t) /\ t \notin S => Once(r, t)
                      /\ Never(q, t) /\ t \in S => Once(r, t)
            /\ \A place : Answered(q, place) => Answered(r, place)
<1> DEFINE again == SetToSeq(S)
           new   == [i \in DOMAIN again |-> On("StartTask", again[i])]
           r     == q \o new
<1>1. PICK n \in Nat : /\ again \in [1..n -> S]
                       /\ \A i, j \in 1..n : again[i] = again[j] => i = j
                       /\ \A x \in S : \E i \in 1..n : again[i] = x
  BY SetAsSequence
<1> HIDE DEF again
<1>2. new \in Seq(Msg) /\ Len(new) = n /\ \A i \in 1..n : new[i] = On("StartTask", again[i])
  <2>1. \A i \in 1..n : On("StartTask", again[i]) \in Msg  BY <1>1, MessageShapes
  <2>2. DOMAIN again = 1..n  BY <1>1
  <2> QED  BY <2>1, <2>2
<1> HIDE DEF new
<1>3. /\ r \in Seq(Msg) /\ DOMAIN r = 1..Len(q) + n /\ Len(q) \in Nat /\ DOMAIN q = 1..Len(q)
      /\ \A i \in 1..Len(q) : r[i] = q[i]
      /\ \A i \in 1..n : r[Len(q) + i] = On("StartTask", again[i])
  BY <1>2
<1> HIDE DEF r
<1>4. \A k \in DOMAIN r : k \in 1..Len(q) \/ \E i \in 1..n : k = Len(q) + i
  <2> TAKE k \in DOMAIN r
  <2>1. k \in 1..Len(q) \/ (k - Len(q) \in 1..n /\ k = Len(q) + (k - Len(q)))  BY <1>3
  <2> QED  BY <2>1
<1>5. \A t, u : On("StartTask", t) = On("StartTask", u) => t = u  BY DEF On
<1>6. \A t : t \notin S => \A i \in 1..n : r[Len(q) + i] # On("StartTask", t)
  <2> SUFFICES ASSUME NEW t, t \notin S, NEW i \in 1..n  PROVE r[Len(q) + i] # On("StartTask", t)
    OBVIOUS
  <2>1. again[i] # t  BY <1>1
  <2> QED  BY <1>3, <1>5, <2>1
<1>7. \A t : Never(q, t) /\ t \notin S => Never(r, t)  BY <1>3, <1>4, <1>6 DEF Never
<1>8. \A t : Once(q, t) /\ t \notin S => Once(r, t)
  <2> SUFFICES ASSUME NEW t, Once(q, t), t \notin S  PROVE Once(r, t)  OBVIOUS
  <2>1. PICK i \in 1..Len(q) : /\ q[i] = On("StartTask", t)
                               /\ \A j \in 1..Len(q) : q[j] = On("StartTask", t) => j = i
    BY <1>3 DEF Once
  <2>2. i \in DOMAIN r /\ r[i] = On("StartTask", t)  BY <1>3, <2>1
  <2>3. \A j \in DOMAIN r : r[j] = On("StartTask", t) => j = i  BY <1>3, <1>4, <1>6, <2>1
  <2> QED  BY <2>2, <2>3 DEF Once
<1>9. \A t : Never(q, t) /\ t \in S => Once(r, t)
  <2> SUFFICES ASSUME NEW t, Never(q, t), t \in S  PROVE Once(r, t)  OBVIOUS
  <2>1. PICK i \in 1..n : again[i] = t  BY <1>1
  <2>2. Len(q) + i \in DOMAIN r /\ r[Len(q) + i] = On("StartTask", t)  BY <1>3, <2>1
  <2>3. ASSUME NEW k \in DOMAIN r, r[k] = On("StartTask", t)  PROVE k = Len(q) + i
    <3>1. k \notin 1..Len(q)  BY <1>3, <2>3 DEF Never
    <3>2. PICK j \in 1..n : k = Len(q) + j  BY <1>4, <3>1
    <3>3. again[j] = t  BY <1>3, <1>5, <2>3, <3>2
    <3> QED  BY <1>1, <2>1, <3>2, <3>3
  <2> QED  BY <2>2, <2>3 DEF Once
<1>10. \A place : Answered(q, place) => Answered(r, place)
  <2>1. \A t : On("StartTask", t).type = "StartTask"  BY DEF On
  <2>2. \A i \in 1..n : r[Len(q) + i].type = "StartTask"  BY <1>3, <2>1
  <2> QED  BY <1>3, <1>4, <2>2 DEF Answered
<1> QED  BY <1>3, <1>7, <1>8, <1>9, <1>10 DEF r, new, again

(* A selection that keeps the messages to start t keeps how many they are, *)
(* and what it drops needs no worker.                                      *)
LEMMA SelectMessages ==
  ASSUME NEW q \in Seq(Msg), NEW K
  PROVE  /\ Only(q, K) \in Seq(Msg)
         /\ \A t : Never(q, t) => Never(Only(q, K), t)
         /\ \A t : Once(q, t) /\ On("StartTask", t) \in K => Once(Only(q, K), t)
         /\ \A place \in [Tasks -> Places] : \A u :
                          /\ Answered(q, place)
                          /\ \A m \in K : m.type \in {"OnSend", "OnResponse"} => m.task # u
                          => Answered(Only(q, K), [place EXCEPT ![u] = "none"])
<1> DEFINE r == Only(q, K)
<1>1. /\ r \in Seq(Msg)
      /\ \A k \in DOMAIN r : r[k] \in K /\ \E i \in DOMAIN q : q[i] = r[k]
      /\ \A i \in DOMAIN q : q[i] \in K => \E k \in DOMAIN r : r[k] = q[i]
  BY OnlyElements
<1>2. PICK n \in Nat : \E f \in [1..n -> 1..Len(q)] : ChosenAt(q, K, n, f)  BY OnlyPlaces
<1>3. PICK f \in [1..n -> 1..Len(q)] : ChosenAt(q, K, n, f)  BY <1>2
<1>4. /\ DOMAIN r = 1..n /\ DOMAIN q = 1..Len(q)
      /\ \A k \in 1..n : r[k] = q[f[k]] /\ f[k] \in DOMAIN q
      /\ \A k, l \in 1..n : f[k] = f[l] => k = l
  <2>1. \A k, l \in 1..n : k < l => f[k] < f[l]  BY <1>3 DEF ChosenAt
  <2>2. \A k, l \in 1..n : f[k] = f[l] => k = l
    <3> SUFFICES ASSUME NEW k \in 1..n, NEW l \in 1..n, f[k] = f[l], k # l  PROVE FALSE  OBVIOUS
    <3>1. k < l \/ l < k  OBVIOUS
    <3>2. f[k] \in Nat /\ f[l] \in Nat  OBVIOUS
    <3> QED  BY <2>1, <3>1, <3>2
  <2> QED  BY <1>3, <2>2 DEF ChosenAt
<1> HIDE DEF r
<1>5. \A t : Never(q, t) => Never(r, t)  BY <1>4 DEF Never
<1>6. \A t : Once(q, t) /\ On("StartTask", t) \in K => Once(r, t)
  <2> SUFFICES ASSUME NEW t, Once(q, t), On("StartTask", t) \in K  PROVE Once(r, t)  OBVIOUS
  <2>1. PICK i \in DOMAIN q : /\ q[i] = On("StartTask", t)
                              /\ \A j \in DOMAIN q : q[j] = On("StartTask", t) => j = i
    BY DEF Once
  <2>2. PICK k \in DOMAIN r : r[k] = On("StartTask", t)  BY <1>1, <2>1
  <2>3. \A l \in DOMAIN r : r[l] = On("StartTask", t) => l = k  BY <1>4, <2>1, <2>2
  <2> QED  BY <2>2, <2>3 DEF Once
<1>7. ASSUME NEW place \in [Tasks -> Places], NEW u, Answered(q, place),
             \A m \in K : m.type \in {"OnSend", "OnResponse"} => m.task # u
      PROVE  Answered(r, [place EXCEPT ![u] = "none"])
  <2> SUFFICES ASSUME NEW k \in DOMAIN r, r[k].type \in {"OnSend", "OnResponse"}
               PROVE  [place EXCEPT ![u] = "none"][r[k].task] # "none"
    BY DEF Answered
  <2>1. r[k].task # u /\ r[k].task \in Tasks
    <3>1. r[k] \in K /\ r[k] \in Msg  BY <1>1
    <3> QED  BY <1>7, <3>1, MessageShapes
  <2>2. place[r[k].task] # "none"  BY <1>1, <1>7 DEF Answered
  <2>3. \A x \in Tasks : x # u => [place EXCEPT ![u] = "none"][x] = place[x]  OBVIOUS
  <2> QED  BY <2>1, <2>2, <2>3
<1> QED  BY <1>1, <1>5, <1>6, <1>7 DEF r
-----------------------------------------------------------------------------
(* What a step does to the list, the profiles and the workers of short     *)
(* links                                                                   *)

NoEffect  == UNCHANGED <<lst_cmd_, profile, worker, broken, doom>>
Enlists   == /\ UNCHANGED <<worker, broken, doom>>
             /\ \E t \in Tasks : TakeOf("StartTask", t) /\ Enlist(t)
Responds  == /\ doom = {} /\ UNCHANGED <<worker, broken>>
             /\ \E over, again \in SUBSET lst_cmd_ :
                  SingleResp(over, again) /\ \A t \in again : profile[t].remain_retry_count # 0
Drops     == /\ doom = {} /\ UNCHANGED <<profile, worker, broken>>
             /\ \E S \in SUBSET lst_cmd_ : Drop(S)
Redoes    == doom = {} /\ RedoShort /\ UNCHANGED <<lst_cmd_, worker, broken>>
Sends     == /\ UNCHANGED <<lst_cmd_, worker, broken, doom>>
             /\ \E t \in Tasks : profile' = [profile EXCEPT ![t].start_send_time = TRUE]
Starts    == /\ doom = {} /\ UNCHANGED <<broken, doom>>
             /\ \E S, refused \in SUBSET (lst_cmd_ \ Running) :
                  S \cap refused = {} /\ lst_cmd_' = lst_cmd_ \ refused /\ StartWorkers(S)
Works     == /\ UNCHANGED <<lst_cmd_, profile, broken, doom>>
             /\ \E t \in Tasks, place \in Places \ {"none"} :
                  worker[t] # "none" /\ worker' = [worker EXCEPT ![t] = place]
Destroys  == \E t \in Tasks : Break(t) \/ Destroy(t)

ShortEffect == NoEffect \/ Enlists \/ Responds \/ Drops \/ Redoes \/ Sends \/ Starts \/ Works \/ Destroys

LEMMA EffectOfStep ==
  ASSUME TypeInv, [Next]_vars
  PROVE  ShortEffect
<1> USE DEF ShortEffect
<1>1. CASE UNCHANGED vars  BY <1>1 DEF vars, shortVars, NoEffect
<1>2. CASE App  BY <1>2 DEF App, AppStart, AppStop, AppCall, LongConnects, LongBreaks, NoEffect, shortVars
<1>3. CASE Tick \/ ShortTimer \/ ZombieTimer \/ LongConnected
  <2>1. CASE Tick \/ ShortTimer  BY <2>1 DEF Tick, ShortTimer, NoEffect, shortVars
  <2>2. CASE ZombieTimer \/ LongConnected
    BY <2>2 DEF ZombieTimer, LongConnected, Restart, Reckon, EndAs, NoEffect, shortVars
  <2> QED  BY <1>3, <2>1, <2>2
<1>4. CASE \E t \in Tasks : Reject(t) \/ StartLong(t)
  BY <1>4 DEF Reject, StartLong, EndAs, NoEffect, shortVars
<1>5. CASE \E t \in Tasks, how \in {"ok", "fail", "end"} : LongEnd(t, how)
  BY <1>5 DEF LongEnd, NoEffect, shortVars
<1>6. CASE \E t \in Tasks : StartShort(t)  BY <1>6 DEF StartShort, EndAs, Enlists
<1>7. CASE \E t \in Tasks : StopTask(t)
  <2>1. PICK t \in Tasks : StopTask(t)  BY <1>7
  <2>2. {t} \cap lst_cmd_ \in SUBSET lst_cmd_  OBVIOUS
  <2> QED  BY <2>1, <2>2 DEF StopTask, EndAs, Drops, TakeOf, Take, Idle
<1>8. CASE ClearTasks
  <2>1. lst_cmd_ \in SUBSET lst_cmd_  OBVIOUS
  <2> QED  BY <1>8, <2>1 DEF ClearTasks, EndAs, Drops, Take, Idle
<1>9. CASE RedoTasks \/ OnNetworkChange  BY <1>9 DEF RedoTasks, OnNetworkChange, Redoes, Take, Idle
<1>10. CASE \E t \in Tasks : OnSend(t)
  <2>1. PICK t \in Tasks : OnSend(t)  BY <1>10
  <2>2. CASE t \in Running  BY <2>1, <2>2 DEF OnSend, Sends
  <2>3. CASE t \notin Running  BY <2>1, <2>3 DEF OnSend, NoEffect
  <2> QED  BY <2>2, <2>3
<1>11. ASSUME NEW over \in SUBSET lst_cmd_, NEW S \in SUBSET lst_cmd_, SingleResp(over, S \ UsedUp(S)),
              doom = {}, UNCHANGED <<worker, broken>>
       PROVE  Responds
  <2>1. S \ UsedUp(S) \in SUBSET lst_cmd_  OBVIOUS
  <2>2. \A t \in S \ UsedUp(S) : profile[t].remain_retry_count # 0  BY DEF UsedUp
  <2> QED  BY <1>11, <2>1, <2>2 DEF Responds
<1>12. ASSUME NEW S \in SUBSET lst_cmd_  PROVE UsedUp(S) \in SUBSET lst_cmd_  BY DEF UsedUp
<1>13. ASSUME SessionTimeout, doom = {}, UNCHANGED <<worker, broken>>  PROVE Responds
  <2>1. UsedUp(lst_cmd_) \in SUBSET lst_cmd_ /\ lst_cmd_ \in SUBSET lst_cmd_  BY <1>12
  <2>2. SingleResp(UsedUp(lst_cmd_), lst_cmd_ \ UsedUp(lst_cmd_))  BY <1>13 DEF SessionTimeout
  <2> QED  BY <1>11, <1>13, <2>1, <2>2
<1>14. CASE LongSessionTimeout  BY <1>13, <1>14 DEF LongSessionTimeout, Idle
<1>15. CASE \E t \in Tasks : OnError(t)
  <2>1. PICK t \in Tasks : OnError(t)  BY <1>15
  <2>2. CASE t \in Running
    <3>1. {t} \in SUBSET lst_cmd_  BY <2>2 DEF Running
    <3>2. SingleResp(UsedUp({t}), {t} \ UsedUp({t}))  BY <2>1, <2>2 DEF OnError, Fail1
    <3>3. UsedUp({t}) \in SUBSET lst_cmd_  BY <1>12, <3>1
    <3>4. doom = {} /\ UNCHANGED <<worker, broken>>  BY <2>1 DEF OnError, TakeOf, Take, Idle
    <3> QED  BY <1>11, <3>1, <3>2, <3>3, <3>4
  <2>3. CASE t \notin Running  BY <2>1, <2>3 DEF OnError, NoEffect
  <2> QED  BY <2>2, <2>3
<1>16. CASE \E t \in Tasks, handle \in Handles : OnAnswer(t, handle)
  <2>1. PICK t \in Tasks, handle \in Handles : OnAnswer(t, handle)  BY <1>16
  <2>2. doom = {} /\ t \in lst_cmd_ /\ UNCHANGED <<worker, broken>>
    BY <2>1 DEF OnAnswer, TakeOf, Take, Idle, Running
  <2>3. CASE SingleResp({t}, {})
    <3>1. {t} \in SUBSET lst_cmd_ /\ {} \in SUBSET lst_cmd_  BY <2>2
    <3> QED  BY <2>2, <2>3, <3>1 DEF Responds
  <2>4. CASE SessionTimeout  BY <1>13, <2>2, <2>4
  <2> QED  BY <2>1, <2>3, <2>4 DEF OnAnswer
<1>17. CASE \E late \in SUBSET Tasks : RunLoop(late)
  <2>1. PICK late \in SUBSET Tasks : RunLoop(late)  BY <1>17
  <2>2. CASE lst_cmd_ = {}  BY <2>1, <2>2 DEF RunLoop, NoEffect
  <2>3. CASE lst_cmd_ # {}
    <3> DEFINE dead == OutOfTime \cup UsedUp(late)
    <3>1. late \in SUBSET lst_cmd_  BY <2>1 DEF RunLoop, Running
    <3>2. dead \in SUBSET lst_cmd_  BY <1>12, <3>1 DEF OutOfTime
    <3>3. SingleResp(dead, late \ dead) /\ doom = {} /\ UNCHANGED <<worker, broken>>
      BY <2>1, <2>3 DEF RunLoop
    <3>4. late \ dead \in SUBSET lst_cmd_  BY <3>1
    <3>5. \A t \in late \ dead : profile[t].remain_retry_count # 0  BY DEF UsedUp
    <3> HIDE DEF dead
    <3> QED  BY <3>2, <3>3, <3>4, <3>5 DEF Responds
  <2> QED  BY <2>2, <2>3
<1>18. CASE \E passed, refused \in SUBSET Tasks, authed \in BOOLEAN : RunOnStartTask(passed, authed, refused)
  <2>1. PICK passed \in SUBSET Tasks, refused \in SUBSET Tasks, authed \in BOOLEAN :
             RunOnStartTask(passed, authed, refused)
    BY <1>18
  <2> DEFINE S == Startable(passed, authed) \ refused
  <2>2. /\ doom = {} /\ UNCHANGED <<broken, doom>>
        /\ lst_cmd_' = lst_cmd_ \ refused /\ StartWorkers(S)
        /\ refused \subseteq Startable(passed, authed)
    BY <2>1 DEF RunOnStartTask, EndAs
  <2>3. Startable(passed, authed) \subseteq lst_cmd_ \ Running  BY DEF Startable
  <2>4. S \in SUBSET (lst_cmd_ \ Running) /\ refused \in SUBSET (lst_cmd_ \ Running) /\ S \cap refused = {}
    BY <2>2, <2>3
  <2> HIDE DEF S
  <2> QED  BY <2>2, <2>4 DEF Starts
<1>19. CASE \E t \in Tasks : Break(t) \/ Destroy(t)  BY <1>19 DEF Destroys
<1>20. CASE \E t \in Tasks : Worker(t)
  <2>1. PICK t \in Tasks : Worker(t)  BY <1>20
  <2>2. UNCHANGED <<lst_cmd_, profile, broken, doom>>
    BY <2>1 DEF Worker, Connected, ConnectFails, Cancelled, Respond, Received
  <2>3. \E place \in Places \ {"none"} : worker[t] # "none" /\ worker' = [worker EXCEPT ![t] = place]
    BY <2>1 DEF Worker, Connected, ConnectFails, Cancelled, Respond, Received, WorkerStep, Places
  <2> QED  BY <2>2, <2>3 DEF Works
<1> QED
  BY <1>1, <1>2, <1>3, <1>4, <1>5, <1>6, <1>7, <1>8, <1>9, <1>10, <1>14, <1>15, <1>16, <1>17, <1>18, <1>19,
     <1>20 DEF Next, Message, LongLink, Handler

(* A message to start t comes while t is in the queue and nowhere else.    *)
LEMMA Arrives ==
  ASSUME TypeInv, PlaceInv, NEW t \in Tasks, TakeOf("StartTask", t)
  PROVE  InQueue(t) /\ Head(messages) = On("StartTask", t)
<1>1. messages \in Seq(Msg) /\ messages # <<>> /\ Head(messages).type = "StartTask" /\ Head(messages).task = t
  BY DEF TypeInv, TakeOf, Take
<1>2. Head(messages) = On("StartTask", t)
  <2>1. Head(messages) \in Msg  BY <1>1
  <2> QED  BY <1>1, <2>1, MessageShapes
<1>3. ~Never(messages, t)
  <2>1. 1 \in DOMAIN messages /\ messages[1] = Head(messages)  BY <1>1
  <2> QED  BY <1>2, <2>1 DEF Never
<1> QED  BY <1>2, <1>3 DEF PlaceInv, InOnePlace, Nowhere, InLong, InShort, InZombie

(* The types of the short link manager.                                    *)
ShortTypes ==
  /\ lst_cmd_ \subseteq Tasks /\ IsFiniteSet(lst_cmd_)
  /\ profile \in [Tasks -> Profile]
  /\ worker \in [Tasks -> Places] /\ broken \subseteq doom /\ doom \subseteq Tasks

(* A profile that is charged a retry.                                      *)
LEMMA ChargedProfile ==
  ASSUME NEW p \in Profile, p.remain_retry_count # 0
  PROVE  Charged(p) \in Profile /\ ~Charged(p).running_id
<1>1. p.remain_retry_count - 1 \in 0..RetryCount  BY ShortLinkAssumption DEF Profile
<1>2. \A n \in 0..RetryCount : NewProfile(n) \in Profile /\ ~NewProfile(n).running_id
  BY ShortLinkAssumption DEF NewProfile, Profile
<1>3. \A q \in Profile : /\ [q EXCEPT !.retry_time_interval = 1] \in Profile
                         /\ [q EXCEPT !.retry_time_interval = 1].running_id = q.running_id
  BY DEF Profile
<1> QED  BY <1>1, <1>2, <1>3 DEF Charged

LEMMA EffectTypes ==
  ASSUME TypeInv, ShortEffect
  PROVE  ShortTypes'
<1> USE ShortLinkAssumption
<1>1. ShortTypes /\ \A t \in Tasks : task[t].retry_count \in 0..RetryCount
  BY DEF TypeInv, TypeOK, ShortTypes
<1>2. CASE NoEffect  BY <1>1, <1>2 DEF NoEffect, ShortTypes
<1>3. CASE Enlists
  <2>1. PICK t \in Tasks : Enlist(t)  BY <1>3 DEF Enlists
  <2>2. NewProfile(task[t].retry_count) \in Profile  BY <1>1 DEF NewProfile, Profile
  <2>3. profile' \in [Tasks -> Profile]  BY <1>1, <2>1, <2>2 DEF Enlist, ShortTypes
  <2>4. lst_cmd_' \subseteq Tasks /\ IsFiniteSet(lst_cmd_')
    BY <1>1, <2>1, FS_AddElement DEF Enlist, ShortTypes
  <2> QED  BY <1>1, <1>3, <2>3, <2>4 DEF Enlists, ShortTypes
<1>4. ASSUME NEW S \in SUBSET lst_cmd_  PROVE IsFiniteSet(lst_cmd_ \ S)
  <2>1. lst_cmd_ \ S \in SUBSET lst_cmd_  OBVIOUS
  <2> QED  BY <1>1, <2>1, FS_Subset DEF ShortTypes
<1>5. CASE Responds
  <2>1. PICK over \in SUBSET lst_cmd_, again \in SUBSET lst_cmd_ :
             SingleResp(over, again) /\ \A t \in again : profile[t].remain_retry_count # 0
    BY <1>5 DEF Responds
  <2>2. lst_cmd_' = lst_cmd_ \ over /\ doom' = (over \cup again) \cap Running
    BY <2>1 DEF SingleResp
  <2>3. \A t \in Tasks : /\ profile[t] \in Profile
                         /\ t \in again => Charged(profile[t]) \in Profile
    BY <1>1, <2>1, ChargedProfile DEF ShortTypes
  <2>4. profile' \in [Tasks -> Profile]
    <3>1. profile' = [t \in Tasks |-> IF t \in again THEN Charged(profile[t]) ELSE profile[t]]
      BY <2>1 DEF SingleResp
    <3> QED  BY <2>3, <3>1
  <2>5. lst_cmd_' \subseteq Tasks /\ doom' \subseteq Tasks /\ IsFiniteSet(lst_cmd_')
    BY <1>1, <1>4, <2>2 DEF Running, ShortTypes
  <2>6. worker' \in [Tasks -> Places] /\ broken' \subseteq doom'  BY <1>1, <1>5 DEF Responds, ShortTypes
  <2> QED  BY <2>4, <2>5, <2>6 DEF ShortTypes
<1>6. CASE Drops
  <2>1. PICK S \in SUBSET lst_cmd_ : Drop(S)  BY <1>6 DEF Drops
  <2>2. IsFiniteSet(lst_cmd_')  BY <1>4, <2>1 DEF Drop
  <2> QED  BY <1>1, <1>6, <2>1, <2>2 DEF Drops, Drop, Running, ShortTypes
<1>7. CASE Redoes
  <2>1. \A t \in Tasks : profile[t] \in Profile /\ InitSendParam(profile[t]) \in Profile
    BY <1>1 DEF ShortTypes, InitSendParam, Profile
  <2>2. profile' \in [Tasks -> Profile]  BY <1>7, <2>1 DEF Redoes, RedoShort
  <2> QED  BY <1>1, <1>7, <2>2 DEF Redoes, RedoShort, Running, ShortTypes
<1>8. CASE Sends
  <2>1. PICK t \in Tasks : profile' = [profile EXCEPT ![t].start_send_time = TRUE]  BY <1>8 DEF Sends
  <2>2. [profile[t] EXCEPT !.start_send_time = TRUE] \in Profile  BY <1>1 DEF ShortTypes, Profile
  <2>3. profile' \in [Tasks -> Profile]  BY <1>1, <2>1, <2>2 DEF ShortTypes
  <2> QED  BY <1>1, <1>8, <2>3 DEF Sends, ShortTypes
<1>9. CASE Starts
  <2>1. PICK S \in SUBSET (lst_cmd_ \ Running), refused \in SUBSET (lst_cmd_ \ Running) :
             lst_cmd_' = lst_cmd_ \ refused /\ StartWorkers(S)
    BY <1>9 DEF Starts
  <2>2. IsFiniteSet(lst_cmd_')  BY <1>4, <2>1
  <2>3. \A t \in Tasks : profile[t] \in Profile /\ [profile[t] EXCEPT !.running_id = TRUE] \in Profile
    BY <1>1 DEF ShortTypes, Profile
  <2>4. profile' \in [Tasks -> Profile]  BY <2>1, <2>3 DEF StartWorkers
  <2>5. worker' \in [Tasks -> Places]  BY <1>1, <2>1 DEF StartWorkers, ShortTypes, Places
  <2> QED  BY <1>1, <1>9, <2>1, <2>2, <2>4, <2>5 DEF Starts, ShortTypes
<1>10. CASE Works  BY <1>1, <1>10 DEF Works, ShortTypes
<1>11. CASE Destroys
  <2>1. PICK t \in Tasks : Break(t) \/ Destroy(t)  BY <1>11 DEF Destroys
  <2>2. CASE Break(t)  BY <1>1, <2>2 DEF Break, ShortTypes
  <2>3. CASE Destroy(t)
    <3>1. worker' \in [Tasks -> Places]  BY <1>1, <2>3 DEF Destroy, ShortTypes, Places
    <3> QED  BY <1>1, <2>3, <3>1 DEF Destroy, ShortTypes
  <2> QED  BY <2>1, <2>2, <2>3
<1> QED
  BY <1>2, <1>3, <1>5, <1>6, <1>7, <1>8, <1>9, <1>10, <1>11 DEF ShortEffect

LEMMA EffectWorkers ==
  ASSUME TypeInv, PlaceInv, Owned, ShortEffect
  PROVE  Owned'
<1> USE ShortLinkAssumption
<1>1. /\ lst_cmd_ \subseteq Tasks /\ profile \in [Tasks -> Profile] /\ worker \in [Tasks -> Places]
      /\ broken \subseteq doom /\ doom \subseteq Tasks
  BY DEF TypeInv, TypeOK
<1>2. CASE NoEffect  BY <1>2 DEF NoEffect, Owned, Running
<1>3. CASE Enlists
  <2>1. PICK t \in Tasks : TakeOf("StartTask", t) /\ Enlist(t)  BY <1>3 DEF Enlists
  <2>2. t \notin lst_cmd_  BY <2>1, Arrives DEF InQueue
  <2>3. ~NewProfile(task[t].retry_count).running_id  BY DEF NewProfile
  <2>4. /\ lst_cmd_' = lst_cmd_ \cup {t}
        /\ profile'[t] = NewProfile(task[t].retry_count)
        /\ \A u \in Tasks : u # t => profile'[u] = profile[u]
    BY <1>1, <2>1 DEF Enlist
  <2>5. Running' = Running  BY <1>1, <2>2, <2>3, <2>4 DEF Running
  <2> QED  BY <1>3, <2>5 DEF Enlists, Owned
<1>4. CASE Responds
  <2>1. PICK over \in SUBSET lst_cmd_, again \in SUBSET lst_cmd_ :
             SingleResp(over, again) /\ \A t \in again : profile[t].remain_retry_count # 0
    BY <1>4 DEF Responds
  <2>2. /\ lst_cmd_' = lst_cmd_ \ over /\ doom' = (over \cup again) \cap Running
        /\ \A t \in Tasks : profile'[t] = IF t \in again THEN Charged(profile[t]) ELSE profile[t]
    BY <2>1 DEF SingleResp
  <2>3. \A t \in Tasks : t \in again => ~profile'[t].running_id
    BY <1>1, <2>1, <2>2, ChargedProfile
  <2>4. Running' = Running \ doom'  BY <1>1, <2>2, <2>3 DEF Running
  <2>5. doom' \subseteq Running /\ doom = {} /\ worker' = worker  BY <1>4, <2>2 DEF Responds
  <2> QED  BY <2>4, <2>5 DEF Owned
<1>5. CASE Drops
  <2>1. PICK S \in SUBSET lst_cmd_ : lst_cmd_' = lst_cmd_ \ S /\ doom' = S \cap Running
    BY <1>5 DEF Drops, Drop
  <2>2. Running' = Running \ S  BY <1>5, <2>1 DEF Drops, Running
  <2> QED  BY <1>5, <2>1, <2>2 DEF Drops, Owned
<1>6. CASE Redoes
  <2>1. \A t \in lst_cmd_ : ~profile'[t].running_id
    <3>1. \A t \in lst_cmd_ : profile'[t] = InitSendParam(profile[t])
      BY <1>1, <1>6 DEF Redoes, RedoShort
    <3>2. \A p \in Profile : ~InitSendParam(p).running_id  BY DEF InitSendParam, Profile
    <3> QED  BY <1>1, <3>1, <3>2
  <2>2. Running' = {}  BY <1>6, <2>1 DEF Redoes, Running
  <2>3. doom' = Running /\ doom = {} /\ worker' = worker  BY <1>6 DEF Redoes, RedoShort
  <2> QED  BY <2>2, <2>3 DEF Owned
<1>7. CASE Sends
  <2>1. PICK t \in Tasks : profile' = [profile EXCEPT ![t].start_send_time = TRUE]  BY <1>7 DEF Sends
  <2>2. \A u \in Tasks : profile'[u].running_id = profile[u].running_id  BY <1>1, <2>1 DEF Profile
  <2>3. Running' = Running  BY <1>1, <1>7, <2>2 DEF Sends, Running
  <2> QED  BY <1>7, <2>3 DEF Sends, Owned
<1>8. CASE Starts
  <2>1. PICK S \in SUBSET (lst_cmd_ \ Running), refused \in SUBSET (lst_cmd_ \ Running) :
             S \cap refused = {} /\ lst_cmd_' = lst_cmd_ \ refused /\ StartWorkers(S)
    BY <1>8 DEF Starts
  <2>2. \A t \in Tasks : profile'[t].running_id <=> t \in S \/ profile[t].running_id
    <3>1. \A p \in Profile : [p EXCEPT !.running_id = TRUE].running_id  BY DEF Profile
    <3>2. \A t \in Tasks : profile'[t] = IF t \in S THEN [profile[t] EXCEPT !.running_id = TRUE] ELSE profile[t]
      BY <2>1 DEF StartWorkers
    <3> QED  BY <1>1, <3>1, <3>2
  <2>3. \A t \in Tasks : t \in Running' <=> t \in Running \/ t \in S
    BY <1>1, <2>1, <2>2 DEF Running
  <2>4. Running' \subseteq Tasks  BY <1>1, <2>1 DEF Running
  <2>5. \A t \in Tasks : worker'[t] # "none" <=> t \in S \/ worker[t] # "none"
    BY <2>1 DEF StartWorkers
  <2>6. doom = {} /\ doom' = {}  BY <1>8 DEF Starts
  <2> QED  BY <2>3, <2>4, <2>5, <2>6 DEF Owned
<1>9. CASE Works
  <2>1. PICK t \in Tasks, place \in Places \ {"none"} :
             worker[t] # "none" /\ worker' = [worker EXCEPT ![t] = place]
    BY <1>9 DEF Works
  <2>2. \A u \in Tasks : worker'[u] # "none" <=> worker[u] # "none"  BY <1>1, <2>1
  <2>3. Running' = Running /\ doom' = doom  BY <1>9 DEF Works, Running
  <2> QED  BY <2>2, <2>3 DEF Owned
<1>10. CASE Destroys
  <2>1. PICK t \in Tasks : Break(t) \/ Destroy(t)  BY <1>10 DEF Destroys
  <2>2. CASE Break(t)  BY <2>2 DEF Break, Owned, Running
  <2>3. CASE Destroy(t)
    <3>1. /\ Running' = Running /\ doom' = doom \ {t} /\ t \in doom
          /\ \A u \in Tasks : worker'[u] = IF u = t THEN "none" ELSE worker[u]
      BY <1>1, <2>3 DEF Destroy, Running
    <3> QED  BY <3>1 DEF Owned
  <2> QED  BY <2>1, <2>2, <2>3
<1> QED  BY <1>2, <1>3, <1>4, <1>5, <1>6, <1>7, <1>8, <1>9, <1>10 DEF ShortEffect
-----------------------------------------------------------------------------
(* What a step does to the message queue                                   *)

(* Zombies leave the list; those with time left are in the queue, once.    *)
Restarted(S, ok, q) ==
  /\ messages' \in Seq(Msg)
  /\ \A t \in Tasks :
       /\ Never(q, t) /\ t \notin S \ Expired => Never(messages', t)
       /\ Once(q, t) /\ t \notin S \ Expired => Once(messages', t)
       /\ Never(q, t) /\ t \in S \ Expired => Once(messages', t)
       /\ outcome'[t] = IF t \in S \cap Expired THEN "failed" ELSE IF t \in ok THEN "ok" ELSE outcome[t]
  /\ \A place : Answered(q, place) => Answered(messages', place)
  /\ lsttask_' = lsttask_ \ S /\ Reckon(S \ Expired)

LEMMA RestartEffect ==
  ASSUME TypeInv, NEW S \in SUBSET Tasks, S \subseteq lsttask_, NEW ok, NEW q \in Seq(Msg),
         Restart(S, ok, q)
  PROVE  Restarted(S, ok, q)
<1>1. PICK U : U = S \ Expired  OBVIOUS
<1>2. U \in SUBSET Tasks /\ IsFiniteSet(U)
  <2>1. U \in SUBSET lsttask_ /\ IsFiniteSet(lsttask_)  BY <1>1 DEF TypeInv
  <2> QED  BY <1>1, <2>1, FS_Subset
<1>3. messages' = q \o [i \in DOMAIN SetToSeq(U) |-> On("StartTask", SetToSeq(U)[i])]
  BY <1>1 DEF Restart
<1>4. \A t \in Tasks :
        outcome'[t] = IF t \in S \cap Expired THEN "failed" ELSE IF t \in ok THEN "ok" ELSE outcome[t]
  BY DEF Restart, EndAs
<1>5. lsttask_' = lsttask_ \ S /\ Reckon(S \ Expired)  BY DEF Restart
<1>6. /\ messages' \in Seq(Msg)
      /\ \A t : /\ Never(q, t) /\ t \notin U => Never(messages', t)
                /\ Once(q, t) /\ t \notin U => Once(messages', t)
                /\ Never(q, t) /\ t \in U => Once(messages', t)
      /\ \A place : Answered(q, place) => Answered(messages', place)
  BY <1>2, <1>3, PostMessages
<1> QED  BY <1>1, <1>4, <1>5, <1>6 DEF Restarted

QueueInv(q, place) == q \in Seq(Msg) /\ Answered(q, place)

(* Only Destroy takes a worker away, and the messages of it with it.       *)
LEMMA QueueStep ==
  ASSUME TypeInv, WorkerInv, [Next]_vars
  PROVE  QueueInv(messages', worker')
<1>1. PICK q \in Seq(Msg) : q = messages  BY DEF TypeInv
<1>2. Answered(q, worker) /\ worker \in [Tasks -> Places]  BY <1>1 DEF WorkerInv, TypeInv, TypeOK
<1>3. PICK w \in [Tasks -> Places] : w = worker  BY <1>2
<1>4. CASE UNCHANGED <<messages, worker>>  BY <1>1, <1>2, <1>4 DEF QueueInv
<1>5. ASSUME messages # <<>>, messages' = Tail(messages), UNCHANGED worker
      PROVE  QueueInv(messages', worker')
  <2>1. Tail(q) \in Seq(Msg) /\ Answered(Tail(q), w)  BY <1>1, <1>2, <1>3, <1>5, TakeMessage
  <2> QED  BY <1>1, <1>3, <1>5, <2>1 DEF QueueInv
<1>6. ASSUME NEW m \in Msg, messages' = Append(messages, m), NEW place, worker' = place, Answered(q, place),
             m.type \in {"OnSend", "OnResponse"} => place[m.task] # "none"
      PROVE  QueueInv(messages', worker')
  <2>1. Append(q, m) \in Seq(Msg) /\ Answered(Append(q, m), place)  BY <1>6, AppendMessage
  <2> QED  BY <1>1, <1>6, <2>1 DEF QueueInv
<1>7. ASSUME NEW S \in SUBSET Tasks, S \subseteq lsttask_, NEW ok, NEW r \in Seq(Msg), Answered(r, w),
             Restart(S, ok, r), UNCHANGED worker
      PROVE  QueueInv(messages', worker')
  <2>2. messages' \in Seq(Msg) /\ Answered(messages', w)  BY <1>7, RestartEffect DEF Restarted
  <2> QED  BY <1>3, <1>7, <2>2 DEF QueueInv
<1>8. ASSUME NEW place, worker' = place, \A u \in Tasks : worker[u] # "none" => place[u] # "none"
      PROVE  Answered(q, place)
  <2> SUFFICES ASSUME NEW i \in DOMAIN q, q[i].type \in {"OnSend", "OnResponse"}
               PROVE  place[q[i].task] # "none"
    BY DEF Answered
  <2>1. q[i] \in Msg  BY <1>1
  <2>2. q[i].task \in Tasks  BY <2>1, MessageShapes
  <2> QED  BY <1>2, <1>8, <2>2 DEF Answered
<1>9. lsttask_ \in SUBSET Tasks  BY DEF TypeInv, TypeOK
<1>10. PICK Z \in SUBSET Tasks : Z = lsttask_  BY <1>9
<1>11. PICK r : r = Tail(messages) /\ (messages # <<>> => r \in Seq(Msg) /\ Answered(r, w))
  BY <1>1, <1>2, <1>3, TakeMessage
<1>12. CASE UNCHANGED vars  BY <1>4, <1>12 DEF vars, shortVars
<1>13. CASE App
  <2>1. CASE \E t \in Tasks : AppStart(t) \/ AppStop(t)
    <3>1. PICK t \in Tasks : AppStart(t) \/ AppStop(t)  BY <2>1
    <3>2. PICK m \in Msg : messages' = Append(messages, m) /\ m.type \notin {"OnSend", "OnResponse"}
      BY <3>1, MessageShapes DEF AppStart, AppStop
    <3>3. worker' = w  BY <1>3, <3>1 DEF AppStart, AppStop, shortVars
    <3> QED  BY <1>2, <1>3, <1>6, <3>2, <3>3
  <2>2. CASE LongConnects \/ \E c \in Calls : AppCall(c)
    <3>1. PICK m \in Msg : messages' = Append(messages, m) /\ m.type \notin {"OnSend", "OnResponse"}
      <4>1. PICK c \in Calls \cup {"kConnected"} : messages' = Append(messages, [type |-> c])
        BY <2>2 DEF AppCall, LongConnects
      <4> QED  BY <4>1, MessageShapes
    <3>2. worker' = w  BY <1>3, <2>2 DEF AppCall, LongConnects, shortVars
    <3> QED  BY <1>2, <1>3, <1>6, <3>1, <3>2
  <2>3. CASE LongBreaks  BY <1>4, <2>3 DEF LongBreaks, shortVars
  <2> QED  BY <1>13, <2>1, <2>2, <2>3 DEF App
<1>14. CASE Tick \/ ShortTimer \/ LongSessionTimeout  BY <1>4, <1>14 DEF Tick, ShortTimer, LongSessionTimeout, shortVars
<1>15. CASE ZombieTimer
  <2>1. PICK S \in SUBSET Tasks : S \subseteq lsttask_ /\ Restart(S, {}, q)
    <3> DEFINE due == IF idleTime < RetryInterval THEN {} ELSE {t \in lsttask_ : age[t] >= RetryInterval}
               S == Expired \cup due
    <3>1. S \subseteq lsttask_  BY DEF Expired
    <3>2. Restart(S, {}, q)  BY <1>1, <1>15 DEF ZombieTimer
    <3>3. S \in SUBSET Tasks  BY <1>9, <3>1
    <3> HIDE DEF S
    <3> QED  BY <3>1, <3>2, <3>3
  <2>2. UNCHANGED worker  BY <1>15 DEF ZombieTimer, shortVars
  <2> QED  BY <1>2, <1>3, <1>7, <2>1, <2>2
<1>16. CASE LongConnected \/ OnNetworkChange
  <2>1. Restart(Z, {}, r) /\ messages # <<>> /\ UNCHANGED worker
    BY <1>10, <1>11, <1>16 DEF LongConnected, OnNetworkChange, Take, shortVars
  <2> QED  BY <1>7, <1>10, <1>11, <2>1
<1>17. CASE ClearTasks  BY <1>5, <1>17 DEF ClearTasks, Take, EndAs
<1>18. CASE RedoTasks  BY <1>5, <1>18 DEF RedoTasks, Take
<1>19. CASE \E t \in Tasks : Reject(t) \/ StartLong(t)
  BY <1>5, <1>19 DEF Reject, StartLong, EndAs, TakeOf, Take, shortVars
<1>20. CASE \E t \in Tasks : StartShort(t) \/ StopTask(t)
  BY <1>5, <1>20 DEF StartShort, StopTask, EndAs, TakeOf, Take
<1>21. CASE \E t \in Tasks : OnSend(t) \/ OnError(t)
  BY <1>5, <1>21 DEF OnSend, OnError, TakeOf, Take
<1>22. CASE \E t \in Tasks, handle \in Handles : OnAnswer(t, handle)
  <2>1. PICK t \in Tasks, handle \in Handles : OnAnswer(t, handle)  BY <1>22
  <2>2. messages # <<>> /\ UNCHANGED worker  BY <2>1 DEF OnAnswer, TakeOf, Take
  <2>3. CASE Restart(Z, {t}, r)  BY <1>7, <1>10, <1>11, <2>2, <2>3
  <2>4. CASE messages' = Tail(messages)  BY <1>5, <2>2, <2>4
  <2> QED  BY <1>10, <1>11, <2>1, <2>3, <2>4 DEF OnAnswer
<1>23. CASE \E t \in Tasks, how \in {"ok", "fail", "end"} : LongEnd(t, how)
  <2>1. PICK t \in Tasks, how \in {"ok", "fail", "end"} : LongEnd(t, how)  BY <1>23
  <2>2. UNCHANGED worker  BY <2>1 DEF LongEnd, shortVars
  <2>3. CASE Restart(Z, {t}, q)  BY <1>2, <1>3, <1>7, <1>10, <2>2, <2>3
  <2>4. CASE UNCHANGED messages  BY <1>4, <2>2, <2>4
  <2> QED  BY <1>1, <1>10, <2>1, <2>3, <2>4 DEF LongEnd
<1>24. CASE \E late \in SUBSET Tasks : RunLoop(late)  BY <1>4, <1>24 DEF RunLoop
<1>25. CASE \E passed, refused \in SUBSET Tasks, authed \in BOOLEAN : RunOnStartTask(passed, authed, refused)
  <2>1. PICK passed \in SUBSET Tasks, refused \in SUBSET Tasks, authed \in BOOLEAN :
             RunOnStartTask(passed, authed, refused)
    BY <1>25
  <2>2. UNCHANGED messages /\ \A u \in Tasks : worker[u] # "none" => worker'[u] # "none"
    BY <2>1 DEF RunOnStartTask, StartWorkers, EndAs
  <2>3. PICK place : place = worker'  OBVIOUS
  <2> QED  BY <1>1, <1>8, <2>2, <2>3 DEF QueueInv
<1>26. CASE \E t \in Tasks : Break(t)  BY <1>4, <1>26 DEF Break
<1>27. CASE \E t \in Tasks : Destroy(t)
  <2>1. PICK t \in Tasks : Destroy(t)  BY <1>27
  <2> DEFINE K == {m \in Queued : m.type \in {"OnSend", "OnResponse"} => m.task # t}
  <2>2. PICK k : k = K  OBVIOUS
  <2>3. messages' = Only(q, k) /\ worker' = [w EXCEPT ![t] = "none"]
    BY <1>1, <1>3, <2>1, <2>2 DEF Destroy
  <2>4. \A m \in k : m.type \in {"OnSend", "OnResponse"} => m.task # t  BY <2>2
  <2>5. Only(q, k) \in Seq(Msg) /\ Answered(Only(q, k), [w EXCEPT ![t] = "none"])
    BY <1>2, <1>3, <2>4, SelectMessages
  <2> QED  BY <2>3, <2>5 DEF QueueInv
<1>28. CASE \E t \in Tasks : Worker(t)
  <2>1. PICK t \in Tasks : Worker(t)  BY <1>28
  <2>2. PICK place : place = worker'  OBVIOUS
  <2>3. worker[t] # "none" /\ place[t] # "none" /\ \A u \in Tasks : worker[u] # "none" => place[u] # "none"
    BY <1>2, <2>1, <2>2 DEF Worker, Connected, ConnectFails, Cancelled, Respond, Received, WorkerStep
  <2>4. Answered(q, place)  BY <1>8, <2>2, <2>3
  <2>5. CASE UNCHANGED messages  BY <1>1, <2>2, <2>4, <2>5 DEF QueueInv
  <2>6. CASE Connected(t)
    <3>1. PICK m \in Msg : messages' = Append(messages, m) /\ m.task = t
      BY <2>6, MessageShapes DEF Connected
    <3> QED  BY <1>6, <2>2, <2>3, <2>4, <3>1
  <2>7. CASE Respond(t)
    <3>1. PICK what \in {"ok", "error"} :
               messages' = Append(messages, [type |-> "OnResponse", task |-> t, status |-> what])
      BY <2>7 DEF Respond
    <3>2. PICK m : m = [type |-> "OnResponse", task |-> t, status |-> what]  OBVIOUS
    <3>3. m \in Msg /\ m.task = t /\ messages' = Append(messages, m)  BY <3>1, <3>2, MessageShapes
    <3> QED  BY <1>6, <2>2, <2>3, <2>4, <3>3
  <2> QED  BY <2>1, <2>5, <2>6, <2>7 DEF Worker, ConnectFails, Cancelled, Received
<1> QED
  BY <1>12, <1>13, <1>14, <1>15, <1>16, <1>17, <1>18, <1>19, <1>20, <1>21, <1>22, <1>23, <1>24, <1>25, <1>26,
     <1>27, <1>28 DEF Next, Message, LongLink, Handler
-----------------------------------------------------------------------------
(* A task is in one place                                                  *)

(* The queue holds as many messages to start t as before.                  *)
KeepsStarts(t) == /\ Never(messages, t) => Never(messages', t)
                  /\ Once(messages, t) => Once(messages', t)

LEMMA StartsKept ==
  ASSUME TypeInv, NEW t \in Tasks,
         \/ UNCHANGED messages
         \/ \E m \in Msg : m # On("StartTask", t) /\ messages' = Append(messages, m)
         \/ messages # <<>> /\ Head(messages) # On("StartTask", t) /\ messages' = Tail(messages)
         \/ \E u \in Tasks : Destroy(u)
  PROVE  KeepsStarts(t)
<1>1. PICK q \in Seq(Msg) : q = messages  BY DEF TypeInv
<1>2. CASE UNCHANGED messages  BY <1>2 DEF KeepsStarts
<1>3. CASE \E m \in Msg : m # On("StartTask", t) /\ messages' = Append(messages, m)
  <2>1. PICK m \in Msg : m # On("StartTask", t) /\ messages' = Append(q, m)  BY <1>1, <1>3
  <2>2. /\ Never(q, t) => Never(Append(q, m), t)
        /\ Once(q, t) => Once(Append(q, m), t)
    BY <2>1, AppendMessage
  <2> QED  BY <1>1, <2>1, <2>2 DEF KeepsStarts
<1>4. CASE messages # <<>> /\ Head(messages) # On("StartTask", t) /\ messages' = Tail(messages)
  <2>1. /\ Never(q, t) => Never(Tail(q), t)
        /\ Once(q, t) => Once(Tail(q), t)
    BY <1>1, <1>4, TakeMessage
  <2> QED  BY <1>1, <1>4, <2>1 DEF KeepsStarts
<1>5. CASE \E u \in Tasks : Destroy(u)
  <2>1. PICK u \in Tasks : Destroy(u)  BY <1>5
  <2>2. PICK k : k = {m \in Queued : m.type \in {"OnSend", "OnResponse"} => m.task # u}  OBVIOUS
  <2>3. messages' = Only(q, k)  BY <1>1, <2>1, <2>2 DEF Destroy
  <2>4. On("StartTask", t) \in k \/ ~Once(q, t)
    <3>1. On("StartTask", t).type = "StartTask"  BY DEF On
    <3>2. Once(q, t) => On("StartTask", t) \in Queued  BY <1>1 DEF Once, Queued
    <3> QED  BY <2>2, <3>1, <3>2
  <2>5. /\ Never(q, t) => Never(Only(q, k), t)
        /\ Once(q, t) => Once(Only(q, k), t)
    BY <2>4, SelectMessages
  <2> QED  BY <1>1, <2>3, <2>5 DEF KeepsStarts
<1> QED  BY <1>2, <1>3, <1>4, <1>5

(* A message of another kind is not one to start t.                        *)
LEMMA OtherMessage ==
  ASSUME NEW kind, kind # "StartTask", Take(kind)
  PROVE  messages # <<>> /\ \A t : Head(messages) # On("StartTask", t)
<1>1. \A t : On("StartTask", t).type = "StartTask"  BY DEF On
<1> QED  BY <1>1 DEF Take

(* The message that starts u is gone with its taking; the others stay.     *)
LEMMA StartTaken ==
  ASSUME TypeInv, PlaceInv, NEW u \in Tasks, TakeOf("StartTask", u), messages' = Tail(messages)
  PROVE  /\ InQueue(u) /\ Never(messages', u)
         /\ \A t \in Tasks : t # u => KeepsStarts(t)
<1>1. InQueue(u) /\ Head(messages) = On("StartTask", u) /\ messages # <<>>
  BY Arrives DEF TakeOf, Take
<1>2. PICK q \in Seq(Msg) : q = messages  BY DEF TypeInv
<1>3. Never(Tail(q), u)  BY <1>1, <1>2, TakeMessage DEF InQueue
<1>4. \A t : t # u => On("StartTask", t) # On("StartTask", u)  BY DEF On
<1>5. \A t \in Tasks : t # u => KeepsStarts(t)  BY <1>1, <1>4, StartsKept
<1> QED  BY <1>1, <1>2, <1>3, <1>5

(* What fails is saved or ends.                                            *)
LEMMA CallBackEffect ==
  ASSUME NEW fail, NEW end, CallBack(fail, end)
  PROVE  \E saved \in SUBSET fail :
            /\ lsttask_' = lsttask_ \cup saved /\ Reckon(saved)
            /\ zombieTimer' = (zombieTimer \/ saved # {})
            /\ \A t \in Tasks :
                  outcome'[t] = IF t \in (fail \cup end) \ saved THEN "failed" ELSE outcome[t]
<1>1. PICK saved : saved = Savable(fail)  OBVIOUS
<1>2. saved \in SUBSET fail  BY <1>1 DEF Savable
<1>3. \A t \in Tasks : outcome'[t] = IF t \in (fail \cup end) \ saved THEN "failed" ELSE outcome[t]
  BY <1>1 DEF CallBack, EndAs
<1>4. lsttask_' = lsttask_ \cup saved /\ Reckon(saved) /\ zombieTimer' = (zombieTimer \/ saved # {})
  BY <1>1 DEF CallBack, EndAs
<1> QED  BY <1>2, <1>3, <1>4

Places5 == <<longTasks, lst_cmd_, lsttask_, outcome>>

LEMMA PlaceStep ==
  ASSUME TypeInv, PlaceInv, [Next]_vars
  PROVE  PlaceInv'
<1> USE DEF PlaceInv, InOnePlace, Nowhere, InQueue, InLong, InShort, InZombie, Live
<1>1. /\ longTasks \subseteq Tasks /\ lst_cmd_ \subseteq Tasks /\ lsttask_ \subseteq Tasks
      /\ outcome \in [Tasks -> {"new", "posted", "pending", "ok", "failed", "stopped", "cleared"}]
  BY DEF TypeInv, TypeOK
<1>2. ASSUME UNCHANGED Places5, \A t \in Tasks : KeepsStarts(t)
      PROVE  PlaceInv'
  BY <1>2 DEF Places5, KeepsStarts
<1>3. CASE UNCHANGED messages /\ UNCHANGED Places5  BY <1>2, <1>3, StartsKept
<1>4. CASE \E t \in Tasks : AppStart(t)
  <2>1. PICK u \in Tasks : AppStart(u)  BY <1>4
  <2>2. PICK q \in Seq(Msg) : q = messages  BY DEF TypeInv
  <2>3. PICK m \in Msg : m = On("StartTask", u)  BY MessageShapes
  <2>4. messages' = Append(q, m) /\ UNCHANGED <<longTasks, lst_cmd_, lsttask_>>
    BY <2>1, <2>2, <2>3 DEF AppStart, shortVars, zombieVars
  <2>5. Never(q, u)  BY <2>1, <2>2 DEF AppStart
  <2>6. Once(messages', u)  BY <2>3, <2>4, <2>5, AppendMessage
  <2>7. \A t \in Tasks : t # u => On("StartTask", t) # On("StartTask", u)  BY DEF On
  <2>8. \A t \in Tasks : t # u => KeepsStarts(t)  BY <2>2, <2>3, <2>4, <2>7, StartsKept
  <2>9. outcome'[u] = "posted" /\ outcome[u] = "new" /\ \A t \in Tasks : t # u => outcome'[t] = outcome[t]
    BY <1>1, <2>1 DEF AppStart
  <2> QED  BY <2>4, <2>5, <2>6, <2>8, <2>9, <2>2 DEF KeepsStarts
<1>5. CASE \E t \in Tasks : AppStop(t)
  <2>1. PICK u \in Tasks : AppStop(u)  BY <1>5
  <2>2. PICK m \in Msg : messages' = Append(messages, m) /\ m.type = "StopTask"
    BY <2>1, MessageShapes DEF AppStop
  <2>3. \A t : m # On("StartTask", t)
    <3>1. \A t : On("StartTask", t).type = "StartTask"  BY DEF On
    <3> QED  BY <2>2, <3>1
  <2>4. UNCHANGED Places5  BY <2>1 DEF AppStop, Places5, shortVars, zombieVars
  <2> QED  BY <1>2, <2>2, <2>3, <2>4, StartsKept
<1>6. CASE LongConnects \/ \E c \in Calls : AppCall(c)
  <2>1. PICK c \in Calls \cup {"kConnected"} : messages' = Append(messages, [type |-> c])
    BY <1>6 DEF AppCall, LongConnects
  <2>2. PICK m \in Msg : messages' = Append(messages, m) /\ m.type # "StartTask"
    BY <2>1, MessageShapes
  <2>3. \A t : m # On("StartTask", t)
    <3>1. \A t : On("StartTask", t).type = "StartTask"  BY DEF On
    <3> QED  BY <2>2, <3>1
  <2>4. UNCHANGED Places5  BY <1>6 DEF AppCall, LongConnects, Places5, shortVars, zombieVars
  <2> QED  BY <1>2, <2>2, <2>3, <2>4, StartsKept
<1>7. CASE LongBreaks \/ Tick \/ ShortTimer
  BY <1>3, <1>7 DEF LongBreaks, Tick, ShortTimer, Places5, shortVars, zombieVars
<1>8. CASE RedoTasks
  <2>1. messages' = Tail(messages) /\ UNCHANGED Places5  BY <1>8 DEF RedoTasks, Places5, zombieVars
  <2> QED  BY <1>2, <1>8, <2>1, OtherMessage, StartsKept DEF RedoTasks
<1>9. CASE \E t \in Tasks : OnSend(t)
  <2>1. PICK u \in Tasks : OnSend(u)  BY <1>9
  <2>2. messages' = Tail(messages) /\ UNCHANGED Places5 /\ Take("OnSend")
    BY <2>1 DEF OnSend, TakeOf, Places5, zombieVars
  <2> QED  BY <1>2, <2>2, OtherMessage, StartsKept
<1>10. CASE \E t \in Tasks : Reject(t)
  <2>1. PICK u \in Tasks : Reject(u)  BY <1>10
  <2>2. /\ InQueue(u) /\ Never(messages', u)
        /\ \A t \in Tasks : t # u => KeepsStarts(t)
    <3>1. TakeOf("StartTask", u) /\ messages' = Tail(messages)  BY <2>1 DEF Reject, EndAs
    <3> QED  BY <3>1, StartTaken
  <2>3. /\ \A t \in Tasks : outcome'[t] = IF t = u THEN "failed" ELSE outcome[t]
        /\ UNCHANGED <<longTasks, lst_cmd_, lsttask_>>
    BY <2>1 DEF Reject, EndAs, shortVars, zombieVars
  <2> QED  BY <2>2, <2>3 DEF KeepsStarts
<1>11. CASE \E t \in Tasks : StartLong(t) \/ StartShort(t)
  <2>1. PICK u \in Tasks : StartLong(u) \/ StartShort(u)  BY <1>11
  <2>2. /\ InQueue(u) /\ Never(messages', u)
        /\ \A t \in Tasks : t # u => KeepsStarts(t)
    <3>1. TakeOf("StartTask", u) /\ messages' = Tail(messages)
      BY <2>1 DEF StartLong, StartShort, Enlist, EndAs
    <3> QED  BY <3>1, StartTaken
  <2>3. /\ \A t \in Tasks : outcome'[t] = IF t = u THEN "pending" ELSE outcome[t]
        /\ UNCHANGED lsttask_
        /\ \/ longTasks' = longTasks \cup {u} /\ UNCHANGED lst_cmd_
           \/ lst_cmd_' = lst_cmd_ \cup {u} /\ UNCHANGED longTasks
    <3>1. CASE StartLong(u)  BY <3>1 DEF StartLong, EndAs, shortVars
    <3>2. CASE StartShort(u)  BY <3>2 DEF StartShort, Enlist, EndAs
    <3> QED  BY <2>1, <3>1, <3>2
  <2> QED  BY <2>2, <2>3 DEF KeepsStarts
<1>12. CASE \E t \in Tasks : StopTask(t)
  <2>1. PICK u \in Tasks : StopTask(u)  BY <1>12
  <2>2. \A t \in Tasks : KeepsStarts(t)
    <3>1. Take("StopTask") /\ messages' = Tail(messages)  BY <2>1 DEF StopTask, EndAs, Drop, TakeOf
    <3> QED  BY <3>1, OtherMessage, StartsKept
  <2>3. /\ longTasks' = longTasks \ {u} /\ lsttask_' = lsttask_ \ {u}
        /\ lst_cmd_' = lst_cmd_ \ {u}
        /\ \A t \in Tasks : outcome'[t] = IF t = u /\ u \in longTasks \cup lsttask_ \cup lst_cmd_
                                           THEN "stopped" ELSE outcome[t]
    BY <2>1 DEF StopTask, Drop, EndAs
  <2> QED  BY <2>2, <2>3 DEF KeepsStarts
<1>13. CASE ClearTasks
  <2>1. \A t \in Tasks : KeepsStarts(t)
    <3>1. Take("ClearTasks") /\ messages' = Tail(messages)  BY <1>13 DEF ClearTasks, EndAs
    <3> QED  BY <3>1, OtherMessage, StartsKept
  <2>2. /\ longTasks' = {} /\ lsttask_' = {} /\ lst_cmd_' = {}
        /\ \A t \in Tasks : outcome'[t] = IF t \in longTasks \cup lsttask_ \cup lst_cmd_
                                           THEN "cleared" ELSE outcome[t]
    BY <1>13 DEF ClearTasks, Drop, EndAs
  <2> QED  BY <2>1, <2>2 DEF KeepsStarts
<1>14. PICK Z \in SUBSET Tasks : Z = lsttask_  BY <1>1
<1>15. PICK q \in Seq(Msg) : q = messages  BY DEF TypeInv
<1>16. ASSUME NEW S \in SUBSET Tasks, S \subseteq lsttask_, NEW ok \in SUBSET Tasks, NEW r \in Seq(Msg),
              \A t \in Tasks : (Never(messages, t) => Never(r, t)) /\ (Once(messages, t) => Once(r, t)),
              Restart(S, ok, r),
              longTasks' = longTasks \ ok, lst_cmd_' = lst_cmd_ \ ok, ok \subseteq longTasks \cup lst_cmd_
       PROVE  PlaceInv'
  <2>1. Restarted(S, ok, r)  BY <1>16, RestartEffect
  <2> SUFFICES ASSUME NEW t \in Tasks  PROVE InOnePlace(t)'  OBVIOUS
  <2>2. InOnePlace(t)  OBVIOUS
  <2>3. CASE t \in S  BY <1>16, <2>1, <2>2, <2>3 DEF Restarted
  <2>4. CASE t \notin S  BY <1>16, <2>1, <2>2, <2>4 DEF Restarted
  <2> QED  BY <2>3, <2>4
<1>17. CASE LongConnected \/ OnNetworkChange
  <2>1. messages # <<>> /\ \A t : Head(messages) # On("StartTask", t)
    BY <1>17, OtherMessage DEF LongConnected, OnNetworkChange
  <2>2. PICK r : r = Tail(q)  OBVIOUS
  <2>3. r \in Seq(Msg) /\ \A t \in Tasks : (Never(q, t) => Never(r, t)) /\ (Once(q, t) => Once(r, t))
    BY <1>15, <2>1, <2>2, TakeMessage
  <2>4. Restart(Z, {}, r) /\ UNCHANGED <<longTasks, lst_cmd_>>
    BY <1>14, <1>15, <1>17, <2>2 DEF LongConnected, OnNetworkChange, shortVars
  <2> QED  BY <1>14, <1>15, <1>16, <2>3, <2>4
<1>18. CASE ZombieTimer
  <2>1. PICK S \in SUBSET Tasks : S \subseteq lsttask_ /\ Restart(S, {}, q)
    <3> DEFINE due == IF idleTime < RetryInterval THEN {} ELSE {t \in lsttask_ : age[t] >= RetryInterval}
               S == Expired \cup due
    <3>1. S \subseteq lsttask_  BY DEF Expired
    <3>2. Restart(S, {}, q)  BY <1>15, <1>18 DEF ZombieTimer
    <3>3. S \in SUBSET Tasks  BY <1>1, <3>1
    <3> HIDE DEF S
    <3> QED  BY <3>1, <3>2, <3>3
  <2>2. UNCHANGED <<longTasks, lst_cmd_>>  BY <1>18 DEF ZombieTimer, shortVars
  <2> QED  BY <1>15, <1>16, <2>1, <2>2
<1>19. ASSUME NEW fail \in SUBSET Tasks, NEW end \in SUBSET Tasks, CallBack(fail, end),
              fail \cup end \subseteq longTasks \cup lst_cmd_,
              longTasks' = longTasks \ (fail \cup end), lst_cmd_' = lst_cmd_ \ (fail \cup end),
              \A t \in Tasks : KeepsStarts(t)
       PROVE  PlaceInv'
  <2>1. PICK saved \in SUBSET fail :
            /\ lsttask_' = lsttask_ \cup saved
            /\ \A t \in Tasks :
                  outcome'[t] = IF t \in (fail \cup end) \ saved THEN "failed" ELSE outcome[t]
    BY <1>19, CallBackEffect
  <2> SUFFICES ASSUME NEW t \in Tasks  PROVE InOnePlace(t)'  OBVIOUS
  <2>2. InOnePlace(t) /\ KeepsStarts(t)  BY <1>19
  <2>3. CASE t \in saved  BY <1>19, <2>1, <2>2, <2>3 DEF KeepsStarts
  <2>4. CASE t \in (fail \cup end) \ saved  BY <1>19, <2>1, <2>2, <2>4 DEF KeepsStarts
  <2>5. CASE t \notin fail \cup end  BY <1>19, <2>1, <2>2, <2>5 DEF KeepsStarts
  <2> QED  BY <2>3, <2>4, <2>5
<1>20. \A t \in Tasks : t \in lst_cmd_ => t \notin longTasks  OBVIOUS
<1>21. ASSUME NEW fail \in SUBSET lst_cmd_, NEW end \in SUBSET lst_cmd_, CallBack(fail, end),
              lst_cmd_' = lst_cmd_ \ (fail \cup end), UNCHANGED longTasks, \A t \in Tasks : KeepsStarts(t)
       PROVE  PlaceInv'
  <2>1. fail \in SUBSET Tasks /\ end \in SUBSET Tasks  BY <1>1
  <2>2. longTasks' = longTasks \ (fail \cup end)  BY <1>1, <1>20, <1>21
  <2> QED  BY <1>19, <1>21, <2>1, <2>2
<1>22. ASSUME SessionTimeout, UNCHANGED longTasks, \A t \in Tasks : KeepsStarts(t)  PROVE PlaceInv'
  <2>1. PICK dead : dead = UsedUp(lst_cmd_)  OBVIOUS
  <2>2. dead \in SUBSET lst_cmd_ /\ {} \in SUBSET lst_cmd_  BY <2>1 DEF UsedUp
  <2>3. CallBack(dead, {}) /\ lst_cmd_' = lst_cmd_ \ dead
    BY <1>22, <2>1 DEF SessionTimeout, SingleResp
  <2> QED  BY <1>21, <1>22, <2>2, <2>3
<1>23. CASE LongSessionTimeout
  <2>1. UNCHANGED <<messages, longTasks>> /\ SessionTimeout  BY <1>23 DEF LongSessionTimeout
  <2> QED  BY <1>22, <2>1, StartsKept
<1>24. CASE \E t \in Tasks : OnError(t)
  <2>1. PICK u \in Tasks : OnError(u)  BY <1>24
  <2>2. Take("OnResponse") /\ messages' = Tail(messages) /\ UNCHANGED longTasks  BY <2>1 DEF OnError, TakeOf
  <2>3. \A t \in Tasks : KeepsStarts(t)  BY <2>2, OtherMessage, StartsKept
  <2>4. CASE u \in Running
    <3>1. PICK dead : dead = UsedUp({u})  OBVIOUS
    <3>2. dead \in SUBSET lst_cmd_ /\ {} \in SUBSET lst_cmd_  BY <2>4, <3>1 DEF UsedUp, Running
    <3>3. CallBack(dead, {}) /\ lst_cmd_' = lst_cmd_ \ dead
      BY <2>1, <2>4, <3>1 DEF OnError, Fail1, SingleResp
    <3> QED  BY <1>21, <2>2, <2>3, <3>2, <3>3
  <2>5. CASE u \notin Running
    <3>1. UNCHANGED Places5  BY <2>1, <2>5 DEF OnError, NoCallBack, Places5
    <3> QED  BY <1>2, <2>3, <3>1
  <2> QED  BY <2>4, <2>5
<1>25. CASE \E t \in Tasks, handle \in Handles : OnAnswer(t, handle)
  <2>1. PICK u \in Tasks, handle \in Handles : OnAnswer(u, handle)  BY <1>25
  <2>2. Take("OnResponse") /\ u \in lst_cmd_ /\ UNCHANGED longTasks
    BY <2>1 DEF OnAnswer, TakeOf, Running
  <2>3. CASE messages' = Tail(messages) /\ SessionTimeout
    <3>1. \A t \in Tasks : KeepsStarts(t)  BY <2>2, <2>3, OtherMessage, StartsKept
    <3> QED  BY <1>22, <2>2, <2>3, <3>1
  <2>4. CASE messages' = Tail(messages) /\ SingleResp({u}, {}) /\ CallBack({}, {u})
    <3>1. \A t \in Tasks : KeepsStarts(t)  BY <2>2, <2>4, OtherMessage, StartsKept
    <3>2. {u} \in SUBSET lst_cmd_ /\ {} \in SUBSET lst_cmd_  BY <2>2
    <3>3. lst_cmd_' = lst_cmd_ \ ({} \cup {u})  BY <2>4 DEF SingleResp
    <3> QED  BY <1>21, <2>2, <2>4, <3>1, <3>2, <3>3
  <2>5. CASE SingleResp({u}, {}) /\ Restart(lsttask_, {u}, Tail(messages))
    <3>1. messages # <<>> /\ \A t : Head(messages) # On("StartTask", t)  BY <2>2, OtherMessage
    <3>2. PICK r : r = Tail(q)  OBVIOUS
    <3>3. r \in Seq(Msg) /\ \A t \in Tasks : (Never(q, t) => Never(r, t)) /\ (Once(q, t) => Once(r, t))
      BY <1>15, <3>1, <3>2, TakeMessage
    <3>4. Restart(Z, {u}, r)  BY <1>14, <1>15, <2>5, <3>2
    <3>5. lst_cmd_' = lst_cmd_ \ {u}  BY <2>5 DEF SingleResp
    <3>6. longTasks' = longTasks \ {u} /\ {u} \subseteq longTasks \cup lst_cmd_  BY <1>20, <2>2
    <3> QED  BY <1>14, <1>15, <1>16, <3>3, <3>4, <3>5, <3>6
  <2> QED  BY <2>1, <2>3, <2>4, <2>5 DEF OnAnswer
<1>26. CASE \E t \in Tasks, how \in {"ok", "fail", "end"} : LongEnd(t, how)
  <2>1. PICK u \in Tasks, how \in {"ok", "fail", "end"} : LongEnd(u, how)  BY <1>26
  <2>2. u \in longTasks /\ longTasks' = longTasks \ {u} /\ UNCHANGED lst_cmd_
    BY <2>1 DEF LongEnd, shortVars
  <2>3. lst_cmd_' = lst_cmd_ \ {u} /\ {u} \subseteq longTasks \cup lst_cmd_  BY <1>20, <2>2
  <2>4. CASE Restart(lsttask_, {u}, messages)
    <3>1. Restart(Z, {u}, q)  BY <1>14, <1>15, <2>4
    <3> QED  BY <1>14, <1>15, <1>16, <2>2, <2>3, <3>1
  <2>5. CASE UNCHANGED messages /\ (CallBack({u}, {}) \/ CallBack({}, {u}))
    <3>1. \A t \in Tasks : KeepsStarts(t)  BY <2>5, StartsKept
    <3>2. PICK fail \in SUBSET Tasks, end \in SUBSET Tasks : CallBack(fail, end) /\ fail \cup end = {u}
      <4>1. {u} \in SUBSET Tasks /\ {} \in SUBSET Tasks  OBVIOUS
      <4>2. CASE CallBack({u}, {})  BY <4>1, <4>2
      <4>3. CASE CallBack({}, {u})  BY <4>1, <4>3
      <4> QED  BY <2>5, <4>2, <4>3
    <3> QED  BY <1>19, <2>2, <2>3, <3>1, <3>2
  <2> QED  BY <2>1, <2>4, <2>5 DEF LongEnd
<1>27. CASE \E late \in SUBSET Tasks : RunLoop(late)
  <2>1. PICK late \in SUBSET Tasks : RunLoop(late)  BY <1>27
  <2>2. UNCHANGED <<messages, longTasks>> /\ \A t \in Tasks : KeepsStarts(t)
    BY <2>1, StartsKept DEF RunLoop
  <2>3. CASE lst_cmd_ = {}
    <3>1. UNCHANGED Places5  BY <2>1, <2>3 DEF RunLoop, NoCallBack, Places5
    <3> QED  BY <1>2, <2>2, <3>1
  <2>4. CASE lst_cmd_ # {}
    <3>1. PICK dead : dead = OutOfTime \cup UsedUp(late)  OBVIOUS
    <3>2. late \subseteq lst_cmd_  BY <2>1 DEF RunLoop, Running
    <3>3. dead \in SUBSET lst_cmd_ /\ {} \in SUBSET lst_cmd_  BY <3>1, <3>2 DEF OutOfTime, UsedUp
    <3>4. CallBack(dead, {}) /\ lst_cmd_' = lst_cmd_ \ dead  BY <2>1, <2>4, <3>1 DEF RunLoop, SingleResp
    <3> QED  BY <1>21, <2>2, <3>3, <3>4
  <2> QED  BY <2>3, <2>4
<1>28. CASE \E passed, refused \in SUBSET Tasks, authed \in BOOLEAN : RunOnStartTask(passed, authed, refused)
  <2>1. PICK passed \in SUBSET Tasks, refused \in SUBSET Tasks, authed \in BOOLEAN :
             RunOnStartTask(passed, authed, refused)
    BY <1>28
  <2>2. /\ refused \subseteq lst_cmd_ /\ lst_cmd_' = lst_cmd_ \ refused
        /\ UNCHANGED <<messages, longTasks, lsttask_>>
        /\ \A t \in Tasks : outcome'[t] = IF t \in refused THEN "failed" ELSE outcome[t]
    BY <2>1 DEF RunOnStartTask, Startable, EndAs, zombieVars
  <2>3. \A t \in Tasks : KeepsStarts(t)  BY <2>2, StartsKept
  <2> QED  BY <2>2, <2>3 DEF KeepsStarts
<1>29. CASE \E t \in Tasks : (Break(t) \/ Destroy(t)) /\ Rest
  <2>1. PICK u \in Tasks : (Break(u) \/ Destroy(u)) /\ Rest  BY <1>29
  <2>2. UNCHANGED Places5  BY <2>1 DEF Break, Destroy, Rest, zombieVars, Places5
  <2>3. \A t \in Tasks : KeepsStarts(t)
    <3>1. CASE Break(u)  BY <3>1, StartsKept DEF Break
    <3>2. CASE Destroy(u)  BY <3>2, StartsKept
    <3> QED  BY <2>1, <3>1, <3>2
  <2> QED  BY <1>2, <2>2, <2>3
<1>30. CASE (\E t \in Tasks : Worker(t)) /\ Rest
  <2>1. PICK u \in Tasks : Worker(u)  BY <1>30
  <2>2. UNCHANGED Places5
    BY <1>30, <2>1 DEF Worker, Connected, ConnectFails, Cancelled, Respond, Received, Rest, zombieVars, Places5
  <2>3. \A t \in Tasks : KeepsStarts(t)
    <3>1. CASE UNCHANGED messages  BY <3>1, StartsKept
    <3>2. CASE Connected(u) \/ Respond(u)
      <4>1. PICK m \in Msg : messages' = Append(messages, m) /\ m.type # "StartTask"
        <5>1. CASE Connected(u)  BY <5>1, MessageShapes DEF Connected
        <5>2. CASE Respond(u)
          <6>1. PICK what \in {"ok", "error"} :
                   messages' = Append(messages, [type |-> "OnResponse", task |-> u, status |-> what])
            BY <5>2 DEF Respond
          <6>2. PICK m : m = [type |-> "OnResponse", task |-> u, status |-> what]  OBVIOUS
          <6> QED  BY <6>1, <6>2, MessageShapes
        <5> QED  BY <3>2, <5>1, <5>2
      <4>2. \A t : On("StartTask", t).type = "StartTask"  BY DEF On
      <4> QED  BY <4>1, <4>2, StartsKept
    <3> QED  BY <2>1, <3>1, <3>2 DEF Worker, ConnectFails, Cancelled, Received
  <2> QED  BY <1>2, <2>2, <2>3
<1>31. CASE UNCHANGED vars  BY <1>3, <1>31 DEF vars, Places5, shortVars, zombieVars
<1> QED
  BY <1>4, <1>5, <1>6, <1>7, <1>8, <1>9, <1>10, <1>11, <1>12, <1>13, <1>17, <1>18, <1>23, <1>24, <1>25, <1>26,
     <1>27, <1>28, <1>29, <1>30, <1>31 DEF Next, App, Message, LongLink, Handler
-----------------------------------------------------------------------------
(* What a step does to the zombie list, the time of tasks and the history  *)

(* The zombie list loses tasks, takes tasks of a callback, or is left.     *)
Leaves  == /\ lsttask_' \subseteq lsttask_
           /\ UNCHANGED zombieTimer \/ zombieTimer' = (lsttask_' # {})
           /\ UNCHANGED <<task, age>> \/ \E S \in SUBSET Tasks : Reckon(S)
Saves   == \E fail, end : CallBack(fail, end) /\ (fail \subseteq lst_cmd_ \/ \E u \in Tasks : fail \subseteq {u})
Passes  == /\ UNCHANGED <<lsttask_, zombieTimer, task>>
           /\ \E S \in SUBSET Tasks : age' = [t \in Tasks |-> IF t \in S THEN age[t] + 1 ELSE age[t]]

ZombieEffect == Leaves \/ Saves \/ Passes

LEMMA ZombieOfStep ==
  ASSUME TypeInv, [Next]_vars
  PROVE  ZombieEffect
<1> USE DEF ZombieEffect
<1>1. lsttask_ \subseteq Tasks  BY DEF TypeInv, TypeOK
<1>2. CASE UNCHANGED <<lsttask_, zombieTimer, task, age>>  BY <1>2 DEF Leaves
<1>3. CASE UNCHANGED vars  BY <1>2, <1>3 DEF vars, zombieVars
<1>4. CASE App
  BY <1>2, <1>4 DEF App, AppStart, AppStop, AppCall, LongConnects, LongBreaks, zombieVars
<1>5. CASE Tick
  <2>1. PICK S \in SUBSET Tasks : age' = [t \in Tasks |-> IF t \in S THEN age[t] + 1 ELSE age[t]]
    <3> DEFINE S == {t \in Tasks : t \in longTasks \cup lst_cmd_ \cup lsttask_
                                   /\ (age[t] < TaskTimeout(t) \/ age[t] < task[t].total_timetout)}
    <3>1. S \in SUBSET Tasks  OBVIOUS
    <3>2. \A t \in Tasks : t \in S <=> t \in longTasks \cup lst_cmd_ \cup lsttask_
                                   /\ (age[t] < TaskTimeout(t) \/ age[t] < task[t].total_timetout)
      OBVIOUS
    <3> HIDE DEF S
    <3>3. age' = [t \in Tasks |-> IF t \in S THEN age[t] + 1 ELSE age[t]]  BY <1>5, <3>2 DEF Tick
    <3> QED  BY <3>1, <3>3
  <2> QED  BY <1>5, <2>1 DEF Tick, Passes
<1>6. ASSUME NEW S \in SUBSET Tasks, NEW ok, NEW q, Restart(S, ok, q),
             UNCHANGED zombieTimer \/ zombieTimer' = (lsttask_' # {})
      PROVE  Leaves
  <2>1. lsttask_' = lsttask_ \ S  BY <1>6 DEF Restart
  <2>2. PICK U : U = S \ Expired  OBVIOUS
  <2>3. Reckon(U) /\ U \in SUBSET Tasks  BY <1>6, <2>2 DEF Restart
  <2> QED  BY <1>6, <2>1, <2>3 DEF Leaves
<1>7. PICK Z \in SUBSET Tasks : Z = lsttask_  BY <1>1
<1>8. CASE ZombieTimer
  <2>1. PICK S : S = Expired \cup (IF idleTime < RetryInterval THEN {} ELSE {t \in lsttask_ : age[t] >= RetryInterval})
    OBVIOUS
  <2>2. S \in SUBSET Tasks  BY <1>1, <2>1 DEF Expired
  <2>3. \E q : Restart(S, {}, q)  BY <1>8, <2>1 DEF ZombieTimer
  <2>4. zombieTimer' = (lsttask_' # {})  BY <1>8 DEF ZombieTimer
  <2> QED  BY <1>6, <2>2, <2>3, <2>4
<1>9. CASE LongConnected \/ OnNetworkChange
  <2>1. \E q : Restart(Z, {}, q)  BY <1>7, <1>9 DEF LongConnected, OnNetworkChange
  <2>2. UNCHANGED zombieTimer  BY <1>9 DEF LongConnected, OnNetworkChange
  <2> QED  BY <1>6, <2>1, <2>2
<1>10. CASE ClearTasks  BY <1>10 DEF ClearTasks, EndAs, Drop, Leaves
<1>11. CASE RedoTasks  BY <1>2, <1>11 DEF RedoTasks, zombieVars
<1>12. CASE \E t \in Tasks : Reject(t) \/ StartLong(t) \/ StartShort(t) \/ OnSend(t)
  BY <1>2, <1>12 DEF Reject, StartLong, StartShort, OnSend, EndAs, Enlist, zombieVars
<1>13. CASE \E t \in Tasks : StopTask(t)
  BY <1>13 DEF StopTask, EndAs, Drop, Leaves
<1>14. \A S \in SUBSET lst_cmd_ : UsedUp(S) \subseteq lst_cmd_  BY DEF UsedUp
<1>15. CASE SessionTimeout
  <2>1. PICK dead : dead = UsedUp(lst_cmd_)  OBVIOUS
  <2>2. CallBack(dead, {})  BY <1>15, <2>1 DEF SessionTimeout
  <2> QED  BY <1>14, <2>1, <2>2 DEF Saves
<1>16. CASE \E t \in Tasks : OnError(t)
  <2>1. PICK u \in Tasks : OnError(u)  BY <1>16
  <2>2. CASE u \in Running
    <3>1. PICK dead : dead = UsedUp({u})  OBVIOUS
    <3>2. CallBack(dead, {})  BY <2>1, <2>2, <3>1 DEF OnError, Fail1
    <3>3. dead \subseteq {u}  BY <3>1 DEF UsedUp
    <3> QED  BY <3>2, <3>3 DEF Saves
  <2>3. CASE u \notin Running  BY <1>2, <2>1, <2>3 DEF OnError, NoCallBack
  <2> QED  BY <2>2, <2>3
<1>17. CASE \E t \in Tasks, handle \in Handles : OnAnswer(t, handle)
  <2>1. PICK u \in Tasks, handle \in Handles : OnAnswer(u, handle)  BY <1>17
  <2>2. CASE CallBack({}, {u})  BY <2>2 DEF Saves
  <2>3. CASE Restart(Z, {u}, Tail(messages)) /\ UNCHANGED zombieTimer
    <3>1. PICK ok, q : ok = {u} /\ q = Tail(messages)  OBVIOUS
    <3>2. Restart(Z, ok, q)  BY <2>3, <3>1
    <3> QED  BY <1>6, <2>3, <3>2
  <2> QED  BY <1>7, <1>15, <2>1, <2>2, <2>3 DEF OnAnswer
<1>18. CASE \E t \in Tasks, how \in {"ok", "fail", "end"} : LongEnd(t, how)
  <2>1. PICK u \in Tasks, how \in {"ok", "fail", "end"} : LongEnd(u, how)  BY <1>18
  <2>2. CASE CallBack({}, {u})  BY <2>2 DEF Saves
  <2>3. CASE CallBack({u}, {})
    <3>1. {u} \subseteq {u}  OBVIOUS
    <3> QED  BY <2>3, <3>1 DEF Saves
  <2>4. CASE Restart(Z, {u}, messages) /\ UNCHANGED zombieTimer
    <3>1. PICK ok, q : ok = {u} /\ q = messages  OBVIOUS
    <3>2. Restart(Z, ok, q)  BY <2>4, <3>1
    <3> QED  BY <1>6, <2>4, <3>2
  <2> QED  BY <1>7, <2>1, <2>2, <2>3, <2>4 DEF LongEnd
<1>19. CASE LongSessionTimeout  BY <1>15, <1>19 DEF LongSessionTimeout
<1>20. CASE \E late \in SUBSET Tasks : RunLoop(late)
  <2>1. PICK late \in SUBSET Tasks : RunLoop(late)  BY <1>20
  <2>2. CASE lst_cmd_ = {}  BY <1>2, <2>1, <2>2 DEF RunLoop, NoCallBack
  <2>3. CASE lst_cmd_ # {}
    <3>1. PICK dead : dead = OutOfTime \cup UsedUp(late)  OBVIOUS
    <3>2. late \in SUBSET lst_cmd_  BY <2>1 DEF RunLoop, Running
    <3>3. dead \subseteq lst_cmd_  BY <1>14, <3>1, <3>2 DEF OutOfTime
    <3>4. CallBack(dead, {})  BY <2>1, <2>3, <3>1 DEF RunLoop
    <3> QED  BY <3>3, <3>4 DEF Saves
  <2> QED  BY <2>2, <2>3
<1>21. CASE \E passed, refused \in SUBSET Tasks, authed \in BOOLEAN : RunOnStartTask(passed, authed, refused)
  <2>1. PICK passed, refused, authed : RunOnStartTask(passed, authed, refused)  BY <1>21
  <2> QED  BY <1>2, <2>1 DEF RunOnStartTask, EndAs, zombieVars
<1>22. CASE \E t \in Tasks : (Break(t) \/ Destroy(t)) /\ Rest
  BY <1>2, <1>22 DEF Break, Destroy, Rest, zombieVars
<1>23. CASE \E t \in Tasks : Worker(t) /\ Rest
  <2>1. PICK t \in Tasks : Worker(t) /\ Rest  BY <1>23
  <2>2. UNCHANGED <<task, age>>  BY <2>1 DEF Worker, Connected, ConnectFails, Cancelled, Respond, Received
  <2> QED  BY <1>2, <2>1, <2>2 DEF Rest, zombieVars
<1>24. CASE ShortTimer  BY <1>2, <1>24 DEF ShortTimer, zombieVars
<1> QED
  BY <1>3, <1>4, <1>5, <1>8, <1>9, <1>10, <1>11, <1>12, <1>13, <1>16, <1>17, <1>18, <1>19, <1>20, <1>21, <1>22,
     <1>23, <1>24 DEF Next, Message, LongLink, Handler

(* What a task may still take, and whom the zombie list has.               *)
ZombieTypes ==
  /\ lsttask_ \subseteq Tasks /\ IsFiniteSet(lsttask_) /\ zombieTimer \in BOOLEAN
  /\ \A t \in Tasks : task[t].retry_count \in 0..RetryCount /\ task[t].total_timetout \in 0..TotalTimeout[t]
  /\ age \in [Tasks -> Nat]

LEMMA ZombieStep ==
  ASSUME TypeInv, lsttask_ # {} => zombieTimer, ZombieEffect
  PROVE  ZombieTypes' /\ (lsttask_' # {} => zombieTimer')
<1>1. ZombieTypes /\ lst_cmd_ \subseteq Tasks /\ IsFiniteSet(lst_cmd_)
  BY DEF TypeInv, TypeOK, ZombieTypes
<1>2. ASSUME NEW S, Reckon(S)
      PROVE  /\ \A t \in Tasks : /\ task'[t].retry_count \in 0..RetryCount
                                 /\ task'[t].total_timetout \in 0..TotalTimeout[t]
             /\ age' \in [Tasks -> Nat]
  <2>1. \A t \in Tasks : Left(t) \in 0..TotalTimeout[t]
    <3> SUFFICES ASSUME NEW t \in Tasks  PROVE Left(t) \in 0..TotalTimeout[t]  OBVIOUS
    <3>1. PICK n \in Nat : n = age[t]  BY <1>1 DEF ZombieTypes
    <3>2. PICK m \in Nat : m = TotalTimeout[t]  BY ShortLinkAssumption
    <3>3. PICK k \in 0..m : k = task[t].total_timetout  BY <1>1, <3>2 DEF ZombieTypes
    <3>4. Left(t) = IF k > n THEN k - n ELSE 0  BY <3>1, <3>3 DEF Left
    <3> QED  BY <3>2, <3>4
  <2>2. 0 \in 0..RetryCount  BY ShortLinkAssumption
  <2>3. \A t \in Tasks : task'[t] = IF t \in S THEN [retry_count |-> 0, total_timetout |-> Left(t)] ELSE task[t]
    BY <1>2 DEF Reckon
  <2>4. ASSUME NEW t \in Tasks
        PROVE  task'[t].retry_count \in 0..RetryCount /\ task'[t].total_timetout \in 0..TotalTimeout[t]
    <3>1. CASE t \in S
      <4>1. PICK n : n = Left(t)  OBVIOUS
      <4>2. task'[t] = [retry_count |-> 0, total_timetout |-> n]  BY <2>3, <3>1, <4>1
      <4>3. task'[t].retry_count = 0 /\ task'[t].total_timetout = n  BY <4>2
      <4> QED  BY <2>1, <2>2, <4>1, <4>3
    <3>2. CASE t \notin S
      <4>1. task'[t] = task[t]  BY <2>3, <3>2
      <4> QED  BY <1>1, <4>1 DEF ZombieTypes
    <3> QED  BY <3>1, <3>2
  <2>5. age' \in [Tasks -> Nat]  BY <1>1, <1>2 DEF Reckon, ZombieTypes
  <2> QED  BY <2>4, <2>5
<1>3. CASE Leaves
  <2>1. lsttask_' \subseteq Tasks /\ IsFiniteSet(lsttask_')
    BY <1>1, <1>3, FS_Subset DEF Leaves, ZombieTypes
  <2>2. zombieTimer' \in BOOLEAN /\ (lsttask_' # {} => zombieTimer')
    <3>1. CASE UNCHANGED zombieTimer  BY <1>1, <1>3, <3>1 DEF Leaves, ZombieTypes
    <3>2. CASE zombieTimer' = (lsttask_' # {})
      <4>1. (lsttask_' # {}) \in BOOLEAN  OBVIOUS
      <4> QED  BY <3>2, <4>1
    <3> QED  BY <1>3, <3>1, <3>2 DEF Leaves
  <2>3. /\ \A t \in Tasks : /\ task'[t].retry_count \in 0..RetryCount
                            /\ task'[t].total_timetout \in 0..TotalTimeout[t]
        /\ age' \in [Tasks -> Nat]
    <3>1. CASE UNCHANGED <<task, age>>  BY <1>1, <3>1 DEF ZombieTypes
    <3> QED  BY <1>2, <1>3, <3>1 DEF Leaves
  <2> QED  BY <2>1, <2>2, <2>3 DEF ZombieTypes
<1>4. CASE Saves
  <2>1. PICK fail, end : CallBack(fail, end) /\ (fail \subseteq lst_cmd_ \/ \E u \in Tasks : fail \subseteq {u})
    BY <1>4 DEF Saves
  <2>2. PICK saved \in SUBSET fail :
            lsttask_' = lsttask_ \cup saved /\ Reckon(saved) /\ zombieTimer' = (zombieTimer \/ saved # {})
    BY <2>1, CallBackEffect
  <2>3. saved \subseteq Tasks /\ IsFiniteSet(saved)
    <3>1. CASE fail \subseteq lst_cmd_  BY <1>1, <2>2, <3>1, FS_Subset
    <3>2. CASE \E u \in Tasks : fail \subseteq {u}
      <4>1. PICK u \in Tasks : saved \subseteq {u}  BY <2>2, <3>2
      <4>2. IsFiniteSet({u})  BY FS_Singleton
      <4> QED  BY <4>1, <4>2, FS_Subset
    <3> QED  BY <2>1, <3>1, <3>2
  <2>4. lsttask_' \subseteq Tasks /\ IsFiniteSet(lsttask_')
    BY <1>1, <2>2, <2>3, FS_Union DEF ZombieTypes
  <2>5. zombieTimer' \in BOOLEAN /\ (lsttask_' # {} => zombieTimer')  BY <1>1, <2>2 DEF ZombieTypes
  <2>6. /\ \A t \in Tasks : /\ task'[t].retry_count \in 0..RetryCount
                            /\ task'[t].total_timetout \in 0..TotalTimeout[t]
        /\ age' \in [Tasks -> Nat]
    BY <1>2, <2>2
  <2> QED  BY <2>4, <2>5, <2>6 DEF ZombieTypes
<1>5. CASE Passes
  <2>1. age' \in [Tasks -> Nat]  BY <1>1, <1>5 DEF Passes, ZombieTypes
  <2> QED  BY <1>1, <1>5, <2>1 DEF Passes, ZombieTypes
<1> QED  BY <1>3, <1>4, <1>5 DEF ZombieEffect

(* What is left of the types, and the timer of the short links.            *)
OtherTypes ==
  /\ longTasks \subseteq Tasks /\ after \in {"none", "loop", "start"}
  /\ shortTimer \in BOOLEAN /\ connected \in BOOLEAN
  /\ idleTime \in 0..RetryInterval
  /\ calls \in 0..MaxCalls /\ connects \in 0..MaxConnects /\ stopped \subseteq Tasks

ShortTimed == after = "none" /\ lst_cmd_ # {} => shortTimer

LEMMA OtherStep ==
  ASSUME TypeInv, ShortTimed, [Next]_vars
  PROVE  OtherTypes' /\ ShortTimed'
<1> USE NetCoreAssumption
<1>1. OtherTypes  BY DEF TypeInv, TypeOK, OtherTypes
<1>2. 0 \in 0..RetryInterval  OBVIOUS
<1>3. CASE UNCHANGED vars  BY <1>1, <1>3 DEF vars, shortVars, zombieVars, appVars, OtherTypes, ShortTimed
<1>4. CASE App
  <2>1. CASE \E t \in Tasks : AppStart(t) \/ AppStop(t)
    BY <1>1, <2>1 DEF AppStart, AppStop, shortVars, zombieVars, appVars, OtherTypes, ShortTimed
  <2>2. CASE LongConnects
    BY <1>1, <2>2 DEF LongConnects, shortVars, zombieVars, OtherTypes, ShortTimed
  <2>3. CASE LongBreaks
    BY <1>1, <2>3 DEF LongBreaks, shortVars, zombieVars, appVars, OtherTypes, ShortTimed
  <2>4. CASE \E c \in Calls : AppCall(c)
    BY <1>1, <2>4 DEF AppCall, shortVars, zombieVars, OtherTypes, ShortTimed
  <2> QED  BY <1>4, <2>1, <2>2, <2>3, <2>4 DEF App
<1>5. CASE Tick
  BY <1>1, <1>5 DEF Tick, shortVars, appVars, OtherTypes, ShortTimed
<1>6. CASE ShortTimer
  BY <1>1, <1>6 DEF ShortTimer, zombieVars, appVars, OtherTypes, ShortTimed
<1>7. CASE ZombieTimer \/ LongConnected
  BY <1>1, <1>7 DEF ZombieTimer, LongConnected, Restart, Reckon, EndAs, shortVars, appVars, OtherTypes, ShortTimed
<1>8. CASE \E t \in Tasks : Reject(t) \/ StartLong(t)
  BY <1>1, <1>2, <1>8 DEF Reject, StartLong, EndAs, shortVars, zombieVars, appVars, OtherTypes, ShortTimed
<1>9. CASE \E t \in Tasks : StartShort(t) \/ StopTask(t)
  BY <1>1, <1>2, <1>9 DEF StartShort, StopTask, Enlist, Drop, EndAs, appVars, OtherTypes, ShortTimed
<1>10. CASE ClearTasks
  BY <1>1, <1>10 DEF ClearTasks, Drop, EndAs, appVars, OtherTypes, ShortTimed
<1>11. CASE RedoTasks \/ OnNetworkChange
  BY <1>1, <1>11 DEF RedoTasks, OnNetworkChange, RedoShort, Restart, Reckon, EndAs, zombieVars, appVars, OtherTypes,
                     ShortTimed
<1>12. CASE \E t \in Tasks : OnSend(t)
  BY <1>1, <1>12 DEF OnSend, zombieVars, appVars, OtherTypes, ShortTimed
<1>13. CASE \E t \in Tasks : OnError(t)
  BY <1>1, <1>13 DEF OnError, Fail1, SingleResp, CallBack, Reckon, EndAs, appVars, OtherTypes, ShortTimed
<1>14. CASE \E t \in Tasks, handle \in Handles : OnAnswer(t, handle)
  <2>1. PICK t \in Tasks, handle \in Handles : OnAnswer(t, handle)  BY <1>14
  <2>2. after' = "loop" \/ (lst_cmd_' \subseteq lst_cmd_ /\ UNCHANGED after)
    <3>1. (SingleResp({t}, {}) /\ UNCHANGED after) \/ SessionTimeout  BY <2>1 DEF OnAnswer
    <3>2. CASE SingleResp({t}, {}) /\ UNCHANGED after  BY <3>2 DEF SingleResp
    <3>3. CASE SessionTimeout  BY <3>3 DEF SessionTimeout
    <3> QED  BY <3>1, <3>2, <3>3
  <2>3. UNCHANGED <<shortTimer, longTasks, connected, idleTime, appVars>>  BY <2>1 DEF OnAnswer
  <2> QED  BY <1>1, <2>2, <2>3 DEF appVars, OtherTypes, ShortTimed
<1>15. CASE \E t \in Tasks, how \in {"ok", "fail", "end"} : LongEnd(t, how)
  BY <1>1, <1>15 DEF LongEnd, CallBack, Restart, Reckon, EndAs, shortVars, appVars, OtherTypes, ShortTimed
<1>16. CASE LongSessionTimeout
  BY <1>1, <1>16 DEF LongSessionTimeout, SessionTimeout, SingleResp, CallBack, Reckon, EndAs, appVars, OtherTypes,
                     ShortTimed
<1>17. CASE \E late \in SUBSET Tasks : RunLoop(late)
  <2>1. PICK late : RunLoop(late)  BY <1>17
  <2>2. after' = "start" \/ (after' = "none" /\ lst_cmd_' = {})
    <3>1. CASE lst_cmd_ = {}  BY <2>1, <3>1 DEF RunLoop
    <3>2. CASE lst_cmd_ # {}  BY <2>1, <3>2 DEF RunLoop
    <3> QED  BY <3>1, <3>2
  <2>3. UNCHANGED <<shortTimer, longTasks, connected, idleTime, appVars>>  BY <2>1 DEF RunLoop
  <2> QED  BY <1>1, <2>2, <2>3 DEF appVars, OtherTypes, ShortTimed
<1>18. CASE \E passed, refused \in SUBSET Tasks, authed \in BOOLEAN : RunOnStartTask(passed, authed, refused)
  <2>1. PICK passed, refused, authed : RunOnStartTask(passed, authed, refused)  BY <1>18
  <2>2. after' = "none" /\ shortTimer' = (shortTimer \/ lst_cmd_' # {})  BY <2>1 DEF RunOnStartTask, EndAs, StartWorkers
  <2>3. shortTimer' \in BOOLEAN /\ ShortTimed'  BY <1>1, <2>2 DEF OtherTypes, ShortTimed
  <2>4. UNCHANGED <<longTasks, connected, idleTime, appVars>>
    BY <2>1 DEF RunOnStartTask, EndAs, StartWorkers, zombieVars
  <2> QED  BY <1>1, <2>2, <2>3, <2>4 DEF appVars, OtherTypes
<1>19. CASE \E t \in Tasks : (Break(t) \/ Destroy(t)) /\ Rest
  BY <1>1, <1>19 DEF Break, Destroy, Rest, zombieVars, appVars, OtherTypes, ShortTimed
<1>20. CASE \E t \in Tasks : Worker(t) /\ Rest
  <2>1. PICK t \in Tasks : Worker(t) /\ Rest  BY <1>20
  <2>2. UNCHANGED <<lst_cmd_, after, shortTimer>>
    BY <2>1 DEF Worker, Connected, ConnectFails, Cancelled, Respond, Received
  <2> QED  BY <1>1, <2>1, <2>2 DEF Rest, zombieVars, appVars, OtherTypes, ShortTimed
<1> QED
  BY <1>3, <1>4, <1>5, <1>6, <1>7, <1>8, <1>9, <1>10, <1>11, <1>12, <1>13, <1>14, <1>15, <1>16, <1>17, <1>18, <1>19,
     <1>20 DEF Next, Message, LongLink, Handler
-----------------------------------------------------------------------------
(* How a task moves                                                        *)

Outcomes == {"new", "posted", "pending", "ok", "failed", "stopped", "cleared"}

(* t is left, posted, taken, tried once more, or ends; it ends well only   *)
(* when it was tried.                                                      *)
MovesTo(t) ==
  \/ outcome'[t] = outcome[t] /\ tries'[t] = tries[t]
  \/ outcome[t] = "new" /\ outcome'[t] = "posted" /\ tries'[t] = tries[t]
  \/ Live(t) /\ outcome'[t] = "pending" /\ tries'[t] = tries[t]
  \/ Live(t) /\ outcome'[t] = outcome[t] /\ tries'[t] = tries[t] + 1
  \/ /\ Live(t) /\ outcome'[t] \in Outcomes \ {"new", "posted", "pending"}
     /\ tries'[t] \in {tries[t], tries[t] + 1}
     /\ outcome'[t] = "ok" => tries'[t] > 0

Moves == /\ outcome' = [t \in Tasks |-> outcome'[t]] /\ tries' = [t \in Tasks |-> tries'[t]]
         /\ \A t \in Tasks : MovesTo(t)

LEMMA MoveStep ==
  ASSUME NetInv, [Next]_vars
  PROVE  Moves
<1>1. /\ outcome \in [Tasks -> Outcomes] /\ tries \in [Tasks -> Nat] /\ TypeInv /\ PlaceInv
      /\ longTasks \subseteq Tasks /\ lst_cmd_ \subseteq Tasks /\ lsttask_ \subseteq Tasks
  BY DEF NetInv, TypeInv, TypeOK, Outcomes
<1>2. \A t \in Tasks : t \in longTasks \cup lst_cmd_ \cup lsttask_ => Live(t)
  BY DEF NetInv, PlaceInv, InOnePlace, Nowhere, InQueue, InLong, InShort, InZombie
<1>3. \A t \in Running : tries[t] > 0
  BY <1>1 DEF NetInv, WorkerInv, Owned, TriesInv, Running
<1>4. CASE UNCHANGED <<outcome, tries>>  BY <1>1, <1>4 DEF Moves, MovesTo
<1>5. CASE UNCHANGED vars  BY <1>4, <1>5 DEF vars
<1>6. CASE \E t \in Tasks : AppStart(t)
  <2>1. PICK u \in Tasks : AppStart(u)  BY <1>6
  <2>2. UNCHANGED tries /\ outcome[u] = "new" /\ outcome' = [outcome EXCEPT ![u] = "posted"]
    BY <2>1 DEF AppStart
  <2> QED  BY <1>1, <2>2 DEF Moves, MovesTo
<1>7. CASE (\E t \in Tasks : AppStop(t)) \/ (\E type \in Calls : AppCall(type)) \/ LongConnects \/ LongBreaks
  BY <1>4, <1>7 DEF AppStop, AppCall, LongConnects, LongBreaks
<1>8. CASE Tick \/ ShortTimer \/ RedoTasks  BY <1>4, <1>8 DEF Tick, ShortTimer, RedoTasks
<1>9. CASE \E t \in Tasks : OnSend(t) \/ ((Break(t) \/ Destroy(t)) /\ Rest)
  BY <1>4, <1>9 DEF OnSend, Break, Destroy, Rest
<1>10. CASE \E t \in Tasks : Worker(t) /\ Rest
  <2>1. PICK t \in Tasks : Worker(t) /\ Rest  BY <1>10
  <2>2. UNCHANGED tries  BY <2>1 DEF Worker, Connected, ConnectFails, Cancelled, Respond, Received
  <2> QED  BY <1>4, <2>1, <2>2 DEF Rest
(* Tasks that live end in one way, or are taken.                           *)
<1>11. ASSUME NEW S \in SUBSET Tasks, NEW how \in {"pending", "failed", "stopped", "cleared"},
              \A t \in S : Live(t), outcome' = [t \in Tasks |-> IF t \in S THEN how ELSE outcome[t]],
              UNCHANGED tries
       PROVE  Moves
  <2>1. \A t \in Tasks : outcome'[t] = IF t \in S THEN how ELSE outcome[t]  BY <1>11
  <2>2. outcome' = [t \in Tasks |-> outcome'[t]] /\ tries' = [t \in Tasks |-> tries'[t]]  BY <1>1, <1>11, <2>1
  <2>3. ASSUME NEW t \in Tasks  PROVE MovesTo(t)
    <3>1. CASE t \in S  BY <1>11, <2>1, <3>1 DEF MovesTo, Outcomes
    <3>2. CASE t \notin S  BY <1>11, <2>1, <3>2 DEF MovesTo
    <3> QED  BY <3>1, <3>2
  <2> QED  BY <2>2, <2>3 DEF Moves
<1>12. \A t \in Tasks : TakeOf("StartTask", t) => Live(t)  BY <1>1, Arrives DEF InQueue
<1>13. CASE \E t \in Tasks : Reject(t) \/ StartLong(t) \/ StartShort(t)
  <2>1. PICK u \in Tasks : Reject(u) \/ StartLong(u) \/ StartShort(u)  BY <1>13
  <2>2. PICK S \in SUBSET Tasks : S = {u}  OBVIOUS
  <2>3. PICK how \in {"failed", "pending"} :
             outcome' = [t \in Tasks |-> IF t \in S THEN how ELSE outcome[t]] /\ UNCHANGED tries
    <3>1. CASE Reject(u)  BY <2>2, <3>1 DEF Reject, EndAs
    <3>2. CASE StartLong(u) \/ StartShort(u)  BY <2>2, <3>2 DEF StartLong, StartShort, Enlist, EndAs
    <3> QED  BY <2>1, <3>1, <3>2
  <2>4. TakeOf("StartTask", u)  BY <2>1 DEF Reject, StartLong, StartShort, Enlist, EndAs
  <2>5. \A t \in S : Live(t)  BY <1>12, <2>2, <2>4
  <2> QED  BY <1>11, <2>3, <2>5
<1>14. CASE (\E t \in Tasks : StopTask(t)) \/ ClearTasks
  <2>1. PICK S \in SUBSET Tasks, how \in {"stopped", "cleared"} :
             /\ S \subseteq longTasks \cup lst_cmd_ \cup lsttask_
             /\ outcome' = [t \in Tasks |-> IF t \in S THEN how ELSE outcome[t]] /\ UNCHANGED tries
    <3>1. CASE \E t \in Tasks : StopTask(t)
      <4>1. PICK u \in Tasks : StopTask(u)  BY <3>1
      <4>2. PICK S : S = {u} \cap (longTasks \cup lsttask_ \cup lst_cmd_)  OBVIOUS
      <4>3. outcome' = [t \in Tasks |-> IF t \in S THEN "stopped" ELSE outcome[t]] /\ UNCHANGED tries
        BY <4>1, <4>2 DEF StopTask, EndAs, Drop
      <4> QED  BY <1>1, <4>2, <4>3
    <3>2. CASE ClearTasks
      <4>1. PICK S : S = longTasks \cup lsttask_ \cup lst_cmd_  OBVIOUS
      <4>2. outcome' = [t \in Tasks |-> IF t \in S THEN "cleared" ELSE outcome[t]] /\ UNCHANGED tries
        BY <3>2, <4>1 DEF ClearTasks, EndAs, Drop
      <4> QED  BY <1>1, <4>1, <4>2
    <3> QED  BY <1>14, <3>1, <3>2
  <2> QED  BY <1>2, <1>11, <2>1
<1>15. ASSUME NEW fail, NEW end, CallBack(fail, end), UNCHANGED tries, fail \cup end \subseteq longTasks \cup lst_cmd_
       PROVE  Moves
  <2>1. PICK S : S = (fail \cup end) \ Savable(fail)  OBVIOUS
  <2>2. outcome' = [t \in Tasks |-> IF t \in S THEN "failed" ELSE outcome[t]]
    BY <1>15, <2>1 DEF CallBack, EndAs
  <2>3. S \in SUBSET Tasks /\ \A t \in S : Live(t)  BY <1>1, <1>2, <1>15, <2>1
  <2> QED  BY <1>11, <1>15, <2>2, <2>3
<1>16. CASE SessionTimeout /\ UNCHANGED tries
  <2>1. PICK dead : dead = UsedUp(lst_cmd_)  OBVIOUS
  <2>2. CallBack(dead, {})  BY <1>16, <2>1 DEF SessionTimeout
  <2>3. dead \subseteq lst_cmd_  BY <2>1 DEF UsedUp
  <2>4. PICK none : none = {}  OBVIOUS
  <2> QED  BY <1>15, <1>16, <2>2, <2>3, <2>4
<1>17. CASE \E t \in Tasks : OnError(t)
  <2>1. PICK u \in Tasks : OnError(u)  BY <1>17
  <2>2. CASE u \in Running
    <3>1. PICK dead, none : dead = UsedUp({u}) /\ none = {}  OBVIOUS
    <3>2. CallBack(dead, none)  BY <2>1, <2>2, <3>1 DEF OnError, Fail1
    <3>3. dead \cup none \subseteq lst_cmd_ /\ UNCHANGED tries  BY <2>1, <2>2, <3>1 DEF OnError, UsedUp, Running
    <3> QED  BY <1>15, <3>2, <3>3
  <2>3. CASE u \notin Running  BY <1>4, <2>1, <2>3 DEF OnError, NoCallBack
  <2> QED  BY <2>2, <2>3
(* Zombies are posted again or end; u, who has been tried, ends well.      *)
<1>18. ASSUME NEW S, S \subseteq lsttask_, NEW ok \in SUBSET (longTasks \cup lst_cmd_), NEW q, Restart(S, ok, q),
              tries' = [t \in Tasks |-> tries'[t]],
              \A t \in Tasks : \/ t \notin ok /\ tries'[t] = tries[t]
                               \/ t \in ok /\ tries'[t] \in {tries[t], tries[t] + 1} /\ tries'[t] > 0
       PROVE  Moves
  <2>1. outcome' = [t \in Tasks |-> IF t \in S \cap Expired THEN "failed" ELSE IF t \in ok THEN "ok" ELSE outcome[t]]
    BY <1>18 DEF Restart, EndAs
  <2>2. outcome' = [t \in Tasks |-> outcome'[t]]  BY <2>1
  <2>3. ASSUME NEW t \in Tasks  PROVE MovesTo(t)
    <3>1. CASE t \in S \cap Expired
      <4>1. outcome'[t] = "failed" /\ Live(t)  BY <1>2, <1>18, <2>1, <3>1
      <4> QED  BY <1>18, <4>1 DEF MovesTo, Outcomes
    <3>2. CASE t \notin S \cap Expired /\ t \in ok
      <4>1. outcome'[t] = "ok" /\ Live(t)  BY <1>2, <1>18, <2>1, <3>2
      <4> QED  BY <1>18, <3>2, <4>1 DEF MovesTo, Outcomes
    <3>3. CASE t \notin S \cap Expired /\ t \notin ok
      <4>1. outcome'[t] = outcome[t]  BY <2>1, <3>3
      <4> QED  BY <1>18, <3>3, <4>1 DEF MovesTo
    <3> QED  BY <3>1, <3>2, <3>3
  <2> QED  BY <1>18, <2>2, <2>3 DEF Moves
<1>19. PICK Z : Z = lsttask_  OBVIOUS
<1>20. ASSUME NEW S, S \subseteq lsttask_, NEW q, Restart(S, {}, q), UNCHANGED tries  PROVE Moves
  <2>1. PICK none : none = {}  OBVIOUS
  <2>2. /\ none \in SUBSET (longTasks \cup lst_cmd_) /\ tries' = [t \in Tasks |-> tries'[t]]
        /\ \A t \in Tasks : t \notin none /\ tries'[t] = tries[t]
    BY <1>1, <1>20, <2>1
  <2>3. Restart(S, none, q)  BY <1>20, <2>1
  <2> QED  BY <1>18, <1>20, <2>2, <2>3
<1>21. CASE LongConnected \/ OnNetworkChange
  <2>1. PICK q : q = Tail(messages)  OBVIOUS
  <2>2. Restart(Z, {}, q) /\ UNCHANGED tries  BY <1>19, <1>21, <2>1 DEF LongConnected, OnNetworkChange
  <2> QED  BY <1>19, <1>20, <2>2
<1>22. CASE ZombieTimer
  <2>1. PICK S : S = Expired \cup (IF idleTime < RetryInterval THEN {} ELSE {t \in lsttask_ : age[t] >= RetryInterval})
    OBVIOUS
  <2>2. S \subseteq lsttask_  BY <2>1 DEF Expired
  <2>3. PICK q : q = messages  OBVIOUS
  <2>4. Restart(S, {}, q) /\ UNCHANGED tries  BY <1>22, <2>1, <2>3 DEF ZombieTimer
  <2> QED  BY <1>20, <2>2, <2>4
<1>23. CASE \E t \in Tasks, handle \in Handles : OnAnswer(t, handle)
  <2>1. PICK u \in Tasks, handle \in Handles : OnAnswer(u, handle)  BY <1>23
  <2>2. UNCHANGED tries /\ u \in Running /\ u \in lst_cmd_  BY <2>1 DEF OnAnswer, Running
  <2>3. PICK q, none, one : q = Tail(messages) /\ none = {} /\ one = {u}  OBVIOUS
  <2>4. CASE SessionTimeout  BY <1>16, <2>2, <2>4
  <2>5. CASE CallBack(none, one)  BY <1>15, <2>2, <2>3, <2>5
  <2>6. CASE Restart(Z, one, q)
    <3>1. /\ one \in SUBSET (longTasks \cup lst_cmd_) /\ tries' = [t \in Tasks |-> tries'[t]]
          /\ \A t \in Tasks : \/ t \notin one /\ tries'[t] = tries[t]
                              \/ t \in one /\ tries'[t] \in {tries[t], tries[t] + 1} /\ tries'[t] > 0
      BY <1>1, <1>3, <2>2, <2>3
    <3> QED  BY <1>18, <1>19, <2>6, <3>1
  <2> QED  BY <1>19, <2>1, <2>3, <2>4, <2>5, <2>6 DEF OnAnswer
<1>24. CASE \E t \in Tasks, how \in {"ok", "fail", "end"} : LongEnd(t, how)
  <2>1. PICK u \in Tasks, how \in {"ok", "fail", "end"} : LongEnd(u, how)  BY <1>24
  <2>2. u \in longTasks  BY <2>1 DEF LongEnd
  <2>3. PICK q, none, one : q = messages /\ none = {} /\ one = {u}  OBVIOUS
  <2>4. CASE UNCHANGED tries /\ (CallBack(none, one) \/ CallBack(one, none))
    BY <1>15, <2>2, <2>3, <2>4
  <2>5. CASE Restart(Z, one, q) /\ tries' = [tries EXCEPT ![u] = @ + 1]
    <3>1. /\ one \in SUBSET (longTasks \cup lst_cmd_) /\ tries' = [t \in Tasks |-> tries'[t]]
          /\ \A t \in Tasks : \/ t \notin one /\ tries'[t] = tries[t]
                              \/ t \in one /\ tries'[t] \in {tries[t], tries[t] + 1} /\ tries'[t] > 0
      <4>1. \A t \in Tasks : tries[t] \in Nat /\ tries'[t] = IF t \in one THEN tries[t] + 1 ELSE tries[t]
        BY <1>1, <2>3, <2>5
      <4>2. tries' = [t \in Tasks |-> tries'[t]]  BY <1>1, <2>5
      <4>3. one \in SUBSET (longTasks \cup lst_cmd_)  BY <2>2, <2>3
      <4> QED  BY <4>1, <4>2, <4>3
    <3> QED  BY <1>18, <1>19, <2>5, <3>1
  <2> QED  BY <1>19, <2>1, <2>3, <2>4, <2>5 DEF LongEnd
<1>25. CASE LongSessionTimeout  BY <1>16, <1>25 DEF LongSessionTimeout
<1>26. CASE \E late \in SUBSET Tasks : RunLoop(late)
  <2>1. PICK late : RunLoop(late)  BY <1>26
  <2>2. UNCHANGED tries  BY <2>1 DEF RunLoop
  <2>3. CASE lst_cmd_ = {}  BY <1>4, <2>1, <2>2, <2>3 DEF RunLoop, NoCallBack
  <2>4. CASE lst_cmd_ # {}
    <3>1. PICK dead, none : dead = OutOfTime \cup UsedUp(late) /\ none = {}  OBVIOUS
    <3>2. CallBack(dead, none)  BY <2>1, <2>4, <3>1 DEF RunLoop
    <3>3. dead \cup none \subseteq lst_cmd_  BY <2>1, <3>1 DEF RunLoop, UsedUp, OutOfTime, Running
    <3> QED  BY <1>15, <2>2, <3>2, <3>3
  <2> QED  BY <2>3, <2>4
<1>27. CASE \E passed, refused \in SUBSET Tasks, authed \in BOOLEAN : RunOnStartTask(passed, authed, refused)
  <2>1. PICK passed \in SUBSET Tasks, refused \in SUBSET Tasks, authed \in BOOLEAN :
             RunOnStartTask(passed, authed, refused)
    BY <1>27
  <2>2. PICK S : S = Startable(passed, authed) \ refused  OBVIOUS
  <2>3. /\ refused \subseteq lst_cmd_ /\ S \subseteq lst_cmd_ /\ S \cap refused = {}
        /\ outcome' = [t \in Tasks |-> IF t \in refused THEN "failed" ELSE outcome[t]]
        /\ tries' = [t \in Tasks |-> IF t \in S THEN tries[t] + 1 ELSE tries[t]]
    BY <2>1, <2>2 DEF RunOnStartTask, Startable, EndAs, StartWorkers
  <2>4. outcome' = [t \in Tasks |-> outcome'[t]] /\ tries' = [t \in Tasks |-> tries'[t]]  BY <2>3
  <2>5. ASSUME NEW t \in Tasks  PROVE MovesTo(t)
    <3>1. CASE t \in refused
      <4>1. Live(t) /\ outcome'[t] = "failed" /\ tries'[t] = tries[t]  BY <1>2, <2>3, <3>1
      <4> QED  BY <4>1 DEF MovesTo, Outcomes
    <3>2. CASE t \in S
      <4>1. Live(t) /\ outcome'[t] = outcome[t] /\ tries'[t] = tries[t] + 1  BY <1>2, <2>3, <3>2
      <4> QED  BY <4>1 DEF MovesTo
    <3>3. CASE t \notin refused \cup S  BY <2>3, <3>3 DEF MovesTo
    <3> QED  BY <3>1, <3>2, <3>3
  <2> QED  BY <2>4, <2>5 DEF Moves
<1> QED
  BY <1>5, <1>6, <1>7, <1>8, <1>9, <1>10, <1>13, <1>14, <1>17, <1>21, <1>22, <1>23, <1>24, <1>25, <1>26, <1>27
  DEF Next, App, Message, LongLink, Handler

(* Only what is started gets a worker, and with it a try.                  *)
LEMMA TriesStep ==
  ASSUME NetInv, Moves, ShortEffect
  PROVE  TriesInv'
<1>1. tries \in [Tasks -> Nat] /\ worker \in [Tasks -> Places] /\ TriesInv
  BY DEF NetInv, TypeInv, TypeOK
<1>2. ASSUME NEW t \in Tasks, outcome'[t] = "new"  PROVE tries'[t] = 0
  <2>1. outcome'[t] = outcome[t] /\ tries'[t] = tries[t]
    BY <1>2 DEF Moves, MovesTo, Live, Outcomes
  <2> QED  BY <1>1, <1>2, <2>1 DEF TriesInv
<1>3. \A t \in Tasks : tries[t] > 0 => tries'[t] > 0
  <2> SUFFICES ASSUME NEW t \in Tasks, tries[t] > 0  PROVE tries'[t] > 0  OBVIOUS
  <2>1. tries'[t] = tries[t] \/ tries'[t] = tries[t] + 1  BY DEF Moves, MovesTo
  <2> QED  BY <1>1, <2>1
<1>4. ASSUME NEW t \in Tasks, worker'[t] # "none"  PROVE tries'[t] > 0
  <2>1. CASE worker[t] # "none"  BY <1>1, <1>3, <2>1 DEF TriesInv
  <2>2. CASE worker[t] = "none"
    <3>1. Starts
      BY <1>1, <1>4, <2>2 DEF ShortEffect, NoEffect, Enlists, Responds, Drops, Redoes, Sends, Works, Destroys,
                              Break, Destroy
    <3>2. PICK S : StartWorkers(S)  BY <3>1 DEF Starts
    <3>3. t \in S /\ tries'[t] = tries[t] + 1  BY <1>4, <2>2, <3>2 DEF StartWorkers
    <3> QED  BY <1>1, <3>3
  <2> QED  BY <2>1, <2>2
<1> QED  BY <1>2, <1>4 DEF TriesInv
-----------------------------------------------------------------------------
(* The inductive invariant                                                 *)

LEMMA NetInit == Init => NetInv
<1> SUFFICES ASSUME Init  PROVE NetInv  OBVIOUS
<1> USE ShortLinkAssumption, NetCoreAssumption DEF Init, ShortInit
<1>1. TypeOK
  <2>1. profile \in [Tasks -> Profile]  BY DEF NewProfile, Profile
  <2>2. /\ \A t \in Tasks : /\ task[t].retry_count \in 0..RetryCount
                            /\ task[t].total_timetout \in 0..TotalTimeout[t]
        /\ age \in [Tasks -> Nat] /\ tries \in [Tasks -> Nat] /\ worker \in [Tasks -> Places]
    BY DEF Places
  <2>3. idleTime \in 0..RetryInterval /\ calls \in 0..MaxCalls /\ connects \in 0..MaxConnects  OBVIOUS
  <2>4. {shortTimer, zombieTimer, connected} \subseteq BOOLEAN  OBVIOUS
  <2>5. outcome \in [Tasks -> {"new", "posted", "pending", "ok", "failed", "stopped", "cleared"}]  OBVIOUS
  <2> QED  BY <2>1, <2>2, <2>3, <2>4, <2>5 DEF TypeOK
<1>2. TypeInv  BY <1>1, FS_EmptySet DEF TypeInv
<1>3. PlaceInv  BY DEF PlaceInv, InOnePlace, Nowhere, Live, Never
<1>4. WorkerInv  BY DEF WorkerInv, Owned, Answered, Running
<1>5. TimerInv /\ TriesInv  BY DEF TimerInv, TriesInv
<1> QED  BY <1>2, <1>3, <1>4, <1>5 DEF NetInv

LEMMA NetStep == NetInv /\ [Next]_vars => NetInv'
<1> SUFFICES ASSUME NetInv, [Next]_vars  PROVE NetInv'  OBVIOUS
<1>1. TypeInv /\ PlaceInv /\ WorkerInv /\ TimerInv /\ TriesInv  BY DEF NetInv
<1>2. ShortEffect  BY <1>1, EffectOfStep
<1>3. ShortTypes'  BY <1>1, <1>2, EffectTypes
<1>4. ZombieTypes' /\ (lsttask_' # {} => zombieTimer')
  BY <1>1, ZombieOfStep, ZombieStep DEF TimerInv
<1>5. OtherTypes' /\ ShortTimed'  BY <1>1, OtherStep DEF TimerInv, ShortTimed
<1>6. Moves  BY MoveStep
<1>7. outcome' \in [Tasks -> Outcomes] /\ tries' \in [Tasks -> Nat]
  <2>1. outcome \in [Tasks -> Outcomes] /\ tries \in [Tasks -> Nat]
    BY <1>1 DEF TypeInv, TypeOK, Outcomes
  <2>2. \A t \in Tasks : outcome'[t] \in Outcomes /\ tries'[t] \in Nat
    BY <1>6, <2>1 DEF Moves, MovesTo, Outcomes
  <2> QED  BY <1>6, <2>2 DEF Moves
<1>8. QueueInv(messages', worker')  BY <1>1, QueueStep
<1>9. TypeOK'
  <2>1. {shortTimer', zombieTimer', connected'} \subseteq BOOLEAN  BY <1>4, <1>5 DEF ZombieTypes, OtherTypes
  <2> QED  BY <1>3, <1>4, <1>5, <1>7, <2>1 DEF TypeOK, ShortTypes, ZombieTypes, OtherTypes, Outcomes
<1>10. TypeInv'  BY <1>3, <1>4, <1>8, <1>9 DEF TypeInv, ShortTypes, ZombieTypes, QueueInv
<1>11. PlaceInv'  BY <1>1, PlaceStep
<1>12. WorkerInv'
  <2>1. Owned'  BY <1>1, <1>2, EffectWorkers DEF WorkerInv
  <2> QED  BY <1>8, <2>1 DEF WorkerInv, QueueInv
<1>13. TimerInv'  BY <1>4, <1>5 DEF TimerInv, ShortTimed
<1>14. TriesInv'  BY <1>2, <1>6, TriesStep
<1> QED  BY <1>10, <1>11, <1>12, <1>13, <1>14 DEF NetInv

(* What a task may still take stays within what it was given, and the rest *)
(* of the state keeps its types.                                           *)
THEOREM NetTypes == Spec => []TypeOK
<1>1. NetInv => TypeOK  BY DEF NetInv, TypeInv
<1> QED  BY <1>1, NetInit, NetStep, PTL DEF Spec

(* A task that was posted and has not ended is in the queue, in one of the *)
(* managers or in the zombie list, and in one of them once: none is lost   *)
(* on the way, none is run twice.                                          *)
THEOREM TaskOneOwner == Spec => []OneOwner
<1>1. NetInv => OneOwner
  <2> SUFFICES ASSUME NetInv, NEW t \in Tasks
               PROVE  Owners(t) + Posts(t) = IF outcome[t] \in {"posted", "pending"} THEN 1 ELSE 0
    BY DEF OneOwner
  <2>1. InOnePlace(t)  BY DEF NetInv, PlaceInv
  <2>2. Never(messages, t) => Posts(t) = 0
    <3>1. Never(messages, t) => {i \in DOMAIN messages : messages[i] = On("StartTask", t)} = {}  BY DEF Never
    <3> QED  BY <3>1, FS_EmptySet DEF Posts
  <2>3. Once(messages, t) => Posts(t) = 1
    <3> SUFFICES ASSUME Once(messages, t)  PROVE Posts(t) = 1  OBVIOUS
    <3>1. PICK i : {j \in DOMAIN messages : messages[j] = On("StartTask", t)} = {i}  BY DEF Once
    <3> QED  BY <3>1, FS_Singleton DEF Posts
  <2> DEFINE Lists == {<<"long", longTasks>>, <<"short", lst_cmd_>>, <<"zombie", lsttask_>>}
             Of    == {S \in Lists : t \in S[2]}
  <2>4. Owners(t) = Cardinality(Of)  BY DEF Owners
  <2>5. Cardinality({}) = 0 /\ \A x : Cardinality({x}) = 1  BY FS_EmptySet, FS_Singleton
  <2>6. CASE Nowhere(t)
    <3>1. Of = {}  BY <2>6 DEF Nowhere
    <3> QED  BY <2>2, <2>4, <2>5, <2>6, <3>1 DEF Nowhere, Live
  <2>7. CASE InQueue(t)
    <3>1. Of = {}  BY <2>7 DEF InQueue
    <3> QED  BY <2>3, <2>4, <2>5, <2>7, <3>1 DEF InQueue, Live
  <2>8. CASE InLong(t)
    <3>1. Of = {<<"long", longTasks>>}  BY <2>8 DEF InLong
    <3>2. Cardinality(Of) = 1  BY <2>5, <3>1
    <3> QED  BY <2>2, <2>4, <2>8, <3>2 DEF InLong, Live
  <2>9. CASE InShort(t)
    <3>1. Of = {<<"short", lst_cmd_>>}  BY <2>9 DEF InShort
    <3>2. Cardinality(Of) = 1  BY <2>5, <3>1
    <3> QED  BY <2>2, <2>4, <2>9, <3>2 DEF InShort, Live
  <2>10. CASE InZombie(t)
    <3>1. Of = {<<"zombie", lsttask_>>}  BY <2>10 DEF InZombie
    <3>2. Cardinality(Of) = 1  BY <2>5, <3>1
    <3> QED  BY <2>2, <2>4, <2>10, <3>2 DEF InZombie, Live
  <2> QED  BY <2>1, <2>6, <2>7, <2>8, <2>9, <2>10 DEF InOnePlace
<1> QED  BY <1>1, NetInit, NetStep, PTL DEF Spec

(* Between handlers the threads there are are those of running tasks, and  *)
(* the queue has no answer of a thread that is gone.                       *)
THEOREM NetWorkersSound == Spec => []WorkersSound
<1>1. NetInv => WorkersSound
  <2> SUFFICES ASSUME NetInv  PROVE WorkersOwned /\ NoStaleAnswer  BY DEF WorkersSound
  <2>1. Owned /\ Answered(messages, worker) /\ lst_cmd_ \subseteq Tasks
    BY DEF NetInv, WorkerInv, TypeInv, TypeOK
  <2>2. WorkersOwned
    <3>1. Running \subseteq Tasks  BY <2>1 DEF Running
    <3> QED  BY <2>1, <3>1 DEF WorkersOwned, Owned, Idle
  <2>3. NoStaleAnswer  BY <2>1 DEF NoStaleAnswer, Answered, Queued
  <2> QED  BY <2>2, <2>3
<1> QED  BY <1>1, NetInit, NetStep, PTL DEF Spec

(* While a manager or the zombie list has a task, its timer is set.        *)
THEOREM NetTimersArmed == Spec => []TimersArmed
<1>1. NetInv => TimersArmed  BY DEF NetInv, TimerInv, TimersArmed, Idle
<1> QED  BY <1>1, NetInit, NetStep, PTL DEF Spec

(* A task is taken once and ends once, and ends well only after a try.     *)
THEOREM NetImplementsLedger == Spec => ImplementsLedger
<1> DEFINE state == [t \in Tasks |-> IF outcome[t] = "posted" THEN "pending" ELSE outcome[t]]
<1>1. Init => Ledger!Init  BY DEF Init, ShortInit, Ledger!Init
<1>2. NetInv /\ [Next]_vars => [Ledger!Next]_<<state, tries>>
  <2> SUFFICES ASSUME NetInv, [Next]_vars  PROVE Ledger!Next  OBVIOUS
  <2>1. Moves  BY MoveStep
  <2>2. outcome \in [Tasks -> Outcomes] /\ tries \in [Tasks -> Nat] /\ TriesInv
    BY DEF NetInv, TypeInv, TypeOK, Outcomes
  <2>3. DOMAIN state' = Tasks /\ DOMAIN tries' = Tasks  BY <2>1 DEF Moves
  <2>4. ASSUME NEW t \in Tasks  PROVE Ledger!Move(t)
    <3>1. /\ state[t] = IF outcome[t] = "posted" THEN "pending" ELSE outcome[t]
          /\ state'[t] = IF outcome'[t] = "posted" THEN "pending" ELSE outcome'[t]
      OBVIOUS
    <3> HIDE DEF state
    <3>2. MovesTo(t)  BY <2>1 DEF Moves
    <3>3. outcome[t] = "new" => tries[t] = 0  BY <2>2 DEF TriesInv
    <3>4. CASE outcome'[t] = outcome[t] /\ tries'[t] = tries[t]  BY <3>1, <3>4 DEF Ledger!Move, Ledger!Stay, state
    <3>5. CASE outcome[t] = "new" /\ outcome'[t] = "posted" /\ tries'[t] = tries[t]
      BY <3>1, <3>3, <3>5 DEF Ledger!Move, Ledger!Take, state
    <3>6. CASE Live(t) /\ outcome'[t] = "pending" /\ tries'[t] = tries[t]
      BY <3>1, <3>6 DEF Live, Ledger!Move, Ledger!Stay, state
    <3>7. CASE Live(t) /\ outcome'[t] = outcome[t] /\ tries'[t] = tries[t] + 1
      BY <3>1, <3>7 DEF Live, Ledger!Move, Ledger!Try, state
    <3>8. CASE /\ Live(t) /\ outcome'[t] \in Outcomes \ {"new", "posted", "pending"}
               /\ tries'[t] \in {tries[t], tries[t] + 1}
               /\ outcome'[t] = "ok" => tries'[t] > 0
      BY <3>1, <3>8 DEF Live, Outcomes, Ledger!Move, Ledger!Finish, Ledger!Ends, state
    <3> QED  BY <3>2, <3>4, <3>5, <3>6, <3>7, <3>8 DEF MovesTo
  <2> QED  BY <2>3, <2>4 DEF Ledger!Next
<1> QED  BY <1>1, <1>2, NetInit, NetStep, PTL DEF Spec, ImplementsLedger, Ledger!Spec
=============================================================================
