------------------------ MODULE LongLinkTasks_proofs ------------------------
(***************************************************************************)
(* Proofs about LongLinkTasks: what runs is on the connection or its error *)
(* comes, a request is on the connection it was made for and once, retries *)
(* are bounded, and the manager implements a task ledger, for any tasks,   *)
(* priorities, calls and bounds.                                           *)
(***************************************************************************)
EXTENDS LongLinkTasks, SelectionTheorems

Msg ==
  {On(type, t) : type \in {"StartTask", "StopTask", "OnSend", "OnResponse"}, t \in Tasks}
    \cup {[type |-> type] : type \in Calls \cup {"kConnected", "OnError"}}

Outcomes == {"new", "posted", "listed", "ok", "failed", "stopped", "cleared"}

(* The list is sorted, and holds the tasks that were taken and have not    *)
(* ended.                                                                  *)
Sorted(q) == \A i, j \in DOMAIN q : i < j => q[i] # q[j] /\ Priority[q[i]] <= Priority[q[j]]
ListInv ==
  /\ lst_cmd_ \in Seq(Tasks) /\ Sorted(lst_cmd_)
  /\ Listed = {t \in Tasks : outcome[t] = "listed"}
  /\ outcome \in [Tasks -> Outcomes]

(* What a handler does after each of its steps.                            *)
Steps == {"disconnect", "join", "joining", "cancel", "connect", "noretry", "redo", "clear",
          "session", "loop", "start", "each"}
After == [s \in Steps |->
            IF s \in {"disconnect", "join", "joining"} THEN {"cancel", "redo", "connect", "clear"}
            ELSE IF s = "cancel" THEN {"disconnect", "start", "noretry"}
            ELSE IF s = "connect" THEN {"redo"}
            ELSE IF s = "noretry" THEN {"loop"}
            ELSE {}]
Chain(q) == q \in Seq(Steps) /\ \A i \in 1..Len(q) - 1 : q[i + 1] \in After[q[i]]

(* The step a handler is at, and its last one.                             *)
AtOf(q)   == IF q = <<>> THEN "idle" ELSE Head(q)
GoalOf(q) == IF q = <<>> THEN "idle" ELSE q[Len(q)]
At   == AtOf(mq)
Goal == GoalOf(mq)

Running == {t \in Listed : task[t].running_id}

(* The tasks __RunOnStartTask has still to look at wait in the list.       *)
TodoInv ==
  /\ todo \in Seq(Tasks)
  /\ todo # <<>> => At = "each"
  /\ Members(todo) \subseteq Listed \ Running
  /\ Apart(todo, Tasks)

(* A task to start is in the queue once, until it is taken.                *)
MessageInv ==
  /\ messages \in Seq(Msg)
  /\ \A t \in Tasks : /\ On("StartTask", t) \in Members(messages) <=> outcome[t] = "posted"
                      /\ Apart(messages, {On("StartTask", t)})

OnLink(t) == t \in server \/ \E d \in Members(lstsenddata_) : d.task = t
Answered(t) == On("OnResponse", t) \in Members(messages)

(* What is on the connection or answered was sent, and what the manager    *)
(* has not taken yet was not.                                              *)
SentInv == \A t \in Tasks : OnLink(t) \/ Answered(t) => sends[t] > 0
NewInv  == \A t \in Tasks : outcome[t] \in {"new", "posted"} => sends[t] = 0 /\ task[t] = NewProfile

(* The connection has no request of a task to send; it has none at all.    *)
Unsent == \A d \in Members(lstsenddata_) : d.task = "noop"
Clean  == Unsent /\ server \subseteq {"noop"}

(* Requests to send are of this connection, and not sent yet.              *)
Distinct(q) == \A i, j \in DOMAIN q : q[i].task = q[j].task /\ q[i].task # "noop" => i = j
Fresh ==
  /\ \A d \in Members(lstsenddata_) : d.task # "noop" => d.conn = conn /\ d.task \notin server
  /\ Distinct(lstsenddata_)

(* When Disconnect has asked the thread to end, its handler waits for it,  *)
(* and what ends without that ends in an error.                            *)
ThreadInv ==
  /\ connectstatus_ = "kConnected" <=> thread_ \in {"rw", "closing"}
  /\ thread_ \in {"none", "begin", "connecting", "ending"} => Unsent /\ server = {}
  /\ thread_ = "failed" => server = {}
  /\ thread_ = "closing" /\ errtype = "kEctOK" => disconnectinternalcode_ = "set"
  /\ disconnectinternalcode_ = "set" /\ thread_ # "none" =>
       Unsent /\ (At = "join" \/ (At = "joining" /\ joining = conn))
  /\ Fresh

(* After a disconnect no request is left, whatever thread has been waited  *)
(* for; before and without one, what is on the connection runs or is over. *)
Pending == At \in {"disconnect", "join", "joining"}
GivenUp ==
  /\ At \in {"redo", "connect", "cancel", "noretry", "clear"} => Clean
  /\ At = "join" => Unsent
  /\ At = "joining" => Unsent /\ (joining = conn \/ Clean)
  /\ ~Pending => \A t \in Tasks : OnLink(t) => /\ outcome[t] \notin {"new", "posted"}
                                               /\ t \in Listed => t \in Running

(* Between a message that finds tasks and the next delayed __RunLoop there *)
(* is a handler that ends in one.                                          *)
TimerInv == lst_cmd_ # <<>> => timer \/ Goal \in {"loop", "start", "each"}

(* Who gives the connection up has taken the tasks off it, unless the end  *)
(* of the handler will.                                                    *)
Exempt == Goal \in {"redo", "clear", "session"}
OrphanInv ==
  "TimerCheckSuc" \notin Calls /\ ~Exempt =>
    /\ \A t \in Running : OnLink(t) \/ Answered(t) \/ ErrorComes
    /\ At \in {"disconnect", "join", "joining", "cancel", "noretry"} => Running = {}

RetryInv ==
  \A t \in Tasks : sends[t] <= (RetryCount - task[t].remain_retry_count) + redos
                               + (IF task[t].running_id THEN 1 ELSE 0)

TypeInv ==
  /\ LinkTypeOK
  /\ task \in [Tasks -> Profile] /\ sends \in [Tasks -> Nat] /\ redos \in Nat
  /\ retry_interval_ \in {0, 1} /\ timer \in BOOLEAN /\ joining \in 0..MaxConns
  /\ calls \in 0..MaxCalls /\ stopped \subseteq Tasks

LongInv ==
  /\ TypeInv /\ ListInv /\ Chain(mq) /\ TodoInv /\ MessageInv /\ SentInv /\ NewInv
  /\ RetryInv
  /\ ThreadInv /\ GivenUp /\ TimerInv /\ OrphanInv
-----------------------------------------------------------------------------
(* The list of tasks                                                       *)

(* A selection of a sorted list is sorted.                                 *)
LEMMA SortedOnly ==
  ASSUME NEW q \in Seq(Tasks), Sorted(q), NEW K
  PROVE  Sorted(Only(q, K))
<1>1. PICK f : \A k, l \in DOMAIN Only(q, K) :
                 /\ f[k] \in DOMAIN q /\ Only(q, K)[k] = q[f[k]]
                 /\ k < l => f[k] < f[l]
                 /\ f[k] = f[l] => k = l
  BY OnlyInOrder
<1> QED  BY <1>1 DEF Sorted

(* Ended tasks leave the list.                                             *)
LEMMA Removal ==
  ASSUME ListInv, NEW S \in SUBSET Listed, NEW how \in Outcomes \ {"listed"},
         lst_cmd_' = Without(S), outcome' = EndAs(S, how)
  PROVE  ListInv' /\ Listed' = Listed \ S
<1>1. lst_cmd_ \in Seq(Tasks) /\ Sorted(lst_cmd_) /\ Listed \subseteq Tasks  BY DEF ListInv
<1>2. PICK q \in Seq(Tasks), K \in SUBSET Tasks : q = lst_cmd_ /\ K = Listed \ S  BY <1>1
<1>3. Only(q, K) \in Seq(Tasks) /\ Members(Only(q, K)) = Members(q) \cap K  BY MembersOnly
<1>4. Sorted(Only(q, K))  BY <1>1, <1>2, SortedOnly
<1>5. lst_cmd_' = Only(q, K)  BY <1>2 DEF Without
<1>6. Listed' = Listed \ S
  <2>1. Members(q) \cap K = Listed \ S  BY <1>2 DEF Listed
  <2> QED  BY <1>3, <1>5, <2>1 DEF Listed
<1>7. outcome' \in [Tasks -> Outcomes] /\ \A t \in Tasks : outcome'[t] = IF t \in S THEN how ELSE outcome[t]
  BY DEF EndAs, ListInv
<1>8. Listed \ S = {t \in Tasks : outcome'[t] = "listed"}  BY <1>7 DEF ListInv
<1> QED  BY <1>3, <1>4, <1>5, <1>6, <1>7, <1>8 DEF ListInv

(* Two sorted lists one after the other.                                   *)
LEMMA SortedJoin ==
  ASSUME NEW a \in Seq(Tasks), NEW b \in Seq(Tasks), Sorted(a), Sorted(b),
         \A x \in Members(a), y \in Members(b) : x # y /\ Priority[x] <= Priority[y]
  PROVE  a \o b \in Seq(Tasks) /\ Sorted(a \o b) /\ Members(a \o b) = Members(a) \cup Members(b)
<1> DEFINE r == a \o b
<1>1. /\ r \in Seq(Tasks) /\ DOMAIN a = 1..Len(a) /\ DOMAIN b = 1..Len(b)
      /\ DOMAIN r = 1..Len(a) + Len(b) /\ Len(a) \in Nat /\ Len(b) \in Nat
      /\ \A i \in 1..Len(a) : r[i] = a[i]
      /\ \A i \in 1..Len(b) : r[Len(a) + i] = b[i]
  OBVIOUS
<1> HIDE DEF r
<1>2. \A k \in DOMAIN r : \/ k \in 1..Len(a) /\ r[k] = a[k]
                          \/ k - Len(a) \in 1..Len(b) /\ r[k] = b[k - Len(a)]
  <2> TAKE k \in DOMAIN r
  <2>1. k \in 1..Len(a) \/ (k - Len(a) \in 1..Len(b) /\ Len(a) + (k - Len(a)) = k)  BY <1>1
  <2> QED  BY <1>1, <2>1
<1>3. Members(r) = Members(a) \cup Members(b)
  <2>1. \A x \in Members(r) : x \in Members(a) \cup Members(b)  BY <1>1, <1>2 DEF Members
  <2>2. \A x \in Members(a) : x \in Members(r)  BY <1>1 DEF Members
  <2>3. \A i \in 1..Len(b) : Len(a) + i \in DOMAIN r  BY <1>1
  <2>4. \A x \in Members(b) : x \in Members(r)  BY <1>1, <2>3 DEF Members
  <2> QED  BY <2>1, <2>2, <2>4
<1>4. ASSUME NEW k \in DOMAIN r, NEW l \in DOMAIN r, k < l
      PROVE  r[k] # r[l] /\ Priority[r[k]] <= Priority[r[l]]
  <2>1. CASE k \in 1..Len(a) /\ r[k] = a[k] /\ l \in 1..Len(a) /\ r[l] = a[l]
    BY <1>1, <1>4, <2>1 DEF Sorted
  <2>2. CASE k \in 1..Len(a) /\ r[k] = a[k] /\ l - Len(a) \in 1..Len(b) /\ r[l] = b[l - Len(a)]
    <3>1. r[k] \in Members(a) /\ r[l] \in Members(b)  BY <1>1, <2>2 DEF Members
    <3> QED  BY <3>1
  <2>3. CASE /\ k - Len(a) \in 1..Len(b) /\ r[k] = b[k - Len(a)]
             /\ l - Len(a) \in 1..Len(b) /\ r[l] = b[l - Len(a)]
    <3>1. k - Len(a) < l - Len(a)  BY <1>1, <1>4
    <3> QED  BY <1>1, <2>3, <3>1 DEF Sorted
  <2>4. ~(k - Len(a) \in 1..Len(b) /\ l \in 1..Len(a))  BY <1>1, <1>4
  <2> QED  BY <1>2, <2>1, <2>2, <2>3, <2>4
<1> QED  BY <1>1, <1>3, <1>4 DEF Sorted, r

(* A new task goes behind those it does not precede.                       *)
LEMMA Insertion ==
  ASSUME ListInv, NEW t \in Tasks, t \notin Listed,
         lst_cmd_' = Only(lst_cmd_, {u \in Listed : Priority[u] <= Priority[t]})
                     \o <<t>> \o Only(lst_cmd_, {u \in Listed : Priority[u] > Priority[t]}),
         outcome' = [outcome EXCEPT ![t] = "listed"]
  PROVE  ListInv' /\ Listed' = Listed \cup {t}
<1>1. lst_cmd_ \in Seq(Tasks) /\ Sorted(lst_cmd_) /\ Listed \subseteq Tasks  BY DEF ListInv
<1>2. PICK q \in Seq(Tasks), K \in SUBSET Tasks, L \in SUBSET Tasks :
        /\ q = lst_cmd_
        /\ K = {u \in Listed : Priority[u] <= Priority[t]}
        /\ L = {u \in Listed : Priority[u] > Priority[t]}
  BY <1>1
<1>3. PICK a \in Seq(Tasks), b \in Seq(Tasks) : a = Only(q, K) /\ b = Only(q, L)
  BY MembersOnly
<1>4. Sorted(a) /\ Sorted(b) /\ Members(q) = Listed
  BY <1>1, <1>2, <1>3, SortedOnly DEF Listed
<1>5. Members(a) = K /\ Members(b) = L
  <2>1. Members(a) = Members(q) \cap K /\ Members(b) = Members(q) \cap L  BY <1>3, MembersOnly
  <2> QED  BY <1>2, <1>4, <2>1
<1>6. <<t>> \in Seq(Tasks) /\ Sorted(<<t>>) /\ Members(<<t>>) = {t}
  <2>1. <<t>> \in Seq(Tasks) /\ DOMAIN <<t>> = {1} /\ <<t>>[1] = t  OBVIOUS
  <2>2. Sorted(<<t>>)  BY <2>1 DEF Sorted
  <2> QED  BY <2>1, <2>2 DEF Members
<1>7. Priority \in [Tasks -> Nat]  BY TasksAssumption
<1>8. a \o <<t>> \in Seq(Tasks) /\ Sorted(a \o <<t>>) /\ Members(a \o <<t>>) = K \cup {t}
  <2>1. PICK s \in Seq(Tasks) : s = <<t>>  BY <1>6
  <2>2. Sorted(s) /\ Members(s) = {t}  BY <1>6, <2>1
  <2>3. \A x \in Members(a), y \in Members(s) : x # y /\ Priority[x] <= Priority[y]
    BY <1>2, <1>5, <2>2
  <2>4. a \o s \in Seq(Tasks) /\ Sorted(a \o s) /\ Members(a \o s) = Members(a) \cup Members(s)
    BY <1>4, <2>2, <2>3, SortedJoin
  <2> QED  BY <1>5, <2>1, <2>2, <2>4
<1>9. PICK c \in Seq(Tasks) : c = a \o <<t>>  BY <1>8
<1>10. c \o b \in Seq(Tasks) /\ Sorted(c \o b) /\ Members(c \o b) = K \cup {t} \cup L
  <2>1. \A x \in Members(c), y \in Members(b) : x # y /\ Priority[x] <= Priority[y]
    <3> SUFFICES ASSUME NEW x \in K \cup {t}, NEW y \in L  PROVE x # y /\ Priority[x] <= Priority[y]
      BY <1>5, <1>8, <1>9
    <3>1. x \in Tasks /\ y \in Tasks /\ Priority[x] \in Nat /\ Priority[y] \in Nat /\ Priority[t] \in Nat
      BY <1>7
    <3>2. Priority[x] <= Priority[t] /\ Priority[t] < Priority[y]  BY <1>2, <3>1
    <3> QED  BY <3>1, <3>2
  <2> QED  BY <1>4, <1>5, <1>8, <1>9, <2>1, SortedJoin
<1>11. K \cup {t} \cup L = Listed \cup {t}
  <2>1. \A u \in Listed : Priority[u] \in Nat /\ Priority[t] \in Nat  BY <1>1, <1>7
  <2> QED  BY <1>2, <2>1
<1>12. lst_cmd_' = c \o b  BY <1>2, <1>3, <1>9
<1>13. Listed' = Listed \cup {t}  BY <1>10, <1>11, <1>12 DEF Listed
<1>14. outcome' \in [Tasks -> Outcomes] /\ \A u \in Tasks : outcome'[u] = IF u = t THEN "listed" ELSE outcome[u]
  BY DEF ListInv, Outcomes
<1>15. Listed \cup {t} = {u \in Tasks : outcome'[u] = "listed"}  BY <1>14 DEF ListInv
<1> QED  BY <1>10, <1>12, <1>13, <1>14, <1>15 DEF ListInv
-----------------------------------------------------------------------------
(* Messages                                                                *)

LEMMA MessageShapes ==
  /\ \A type \in {"StartTask", "StopTask", "OnSend", "OnResponse"}, t \in Tasks :
        On(type, t) \in Msg /\ On(type, t).type = type /\ On(type, t).task = t
  /\ \A type \in Calls \cup {"kConnected", "OnError"} : [type |-> type] \in Msg
  /\ \A m \in Msg : m.type \in {"StartTask", "StopTask", "OnSend", "OnResponse"} =>
        m.task \in Tasks /\ m = On(m.type, m.task)
  /\ \A m \in Msg : m.type \notin {"StartTask", "StopTask", "OnSend", "OnResponse"} =>
        m = [type |-> m.type]
<1>1. \A type \in Calls : type \in {"RedoTasks", "OnNetworkChange", "ClearTasks", "TimerCheckSuc"}
  BY TasksAssumption
<1>2. \A type \in Calls \cup {"kConnected", "OnError"} : [type |-> type] \in Msg  BY DEF Msg
<1>3. \A type \in {"StartTask", "StopTask", "OnSend", "OnResponse"}, t \in Tasks :
        On(type, t) \in Msg /\ On(type, t).type = type /\ On(type, t).task = t
  BY DEF Msg, On
<1>4. ASSUME NEW m \in Msg
      PROVE  IF m.type \in {"StartTask", "StopTask", "OnSend", "OnResponse"}
             THEN m.task \in Tasks /\ m = On(m.type, m.task)
             ELSE m = [type |-> m.type]
  <2>1. CASE \E type \in {"StartTask", "StopTask", "OnSend", "OnResponse"}, t \in Tasks : m = On(type, t)
    BY <1>3, <2>1
  <2>2. CASE \E type \in Calls \cup {"kConnected", "OnError"} : m = [type |-> type]
    <3>1. PICK c \in Calls \cup {"kConnected", "OnError"} : m = [type |-> c]  BY <2>2
    <3>2. m.type = c /\ m = [type |-> m.type]  BY <3>1
    <3>3. c \notin {"StartTask", "StopTask", "OnSend", "OnResponse"}  BY <1>1
    <3> QED  BY <3>2, <3>3
  <2> QED  BY <2>1, <2>2 DEF Msg
<1> QED  BY <1>2, <1>3, <1>4

(* The message a handler takes.                                            *)
LEMMA Taken ==
  ASSUME MessageInv, NEW type, Take(type)
  PROVE  /\ Head(messages) \in Msg /\ Head(messages).type = type
         /\ messages' = Tail(messages) /\ messages' \in Seq(Msg)
         /\ Members(messages) = {Head(messages)} \cup Members(messages')
<1>1. PICK q \in Seq(Msg) : q = messages  BY DEF MessageInv
<1>2. q # <<>> /\ messages' = Tail(q)  BY <1>1 DEF Take
<1>3. /\ Tail(q) \in Seq(Msg) /\ Head(q) \in Msg
      /\ Members(q) = {Head(q)} \cup Members(Tail(q))
  BY <1>2, MembersTail
<1> QED  BY <1>1, <1>2, <1>3 DEF Take

LEMMA TakenTask ==
  ASSUME MessageInv, NEW type \in {"StartTask", "StopTask", "OnSend", "OnResponse"}, Take(type)
  PROVE  Head(messages).task \in Tasks /\ Head(messages) = On(type, Head(messages).task)
BY Taken, MessageShapes
-----------------------------------------------------------------------------
(* What a step does to the tasks                                           *)

Still    == UNCHANGED <<lst_cmd_, outcome, task, sends, redos>>
Posts(t) == /\ outcome[t] = "new" /\ outcome' = [outcome EXCEPT ![t] = "posted"]
            /\ UNCHANGED <<lst_cmd_, task, sends, redos>>
Lists(t) == /\ outcome[t] = "posted" /\ outcome' = [outcome EXCEPT ![t] = "listed"]
            /\ lst_cmd_' = Only(lst_cmd_, {u \in Listed : Priority[u] <= Priority[t]})
                           \o <<t>> \o Only(lst_cmd_, {u \in Listed : Priority[u] > Priority[t]})
            /\ UNCHANGED <<task, sends, redos>>
EndsAs(S, how) == /\ lst_cmd_' = Without(S) /\ outcome' = EndAs(S, how)
                  /\ how = "ok" => \A t \in S : sends[t] > 0
                  /\ UNCHANGED <<task, sends, redos>>
Batch(S) == BatchErrorResp(S) /\ UNCHANGED <<sends, redos>>
Redo     == /\ task' = [t \in Tasks |-> IF t \in Listed THEN InitSendParam(task[t]) ELSE task[t]]
            /\ redos' = redos + 1 /\ UNCHANGED <<lst_cmd_, outcome, sends>>
Marks(t) == /\ \/ task' = [task EXCEPT ![t].start_send_time = TRUE]
               \/ task' = [task EXCEPT ![t].antiavalanche_checked = TRUE]
            /\ UNCHANGED <<lst_cmd_, outcome, sends, redos>>
Gives(t) == /\ task' = [task EXCEPT ![t].antiavalanche_checked = TRUE, ![t].running_id = TRUE]
            /\ sends' = [sends EXCEPT ![t] = @ + 1]
            /\ IF t \in SendOnly THEN lst_cmd_' = Without({t}) /\ outcome' = EndAs({t}, "ok")
                                 ELSE UNCHANGED <<lst_cmd_, outcome>>
            /\ UNCHANGED redos

TaskEffect ==
  \/ Still \/ Redo
  \/ \E t \in Tasks : Posts(t) \/ Lists(t)
  \/ \E t \in Listed : Marks(t)
  \/ \E t \in Listed \ Running : Gives(t)
  \/ \E S \in SUBSET Listed, how \in {"ok", "failed", "stopped", "cleared"} : EndsAs(S, how)
  \/ \E S \in SUBSET Listed : Batch(S)

(* The head of todo is in the list and waits.                              *)
LEMMA Looked ==
  ASSUME TodoInv, NEW t, Each(t)
  PROVE  t \in Listed \ Running
<1>1. PICK q \in Seq(Tasks) : q = todo  BY DEF TodoInv
<1>2. Head(q) \in Members(q)  BY <1>1, MembersTail DEF Each
<1> QED  BY <1>1, <1>2 DEF TodoInv, Each

LEMMA EffectOfStep ==
  ASSUME LongInv, [Next]_vars
  PROVE  TaskEffect
<1> USE DEF TaskEffect
<1>0. TodoInv /\ MessageInv /\ SentInv /\ ListInv  BY DEF LongInv
<1>1. CASE UNCHANGED vars \/ Connection \/ AppConnect \/ AutoConnect \/ Timer
  BY <1>1 DEF vars, taskVars, Connection, AppConnect, AutoConnect, Timer, Still
<1>2. CASE \/ \E t \in Tasks : AppStop(t)
           \/ \E type \in Calls : AppCall(type) \/ NetCoreCall(type)
           \/ SignalConnection
  BY <1>2 DEF AppStop, AppCall, NetCoreCall, SignalConnection, taskVars, Still
<1>3. CASE \E t \in Tasks : AppStart(t)  BY <1>3 DEF AppStart, Posts
<1>4. CASE \E t \in Tasks : StartTask(t)
  <2>1. PICK t \in Tasks : StartTask(t)  BY <1>4
  <2>2. On("StartTask", t) \in Members(messages)
    BY <1>0, <2>1, Taken, TakenTask DEF StartTask
  <2>3. outcome[t] = "posted"  BY <1>0, <2>2 DEF MessageInv
  <2> QED  BY <2>1, <2>3 DEF StartTask, Lists
<1>5. CASE \E t \in Tasks : StopTask(t)
  <2>1. PICK t \in Tasks : StopTask(t)  BY <1>5
  <2>2. CASE t \in Listed
    <3>1. {t} \in SUBSET Listed  BY <2>2
    <3>2. EndsAs({t}, "stopped")  BY <2>1, <2>2 DEF StopTask, EndsAs
    <3> QED  BY <3>1, <3>2
  <2>3. CASE t \notin Listed  BY <2>1, <2>3 DEF StopTask, Still
  <2> QED  BY <2>2, <2>3
<1>6. CASE \E t \in Tasks : OnSendTask(t)
  <2>1. PICK t \in Tasks : OnSendTask(t)  BY <1>6
  <2>2. CASE t \in Listed  BY <2>1, <2>2 DEF OnSendTask, Marks
  <2>3. CASE t \notin Listed  BY <2>1, <2>3 DEF OnSendTask, Still
  <2> QED  BY <2>2, <2>3
<1>7. {} \in SUBSET Listed  OBVIOUS
<1>8. CASE OnErrorResponse \/ SessionTimeout  BY <1>7, <1>8 DEF OnErrorResponse, SessionTimeout, Batch
<1>9. CASE \E t \in Tasks, handle \in Handles : OnResponse(t, handle)
  <2>1. PICK t \in Tasks, handle \in Handles : OnResponse(t, handle)  BY <1>9
  <2>2. sends[t] > 0
    <3>1. On("OnResponse", t) \in Members(messages)
      BY <1>0, <2>1, Taken, TakenTask DEF OnResponse
    <3> QED  BY <1>0, <3>1 DEF SentInv, Answered
  <2>3. CASE t \notin Listed  BY <2>1, <2>3 DEF OnResponse, Still
  <2>4. CASE t \in Listed
    <3>1. {t} \in SUBSET Listed  BY <2>4
    <3>2. CASE handle = "NoError"
      <4>1. EndsAs({t}, "ok")  BY <2>1, <2>2, <2>4, <3>2 DEF OnResponse, End1, EndsAs
      <4> QED  BY <3>1, <4>1
    <3>3. CASE handle = "TaskEnd"
      <4>1. EndsAs({t}, "failed")  BY <2>1, <2>4, <3>3 DEF OnResponse, End1, EndsAs
      <4> QED  BY <3>1, <4>1
    <3>4. CASE handle = "Default"
      BY <1>7, <2>1, <2>4, <3>4 DEF OnResponse, Batch
    <3>5. CASE handle = "SessionTimeout"
      BY <2>1, <2>4, <3>5 DEF OnResponse, Still
    <3> QED  BY <3>2, <3>3, <3>4, <3>5 DEF Handles
  <2> QED  BY <2>3, <2>4
<1>10. CASE Disconnect \/ Join \/ Joined \/ CancelMessage \/ Reconnect \/ NoRetryInterval \/ RunLoopEnd
  BY <1>10 DEF Disconnect, Join, Joined, CancelMessage, Reconnect, NoRetryInterval, RunLoopEnd, taskVars, Still
<1>11. CASE RedoTasks  BY <1>11 DEF RedoTasks, Redo
<1>12. CASE Clear
  <2>1. Listed \in SUBSET Listed  OBVIOUS
  <2>2. Without(Listed) = <<>>
    <3>1. PICK q \in Seq(Tasks), K \in SUBSET Tasks : q = lst_cmd_ /\ K = {}  BY <1>0 DEF ListInv
    <3>2. Only(q, K) \in Seq(Tasks) /\ Members(Only(q, K)) = {}  BY <3>1, MembersOnly
    <3>3. PICK r \in Seq(Tasks) : r = Only(q, K)  BY <3>2
    <3>4. r = <<>>  BY <3>2, <3>3, MembersOf
    <3>5. Listed \ Listed = K  BY <3>1
    <3> QED  BY <3>1, <3>3, <3>4, <3>5 DEF Without
  <2>3. EndsAs(Listed, "cleared")  BY <1>12, <2>2 DEF Clear, EndsAs
  <2> QED  BY <2>1, <2>3
<1>13. CASE \E over, late \in SUBSET Tasks : RunLoop(over, late)
  <2>1. PICK over \in SUBSET Tasks, late \in SUBSET Tasks : RunLoop(over, late)  BY <1>13
  <2>2. CASE over \cup late = {}  BY <2>1, <2>2 DEF RunLoop, Still
  <2>3. CASE over \cup late # {}
    <3>1. over \in SUBSET Listed /\ Batch(over)  BY <2>1, <2>3 DEF RunLoop, Batch
    <3> QED  BY <3>1
  <2> QED  BY <2>2, <2>3
<1>14. CASE \E passed \in BOOLEAN : RunOnStartTask(passed)  BY <1>14 DEF RunOnStartTask, taskVars, Still
<1>15. CASE \E t \in Tasks : SkipNotAuthed(t) \/ Refuse(t) \/ BreakOff(t) \/ SendFail(t) \/ SendTask(t)
  <2>1. PICK t \in Tasks : SkipNotAuthed(t) \/ Refuse(t) \/ BreakOff(t) \/ SendFail(t) \/ SendTask(t)
    BY <1>15
  <2>2. t \in Listed \ Running
    BY <1>0, <2>1, Looked DEF SkipNotAuthed, Refuse, BreakOff, SendFail, SendTask
  <2>3. CASE SkipNotAuthed(t)  BY <2>3 DEF SkipNotAuthed, taskVars, Still
  <2>4. CASE Refuse(t)
    <3>1. {t} \in SUBSET Listed  BY <2>2
    <3>2. EndsAs({t}, "failed")  BY <2>4 DEF Refuse, End1, EndsAs
    <3> QED  BY <3>1, <3>2
  <2>5. CASE BreakOff(t) \/ SendFail(t)  BY <2>2, <2>5 DEF BreakOff, SendFail, Marks
  <2>6. CASE SendTask(t)
    <3>1. Gives(t)  BY <2>6 DEF SendTask, End1, Gives
    <3> QED  BY <2>2, <3>1
  <2> QED  BY <2>1, <2>3, <2>4, <2>5, <2>6
<1> QED
  BY <1>1, <1>2, <1>3, <1>4, <1>5, <1>6, <1>8, <1>9, <1>10, <1>11, <1>12, <1>13, <1>14, <1>15
  DEF Next, App, Message, Handler

(* The types of the tasks, and what is known of new ones.                  *)
TaskTypes == task \in [Tasks -> Profile] /\ sends \in [Tasks -> Nat] /\ redos \in Nat
TaskInv   == TaskTypes /\ ListInv /\ NewInv /\ RetryInv

(* What is left of a task's profile when it is taken off the connection.   *)
LEMMA Reset ==
  ASSUME NEW p \in Profile
  PROVE  /\ InitSendParam(p) \in Profile /\ InitSendParam(p).running_id = FALSE
         /\ InitSendParam(p).remain_retry_count = p.remain_retry_count
         /\ p.remain_retry_count # 0 =>
              \A r : r = InitSendParam([p EXCEPT !.remain_retry_count = @ - 1])
                     => /\ r \in Profile /\ r.running_id = FALSE
                        /\ r.remain_retry_count = p.remain_retry_count - 1
<1>1. RetryCount \in Nat  BY TasksAssumption
<1>2. ASSUME NEW r \in Profile
      PROVE  /\ InitSendParam(r) \in Profile /\ InitSendParam(r).running_id = FALSE
             /\ InitSendParam(r).remain_retry_count = r.remain_retry_count
  <2>1. PICK a : a = [r EXCEPT !.running_id = FALSE]  OBVIOUS
  <2>2. a \in Profile /\ a.running_id = FALSE /\ a.remain_retry_count = r.remain_retry_count
    BY <2>1 DEF Profile
  <2>3. PICK b : b = [a EXCEPT !.start_send_time = FALSE]  OBVIOUS
  <2>4. b \in Profile /\ b.running_id = FALSE /\ b.remain_retry_count = r.remain_retry_count
    BY <2>2, <2>3 DEF Profile
  <2>5. InitSendParam(r) = b  BY <2>1, <2>3 DEF InitSendParam
  <2> QED  BY <2>4, <2>5
<1>3. ASSUME p.remain_retry_count # 0, NEW r, r = InitSendParam([p EXCEPT !.remain_retry_count = @ - 1])
      PROVE  /\ r \in Profile /\ r.running_id = FALSE
             /\ r.remain_retry_count = p.remain_retry_count - 1
  <2>1. PICK a : a = [p EXCEPT !.remain_retry_count = @ - 1]  OBVIOUS
  <2>2. a \in Profile /\ a.remain_retry_count = p.remain_retry_count - 1
    <3>1. p.remain_retry_count - 1 \in 0..RetryCount  BY <1>1, <1>3 DEF Profile
    <3> QED  BY <2>1, <3>1 DEF Profile
  <2>3. r = InitSendParam(a)  BY <1>3, <2>1
  <2> QED  BY <1>2, <2>2, <2>3
<1> QED  BY <1>2, <1>3

(* A profile that is only marked.                                          *)
LEMMA Marked ==
  ASSUME NEW p \in Profile
  PROVE  \A r : \/ r = [p EXCEPT !.start_send_time = TRUE]
                \/ r = [p EXCEPT !.antiavalanche_checked = TRUE]
                => /\ r \in Profile /\ r.running_id = p.running_id
                   /\ r.remain_retry_count = p.remain_retry_count
BY DEF Profile

(* __BatchErrorRespHandle: who runs is charged or ends, and nobody runs.   *)
LEMMA BatchStep ==
  ASSUME TaskInv, NEW S \in SUBSET Listed, Batch(S)
  PROVE  /\ TaskInv' /\ Listed' \subseteq Listed /\ Running' = {}
         /\ \A t \in Tasks : /\ sends'[t] = sends[t]
                             /\ outcome'[t] = outcome[t] \/ (outcome[t] = "listed" /\ outcome'[t] = "failed")
<1> DEFINE running == {t \in Listed \ S : task[t].running_id}
           ends    == {t \in running : task[t].remain_retry_count = 0}
<1>1. /\ lst_cmd_' = Without(S \cup ends) /\ outcome' = EndAs(S \cup ends, "failed")
      /\ task' = [t \in Tasks |-> IF t \in running \ ends
                                  THEN InitSendParam([task[t] EXCEPT !.remain_retry_count = @ - 1])
                                  ELSE task[t]]
      /\ UNCHANGED <<sends, redos>>
  BY DEF Batch, BatchErrorResp
<1>2. running \subseteq Listed /\ ends \subseteq running /\ Listed \subseteq Tasks
      /\ Listed = {t \in Tasks : outcome[t] = "listed"}
  BY DEF TaskInv, ListInv
<1>3. \A t \in Listed : task[t].running_id <=> t \in running \/ (t \in S /\ task[t].running_id)
  OBVIOUS
<1>4. \A t \in running \ ends : task[t].remain_retry_count # 0  OBVIOUS
<1> HIDE DEF running, ends
<1>5. S \cup ends \in SUBSET Listed  BY <1>2
<1>6. PICK G \in SUBSET Listed : G = S \cup ends  BY <1>5
<1>7. ListInv' /\ Listed' = Listed \ G
  BY <1>1, <1>6, Removal DEF TaskInv, Outcomes
<1>8. task \in [Tasks -> Profile]  BY DEF TaskInv, TaskTypes
<1>9. ASSUME NEW t \in running \ ends
      PROVE  /\ task'[t] \in Profile /\ task'[t].running_id = FALSE
             /\ task'[t].remain_retry_count = task[t].remain_retry_count - 1
  <2>1. t \in Tasks /\ task[t] \in Profile /\ task[t].remain_retry_count # 0  BY <1>2, <1>4, <1>8
  <2>2. task'[t] = InitSendParam([task[t] EXCEPT !.remain_retry_count = @ - 1])  BY <1>1, <2>1
  <2>3. PICK p \in Profile : p = task[t]  BY <2>1
  <2>4. task'[t] = InitSendParam([p EXCEPT !.remain_retry_count = @ - 1]) /\ p.remain_retry_count # 0
    BY <2>1, <2>2, <2>3
  <2> QED  BY <2>3, <2>4, Reset
<1>10. \A t \in Tasks \ (running \ ends) : task'[t] = task[t]  BY <1>1
<1>11. task' \in [Tasks -> Profile]
  <2>1. \A t \in Tasks : task'[t] \in Profile  BY <1>8, <1>9, <1>10
  <2>2. task' = [t \in Tasks |-> task'[t]]  BY <1>1
  <2> QED  BY <2>1, <2>2
<1>12. Running' = {}
  <2> SUFFICES ASSUME NEW t \in Listed', task'[t].running_id  PROVE FALSE  BY DEF Running
  <2>1. t \in Listed /\ t \notin S /\ t \notin ends /\ t \in Tasks  BY <1>2, <1>6, <1>7
  <2>2. CASE t \in running  BY <1>9, <2>1, <2>2
  <2>3. CASE t \notin running  BY <1>3, <1>10, <2>1, <2>3
  <2> QED  BY <2>2, <2>3
<1>13. ASSUME NEW t \in Tasks
       PROVE  outcome'[t] = IF t \in G THEN "failed" ELSE outcome[t]
  BY <1>1, <1>6 DEF EndAs
<1>14. NewInv'
  <2> SUFFICES ASSUME NEW t \in Tasks, outcome'[t] \in {"new", "posted"}
               PROVE  sends'[t] = 0 /\ task'[t] = NewProfile
    BY DEF NewInv
  <2>1. outcome[t] \in {"new", "posted"}  BY <1>13
  <2>2. t \notin running  BY <1>2, <2>1
  <2> QED  BY <1>1, <1>10, <2>1, <2>2 DEF TaskInv, NewInv
<1>15. RetryInv'
  <2> SUFFICES ASSUME NEW t \in Tasks
               PROVE  sends'[t] <= (RetryCount - task'[t].remain_retry_count) + redos'
                                   + (IF task'[t].running_id THEN 1 ELSE 0)
    BY DEF RetryInv
  <2>1. sends[t] <= (RetryCount - task[t].remain_retry_count) + redos + (IF task[t].running_id THEN 1 ELSE 0)
    BY DEF TaskInv, RetryInv
  <2>2. sends'[t] = sends[t] /\ redos' = redos /\ sends[t] \in Nat /\ redos \in Nat /\ RetryCount \in Nat
        /\ task[t].remain_retry_count \in Int
    BY <1>1, <1>8, TasksAssumption DEF TaskInv, TaskTypes, Profile
  <2>3. CASE t \in running \ ends
    <3>1. task'[t].running_id = FALSE /\ task'[t].remain_retry_count = task[t].remain_retry_count - 1
      BY <1>9, <2>3
    <3> QED  BY <2>1, <2>2, <3>1
  <2>4. CASE t \notin running \ ends  BY <1>10, <2>1, <2>2, <2>4
  <2> QED  BY <2>3, <2>4
<1> QED
  BY <1>1, <1>2, <1>6, <1>7, <1>11, <1>12, <1>13, <1>14, <1>15 DEF TaskInv, TaskTypes

(* A list that does not change.                                            *)
LEMMA SameList ==
  ASSUME ListInv, lst_cmd_' = lst_cmd_, outcome' \in [Tasks -> Outcomes],
         \A t \in Tasks : outcome'[t] = "listed" <=> outcome[t] = "listed"
  PROVE  ListInv' /\ Listed' = Listed
<1>1. Listed' = Listed  BY DEF Listed
<1>2. {t \in Tasks : outcome'[t] = "listed"} = {t \in Tasks : outcome[t] = "listed"}  OBVIOUS
<1>3. lst_cmd_' \in Seq(Tasks) /\ Sorted(lst_cmd_')  BY DEF ListInv
<1> QED  BY <1>1, <1>2, <1>3 DEF ListInv

(* What a task may do: it is posted, taken, sent, and it ends, once.       *)
Ended == {"ok", "failed", "stopped", "cleared"}
MovesTo(t) ==
  \/ outcome'[t] = outcome[t] /\ sends'[t] = sends[t]
  \/ outcome[t] = "new" /\ outcome'[t] = "posted" /\ sends'[t] = sends[t]
  \/ outcome[t] = "posted" /\ outcome'[t] = "listed" /\ sends'[t] = sends[t]
  \/ outcome[t] = "listed" /\ outcome'[t] = "listed" /\ sends'[t] = sends[t] + 1
  \/ /\ outcome[t] = "listed" /\ outcome'[t] \in Ended /\ sends'[t] \in {sends[t], sends[t] + 1}
     /\ outcome'[t] = "ok" => sends'[t] > 0
Moves == \A t \in Tasks : MovesTo(t)

LEMMA StillStep ==
  ASSUME TaskInv, Still
  PROVE  TaskInv' /\ Listed' = Listed /\ Running' = Running /\ Moves
<1>1. ListInv' /\ Listed' = Listed
  <2>1. outcome' = outcome /\ outcome \in [Tasks -> Outcomes]  BY DEF Still, TaskInv, ListInv
  <2> QED  BY <2>1, SameList DEF Still, TaskInv
<1>2. Running' = Running  BY <1>1 DEF Running, Still
<1> QED  BY <1>1, <1>2 DEF Still, TaskInv, TaskTypes, NewInv, RetryInv, Moves, MovesTo

LEMMA PostsStep ==
  ASSUME TaskInv, NEW t \in Tasks, Posts(t)
  PROVE  TaskInv' /\ Listed' = Listed /\ Running' = Running /\ Moves
<1>1. outcome \in [Tasks -> Outcomes]  BY DEF TaskInv, ListInv
<1>2. \A u \in Tasks : outcome'[u] = IF u = t THEN "posted" ELSE outcome[u]  BY <1>1 DEF Posts
<1>3. outcome' \in [Tasks -> Outcomes]  BY <1>1 DEF Posts, Outcomes
<1>4. ListInv' /\ Listed' = Listed
  <2>1. \A u \in Tasks : outcome'[u] = "listed" <=> outcome[u] = "listed"  BY <1>2 DEF Posts
  <2> QED  BY <1>3, <2>1, SameList DEF Posts, TaskInv
<1>5. Running' = Running  BY <1>4 DEF Running, Posts
<1>6. NewInv'  BY <1>2 DEF Posts, TaskInv, NewInv
<1>7. Moves  BY <1>2 DEF Posts, Moves, MovesTo
<1> QED  BY <1>4, <1>5, <1>6, <1>7 DEF Posts, TaskInv, TaskTypes, RetryInv

LEMMA ListsStep ==
  ASSUME TaskInv, NEW t \in Tasks, Lists(t)
  PROVE  TaskInv' /\ Listed' = Listed \cup {t} /\ Running' = Running /\ Moves /\ t \notin Running
<1>1. outcome \in [Tasks -> Outcomes] /\ t \notin Listed /\ task[t] = NewProfile
  BY DEF TaskInv, ListInv, Lists, NewInv
<1>2. \A u \in Tasks : outcome'[u] = IF u = t THEN "listed" ELSE outcome[u]  BY <1>1 DEF Lists
<1>3. ListInv' /\ Listed' = Listed \cup {t}  BY <1>1, Insertion DEF Lists, TaskInv
<1>4. Running' = Running /\ t \notin Running
  <2>1. task' = task /\ ~task[t].running_id  BY <1>1 DEF Lists, NewProfile
  <2> QED  BY <1>3, <2>1 DEF Running
<1>5. NewInv'  BY <1>2 DEF Lists, TaskInv, NewInv
<1>6. Moves  BY <1>2 DEF Lists, Moves, MovesTo
<1> QED  BY <1>3, <1>4, <1>5, <1>6 DEF Lists, TaskInv, TaskTypes, RetryInv

LEMMA EndsStep ==
  ASSUME TaskInv, NEW S \in SUBSET Listed, NEW how \in Ended, EndsAs(S, how)
  PROVE  TaskInv' /\ Listed' = Listed \ S /\ Running' = Running \ S /\ Moves
<1>1. outcome \in [Tasks -> Outcomes] /\ \A t \in S : t \in Tasks /\ outcome[t] = "listed"
  BY DEF TaskInv, ListInv
<1>2. \A u \in Tasks : outcome'[u] = IF u \in S THEN how ELSE outcome[u]  BY DEF EndsAs, EndAs
<1>3. ListInv' /\ Listed' = Listed \ S
  <2>1. how \in Outcomes \ {"listed"}  BY DEF Ended, Outcomes
  <2> QED  BY <2>1, Removal DEF EndsAs, TaskInv
<1>4. Running' = Running \ S  BY <1>3 DEF Running, EndsAs
<1>5. NewInv'  BY <1>2 DEF Ended, EndsAs, TaskInv, NewInv
<1>6. Moves
  <2> SUFFICES ASSUME NEW t \in Tasks  PROVE MovesTo(t)  BY DEF Moves
  <2>1. sends'[t] = sends[t]  BY DEF EndsAs
  <2>2. CASE t \in S
    <3>1. outcome[t] = "listed" /\ outcome'[t] = how  BY <1>1, <1>2, <2>2
    <3>2. how = "ok" => sends[t] > 0  BY <2>2 DEF EndsAs
    <3> QED  BY <2>1, <3>1, <3>2 DEF MovesTo
  <2>3. CASE t \notin S  BY <1>2, <2>1, <2>3 DEF MovesTo
  <2> QED  BY <2>2, <2>3
<1> QED  BY <1>3, <1>4, <1>5, <1>6 DEF EndsAs, TaskInv, TaskTypes, RetryInv

LEMMA RedoStep ==
  ASSUME TaskInv, Redo
  PROVE  TaskInv' /\ Listed' = Listed /\ Running' = {} /\ Moves
<1>1. outcome' = outcome /\ outcome \in [Tasks -> Outcomes] /\ Listed = {t \in Tasks : outcome[t] = "listed"}
  BY DEF Redo, TaskInv, ListInv
<1>2. ListInv' /\ Listed' = Listed  BY <1>1, SameList DEF Redo, TaskInv
<1>3. task \in [Tasks -> Profile] /\ sends \in [Tasks -> Nat] /\ redos \in Nat  BY DEF TaskInv, TaskTypes
<1>4. ASSUME NEW t \in Listed
      PROVE  /\ task'[t] \in Profile /\ task'[t].running_id = FALSE
             /\ task'[t].remain_retry_count = task[t].remain_retry_count
  <2>1. task'[t] = InitSendParam(task[t]) /\ task[t] \in Profile  BY <1>1, <1>3 DEF Redo
  <2>2. PICK p \in Profile : p = task[t]  BY <2>1
  <2> QED  BY <2>1, <2>2, Reset
<1>5. \A t \in Tasks \ Listed : task'[t] = task[t]  BY DEF Redo
<1>6. task' \in [Tasks -> Profile]
  <2>1. \A t \in Tasks : task'[t] \in Profile  BY <1>3, <1>4, <1>5
  <2>2. task' = [t \in Tasks |-> task'[t]]  BY DEF Redo
  <2> QED  BY <2>1, <2>2
<1>7. Running' = {}  BY <1>2, <1>4 DEF Running
<1>8. NewInv'
  <2>1. \A t \in Tasks : outcome[t] \in {"new", "posted"} => t \notin Listed  BY <1>1
  <2> QED  BY <1>1, <1>5, <2>1 DEF Redo, TaskInv, NewInv
<1>9. RetryInv'
  <2> SUFFICES ASSUME NEW t \in Tasks
               PROVE  sends'[t] <= (RetryCount - task'[t].remain_retry_count) + redos'
                                   + (IF task'[t].running_id THEN 1 ELSE 0)
    BY DEF RetryInv
  <2>1. sends[t] <= (RetryCount - task[t].remain_retry_count) + redos + (IF task[t].running_id THEN 1 ELSE 0)
    BY DEF TaskInv, RetryInv
  <2>2. sends'[t] = sends[t] /\ redos' = redos + 1 /\ sends[t] \in Nat /\ RetryCount \in Nat
        /\ task[t].remain_retry_count \in Int
    BY <1>3, TasksAssumption DEF Redo, Profile
  <2>3. task'[t].remain_retry_count = task[t].remain_retry_count  BY <1>4, <1>5
  <2>4. task'[t] = task[t] \/ task'[t].running_id = FALSE  BY <1>4, <1>5
  <2> QED  BY <1>3, <2>1, <2>2, <2>3, <2>4
<1>10. Moves  BY <1>1 DEF Redo, Moves, MovesTo
<1> QED  BY <1>2, <1>3, <1>6, <1>7, <1>8, <1>9, <1>10 DEF Redo, TaskInv, TaskTypes

LEMMA MarksStep ==
  ASSUME TaskInv, NEW t \in Listed, Marks(t)
  PROVE  TaskInv' /\ Listed' = Listed /\ Running' = Running /\ Moves
<1>1. /\ outcome' = outcome /\ outcome \in [Tasks -> Outcomes]
      /\ t \in Tasks /\ outcome[t] = "listed" /\ Listed \subseteq Tasks
  BY DEF Marks, TaskInv, ListInv
<1>2. ListInv' /\ Listed' = Listed  BY <1>1, SameList DEF Marks, TaskInv
<1>3. task \in [Tasks -> Profile]  BY DEF TaskInv, TaskTypes
<1>4. /\ task'[t] \in Profile /\ task'[t].running_id = task[t].running_id
      /\ task'[t].remain_retry_count = task[t].remain_retry_count
  <2>1. PICK p \in Profile : p = task[t]  BY <1>1, <1>3
  <2>2. \/ task'[t] = [p EXCEPT !.start_send_time = TRUE]
        \/ task'[t] = [p EXCEPT !.antiavalanche_checked = TRUE]
    BY <1>1, <1>3, <2>1 DEF Marks
  <2> QED  BY <2>1, <2>2, Marked
<1>5. \A u \in Tasks : u # t => task'[u] = task[u]  BY <1>3 DEF Marks
<1>6. task' \in [Tasks -> Profile]
  <2>1. \A u \in Tasks : task'[u] \in Profile  BY <1>3, <1>4, <1>5
  <2>2. task' = [u \in Tasks |-> task'[u]]  BY <1>3 DEF Marks
  <2> QED  BY <2>1, <2>2
<1>7. Running' = Running  BY <1>1, <1>2, <1>4, <1>5 DEF Running
<1>8. NewInv'  BY <1>1, <1>5 DEF Marks, TaskInv, NewInv
<1>9. RetryInv'
  <2>1. \A u \in Tasks : /\ task'[u].running_id = task[u].running_id
                         /\ task'[u].remain_retry_count = task[u].remain_retry_count
    BY <1>4, <1>5
  <2> QED  BY <2>1 DEF Marks, TaskInv, RetryInv
<1>10. Moves  BY <1>1 DEF Marks, Moves, MovesTo
<1> QED  BY <1>2, <1>6, <1>7, <1>8, <1>9, <1>10 DEF Marks, TaskInv, TaskTypes

LEMMA GivesStep ==
  ASSUME TaskInv, NEW t \in Listed \ Running, Gives(t)
  PROVE  /\ TaskInv' /\ Moves
         /\ IF t \in SendOnly THEN Listed' = Listed \ {t} /\ Running' = Running
                              ELSE Listed' = Listed /\ Running' = Running \cup {t}
<1>1. /\ outcome \in [Tasks -> Outcomes]
      /\ t \in Tasks /\ outcome[t] = "listed" /\ Listed \subseteq Tasks /\ ~task[t].running_id
  BY DEF TaskInv, ListInv, Running
<1>2. task \in [Tasks -> Profile] /\ sends \in [Tasks -> Nat] /\ redos \in Nat  BY DEF TaskInv, TaskTypes
<1>3. /\ task'[t] \in Profile /\ task'[t].running_id = TRUE
      /\ task'[t].remain_retry_count = task[t].remain_retry_count
  <2>1. PICK p \in Profile : p = task[t]  BY <1>1, <1>2
  <2>2. PICK a : a = [p EXCEPT !.antiavalanche_checked = TRUE]  OBVIOUS
  <2>3. a \in Profile /\ a.remain_retry_count = p.remain_retry_count  BY <2>2 DEF Profile
  <2>4. PICK b : b = [a EXCEPT !.running_id = TRUE]  OBVIOUS
  <2>5. b \in Profile /\ b.running_id = TRUE /\ b.remain_retry_count = p.remain_retry_count
    BY <2>3, <2>4 DEF Profile
  <2>6. task'[t] = b  BY <1>1, <1>2, <2>1, <2>2, <2>4 DEF Gives
  <2> QED  BY <2>1, <2>5, <2>6
<1>4. \A u \in Tasks : u # t => task'[u] = task[u]  BY <1>2 DEF Gives
<1>5. task' \in [Tasks -> Profile]
  <2>1. \A u \in Tasks : task'[u] \in Profile  BY <1>2, <1>3, <1>4
  <2>2. task' = [u \in Tasks |-> task'[u]]  BY <1>2 DEF Gives
  <2> QED  BY <2>1, <2>2
<1>6. sends' \in [Tasks -> Nat] /\ \A u \in Tasks : sends'[u] = IF u = t THEN sends[t] + 1 ELSE sends[u]
  BY <1>1, <1>2 DEF Gives
<1>7. ListInv' /\ Listed' = IF t \in SendOnly THEN Listed \ {t} ELSE Listed
  <2>1. CASE t \in SendOnly
    <3>1. PICK S \in SUBSET Listed : S = {t}  OBVIOUS
    <3>2. lst_cmd_' = Without(S) /\ outcome' = EndAs(S, "ok")  BY <2>1, <3>1 DEF Gives
    <3> QED  BY <2>1, <3>1, <3>2, Removal DEF TaskInv, Outcomes
  <2>2. CASE t \notin SendOnly  BY <1>1, <2>2, SameList DEF Gives, TaskInv
  <2> QED  BY <2>1, <2>2
<1>8. \A u \in Tasks : outcome'[u] = IF u = t /\ t \in SendOnly THEN "ok" ELSE outcome[u]
  BY DEF Gives, EndAs
<1>9. NewInv'  BY <1>1, <1>4, <1>6, <1>8 DEF TaskInv, NewInv
<1>10. RetryInv'
  <2> SUFFICES ASSUME NEW u \in Tasks
               PROVE  sends'[u] <= (RetryCount - task'[u].remain_retry_count) + redos'
                                   + (IF task'[u].running_id THEN 1 ELSE 0)
    BY DEF RetryInv
  <2>1. sends[u] <= (RetryCount - task[u].remain_retry_count) + redos + (IF task[u].running_id THEN 1 ELSE 0)
    BY DEF TaskInv, RetryInv
  <2>2. redos' = redos  BY DEF Gives
  <2>3. CASE u = t
    <3>1. sends[t] \in Nat /\ RetryCount \in Nat /\ task[t].remain_retry_count \in Int
      BY <1>1, <1>2, TasksAssumption DEF Profile
    <3> QED  BY <1>1, <1>2, <1>3, <1>6, <2>1, <2>2, <2>3, <3>1
  <2>4. CASE u # t  BY <1>4, <1>6, <2>1, <2>2, <2>4
  <2> QED  BY <2>3, <2>4
<1>11. Moves
  <2> SUFFICES ASSUME NEW u \in Tasks  PROVE MovesTo(u)  BY DEF Moves
  <2>1. CASE u = t
    <3>1. sends'[t] = sends[t] + 1 /\ sends'[t] > 0  BY <1>1, <1>2, <1>6
    <3> QED  BY <1>1, <1>8, <2>1, <3>1 DEF MovesTo, Ended
  <2>2. CASE u # t  BY <1>6, <1>8, <2>2 DEF MovesTo
  <2> QED  BY <2>1, <2>2
<1>12. IF t \in SendOnly THEN Running' = Running ELSE Running' = Running \cup {t}
  BY <1>1, <1>3, <1>4, <1>7 DEF Running
<1> QED
  BY <1>2, <1>5, <1>6, <1>7, <1>9, <1>10, <1>11, <1>12 DEF Gives, TaskInv, TaskTypes

LEMMA TaskStep ==
  ASSUME TaskInv, TaskEffect
  PROVE  TaskInv' /\ Moves
<1>1. CASE Still  BY <1>1, StillStep
<1>2. CASE Redo  BY <1>2, RedoStep
<1>3. CASE \E t \in Tasks : Posts(t)  BY <1>3, PostsStep
<1>4. CASE \E t \in Tasks : Lists(t)  BY <1>4, ListsStep
<1>5. CASE \E t \in Listed : Marks(t)  BY <1>5, MarksStep
<1>6. CASE \E t \in Listed \ Running : Gives(t)  BY <1>6, GivesStep
<1>7. CASE \E S \in SUBSET Listed, how \in Ended : EndsAs(S, how)  BY <1>7, EndsStep
<1>8. CASE \E S \in SUBSET Listed : Batch(S)
  <2>1. PICK S \in SUBSET Listed : Batch(S)  BY <1>8
  <2>2. \A t \in Tasks : /\ sends'[t] = sends[t]
                         /\ outcome'[t] = outcome[t] \/ (outcome[t] = "listed" /\ outcome'[t] = "failed")
    BY <2>1, BatchStep
  <2>3. Moves  BY <2>2 DEF Moves, MovesTo, Ended
  <2> QED  BY <2>1, <2>3, BatchStep
<1> QED  BY <1>1, <1>2, <1>3, <1>4, <1>5, <1>6, <1>7, <1>8 DEF TaskEffect, Ended
-----------------------------------------------------------------------------
(* The steps of a handler                                                  *)

LEMMA StepsAfter ==
  /\ After["disconnect"] = {"cancel", "redo", "connect", "clear"}
  /\ After["join"] = {"cancel", "redo", "connect", "clear"}
  /\ After["joining"] = {"cancel", "redo", "connect", "clear"}
  /\ After["cancel"] = {"disconnect", "start", "noretry"}
  /\ After["connect"] = {"redo"} /\ After["noretry"] = {"loop"}
  /\ \A s \in {"redo", "clear", "session", "loop", "start", "each"} : After[s] = {}
  /\ \A s \in Steps : After[s] \subseteq Steps
BY DEF After, Steps

(* A step is done: the next one is one that may come after it, or there is *)
(* none.                                                                   *)
Advances == /\ At \in Steps /\ At' \in After[At] \cup {"idle"}
            /\ IF At' = "idle" THEN Goal' = "idle" /\ Goal = At ELSE Goal' = Goal

LEMMA AtGoal ==
  ASSUME Chain(mq)
  PROVE  /\ mq = <<>> <=> At = "idle"
         /\ mq # <<>> => At \in Steps /\ Goal \in Steps /\ At = Head(mq) /\ Goal = mq[Len(mq)]
         /\ mq = <<>> => Goal = "idle"
<1>1. PICK q \in Seq(Steps) : q = mq  BY DEF Chain
<1>2. q # <<>> => Head(q) \in Steps /\ Len(q) \in 1..Len(q)
  <2>1. q # <<>> => Len(q) \in Nat \ {0} /\ Head(q) = q[1]  OBVIOUS
  <2> QED  BY <2>1
<1>3. q # <<>> => q[Len(q)] \in Steps  BY <1>2
<1>4. "idle" \notin Steps  BY DEF Steps
<1> QED  BY <1>1, <1>2, <1>3, <1>4 DEF At, Goal, AtOf, GoalOf

LEMMA ChainTail ==
  ASSUME NEW q, Chain(q), q # <<>>
  PROVE  /\ Chain(Tail(q)) /\ Head(q) \in Steps
         /\ AtOf(Tail(q)) \in After[Head(q)] \cup {"idle"}
         /\ IF Tail(q) = <<>> THEN GoalOf(q) = Head(q) ELSE AtOf(Tail(q)) # "idle" /\ GoalOf(Tail(q)) = GoalOf(q)
<1>1. /\ q \in Seq(Steps) /\ Len(q) \in Nat \ {0} /\ Head(q) = q[1] /\ Head(q) \in Steps
      /\ Tail(q) \in Seq(Steps) /\ Len(Tail(q)) = Len(q) - 1
      /\ \A i \in 1..Len(q) - 1 : Tail(q)[i] = q[i + 1]
      /\ \A i \in 1..Len(q) - 1 : q[i + 1] \in After[q[i]]
  BY DEF Chain
<1>2. PICK r \in Seq(Steps) : r = Tail(q)  BY <1>1
<1>3. Len(r) = Len(q) - 1 /\ \A i \in 1..Len(r) : r[i] = q[i + 1]  BY <1>1, <1>2
<1>4. Chain(r)
  <2> SUFFICES ASSUME NEW i \in 1..Len(r) - 1  PROVE r[i + 1] \in After[r[i]]  BY DEF Chain
  <2>1. i + 1 \in 1..Len(q) - 1 /\ i \in 1..Len(r) /\ i + 1 \in 1..Len(r)  BY <1>1, <1>3
  <2>2. q[(i + 1) + 1] \in After[q[i + 1]]  BY <1>1, <2>1
  <2>3. r[i] = q[i + 1] /\ r[i + 1] = q[(i + 1) + 1]  BY <1>3, <2>1
  <2> QED  BY <2>2, <2>3
<1>5. CASE r = <<>>
  <2>1. Len(q) = 1
    <3>1. Len(r) = 0  BY <1>5
    <3>2. Len(r) = Len(q) - 1 /\ Len(q) \in Nat  BY <1>1, <1>3
    <3> QED  BY <3>1, <3>2
  <2> QED  BY <1>1, <1>2, <1>4, <1>5, <2>1 DEF AtOf, GoalOf
<1>6. CASE r # <<>>
  <2>1. Len(r) \in Nat \ {0} /\ Head(r) = r[1]  BY <1>6
  <2>2. r[1] = q[2] /\ q[2] \in After[q[1]]
    <3>1. 1 \in 1..Len(r) /\ 1 \in 1..Len(q) - 1 /\ 1 + 1 = 2  BY <1>1, <1>3, <2>1
    <3> QED  BY <1>1, <1>3, <3>1
  <2>3. r[Len(r)] = q[Len(q)]
    <3>1. Len(r) \in 1..Len(r) /\ Len(r) + 1 = Len(q)  BY <1>1, <1>3, <2>1
    <3> QED  BY <1>3, <3>1
  <2>4. After[q[1]] \subseteq Steps /\ "idle" \notin Steps  BY <1>1, StepsAfter DEF Steps
  <2> QED  BY <1>1, <1>2, <1>4, <1>6, <2>1, <2>2, <2>3, <2>4 DEF AtOf, GoalOf
<1> QED  BY <1>5, <1>6

(* One step before others.                                                 *)
LEMMA ChainCons ==
  ASSUME NEW q, Chain(q), NEW s \in Steps, AtOf(q) \in After[s] \cup {"idle"}
  PROVE  /\ Chain(<<s>> \o q) /\ AtOf(<<s>> \o q) = s
         /\ GoalOf(<<s>> \o q) = IF q = <<>> THEN s ELSE GoalOf(q)
<1>1. q \in Seq(Steps) /\ Len(q) \in Nat /\ \A i \in 1..Len(q) - 1 : q[i + 1] \in After[q[i]]
  BY DEF Chain
<1>2. PICK r \in Seq(Steps) : r = <<s>> \o q
  <2>1. <<s>> \in Seq(Steps) /\ q \in Seq(Steps)  BY <1>1
  <2>2. <<s>> \o q \in Seq(Steps)  BY <2>1
  <2> QED  BY <2>2
<1>3. Len(r) = Len(q) + 1 /\ r[1] = s /\ \A i \in 1..Len(q) : r[i + 1] = q[i]
  BY <1>1, <1>2
<1>4. r # <<>> /\ Head(r) = s  BY <1>1, <1>3
<1>5. q # <<>> => q[1] \in After[s] /\ Len(q) > 0
  <2>1. q # <<>> => AtOf(q) = q[1] /\ q[1] \in Steps /\ Len(q) > 0  BY <1>1 DEF AtOf
  <2>2. "idle" \notin Steps  BY DEF Steps
  <2> QED  BY <2>1, <2>2
<1>6. Chain(r)
  <2> SUFFICES ASSUME NEW i \in 1..Len(r) - 1  PROVE r[i + 1] \in After[r[i]]  BY DEF Chain
  <2>1. CASE i = 1
    <3>1. Len(q) > 0 /\ 1 \in 1..Len(q)  BY <1>1, <1>3, <2>1
    <3>2. q # <<>> /\ r[i + 1] = q[1] /\ r[i] = s  BY <1>3, <2>1, <3>1
    <3> QED  BY <1>5, <3>2
  <2>2. CASE i # 1
    <3>1. PICK j \in Nat : i = j + 1  BY <1>1, <1>3, <2>2
    <3>2. j \in 1..Len(q) - 1 /\ j \in 1..Len(q) /\ j + 1 \in 1..Len(q)  BY <1>1, <1>3, <2>2, <3>1
    <3> QED  BY <1>1, <1>3, <3>1, <3>2
  <2> QED  BY <2>1, <2>2
<1>7. q # <<>> => r[Len(r)] = q[Len(q)]
  <2>1. q # <<>> => Len(q) \in 1..Len(q)  BY <1>1
  <2> QED  BY <1>3, <2>1
<1> QED  BY <1>2, <1>3, <1>4, <1>6, <1>7 DEF AtOf, GoalOf

LEMMA ChainEmpty == Chain(<<>>) /\ AtOf(<<>>) = "idle" /\ GoalOf(<<>>) = "idle"
BY DEF Chain, AtOf, GoalOf

(* What a handler does next: the same, the next step, or a program of its  *)
(* own.                                                                    *)
Holds        == Chain(mq') /\ At' = At /\ Goal' = Goal
Goes         == Chain(mq') /\ Advances
Waits(s)     == Chain(mq') /\ At' = s /\ (Goal' = Goal \/ (Goal = At /\ Goal' = s))
Runs(s, end) == Chain(mq') /\ At' = s /\ Goal' = end

LEMMA Holding ==
  ASSUME Chain(mq), mq' = mq
  PROVE  Holds
BY DEF Holds, At, Goal

LEMMA Going ==
  ASSUME Chain(mq), mq # <<>>, Finished
  PROVE  Goes /\ At = Head(mq)
<1>1. PICK q : q = mq  OBVIOUS
<1>2. /\ Chain(Tail(q)) /\ Head(q) \in Steps
      /\ AtOf(Tail(q)) \in After[Head(q)] \cup {"idle"}
      /\ IF Tail(q) = <<>> THEN GoalOf(q) = Head(q) ELSE AtOf(Tail(q)) # "idle" /\ GoalOf(Tail(q)) = GoalOf(q)
  BY <1>1, ChainTail
<1>3. At = Head(q) /\ Goal = GoalOf(q)  BY <1>1 DEF At, AtOf, Goal
<1>4. mq' = Tail(q)  BY <1>1 DEF Finished
<1>5. At' = AtOf(Tail(q)) /\ Goal' = GoalOf(Tail(q))  BY <1>4 DEF At, Goal
<1>6. CASE Tail(q) = <<>>
  <2>1. At' = "idle" /\ Goal' = "idle"  BY <1>5, <1>6, ChainEmpty
  <2> QED  BY <1>1, <1>2, <1>3, <1>4, <1>6, <2>1 DEF Goes, Advances
<1>7. CASE Tail(q) # <<>>  BY <1>1, <1>2, <1>3, <1>4, <1>5, <1>7 DEF Goes, Advances
<1> QED  BY <1>6, <1>7

LEMMA Waiting ==
  ASSUME Chain(mq), mq # <<>>, Head(mq) \in {"disconnect", "join"}, NEW s \in {"join", "joining"},
         Then(<<s>>)
  PROVE  Waits(s) /\ At = Head(mq)
<1>1. PICK q : q = mq  OBVIOUS
<1>2. /\ Chain(Tail(q)) /\ AtOf(Tail(q)) \in After[Head(q)] \cup {"idle"}
      /\ IF Tail(q) = <<>> THEN GoalOf(q) = Head(q) ELSE GoalOf(Tail(q)) = GoalOf(q)
  BY <1>1, ChainTail
<1>3. After[Head(q)] = After[s] /\ s \in Steps  BY <1>1, StepsAfter DEF Steps
<1>4. PICK r : r = Tail(q)  OBVIOUS
<1>5. /\ Chain(<<s>> \o r) /\ AtOf(<<s>> \o r) = s
      /\ GoalOf(<<s>> \o r) = IF r = <<>> THEN s ELSE GoalOf(r)
  BY <1>2, <1>3, <1>4, ChainCons
<1>6. mq' = <<s>> \o r  BY <1>1, <1>4 DEF Then
<1>7. At = Head(q) /\ Goal = GoalOf(q)  BY <1>1 DEF At, AtOf, Goal
<1>8. At' = s /\ Goal' = IF r = <<>> THEN s ELSE GoalOf(r)  BY <1>5, <1>6 DEF At, Goal
<1> QED  BY <1>1, <1>2, <1>4, <1>5, <1>6, <1>7, <1>8 DEF Waits

(* A step that nothing comes after is the last one.                        *)
LEMMA NothingAfter ==
  ASSUME Chain(mq), mq # <<>>, Head(mq) \in {"redo", "clear", "session", "loop", "start", "each"}
  PROVE  Tail(mq) = <<>> /\ At = Head(mq) /\ Goal = At
<1>1. PICK q : q = mq  OBVIOUS
<1>2. /\ AtOf(Tail(q)) \in After[Head(q)] \cup {"idle"}
      /\ IF Tail(q) = <<>> THEN GoalOf(q) = Head(q) ELSE AtOf(Tail(q)) # "idle"
  BY <1>1, ChainTail
<1>3. After[Head(q)] = {}  BY <1>1, StepsAfter
<1>4. At = Head(q) /\ Goal = GoalOf(q)  BY <1>1 DEF At, AtOf, Goal
<1> QED  BY <1>1, <1>2, <1>3, <1>4

(* The programs.                                                           *)
LEMMA Programs ==
  /\ \A s \in Steps : Chain(<<s>>) /\ AtOf(<<s>>) = s /\ GoalOf(<<s>>) = s
  /\ \A q : q \in {<<"disconnect", "redo">>, <<"disconnect", "connect", "redo">>} =>
        Chain(q) /\ AtOf(q) = "disconnect" /\ GoalOf(q) = "redo"
  /\ \A q : q = <<"disconnect", "clear">> => Chain(q) /\ AtOf(q) = "disconnect" /\ GoalOf(q) = "clear"
  /\ \A q : q \in {<<"disconnect", "cancel">>, <<"disconnect", "cancel", "disconnect", "cancel">>} =>
        Chain(q) /\ AtOf(q) = "disconnect" /\ GoalOf(q) = "cancel"
  /\ \A q : q = <<"disconnect", "cancel", "noretry", "loop">> =>
        Chain(q) /\ AtOf(q) = "disconnect" /\ GoalOf(q) = "loop"
  /\ \A q : q = <<"disconnect", "cancel", "disconnect", "cancel", "start">> =>
        Chain(q) /\ AtOf(q) = "disconnect" /\ GoalOf(q) = "start"
<1>1. \A s \in Steps : Chain(<<s>>) /\ AtOf(<<s>>) = s /\ GoalOf(<<s>>) = s
  BY DEF Chain, AtOf, GoalOf
<1>2. ASSUME NEW q, q \in {<<"disconnect", "redo">>, <<"disconnect", "connect", "redo">>}
      PROVE  Chain(q) /\ AtOf(q) = "disconnect" /\ GoalOf(q) = "redo"
  <2>1. CASE q = <<"disconnect", "redo">>  BY <2>1, StepsAfter DEF Chain, AtOf, GoalOf, Steps
  <2>2. CASE q = <<"disconnect", "connect", "redo">>  BY <2>2, StepsAfter DEF Chain, AtOf, GoalOf, Steps
  <2> QED  BY <1>2, <2>1, <2>2
<1>3. ASSUME NEW q, q = <<"disconnect", "clear">>
      PROVE  Chain(q) /\ AtOf(q) = "disconnect" /\ GoalOf(q) = "clear"
  BY <1>3, StepsAfter DEF Chain, AtOf, GoalOf, Steps
<1>4. ASSUME NEW q, q \in {<<"disconnect", "cancel">>, <<"disconnect", "cancel", "disconnect", "cancel">>}
      PROVE  Chain(q) /\ AtOf(q) = "disconnect" /\ GoalOf(q) = "cancel"
  <2>1. CASE q = <<"disconnect", "cancel">>  BY <2>1, StepsAfter DEF Chain, AtOf, GoalOf, Steps
  <2>2. CASE q = <<"disconnect", "cancel", "disconnect", "cancel">>
    BY <2>2, StepsAfter DEF Chain, AtOf, GoalOf, Steps
  <2> QED  BY <1>4, <2>1, <2>2
<1>5. ASSUME NEW q, q = <<"disconnect", "cancel", "noretry", "loop">>
      PROVE  Chain(q) /\ AtOf(q) = "disconnect" /\ GoalOf(q) = "loop"
  BY <1>5, StepsAfter DEF Chain, AtOf, GoalOf, Steps
<1>6. ASSUME NEW q, q = <<"disconnect", "cancel", "disconnect", "cancel", "start">>
      PROVE  Chain(q) /\ AtOf(q) = "disconnect" /\ GoalOf(q) = "start"
  BY <1>6, StepsAfter DEF Chain, AtOf, GoalOf, Steps
<1> QED  BY <1>1, <1>2, <1>3, <1>4, <1>5, <1>6

(* The end of the program of a call.                                       *)
EndOf(type) == IF type \in {"RedoTasks", "OnNetworkChange"} THEN "redo"
               ELSE IF type = "ClearTasks" THEN "clear" ELSE "disconnect"

LEMMA RunsProgram ==
  ASSUME NEW q, Chain(q), mq' = q
  PROVE  Runs(AtOf(q), GoalOf(q))
BY DEF Runs, At, Goal

LEMMA Idles ==
  ASSUME Chain(mq), mq # <<>>, Finished,
         Head(mq) \in {"redo", "clear", "session", "loop", "start", "each"}
  PROVE  Runs("idle", "idle")
<1>1. mq' = <<>>  BY NothingAfter DEF Finished
<1> QED  BY <1>1, ChainEmpty, RunsProgram

(* The program takes the place of a last step.                             *)
LEMMA RunsThen ==
  ASSUME Chain(mq), mq # <<>>, NEW q, Chain(q), Then(q),
         Head(mq) \in {"redo", "clear", "session", "loop", "start", "each"}
  PROVE  Runs(AtOf(q), GoalOf(q))
<1>1. mq' = q \o <<>>  BY NothingAfter DEF Then
<1>2. q \in Seq(Steps)  BY DEF Chain
<1>3. mq' = q  BY <1>1, <1>2
<1> QED  BY <1>3, RunsProgram

LEMMA HandlerControl ==
  ASSUME Chain(mq)
  PROVE  /\ Disconnect => At = "disconnect" /\ IF thread_ = "none" THEN Goes ELSE Waits("join")
         /\ Join => At = "join" /\ IF thread_ = "none" THEN Goes ELSE Waits("joining")
         /\ Joined => At = "joining" /\ Goes
         /\ CancelMessage => At = "cancel" /\ Goes
         /\ Reconnect => At = "connect" /\ Goes
         /\ NoRetryInterval => At = "noretry" /\ Goes
<1>1. ASSUME Disconnect PROVE At = "disconnect" /\ IF thread_ = "none" THEN Goes ELSE Waits("join")
  <2>1. mq # <<>> /\ Head(mq) = "disconnect"  BY <1>1 DEF Disconnect
  <2>2. CASE thread_ = "none"
    <3>1. Finished  BY <1>1, <2>2 DEF Disconnect
    <3> QED  BY <2>1, <2>2, <3>1, Going
  <2>3. CASE thread_ # "none"
    <3>1. Then(<<"join">>)  BY <1>1, <2>3 DEF Disconnect
    <3> QED  BY <2>1, <2>3, <3>1, Waiting
  <2> QED  BY <2>2, <2>3
<1>2. ASSUME Join PROVE At = "join" /\ IF thread_ = "none" THEN Goes ELSE Waits("joining")
  <2>1. mq # <<>> /\ Head(mq) = "join"  BY <1>2 DEF Join
  <2>2. CASE thread_ = "none"
    <3>1. Finished  BY <1>2, <2>2 DEF Join
    <3> QED  BY <2>1, <2>2, <3>1, Going
  <2>3. CASE thread_ # "none"
    <3>1. Then(<<"joining">>)  BY <1>2, <2>3 DEF Join
    <3> QED  BY <2>1, <2>3, <3>1, Waiting
  <2> QED  BY <2>2, <2>3
<1>3. ASSUME Joined PROVE At = "joining" /\ Goes
  BY <1>3, Going DEF Joined
<1>4. ASSUME CancelMessage PROVE At = "cancel" /\ Goes
  BY <1>4, Going DEF CancelMessage
<1>5. ASSUME Reconnect PROVE At = "connect" /\ Goes
  BY <1>5, Going DEF Reconnect
<1>6. ASSUME NoRetryInterval PROVE At = "noretry" /\ Goes
  BY <1>6, Going DEF NoRetryInterval
<1> QED  BY <1>1, <1>2, <1>3, <1>4, <1>5, <1>6

LEMMA LoopControl ==
  ASSUME Chain(mq)
  PROVE  /\ RedoTasks => At = "redo" /\ Goal = At /\ Runs("loop", "loop")
         /\ Clear => At = "clear" /\ Goal = At /\ Runs("idle", "idle")
         /\ SessionTimeout => At = "session" /\ Goal = At /\ Runs("disconnect", "loop")
         /\ RunLoopEnd => At = "each" /\ Goal = At /\ Runs("idle", "idle")
         /\ \A over, late : RunLoop(over, late) =>
              /\ At = "loop" /\ Goal = At
              /\ IF over \cup late = {}
                 THEN IF lst_cmd_ = <<>> THEN Runs("idle", "idle") ELSE Runs("start", "start")
                 ELSE Runs("disconnect", "start")
         /\ \A passed : RunOnStartTask(passed) => At = "start" /\ Goal = At /\ Runs("each", "each")
         /\ \A t : Each(t) => At = "each" /\ Goal = At /\ (mq' = mq => Holds)
<1>1. ASSUME RedoTasks PROVE At = "redo" /\ Goal = At /\ Runs("loop", "loop")
  <2>1. mq # <<>> /\ Head(mq) = "redo" /\ Then(<<"loop">>)  BY <1>1 DEF RedoTasks
  <2>2. PICK q : q = <<"loop">>  OBVIOUS
  <2>3. Chain(q) /\ AtOf(q) = "loop" /\ GoalOf(q) = "loop"  BY <2>2, Programs DEF Steps
  <2>4. Runs(AtOf(q), GoalOf(q))  BY <2>1, <2>2, <2>3, RunsThen
  <2> QED  BY <2>1, <2>3, <2>4, NothingAfter
<1>2. ASSUME Clear PROVE At = "clear" /\ Goal = At /\ Runs("idle", "idle")
  BY <1>2, Idles, NothingAfter DEF Clear
<1>3. ASSUME SessionTimeout PROVE At = "session" /\ Goal = At /\ Runs("disconnect", "loop")
  <2>1. mq # <<>> /\ Head(mq) = "session" /\ Then(<<"disconnect", "cancel", "noretry", "loop">>)
    BY <1>3 DEF SessionTimeout
  <2>2. PICK q : q = <<"disconnect", "cancel", "noretry", "loop">>  OBVIOUS
  <2>3. Chain(q) /\ AtOf(q) = "disconnect" /\ GoalOf(q) = "loop"  BY <2>2, Programs
  <2>4. Runs(AtOf(q), GoalOf(q))  BY <2>1, <2>2, <2>3, RunsThen
  <2> QED  BY <2>1, <2>3, <2>4, NothingAfter
<1>4. ASSUME RunLoopEnd PROVE At = "each" /\ Goal = At /\ Runs("idle", "idle")
  BY <1>4, Idles, NothingAfter DEF RunLoopEnd
<1>5. ASSUME NEW over, NEW late, RunLoop(over, late)
      PROVE  /\ At = "loop" /\ Goal = At
             /\ IF over \cup late = {}
                THEN IF lst_cmd_ = <<>> THEN Runs("idle", "idle") ELSE Runs("start", "start")
                ELSE Runs("disconnect", "start")
  <2>1. mq # <<>> /\ Head(mq) = "loop" /\ At = "loop" /\ Goal = At  BY <1>5, NothingAfter DEF RunLoop
  <2>2. CASE over \cup late = {} /\ lst_cmd_ = <<>>
    <3>1. Finished  BY <1>5, <2>2 DEF RunLoop
    <3> QED  BY <2>1, <2>2, <3>1, Idles
  <2>3. CASE over \cup late = {} /\ lst_cmd_ # <<>>
    <3>1. Then(<<"start">>)  BY <1>5, <2>3 DEF RunLoop
    <3>2. PICK q : q = <<"start">>  OBVIOUS
    <3>3. Chain(q) /\ AtOf(q) = "start" /\ GoalOf(q) = "start"  BY <3>2, Programs DEF Steps
    <3>4. Runs(AtOf(q), GoalOf(q))  BY <2>1, <3>1, <3>2, <3>3, RunsThen
    <3> QED  BY <2>1, <2>3, <3>3, <3>4
  <2>4. CASE over \cup late # {}
    <3>1. Then(<<"disconnect", "cancel", "disconnect", "cancel", "start">>)  BY <1>5, <2>4 DEF RunLoop
    <3>2. PICK q : q = <<"disconnect", "cancel", "disconnect", "cancel", "start">>  OBVIOUS
    <3>3. Chain(q) /\ AtOf(q) = "disconnect" /\ GoalOf(q) = "start"  BY <3>2, Programs
    <3>4. Runs(AtOf(q), GoalOf(q))  BY <2>1, <3>1, <3>2, <3>3, RunsThen
    <3> QED  BY <2>1, <2>4, <3>3, <3>4
  <2> QED  BY <2>2, <2>3, <2>4
<1>6. ASSUME NEW passed, RunOnStartTask(passed) PROVE At = "start" /\ Goal = At /\ Runs("each", "each")
  <2>1. mq # <<>> /\ Head(mq) = "start" /\ Then(<<"each">>)  BY <1>6 DEF RunOnStartTask
  <2>2. PICK q : q = <<"each">>  OBVIOUS
  <2>3. Chain(q) /\ AtOf(q) = "each" /\ GoalOf(q) = "each"  BY <2>2, Programs DEF Steps
  <2>4. Runs(AtOf(q), GoalOf(q))  BY <2>1, <2>2, <2>3, RunsThen
  <2> QED  BY <2>1, <2>3, <2>4, NothingAfter
<1>7. ASSUME NEW t, Each(t) PROVE At = "each" /\ Goal = At /\ (mq' = mq => Holds)
  BY <1>7, NothingAfter, Holding DEF Each
<1> QED  BY <1>1, <1>2, <1>3, <1>4, <1>5, <1>6, <1>7

LEMMA MessageControl ==
  ASSUME Chain(mq)
  PROVE  /\ Timer \/ SignalConnection => At = "idle" /\ Runs("loop", "loop")
         /\ \A t : StartTask(t) => At = "idle" /\ Runs("loop", "loop")
         /\ AutoConnect => At = "idle" /\ Holds
         /\ \A t : StopTask(t) \/ OnSendTask(t) => At = "idle" /\ Holds
         /\ \A type \in Calls : NetCoreCall(type) => At = "idle" /\ Runs("disconnect", EndOf(type))
         /\ OnErrorResponse => At = "idle" /\ Runs("disconnect", "cancel")
         /\ \A t, handle : OnResponse(t, handle) =>
              /\ At = "idle"
              /\ t \notin Listed \/ handle \in {"NoError", "TaskEnd"} => Holds
              /\ t \in Listed /\ handle = "Default" => Runs("disconnect", "cancel")
              /\ t \in Listed /\ handle = "SessionTimeout" => Runs("session", "session")
<1>1. mq = <<>> => At = "idle"  BY DEF At, AtOf
<1>2. mq' = <<"loop">> => Runs("loop", "loop")
  <2>1. PICK q : q = <<"loop">>  OBVIOUS
  <2> QED  BY <2>1, Programs, RunsProgram DEF Steps
<1>3. mq' = <<"session">> => Runs("session", "session")
  <2>1. PICK q : q = <<"session">>  OBVIOUS
  <2> QED  BY <2>1, Programs, RunsProgram DEF Steps
<1>4. mq' = <<"disconnect", "cancel">> \/ mq' = <<"disconnect", "cancel", "disconnect", "cancel">>
        => Runs("disconnect", "cancel")
  <2> SUFFICES ASSUME mq' = <<"disconnect", "cancel">> \/ mq' = <<"disconnect", "cancel", "disconnect", "cancel">>
               PROVE Runs("disconnect", "cancel")
    OBVIOUS
  <2>1. PICK q : /\ q \in {<<"disconnect", "cancel">>, <<"disconnect", "cancel", "disconnect", "cancel">>}
                 /\ mq' = q
    OBVIOUS
  <2> QED  BY <2>1, Programs, RunsProgram
<1>5. ASSUME NEW type \in Calls, NetCoreCall(type)
      PROVE  At = "idle" /\ Runs("disconnect", EndOf(type))
  <2>1. mq = <<>> /\ mq' = Program(type)  BY <1>5 DEF NetCoreCall, Take
  <2>2. PICK q : q = Program(type)  OBVIOUS
  <2>3. Chain(q) /\ AtOf(q) = "disconnect" /\ GoalOf(q) = EndOf(type)
    <3>1. CASE type = "RedoTasks"  BY <2>2, <3>1, Programs DEF Program, EndOf
    <3>2. CASE type = "OnNetworkChange"  BY <2>2, <3>2, Programs DEF Program, EndOf
    <3>3. CASE type = "ClearTasks"  BY <2>2, <3>3, Programs DEF Program, EndOf
    <3>4. CASE type = "TimerCheckSuc"  BY <2>2, <3>4, Programs DEF Program, EndOf, Steps
    <3> QED  BY <3>1, <3>2, <3>3, <3>4, TasksAssumption
  <2> QED  BY <1>1, <2>1, <2>2, <2>3, RunsProgram
<1>6. ASSUME NEW t, NEW handle, OnResponse(t, handle)
      PROVE  /\ At = "idle"
             /\ t \notin Listed \/ handle \in {"NoError", "TaskEnd"} => Holds
             /\ t \in Listed /\ handle = "Default" => Runs("disconnect", "cancel")
             /\ t \in Listed /\ handle = "SessionTimeout" => Runs("session", "session")
  <2>1. At = "idle"  BY <1>1, <1>6 DEF OnResponse, Take
  <2>2. CASE t \notin Listed
    <3>1. mq' = mq  BY <1>6, <2>2 DEF OnResponse
    <3> QED  BY <2>1, <2>2, <3>1, Holding
  <2>3. CASE t \in Listed
    <3>1. handle \in {"NoError", "TaskEnd"} => mq' = mq  BY <1>6, <2>3 DEF OnResponse
    <3>2. handle = "Default" => mq' = <<"disconnect", "cancel">>  BY <1>6, <2>3 DEF OnResponse
    <3>3. handle = "SessionTimeout" => mq' = <<"session">>  BY <1>6, <2>3 DEF OnResponse
    <3> QED  BY <1>3, <1>4, <2>1, <2>3, <3>1, <3>2, <3>3, Holding
  <2> QED  BY <2>2, <2>3
<1>7. Timer \/ SignalConnection => At = "idle" /\ Runs("loop", "loop")
  BY <1>1, <1>2 DEF Timer, SignalConnection, Take
<1>8. \A t : StartTask(t) => At = "idle" /\ Runs("loop", "loop")
  BY <1>1, <1>2 DEF StartTask, Take
<1>9. AutoConnect => At = "idle" /\ Holds
  BY <1>1, Holding DEF AutoConnect, mqVars
<1>10. \A t : StopTask(t) \/ OnSendTask(t) => At = "idle" /\ Holds
  BY <1>1, Holding DEF StopTask, OnSendTask, Take, mqVars
<1>11. OnErrorResponse => At = "idle" /\ Runs("disconnect", "cancel")
  BY <1>1, <1>4 DEF OnErrorResponse, Take
<1> QED  BY <1>5, <1>6, <1>7, <1>8, <1>9, <1>10, <1>11
-----------------------------------------------------------------------------
(* What each step makes of the list and of the tasks that run              *)

Same     == Listed' = Listed /\ Running' = Running
Gone(t)  == Listed' = Listed \ {t} /\ Running' = Running \ {t}
NoneRuns == Listed' \subseteq Listed /\ Running' = {}

LEMMA Effects ==
  ASSUME LongInv
  PROVE  /\ Still => Same
         /\ \A t \in Tasks : Posts(t) => Same
         /\ \A t \in Listed : Marks(t) => Same
         /\ \A t \in Tasks, how \in Ended : t \in Listed /\ EndsAs({t}, how) => Gone(t)
         /\ \A S \in SUBSET Listed : Batch(S) => NoneRuns
<1>1. TaskInv  BY DEF LongInv, TypeInv, TaskInv, TaskTypes
<1>2. Still => Same  BY <1>1, StillStep DEF Same
<1>3. \A t \in Tasks : Posts(t) => Same  BY <1>1, PostsStep DEF Same
<1>4. \A t \in Listed : Marks(t) => Same  BY <1>1, MarksStep DEF Same
<1>5. \A S \in SUBSET Listed : Batch(S) => NoneRuns  BY <1>1, BatchStep DEF NoneRuns
<1>6. ASSUME NEW t \in Tasks, NEW how \in Ended, t \in Listed, EndsAs({t}, how)
      PROVE  Gone(t)
  <2>1. PICK S \in SUBSET Listed : S = {t}  BY <1>6
  <2>2. EndsAs(S, how)  BY <1>6, <2>1
  <2>3. Listed' = Listed \ S /\ Running' = Running \ S  BY <1>1, <2>2, EndsStep
  <2> QED  BY <2>1, <2>3 DEF Gone
<1> QED  BY <1>2, <1>3, <1>4, <1>5, <1>6

LEMMA SameSteps ==
  ASSUME LongInv
  PROVE  /\ UNCHANGED vars \/ Connection \/ AppConnect \/ AutoConnect \/ Timer \/ SignalConnection => Same
         /\ \A t \in Tasks : AppStart(t) \/ AppStop(t) => Same
         /\ \A type : AppCall(type) \/ NetCoreCall(type) => Same
         /\ Disconnect \/ Join \/ Joined \/ CancelMessage \/ Reconnect \/ NoRetryInterval \/ RunLoopEnd => Same
         /\ \A passed : RunOnStartTask(passed) => Same
         /\ \A t \in Tasks : SkipNotAuthed(t) => Same
<1>1. Still => Same  BY Effects
<1>2. UNCHANGED vars \/ Connection \/ AppConnect \/ AutoConnect \/ Timer \/ SignalConnection => Still
  BY DEF vars, taskVars, Connection, AppConnect, AutoConnect, Timer, SignalConnection, Still
<1>3. \A t \in Tasks : AppStop(t) => Still  BY DEF AppStop, taskVars, Still
<1>4. \A t \in Tasks : AppStart(t) => Posts(t)  BY DEF AppStart, Posts
<1>5. \A type : AppCall(type) \/ NetCoreCall(type) => Still  BY DEF AppCall, NetCoreCall, taskVars, Still
<1>6. Disconnect \/ Join \/ Joined \/ CancelMessage \/ Reconnect \/ NoRetryInterval \/ RunLoopEnd => Still
  BY DEF Disconnect, Join, Joined, CancelMessage, Reconnect, NoRetryInterval, RunLoopEnd, taskVars, Still
<1>7. \A passed : RunOnStartTask(passed) => Still  BY DEF RunOnStartTask, taskVars, Still
<1>8. \A t \in Tasks : SkipNotAuthed(t) => Still  BY DEF SkipNotAuthed, taskVars, Still
<1> QED  BY <1>1, <1>2, <1>3, <1>4, <1>5, <1>6, <1>7, <1>8, Effects

LEMMA MessageSteps ==
  ASSUME LongInv, NEW t \in Tasks
  PROVE  /\ StartTask(t) => outcome[t] = "posted" /\ Listed' = Listed \cup {t} /\ Running' = Running
         /\ StopTask(t) => Gone(t)
         /\ OnSendTask(t) => Same
         /\ \A handle : OnResponse(t, handle) =>
              /\ t \notin Listed \/ handle \in {"NoError", "TaskEnd"} => Gone(t)
              /\ t \in Listed /\ handle = "Default" => NoneRuns
              /\ t \in Listed /\ handle = "SessionTimeout" => Same
<1>1. TaskInv /\ MessageInv /\ SentInv  BY DEF LongInv, TypeInv, TaskInv, TaskTypes
<1>2. t \notin Listed /\ Same => Gone(t)  BY DEF Same, Gone, Running
<1>3. ASSUME StartTask(t)
      PROVE  outcome[t] = "posted" /\ Listed' = Listed \cup {t} /\ Running' = Running
  <2>1. On("StartTask", t) \in Members(messages)
    BY <1>1, <1>3, Taken, TakenTask DEF StartTask
  <2>2. outcome[t] = "posted"  BY <1>1, <2>1 DEF MessageInv
  <2>3. Lists(t)  BY <1>3, <2>2 DEF StartTask, Lists
  <2> QED  BY <1>1, <2>2, <2>3, ListsStep
<1>4. ASSUME StopTask(t) PROVE Gone(t)
  <2>1. CASE t \in Listed
    <3>1. EndsAs({t}, "stopped")  BY <1>4, <2>1 DEF StopTask, EndsAs
    <3> QED  BY <2>1, <3>1, Effects DEF Ended
  <2>2. CASE t \notin Listed
    <3>1. Still  BY <1>4, <2>2 DEF StopTask, Still
    <3> QED  BY <1>2, <2>2, <3>1, Effects
  <2> QED  BY <2>1, <2>2
<1>5. ASSUME OnSendTask(t) PROVE Same
  <2>1. CASE t \in Listed
    <3>1. Marks(t)  BY <1>5, <2>1 DEF OnSendTask, Marks
    <3> QED  BY <2>1, <3>1, Effects
  <2>2. CASE t \notin Listed
    <3>1. Still  BY <1>5, <2>2 DEF OnSendTask, Still
    <3> QED  BY <3>1, Effects
  <2> QED  BY <2>1, <2>2
<1>6. Batch({}) => NoneRuns  BY Effects
<1>8. ASSUME NEW handle, OnResponse(t, handle)
      PROVE  /\ t \notin Listed \/ handle \in {"NoError", "TaskEnd"} => Gone(t)
             /\ t \in Listed /\ handle = "Default" => NoneRuns
             /\ t \in Listed /\ handle = "SessionTimeout" => Same
  <2>1. On("OnResponse", t) \in Members(messages)
    BY <1>1, <1>8, Taken, TakenTask DEF OnResponse
  <2>2. sends[t] > 0  BY <1>1, <2>1 DEF SentInv, Answered
  <2>3. CASE t \notin Listed
    <3>1. Still  BY <1>8, <2>3 DEF OnResponse, Still
    <3> QED  BY <1>2, <2>3, <3>1, Effects
  <2>4. CASE t \in Listed
    <3>1. handle = "NoError" => EndsAs({t}, "ok")
      BY <1>8, <2>2, <2>4 DEF OnResponse, End1, EndsAs
    <3>2. handle = "TaskEnd" => EndsAs({t}, "failed")
      BY <1>8, <2>4 DEF OnResponse, End1, EndsAs
    <3>3. handle = "Default" => Batch({})  BY <1>8, <2>4 DEF OnResponse, Batch
    <3>4. handle = "SessionTimeout" => Still  BY <1>8, <2>4 DEF OnResponse, Still
    <3> QED  BY <1>6, <2>4, <3>1, <3>2, <3>3, <3>4, Effects DEF Ended
  <2> QED  BY <2>3, <2>4
<1> QED  BY <1>3, <1>4, <1>5, <1>8

LEMMA LoopSteps ==
  ASSUME LongInv
  PROVE  /\ RedoTasks => NoneRuns /\ Listed' = Listed
         /\ OnErrorResponse \/ SessionTimeout => NoneRuns
         /\ Clear => Listed' = {} /\ Running' = {}
         /\ \A over, late : RunLoop(over, late) => IF over \cup late = {} THEN Same ELSE NoneRuns
         /\ \A t : SkipNotAuthed(t) \/ Refuse(t) \/ BreakOff(t) \/ SendFail(t) \/ SendTask(t) =>
              t \in Listed \ Running
         /\ \A t : Refuse(t) => Gone(t)
         /\ \A t : BreakOff(t) \/ SendFail(t) => Same
         /\ \A t : SendTask(t) => IF t \in SendOnly THEN Gone(t)
                                  ELSE Listed' = Listed /\ Running' = Running \cup {t}
<1>1. TaskInv /\ TodoInv /\ ListInv  BY DEF LongInv, TypeInv, TaskInv, TaskTypes
<1>2. RedoTasks => NoneRuns /\ Listed' = Listed
  <2>1. RedoTasks => Redo  BY DEF RedoTasks, Redo
  <2> QED  BY <1>1, <2>1, RedoStep DEF NoneRuns
<1>10. OnErrorResponse \/ SessionTimeout => NoneRuns
  <2>1. Batch({}) => NoneRuns  BY Effects
  <2> QED  BY <2>1 DEF OnErrorResponse, SessionTimeout, Batch
<1>3. Clear => Listed' = {} /\ Running' = {}
  <2>1. Members(<<>>) = {}  BY DEF Members
  <2>2. Clear => Listed' = {}  BY <2>1 DEF Clear, Listed
  <2> QED  BY <2>2 DEF Running
<1>4. ASSUME NEW over, NEW late, RunLoop(over, late)
      PROVE  IF over \cup late = {} THEN Same ELSE NoneRuns
  <2>1. CASE over \cup late = {}
    <3>1. Still  BY <1>4, <2>1 DEF RunLoop, Still
    <3> QED  BY <2>1, <3>1, Effects
  <2>2. CASE over \cup late # {}
    <3>1. over \in SUBSET Listed /\ Batch(over)  BY <1>4, <2>2 DEF RunLoop, Batch
    <3> QED  BY <2>2, <3>1, Effects
  <2> QED  BY <2>1, <2>2
<1>5. ASSUME NEW t, SkipNotAuthed(t) \/ Refuse(t) \/ BreakOff(t) \/ SendFail(t) \/ SendTask(t)
      PROVE  t \in Listed \ Running
  BY <1>1, <1>5, Looked DEF SkipNotAuthed, Refuse, BreakOff, SendFail, SendTask
<1>6. Listed \subseteq Tasks  BY <1>1 DEF ListInv
<1>7. ASSUME NEW t, Refuse(t) PROVE Gone(t)
  <2>1. EndsAs({t}, "failed")  BY <1>7 DEF Refuse, End1, EndsAs
  <2>2. t \in Listed /\ t \in Tasks  BY <1>5, <1>6, <1>7
  <2> QED  BY <2>1, <2>2, Effects DEF Ended
<1>8. ASSUME NEW t, BreakOff(t) \/ SendFail(t) PROVE Same
  <2>1. Marks(t)  BY <1>8 DEF BreakOff, SendFail, Marks
  <2> QED  BY <1>5, <1>8, <2>1, Effects
<1>9. ASSUME NEW t, SendTask(t)
      PROVE  IF t \in SendOnly THEN Gone(t) ELSE Listed' = Listed /\ Running' = Running \cup {t}
  <2>1. t \in Listed \ Running  BY <1>5, <1>9
  <2>2. Gives(t)  BY <1>9 DEF SendTask, End1, Gives
  <2> QED  BY <1>1, <2>1, <2>2, GivesStep DEF Gone
<1> QED  BY <1>2, <1>3, <1>4, <1>5, <1>7, <1>8, <1>9, <1>10
-----------------------------------------------------------------------------
(* The tasks __RunOnStartTask has still to look at                         *)

LEMMA TodoKept ==
  ASSUME TodoInv, todo' = todo, At' = At, Same
  PROVE  TodoInv'
BY DEF TodoInv, Same

LEMMA TodoEmpty ==
  ASSUME todo' = <<>>
  PROVE  TodoInv'
<1>1. PICK q : q = todo'  OBVIOUS
<1>2. q \in Seq(Tasks) /\ Members(q) = {} /\ Apart(q, Tasks)  BY <1>1 DEF Members, Apart
<1> QED  BY <1>1, <1>2 DEF TodoInv

LEMMA TodoTail ==
  ASSUME TodoInv, NEW t, Each(t), todo' = Tail(todo), At' = At, At = "each",
         Listed \ (Running \cup {t}) \subseteq Listed' \ Running'
  PROVE  TodoInv'
<1>1. PICK q \in Seq(Tasks) : q = todo  BY DEF TodoInv
<1>2. q # <<>> /\ t = Head(q) /\ Apart(q, Tasks) /\ Members(q) \subseteq Listed \ Running
  BY <1>1 DEF Each, TodoInv
<1>3. /\ Tail(q) \in Seq(Tasks) /\ Head(q) \in Tasks
      /\ Members(q) = {Head(q)} \cup Members(Tail(q))
  BY <1>2, MembersTail
<1>4. Apart(Tail(q), Tasks) /\ Head(q) \notin Members(Tail(q))  BY <1>2, <1>3, ApartTail
<1>5. PICK r \in Seq(Tasks) : r = Tail(q)  BY <1>3
<1>6. Members(r) \subseteq Listed' \ Running'  BY <1>2, <1>3, <1>4, <1>5
<1>7. todo' = r  BY <1>1, <1>5
<1> QED  BY <1>4, <1>5, <1>6, <1>7 DEF TodoInv

LEMMA TodoStart ==
  ASSUME LongInv, NEW passed, RunOnStartTask(passed)
  PROVE  TodoInv'
<1>1. lst_cmd_ \in Seq(Tasks) /\ Sorted(lst_cmd_) /\ Chain(mq)  BY DEF LongInv, ListInv
<1>2. PICK q \in Seq(Tasks) : q = lst_cmd_  BY <1>1
<1>3. PICK K : K = {t \in Listed : Startable(t, passed)}  OBVIOUS
<1>4. Only(q, K) \in Seq(Tasks) /\ Members(Only(q, K)) = Members(q) \cap K  BY MembersOnly
<1>5. \A i, j \in DOMAIN q : i < j => q[i] # q[j]  BY <1>1, <1>2 DEF Sorted
<1>6. Apart(q, Tasks)
  <2>1. \A i, j \in DOMAIN q : i < j \/ j < i \/ i = j
    <3>1. DOMAIN q = 1..Len(q)  OBVIOUS
    <3> QED  BY <3>1
  <2> QED  BY <1>5, <2>1 DEF Apart
<1>7. Apart(Only(q, K), Tasks)  BY <1>6, ApartOnly
<1>8. K \subseteq Listed \ Running  BY <1>3 DEF Startable, Running
<1>9. Same /\ At' = "each"  BY <1>1, SameSteps, LoopControl DEF Runs
<1>10. PICK r \in Seq(Tasks) : r = Only(q, K)  BY <1>4
<1>11. todo' = r  BY <1>2, <1>3, <1>10 DEF RunOnStartTask
<1>12. Members(r) \subseteq Listed' \ Running'  BY <1>4, <1>8, <1>9, <1>10 DEF Same
<1> QED  BY <1>7, <1>9, <1>10, <1>11, <1>12 DEF TodoInv

(* Every step leaves todo alone, and it is empty unless the handler looks  *)
(* at tasks or others take the step.                                       *)
LEMMA TodoStep ==
  ASSUME LongInv, [Next]_vars
  PROVE  TodoInv'
<1>1. TodoInv /\ Chain(mq) /\ ListInv  BY DEF LongInv
<1>2. ASSUME todo' = todo, At # "each"  PROVE TodoInv'
  BY <1>1, <1>2, TodoEmpty DEF TodoInv
<1>3. ASSUME mq' = mq, todo' = todo, Same  PROVE TodoInv'
  BY <1>1, <1>3, Holding, TodoKept DEF Holds
<1>4. CASE App \/ Connection \/ UNCHANGED vars
  <2>1. Same  BY <1>4, SameSteps DEF App
  <2>2. mq' = mq /\ todo' = todo
    BY <1>4 DEF App, AppStart, AppStop, AppCall, AppConnect, Connection, vars, mqVars
  <2> QED  BY <1>3, <2>1, <2>2
<1>5. CASE Message \/ Timer
  <2>1. todo' = todo
    BY <1>5 DEF Message, SignalConnection, OnErrorResponse, AutoConnect, NetCoreCall, StartTask, StopTask,
                OnSendTask, OnResponse, Timer, mqVars
  <2>2. At = "idle"  BY <1>1, <1>5, MessageControl DEF Message
  <2> QED  BY <1>2, <2>1, <2>2
<1>6. CASE Disconnect \/ Join \/ Joined \/ CancelMessage \/ Reconnect \/ RedoTasks \/ Clear
           \/ SessionTimeout \/ NoRetryInterval
  <2>1. todo' = todo
    BY <1>6 DEF Disconnect, Join, Joined, CancelMessage, Reconnect, RedoTasks, Clear, SessionTimeout,
                NoRetryInterval
  <2>2. At # "each"  BY <1>1, <1>6, HandlerControl, LoopControl
  <2> QED  BY <1>2, <2>1, <2>2
<1>7. CASE RunLoopEnd
  <2>1. todo' = <<>>  BY <1>7 DEF RunLoopEnd
  <2> QED  BY <2>1, TodoEmpty
<1>8. CASE \E over, late \in SUBSET Tasks : RunLoop(over, late)
  <2>1. todo' = todo  BY <1>8 DEF RunLoop
  <2>2. At # "each"  BY <1>1, <1>8, LoopControl
  <2> QED  BY <1>2, <2>1, <2>2
<1>9. CASE \E passed \in BOOLEAN : RunOnStartTask(passed)  BY <1>9, TodoStart
<1>10. CASE \E t \in Tasks : SkipNotAuthed(t) \/ Refuse(t) \/ BreakOff(t) \/ SendFail(t) \/ SendTask(t)
  <2>1. PICK t \in Tasks : SkipNotAuthed(t) \/ Refuse(t) \/ BreakOff(t) \/ SendFail(t) \/ SendTask(t)
    BY <1>10
  <2>2. Each(t) /\ mq' = mq
    BY <2>1 DEF SkipNotAuthed, Refuse, BreakOff, SendFail, SendTask
  <2>3. At = "each" /\ At' = At  BY <1>1, <2>2, LoopControl DEF Holds
  <2>4. CASE BreakOff(t)  BY <2>4, TodoEmpty DEF BreakOff
  <2>5. CASE ~BreakOff(t)
    <3>1. todo' = Tail(todo)  BY <2>1, <2>5 DEF SkipNotAuthed, Refuse, SendFail, SendTask
    <3>2. Listed \ (Running \cup {t}) \subseteq Listed' \ Running'
      BY <2>1, <2>5, SameSteps, LoopSteps DEF Same, Gone
    <3> QED  BY <1>1, <2>2, <2>3, <3>1, <3>2, TodoTail
  <2> QED  BY <2>4, <2>5
<1> QED  BY <1>4, <1>5, <1>6, <1>7, <1>8, <1>9, <1>10 DEF Next, Handler
-----------------------------------------------------------------------------
(* The steps of the handler stay in order                                  *)

LEMMA ChainStep ==
  ASSUME LongInv, [Next]_vars
  PROVE  Chain(mq')
<1>1. Chain(mq)  BY DEF LongInv
<1>2. CASE App \/ Connection \/ UNCHANGED vars
  BY <1>1, <1>2 DEF App, AppStart, AppStop, AppCall, AppConnect, Connection, vars, mqVars
<1>3. CASE Timer \/ SignalConnection \/ AutoConnect \/ OnErrorResponse
  BY <1>1, <1>3, MessageControl DEF Runs, Holds
<1>4. CASE \E type \in Calls : NetCoreCall(type)  BY <1>1, <1>4, MessageControl DEF Runs
<1>5. CASE \E t \in Tasks : StartTask(t) \/ StopTask(t) \/ OnSendTask(t)
  BY <1>1, <1>5, MessageControl DEF Runs, Holds
<1>6. CASE \E t \in Tasks, handle \in Handles : OnResponse(t, handle)
  BY <1>1, <1>6, MessageControl DEF Runs, Holds, Handles
<1>7. CASE Disconnect \/ Join \/ Joined \/ CancelMessage \/ Reconnect \/ NoRetryInterval
  BY <1>1, <1>7, HandlerControl DEF Goes, Waits
<1>8. CASE RedoTasks \/ Clear \/ SessionTimeout \/ RunLoopEnd  BY <1>1, <1>8, LoopControl DEF Runs
<1>9. CASE \E over, late \in SUBSET Tasks : RunLoop(over, late)  BY <1>1, <1>9, LoopControl DEF Runs
<1>10. CASE \E passed \in BOOLEAN : RunOnStartTask(passed)  BY <1>1, <1>10, LoopControl DEF Runs
<1>11. CASE \E t \in Tasks : SkipNotAuthed(t) \/ Refuse(t) \/ BreakOff(t) \/ SendFail(t) \/ SendTask(t)
  BY <1>1, <1>11 DEF SkipNotAuthed, Refuse, BreakOff, SendFail, SendTask
<1> QED
  BY <1>2, <1>3, <1>4, <1>5, <1>6, <1>7, <1>8, <1>9, <1>10, <1>11 DEF Next, Message, Handler
-----------------------------------------------------------------------------
(* The message queue                                                       *)

PostedSame == \A t \in Tasks : outcome'[t] = "posted" <=> outcome[t] = "posted"

LEMMA MessagesSame ==
  ASSUME MessageInv, messages' = messages, PostedSame
  PROVE  MessageInv'
BY DEF MessageInv, PostedSame

LEMMA MessagesPost ==
  ASSUME MessageInv, NEW m \in Msg, m.type # "StartTask", messages' = Append(messages, m), PostedSame
  PROVE  MessageInv' /\ Members(messages') = Members(messages) \cup {m}
<1>1. PICK q \in Seq(Msg) : q = messages  BY DEF MessageInv
<1>2. messages' = Append(q, m)  BY <1>1
<1>3. Append(q, m) \in Seq(Msg) /\ Members(Append(q, m)) = Members(q) \cup {m}  BY MembersAppend
<1>4. \A t \in Tasks : On("StartTask", t) # m  BY MessageShapes
<1>5. ASSUME NEW t \in Tasks
      PROVE  /\ On("StartTask", t) \in Members(messages') <=> outcome'[t] = "posted"
             /\ Apart(messages', {On("StartTask", t)})
  <2>1. PICK K : K = {On("StartTask", t)}  OBVIOUS
  <2>2. Apart(q, K) /\ m \notin K  BY <1>1, <1>4, <2>1 DEF MessageInv
  <2>3. Apart(Append(q, m), K)  BY <2>2, ApartAppend
  <2> QED  BY <1>1, <1>2, <1>3, <1>4, <2>1, <2>3 DEF MessageInv, PostedSame
<1> QED  BY <1>1, <1>2, <1>3, <1>5 DEF MessageInv

LEMMA MessagesTake ==
  ASSUME MessageInv, NEW type, type # "StartTask", Take(type), PostedSame
  PROVE  MessageInv'
<1>1. PICK q \in Seq(Msg) : q = messages  BY DEF MessageInv
<1>2. q # <<>> /\ messages' = Tail(q) /\ Head(q).type # "StartTask"  BY <1>1 DEF Take
<1>3. /\ Tail(q) \in Seq(Msg) /\ Head(q) \in Msg
      /\ Members(q) = {Head(q)} \cup Members(Tail(q))
  BY <1>2, MembersTail
<1>4. \A t \in Tasks : On("StartTask", t) # Head(q)  BY <1>2, MessageShapes
<1>5. ASSUME NEW t \in Tasks
      PROVE  /\ On("StartTask", t) \in Members(messages') <=> outcome'[t] = "posted"
             /\ Apart(messages', {On("StartTask", t)})
  <2>1. PICK K : K = {On("StartTask", t)}  OBVIOUS
  <2>2. Apart(q, K)  BY <1>1, <2>1 DEF MessageInv
  <2>3. Apart(Tail(q), K)  BY <1>2, <2>2, ApartTail
  <2> QED  BY <1>1, <1>2, <1>3, <1>4, <2>1, <2>3 DEF MessageInv, PostedSame
<1> QED  BY <1>2, <1>3, <1>5 DEF MessageInv

LEMMA MessagesCancel ==
  ASSUME MessageInv, Cancel, PostedSame
  PROVE  MessageInv'
<1>0. PICK L : L = Kept  OBVIOUS
<1>1. PICK q \in Seq(Msg) : q = messages  BY DEF MessageInv
<1>2. messages' = Only(q, L)  BY <1>0, <1>1 DEF Cancel
<1>3. Only(q, L) \in Seq(Msg) /\ Members(Only(q, L)) = Members(q) \cap L  BY MembersOnly
<1>4. ASSUME NEW t \in Tasks
      PROVE  /\ On("StartTask", t) \in Members(messages') <=> outcome'[t] = "posted"
             /\ Apart(messages', {On("StartTask", t)})
  <2>1. PICK K : K = {On("StartTask", t)}  OBVIOUS
  <2>2. Apart(q, K)  BY <1>1, <2>1 DEF MessageInv
  <2>3. Apart(Only(q, L), K)  BY <2>2, ApartOnly
  <2>4. On("StartTask", t).type = "StartTask"  BY MessageShapes
  <2>5. On("StartTask", t) \in Members(q) => On("StartTask", t) \in L  BY <1>0, <1>1, <2>4 DEF Kept
  <2> QED  BY <1>1, <1>2, <1>3, <2>1, <2>3, <2>5 DEF MessageInv, PostedSame
<1> QED  BY <1>2, <1>3, <1>4 DEF MessageInv

(* A task is posted.                                                       *)
LEMMA MessagesStart ==
  ASSUME MessageInv, ListInv, NEW t \in Tasks, AppStart(t)
  PROVE  MessageInv'
<1>1. PICK q \in Seq(Msg), m \in Msg : q = messages /\ m = On("StartTask", t)
  BY MessageShapes DEF MessageInv
<1>2. messages' = Append(q, m)  BY <1>1 DEF AppStart, Post
<1>3. Append(q, m) \in Seq(Msg) /\ Members(Append(q, m)) = Members(q) \cup {m}  BY MembersAppend
<1>4. \A u \in Tasks : outcome'[u] = IF u = t THEN "posted" ELSE outcome[u]
  BY DEF AppStart, ListInv
<1>5. outcome[t] = "new"  BY DEF AppStart
<1>6. m \notin Members(q)  BY <1>1, <1>5 DEF MessageInv
<1>7. ASSUME NEW u \in Tasks
      PROVE  /\ On("StartTask", u) \in Members(messages') <=> outcome'[u] = "posted"
             /\ Apart(messages', {On("StartTask", u)})
  <2>1. PICK K : K = {On("StartTask", u)}  OBVIOUS
  <2>2. Apart(q, K)  BY <1>1, <2>1 DEF MessageInv
  <2>3. Apart(Append(q, m), K)  BY <1>6, <2>2, ApartAppend
  <2>4. m = On("StartTask", u) <=> u = t  BY <1>1, MessageShapes
  <2> QED  BY <1>1, <1>2, <1>3, <1>4, <2>1, <2>3, <2>4 DEF MessageInv
<1> QED  BY <1>2, <1>3, <1>7 DEF MessageInv

(* A task is taken.                                                        *)
LEMMA MessagesTaken ==
  ASSUME MessageInv, ListInv, NEW t \in Tasks, StartTask(t)
  PROVE  MessageInv'
<1>1. PICK q \in Seq(Msg) : q = messages  BY DEF MessageInv
<1>2. q # <<>> /\ messages' = Tail(q)  BY <1>1 DEF StartTask, Take
<1>3. /\ Tail(q) \in Seq(Msg) /\ Head(q) \in Msg
      /\ Members(q) = {Head(q)} \cup Members(Tail(q))
  BY <1>2, MembersTail
<1>4. Head(q) = On("StartTask", t)  BY <1>1, TakenTask DEF StartTask
<1>5. \A u \in Tasks : outcome'[u] = IF u = t THEN "listed" ELSE outcome[u]
  BY DEF StartTask, ListInv
<1>6. ASSUME NEW u \in Tasks
      PROVE  /\ On("StartTask", u) \in Members(messages') <=> outcome'[u] = "posted"
             /\ Apart(messages', {On("StartTask", u)})
  <2>1. PICK K : K = {On("StartTask", u)}  OBVIOUS
  <2>2. Apart(q, K)  BY <1>1, <2>1 DEF MessageInv
  <2>3. Apart(Tail(q), K) /\ (Head(q) \in K => Head(q) \notin Members(Tail(q)))
    BY <1>2, <2>2, ApartTail
  <2>4. Head(q) = On("StartTask", u) <=> u = t  BY <1>4, MessageShapes
  <2> QED  BY <1>1, <1>2, <1>3, <1>5, <2>1, <2>3, <2>4 DEF MessageInv
<1> QED  BY <1>2, <1>3, <1>6 DEF MessageInv

LEMMA PostedEnds ==
  ASSUME ListInv, NEW S, S \subseteq Listed, NEW how, how # "posted", outcome' = EndAs(S, how)
  PROVE  PostedSame
BY DEF PostedSame, EndAs, ListInv

LEMMA PostedBatch ==
  ASSUME ListInv, NEW S \in SUBSET Listed, BatchErrorResp(S)
  PROVE  PostedSame
<1>1. \E G \in SUBSET Listed : outcome' = EndAs(G, "failed")  BY DEF BatchErrorResp
<1> QED  BY <1>1, PostedEnds

LEMMA ConnectionMessages ==
  ASSUME MessageInv, LinkTypeOK, LinkThread, PostedSame
  PROVE  MessageInv'
<1>1. ASSUME NEW m \in Msg, m.type # "StartTask", Post(m)
      PROVE  MessageInv'
  BY <1>1, MessagesPost DEF Post
<1>2. Signal \in Msg /\ Signal.type # "StartTask" /\ OnError \in Msg /\ OnError.type # "StartTask"
  BY MessageShapes DEF Signal, OnError
<1>3. CASE Begin \/ NoAddress \/ ConnectFail \/ SeeDisconnect \/ Close \/ End \/ NoopReq \/ NoopResp \/ Break
  BY <1>3, MessagesSame DEF Begin, NoAddress, ConnectFail, SeeDisconnect, Close, End, NoopReq, NoopResp, Break
<1>4. CASE Connect  BY <1>1, <1>2, <1>4 DEF Connect
<1>5. CASE RunResponseError  BY <1>1, <1>2, <1>5 DEF RunResponseError
<1>6. CASE \E t \in Tasks : Response(t)  BY <1>1, <1>6, MessageShapes DEF Response
<1>7. CASE WriteAll \/ WritePart
  <2>1. PICK q \in Seq(Data) : q = lstsenddata_  BY DEF LinkTypeOK
  <2>2. q # <<>> /\ OnSend(Head(q))  BY <1>7, <2>1 DEF WriteAll, WritePart
  <2>3. Head(q) \in Data  BY <2>2
  <2>4. CASE messages' = messages  BY <2>4, MessagesSame
  <2>5. CASE Head(q).task \in Tasks /\ Post(On("OnSend", Head(q).task))
    BY <1>1, <2>5, MessageShapes
  <2> QED  BY <2>2, <2>3, <2>4, <2>5 DEF OnSend, Data
<1> QED  BY <1>3, <1>4, <1>5, <1>6, <1>7 DEF LinkThread, OwnStep

LEMMA MessageStep ==
  ASSUME LongInv, [Next]_vars
  PROVE  MessageInv'
<1>1. MessageInv /\ LinkTypeOK /\ ListInv  BY DEF LongInv, TypeInv
<1>2. UNCHANGED outcome => PostedSame  BY DEF PostedSame
<1>3. CASE UNCHANGED vars  BY <1>1, <1>2, <1>3, MessagesSame DEF vars, linkVars, taskVars
<1>4. CASE Connection  BY <1>1, <1>2, <1>4, ConnectionMessages DEF Connection, taskVars
<1>5. CASE App
  <2>1. CASE \E t \in Tasks : AppStart(t)  BY <1>1, <2>1, MessagesStart
  <2>2. CASE \E t \in Tasks : AppStop(t)
    <3>1. PICK t \in Tasks : AppStop(t)  BY <2>2
    <3>2. PostedSame /\ messages' = Append(messages, On("StopTask", t))
      BY <1>2, <3>1 DEF AppStop, taskVars, Post
    <3> QED  BY <1>1, <3>2, MessagesPost, MessageShapes
  <2>3. CASE \E type \in Calls : AppCall(type)
    <3>1. PICK type \in Calls : AppCall(type)  BY <2>3
    <3>2. PostedSame /\ messages' = Append(messages, [type |-> type])
      BY <1>2, <3>1 DEF AppCall, taskVars, Post
    <3>3. PICK m \in Msg : m = [type |-> type]  BY MessageShapes
    <3>4. m.type # "StartTask"  BY <3>3, TasksAssumption
    <3> QED  BY <1>1, <3>2, <3>3, <3>4, MessagesPost
  <2>4. CASE AppConnect  BY <1>1, <1>2, <2>4, MessagesSame DEF AppConnect, taskVars
  <2> QED  BY <1>5, <2>1, <2>2, <2>3, <2>4 DEF App
<1>6. CASE Message
  <2>1. CASE AutoConnect  BY <1>1, <1>2, <2>1, MessagesSame DEF AutoConnect, taskVars
  <2>2. CASE SignalConnection  BY <1>1, <1>2, <2>2, MessagesTake DEF SignalConnection, taskVars
  <2>3. CASE OnErrorResponse
    <3>1. PostedSame  BY <1>1, <2>3, PostedBatch DEF OnErrorResponse
    <3> QED  BY <1>1, <2>3, <3>1, MessagesTake DEF OnErrorResponse
  <2>4. CASE \E type \in Calls : NetCoreCall(type)
    BY <1>1, <1>2, <2>4, MessagesTake, TasksAssumption DEF NetCoreCall, taskVars
  <2>5. CASE \E t \in Tasks : StartTask(t)  BY <1>1, <2>5, MessagesTaken
  <2>6. CASE \E t \in Tasks : StopTask(t)
    <3>1. PICK t \in Tasks : StopTask(t)  BY <2>6
    <3>2. PostedSame
      <4>1. CASE t \in Listed
        <5>1. {t} \subseteq Listed /\ outcome' = EndAs({t}, "stopped")  BY <3>1, <4>1 DEF StopTask
        <5> QED  BY <1>1, <5>1, PostedEnds
      <4>2. CASE t \notin Listed  BY <1>2, <3>1, <4>2 DEF StopTask
      <4> QED  BY <4>1, <4>2
    <3> QED  BY <1>1, <3>1, <3>2, MessagesTake DEF StopTask
  <2>7. CASE \E t \in Tasks : OnSendTask(t)  BY <1>1, <1>2, <2>7, MessagesTake DEF OnSendTask
  <2>8. CASE \E t \in Tasks, handle \in Handles : OnResponse(t, handle)
    <3>1. PICK t \in Tasks, handle \in Handles : OnResponse(t, handle)  BY <2>8
    <3>2. PostedSame
      <4>1. CASE t \in Listed /\ handle = "NoError"
        <5>1. {t} \subseteq Listed /\ outcome' = EndAs({t}, "ok")  BY <3>1, <4>1 DEF OnResponse, End1
        <5> QED  BY <1>1, <5>1, PostedEnds
      <4>2. CASE t \in Listed /\ handle = "TaskEnd"
        <5>1. {t} \subseteq Listed /\ outcome' = EndAs({t}, "failed")  BY <3>1, <4>2 DEF OnResponse, End1
        <5> QED  BY <1>1, <5>1, PostedEnds
      <4>3. CASE t \in Listed /\ handle = "Default"
        <5>1. BatchErrorResp({})  BY <3>1, <4>3 DEF OnResponse
        <5> QED  BY <1>1, <5>1, PostedBatch
      <4>4. CASE t \notin Listed \/ handle = "SessionTimeout"
        <5>1. UNCHANGED outcome  BY <3>1, <4>4 DEF OnResponse
        <5> QED  BY <1>2, <5>1
      <4> QED  BY <4>1, <4>2, <4>3, <4>4 DEF Handles
    <3> QED  BY <1>1, <3>1, <3>2, MessagesTake DEF OnResponse
  <2> QED  BY <1>6, <2>1, <2>2, <2>3, <2>4, <2>5, <2>6, <2>7, <2>8 DEF Message
<1>7. CASE Disconnect \/ Join \/ Joined \/ Reconnect \/ NoRetryInterval \/ RunLoopEnd \/ Timer
  <2>1. messages' = messages /\ outcome' = outcome
    BY <1>7 DEF Disconnect, Join, Joined, Reconnect, NoRetryInterval, RunLoopEnd, Timer, taskVars, linkVars
  <2> QED  BY <1>1, <1>2, <2>1, MessagesSame
<1>8. CASE CancelMessage \/ RedoTasks
  <2>1. Cancel /\ outcome' = outcome  BY <1>8 DEF CancelMessage, RedoTasks, taskVars
  <2> QED  BY <1>1, <1>2, <2>1, MessagesCancel
<1>9. CASE Clear
  <2>1. PostedSame  BY <1>1, <1>9, PostedEnds DEF Clear
  <2> QED  BY <1>1, <1>9, <2>1, MessagesCancel DEF Clear
<1>10. CASE SessionTimeout
  <2>1. PostedSame  BY <1>1, <1>10, PostedBatch DEF SessionTimeout
  <2> QED  BY <1>1, <1>10, <2>1, MessagesCancel DEF SessionTimeout
<1>11. CASE \E over, late \in SUBSET Tasks : RunLoop(over, late)
  <2>1. PICK over \in SUBSET Tasks, late \in SUBSET Tasks : RunLoop(over, late)  BY <1>11
  <2>2. PostedSame  BY <1>1, <1>2, <2>1, PostedBatch DEF RunLoop
  <2> QED  BY <1>1, <2>1, <2>2, MessagesSame DEF RunLoop, linkVars
<1>12. CASE \E passed \in BOOLEAN : RunOnStartTask(passed)
  BY <1>1, <1>2, <1>12, MessagesSame DEF RunOnStartTask, linkVars, taskVars
<1>13. CASE \E t \in Tasks : SkipNotAuthed(t) \/ Refuse(t) \/ BreakOff(t) \/ SendFail(t) \/ SendTask(t)
  <2>1. PICK t \in Tasks : SkipNotAuthed(t) \/ Refuse(t) \/ BreakOff(t) \/ SendFail(t) \/ SendTask(t)
    BY <1>13
  <2>2. messages' = messages
    BY <2>1 DEF SkipNotAuthed, Refuse, BreakOff, SendFail, SendTask, linkVars
  <2>3. {t} \subseteq Listed  BY <2>1, LoopSteps
  <2>4. \/ outcome' = outcome \/ outcome' = EndAs({t}, "failed") \/ outcome' = EndAs({t}, "ok")
    BY <2>1 DEF SkipNotAuthed, Refuse, BreakOff, SendFail, SendTask, End1, taskVars
  <2>5. PostedSame  BY <1>1, <1>2, <2>3, <2>4, PostedEnds
  <2> QED  BY <1>1, <2>2, <2>5, MessagesSame
<1> QED
  BY <1>3, <1>4, <1>5, <1>6, <1>7, <1>8, <1>9, <1>10, <1>11, <1>12, <1>13 DEF Next, Handler
-----------------------------------------------------------------------------
(* The requests on the connection                                          *)

(* Steps that add no request of a task keep what is known of the requests. *)
Shrinks ==
  /\ lstsenddata_' \in Seq(Data) /\ server' \subseteq Tasks \cup {"noop"}
  /\ \A t \in Tasks : OnLink(t)' => OnLink(t)
  /\ (Unsent => Unsent') /\ (Clean => Clean') /\ (Fresh => Fresh')

LEMMA Fewer ==
  ASSUME LinkTypeOK, lstsenddata_' \in Seq(Data), conn' = conn, server' \subseteq server,
         \A d \in Members(lstsenddata_') :
           \E e \in Members(lstsenddata_) : e.task = d.task /\ e.conn = d.conn,
         Distinct(lstsenddata_) => Distinct(lstsenddata_')
  PROVE  Shrinks
<1>1. server' \subseteq Tasks \cup {"noop"}  BY DEF LinkTypeOK
<1>2. \A t \in Tasks : OnLink(t)' => OnLink(t)  BY DEF OnLink
<1>3. Unsent => Unsent'  BY DEF Unsent
<1>4. Fresh => Fresh'  BY DEF Fresh
<1>5. Clean => Clean'  BY <1>3 DEF Clean
<1> QED  BY <1>1, <1>2, <1>3, <1>4, <1>5 DEF Shrinks

LEMMA Nothing == <<>> \in Seq(Data) /\ Members(<<>>) = {} /\ Distinct(<<>>)
BY DEF Members, Distinct

LEMMA DistinctTail ==
  ASSUME NEW q \in Seq(Data), q # <<>>, Distinct(q)
  PROVE  Distinct(Tail(q)) /\ \A d \in Members(Tail(q)) : d.task # "noop" => d.task # Head(q).task
<1>1. /\ DOMAIN q = 1..Len(q) /\ DOMAIN Tail(q) = 1..Len(q) - 1 /\ Len(q) \in Nat \ {0}
      /\ \A i \in 1..Len(q) - 1 : Tail(q)[i] = q[i + 1]
      /\ Head(q) = q[1]
  OBVIOUS
<1>2. PICK r : r = Tail(q)  OBVIOUS
<1>3. \A i \in DOMAIN r : r[i] = q[i + 1] /\ i + 1 \in DOMAIN q /\ 1 \in DOMAIN q /\ i + 1 # 1
  BY <1>1, <1>2
<1>4. Distinct(r)
  <2> SUFFICES ASSUME NEW i \in DOMAIN r, NEW j \in DOMAIN r, r[i].task = r[j].task, r[i].task # "noop"
               PROVE  i = j
    BY DEF Distinct
  <2>1. i + 1 = j + 1  BY <1>3 DEF Distinct
  <2> QED  BY <1>1, <1>2, <2>1
<1>5. \A d \in Members(r) : d.task # "noop" => d.task # Head(q).task
  BY <1>1, <1>3 DEF Members, Distinct
<1> QED  BY <1>2, <1>4, <1>5

LEMMA DistinctOnly ==
  ASSUME NEW q \in Seq(Data), NEW K, Distinct(q)
  PROVE  Distinct(Only(q, K))
<1>1. PICK f : \A k, l \in DOMAIN Only(q, K) :
                 /\ f[k] \in DOMAIN q /\ Only(q, K)[k] = q[f[k]]
                 /\ k < l => f[k] < f[l]
                 /\ f[k] = f[l] => k = l
  BY OnlyInOrder
<1> QED  BY <1>1 DEF Distinct

LEMMA DistinctAppend ==
  ASSUME NEW q \in Seq(Data), NEW d \in Data, Distinct(q),
         \A e \in Members(q) : e.task # d.task
  PROVE  Distinct(Append(q, d))
<1>1. PICK r : r = Append(q, d)  OBVIOUS
<1>2. /\ DOMAIN q = 1..Len(q) /\ DOMAIN r = 1..Len(q) + 1 /\ Len(q) \in Nat
      /\ \A i \in 1..Len(q) : r[i] = q[i] /\ q[i] \in Members(q)
      /\ r[Len(q) + 1] = d
  BY <1>1 DEF Members
<1>3. ASSUME NEW i \in DOMAIN r, NEW j \in DOMAIN r, r[i].task = r[j].task, r[i].task # "noop"
      PROVE  i = j
  <2>1. i \in 1..Len(q) \/ i = Len(q) + 1  BY <1>2
  <2>2. j \in 1..Len(q) \/ j = Len(q) + 1  BY <1>2
  <2>3. CASE i \in 1..Len(q) /\ j \in 1..Len(q)  BY <1>2, <1>3, <2>3 DEF Distinct
  <2>4. CASE i \in 1..Len(q) /\ j = Len(q) + 1  BY <1>2, <1>3, <2>4
  <2>5. CASE i = Len(q) + 1 /\ j \in 1..Len(q)  BY <1>2, <1>3, <2>5
  <2> QED  BY <2>1, <2>2, <2>3, <2>4, <2>5
<1> QED  BY <1>1, <1>3 DEF Distinct

(* The first request has been sent in part.                                *)
LEMMA Written ==
  ASSUME NEW q \in Seq(Data), q # <<>>,
         NEW e \in Data, e.task = q[1].task, e.conn = q[1].conn
  PROVE  \A r : r = [q EXCEPT ![1] = e] =>
           /\ r \in Seq(Data) /\ DOMAIN r = DOMAIN q
           /\ \A i \in DOMAIN r : r[i].task = q[i].task /\ r[i].conn = q[i].conn
<1> SUFFICES ASSUME NEW r, r = [q EXCEPT ![1] = e]
             PROVE  /\ r \in Seq(Data) /\ DOMAIN r = DOMAIN q
                    /\ \A i \in DOMAIN r : r[i].task = q[i].task /\ r[i].conn = q[i].conn
  OBVIOUS
<1>1. DOMAIN q = 1..Len(q) /\ Len(q) \in Nat  OBVIOUS
<1>2. DOMAIN r = DOMAIN q /\ \A i \in DOMAIN q : r[i] = IF i = 1 THEN e ELSE q[i]
  OBVIOUS
<1>3. r \in Seq(Data)  OBVIOUS
<1> QED  BY <1>2, <1>3

LEMMA ThreadShrinks ==
  ASSUME LinkTypeOK, LinkThread
  PROVE  Shrinks /\ conn' = conn
<1>1. PICK q \in Seq(Data) : q = lstsenddata_  BY DEF LinkTypeOK
<1>2. conn' = conn
  BY DEF LinkThread, OwnStep, Begin, NoAddress, ConnectFail, Connect, SeeDisconnect, Close,
         RunResponseError, End, NoopReq, WriteAll, WritePart, NoopResp, Break, Response
<1>3. CASE lstsenddata_' = lstsenddata_ /\ server' \subseteq server
  <2>1. \A d \in Members(lstsenddata_') :
          \E e \in Members(lstsenddata_) : e.task = d.task /\ e.conn = d.conn
    BY <1>3
  <2> QED  BY <1>1, <1>2, <1>3, <2>1, Fewer
<1>4. CASE Begin \/ NoAddress \/ ConnectFail \/ Connect \/ SeeDisconnect \/ Close \/ End \/ NoopResp
           \/ Break \/ \E t \in Tasks : Response(t)
  <2>1. lstsenddata_' = lstsenddata_ /\ server' \subseteq server
    BY <1>4 DEF Begin, NoAddress, ConnectFail, Connect, SeeDisconnect, Close, End, NoopResp, Break, Response
  <2> QED  BY <1>2, <1>3, <2>1
<1>5. CASE RunResponseError
  <2>1. lstsenddata_' = <<>> /\ server' \subseteq server  BY <1>5 DEF RunResponseError
  <2> QED  BY <1>2, <2>1, Nothing, Fewer
<1>6. CASE NoopReq
  <2>1. PICK d : d = [task |-> "noop", conn |-> conn, begun |-> FALSE]  OBVIOUS
  <2>2. d \in Data  BY <2>1 DEF LinkTypeOK, Data
  <2>3. PICK r : r = <<d>>  OBVIOUS
  <2>4. r \in Seq(Data) /\ Members(r) = {d} /\ Distinct(r)
    BY <2>2, <2>3 DEF Members, Distinct
  <2>5. lstsenddata_' = r /\ server' = server  BY <1>6, <2>1, <2>3 DEF NoopReq
  <2>6. d.task = "noop"  BY <2>1
  <2>7. \A t \in Tasks : OnLink(t)' => OnLink(t)  BY <2>4, <2>5, <2>6, NoopAssumption DEF OnLink
  <2>8. Unsent'  BY <2>4, <2>5, <2>6 DEF Unsent
  <2>9. Fresh'  BY <2>4, <2>5, <2>6 DEF Fresh
  <2> QED  BY <1>2, <2>4, <2>5, <2>7, <2>8, <2>9 DEF Shrinks, Clean, LinkTypeOK
<1>7. CASE WriteAll
  <2>1. q # <<>> /\ lstsenddata_' = Tail(q) /\ server' = server \cup {Head(q).task}
    BY <1>1, <1>7 DEF WriteAll
  <2>2. Tail(q) \in Seq(Data) /\ Head(q) \in Data /\ Members(q) = {Head(q)} \cup Members(Tail(q))
    BY <2>1, MembersTail
  <2>3. PICK r \in Seq(Data) : r = Tail(q)  BY <2>2
  <2>4. PICK h \in Data : h = Head(q)  BY <2>2
  <2>5. h.task \in Tasks \cup {"noop"}  BY DEF Data
  <2>6. \A t \in Tasks : OnLink(t)' => OnLink(t)  BY <1>1, <2>1, <2>2, <2>3, <2>4 DEF OnLink
  <2>7. Unsent => Unsent'  BY <1>1, <2>1, <2>2, <2>3 DEF Unsent
  <2>8. Clean => Clean'  BY <1>1, <2>1, <2>2, <2>4, <2>7 DEF Clean, Unsent
  <2>9. Fresh => Fresh'
    <3> SUFFICES ASSUME Fresh PROVE Fresh'  OBVIOUS
    <3>1. Distinct(q) /\ \A d \in Members(q) : d.task # "noop" => d.conn = conn /\ d.task \notin server
      BY <1>1 DEF Fresh
    <3>2. Distinct(r) /\ \A d \in Members(r) : d.task # "noop" => d.task # h.task
      BY <2>1, <2>3, <2>4, <3>1, DistinctTail
    <3>3. \A d \in Members(r) : d.task # "noop" => d.conn = conn /\ d.task \notin server \cup {h.task}
      BY <2>2, <2>3, <3>1, <3>2
    <3> QED  BY <1>2, <2>1, <2>3, <2>4, <3>2, <3>3 DEF Fresh
  <2> QED  BY <2>1, <2>3, <2>4, <2>5, <2>6, <2>7, <2>8, <2>9, <1>2 DEF Shrinks, LinkTypeOK
<1>8. CASE WritePart
  <2>1. q # <<>>  BY <1>1, <1>8 DEF WritePart
  <2>2. PICK e : e = [q[1] EXCEPT !.begun = TRUE]  OBVIOUS
  <2>3. PICK r : r = [q EXCEPT ![1] = e]  OBVIOUS
  <2>4. q[1] \in Data  BY <2>1
  <2>7. e \in Data /\ e.task = q[1].task /\ e.conn = q[1].conn  BY <2>2, <2>4 DEF Data
  <2>8. lstsenddata_' = r /\ server' = server  BY <1>1, <1>8, <2>2, <2>3 DEF WritePart
  <2>9. /\ r \in Seq(Data) /\ DOMAIN r = DOMAIN q
        /\ \A i \in DOMAIN r : r[i].task = q[i].task /\ r[i].conn = q[i].conn
    BY <2>1, <2>3, <2>7, Written
  <2>10. \A d \in Members(r) : \E f \in Members(q) : f.task = d.task /\ f.conn = d.conn
    BY <2>9 DEF Members
  <2>11. Distinct(q) => Distinct(r)  BY <2>9 DEF Distinct
  <2> QED  BY <1>1, <1>2, <2>8, <2>9, <2>10, <2>11, Fewer
<1> QED  BY <1>2, <1>4, <1>5, <1>6, <1>7, <1>8 DEF LinkThread, OwnStep

LEMMA ConnectShrinks ==
  ASSUME LongInv, MakeSureConnected, lstsenddata_' = lstsenddata_, server' = server
  PROVE  Shrinks
<1>1. LinkTypeOK /\ ThreadInv  BY DEF LongInv, TypeInv
<1>2. CASE conn' = conn
  <2>1. \A d \in Members(lstsenddata_') :
          \E e \in Members(lstsenddata_) : e.task = d.task /\ e.conn = d.conn
    OBVIOUS
  <2> QED  BY <1>1, <1>2, <2>1, Fewer DEF LinkTypeOK
<1>3. CASE conn' # conn
  <2>1. thread_ = "none"  BY <1>3 DEF MakeSureConnected
  <2>2. Unsent  BY <1>1, <2>1 DEF ThreadInv
  <2>3. Fresh'  BY <1>1, <2>2 DEF ThreadInv, Fresh, Unsent
  <2> QED  BY <1>1, <2>3 DEF Shrinks, LinkTypeOK, OnLink, Unsent, Clean
<1> QED  BY <1>2, <1>3

LEMMA StopShrinks ==
  ASSUME LinkTypeOK, NEW t, Stop(t), server' = server, conn' = conn
  PROVE  /\ Shrinks
         /\ \A u \in Tasks : u # t /\ OnLink(u) => OnLink(u)'
<1>1. PICK q \in Seq(Data) : q = lstsenddata_  BY DEF LinkTypeOK
<1>2. PICK K : K = {d \in Members(q) : d.task # t \/ d.begun}  OBVIOUS
<1>3. PICK r : r = Only(q, K)  OBVIOUS
<1>4. lstsenddata_' = r  BY <1>1, <1>2, <1>3 DEF Stop
<1>5. r \in Seq(Data) /\ Members(r) = Members(q) \cap K  BY <1>3, MembersOnly
<1>6. Distinct(q) => Distinct(r)  BY <1>3, DistinctOnly
<1>7. \A d \in Members(r) : \E e \in Members(q) : e.task = d.task /\ e.conn = d.conn  BY <1>5
<1>8. Shrinks  BY <1>1, <1>4, <1>5, <1>6, <1>7, Fewer
<1>9. \A u \in Tasks : u # t /\ OnLink(u) => OnLink(u)'  BY <1>1, <1>2, <1>4, <1>5 DEF OnLink
<1> QED  BY <1>8, <1>9

LEMMA SendEffect ==
  ASSUME LongInv, NEW t \in Tasks, SendTask(t)
  PROVE  /\ lstsenddata_' \in Seq(Data) /\ Fresh' /\ OnLink(t)'
         /\ \A u \in Tasks : u # t => (OnLink(u)' <=> OnLink(u))
<1>1. LinkTypeOK /\ ThreadInv /\ GivenUp /\ Chain(mq) /\ ListInv  BY DEF LongInv, TypeInv
<1>2. PICK q \in Seq(Data) : q = lstsenddata_  BY <1>1 DEF LinkTypeOK
<1>3. At = "each" /\ t \in Listed \ Running
  BY <1>1, LoopControl, LoopSteps DEF SendTask
<1>4. ~OnLink(t)  BY <1>1, <1>3 DEF GivenUp, Pending
<1>5. t # "noop"  BY NoopAssumption
<1>6. PICK d : d = [task |-> t, conn |-> conn, begun |-> FALSE]  OBVIOUS
<1>7. d \in Data /\ d.task = t /\ d.conn = conn  BY <1>1, <1>6 DEF LinkTypeOK, Data
<1>8. lstsenddata_' = Append(q, d) /\ server' = server /\ conn' = conn
  BY <1>2, <1>6 DEF SendTask, Send
<1>9. Append(q, d) \in Seq(Data) /\ Members(Append(q, d)) = Members(q) \cup {d}
  BY <1>7, MembersAppend
<1>10. Distinct(q) /\ \A e \in Members(q) : e.task # "noop" => e.conn = conn /\ e.task \notin server
  BY <1>1, <1>2 DEF ThreadInv, Fresh
<1>11. \A e \in Members(q) : e.task # d.task  BY <1>2, <1>4, <1>7 DEF OnLink
<1>12. PICK r : r = Append(q, d)  OBVIOUS
<1>13. Distinct(r)  BY <1>7, <1>10, <1>11, <1>12, DistinctAppend
<1>14. t \notin server  BY <1>4 DEF OnLink
<1>15. \A e \in Members(r) : e.task # "noop" => e.conn = conn /\ e.task \notin server
  BY <1>7, <1>9, <1>10, <1>12, <1>14
<1>16. Fresh'  BY <1>8, <1>12, <1>13, <1>15 DEF Fresh
<1>17. OnLink(t)' /\ \A u \in Tasks : u # t => (OnLink(u)' <=> OnLink(u))
  BY <1>2, <1>7, <1>8, <1>9 DEF OnLink
<1> QED  BY <1>8, <1>9, <1>16, <1>17

LEMMA UnchangedShrinks ==
  ASSUME LinkTypeOK, lstsenddata_' = lstsenddata_, server' = server, conn' = conn
  PROVE  Shrinks
<1>1. \A d \in Members(lstsenddata_') :
        \E e \in Members(lstsenddata_) : e.task = d.task /\ e.conn = d.conn
  OBVIOUS
<1> QED  BY <1>1, Fewer DEF LinkTypeOK

(* Only SendTask adds a request.                                           *)
LEMMA LinkStep ==
  ASSUME LongInv, [Next]_vars
  PROVE  Shrinks \/ \E t \in Tasks : SendTask(t)
<1>1. LinkTypeOK  BY DEF LongInv, TypeInv
<1>2. CASE lstsenddata_' = lstsenddata_ /\ server' = server /\ conn' = conn
  BY <1>1, <1>2, UnchangedShrinks
<1>3. CASE MakeSureConnected /\ lstsenddata_' = lstsenddata_ /\ server' = server
  BY <1>3, ConnectShrinks
<1>4. CASE UNCHANGED vars  BY <1>2, <1>4 DEF vars, linkVars
<1>5. CASE Connection  BY <1>1, <1>5, ThreadShrinks DEF Connection
<1>6. CASE App
  BY <1>2, <1>3, <1>6 DEF App, AppStart, AppStop, AppCall, AppConnect
<1>7. CASE Message \/ Timer
  <2>1. CASE \E t \in Tasks : StopTask(t)
    <3>1. PICK t \in Tasks : StopTask(t)  BY <2>1
    <3>2. server' = server /\ conn' = conn /\ (Stop(t) \/ lstsenddata_' = lstsenddata_)
      BY <3>1 DEF StopTask
    <3> QED  BY <1>1, <1>2, <3>2, StopShrinks
  <2>2. CASE Timer \/ SignalConnection \/ OnErrorResponse \/ AutoConnect \/ \E type \in Calls : NetCoreCall(type)
    BY <1>2, <1>3, <2>2 DEF Timer, SignalConnection, OnErrorResponse, AutoConnect, NetCoreCall, linkVars
  <2>3. CASE \E t \in Tasks : StartTask(t) \/ OnSendTask(t) \/ \E handle \in Handles : OnResponse(t, handle)
    BY <1>2, <2>3 DEF StartTask, OnSendTask, OnResponse
  <2> QED  BY <1>7, <2>1, <2>2, <2>3 DEF Message
<1>8. CASE Disconnect
  <2>1. lstsenddata_' = <<>> /\ server' = server /\ conn' = conn  BY <1>8 DEF Disconnect, DisconnectBegin
  <2> QED  BY <1>1, <2>1, Nothing, Fewer
<1>9. CASE Join \/ Joined \/ CancelMessage \/ Reconnect \/ RedoTasks \/ Clear \/ SessionTimeout
           \/ NoRetryInterval \/ RunLoopEnd
  BY <1>2, <1>3, <1>9 DEF Join, Joined, CancelMessage, Reconnect, RedoTasks, Clear, SessionTimeout,
                          NoRetryInterval, RunLoopEnd, linkVars
<1>10. CASE (\E over, late \in SUBSET Tasks : RunLoop(over, late))
            \/ (\E passed \in BOOLEAN : RunOnStartTask(passed))
  BY <1>2, <1>10 DEF RunLoop, RunOnStartTask, linkVars
<1>11. CASE \E t \in Tasks : SkipNotAuthed(t) \/ Refuse(t) \/ BreakOff(t) \/ SendFail(t)
  BY <1>2, <1>3, <1>11 DEF SkipNotAuthed, Refuse, BreakOff, SendFail, linkVars
<1> QED
  BY <1>4, <1>5, <1>6, <1>7, <1>8, <1>9, <1>10, <1>11 DEF Next, Handler

(* An answer is to a request on the connection.                            *)
LEMMA AnswersOf ==
  ASSUME MessageInv
  PROVE  /\ messages' = messages => \A t \in Tasks : Answered(t)' => Answered(t)
         /\ Cancel => \A t \in Tasks : ~Answered(t)'
         /\ \A type : Take(type) => \A t \in Tasks : Answered(t)' => Answered(t)
         /\ \A m \in Msg : Post(m) =>
              \A t \in Tasks : Answered(t)' <=> Answered(t) \/ m = On("OnResponse", t)
<1>1. PICK q \in Seq(Msg) : q = messages  BY DEF MessageInv
<1>2. messages' = messages => \A t \in Tasks : Answered(t)' => Answered(t)  BY DEF Answered
<1>3. ASSUME Cancel PROVE \A t \in Tasks : ~Answered(t)'
  <2>1. PICK K : K = Kept  OBVIOUS
  <2>2. messages' = Only(q, K) /\ Members(Only(q, K)) = Members(q) \cap K
    BY <1>1, <1>3, <2>1, MembersOnly DEF Cancel
  <2>3. \A t \in Tasks : On("OnResponse", t) \notin K  BY <2>1, MessageShapes DEF Kept
  <2> QED  BY <2>2, <2>3 DEF Answered
<1>4. ASSUME NEW type, Take(type) PROVE \A t \in Tasks : Answered(t)' => Answered(t)
  <2>1. Members(messages) = {Head(messages)} \cup Members(messages')  BY <1>4, Taken
  <2> QED  BY <2>1 DEF Answered
<1>5. ASSUME NEW m \in Msg, Post(m)
      PROVE  \A t \in Tasks : Answered(t)' <=> Answered(t) \/ m = On("OnResponse", t)
  <2>1. messages' = Append(q, m) /\ Members(Append(q, m)) = Members(q) \cup {m}
    BY <1>1, <1>5, MembersAppend DEF Post
  <2> QED  BY <1>1, <2>1 DEF Answered
<1> QED  BY <1>2, <1>3, <1>4, <1>5

LEMMA AnswersStep ==
  ASSUME LongInv, [Next]_vars
  PROVE  \A t \in Tasks : Answered(t)' => Answered(t) \/ OnLink(t)
<1>0. MessageInv /\ LinkTypeOK  BY DEF LongInv, TypeInv
<1>1. ASSUME NEW m \in Msg, m.type # "OnResponse", Post(m)
      PROVE  \A t \in Tasks : Answered(t)' => Answered(t)
  BY <1>0, <1>1, AnswersOf, MessageShapes
<1>2. CASE messages' = messages \/ Cancel \/ \E type : Take(type)
  BY <1>0, <1>2, AnswersOf
<1>3. CASE UNCHANGED vars  BY <1>2, <1>3 DEF vars, linkVars
<1>4. CASE App
  <2>1. CASE \E t \in Tasks : AppStart(t) \/ AppStop(t)
    BY <1>1, <2>1, MessageShapes DEF AppStart, AppStop
  <2>2. CASE \E type \in Calls : AppCall(type)
    <3>1. PICK type \in Calls : AppCall(type)  BY <2>2
    <3>2. PICK m \in Msg : m = [type |-> type]  BY MessageShapes
    <3>3. m.type # "OnResponse"  BY <3>2, TasksAssumption
    <3> QED  BY <1>1, <3>1, <3>2, <3>3 DEF AppCall
  <2>3. CASE AppConnect  BY <1>2, <2>3 DEF AppConnect
  <2> QED  BY <1>4, <2>1, <2>2, <2>3 DEF App
<1>5. CASE Message \/ Timer
  BY <1>2, <1>5 DEF Message, Timer, SignalConnection, OnErrorResponse, AutoConnect, NetCoreCall, StartTask,
                    StopTask, OnSendTask, OnResponse, linkVars
<1>6. CASE Disconnect \/ Join \/ Joined \/ CancelMessage \/ Reconnect \/ RedoTasks \/ Clear
           \/ SessionTimeout \/ NoRetryInterval \/ RunLoopEnd
  BY <1>2, <1>6 DEF Disconnect, Join, Joined, CancelMessage, Reconnect, RedoTasks, Clear,
                    SessionTimeout, NoRetryInterval, RunLoopEnd, linkVars
<1>7. CASE \/ \E over, late \in SUBSET Tasks : RunLoop(over, late)
           \/ \E passed \in BOOLEAN : RunOnStartTask(passed)
           \/ \E t \in Tasks : SkipNotAuthed(t) \/ Refuse(t) \/ BreakOff(t) \/ SendFail(t) \/ SendTask(t)
  BY <1>2, <1>7 DEF RunLoop, RunOnStartTask, SkipNotAuthed, Refuse, BreakOff, SendFail, SendTask, linkVars
<1>8. CASE Connection
  <2>1. LinkThread  BY <1>8 DEF Connection
  <2>2. CASE Begin \/ NoAddress \/ ConnectFail \/ SeeDisconnect \/ Close \/ End \/ NoopReq \/ NoopResp \/ Break
    BY <1>2, <2>2 DEF Begin, NoAddress, ConnectFail, SeeDisconnect, Close, End, NoopReq, NoopResp, Break
  <2>3. CASE Connect  BY <1>1, <2>3, MessageShapes DEF Connect, Signal
  <2>4. CASE RunResponseError  BY <1>1, <2>4, MessageShapes DEF RunResponseError, OnError
  <2>5. CASE \E t \in Tasks : Response(t)
    <3>1. PICK t \in Tasks : Response(t)  BY <2>5
    <3>2. Post(On("OnResponse", t)) /\ OnLink(t)  BY <3>1 DEF Response, OnLink
    <3>3. \A u \in Tasks : Answered(u)' => Answered(u) \/ On("OnResponse", t) = On("OnResponse", u)
      BY <1>0, <3>2, AnswersOf, MessageShapes
    <3> QED  BY <3>2, <3>3, MessageShapes
  <2>6. CASE WriteAll \/ WritePart
    <3>1. PICK q \in Seq(Data) : q = lstsenddata_  BY <1>0 DEF LinkTypeOK
    <3>2. q # <<>> /\ OnSend(Head(q))  BY <2>6, <3>1 DEF WriteAll, WritePart
    <3>3. Head(q) \in Data  BY <3>2
    <3>4. CASE messages' = messages  BY <1>2, <3>4
    <3>5. CASE Head(q).task \in Tasks /\ Post(On("OnSend", Head(q).task))
      BY <1>1, <3>5, MessageShapes
    <3> QED  BY <3>2, <3>3, <3>4, <3>5 DEF OnSend, Data
  <2> QED  BY <2>1, <2>2, <2>3, <2>4, <2>5, <2>6 DEF LinkThread, OwnStep
<1> QED
  BY <1>3, <1>4, <1>5, <1>6, <1>7, <1>8 DEF Next, Handler

LEMMA SentStep ==
  ASSUME LongInv, [Next]_vars
  PROVE  SentInv'
<1>1. SentInv /\ TaskInv  BY DEF LongInv, TypeInv, TaskInv, TaskTypes
<1>2. TaskInv' /\ Moves  BY <1>1, EffectOfStep, TaskStep
<1>3. ASSUME NEW t \in Tasks, sends[t] > 0  PROVE sends'[t] > 0
  <2>1. sends'[t] = sends[t] \/ sends'[t] = sends[t] + 1  BY <1>2 DEF Moves, MovesTo
  <2>2. sends[t] \in Nat  BY <1>1 DEF TaskInv, TaskTypes
  <2> QED  BY <1>3, <2>1, <2>2
<1>4. ASSUME NEW t \in Tasks, OnLink(t)' \/ Answered(t)'
      PROVE  sends'[t] > 0
  <2>1. CASE OnLink(t) \/ Answered(t)  BY <1>1, <1>3, <2>1 DEF SentInv
  <2>2. CASE ~OnLink(t) /\ ~Answered(t)
    <3>1. ~Answered(t)'  BY <2>2, AnswersStep
    <3>2. OnLink(t)'  BY <1>4, <3>1
    <3>3. ~Shrinks  BY <2>2, <3>2 DEF Shrinks
    <3>4. PICK u \in Tasks : SendTask(u)  BY <3>3, LinkStep
    <3>5. u = t  BY <2>2, <3>2, <3>4, SendEffect
    <3>6. sends[t] \in Nat /\ sends \in [Tasks -> Nat]  BY <1>1 DEF TaskInv, TaskTypes
    <3>7. sends' = [sends EXCEPT ![t] = @ + 1]  BY <3>4, <3>5 DEF SendTask
    <3> QED  BY <3>6, <3>7
  <2> QED  BY <2>1, <2>2
<1> QED  BY <1>4 DEF SentInv

LEMMA TypeStep ==
  ASSUME LongInv, [Next]_vars
  PROVE  TypeInv'
<1>1. TypeInv /\ LinkTypeOK  BY DEF LongInv, TypeInv
<1>2. TaskTypes'
  <2>1. TaskInv  BY DEF LongInv, TypeInv, TaskInv, TaskTypes
  <2> QED  BY <2>1, EffectOfStep, TaskStep DEF TaskInv
<1>3. lstsenddata_' \in Seq(Data) /\ server' \subseteq Tasks \cup {"noop"}
  <2>1. CASE Shrinks  BY <2>1 DEF Shrinks
  <2>2. CASE \E t \in Tasks : SendTask(t)
    BY <1>1, <2>2, SendEffect DEF SendTask, LinkTypeOK
  <2> QED  BY <2>1, <2>2, LinkStep
<1> DEFINE Rest == <<connectstatus_, disconnectinternalcode_, thread_, errtype, is_noop, conn>>
           RestOK == /\ connectstatus_ \in {"kConnectIdle", "kConnecting", "kConnected", "kDisConnected",
                                            "kConnectFailed"}
                     /\ disconnectinternalcode_ \in {"kNone", "set"}
                     /\ thread_ \in {"none", "begin", "connecting", "rw", "closing", "failed", "ending"}
                     /\ errtype \in {"kEctOK", "error"} /\ is_noop \in BOOLEAN /\ conn \in 0..MaxConns
           Others == <<retry_interval_, timer, joining, calls, stopped>>
           OthersOK == /\ retry_interval_ \in {0, 1} /\ timer \in BOOLEAN /\ joining \in 0..MaxConns
                       /\ calls \in 0..MaxCalls /\ stopped \subseteq Tasks
<1>4. RestOK /\ OthersOK  BY <1>1 DEF LinkTypeOK, TypeInv
<1>5. UNCHANGED Rest => RestOK'  BY <1>4
<1>6. UNCHANGED Others => OthersOK'  BY <1>4
<1>7. UNCHANGED <<timer, joining, calls, stopped>> /\ retry_interval_' \in {retry_interval_, 0, 1} => OthersOK'
  BY <1>4
<1>8. MaxConns \in Nat /\ MaxCalls \in Nat  BY MaxConnsAssumption, TasksAssumption
<1>9. MakeSureConnected /\ errtype' = errtype /\ is_noop' = is_noop => RestOK'
  BY <1>4, <1>8 DEF MakeSureConnected
<1>10. RestOK' /\ OthersOK'
  <2>1. CASE UNCHANGED vars  BY <1>5, <1>6, <2>1 DEF vars, linkVars, taskVars, mqVars
  <2>2. CASE Connection
    <3>1. OthersOK'  BY <1>6, <2>2 DEF Connection, taskVars, mqVars
    <3>2. RestOK'
      <4>1. LinkThread  BY <2>2 DEF Connection
      <4> QED
        BY <1>4, <4>1 DEF LinkThread, OwnStep, Begin, NoAddress, ConnectFail, Connect, SeeDisconnect, Close,
                          RunResponseError, End, NoopReq, WriteAll, WritePart, NoopResp, Break, Response
    <3> QED  BY <3>1, <3>2
  <2>3. CASE \E t \in Tasks : AppStart(t)  BY <1>5, <1>6, <2>3 DEF AppStart, mqVars
  <2>4. CASE \E t \in Tasks : AppStop(t)
    <3>1. UNCHANGED Rest  BY <2>4 DEF AppStop
    <3>2. OthersOK'  BY <1>4, <2>4 DEF AppStop, taskVars, mqVars
    <3> QED  BY <1>5, <3>1, <3>2
  <2>5. CASE \E type \in Calls : AppCall(type)
    <3>1. UNCHANGED Rest  BY <2>5 DEF AppCall
    <3>2. OthersOK'  BY <1>4, <1>8, <2>5 DEF AppCall, taskVars, mqVars
    <3> QED  BY <1>5, <3>1, <3>2
  <2>6. CASE AppConnect \/ AutoConnect \/ Reconnect
    BY <1>6, <1>9, <2>6 DEF AppConnect, AutoConnect, Reconnect, taskVars, mqVars
  <2>7. CASE Timer
    <3>1. UNCHANGED Rest  BY <2>7 DEF Timer, linkVars
    <3>2. OthersOK'  BY <1>4, <2>7 DEF Timer
    <3> QED  BY <1>5, <3>1, <3>2
  <2>8. CASE SignalConnection \/ \E type \in Calls : NetCoreCall(type)
    BY <1>5, <1>6, <2>8 DEF SignalConnection, NetCoreCall, taskVars
  <2>9. CASE \E t \in Tasks : StartTask(t) \/ StopTask(t) \/ OnSendTask(t)
    BY <1>5, <1>6, <2>9 DEF StartTask, StopTask, OnSendTask, mqVars
  <2>10. CASE OnErrorResponse \/ SessionTimeout
    <3>1. UNCHANGED Rest  BY <2>10 DEF OnErrorResponse, SessionTimeout
    <3>2. OthersOK'  BY <1>7, <2>10 DEF OnErrorResponse, SessionTimeout, BatchErrorResp
    <3> QED  BY <1>5, <3>1, <3>2
  <2>11. CASE \E t \in Tasks, handle \in Handles : OnResponse(t, handle)
    <3>1. PICK t \in Tasks, handle \in Handles : OnResponse(t, handle)  BY <2>11
    <3>2. UNCHANGED Rest /\ UNCHANGED <<timer, joining, calls, stopped>>  BY <3>1 DEF OnResponse
    <3>3. retry_interval_' \in {retry_interval_, 0, 1}
      BY <3>1 DEF OnResponse, End1, BatchErrorResp, Handles
    <3> QED  BY <1>5, <1>7, <3>2, <3>3
  <2>12. CASE Disconnect
    <3>1. OthersOK'  BY <1>6, <2>12 DEF Disconnect, taskVars
    <3>2. RestOK'  BY <1>4, <2>12 DEF Disconnect, DisconnectBegin
    <3> QED  BY <3>1, <3>2
  <2>13. CASE Join \/ Joined
    <3>1. UNCHANGED Rest  BY <2>13 DEF Join, Joined, linkVars
    <3>2. OthersOK'  BY <1>4, <1>8, <2>13 DEF Join, Joined, taskVars
    <3> QED  BY <1>5, <3>1, <3>2
  <2>14. CASE CancelMessage \/ \E passed \in BOOLEAN : RunOnStartTask(passed)
    BY <1>5, <1>6, <2>14 DEF CancelMessage, RunOnStartTask, linkVars, taskVars
  <2>15. CASE RedoTasks \/ NoRetryInterval \/ Clear
    BY <1>5, <1>7, <2>15 DEF RedoTasks, NoRetryInterval, Clear, linkVars
  <2>16. CASE RunLoopEnd
    <3>1. UNCHANGED Rest  BY <2>16 DEF RunLoopEnd, linkVars
    <3>2. OthersOK'  BY <1>4, <2>16 DEF RunLoopEnd
    <3> QED  BY <1>5, <3>1, <3>2
  <2>17. CASE \E over, late \in SUBSET Tasks : RunLoop(over, late)
    <3>1. PICK over \in SUBSET Tasks, late \in SUBSET Tasks : RunLoop(over, late)  BY <2>17
    <3>2. UNCHANGED Rest /\ UNCHANGED <<timer, joining, calls, stopped>>  BY <3>1 DEF RunLoop, linkVars
    <3>3. retry_interval_' \in {retry_interval_, 0, 1}  BY <3>1 DEF RunLoop, BatchErrorResp
    <3> QED  BY <1>5, <1>7, <3>2, <3>3
  <2>18. CASE \E t \in Tasks : SkipNotAuthed(t) \/ Refuse(t) \/ SendFail(t) \/ SendTask(t)
    <3>1. PICK t \in Tasks : SkipNotAuthed(t) \/ Refuse(t) \/ SendFail(t) \/ SendTask(t)  BY <2>18
    <3>2. UNCHANGED <<connectstatus_, thread_, errtype, is_noop, conn, disconnectinternalcode_>>
          /\ UNCHANGED <<timer, joining, calls, stopped>>
      BY <3>1 DEF SkipNotAuthed, Refuse, SendFail, SendTask, linkVars, taskVars
    <3>3. retry_interval_' \in {retry_interval_, 0, 1}
      BY <3>1 DEF SkipNotAuthed, Refuse, SendFail, SendTask, End1, taskVars
    <3> QED  BY <1>5, <1>7, <3>2, <3>3
  <2>19. CASE \E t \in Tasks : BreakOff(t)
    <3>1. PICK t \in Tasks : BreakOff(t)  BY <2>19
    <3>2. OthersOK'  BY <1>6, <3>1 DEF BreakOff
    <3>3. RestOK'  BY <1>5, <1>9, <3>1 DEF BreakOff
    <3> QED  BY <3>2, <3>3
  <2> QED
    BY <2>1, <2>2, <2>3, <2>4, <2>5, <2>6, <2>7, <2>8, <2>9, <2>10, <2>11, <2>12, <2>13, <2>14,
       <2>15, <2>16, <2>17, <2>18, <2>19
    DEF Next, App, Message, Handler
<1> QED  BY <1>2, <1>3, <1>10 DEF TypeInv, LinkTypeOK, TaskTypes
-----------------------------------------------------------------------------
(* The delayed __RunLoop                                                   *)

LEMMA TimerStep ==
  ASSUME LongInv, [Next]_vars
  PROVE  TimerInv'
<1> DEFINE Looping == {"loop", "start", "each"}
<1>1. Chain(mq) /\ ListInv /\ TimerInv  BY DEF LongInv
<1>2. ListInv'
  <2>1. TaskInv  BY DEF LongInv, TypeInv, TaskInv, TaskTypes
  <2> QED  BY <2>1, EffectOfStep, TaskStep DEF TaskInv
<1>3. /\ lst_cmd_ = <<>> <=> Listed = {}
      /\ lst_cmd_' = <<>> <=> Listed' = {}
  <2>1. PICK q \in Seq(Tasks) : q = lst_cmd_  BY <1>1 DEF ListInv
  <2>2. PICK r \in Seq(Tasks) : r = lst_cmd_'  BY <1>2 DEF ListInv
  <2>3. Members(<<>>) = {}  BY DEF Members
  <2>4. q = <<>> <=> Members(q) = {}  BY <2>3, MembersOf
  <2>5. r = <<>> <=> Members(r) = {}  BY <2>3, MembersOf
  <2> QED  BY <2>1, <2>2, <2>4, <2>5 DEF Listed
<1>4. Goal' \in Looping \/ Listed' = {} => TimerInv'  BY <1>3 DEF TimerInv
<1>5. ASSUME Listed' \subseteq Listed, timer' = timer, Goal' = Goal \/ Goal \notin Looping
      PROVE  TimerInv'
  BY <1>1, <1>3, <1>5 DEF TimerInv
<1>6. Same \/ NoneRuns \/ (\E t : Gone(t)) => Listed' \subseteq Listed  BY DEF Same, NoneRuns, Gone
<1>7. CASE App \/ Connection \/ UNCHANGED vars
  <2>1. Same  BY <1>7, SameSteps DEF App
  <2>2. timer' = timer /\ mq' = mq
    BY <1>7 DEF App, AppStart, AppStop, AppCall, AppConnect, Connection, vars, mqVars, taskVars
  <2> QED  BY <1>1, <1>5, <1>6, <2>1, <2>2, Holding DEF Holds
<1>8. CASE Timer \/ SignalConnection \/ \E t \in Tasks : StartTask(t)
  BY <1>1, <1>4, <1>8, MessageControl DEF Runs
<1>9. At = "idle" => Goal \notin Looping  BY <1>1, AtGoal
<1>10. CASE AutoConnect \/ OnErrorResponse \/ \E type \in Calls : NetCoreCall(type)
  <2>1. Listed' \subseteq Listed
    <3>1. Same \/ NoneRuns  BY <1>10, SameSteps, LoopSteps
    <3> QED  BY <1>6, <3>1
  <2>2. timer' = timer  BY <1>10 DEF AutoConnect, OnErrorResponse, NetCoreCall, taskVars
  <2>3. At = "idle"  BY <1>1, <1>10, MessageControl
  <2> QED  BY <1>5, <1>9, <2>1, <2>2, <2>3
<1>11. CASE \E t \in Tasks : StopTask(t) \/ OnSendTask(t) \/ \E handle \in Handles : OnResponse(t, handle)
  <2>1. PICK t \in Tasks : StopTask(t) \/ OnSendTask(t) \/ \E handle \in Handles : OnResponse(t, handle)
    BY <1>11
  <2>2. Same \/ NoneRuns \/ Gone(t)  BY <2>1, MessageSteps DEF Handles
  <2>3. timer' = timer  BY <2>1 DEF StopTask, OnSendTask, OnResponse
  <2>4. At = "idle"  BY <1>1, <2>1, MessageControl
  <2> QED  BY <1>5, <1>6, <1>9, <2>2, <2>3, <2>4
<1>12. CASE Disconnect \/ Join \/ Joined \/ CancelMessage \/ Reconnect \/ NoRetryInterval
  <2>1. Same  BY <1>12, SameSteps
  <2>2. timer' = timer
    BY <1>12 DEF Disconnect, Join, Joined, CancelMessage, Reconnect, NoRetryInterval, taskVars
  <2>3. At \notin Looping /\ (Goes \/ Waits("join") \/ Waits("joining"))
    BY <1>1, <1>12, HandlerControl
  <2>4. Goal' = Goal \/ Goal = At  BY <2>3 DEF Goes, Advances, Waits
  <2> QED  BY <1>5, <1>6, <2>1, <2>2, <2>3, <2>4
<1>13. CASE RedoTasks \/ SessionTimeout \/ \E passed \in BOOLEAN : RunOnStartTask(passed)
  BY <1>1, <1>4, <1>13, LoopControl DEF Runs
<1>14. CASE Clear  BY <1>4, <1>14, LoopSteps
<1>15. CASE RunLoopEnd
  <2>1. timer' \/ lst_cmd_' = <<>>  BY <1>15 DEF RunLoopEnd
  <2> QED  BY <2>1 DEF TimerInv
<1>16. CASE \E over, late \in SUBSET Tasks : RunLoop(over, late)
  <2>1. PICK over \in SUBSET Tasks, late \in SUBSET Tasks : RunLoop(over, late)  BY <1>16
  <2>2. CASE over \cup late = {} /\ lst_cmd_ = <<>>
    <3>1. Same  BY <2>1, <2>2, LoopSteps
    <3> QED  BY <1>3, <1>4, <2>2, <3>1 DEF Same
  <2>3. CASE over \cup late # {} \/ lst_cmd_ # <<>>
    BY <1>1, <1>4, <2>1, <2>3, LoopControl DEF Runs
  <2> QED  BY <2>2, <2>3
<1>17. CASE \E t \in Tasks : SkipNotAuthed(t) \/ Refuse(t) \/ BreakOff(t) \/ SendFail(t) \/ SendTask(t)
  <2>1. PICK t \in Tasks : SkipNotAuthed(t) \/ Refuse(t) \/ BreakOff(t) \/ SendFail(t) \/ SendTask(t)
    BY <1>17
  <2>2. Each(t) /\ mq' = mq
    BY <2>1 DEF SkipNotAuthed, Refuse, BreakOff, SendFail, SendTask
  <2>3. Goal' \in Looping  BY <1>1, <2>2, LoopControl DEF Holds
  <2> QED  BY <1>4, <2>3
<1> QED
  BY <1>7, <1>8, <1>10, <1>11, <1>12, <1>13, <1>14, <1>15, <1>16, <1>17
  DEF Next, Message, Handler
-----------------------------------------------------------------------------
(* The connection is given up                                              *)

(* Only a task that waited or was posted waits.                            *)
Started == \A t \in Tasks : t \in Listed' \ Running' => t \in Listed \ Running \/ outcome[t] = "posted"

LEMMA StartedBy ==
  /\ Same => Started
  /\ \A t : Gone(t) => Started
  /\ \A t : Listed' = Listed \cup {t} /\ Running' = Running /\ outcome[t] = "posted" => Started
BY DEF Same, Gone, Started

LEMMA GivenClean ==
  ASSUME Clean'
  PROVE  GivenUp'
<1>1. \A t \in Tasks : ~OnLink(t)'  BY NoopAssumption DEF Clean, Unsent, OnLink
<1> QED  BY <1>1 DEF GivenUp, Clean

(* What is on the connection was not waiting.                              *)
LEMMA GivenRuns ==
  ASSUME LongInv, Moves, Shrinks, Started, ~Pending
  PROVE  \A t \in Tasks : OnLink(t)' => /\ outcome'[t] \notin {"new", "posted"}
                                        /\ t \in Listed' => t \in Running'
<1> SUFFICES ASSUME NEW t \in Tasks, OnLink(t)'
             PROVE  outcome'[t] \notin {"new", "posted"} /\ (t \in Listed' => t \in Running')
  OBVIOUS
<1>1. OnLink(t)  BY DEF Shrinks
<1>2. outcome[t] \notin {"new", "posted"} /\ (t \in Listed => t \in Running)
  BY <1>1 DEF LongInv, GivenUp
<1>3. outcome'[t] \notin {"new", "posted"}  BY <1>2 DEF Moves, MovesTo, Ended
<1>4. t \notin Listed' \ Running'  BY <1>2 DEF Started
<1> QED  BY <1>3, <1>4

LEMMA GivenKept ==
  ASSUME LongInv, Moves, Shrinks, Started, At' = At, joining' = joining, conn' = conn
  PROVE  GivenUp'
<1>1. GivenUp  BY DEF LongInv
<1>2. (Unsent => Unsent') /\ (Clean => Clean')  BY DEF Shrinks
<1>3. Pending' = Pending  BY DEF Pending
<1>4. At' \in {"redo", "connect", "cancel", "noretry", "clear"} => Clean'  BY <1>1, <1>2 DEF GivenUp
<1>5. At' = "join" => Unsent'  BY <1>1, <1>2 DEF GivenUp
<1>6. At' = "joining" => Unsent' /\ (joining' = conn' \/ Clean')  BY <1>1, <1>2 DEF GivenUp
<1>7. ~Pending' => \A t \in Tasks : OnLink(t)' => /\ outcome'[t] \notin {"new", "posted"}
                                                  /\ t \in Listed' => t \in Running'
  BY <1>3, GivenRuns
<1> QED  BY <1>4, <1>5, <1>6, <1>7 DEF GivenUp

LEMMA GivenOther ==
  ASSUME LongInv, Moves, Shrinks, Started, At' \in {"idle", "loop", "start", "each", "session"}, ~Pending
  PROVE  GivenUp'
<1>1. \A t \in Tasks : OnLink(t)' => /\ outcome'[t] \notin {"new", "posted"}
                                     /\ t \in Listed' => t \in Running'
  BY GivenRuns
<1> QED  BY <1>1 DEF GivenUp

LEMMA GivenPending ==
  ASSUME At' = "disconnect"
  PROVE  GivenUp'
BY DEF GivenUp, Pending

(* A new connection is started only when the last one is given up.         *)
LEMMA GivenConnect ==
  ASSUME LongInv, Moves, Shrinks, Started, MakeSureConnected, server' = server,
         lstsenddata_' = lstsenddata_, At' = At, joining' = joining
  PROVE  GivenUp'
<1>1. CASE conn' = conn  BY <1>1, GivenKept
<1>2. CASE conn' # conn
  <2>1. thread_ = "none"  BY <1>2 DEF MakeSureConnected
  <2>2. Unsent /\ server = {}  BY <2>1 DEF LongInv, ThreadInv
  <2>3. Clean'  BY <2>2 DEF Clean, Unsent
  <2> QED  BY <2>3, GivenClean
<1> QED  BY <1>1, <1>2

LEMMA GivenStep ==
  ASSUME LongInv, [Next]_vars
  PROVE  GivenUp'
<1>1. Chain(mq) /\ GivenUp /\ ThreadInv /\ LinkTypeOK /\ ListInv  BY DEF LongInv, TypeInv
<1>2. Moves
  <2>1. TaskInv  BY DEF LongInv, TypeInv, TaskInv, TaskTypes
  <2> QED  BY <2>1, EffectOfStep, TaskStep
<1>3. Shrinks \/ \E t \in Tasks : SendTask(t)  BY LinkStep
<1>4. ASSUME Clean, Shrinks PROVE GivenUp'
  BY <1>4, GivenClean DEF Shrinks
<1>5. CASE App \/ Connection \/ UNCHANGED vars
  <2>1. mq' = mq /\ joining' = joining
    BY <1>5 DEF App, AppStart, AppStop, AppCall, AppConnect, Connection, vars, mqVars
  <2>2. At' = At /\ Started  BY <1>1, <1>5, <2>1, Holding, SameSteps, StartedBy DEF Holds, App
  <2>3. CASE AppConnect
    <3>1. MakeSureConnected /\ server' = server /\ lstsenddata_' = lstsenddata_
      BY <2>3 DEF AppConnect
    <3> QED  BY <1>2, <2>1, <2>2, <3>1, ConnectShrinks, GivenConnect
  <2>4. CASE ~AppConnect
    <3>1. conn' = conn /\ Shrinks
      <4>1. CASE Connection  BY <1>1, <4>1, ThreadShrinks DEF Connection
      <4>2. CASE ~Connection
        <5>1. lstsenddata_' = lstsenddata_ /\ server' = server /\ conn' = conn
          BY <1>5, <2>4, <4>2 DEF App, AppStart, AppStop, AppCall, vars, linkVars
        <5> QED  BY <1>1, <5>1, UnchangedShrinks
      <4> QED  BY <4>1, <4>2
    <3> QED  BY <1>2, <2>1, <2>2, <3>1, GivenKept
  <2> QED  BY <2>3, <2>4
<1>6. CASE Message \/ Timer
  <2>1. At = "idle" /\ ~Pending  BY <1>1, <1>6, MessageControl DEF Message, Pending
  <2>2. ~\E t : SendTask(t)
    BY <1>1, <2>1, AtGoal DEF SendTask, Each
  <2>3. Shrinks  BY <1>3, <2>2
  <2>4. CASE Timer \/ SignalConnection \/ \E t \in Tasks : StartTask(t)
    <3>1. At' = "loop"  BY <1>1, <2>4, MessageControl DEF Runs
    <3>2. Started
      <4>1. CASE Timer \/ SignalConnection  BY <4>1, SameSteps, StartedBy
      <4>2. CASE \E t \in Tasks : StartTask(t)  BY <4>2, MessageSteps, StartedBy
      <4> QED  BY <2>4, <4>1, <4>2
    <3> QED  BY <1>2, <2>1, <2>3, <3>1, <3>2, GivenOther
  <2>5. CASE OnErrorResponse \/ \E type \in Calls : NetCoreCall(type)
    <3>1. At' = "disconnect"  BY <1>1, <2>5, MessageControl DEF Runs
    <3> QED  BY <3>1, GivenPending
  <2>6. CASE AutoConnect
    <3>1. MakeSureConnected /\ server' = server /\ lstsenddata_' = lstsenddata_ /\ joining' = joining
      BY <2>6 DEF AutoConnect, mqVars
    <3>2. At' = At /\ Started  BY <1>1, <2>6, MessageControl, SameSteps, StartedBy DEF Holds
    <3> QED  BY <1>2, <2>3, <3>1, <3>2, GivenConnect
  <2>7. CASE \E t \in Tasks : StopTask(t) \/ OnSendTask(t)
    <3>1. joining' = joining /\ conn' = conn  BY <2>7 DEF StopTask, OnSendTask, mqVars
    <3>2. At' = At /\ Started  BY <1>1, <2>7, MessageControl, MessageSteps, StartedBy DEF Holds
    <3> QED  BY <1>2, <2>3, <3>1, <3>2, GivenKept
  <2>8. CASE \E t \in Tasks, handle \in Handles : OnResponse(t, handle)
    <3>1. PICK t \in Tasks, handle \in Handles : OnResponse(t, handle)  BY <2>8
    <3>2. CASE t \notin Listed \/ handle \in {"NoError", "TaskEnd"}
      <4>1. joining' = joining /\ conn' = conn  BY <3>1 DEF OnResponse
      <4>2. At' = At /\ Started  BY <1>1, <3>1, <3>2, MessageControl, MessageSteps, StartedBy DEF Holds
      <4> QED  BY <1>2, <2>3, <4>1, <4>2, GivenKept
    <3>3. CASE t \in Listed /\ handle = "Default"
      <4>1. At' = "disconnect"  BY <1>1, <3>1, <3>3, MessageControl DEF Runs
      <4> QED  BY <4>1, GivenPending
    <3>4. CASE t \in Listed /\ handle = "SessionTimeout"
      <4>1. At' = "session" /\ Started
        BY <1>1, <3>1, <3>4, MessageControl, MessageSteps, StartedBy DEF Runs
      <4> QED  BY <1>2, <2>1, <2>3, <4>1, GivenOther
    <3> QED  BY <3>2, <3>3, <3>4 DEF Handles
  <2> QED  BY <1>6, <2>4, <2>5, <2>6, <2>7, <2>8 DEF Message
<1>7. CASE Disconnect
  <2>1. lstsenddata_' = <<>> /\ server' = server  BY <1>7 DEF Disconnect, DisconnectBegin
  <2>2. Unsent'  BY <2>1, Nothing DEF Unsent
  <2>3. CASE thread_ = "none"
    <3>1. Clean'  BY <1>1, <2>1, <2>2, <2>3 DEF ThreadInv, Clean
    <3> QED  BY <3>1, GivenClean
  <2>4. CASE thread_ # "none"
    <3>1. At' = "join"  BY <1>1, <1>7, <2>4, HandlerControl DEF Waits
    <3> QED  BY <2>2, <3>1 DEF GivenUp, Pending
  <2> QED  BY <2>3, <2>4
<1>8. CASE Join
  <2>1. lstsenddata_' = lstsenddata_ /\ server' = server /\ conn' = conn
    BY <1>8 DEF Join, linkVars
  <2>2. At = "join"  BY <1>1, <1>8, HandlerControl
  <2>3. CASE thread_ = "none"
    <3>1. Clean'  BY <1>1, <2>1, <2>3 DEF ThreadInv, Clean, Unsent
    <3> QED  BY <3>1, GivenClean
  <2>4. CASE thread_ # "none"
    <3>1. At' = "joining"  BY <1>1, <1>8, <2>4, HandlerControl DEF Waits
    <3>2. joining' = conn'  BY <1>8, <2>1, <2>4 DEF Join
    <3>3. Unsent'  BY <1>1, <2>1, <2>2 DEF GivenUp, Unsent
    <3> QED  BY <3>1, <3>2, <3>3 DEF GivenUp, Pending
  <2> QED  BY <2>3, <2>4
<1>9. CASE Joined
  <2>1. lstsenddata_' = lstsenddata_ /\ server' = server /\ (thread_ = "none" \/ conn # joining)
    BY <1>9 DEF Joined, linkVars
  <2>2. At = "joining"  BY <1>1, <1>9, HandlerControl
  <2>3. Clean  BY <1>1, <2>1, <2>2 DEF ThreadInv, GivenUp, Clean
  <2>4. Clean'  BY <2>1, <2>3 DEF Clean, Unsent
  <2> QED  BY <2>4, GivenClean
<1>10. CASE CancelMessage \/ Reconnect \/ NoRetryInterval \/ RedoTasks \/ Clear
  <2>1. At \in {"redo", "connect", "cancel", "noretry", "clear"}
    BY <1>1, <1>10, HandlerControl, LoopControl
  <2>2. Clean  BY <1>1, <2>1 DEF GivenUp
  <2>3. ~\E t : SendTask(t)  BY <1>1, <2>1, LoopControl DEF SendTask
  <2> QED  BY <1>3, <1>4, <2>2, <2>3
<1>11. CASE SessionTimeout
  <2>1. At' = "disconnect"  BY <1>1, <1>11, LoopControl DEF Runs
  <2> QED  BY <2>1, GivenPending
<1>12. CASE RunLoopEnd \/ \E passed \in BOOLEAN : RunOnStartTask(passed)
  <2>1. At \in {"each", "start"} /\ At' \in {"idle", "each"}  BY <1>1, <1>12, LoopControl DEF Runs
  <2>2. Started  BY <1>12, SameSteps, StartedBy
  <2>3. lstsenddata_' = lstsenddata_ /\ server' = server /\ conn' = conn
    BY <1>12 DEF RunLoopEnd, RunOnStartTask, linkVars
  <2> QED  BY <1>1, <1>2, <2>1, <2>2, <2>3, UnchangedShrinks, GivenOther DEF Pending
<1>13. CASE \E over, late \in SUBSET Tasks : RunLoop(over, late)
  <2>1. PICK over \in SUBSET Tasks, late \in SUBSET Tasks : RunLoop(over, late)  BY <1>13
  <2>2. CASE over \cup late = {}
    <3>1. At = "loop" /\ At' \in {"idle", "start"}  BY <1>1, <2>1, <2>2, LoopControl DEF Runs
    <3>2. Started  BY <2>1, <2>2, LoopSteps, StartedBy
    <3>3. lstsenddata_' = lstsenddata_ /\ server' = server /\ conn' = conn
      BY <2>1 DEF RunLoop, linkVars
    <3> QED  BY <1>1, <1>2, <3>1, <3>2, <3>3, UnchangedShrinks, GivenOther DEF Pending
  <2>3. CASE over \cup late # {}
    <3>1. At' = "disconnect"  BY <1>1, <2>1, <2>3, LoopControl DEF Runs
    <3> QED  BY <3>1, GivenPending
  <2> QED  BY <2>2, <2>3
<1>14. CASE \E t \in Tasks : SkipNotAuthed(t) \/ Refuse(t) \/ SendFail(t)
  <2>1. PICK t \in Tasks : SkipNotAuthed(t) \/ Refuse(t) \/ SendFail(t)  BY <1>14
  <2>2. /\ Each(t) /\ mq' = mq /\ joining' = joining /\ conn' = conn
        /\ lstsenddata_' = lstsenddata_ /\ server' = server
    BY <2>1 DEF SkipNotAuthed, Refuse, SendFail, linkVars
  <2>3. At' = At  BY <1>1, <2>2, LoopControl DEF Holds
  <2>4. Started  BY <2>1, SameSteps, LoopSteps, StartedBy
  <2> QED  BY <1>1, <1>2, <2>2, <2>3, <2>4, UnchangedShrinks, GivenKept
<1>15. CASE \E t \in Tasks : BreakOff(t)
  <2>1. PICK t \in Tasks : BreakOff(t)  BY <1>15
  <2>2. /\ Each(t) /\ mq' = mq /\ joining' = joining
        /\ lstsenddata_' = lstsenddata_ /\ server' = server
        /\ MakeSureConnected \/ conn' = conn
    BY <2>1 DEF BreakOff
  <2>3. At' = At  BY <1>1, <2>2, LoopControl DEF Holds
  <2>4. Started  BY <2>1, LoopSteps, StartedBy
  <2>5. CASE MakeSureConnected  BY <1>2, <2>2, <2>3, <2>4, <2>5, ConnectShrinks, GivenConnect
  <2>6. CASE conn' = conn  BY <1>1, <1>2, <2>2, <2>3, <2>4, <2>6, UnchangedShrinks, GivenKept
  <2> QED  BY <2>2, <2>5, <2>6
<1>16. CASE \E t \in Tasks : SendTask(t)
  <2>1. PICK t \in Tasks : SendTask(t)  BY <1>16
  <2>2. Each(t) /\ mq' = mq  BY <2>1 DEF SendTask
  <2>3. At = "each" /\ At' = "each" /\ ~Pending  BY <1>1, <2>2, LoopControl DEF Holds, Pending
  <2>4. t \in Listed \ Running /\ outcome[t] = "listed"  BY <1>1, <2>1, LoopSteps DEF ListInv
  <2>5. IF t \in SendOnly THEN Gone(t) ELSE Listed' = Listed /\ Running' = Running \cup {t}
    BY <2>1, LoopSteps
  <2>6. ASSUME NEW u \in Tasks, OnLink(u)'
        PROVE  outcome'[u] \notin {"new", "posted"} /\ (u \in Listed' => u \in Running')
    <3>1. CASE u = t
      <4>1. outcome'[t] \notin {"new", "posted"}  BY <1>2, <2>4 DEF Moves, MovesTo, Ended
      <4>2. t \in Listed' => t \in Running'  BY <2>5 DEF Gone
      <4> QED  BY <3>1, <4>1, <4>2
    <3>2. CASE u # t
      <4>1. OnLink(u)  BY <2>1, <2>6, <3>2, SendEffect
      <4>2. outcome[u] \notin {"new", "posted"} /\ (u \in Listed => u \in Running)
        BY <1>1, <2>3, <4>1 DEF GivenUp
      <4>3. outcome'[u] \notin {"new", "posted"}  BY <1>2, <4>2 DEF Moves, MovesTo, Ended
      <4>4. u \in Listed' => u \in Running'  BY <2>5, <3>2, <4>2 DEF Gone
      <4> QED  BY <4>3, <4>4
    <3> QED  BY <3>1, <3>2
  <2> QED  BY <2>3, <2>6 DEF GivenUp
<1> QED
  BY <1>5, <1>6, <1>7, <1>8, <1>9, <1>10, <1>11, <1>12, <1>13, <1>14, <1>15, <1>16
  DEF Next, Handler
-----------------------------------------------------------------------------
(* The connection thread                                                   *)

(* A handler that does not wait for the thread goes on, or waits as it did. *)
StaysJoining == At \in {"join", "joining"} => At' = At /\ joining' = joining

LEMMA ThreadKept ==
  ASSUME ThreadInv, Shrinks, StaysJoining, server' = server,
         UNCHANGED <<connectstatus_, disconnectinternalcode_, thread_, errtype, conn>>
  PROVE  ThreadInv'
<1>1. (Unsent => Unsent') /\ (Fresh => Fresh')  BY DEF Shrinks
<1>2. thread_' \in {"none", "begin", "connecting", "ending"} => Unsent' /\ server' = {}
  BY <1>1 DEF ThreadInv
<1>3. disconnectinternalcode_' = "set" /\ thread_' # "none" =>
        Unsent' /\ (At' = "join" \/ (At' = "joining" /\ joining' = conn'))
  BY <1>1 DEF ThreadInv, StaysJoining
<1>4. Fresh'  BY <1>1 DEF ThreadInv
<1> QED  BY <1>2, <1>3, <1>4 DEF ThreadInv

LEMMA ThreadConnect ==
  ASSUME ThreadInv, Shrinks, StaysJoining, server' = server, errtype' = errtype, MakeSureConnected
  PROVE  ThreadInv'
<1>1. CASE UNCHANGED <<thread_, conn, connectstatus_, disconnectinternalcode_>>  BY <1>1, ThreadKept
<1>2. CASE /\ thread_ = "none" /\ thread_' = "begin"
           /\ connectstatus_' = "kConnectIdle" /\ disconnectinternalcode_' = "kNone"
  <2>1. Unsent' /\ Fresh' /\ server' = {}  BY <1>2 DEF ThreadInv, Shrinks
  <2> QED  BY <1>2, <2>1 DEF ThreadInv
<1> QED  BY <1>1, <1>2 DEF MakeSureConnected

LEMMA ThreadConnection ==
  ASSUME ThreadInv, LinkTypeOK, LinkThread, At' = At, joining' = joining
  PROVE  ThreadInv'
<1>1. Shrinks /\ conn' = conn  BY ThreadShrinks
<1>2. (Unsent => Unsent') /\ Fresh'  BY <1>1 DEF Shrinks, ThreadInv
<1>3. ASSUME disconnectinternalcode_' = disconnectinternalcode_, thread_ # "none"
      PROVE  disconnectinternalcode_' = "set" /\ thread_' # "none" =>
               Unsent' /\ (At' = "join" \/ (At' = "joining" /\ joining' = conn'))
  BY <1>1, <1>2, <1>3 DEF ThreadInv
<1>4. CASE Begin
  BY <1>2, <1>3, <1>4 DEF Begin, ThreadInv
<1>5. CASE NoAddress \/ ConnectFail
  BY <1>2, <1>3, <1>5 DEF NoAddress, ConnectFail, ThreadInv
<1>6. CASE Connect  BY <1>2, <1>3, <1>6 DEF Connect, ThreadInv
<1>7. CASE SeeDisconnect \/ Break
  BY <1>2, <1>3, <1>7 DEF SeeDisconnect, Break, ThreadInv, LinkTypeOK
<1>8. CASE Close
  <2>1. disconnectinternalcode_' = "set" /\ thread_' # "none" =>
          Unsent' /\ (At' = "join" \/ (At' = "joining" /\ joining' = conn'))
    BY <1>3, <1>8 DEF Close
  <2>2. thread_' = "ending" => Unsent'  BY <1>2, <1>8 DEF Close, ThreadInv
  <2> QED  BY <1>2, <1>8, <2>1, <2>2 DEF Close, ThreadInv
<1>9. CASE RunResponseError
  <2>1. Unsent'  BY <1>9, Nothing DEF RunResponseError, Unsent
  <2> QED  BY <1>2, <1>3, <1>9, <2>1 DEF RunResponseError, ThreadInv
<1>10. CASE End  BY <1>2, <1>3, <1>10 DEF End, ThreadInv
<1>11. CASE NoopReq \/ WriteAll \/ WritePart \/ NoopResp \/ \E t \in Tasks : Response(t)
  <2>1. thread_ = "rw" /\ UNCHANGED <<connectstatus_, disconnectinternalcode_, thread_, errtype>>
    BY <1>11 DEF NoopReq, WriteAll, WritePart, NoopResp, Response
  <2> QED  BY <1>2, <1>3, <2>1 DEF ThreadInv
<1> QED  BY <1>4, <1>5, <1>6, <1>7, <1>8, <1>9, <1>10, <1>11 DEF LinkThread, OwnStep

LEMMA ThreadStep ==
  ASSUME LongInv, [Next]_vars
  PROVE  ThreadInv'
<1>1. Chain(mq) /\ GivenUp /\ ThreadInv /\ LinkTypeOK  BY DEF LongInv, TypeInv
<1> DEFINE Link == <<connectstatus_, disconnectinternalcode_, thread_, errtype, conn, server>>
<1>2. ASSUME UNCHANGED Link, StaysJoining, Shrinks PROVE ThreadInv'
  BY <1>1, <1>2, ThreadKept
<1>3. ASSUME UNCHANGED Link, StaysJoining, lstsenddata_' = lstsenddata_ PROVE ThreadInv'
  BY <1>1, <1>2, <1>3, UnchangedShrinks
<1>4. ASSUME MakeSureConnected, server' = server, lstsenddata_' = lstsenddata_, errtype' = errtype, StaysJoining
      PROVE  ThreadInv'
  BY <1>1, <1>4, ConnectShrinks, ThreadConnect
<1>5. At \notin {"join", "joining"} => StaysJoining  BY DEF StaysJoining
<1>6. mq' = mq /\ joining' = joining => StaysJoining
  BY <1>1, Holding DEF Holds, StaysJoining
<1>7. CASE UNCHANGED vars
  BY <1>3, <1>6, <1>7 DEF vars, linkVars, mqVars
<1>8. CASE Connection
  <2>1. LinkThread /\ mq' = mq /\ joining' = joining  BY <1>8 DEF Connection, mqVars
  <2>2. At' = At  BY <1>1, <2>1, Holding DEF Holds
  <2> QED  BY <1>1, <2>1, <2>2, ThreadConnection
<1>9. CASE App
  <2>1. StaysJoining
    BY <1>6, <1>9 DEF App, AppStart, AppStop, AppCall, AppConnect, mqVars
  <2> QED  BY <1>3, <1>4, <1>9, <2>1 DEF App, AppStart, AppStop, AppCall, AppConnect
<1>10. CASE Message \/ Timer
  <2>1. StaysJoining  BY <1>1, <1>5, <1>10, MessageControl DEF Message
  <2>2. CASE \E t \in Tasks : StopTask(t)
    <3>1. PICK t \in Tasks : StopTask(t)  BY <2>2
    <3>2. UNCHANGED Link /\ (Stop(t) \/ lstsenddata_' = lstsenddata_)  BY <3>1 DEF StopTask
    <3>3. Shrinks  BY <1>1, <3>2, StopShrinks, UnchangedShrinks
    <3> QED  BY <1>2, <2>1, <3>2, <3>3
  <2>3. CASE Timer \/ SignalConnection \/ OnErrorResponse \/ AutoConnect
    BY <1>3, <1>4, <2>1, <2>3 DEF Timer, SignalConnection, OnErrorResponse, AutoConnect, linkVars
  <2>4. CASE \E type \in Calls : NetCoreCall(type)
    BY <1>3, <2>1, <2>4 DEF NetCoreCall
  <2>5. CASE \E t \in Tasks : StartTask(t) \/ OnSendTask(t) \/ \E handle \in Handles : OnResponse(t, handle)
    BY <1>3, <2>1, <2>5 DEF StartTask, OnSendTask, OnResponse
  <2> QED  BY <1>10, <2>2, <2>3, <2>4, <2>5 DEF Message
<1>11. CASE Disconnect
  <2>1. lstsenddata_' = <<>> /\ UNCHANGED <<connectstatus_, thread_, errtype, conn, server>>
    BY <1>11 DEF Disconnect, DisconnectBegin
  <2>2. Unsent' /\ Fresh'  BY <2>1, Nothing DEF Unsent, Fresh
  <2>3. disconnectinternalcode_' = IF thread_ = "none" THEN disconnectinternalcode_ ELSE "set"
    BY <1>11 DEF Disconnect, DisconnectBegin
  <2>4. thread_ # "none" => At' = "join"  BY <1>1, <1>11, HandlerControl DEF Waits
  <2> QED  BY <1>1, <2>1, <2>2, <2>3, <2>4 DEF ThreadInv
<1>12. CASE Join \/ Joined
  <2>1. UNCHANGED linkVars  BY <1>12 DEF Join, Joined
  <2>2. Unsent' = Unsent /\ Fresh' = Fresh  BY <2>1 DEF linkVars, Unsent, Fresh
  <2>3. disconnectinternalcode_ = "set" /\ thread_ # "none" => At' = "joining" /\ joining' = conn
    <3> SUFFICES ASSUME disconnectinternalcode_ = "set", thread_ # "none"
                 PROVE  At' = "joining" /\ joining' = conn
      OBVIOUS
    <3>1. At = "join" \/ (At = "joining" /\ joining = conn)  BY <1>1 DEF ThreadInv
    <3>2. CASE Join
      <4>1. At' = "joining"  BY <1>1, <3>2, HandlerControl DEF Waits
      <4>2. joining' = conn  BY <3>2 DEF Join
      <4> QED  BY <4>1, <4>2
    <3>3. CASE Joined
      <4>1. At = "joining" /\ conn # joining  BY <1>1, <3>3, HandlerControl DEF Joined
      <4> QED  BY <3>1, <4>1
    <3> QED  BY <1>12, <3>2, <3>3
  <2> QED  BY <1>1, <2>1, <2>2, <2>3 DEF ThreadInv, linkVars
<1>13. CASE CancelMessage \/ Reconnect \/ NoRetryInterval \/ RedoTasks \/ Clear \/ SessionTimeout \/ RunLoopEnd
  <2>1. StaysJoining  BY <1>1, <1>5, <1>13, HandlerControl, LoopControl
  <2> QED
    BY <1>3, <1>4, <1>13, <2>1 DEF CancelMessage, Reconnect, NoRetryInterval, RedoTasks, Clear,
                                   SessionTimeout, RunLoopEnd, linkVars
<1>14. CASE \E over, late \in SUBSET Tasks : RunLoop(over, late)
  <2>1. StaysJoining  BY <1>1, <1>5, <1>14, LoopControl
  <2> QED  BY <1>3, <1>14, <2>1 DEF RunLoop, linkVars
<1>15. CASE \E passed \in BOOLEAN : RunOnStartTask(passed)
  <2>1. StaysJoining  BY <1>1, <1>5, <1>15, LoopControl
  <2> QED  BY <1>3, <1>15, <2>1 DEF RunOnStartTask, linkVars
<1>16. CASE \E t \in Tasks : SkipNotAuthed(t) \/ Refuse(t) \/ BreakOff(t) \/ SendFail(t) \/ SendTask(t)
  <2>1. PICK t \in Tasks : SkipNotAuthed(t) \/ Refuse(t) \/ BreakOff(t) \/ SendFail(t) \/ SendTask(t)
    BY <1>16
  <2>2. Each(t)  BY <2>1 DEF SkipNotAuthed, Refuse, BreakOff, SendFail, SendTask
  <2>3. At = "each" /\ StaysJoining  BY <1>1, <1>5, <2>2, LoopControl
  <2>4. CASE SkipNotAuthed(t) \/ Refuse(t) \/ SendFail(t)
    BY <1>3, <2>3, <2>4 DEF SkipNotAuthed, Refuse, SendFail, linkVars
  <2>5. CASE BreakOff(t)  BY <1>3, <1>4, <2>3, <2>5 DEF BreakOff
  <2>6. CASE SendTask(t)
    <3>1. UNCHANGED Link /\ connectstatus_ = "kConnected"  BY <2>6 DEF SendTask, Send
    <3>2. thread_ \in {"rw", "closing"} /\ ~(disconnectinternalcode_ = "set" /\ thread_ # "none")
      BY <1>1, <2>3, <3>1 DEF ThreadInv
    <3>3. Fresh'  BY <2>6, SendEffect
    <3> QED  BY <1>1, <3>1, <3>2, <3>3 DEF ThreadInv
  <2> QED  BY <2>1, <2>4, <2>5, <2>6
<1> QED
  BY <1>7, <1>8, <1>9, <1>10, <1>11, <1>12, <1>13, <1>14, <1>15, <1>16 DEF Next, Handler
-----------------------------------------------------------------------------
(* What runs is on the connection, answered, or the error comes            *)

Served(t) == OnLink(t) \/ Answered(t) \/ ErrorComes
Broken    == thread_ = "failed" \/ (thread_ = "closing" /\ errtype # "kEctOK")
GivesUp   == {"disconnect", "join", "joining", "cancel", "noretry"}

(* Messages that stay in the queue.                                        *)
Keeps(t) == /\ OnError \in Members(messages) => OnError \in Members(messages)'
            /\ Answered(t) => Answered(t)'

LEMMA Keeping ==
  ASSUME MessageInv, NEW t \in Tasks
  PROVE  /\ messages' = messages => Keeps(t)
         /\ \A m \in Msg : Post(m) => Keeps(t)
         /\ \A type : Take(type) /\ type \notin {"OnError", "OnResponse"} => Keeps(t)
         /\ Take("OnResponse") /\ Head(messages).task # t => Keeps(t)
<1>1. PICK q \in Seq(Msg) : q = messages  BY DEF MessageInv
<1>2. messages' = messages => Keeps(t)  BY DEF Keeps, Answered
<1>3. ASSUME NEW m \in Msg, Post(m) PROVE Keeps(t)
  <2>1. messages' = Append(q, m) /\ Members(Append(q, m)) = Members(q) \cup {m}
    BY <1>1, <1>3, MembersAppend DEF Post
  <2> QED  BY <1>1, <2>1 DEF Keeps, Answered
<1>4. ASSUME NEW type, Take(type), \/ type \notin {"OnError", "OnResponse"}
                                   \/ type = "OnResponse" /\ Head(messages).task # t
      PROVE  Keeps(t)
  <2>1. Members(messages) = {Head(messages)} \cup Members(messages') /\ Head(messages).type = type
    BY <1>4, Taken
  <2>2. OnError.type = "OnError" /\ On("OnResponse", t).type = "OnResponse" /\ On("OnResponse", t).task = t
    BY MessageShapes DEF OnError
  <2>3. Head(messages) # OnError /\ Head(messages) # On("OnResponse", t)  BY <1>4, <2>1, <2>2
  <2> QED  BY <2>1, <2>3 DEF Keeps, Answered
<1> QED  BY <1>2, <1>3, <1>4

LEMMA ServedKept ==
  ASSUME NEW t, Served(t), Keeps(t), OnLink(t) => OnLink(t)', Broken => Broken'
  PROVE  Served(t)'
BY DEF Served, Keeps, Broken, ErrorComes

(* The same connection, or a new one after an end.                         *)
LEMMA ConnectKeeps ==
  ASSUME MakeSureConnected \/ thread_' = thread_, errtype' = errtype
  PROVE  Broken => Broken'
BY DEF MakeSureConnected, Broken

(* A step of the connection thread serves what it served, unless the       *)
(* connection is being given up.                                           *)
LEMMA ThreadServes ==
  ASSUME MessageInv, LinkTypeOK, ThreadInv, LinkThread, NEW t \in Tasks, Served(t)
  PROVE  Served(t)' \/ (disconnectinternalcode_ = "set" /\ thread_ # "none")
<1>1. PICK q \in Seq(Data) : q = lstsenddata_  BY DEF LinkTypeOK
<1>2. ASSUME NEW m \in Msg, Post(m), OnLink(t) => OnLink(t)', Broken => Broken'
      PROVE  Served(t)'
  BY <1>2, Keeping, ServedKept
<1>3. ASSUME messages' = messages, OnLink(t) => OnLink(t)', Broken => Broken'
      PROVE  Served(t)'
  BY <1>3, Keeping, ServedKept
<1>4. lstsenddata_' = lstsenddata_ /\ server' = server => (OnLink(t) => OnLink(t)')  BY DEF OnLink
<1>5. CASE Begin \/ NoAddress \/ ConnectFail \/ SeeDisconnect \/ Break \/ End
  <2>1. lstsenddata_' = lstsenddata_ /\ server' = server /\ messages' = messages
    BY <1>5 DEF Begin, NoAddress, ConnectFail, SeeDisconnect, Break, End
  <2>2. Broken => Broken'
    BY <1>5 DEF Begin, NoAddress, ConnectFail, SeeDisconnect, Break, End, Broken
  <2> QED  BY <1>3, <1>4, <2>1, <2>2
<1>6. CASE Connect
  <2>1. Signal \in Msg  BY MessageShapes DEF Signal
  <2>2. Broken => Broken'  BY <1>6 DEF Connect, Broken
  <2> QED  BY <1>2, <1>4, <1>6, <2>1, <2>2 DEF Connect
<1>7. CASE Close
  <2>1. CASE errtype = "kEctOK"
    <3>1. disconnectinternalcode_ = "set" /\ thread_ # "none"  BY <1>7, <2>1 DEF Close, ThreadInv
    <3> QED  BY <3>1
  <2>2. CASE errtype # "kEctOK"
    <3>1. thread_' = "failed"  BY <1>7, <2>2 DEF Close
    <3> QED  BY <3>1 DEF Served, ErrorComes
  <2> QED  BY <2>1, <2>2
<1>8. CASE RunResponseError
  <2>1. PICK p \in Seq(Msg) : p = messages  BY DEF MessageInv
  <2>2. OnError \in Msg  BY MessageShapes DEF OnError
  <2>3. PICK m \in Msg : m = OnError  BY <2>2
  <2>4. messages' = Append(p, m) /\ Members(Append(p, m)) = Members(p) \cup {m}
    BY <1>8, <2>1, <2>3, MembersAppend DEF RunResponseError, Post
  <2>5. OnError \in Members(messages')  BY <2>3, <2>4
  <2> QED  BY <2>5 DEF Served, ErrorComes, OnError
<1>9. CASE NoopReq
  <2>1. q = <<>> /\ server' = server /\ messages' = messages /\ thread_' = thread_ /\ errtype' = errtype
    BY <1>1, <1>9 DEF NoopReq
  <2>2. OnLink(t) => OnLink(t)'  BY <1>1, <2>1, Nothing DEF OnLink
  <2> QED  BY <1>3, <2>1, <2>2 DEF Broken
<1>10. CASE NoopResp
  <2>1. /\ lstsenddata_' = lstsenddata_ /\ server' = server \ {"noop"}
        /\ messages' = messages /\ thread_' = thread_ /\ errtype' = errtype
    BY <1>10 DEF NoopResp
  <2>2. OnLink(t) => OnLink(t)'  BY <2>1, NoopAssumption DEF OnLink
  <2> QED  BY <1>3, <2>1, <2>2 DEF Broken
<1>11. CASE \E u \in Tasks : Response(u)
  <2>1. PICK u \in Tasks : Response(u)  BY <1>11
  <2>2. /\ lstsenddata_' = lstsenddata_ /\ server' = server \ {u}
        /\ thread_' = thread_ /\ errtype' = errtype /\ Post(On("OnResponse", u))
    BY <2>1 DEF Response
  <2>3. CASE u = t
    <3>1. PICK m \in Msg : m = On("OnResponse", t)  BY MessageShapes
    <3>2. Post(m)  BY <2>2, <2>3, <3>1
    <3>3. Answered(t)'  BY <3>1, <3>2, AnswersOf
    <3> QED  BY <3>3 DEF Served
  <2>4. CASE u # t
    <3>1. OnLink(t) => OnLink(t)'  BY <2>2, <2>4 DEF OnLink
    <3>2. On("OnResponse", u) \in Msg  BY MessageShapes
    <3> QED  BY <1>2, <2>2, <3>1, <3>2 DEF Broken
  <2> QED  BY <2>3, <2>4
<1>12. CASE WriteAll \/ WritePart
  <2>1. q # <<>> /\ OnSend(Head(q)) /\ thread_' = thread_ /\ errtype' = errtype
    BY <1>1, <1>12 DEF WriteAll, WritePart
  <2>2. Broken => Broken'  BY <2>1 DEF Broken
  <2>3. Head(q) \in Data  BY <2>1
  <2>4. OnLink(t) => OnLink(t)'
    <3>1. CASE WriteAll
      <4>1. lstsenddata_' = Tail(q) /\ server' = server \cup {Head(q).task}  BY <1>1, <3>1 DEF WriteAll
      <4>2. Members(q) = {Head(q)} \cup Members(Tail(q))  BY <2>1, MembersTail
      <4> QED  BY <1>1, <4>1, <4>2 DEF OnLink
    <3>2. CASE WritePart
      <4>1. PICK e : e = [q[1] EXCEPT !.begun = TRUE]  OBVIOUS
      <4>2. PICK r : r = [q EXCEPT ![1] = e]  OBVIOUS
      <4>3. q[1] \in Data  BY <2>1
      <4>4. e \in Data /\ e.task = q[1].task /\ e.conn = q[1].conn  BY <4>1, <4>3 DEF Data
      <4>5. DOMAIN r = DOMAIN q /\ \A i \in DOMAIN r : r[i].task = q[i].task
        BY <2>1, <4>2, <4>4, Written
      <4>6. lstsenddata_' = r /\ server' = server  BY <1>1, <3>2, <4>1, <4>2 DEF WritePart
      <4>7. \A d \in Members(q) : \E f \in Members(r) : f.task = d.task  BY <4>5 DEF Members
      <4> QED  BY <1>1, <4>6, <4>7 DEF OnLink
    <3> QED  BY <1>12, <3>1, <3>2
  <2>5. CASE messages' = messages  BY <1>3, <2>2, <2>4, <2>5
  <2>6. CASE Head(q).task \in Tasks /\ Post(On("OnSend", Head(q).task))
    BY <1>2, <2>2, <2>4, <2>6, MessageShapes
  <2> QED  BY <2>1, <2>3, <2>5, <2>6 DEF OnSend, Data
<1> QED
  BY <1>5, <1>6, <1>7, <1>8, <1>9, <1>10, <1>11, <1>12 DEF LinkThread, OwnStep

LEMMA OrphanNone ==
  ASSUME Running' = {}
  PROVE  OrphanInv'
BY DEF OrphanInv

LEMMA OrphanExempt ==
  ASSUME Exempt'
  PROVE  OrphanInv'
BY DEF OrphanInv

(* Who still runs was served, and the connection is not given up.          *)
LEMMA OrphanKept ==
  ASSUME OrphanInv, Exempt => Exempt', Running' \subseteq Running,
         At' \in GivesUp => At \in GivesUp,
         "TimerCheckSuc" \notin Calls => \A t \in Running' : Served(t) => Served(t)'
  PROVE  OrphanInv'
<1> SUFFICES ASSUME "TimerCheckSuc" \notin Calls, ~Exempt'
             PROVE  /\ \A t \in Running' : Served(t)'
                    /\ At' \in GivesUp => Running' = {}
  BY DEF OrphanInv, Served, GivesUp
<1>1. \A t \in Running : Served(t)  BY DEF OrphanInv, Served
<1>2. At \in GivesUp => Running = {}  BY DEF OrphanInv, GivesUp
<1> QED  BY <1>1, <1>2

(* No task runs while the connection is given up.                          *)
LEMMA OrphanGivesUp ==
  ASSUME OrphanInv, At \in GivesUp, Goal' = Goal \/ Goal = At, Same
  PROVE  OrphanInv'
<1>1. Exempt => Exempt'  BY DEF Exempt, GivesUp
<1>2. CASE Exempt \/ "TimerCheckSuc" \in Calls  BY <1>1, <1>2, OrphanExempt DEF OrphanInv
<1>3. CASE ~Exempt /\ "TimerCheckSuc" \notin Calls
  <2>1. Running = {}  BY <1>3 DEF OrphanInv, GivesUp
  <2> QED  BY <2>1, OrphanNone DEF Same
<1> QED  BY <1>2, <1>3

(* The link is as it was, but for a new connection.                        *)
LEMMA OrphanLink ==
  ASSUME MessageInv, lstsenddata_' = lstsenddata_, server' = server, errtype' = errtype,
         thread_' = thread_ \/ MakeSureConnected,
         NEW t \in Tasks, Keeps(t), Served(t)
  PROVE  Served(t)'
<1>1. OnLink(t) => OnLink(t)'  BY DEF OnLink
<1> QED  BY <1>1, ConnectKeeps, ServedKept

LEMMA OrphanStep ==
  ASSUME LongInv, [Next]_vars
  PROVE  OrphanInv'
<1>1. Chain(mq) /\ OrphanInv /\ MessageInv /\ ThreadInv /\ LinkTypeOK /\ ListInv  BY DEF LongInv, TypeInv
<1>2. Listed \subseteq Tasks /\ Running \subseteq Tasks  BY <1>1 DEF ListInv, Running
<1> DEFINE LinkKept == /\ lstsenddata_' = lstsenddata_ /\ server' = server /\ errtype' = errtype
                       /\ thread_' = thread_ \/ MakeSureConnected
<1>3. ASSUME LinkKept, messages' = messages \/ \E m \in Msg : Post(m)
      PROVE  \A t \in Running : Served(t) => Served(t)'
  BY <1>1, <1>2, <1>3, Keeping, OrphanLink
<1>4. ASSUME LinkKept, NEW type, Take(type), type \notin {"OnError", "OnResponse"}
      PROVE  \A t \in Running : Served(t) => Served(t)'
  BY <1>1, <1>2, <1>4, Keeping, OrphanLink
<1>5. At = "idle" => ~Exempt  BY <1>1, AtGoal DEF Exempt
<1> HIDE DEF LinkKept
<1>6. ASSUME Same, mq' = mq, \A t \in Running : Served(t) => Served(t)'
      PROVE  OrphanInv'
  <2>1. At' = At /\ Goal' = Goal  BY <1>1, <1>6, Holding DEF Holds
  <2>2. Exempt => Exempt'  BY <2>1 DEF Exempt
  <2> QED  BY <1>1, <1>6, <2>1, <2>2, OrphanKept DEF Same
<1>7. CASE UNCHANGED vars
  <2>1. LinkKept /\ mq' = mq /\ messages' = messages  BY <1>7 DEF vars, linkVars, mqVars, LinkKept
  <2> QED  BY <1>3, <1>6, <1>7, <2>1, SameSteps
<1>8. CASE App
  <2>1. LinkKept /\ mq' = mq
    BY <1>8 DEF App, AppStart, AppStop, AppCall, AppConnect, mqVars, LinkKept
  <2>2. messages' = messages \/ \E m \in Msg : Post(m)
    <3>1. CASE \E t \in Tasks : AppStart(t) \/ AppStop(t)
      BY <3>1, MessageShapes DEF AppStart, AppStop
    <3>2. CASE \E type \in Calls : AppCall(type)
      <4>1. PICK type \in Calls : AppCall(type)  BY <3>2
      <4>2. PICK m \in Msg : m = [type |-> type]  BY MessageShapes
      <4> QED  BY <4>1, <4>2 DEF AppCall
    <3>3. CASE AppConnect  BY <3>3 DEF AppConnect
    <3> QED  BY <1>8, <3>1, <3>2, <3>3 DEF App
  <2>3. Same  BY <1>8, SameSteps DEF App
  <2> QED  BY <1>3, <1>6, <2>1, <2>2, <2>3
<1>9. CASE Connection
  <2>1. LinkThread /\ mq' = mq  BY <1>9 DEF Connection, mqVars
  <2>2. Same  BY <1>9, SameSteps
  <2>3. CASE disconnectinternalcode_ = "set" /\ thread_ # "none"
    <3>1. At \in GivesUp  BY <1>1, <2>3 DEF ThreadInv, GivesUp
    <3>2. Goal' = Goal  BY <1>1, <2>1, Holding DEF Holds
    <3> QED  BY <1>1, <2>2, <3>1, <3>2, OrphanGivesUp
  <2>4. CASE ~(disconnectinternalcode_ = "set" /\ thread_ # "none")
    <3>1. \A t \in Running : Served(t) => Served(t)'  BY <1>1, <1>2, <2>1, <2>4, ThreadServes
    <3> QED  BY <1>6, <2>1, <2>2, <3>1
  <2> QED  BY <2>3, <2>4
<1>10. CASE Timer \/ SignalConnection \/ \E t \in Tasks : StartTask(t)
  <2>1. At = "idle" /\ At' = "loop"  BY <1>1, <1>10, MessageControl DEF Runs
  <2>2. LinkKept  BY <1>10 DEF Timer, SignalConnection, StartTask, linkVars, LinkKept
  <2>3. messages' = messages \/ Take("kConnected") \/ Take("StartTask")
    BY <1>10 DEF Timer, SignalConnection, StartTask, linkVars
  <2>4. \A t \in Running : Served(t) => Served(t)'  BY <1>3, <1>4, <2>2, <2>3
  <2>5. Running' = Running
    <3>1. CASE Timer \/ SignalConnection  BY <3>1, SameSteps DEF Same
    <3>2. CASE \E t \in Tasks : StartTask(t)  BY <3>2, MessageSteps
    <3> QED  BY <1>10, <3>1, <3>2
  <2> QED  BY <1>1, <1>5, <2>1, <2>4, <2>5, OrphanKept DEF GivesUp
<1>11. CASE AutoConnect
  <2>1. LinkKept /\ mq' = mq /\ messages' = messages  BY <1>11 DEF AutoConnect, mqVars, LinkKept
  <2> QED  BY <1>3, <1>6, <1>11, <2>1, SameSteps
<1>12. CASE \E t \in Tasks : StopTask(t)
  <2>1. PICK t \in Tasks : StopTask(t)  BY <1>12
  <2>2. Gone(t)  BY <2>1, MessageSteps
  <2>3. At = "idle" /\ At' = "idle"  BY <1>1, <2>1, MessageControl DEF Holds
  <2>4. /\ Take("StopTask") /\ server' = server /\ conn' = conn /\ errtype' = errtype /\ thread_' = thread_
        /\ Stop(t) \/ lstsenddata_' = lstsenddata_
    BY <2>1 DEF StopTask
  <2>5. ASSUME NEW u \in Running, u # t, Served(u) PROVE Served(u)'
    <3>1. OnLink(u) => OnLink(u)'
      <4>1. CASE Stop(t)  BY <1>1, <1>2, <2>4, <2>5, <4>1, StopShrinks
      <4>2. CASE lstsenddata_' = lstsenddata_  BY <2>4, <4>2 DEF OnLink
      <4> QED  BY <2>4, <4>1, <4>2
    <3>2. Keeps(u)  BY <1>1, <1>2, <2>4, Keeping
    <3>3. Broken => Broken'  BY <2>4 DEF Broken
    <3> QED  BY <2>5, <3>1, <3>2, <3>3, ServedKept
  <2> QED  BY <1>1, <1>5, <2>2, <2>3, <2>5, OrphanKept DEF GivesUp, Gone
<1>13. CASE \E t \in Tasks : OnSendTask(t)
  <2>1. PICK t \in Tasks : OnSendTask(t)  BY <1>13
  <2>2. LinkKept /\ mq' = mq /\ Take("OnSend")  BY <2>1 DEF OnSendTask, mqVars, LinkKept
  <2> QED  BY <1>4, <1>6, <2>1, <2>2, MessageSteps
<1>14. CASE \E type \in Calls : NetCoreCall(type)
  <2>1. PICK type \in Calls : NetCoreCall(type)  BY <1>14
  <2>2. CASE type = "TimerCheckSuc"
    BY <2>2 DEF OrphanInv
  <2>3. CASE type # "TimerCheckSuc"
    <3>1. Goal' = EndOf(type)  BY <1>1, <2>1, MessageControl DEF Runs
    <3>2. EndOf(type) \in {"redo", "clear"}  BY <2>3, TasksAssumption DEF EndOf
    <3> QED  BY <3>1, <3>2, OrphanExempt DEF Exempt
  <2> QED  BY <2>2, <2>3
<1>15. CASE OnErrorResponse \/ RedoTasks \/ SessionTimeout
  BY <1>15, LoopSteps, OrphanNone DEF NoneRuns
<1>16. CASE Clear  BY <1>16, LoopSteps, OrphanNone
<1>17. CASE \E t \in Tasks, handle \in Handles : OnResponse(t, handle)
  <2>1. PICK t \in Tasks, handle \in Handles : OnResponse(t, handle)  BY <1>17
  <2>2. CASE t \notin Listed \/ handle \in {"NoError", "TaskEnd"}
    <3>1. Gone(t)  BY <2>1, <2>2, MessageSteps
    <3>2. At = "idle" /\ At' = "idle"  BY <1>1, <2>1, <2>2, MessageControl DEF Holds
    <3>3. Take("OnResponse") /\ t = Head(messages).task  BY <2>1 DEF OnResponse
    <3>4. /\ lstsenddata_' = lstsenddata_ /\ server' = server /\ errtype' = errtype
          /\ thread_' = thread_ \/ MakeSureConnected
      BY <2>1 DEF OnResponse
    <3>5. \A u \in Running : u # t /\ Served(u) => Served(u)'
      BY <1>1, <1>2, <3>3, <3>4, Keeping, OrphanLink
    <3> QED  BY <1>1, <1>5, <3>1, <3>2, <3>5, OrphanKept DEF GivesUp, Gone
  <2>3. CASE t \in Listed /\ handle = "Default"
    BY <2>1, <2>3, MessageSteps, OrphanNone DEF NoneRuns
  <2>4. CASE t \in Listed /\ handle = "SessionTimeout"
    BY <1>1, <2>1, <2>4, MessageControl, OrphanExempt DEF Runs, Exempt
  <2> QED  BY <2>2, <2>3, <2>4 DEF Handles
<1>18. CASE Disconnect \/ Join \/ Joined \/ CancelMessage \/ NoRetryInterval
  <2>1. Same  BY <1>18, SameSteps
  <2>2. At \in GivesUp /\ (Goes \/ Waits("join") \/ Waits("joining"))
    BY <1>1, <1>18, HandlerControl DEF GivesUp
  <2>3. Goal' = Goal \/ Goal = At  BY <2>2 DEF Goes, Advances, Waits
  <2> QED  BY <1>1, <2>1, <2>2, <2>3, OrphanGivesUp
<1>19. CASE Reconnect
  <2>1. LinkKept /\ messages' = messages  BY <1>19 DEF Reconnect, LinkKept
  <2>2. At = "connect" /\ Goes /\ Same  BY <1>1, <1>19, HandlerControl, SameSteps
  <2>3. At' \in {"redo", "idle"} /\ (Goal' = Goal \/ Goal = "connect")
    BY <2>2, StepsAfter DEF Goes, Advances
  <2>4. Exempt => Exempt'  BY <2>3 DEF Exempt
  <2> QED  BY <1>1, <1>3, <2>1, <2>2, <2>3, <2>4, OrphanKept DEF Same, GivesUp
<1>20. ASSUME Same, At \in {"loop", "start", "each"}, Goal = At, At' \notin GivesUp, UNCHANGED linkVars
       PROVE  OrphanInv'
  <2>1. LinkKept /\ messages' = messages  BY <1>20 DEF linkVars, LinkKept
  <2>2. ~Exempt  BY <1>20 DEF Exempt
  <2> QED  BY <1>1, <1>3, <1>20, <2>1, <2>2, OrphanKept DEF Same
<1>21. CASE RunLoopEnd \/ \E passed \in BOOLEAN : RunOnStartTask(passed)
  <2>1. UNCHANGED linkVars  BY <1>21 DEF RunLoopEnd, RunOnStartTask
  <2>2. Same  BY <1>21, SameSteps
  <2>3. At \in {"each", "start"} /\ Goal = At /\ At' \in {"idle", "each"}
    BY <1>1, <1>21, LoopControl DEF Runs
  <2> QED  BY <1>20, <2>1, <2>2, <2>3 DEF GivesUp
<1>22. CASE \E over, late \in SUBSET Tasks : RunLoop(over, late)
  <2>1. PICK over \in SUBSET Tasks, late \in SUBSET Tasks : RunLoop(over, late)  BY <1>22
  <2>2. CASE over \cup late = {}
    <3>1. UNCHANGED linkVars /\ Same  BY <2>1, <2>2, LoopSteps DEF RunLoop
    <3>2. At = "loop" /\ Goal = At /\ At' \in {"idle", "start"}  BY <1>1, <2>1, <2>2, LoopControl DEF Runs
    <3> QED  BY <1>20, <3>1, <3>2 DEF GivesUp
  <2>3. CASE over \cup late # {}  BY <2>1, <2>3, LoopSteps, OrphanNone DEF NoneRuns
  <2> QED  BY <2>2, <2>3
<1>23. CASE \E t \in Tasks : SkipNotAuthed(t) \/ Refuse(t) \/ BreakOff(t) \/ SendFail(t) \/ SendTask(t)
  <2>1. PICK t \in Tasks : SkipNotAuthed(t) \/ Refuse(t) \/ BreakOff(t) \/ SendFail(t) \/ SendTask(t)
    BY <1>23
  <2>2. Each(t) /\ mq' = mq
    BY <2>1 DEF SkipNotAuthed, Refuse, BreakOff, SendFail, SendTask
  <2>3. At = "each" /\ At' = "each" /\ ~Exempt  BY <1>1, <2>2, LoopControl DEF Holds, Exempt
  <2>4. CASE SkipNotAuthed(t) \/ SendFail(t)
    <3>1. Same  BY <2>1, <2>4, SameSteps, LoopSteps
    <3>2. UNCHANGED linkVars /\ Goal = At
      BY <1>1, <2>2, <2>4, LoopControl DEF SkipNotAuthed, SendFail
    <3> QED  BY <1>20, <2>3, <3>1, <3>2 DEF GivesUp
  <2>5. CASE Refuse(t)
    <3>1. Gone(t)  BY <2>5, LoopSteps
    <3>2. LinkKept /\ messages' = messages  BY <2>5 DEF Refuse, linkVars, LinkKept
    <3> QED  BY <1>1, <1>3, <2>3, <3>1, <3>2, OrphanKept DEF Gone, GivesUp
  <2>6. CASE BreakOff(t)
    <3>1. Same  BY <2>6, LoopSteps
    <3>2. LinkKept /\ messages' = messages  BY <2>6 DEF BreakOff, LinkKept
    <3> QED  BY <1>1, <1>3, <1>6, <2>2, <3>1, <3>2
  <2>7. CASE SendTask(t)
    <3>1. IF t \in SendOnly THEN Gone(t) ELSE Listed' = Listed /\ Running' = Running \cup {t}
      BY <2>7, LoopSteps
    <3>2. Running' \subseteq Running \cup {t}  BY <3>1 DEF Gone
    <3>3. messages' = messages /\ thread_' = thread_ /\ errtype' = errtype  BY <2>7 DEF SendTask
    <3>4. OnLink(t)' /\ \A u \in Tasks : u # t => (OnLink(u)' <=> OnLink(u))  BY <2>7, SendEffect
    <3>5. ASSUME NEW u \in Running', "TimerCheckSuc" \notin Calls PROVE Served(u)'
      <4>1. CASE u = t  BY <3>4, <4>1 DEF Served
      <4>2. CASE u # t
        <5>1. u \in Running /\ Served(u)  BY <1>1, <2>3, <3>2, <3>5, <4>2 DEF OrphanInv, Served
        <5>2. OnLink(u) => OnLink(u)'  BY <1>2, <3>4, <4>2, <5>1
        <5>3. Keeps(u) /\ (Broken => Broken')  BY <1>1, <1>2, <3>3, <5>1, Keeping DEF Broken
        <5> QED  BY <5>1, <5>2, <5>3, ServedKept
      <4> QED  BY <4>1, <4>2
    <3> QED  BY <2>3, <3>5 DEF OrphanInv, Served
  <2> QED  BY <2>1, <2>4, <2>5, <2>6, <2>7
<1> QED
  BY <1>7, <1>8, <1>9, <1>10, <1>11, <1>12, <1>13, <1>14, <1>15, <1>16, <1>17, <1>18, <1>19, <1>21, <1>22,
     <1>23
  DEF Next, Message, Handler
-----------------------------------------------------------------------------
(* The invariant, and what follows from it                                 *)

LEMMA LongInit == Init => LongInv
<1> SUFFICES ASSUME Init  PROVE LongInv  OBVIOUS
<1>1. Chain(mq) /\ At = "idle" /\ Goal = "idle"  BY ChainEmpty DEF Init, At, Goal
<1>2. LinkInit /\ lst_cmd_ = <<>> /\ mq = <<>> /\ todo = <<>> /\ joining = 0 /\ sends = [t \in Tasks |-> 0]
      /\ outcome = [t \in Tasks |-> "new"] /\ task = [t \in Tasks |-> NewProfile] /\ redos = 0
  BY DEF Init
<1>3. \A S : <<>> \in Seq(S)  OBVIOUS
<1>4. Members(<<>>) = {} /\ Listed = {} /\ Members(lstsenddata_) = {} /\ Members(messages) = {} /\ server = {}
  BY <1>2, Nothing DEF LinkInit, Listed
<1>5. Running = {}  BY <1>4 DEF Running
<1>6. NewProfile \in Profile  BY TasksAssumption DEF NewProfile, Profile
<1>7. \A t \in Tasks : outcome[t] = "new" /\ task[t] = NewProfile /\ sends[t] = 0  BY <1>2
<1>8. TypeInv
  <2>1. <<>> \in Seq(Data) /\ 0 \in 0..MaxConns /\ 0 \in 0..MaxCalls
    BY <1>3, TasksAssumption, MaxConnsAssumption
  <2>2. LinkTypeOK  BY <1>2, <2>1 DEF LinkInit, LinkTypeOK
  <2>3. task \in [Tasks -> Profile] /\ sends \in [Tasks -> Nat]  BY <1>2, <1>6
  <2>4. retry_interval_ \in {0, 1} /\ timer \in BOOLEAN /\ calls = 0 /\ stopped = {}  BY DEF Init
  <2> QED  BY <1>2, <2>1, <2>2, <2>3, <2>4 DEF TypeInv
<1>9. ListInv
  <2>1. Sorted(<<>>)  BY DEF Sorted
  <2> QED  BY <1>2, <1>3, <1>4, <1>7, <2>1 DEF ListInv, Outcomes
<1>10. TodoInv
  <2>1. Apart(<<>>, Tasks)  BY DEF Apart
  <2> QED  BY <1>2, <1>3, <1>4, <2>1 DEF TodoInv
<1>11. MessageInv
  <2>1. \A K : Apart(<<>>, K)  BY DEF Apart
  <2>2. messages = <<>>  BY <1>2 DEF LinkInit
  <2> QED  BY <1>3, <1>4, <1>7, <2>1, <2>2 DEF MessageInv
<1>12. \A t \in Tasks : ~OnLink(t) /\ ~Answered(t)  BY <1>4 DEF OnLink, Answered
<1>13. SentInv /\ NewInv  BY <1>7, <1>12 DEF SentInv, NewInv
<1>14. RetryInv  BY <1>2, <1>7, TasksAssumption DEF RetryInv, NewProfile
<1>15. ThreadInv
  <2>1. Fresh  BY <1>2, <1>4, Nothing DEF Fresh, LinkInit
  <2> QED  BY <1>2, <1>4, <2>1 DEF ThreadInv, Unsent, LinkInit
<1>16. GivenUp  BY <1>1, <1>12 DEF GivenUp
<1>17. TimerInv /\ OrphanInv  BY <1>1, <1>2, <1>5 DEF TimerInv, OrphanInv
<1> QED  BY <1>1, <1>8, <1>9, <1>10, <1>11, <1>13, <1>14, <1>15, <1>16, <1>17 DEF LongInv

LEMMA LongStep == LongInv /\ [Next]_vars => LongInv'
<1> SUFFICES ASSUME LongInv, [Next]_vars  PROVE LongInv'  OBVIOUS
<1>1. TaskInv  BY DEF LongInv, TypeInv, TaskInv, TaskTypes
<1>2. TaskEffect  BY EffectOfStep
<1>3. TaskInv'  BY <1>1, <1>2, TaskStep
<1>4. ListInv' /\ NewInv' /\ RetryInv'  BY <1>3 DEF TaskInv
<1>5. TypeInv' /\ Chain(mq)'  BY TypeStep, ChainStep
<1>6. TodoInv' /\ MessageInv' /\ SentInv'  BY TodoStep, MessageStep, SentStep
<1>7. ThreadInv' /\ GivenUp' /\ TimerInv' /\ OrphanInv'  BY ThreadStep, GivenStep, TimerStep, OrphanStep
<1> QED  BY <1>4, <1>5, <1>6, <1>7 DEF LongInv

(* The tasks are in the list until they end, sorted by priority, and every *)
(* variable keeps its type.                                                *)
THEOREM LongTypes == Spec => []TypeOK
<1>1. LongInv => TypeOK  BY DEF LongInv, TypeInv, ListInv, TodoInv, Sorted, Outcomes, TypeOK
<1> QED  BY <1>1, LongInit, LongStep, PTL DEF Spec

(* Between two handlers a task in the list has a delayed __RunLoop coming, *)
(* and one that counts as running is on the connection, is answered, or    *)
(* its error comes: none waits for what cannot come.  Disconnect for       *)
(* kTimeCheckSucc drops requests and tells nobody; without it this holds.  *)
THEOREM LongTasksDriven ==
  ASSUME "TimerCheckSuc" \notin Calls
  PROVE  Spec => []TasksDriven
<1>1. LongInv => TasksDriven
  <2> SUFFICES ASSUME LongInv, mq = <<>>
               PROVE  /\ lst_cmd_ # <<>> => timer
                      /\ \A t \in Listed : task[t].running_id => InFlight(t) \/ ErrorComes
    BY DEF TasksDriven, TimerArmed, NoOrphan
  <2>1. Goal = "idle"  BY ChainEmpty DEF Goal
  <2>2. lst_cmd_ # <<>> => timer  BY <2>1 DEF LongInv, TimerInv
  <2>3. \A t \in Running : OnLink(t) \/ Answered(t) \/ ErrorComes
    BY <2>1 DEF LongInv, OrphanInv, Exempt
  <2>4. \A t : OnLink(t) => t \in server \/ \E i \in DOMAIN lstsenddata_ : lstsenddata_[i].task = t
    BY DEF OnLink, Members
  <2>5. \A t \in Listed : task[t].running_id => InFlight(t) \/ ErrorComes
    BY <2>3, <2>4 DEF Running, Answered, InFlight
  <2> QED  BY <2>2, <2>5
<1> QED  BY <1>1, LongInit, LongStep, PTL DEF Spec

(* A request goes out on the connection it was made for and is on it once, *)
(* whatever is disconnected, connected again and cancelled in between.     *)
THEOREM LongFreshRequests == Spec => []FreshRequests
<1>1. LongInv => FreshRequests
  <2> SUFFICES ASSUME LongInv, NEW i \in DOMAIN lstsenddata_, lstsenddata_[i].task # "noop"
               PROVE  /\ lstsenddata_[i].conn = conn
                      /\ lstsenddata_[i].task \notin server
                      /\ \A j \in DOMAIN lstsenddata_ : lstsenddata_[i].task = lstsenddata_[j].task => i = j
    BY DEF FreshRequests
  <2>1. Fresh  BY DEF LongInv, ThreadInv
  <2>2. lstsenddata_[i] \in Members(lstsenddata_)  BY DEF Members
  <2> QED  BY <2>1, <2>2 DEF Fresh, Distinct
<1> QED  BY <1>1, LongInit, LongStep, PTL DEF Spec

(* A task is given to the connection once, and once more for each retry it *)
(* is charged and each RedoTasks.                                          *)
THEOREM LongRetryBound == Spec => []RetryBound
<1>1. LongInv => RetryBound
  <2> SUFFICES ASSUME LongInv, NEW t \in Tasks
               PROVE  sends[t] <= 1 + (RetryCount - task[t].remain_retry_count) + redos
    BY DEF RetryBound
  <2>1. sends[t] <= (RetryCount - task[t].remain_retry_count) + redos + (IF task[t].running_id THEN 1 ELSE 0)
    BY DEF LongInv, RetryInv
  <2>2. sends[t] \in Nat /\ redos \in Nat /\ task[t].remain_retry_count \in Nat /\ RetryCount \in Nat
    BY TasksAssumption DEF LongInv, TypeInv, Profile
  <2> QED  BY <2>1, <2>2
<1> QED  BY <1>1, LongInit, LongStep, PTL DEF Spec

(* The manager is a task service: a task is taken once, ends once and for  *)
(* good, and ends well only after it was sent.                             *)
THEOREM LongImplementsLedger == Spec => ImplementsLedger
<1> DEFINE state == [t \in Tasks |-> CASE outcome[t] \in {"new", "posted"} -> "new"
                                       [] outcome[t] = "listed" -> "pending"
                                       [] OTHER -> outcome[t]]
<1>1. Init => Ledger!Init  BY DEF Init, Ledger!Init
<1>2. LongInv /\ [Next]_vars => [Ledger!Next]_<<state, sends>>
  <2> SUFFICES ASSUME LongInv, [Next]_vars  PROVE Ledger!Next  OBVIOUS
  <2>1. TaskInv /\ TaskEffect  BY EffectOfStep DEF LongInv, TypeInv, TaskInv, TaskTypes
  <2>2. Moves /\ TaskInv'  BY <2>1, TaskStep
  <2>3. DOMAIN state' = Tasks /\ DOMAIN sends' = Tasks  BY <2>2 DEF TaskInv, TaskTypes
  <2>4. ASSUME NEW t \in Tasks  PROVE Ledger!Move(t)
    <3> DEFINE Of(o) == CASE o \in {"new", "posted"} -> "new"
                          [] o = "listed" -> "pending"
                          [] OTHER -> o
    <3>1. state[t] = Of(outcome[t]) /\ state'[t] = Of(outcome'[t])  OBVIOUS
    <3>2. /\ Of("new") = "new" /\ Of("posted") = "new" /\ Of("listed") = "pending"
          /\ \A o \in Ended : Of(o) = o
      BY DEF Ended
    <3> HIDE DEF state, Of
    <3>3. MovesTo(t)  BY <2>2 DEF Moves
    <3>4. outcome[t] = "posted" => sends[t] = 0  BY <2>1 DEF TaskInv, NewInv
    <3>5. sends[t] \in Nat  BY <2>1 DEF TaskInv, TaskTypes
    <3>6. CASE outcome'[t] = outcome[t] /\ sends'[t] = sends[t]
      BY <3>1, <3>6 DEF Ledger!Move, Ledger!Stay, state
    <3>7. CASE outcome[t] = "new" /\ outcome'[t] = "posted" /\ sends'[t] = sends[t]
      BY <3>1, <3>2, <3>7 DEF Ledger!Move, Ledger!Stay, state
    <3>8. CASE outcome[t] = "posted" /\ outcome'[t] = "listed" /\ sends'[t] = sends[t]
      BY <3>1, <3>2, <3>4, <3>8 DEF Ledger!Move, Ledger!Take, state
    <3>9. CASE outcome[t] = "listed" /\ outcome'[t] = "listed" /\ sends'[t] = sends[t] + 1
      BY <3>1, <3>2, <3>9 DEF Ledger!Move, Ledger!Try, state
    <3>10. CASE /\ outcome[t] = "listed" /\ outcome'[t] \in Ended /\ sends'[t] \in {sends[t], sends[t] + 1}
                /\ outcome'[t] = "ok" => sends'[t] > 0
      BY <3>1, <3>2, <3>10 DEF Ended, Ledger!Move, Ledger!Finish, Ledger!Ends, state
    <3> QED  BY <3>3, <3>6, <3>7, <3>8, <3>9, <3>10 DEF MovesTo
  <2> QED  BY <2>3, <2>4 DEF Ledger!Next
<1> QED  BY <1>1, <1>2, LongInit, LongStep, PTL DEF Spec, ImplementsLedger, Ledger!Spec
=============================================================================
