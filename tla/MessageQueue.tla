----------------------------- MODULE MessageQueue -----------------------------
(***************************************************************************)
(* One message queue of mars/comm/messagequeue/message_queue.cc: the list  *)
(* of messages, the handlers, the thread that runs them in nested run      *)
(* loops, and other threads that cancel handlers and wait for messages.    *)
(*                                                                         *)
(* All messages have one title.  Whoever posts or cancels does it under    *)
(* the lock of the map, so only the calls that wait have a caller: a user  *)
(* (another thread), or a handler, whose wait is a nested run loop.        *)
(* Condition variables are taken not to wake without a notification (no    *)
(* wait of this file is in a loop).                                        *)
(***************************************************************************)
EXTENDS Integers, Sequences, FiniteSets, SequencesExt, Selection

CONSTANTS
  Handlers,  \* handlers of the queue; all of them receive broadcasts
  Users,     \* threads that call CancelAndWait and WaitMessage
  MaxPosts, MaxTime, MaxDepth  \* bounds of the model

Ids       == 1..MaxPosts
Broadcast == "broadcast"   \* the handler 0 of BroadcastMessage
Types     == {"immediately", "after", "period"}

VARIABLES
  clock,     \* gettickcount
  lastSeq,   \* __MakeSeq
  list,      \* lst_message: [id, to, type, due, waiting (wait_end_cond)]
  installed, \* lst_handler
  levels,    \* lst_runloop_info, with the stack of the thread that runs it
  breakflag,
  user,      \* user[u]: [at, on]: the place in its call, and what it is about
  gone       \* handlers some user has cancelled and waited for (history)

queueVars == <<clock, lastSeq, list, installed, levels, breakflag, user, gone>>

Idle  == [at |-> "idle", on |-> 0]
Fresh == [at |-> "top", id |-> 0, type |-> "immediately", running |-> {}, left |-> {},
          waiting |-> {}, until |-> 0]

Init ==
  /\ clock = 0 /\ lastSeq = 0 /\ list = <<>>
  /\ installed = Handlers /\ levels = <<Fresh>> /\ breakflag = FALSE
  /\ user = [u \in Users |-> Idle] /\ gone = {}

Alive == levels # <<>>
Depth == Len(levels)
Here  == levels[Depth]

Listed(id)  == \E i \in DOMAIN list : list[i].id = id
LevelsOf(id) == {n \in DOMAIN levels : levels[n].id = id}

(* Users whose wait ends: those of a level, those of deleted messages.     *)
Wake(us) == user' = [u \in Users |-> IF u \in us THEN Idle ELSE user[u]]
AtLevel(n) == {u \in Users : user[u].at = "level" /\ user[u].on = n}
-----------------------------------------------------------------------------
(* Posting, by any thread                                                  *)

Message(id, to, type, wait) ==
  [id |-> id, to |-> to, type |-> type, due |-> clock + wait, waiting |-> {}]

WaitOf(type) == IF type = "immediately" THEN 0 ELSE 1
WaitTime(m)  == IF m.due > clock THEN m.due - clock ELSE 0   \* __ComputerWaitTime

(* Wrong: the sequence number is not taken.                                *)
PostMessageSameSeq(to, type) ==
  /\ Alive /\ lastSeq < MaxPosts /\ clock + WaitOf(type) <= MaxTime
  /\ list' = Append(list, Message(lastSeq + 1, to, type, WaitOf(type)))
  /\ UNCHANGED <<clock, lastSeq, installed, levels, breakflag, user, gone>>

PostMessage(to, type) ==
  /\ Alive /\ lastSeq < MaxPosts /\ clock + WaitOf(type) <= MaxTime
  /\ lastSeq' = lastSeq + 1
  /\ list' = Append(list, Message(lastSeq + 1, to, type, WaitOf(type)))
  /\ UNCHANGED <<clock, installed, levels, breakflag, user, gone>>

Same(to) == {i \in DOMAIN list : list[i].to = to}
First(S) == CHOOSE i \in S : \A j \in S : i <= j

(* The message takes the place and the id of the i-th one, whose waiters   *)
(* are woken by its destructor.                                            *)
Replace(i, type) ==
  /\ list' = Append(RemoveAt(list, i), Message(list[i].id, list[i].to, type, WaitOf(type)))
  /\ Wake(list[i].waiting)
  /\ UNCHANGED <<clock, lastSeq, installed, levels, breakflag, gone>>

(* SingletonMessage over a message that is there already (with none it is  *)
(* PostMessage, and without _replace it does nothing).                     *)
SingletonMessage(to, type) ==
  /\ Alive /\ Same(to) # {} /\ clock + WaitOf(type) <= MaxTime
  /\ Replace(First(Same(to)), type)

(* FasterMessage: the one there is kept when it is due earlier.            *)
FasterMessage(to, type) ==
  /\ Alive /\ Same(to) # {} /\ clock + WaitOf(type) <= MaxTime
  /\ WaitTime(list[First(Same(to))]) >= WaitOf(type)
  /\ Replace(First(Same(to)), type)

(* CancelMessage of an id, or of all messages of a handler.                *)
Delete(ids) ==
  /\ list' = Only(list, {m \in Members(list) : m.id \notin ids})
  /\ Wake(UNION {list[i].waiting : i \in {j \in DOMAIN list : list[j].id \in ids}})
  /\ UNCHANGED <<clock, lastSeq, installed, levels, breakflag, gone>>

CancelMessage(id) == Listed(id) /\ Delete({id})

CancelMessagesOf(h) == Same(h) # {} /\ Delete({list[i].id : i \in Same(h)})

BreakMessageQueueRunloop ==
  /\ Alive /\ breakflag' = TRUE
  /\ UNCHANGED <<clock, lastSeq, list, installed, levels, user, gone>>

Tick ==
  /\ clock < MaxTime /\ clock' = clock + 1
  /\ UNCHANGED <<lastSeq, list, installed, levels, breakflag, user, gone>>
-----------------------------------------------------------------------------
(* RunLoop::Run                                                            *)

Broken == breakflag \/ (Here.until # 0 /\ ~Listed(Here.until))
Due    == {i \in DOMAIN list : list[i].due <= clock}

(* The end of a loop.  That of the outermost one deletes the queue.        *)
Leave ==
  /\ Alive /\ Here.at = "top" /\ Broken
  /\ levels' = Front(levels)
  /\ IF Depth > 1
     THEN Wake(AtLevel(Depth)) /\ UNCHANGED <<list, installed>>
     ELSE /\ list' = <<>> /\ installed' = {}
          /\ Wake(AtLevel(1) \cup UNION {list[i].waiting : i \in DOMAIN list})
  /\ UNCHANGED <<clock, lastSeq, breakflag, gone>>

(* Wrong: who waits for what ran last is not told.                         *)
RestUnheard ==
  /\ Alive /\ Here.at = "top" /\ ~Broken /\ Due = {} /\ Here.id # 0
  /\ levels' = [levels EXCEPT ![Depth] = [Fresh EXCEPT !.until = Here.until]]
  /\ UNCHANGED <<clock, lastSeq, list, installed, breakflag, user, gone>>

(* Nothing is due: what ran last is forgotten, and the loop waits.         *)
Rest ==
  /\ Alive /\ Here.at = "top" /\ ~Broken /\ Due = {} /\ Here.id # 0
  /\ levels' = [levels EXCEPT ![Depth] = [Fresh EXCEPT !.until = Here.until]]
  /\ Wake(AtLevel(Depth))
  /\ UNCHANGED <<clock, lastSeq, list, installed, breakflag, gone>>

Receivers(m) == IF m.to = Broadcast THEN installed ELSE installed \cap {m.to}

(* The first message of the list that is due is taken, with copies of the  *)
(* handlers it is for; a periodic one stays in its place.                  *)
Take ==
  /\ Alive /\ Here.at = "top" /\ ~Broken /\ Due # {}
  /\ LET i == First(Due)
         m == list[i] IN
     /\ list' = IF m.type = "period" THEN [list EXCEPT ![i].due = clock + 1]
                                     ELSE RemoveAt(list, i)
     /\ levels' = [levels EXCEPT ![Depth] =
          [Here EXCEPT !.at = "call", !.id = m.id, !.type = m.type,
             !.running = Receivers(m), !.left = Receivers(m),
             !.waiting = IF m.type = "period" THEN {} ELSE m.waiting]]
  /\ Wake(AtLevel(Depth))
  /\ UNCHANGED <<clock, lastSeq, installed, breakflag, gone>>

(* A handler of the innermost loop returns (their order is left open).     *)
HandlerReturns(h) ==
  /\ Alive /\ Here.at = "call" /\ h \in Here.left
  /\ levels' = [levels EXCEPT ![Depth].left = @ \ {h}]
  /\ UNCHANGED <<clock, lastSeq, list, installed, breakflag, user, gone>>

(* The message is deleted, without the lock; a periodic one is not.        *)
Finish ==
  /\ Alive /\ Here.at = "call" /\ Here.left = {}
  /\ levels' = [levels EXCEPT ![Depth].at = "top", ![Depth].waiting = {}]
  /\ Wake(Here.waiting)
  /\ UNCHANGED <<clock, lastSeq, list, installed, breakflag, gone>>

(* WaitMessage in the queue's own thread: a loop until the message is no   *)
(* longer listed.  (Of a periodic one it would not end.)  A handler is      *)
(* assumed not to begin a wait after the break: it would end at once, and  *)
(* who waits again and again keeps the queue.                              *)
WaitInside(id) ==
  /\ Alive /\ ~breakflag /\ Here.at = "call" /\ Here.left # {} /\ Depth < MaxDepth
  /\ \E i \in DOMAIN list : list[i].id = id /\ list[i].type # "period"
  /\ levels' = Append(levels, [Fresh EXCEPT !.until = id])
  /\ UNCHANGED <<clock, lastSeq, list, installed, breakflag, user, gone>>
-----------------------------------------------------------------------------
(* Other threads                                                           *)

Call(u, at, on) == user' = [user EXCEPT ![u] = [at |-> at, on |-> on]]

(* ScopeRegister::CancelAndWait: UnInstallMessageHandler, CancelMessage,   *)
(* WaitForRuningLockEnd.                                                   *)
UnInstall(u, h) ==
  /\ Alive /\ user[u] = Idle /\ h \in installed
  /\ installed' = installed \ {h} /\ Call(u, "cancel", h)
  /\ UNCHANGED <<clock, lastSeq, list, levels, breakflag, gone>>

CancelAll(u) ==
  /\ user[u].at = "cancel"
  /\ LET h == user[u].on
         woken == UNION {list[i].waiting : i \in Same(h)} IN
     /\ list' = Only(list, {m \in Members(list) : m.to # h})
     /\ user' = [v \in Users |-> IF v = u THEN [at |-> "wait", on |-> h]
                                 ELSE IF v \in woken THEN Idle ELSE user[v]]
  /\ UNCHANGED <<clock, lastSeq, installed, levels, breakflag, gone>>

(* Wrong: the innermost loop is looked at first.                           *)
WaitRunningInner(u) ==
  /\ user[u].at = "wait"
  /\ LET h == user[u].on
         ns == {n \in DOMAIN levels : h \in levels[n].running} IN
     /\ gone' = gone \cup {h}
     /\ IF ns = {} THEN Call(u, "idle", 0)
        ELSE Call(u, "level", CHOOSE n \in ns : \A k \in ns : n >= k)
  /\ UNCHANGED <<clock, lastSeq, list, installed, levels, breakflag>>

(* The outermost loop that runs the handler is waited for.  gone is set    *)
(* here and read once the user is back.                                    *)
WaitRunning(u) ==
  /\ user[u].at = "wait"
  /\ LET h == user[u].on
         ns == {n \in DOMAIN levels : h \in levels[n].running} IN
     /\ gone' = gone \cup {h}
     /\ IF ns = {} THEN Call(u, "idle", 0) ELSE Call(u, "level", First(ns))
  /\ UNCHANGED <<clock, lastSeq, list, installed, levels, breakflag>>

(* WaitMessage in another thread.                                          *)
WaitMessage(u, id) ==
  /\ user[u] = Idle
  /\ \/ /\ \E i \in DOMAIN list :
             /\ list[i].id = id /\ list[i].type # "period"
             /\ list' = [list EXCEPT ![i].waiting = @ \cup {u}]
        /\ Call(u, "message", id)
     \/ /\ ~Listed(id) /\ LevelsOf(id) # {}
        /\ Call(u, "level", First(LevelsOf(id)))
        /\ UNCHANGED list
  /\ UNCHANGED <<clock, lastSeq, installed, levels, breakflag, gone>>
-----------------------------------------------------------------------------
Loop == Leave \/ Rest \/ Take \/ Finish \/ \E h \in Handlers : HandlerReturns(h)
Anyone ==
  \/ \E to \in Handlers \cup {Broadcast}, type \in Types : PostMessage(to, type)
  \/ \E to \in Handlers, type \in {"immediately", "after"} :
       SingletonMessage(to, type) \/ FasterMessage(to, type)
  \/ \E id \in Ids : CancelMessage(id) \/ WaitInside(id)
  \/ \E h \in Handlers : CancelMessagesOf(h)
  \/ BreakMessageQueueRunloop
Waiter(u) == CancelAll(u) \/ WaitRunning(u)

Next ==
  \/ Tick \/ Anyone \/ Loop
  \/ \E u \in Users : Waiter(u) \/ (\E h \in Handlers : UnInstall(u, h))
                      \/ \E id \in Ids : WaitMessage(u, id)

Spec == Init /\ [][Next]_queueVars

(* The thread of the queue runs and the clock goes on; handlers return;    *)
(* a user that is not waiting goes on.  Nobody has to call.                *)
FairSpec == Spec /\ WF_queueVars(Loop) /\ WF_queueVars(Tick)
                 /\ \A u \in Users : WF_queueVars(Waiter(u))
-----------------------------------------------------------------------------
(* Properties                                                              *)

TypeOK ==
  /\ clock \in 0..MaxTime /\ lastSeq \in 0..MaxPosts /\ breakflag \in BOOLEAN
  /\ installed \subseteq Handlers /\ gone \subseteq Handlers
  /\ Depth <= MaxDepth
  /\ \A i \in DOMAIN list : list[i].id \in 1..lastSeq /\ list[i].due <= clock + 1

(* A message that is not periodic is in one place: once in the list, or in *)
(* the hands of one run loop, however deep the loops are nested.           *)
OnePlace ==
  \A id \in Ids :
    LET places == Cardinality({i \in DOMAIN list : list[i].id = id})
        runs   == {n \in LevelsOf(id) : levels[n].at = "call" /\ levels[n].type # "period"} IN
    places + Cardinality(runs) <= 1

(* When CancelAndWait has returned to another thread, the handler does not *)
(* run in any of the nested loops, and never will.                         *)
NoCallAfterWait ==
  \A h \in gone :
    \/ \E u \in Users : user[u].at = "level"
    \/ \A n \in DOMAIN levels : h \notin levels[n].left

(* A thread that waits is known to what it waits for: its message is       *)
(* listed or run, the loop it waits for has not moved on.                  *)
NoForgottenWaiter ==
  \A u \in Users :
    /\ user[u].at = "message" =>
         \/ \E i \in DOMAIN list : list[i].id = user[u].on /\ u \in list[i].waiting
         \/ \E n \in DOMAIN levels : levels[n].id = user[u].on /\ u \in levels[n].waiting
    /\ user[u].at = "level" => user[u].on \in DOMAIN levels /\ levels[user[u].on].id # 0

(* The wait for a message outlasts its run: when it ends, no loop is in    *)
(* the middle of the message.                                              *)
WaitOutlastsRun ==
  [][\A u \in Users : user[u].at = "message" /\ user'[u].at = "idle" =>
       \A n \in DOMAIN levels' : levels'[n].id = user[u].on =>
         levels'[n].at = "top" \/ levels'[n].type = "period"]_queueVars

(* FasterMessage and the loop never put a message off (only SingletonMessage *)
(* may, and a periodic one that ran).                                      *)
NeverPutOff ==
  [][\A i \in DOMAIN list, j \in DOMAIN list' :
       list[i].id = list'[j].id /\ list'[j].due > list[i].due /\ list'[j].due > clock =>
         \/ list[i].type = "period" /\ LevelsOf(list[i].id)' # {}
         \/ SingletonMessage(list[i].to, "after")]_queueVars

(* Every wait of another thread ends, through nested loops, replaced and   *)
(* cancelled messages and the end of the queue.                            *)
WaitsEnd == \A u \in Users : user[u].at \in {"message", "level"} ~> user[u].at = "idle"

(* The queue ends when it is told to, from within any depth of loops.      *)
BreakEnds == breakflag ~> levels = <<>>
=============================================================================
