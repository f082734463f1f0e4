-------------------------------- MODULE Thread --------------------------------
(***************************************************************************)
(* Thread and Condition (mars/comm/unix/thread/thread.h, condition.h): a   *)
(* handle that may be started again and again, at once, after a delay or   *)
(* periodically, while others cancel and join it.  Every call takes the    *)
(* spin lock of the reference and is one step, but join releases it before *)
(* it reads the id of the thread to wait for.                              *)
(*                                                                         *)
(* pthread_create succeeds; signals (kill) are left out, and so is         *)
(* outside_join, by which the maker of a queue promises to join before the *)
(* only start.  join asserts that nobody else joins, so a second caller    *)
(* does not.                                                               *)
(***************************************************************************)
EXTENDS Integers

CONSTANTS
  Callers,
  MaxStarts  \* bound of the model: starts of the handle

ASSUME ThreadAssumption == MaxStarts \in Nat

VARIABLES
  started,     \* threads created so far; they are numbered
  tid,
  isended, isjoined, iscanceldelaystart,
  anyway,      \* anyway_notify_ of condtime
  at,          \* at[i]: place of thread i
  mode,        \* mode[i]: the start_routine of thread i
  slept,       \* slept[i]: the last wait of thread i lasted its whole time
  freed,       \* freed[i]: who gave back thread i: "joined", "detached", "both"
  caller,      \* caller[c]: the join c is in: [step, of, on]
  overtaken    \* a join read the id of a thread started after the one it found

threadVars == <<started, tid, isended, isjoined, iscanceldelaystart, anyway, at, mode, slept,
                freed, caller, overtaken>>
refVars == <<started, tid, isended, isjoined>>
Threads == 1..MaxStarts
Idle    == [step |-> "idle", of |-> 0, on |-> 0]
Modes   == {"now", "after", "periodic"}

Init ==
  /\ started = 0 /\ tid = 0 /\ isended = TRUE /\ isjoined = FALSE
  /\ iscanceldelaystart = FALSE /\ anyway = FALSE
  /\ at = [i \in Threads |-> "none"] /\ mode = [i \in Threads |-> "now"]
  /\ slept = [i \in Threads |-> FALSE] /\ freed = [i \in Threads |-> "no"]
  /\ caller = [c \in Callers |-> Idle] /\ overtaken = FALSE

Dead(i) == i = 0 \/ at[i] = "dead"
Goes(i, place) == at' = [at EXCEPT ![i] = place]
-----------------------------------------------------------------------------
(* Calls                                                                   *)

Created(m) ==
  /\ isended /\ started < MaxStarts /\ isended' = FALSE
  /\ started' = started + 1 /\ Goes(started + 1, "created")
  /\ mode' = [mode EXCEPT ![started + 1] = m]
  /\ UNCHANGED <<isjoined, slept, freed, overtaken>>

(* Wrong: the new thread writes its id itself, later.                      *)
StartNoTid(c, m) ==
  /\ caller[c] = Idle /\ Created(m) /\ UNCHANGED <<tid, caller>>
  /\ iscanceldelaystart' = (m = "now" /\ iscanceldelaystart) /\ anyway' = (m = "now" /\ anyway)

(* Wrong: a notification of an earlier start is left.                      *)
StartNoClear(c, m) ==
  /\ caller[c] = Idle /\ Created(m) /\ tid' = started + 1 /\ UNCHANGED <<caller, anyway>>
  /\ iscanceldelaystart' = (m = "now" /\ iscanceldelaystart)

(* start, start_after, start_periodic.  The last two forget what an        *)
(* earlier cancel left.                                                    *)
Start(c, m) ==
  /\ caller[c] = Idle /\ Created(m) /\ tid' = started + 1 /\ UNCHANGED caller
  /\ iscanceldelaystart' = (m = "now" /\ iscanceldelaystart) /\ anyway' = (m = "now" /\ anyway)

(* cancel_after, cancel_periodic: the notification is not under the mutex  *)
(* of the condition, so a thread at "parking" misses it.                   *)
Cancel(c) ==
  /\ caller[c] = Idle /\ ~isended /\ iscanceldelaystart' = TRUE /\ anyway' = TRUE
  /\ at' = [i \in Threads |-> IF at[i] = "asleep" THEN "woken" ELSE at[i]]
  /\ UNCHANGED <<refVars, mode, slept, freed, caller, overtaken>>

Join(c) ==
  /\ caller[c] = Idle /\ ~isjoined /\ ~isended
  /\ isjoined' = TRUE /\ caller' = [caller EXCEPT ![c] = [step |-> "read", of |-> started, on |-> 0]]
  /\ UNCHANGED <<started, tid, isended, iscanceldelaystart, anyway, at, mode, slept, freed, overtaken>>

JoinReads(c) ==
  /\ caller[c].step = "read"
  /\ caller' = [caller EXCEPT ![c] = [step |-> "wait", of |-> @.of, on |-> tid]]
  /\ overtaken' = (overtaken \/ tid # caller[c].of)
  /\ UNCHANGED <<refVars, iscanceldelaystart, anyway, at, mode, slept, freed>>

JoinReturns(c) ==
  /\ caller[c].step = "wait" /\ Dead(caller[c].on)
  /\ caller' = [caller EXCEPT ![c] = Idle]
  /\ freed' = IF caller[c].on = 0 THEN freed
              ELSE [freed EXCEPT ![caller[c].on] = IF @ = "no" THEN "joined" ELSE "both"]
  /\ UNCHANGED <<refVars, iscanceldelaystart, anyway, at, mode, slept, overtaken>>
-----------------------------------------------------------------------------
(* The thread                                                              *)

Runs(i, from, to) ==
  /\ at[i] = from /\ Goes(i, to)
  /\ UNCHANGED <<refVars, iscanceldelaystart, mode, freed, caller, overtaken>>

Begin(i) ==
  /\ Runs(i, "created", IF mode[i] = "now" THEN "run" ELSE IF iscanceldelaystart THEN "end" ELSE "wait")
  /\ UNCHANGED <<anyway, slept>>

(* Condition::wait looks at anyway_notify_ and then parks.                 *)
Look(i) ==
  /\ Runs(i, "wait", IF anyway THEN "woken" ELSE "parking")
  /\ anyway' = FALSE /\ slept' = [slept EXCEPT ![i] = FALSE]

Park(i) == Runs(i, "parking", "asleep") /\ UNCHANGED <<anyway, slept>>

TimeUp(i) == Runs(i, "asleep", "woken") /\ slept' = [slept EXCEPT ![i] = TRUE] /\ UNCHANGED anyway

Woken(i) ==
  /\ Runs(i, "woken", IF iscanceldelaystart THEN "end" ELSE "run")
  /\ anyway' = FALSE /\ UNCHANGED slept

RunEnds(i) ==
  /\ Runs(i, "run", IF mode[i] = "periodic" /\ ~iscanceldelaystart THEN "wait" ELSE "end")
  /\ UNCHANGED <<anyway, slept>>

(* Wrong: join keeps the spin lock while it waits.                         *)
CleanupNeedsLock(i) ==
  /\ at[i] = "end" /\ Goes(i, "dead") /\ isended' = TRUE /\ isjoined' = FALSE
  /\ \A c \in Callers : caller[c].step # "wait"
  /\ freed' = [freed EXCEPT ![i] = IF isjoined THEN @ ELSE "detached"]
  /\ UNCHANGED <<started, tid, iscanceldelaystart, anyway, mode, slept, caller, overtaken>>

Cleanup(i) ==
  /\ at[i] = "end" /\ Goes(i, "dead") /\ isended' = TRUE /\ isjoined' = FALSE
  /\ freed' = [freed EXCEPT ![i] = IF isjoined THEN @ ELSE "detached"]
  /\ UNCHANGED <<started, tid, iscanceldelaystart, anyway, mode, slept, caller, overtaken>>
-----------------------------------------------------------------------------
Calls == \E c \in Callers : Cancel(c) \/ Join(c) \/ \E m \in Modes : Start(c, m)
JoinGoesOn(c) == JoinReads(c) \/ JoinReturns(c)
Lives(i) ==
  Begin(i) \/ Look(i) \/ Park(i) \/ TimeUp(i) \/ Woken(i) \/ RunEnds(i) \/ Cleanup(i)

Next == Calls \/ (\E c \in Callers : JoinGoesOn(c)) \/ \E i \in Threads : Lives(i)
Spec == Init /\ [][Next]_threadVars

(* What runs ends, delays pass.  Nobody has to call anything.              *)
FairSpec ==
  /\ Spec /\ \A c \in Callers : WF_threadVars(JoinGoesOn(c))
  /\ \A i \in Threads : WF_threadVars(Lives(i))
-----------------------------------------------------------------------------
(* Properties                                                              *)

(* The types; one thread at most is between its creation and its end, and  *)
(* it is the last one started.                                             *)
TypeOK ==
  /\ started \in 0..MaxStarts /\ tid \in 0..started
  /\ \A i \in Threads : at[i] \notin {"none", "dead"} => i = started /\ ~isended

(* A join returns only after the end of the thread that ran when it was    *)
(* called, although the handle may have been started again meanwhile.      *)
JoinMeansEnd ==
  [][\A c \in Callers : caller[c].step = "wait" /\ caller[c]' = Idle => Dead(caller[c].of)]_threadVars

(* Every thread that ended is given back once, by whoever joins it or by   *)
(* itself, unless a join was overtaken by another start.                   *)
FreedOnce ==
  ~overtaken =>
    \A i \in Threads :
      /\ freed[i] # "both"
      /\ at[i] = "dead" /\ freed[i] = "no" => \E c \in Callers : caller[c].of = i

(* A delayed or periodic run is never early: a notification meant for an   *)
(* earlier start, or a cancel, does not cut the delay short and then run.  *)
NeverEarly == \A i \in Threads : at[i] = "run" /\ mode[i] # "now" => slept[i]

(* Both: a handle that is started, cancelled and joined by several gives   *)
(* back every thread once, and never runs a delayed thread early.          *)
ThreadSafe == FreedOnce /\ NeverEarly

(* A cancelled thread ends, even when it missed the notification.          *)
CancelEnds == iscanceldelaystart ~> isended

(* A join ends unless what it waits for is periodic.                       *)
JoinEnds ==
  \A c \in Callers : caller[c].step = "wait" ~> caller[c] = Idle \/ \E i \in Threads : i = caller[c].on /\ mode[i] = "periodic"
=============================================================================
