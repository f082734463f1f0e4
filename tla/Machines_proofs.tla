---------------------------- MODULE Machines_proofs ----------------------------
(***************************************************************************)
(* What holds of the machines that share no state, each under its own      *)
(* specification and side by side, for every value of the constants:       *)
(*                                                                         *)
(*   - a thread handle: every thread is given back once, no delayed thread *)
(*     runs early, a join means the end of the thread it was called for;   *)
(*   - the life of a push session: the work thread owns what it uses, a    *)
(*     stop sticks, the listener hears what SessionLife promises;          *)
(*   - the two network checks: a check has its own list and report, an     *)
(*     active application one periodic check of its addresses;             *)
(*   - the files of the appender: records of asynchronous mode are kept,   *)
(*     once and in order;                                                  *)
(*   - the log block: while its lines have room, a death at any memory     *)
(*     write leaves whole lines, the ones that were written.               *)
(*                                                                         *)
(* Each part has its inductive invariant, one lemma per group of actions,  *)
(* and its theorems; MachinesAreTheirModules carries them to MachinesSpec. *)
(***************************************************************************)
EXTENDS MCMachines, FiniteSets, SequenceTheorems, FiniteSetTheorems, SelectionTheorems,
        WellFoundedInduction, TLAPS

(* The thread handle: where the threads are (all but the last one started  *)
(* are dead), which joins are under way and which thread each of them was  *)
(* called for, and what a notification may still cut short.                *)
Spots == {"none", "created", "wait", "parking", "asleep", "woken", "run", "end", "dead"}
Joins == [step : {"idle", "read", "wait"}, of : 0..MaxStarts, on : 0..MaxStarts]

ThreadTypeInv ==
  /\ started \in 0..MaxStarts /\ tid = started
  /\ isended \in BOOLEAN /\ isjoined \in BOOLEAN /\ iscanceldelaystart \in BOOLEAN
  /\ anyway \in BOOLEAN /\ overtaken \in BOOLEAN
  /\ at \in [Threads -> Spots] /\ mode \in [Threads -> Modes]
  /\ slept \in [Threads -> BOOLEAN]
  /\ freed \in [Threads -> {"no", "joined", "detached", "both"}]
  /\ caller \in [Callers -> Joins]

(* All threads but the last one are dead, and that one is when isended.    *)
OneAlive ==
  /\ \A i \in Threads : i > started => at[i] = "none"
  /\ \A i \in Threads : i < started => at[i] = "dead"
  /\ \A i \in Threads : i = started => at[i] # "none" /\ (at[i] = "dead" <=> isended)
  /\ started = 0 => isended

(* A join waits for the thread it was called for, or for a later one.      *)
JoinsKnown ==
  \A c \in Callers :
    /\ caller[c].step = "idle" => caller[c] = Idle
    /\ caller[c].step # "idle" => caller[c].of \in 1..started
    /\ caller[c].step = "wait" => caller[c].on \in caller[c].of..started
    /\ caller[c].step = "wait" /\ ~overtaken => caller[c].on = caller[c].of

(* isjoined speaks of a join of the thread that is alive; no two joins     *)
(* were called for the same thread.                                        *)
JoinsApart ==
  /\ isjoined => ~isended /\ \E c \in Callers : caller[c].of = started
  /\ ~isended /\ ~isjoined => \A c \in Callers : caller[c].of # started
  /\ \A c, d \in Callers : c # d /\ caller[c].of # 0 => caller[c].of # caller[d].of

(* What is joined was not given back before.                               *)
Owed ==
  /\ \A i \in Threads : at[i] # "dead" => freed[i] = "no"
  /\ ~overtaken => \A c \in Callers : caller[c].of # 0 => freed[caller[c].of] = "no"

(* Whoever is woken before its time was cancelled.                         *)
Notified ==
  /\ anyway => iscanceldelaystart
  /\ \A i \in Threads : at[i] = "woken" /\ ~iscanceldelaystart => slept[i]

ThreadInv == ThreadTypeInv /\ OneAlive /\ JoinsKnown /\ JoinsApart /\ Owed /\ Notified /\ ThreadSafe

-----------------------------------------------------------------------------
LEMMA ThreadInit == Init => ThreadInv
<1> SUFFICES ASSUME Init PROVE ThreadInv
  OBVIOUS
<1> USE ThreadAssumption DEF Init, Idle, Threads
<1>0. /\ started = 0 /\ tid = 0 /\ isended = TRUE /\ isjoined = FALSE /\ overtaken = FALSE
      /\ iscanceldelaystart = FALSE /\ anyway = FALSE
  OBVIOUS
<1>1. ThreadTypeInv
  <2>1. at \in [Threads -> Spots] /\ mode \in [Threads -> Modes] /\ slept \in [Threads -> BOOLEAN]
    BY Zenon DEF Spots, Modes
  <2>2. freed \in [Threads -> {"no", "joined", "detached", "both"}]
    BY Zenon
  <2>3. Idle \in Joins
    BY SMT DEF Joins
  <2>4. caller \in [Callers -> Joins]
    BY <2>3, Zenon
  <2>5. started \in 0..MaxStarts
    BY <1>0, SMT
  <2> QED BY <1>0, <2>1, <2>2, <2>4, <2>5, Zenon DEF ThreadTypeInv
<1>2. OneAlive
  BY SMT DEF OneAlive
<1>3. JoinsKnown
  <2>1. \A c \in Callers : caller[c] = Idle
    BY Zenon
  <2> QED BY <2>1, Zenon DEF JoinsKnown
<1>4. JoinsApart
  BY SMT DEF JoinsApart
<1>5. Owed /\ Notified /\ ThreadSafe
  BY SMT DEF Owed, Notified, ThreadSafe, FreedOnce, NeverEarly
<1> QED BY <1>1, <1>2, <1>3, <1>4, <1>5 DEF ThreadInv

(* The thread that takes a step is the last one, and it is alive.          *)
LEMMA LastAlive ==
  ASSUME ThreadTypeInv, OneAlive, NEW i \in Threads, at[i] # "none", at[i] # "dead"
  PROVE  i = started /\ ~isended
  BY ThreadAssumption, SMT DEF ThreadTypeInv, OneAlive, Threads
-----------------------------------------------------------------------------
LEMMA StartStep ==
  ASSUME ThreadInv, NEW c \in Callers, NEW m \in Modes, Start(c, m)
  PROVE  ThreadInv'
<1> USE ThreadAssumption
<1>1. ThreadTypeInv'
  <2>1. started + 1 \in Threads /\ started' = started + 1
    BY SMT DEF ThreadInv, ThreadTypeInv, Start, Created, Threads
  <2>2. at' \in [Threads -> Spots] /\ mode' \in [Threads -> Modes]
    BY <2>1, Zenon DEF ThreadInv, ThreadTypeInv, Start, Created, Goes, Spots
  <2>3. started' \in 0..MaxStarts /\ tid' = started' /\ isended' \in BOOLEAN
    <3>1. tid' = started + 1 /\ isended' = FALSE
      BY DEF Start, Created
    <3>2. started' \in 0..MaxStarts
      BY <2>1, SMT DEF Threads
    <3> QED BY <2>1, <3>1, <3>2, Zenon
  <2>4. iscanceldelaystart' \in BOOLEAN /\ anyway' \in BOOLEAN
    BY SMT DEF Start
  <2>5. UNCHANGED <<isjoined, overtaken, slept, freed, caller>>
    BY DEF Start, Created
  <2> QED BY <2>2, <2>3, <2>4, <2>5, Zenon DEF ThreadInv, ThreadTypeInv
<1>2. OneAlive'
  BY SMT DEF ThreadInv, ThreadTypeInv, OneAlive, Start, Created, Goes, Threads, Spots
<1>3. JoinsKnown'
  BY SMT DEF ThreadInv, ThreadTypeInv, JoinsKnown, Start, Created, Joins, Idle
<1>4. JoinsApart'
  <2>1. \A d \in Callers : caller[d].of \in 0..started
    BY SMT DEF ThreadInv, ThreadTypeInv, JoinsKnown, Joins, Idle
  <2> QED BY <2>1, SMT DEF ThreadInv, ThreadTypeInv, JoinsApart, Start, Created, Joins
<1>5. Owed'
  BY SMT DEF ThreadInv, ThreadTypeInv, OneAlive, Owed, Start, Created, Goes, Threads, Spots
<1>6. Notified'
  BY SMT DEF ThreadInv, ThreadTypeInv, OneAlive, Notified, Start, Created, Goes, Threads, Spots
<1>7. ThreadSafe'
  BY SMT DEF ThreadInv, ThreadTypeInv, OneAlive, ThreadSafe, FreedOnce, NeverEarly, Start, Created, Goes, Threads, Spots
<1> QED BY <1>1, <1>2, <1>3, <1>4, <1>5, <1>6, <1>7 DEF ThreadInv

LEMMA CancelStep ==
  ASSUME ThreadInv, NEW c \in Callers, Cancel(c)
  PROVE  ThreadInv'
<1> USE ThreadAssumption DEF Cancel, refVars
<1>1. ThreadTypeInv'
  BY SMT DEF ThreadInv, ThreadTypeInv, Threads, Spots
<1>2. OneAlive'
  BY SMT DEF ThreadInv, ThreadTypeInv, OneAlive, Threads, Spots
<1>3. JoinsKnown' /\ JoinsApart'
  BY SMT DEF ThreadInv, JoinsKnown, JoinsApart
<1>5. Owed' /\ Notified' /\ ThreadSafe'
  BY SMT DEF ThreadInv, ThreadTypeInv, OneAlive, Owed, Notified, ThreadSafe, FreedOnce, NeverEarly, Threads, Spots
<1> QED BY <1>1, <1>2, <1>3, <1>5 DEF ThreadInv

LEMMA JoinStep ==
  ASSUME ThreadInv, NEW c \in Callers, Join(c)
  PROVE  ThreadInv'
<1> USE ThreadAssumption DEF Join
<1>1. ThreadTypeInv'
  BY SMT DEF ThreadInv, ThreadTypeInv, Joins
<1>2. OneAlive'
  BY SMT DEF ThreadInv, OneAlive
<1>3. JoinsKnown'
  BY SMT DEF ThreadInv, ThreadTypeInv, OneAlive, JoinsKnown, Joins, Idle
<1>4. JoinsApart'
  BY SMT DEF ThreadInv, ThreadTypeInv, JoinsApart, Joins
<1>5. Owed'
  <2>1. started \in Threads /\ at[started] # "dead"
    BY SMT DEF ThreadInv, ThreadTypeInv, OneAlive, Threads
  <2> QED BY <2>1, SMT DEF ThreadInv, ThreadTypeInv, Owed, Joins
<1>6. Notified'
  BY SMT DEF ThreadInv, Notified
<1>7. ThreadSafe'
  BY SMT DEF ThreadInv, ThreadTypeInv, ThreadSafe, FreedOnce, NeverEarly, Joins, Idle, Threads
<1> QED BY <1>1, <1>2, <1>3, <1>4, <1>5, <1>6, <1>7 DEF ThreadInv

LEMMA JoinReadsStep ==
  ASSUME ThreadInv, NEW c \in Callers, JoinReads(c)
  PROVE  ThreadInv'
<1> USE ThreadAssumption DEF JoinReads, refVars
<1>1. ThreadTypeInv'
  BY SMT DEF ThreadInv, ThreadTypeInv, Joins
<1>2. OneAlive'
  BY SMT DEF ThreadInv, OneAlive
<1>3. JoinsKnown'
  <2>1. caller[c] \in Joins /\ caller[c].of \in 1..started /\ tid = started /\ started \in Nat
    BY SMT DEF ThreadInv, ThreadTypeInv, JoinsKnown
  <2>2. caller'[c].step = "wait" /\ caller'[c].of = caller[c].of /\ caller'[c].on = started
    BY <2>1, SMT DEF ThreadInv, ThreadTypeInv, Joins
  <2>3. \A d \in Callers : d # c => caller'[d] = caller[d]
    BY SMT DEF ThreadInv, ThreadTypeInv
  <2>4. started' = started /\ (~overtaken' => ~overtaken /\ caller[c].of = started)
    BY <2>1 DEF ThreadInv, ThreadTypeInv
  <2> QED BY <2>1, <2>2, <2>3, <2>4, SMT DEF ThreadInv, JoinsKnown
<1>4. JoinsApart' /\ Owed'
  BY SMT DEF ThreadInv, ThreadTypeInv, JoinsApart, Owed, Joins
<1>6. Notified'
  BY SMT DEF ThreadInv, Notified
<1>7. ThreadSafe'
  BY SMT DEF ThreadInv, ThreadTypeInv, ThreadSafe, FreedOnce, NeverEarly, Joins
<1> QED BY <1>1, <1>2, <1>3, <1>4, <1>6, <1>7 DEF ThreadInv

(* The thread that is given back is the one the join was called for,       *)
(* unless the join was overtaken, and nobody else was called for it.       *)
LEMMA JoinReturnsStep ==
  ASSUME ThreadInv, NEW c \in Callers, JoinReturns(c)
  PROVE  ThreadInv'
<1> USE ThreadAssumption DEF JoinReturns, refVars
<1>0. caller[c].on \in Threads /\ caller[c].of \in 1..started /\ at[caller[c].on] = "dead"
  BY SMT DEF ThreadInv, ThreadTypeInv, JoinsKnown, Joins, Threads, Dead
<1>1. ThreadTypeInv'
  BY <1>0, SMT DEF ThreadInv, ThreadTypeInv, Joins, Idle, Threads
<1>2. OneAlive'
  BY SMT DEF ThreadInv, OneAlive
<1>3. JoinsKnown'
  BY SMT DEF ThreadInv, ThreadTypeInv, JoinsKnown, Joins, Idle
<1>4. JoinsApart'
  <2>1. ~isended => caller[c].of # started \/ caller[c].on # started
    BY <1>0, SMT DEF ThreadInv, ThreadTypeInv, OneAlive, Threads
  <2> QED BY <1>0, <2>1, SMT DEF ThreadInv, ThreadTypeInv, OneAlive, JoinsKnown, JoinsApart, Joins, Idle, Threads
<1>5. Owed'
  BY <1>0, SMT DEF ThreadInv, ThreadTypeInv, JoinsKnown, JoinsApart, Owed, Joins, Idle, Threads
<1>6. Notified'
  BY SMT DEF ThreadInv, Notified
<1>7. ThreadSafe'
  <2>1. NeverEarly'
    BY SMT DEF ThreadInv, ThreadSafe, NeverEarly
  <2>2. FreedOnce'
    BY <1>0, SMT DEF ThreadInv, ThreadTypeInv, JoinsKnown, Owed, ThreadSafe, FreedOnce, Joins, Idle, Threads
  <2> QED BY <2>1, <2>2 DEF ThreadSafe
<1> QED BY <1>1, <1>2, <1>3, <1>4, <1>5, <1>6, <1>7 DEF ThreadInv
-----------------------------------------------------------------------------
(* A thread that goes from one living place to another, without its end.   *)
LEMMA RunsStep ==
  ASSUME ThreadInv, NEW i \in Threads, NEW from \in Spots \ {"none", "dead"},
         NEW to \in Spots \ {"none", "dead"}, Runs(i, from, to),
         anyway' \in BOOLEAN, anyway' => anyway, slept' \in [Threads -> BOOLEAN],
         slept' # slept => to # "run",
         \A j \in Threads : j # i => slept'[j] = slept[j],
         to = "woken" => iscanceldelaystart \/ slept'[i],
         to = "run" => mode[i] = "now" \/ slept[i]
  PROVE  ThreadInv'
<1> USE ThreadAssumption DEF Runs, Goes, refVars
<1>0. i = started /\ ~isended /\ at[i] # "none" /\ at[i] # "dead"
  BY LastAlive DEF ThreadInv
<1>1. ThreadTypeInv'
  <2>1. at' \in [Threads -> Spots]
    BY Zenon DEF ThreadInv, ThreadTypeInv
  <2> QED BY <2>1, Zenon DEF ThreadInv, ThreadTypeInv
<1>2. OneAlive'
  BY <1>0, SMT DEF ThreadInv, ThreadTypeInv, OneAlive, Threads
<1>3. JoinsKnown' /\ JoinsApart'
  BY SMT DEF ThreadInv, JoinsKnown, JoinsApart
<1>4. Owed'
  BY <1>0, SMT DEF ThreadInv, ThreadTypeInv, Owed
<1>5. Notified'
  BY SMT DEF ThreadInv, ThreadTypeInv, Notified
<1>6. FreedOnce'
  BY SMT DEF ThreadInv, ThreadTypeInv, ThreadSafe, FreedOnce
<1>7. NeverEarly'
  <2>1. at' = [at EXCEPT ![i] = to] /\ mode' = mode
    OBVIOUS
  <2>2. \A j \in Threads : j # i => at'[j] = at[j]
    BY SMT DEF ThreadInv, ThreadTypeInv
  <2>3. at'[i] = to
    BY SMT DEF ThreadInv, ThreadTypeInv
  <2>4. to = "run" => slept' = slept
    OBVIOUS
  <2> QED BY <2>1, <2>2, <2>3, <2>4, SMT DEF ThreadInv, ThreadSafe, NeverEarly
<1> QED BY <1>1, <1>2, <1>3, <1>4, <1>5, <1>6, <1>7 DEF ThreadInv, ThreadSafe

(* A woken thread runs only after its whole delay: whoever is woken before *)
(* was cancelled, and ends.                                                *)
LEMMA LivesStep ==
  ASSUME ThreadInv, NEW i \in Threads,
         Begin(i) \/ Look(i) \/ Park(i) \/ TimeUp(i) \/ Woken(i) \/ RunEnds(i)
  PROVE  ThreadInv'
<1>0. /\ anyway \in BOOLEAN /\ slept \in [Threads -> BOOLEAN]
      /\ anyway => iscanceldelaystart
      /\ at[i] = "woken" /\ ~iscanceldelaystart => slept[i]
  BY Zenon DEF ThreadInv, ThreadTypeInv, Notified
<1>1. CASE Begin(i)
  <2>1. PICK to \in {"run", "end", "wait"} :
          Runs(i, "created", to) /\ (to = "run" => mode[i] = "now")
    BY <1>1 DEF Begin
  <2>2. UNCHANGED <<anyway, slept>>
    BY <1>1 DEF Begin
  <2> QED BY <1>0, <2>1, <2>2, RunsStep DEF Spots
<1>2. CASE Look(i)
  <2>1. PICK to \in {"woken", "parking"} : Runs(i, "wait", to) /\ (to = "woken" => anyway)
    BY <1>2 DEF Look
  <2>2. anyway' = FALSE /\ slept' = [slept EXCEPT ![i] = FALSE]
    BY <1>2 DEF Look
  <2>3. slept' \in [Threads -> BOOLEAN] /\ \A j \in Threads : j # i => slept'[j] = slept[j]
    BY <1>0, <2>2, Zenon
  <2> QED BY <1>0, <2>1, <2>2, <2>3, RunsStep DEF Spots
<1>3. CASE Park(i)
  BY <1>0, <1>3, RunsStep DEF Park, Spots
<1>4. CASE TimeUp(i)
  <2>1. slept' = [slept EXCEPT ![i] = TRUE] /\ anyway' = anyway /\ Runs(i, "asleep", "woken")
    BY <1>4 DEF TimeUp
  <2>2. /\ slept' \in [Threads -> BOOLEAN] /\ slept'[i]
        /\ \A j \in Threads : j # i => slept'[j] = slept[j]
    BY <1>0, <2>1, Zenon
  <2> QED BY <1>0, <2>1, <2>2, RunsStep DEF Spots
<1>5. CASE Woken(i)
  <2>1. PICK to \in {"end", "run"} : Runs(i, "woken", to) /\ (to = "run" => ~iscanceldelaystart)
    BY <1>5 DEF Woken
  <2>2. anyway' = FALSE /\ slept' = slept /\ at[i] = "woken"
    BY <1>5 DEF Woken, Runs
  <2> QED BY <1>0, <2>1, <2>2, RunsStep DEF Spots
<1>6. CASE RunEnds(i)
  <2>1. PICK to \in {"wait", "end"} : Runs(i, "run", to)
    BY <1>6 DEF RunEnds
  <2>2. UNCHANGED <<anyway, slept>>
    BY <1>6 DEF RunEnds
  <2> QED BY <1>0, <2>1, <2>2, RunsStep DEF Spots
<1> QED BY <1>1, <1>2, <1>3, <1>4, <1>5, <1>6

(* A thread that nobody joins gives itself back, and one that is joined is *)
(* left to its join.                                                       *)
LEMMA CleanupStep ==
  ASSUME ThreadInv, NEW i \in Threads, Cleanup(i)
  PROVE  ThreadInv'
<1> USE ThreadAssumption DEF Cleanup, Goes
<1>0. i = started /\ ~isended /\ at[i] # "none" /\ at[i] # "dead" /\ freed[i] = "no"
  <2>1. at[i] # "none" /\ at[i] # "dead"
    OBVIOUS
  <2> QED BY <2>1, LastAlive DEF ThreadInv, Owed
<1>1. ThreadTypeInv'
  <2>1. at' \in [Threads -> Spots]
    BY Zenon DEF ThreadInv, ThreadTypeInv, Spots
  <2>2. freed' \in [Threads -> {"no", "joined", "detached", "both"}]
    BY SMT DEF ThreadInv, ThreadTypeInv
  <2> QED BY <2>1, <2>2, Zenon DEF ThreadInv, ThreadTypeInv
<1>2. OneAlive'
  BY <1>0, SMT DEF ThreadInv, ThreadTypeInv, OneAlive, Threads
<1>3. JoinsKnown' /\ JoinsApart'
  BY SMT DEF ThreadInv, JoinsKnown, JoinsApart
<1>4. Owed'
  BY <1>0, SMT DEF ThreadInv, ThreadTypeInv, OneAlive, JoinsKnown, JoinsApart, Owed, Joins, Idle, Threads
<1>5. Notified'
  BY SMT DEF ThreadInv, ThreadTypeInv, Notified
<1>6. NeverEarly'
  BY SMT DEF ThreadInv, ThreadTypeInv, ThreadSafe, NeverEarly
<1>7. FreedOnce'
  <2> SUFFICES ASSUME ~overtaken, NEW j \in Threads
               PROVE  /\ freed'[j] # "both"
                      /\ at'[j] = "dead" /\ freed'[j] = "no" => \E c \in Callers : caller[c].of = j
    BY DEF FreedOnce
  <2>1. CASE j = i
    BY <1>0, <2>1, SMT DEF ThreadInv, ThreadTypeInv, JoinsApart
  <2>2. CASE j # i
    BY <2>2, SMT DEF ThreadInv, ThreadTypeInv, ThreadSafe, FreedOnce
  <2> QED BY <2>1, <2>2
<1> QED BY <1>1, <1>2, <1>3, <1>4, <1>5, <1>6, <1>7 DEF ThreadInv, ThreadSafe

LEMMA ThreadStep == ThreadInv /\ [Next]_threadVars => ThreadInv'
<1> SUFFICES ASSUME ThreadInv, [Next]_threadVars PROVE ThreadInv'
  OBVIOUS
<1>1. CASE Calls
  BY <1>1, StartStep, CancelStep, JoinStep DEF Calls
<1>2. ASSUME NEW c \in Callers, JoinGoesOn(c) PROVE ThreadInv'
  BY <1>2, JoinReadsStep, JoinReturnsStep DEF JoinGoesOn
<1>3. ASSUME NEW i \in Threads, Lives(i) PROVE ThreadInv'
  BY <1>3, LivesStep, CleanupStep DEF Lives
<1>4. CASE UNCHANGED threadVars
  <2>1. UNCHANGED <<started, tid, isended, isjoined, iscanceldelaystart, anyway, at, mode, slept,
                    freed, caller, overtaken>>
    BY <1>4 DEF threadVars
  <2>2. ThreadTypeInv' /\ OneAlive' /\ Notified'
    BY <2>1, SMT DEF ThreadInv, ThreadTypeInv, OneAlive, Notified
  <2>3. JoinsKnown' /\ JoinsApart' /\ Owed'
    BY <2>1, SMT DEF ThreadInv, JoinsKnown, JoinsApart, Owed
  <2>4. ThreadSafe'
    BY <2>1, SMT DEF ThreadInv, ThreadSafe, FreedOnce, NeverEarly
  <2> QED BY <2>2, <2>3, <2>4 DEF ThreadInv
<1> QED BY <1>1, <1>2, <1>3, <1>4 DEF Next
-----------------------------------------------------------------------------
(* The types, and that all threads but the last one started are over.      *)
THEOREM ThreadTypes == Spec => []TypeOK
<1>1. ThreadInv => TypeOK
  BY ThreadAssumption, SMT DEF ThreadInv, ThreadTypeInv, OneAlive, TypeOK, Threads
<1> QED BY <1>1, ThreadInit, ThreadStep, PTL DEF Spec

(* Every thread that ended is given back exactly once, by its join or by   *)
(* itself, unless a join was overtaken, and no delayed thread runs early:  *)
(* cleanup, join and the cancels of Thread, in any order.                  *)
THEOREM ThreadHandleSafe == Spec => []ThreadSafe
<1>1. ThreadInv => ThreadSafe
  BY DEF ThreadInv
<1> QED BY <1>1, ThreadInit, ThreadStep, PTL DEF Spec

(* The action of JoinMeansEnd.                                             *)
Ended == \A c \in Callers : caller[c].step = "wait" /\ caller[c]' = Idle => Dead(caller[c].of)

(* Only the end of pthread_join ends a join, and of the threads up to the  *)
(* one it waits for none is alive then.                                    *)
LEMMA JoinStepEnds ==
  ASSUME ThreadInv, [Next]_threadVars
  PROVE  [Ended]_threadVars
<1> SUFFICES ASSUME NEW c \in Callers, caller[c].step = "wait", caller'[c] = Idle
             PROVE  Dead(caller[c].of)
  BY DEF Ended
<1>1. caller' # caller
  BY DEF Idle
<1>2. PICK d \in Callers : Join(d) \/ JoinReads(d) \/ JoinReturns(d)
  BY <1>1 DEF Next, Calls, JoinGoesOn, Lives, Start, Created, Cancel, Begin, Look, Park, TimeUp,
     Woken, RunEnds, Cleanup, Runs, threadVars
<1>3. c = d /\ JoinReturns(c)
  BY <1>2, SMT DEF ThreadInv, ThreadTypeInv, Joins, Join, JoinReads, JoinReturns, Idle
<1> QED BY <1>3, ThreadAssumption, SMT DEF ThreadInv, ThreadTypeInv, OneAlive, JoinsKnown, Joins, JoinReturns,
     Dead, Threads

(* A join returns only after the end of the thread that ran when it was    *)
(* called, although the handle may have been started again meanwhile.      *)
THEOREM JoinWaitsForItsThread == Spec => JoinMeansEnd
<1>1. Spec => [][Ended]_threadVars
  BY ThreadInit, ThreadStep, JoinStepEnds, PTL DEF Spec
<1> QED BY <1>1, PTL DEF JoinMeansEnd, Ended
-----------------------------------------------------------------------------
Early   == {"none", "unborn", "begin", "connect", "again"}
Setting == {"headers", "check", "start"}
Working == {"control", "reconnect", "stopped"}
Closing == {"close", "free", "tell"}
Leaving == {"relieve", "ended"}

Codes == {"init_status", "connect_fail", "connect_success", "send_status", "reconnect_begin",
          "reconnect_success", "stop_send_abnormal", "disconnect_status"}

(* Only the last session started can have a running work thread, and that  *)
(* thread has the session the global points to.                            *)
Turns ==
  /\ \A r, s \in Sessions : r < s /\ work[s] # "none" => ~Running(r) /\ work[r] # "none"
  /\ ThreadOwnsSession

Attempts(s) ==
  /\ work[s] \in {"none", "begin"} => attempt[s] = 0
  /\ work[s] = "connect" => attempt[s] < MaxAttempts

(* What the listener has heard follows from where the work thread is, and  *)
(* in the loop the state of the session counts the stops.                  *)
Heard(s) ==
  /\ work[s] \in Early => told[s] = "init_status" /\ asked[s] = 0
  /\ work[s] \in Setting => told[s] = "connect_success" /\ asked[s] = 0
  /\ work[s] = "control" => told[s] \in {"send_status", "reconnect_success"}
  /\ work[s] = "reconnect" => told[s] = "reconnect_begin"
  /\ work[s] = "stopped" => told[s] \in Life!Sending
  /\ work[s] \in Closing => \/ told[s] \in {"connect_fail", "connect_success"} /\ asked[s] = 0
                            \/ told[s] = "stop_send_abnormal" /\ asked[s] # 1
                            \/ told[s] \in Life!Sending /\ asked[s] = 1
  /\ work[s] \in Leaving => told[s] = "disconnect_status"

Stops(s) ==
  IF work[s] \in Working
  THEN \/ status[s] = "send_status" /\ asked[s] = 0
       \/ status[s] = "stop_send" /\ asked[s] = 1
       \/ status[s] = "disconnect_status" /\ asked[s] = 2
  ELSE /\ status[s] \notin {"send_status", "stop_send"}
       /\ asked[s] > 0 => status[s] = "disconnect_status"

PushInv ==
  /\ SessionTypeOK
  /\ told \in [Sessions -> Codes]
  /\ Turns
  /\ \A s \in Sessions : Attempts(s) /\ Heard(s) /\ Stops(s)
  /\ FlagHonest
-----------------------------------------------------------------------------
(* Lemmas about the two ways a step of the work thread can be seen: what   *)
(* it does to the session it runs, and that no other session is concerned. *)

LEMMA Alone ==
  ASSUME PushInv, NEW s \in Sessions, Running(s)
  PROVE  /\ pConfig = s /\ s \in allocated
         /\ \A r \in Sessions \ {s} :
              ~Running(r) /\ told[r] \notin {"send_status", "reconnect_success"}
<1>1. pConfig = s /\ s \in allocated
  BY DEF PushInv, Turns, ThreadOwnsSession
<1>2. ASSUME NEW r \in Sessions \ {s} PROVE ~Running(r)
  BY <1>1, <1>2 DEF PushInv, Turns, ThreadOwnsSession
<1>3. ASSUME NEW r \in Sessions \ {s} PROVE told[r] \notin {"send_status", "reconnect_success"}
  <2>1. work[r] \in {"none", "unborn", "ended"} /\ Heard(r)
    BY <1>2 DEF PushInv, Running
  <2>2. QED
    BY <2>1 DEF Heard, Early, Leaving
<1>4. QED
  BY <1>1, <1>2, <1>3

(* A step of the work thread that leaves the global alone.                 *)
LEMMA WorkTurns ==
  ASSUME PushInv, NEW s \in Sessions, Running(s),
         NEW place \in Places \ {"none", "unborn"}, Goto(s, place),
         pConfig' = pConfig, allocated' = allocated
  PROVE  Turns' /\ work' \in [Sessions -> Places]
<1>1. work \in [Sessions -> Places]
  BY DEF PushInv, SessionTypeOK
<1>2. \A r \in Sessions : work'[r] = IF r = s THEN place ELSE work[r]
  BY <1>1 DEF Goto
<1>3. \A r \in Sessions : Running(r)' => Running(r)
  BY <1>2 DEF Running
<1>4. \A r, q \in Sessions : r < q /\ work'[q] # "none" => ~Running(r)' /\ work'[r] # "none"
  BY <1>2, <1>3 DEF PushInv, Turns, Running
<1>5. ThreadOwnsSession'
  BY <1>3 DEF PushInv, Turns, ThreadOwnsSession
<1>6. QED
  BY <1>1, <1>4, <1>5 DEF Turns, Goto

LEMMA WorkFlag ==
  ASSUME PushInv, NEW s \in Sessions, Running(s), NEW code \in Codes, Tell(s, code)
  PROVE  FlagHonest' /\ flag' \in BOOLEAN /\ told' \in [Sessions -> Codes]
<1>1. \A r \in Sessions : told'[r] = IF r = s THEN code ELSE told[r]
  BY DEF Tell, PushInv
<1>2. FlagHonest'
  BY <1>1, Alone DEF Tell, FlagHonest
<1>3. QED
  BY <1>2 DEF Tell, PushInv

LEMMA QuietFlag ==
  ASSUME PushInv, Quiet
  PROVE  FlagHonest' /\ flag' \in BOOLEAN /\ told' \in [Sessions -> Codes]
  BY DEF PushInv, Quiet, FlagHonest, SessionTypeOK

(* What PushInv says of a session alone.                                   *)
Session(s) == Attempts(s) /\ Heard(s) /\ Stops(s)

LEMMA OthersKeep ==
  ASSUME PushInv, NEW r \in Sessions,
         work'[r] = work[r], told'[r] = told[r], asked'[r] = asked[r],
         status'[r] = status[r], attempt'[r] = attempt[r]
  PROVE  Session(r)'
  BY DEF PushInv, Session, Attempts, Heard, Stops

(* A report of connectRtmp or StartSend.                                   *)
LEMMA ReportSteps ==
  ASSUME PushInv, NEW s \in Sessions, Running(s),
         NEW code \in {"connect_fail", "connect_success", "send_status"},
         NEW place \in Places, Report(s, code, place),
         \/ /\ work[s] \in Early /\ asked[s] = 0
            /\ <<code, place>> \in {<<"connect_fail", "close">>, <<"connect_success", "headers">>}
         \/ work[s] = "start" /\ code = "send_status" /\ place = "control"
  PROVE  PushInv'
<1>1. /\ Tell(s, code) /\ Goto(s, place) /\ status' = [status EXCEPT ![s] = code]
      /\ UNCHANGED <<pConfig, allocated, config, attempt, asked>>
  BY DEF Report
<1>2. code \in Codes /\ place \in Places \ {"none", "unborn"}
  BY DEF Codes
<1>3. Turns' /\ work' \in [Sessions -> Places]
  BY <1>1, <1>2, WorkTurns
<1>4. FlagHonest' /\ flag' \in BOOLEAN /\ told' \in [Sessions -> Codes]
  BY <1>1, <1>2, WorkFlag
<1>5. SessionTypeOK'
  BY <1>1, <1>3, <1>4 DEF PushInv, SessionTypeOK, Statuses
<1>6. \A r \in Sessions : Session(r)'
  <2>1. ASSUME NEW r \in Sessions, r # s PROVE Session(r)'
    BY <1>1, <2>1, OthersKeep DEF PushInv, SessionTypeOK, Goto, Tell
  <2>2. Session(s)'
    <3>1. work'[s] = place /\ told'[s] = code /\ status'[s] = code /\ asked'[s] = asked[s]
      BY <1>1 DEF Goto, Tell, PushInv, SessionTypeOK
    <3>2. asked[s] = 0
      BY DEF PushInv, Heard, Setting
    <3>3. QED
      BY <3>1, <3>2 DEF Session, Attempts, Heard, Stops, Early, Setting, Working, Closing, Leaving
  <2>3. QED
    BY <2>1, <2>2
<1>7. QED
  BY <1>3, <1>4, <1>5, <1>6 DEF PushInv, Session

(* A move of the work thread that is told to nobody.                       *)
LEMMA MoveSteps ==
  ASSUME PushInv, NEW s \in Sessions, Running(s), NEW from \in Places,
         NEW place \in Places, Move(s, from, place),
         \/ <<from, place>> \in {<<"begin", "connect">>, <<"headers", "check">>,
              <<"headers", "close">>, <<"check", "start">>, <<"check", "close">>,
              <<"reconnect", "stopped">>, <<"control", "stopped">>}
         \/ from = "again" /\ place = "connect" /\ attempt[s] < MaxAttempts
  PROVE  PushInv'
<1>1. /\ Quiet /\ Goto(s, place) /\ work[s] = from
      /\ UNCHANGED <<pConfig, allocated, config, status, attempt, asked>>
  BY DEF Move
<1>2. place \in Places \ {"none", "unborn"}
  OBVIOUS
<1>3. Turns' /\ work' \in [Sessions -> Places]
  BY <1>1, <1>2, WorkTurns
<1>4. FlagHonest' /\ flag' \in BOOLEAN /\ told' \in [Sessions -> Codes]
  BY <1>1, QuietFlag
<1>5. SessionTypeOK'
  BY <1>1, <1>3, <1>4 DEF PushInv, SessionTypeOK
<1>6. \A r \in Sessions : Session(r)'
  <2>1. ASSUME NEW r \in Sessions, r # s PROVE Session(r)'
    BY <1>1, <2>1, OthersKeep DEF PushInv, SessionTypeOK, Goto, Quiet
  <2>2. Session(s)'
    <3>1. /\ work'[s] = place /\ told'[s] = told[s] /\ status'[s] = status[s]
          /\ asked'[s] = asked[s] /\ attempt'[s] = attempt[s]
      BY <1>1 DEF Goto, Quiet, PushInv, SessionTypeOK
    <3>2. Session(s)
      BY DEF PushInv, Session
    <3>3. Attempts(s)'
      BY <1>1, <3>1, <3>2, PushConstants DEF Session, Attempts
    <3>4. Heard(s)'
      BY <1>1, <3>1, <3>2 DEF Session, Heard, Early, Setting, Closing, Leaving, Life!Sending
    <3>5. Stops(s)'
      BY <1>1, <3>1, <3>2 DEF Session, Stops, Working
    <3>6. QED
      BY <3>3, <3>4, <3>5 DEF Session
  <2>3. QED
    BY <2>1, <2>2
<1>7. QED
  BY <1>3, <1>4, <1>5, <1>6 DEF PushInv, Session

LEMMA AttemptSteps ==
  ASSUME PushInv, NEW s \in Sessions, AttemptFails(s)
  PROVE  PushInv'
<1>1. /\ Quiet /\ Goto(s, "again") /\ work[s] = "connect" /\ Running(s)
      /\ attempt' = [attempt EXCEPT ![s] = @ + 1]
      /\ UNCHANGED <<pConfig, allocated, config, status, asked>>
  BY DEF AttemptFails, Running
<1>2. Turns' /\ work' \in [Sessions -> Places]
  BY <1>1, WorkTurns DEF Places
<1>3. FlagHonest' /\ flag' \in BOOLEAN /\ told' \in [Sessions -> Codes]
  BY <1>1, QuietFlag
<1>4. attempt[s] \in 0..MaxAttempts /\ attempt[s] < MaxAttempts
  BY <1>1 DEF PushInv, SessionTypeOK, Attempts
<1>5. SessionTypeOK'
  <2>1. attempt[s] + 1 \in 0..MaxAttempts
    BY <1>4, PushConstants
  <2>2. attempt' \in [Sessions -> 0..MaxAttempts]
    BY <1>1, <2>1 DEF PushInv, SessionTypeOK
  <2>3. QED
    BY <1>1, <1>2, <1>3, <2>2 DEF PushInv, SessionTypeOK
<1>6. \A r \in Sessions : Session(r)'
  <2>1. ASSUME NEW r \in Sessions, r # s PROVE Session(r)'
    BY <1>1, <2>1, OthersKeep DEF PushInv, SessionTypeOK, Goto, Quiet
  <2>2. Session(s)'
    <3>1. /\ work'[s] = "again" /\ told'[s] = told[s] /\ status'[s] = status[s]
          /\ asked'[s] = asked[s]
      BY <1>1 DEF Goto, Quiet, PushInv, SessionTypeOK
    <3>2. Session(s)
      BY DEF PushInv, Session
    <3>3. QED
      BY <1>1, <3>1, <3>2 DEF Session, Attempts, Heard, Stops, Early, Setting, Working, Closing, Leaving
  <2>3. QED
    BY <2>1, <2>2
<1>7. QED
  BY <1>2, <1>3, <1>5, <1>6 DEF PushInv, Session

(* What the loop and the teardown tell without a change of the state.      *)
LEMMA TellSteps ==
  ASSUME PushInv, NEW s \in Sessions,
         ReconnectBegin(s) \/ ReconnectSuccess(s) \/ TellDisconnect(s)
  PROVE  PushInv'
<1>1. PICK code \in Codes, place \in Places \ {"none", "unborn"} :
        /\ Tell(s, code) /\ Goto(s, place) /\ Running(s)
        /\ UNCHANGED <<pConfig, allocated, config, status, attempt, asked>>
        /\ <<work[s], code, place>> \in
             {<<"control", "reconnect_begin", "reconnect">>,
              <<"reconnect", "reconnect_success", "control">>,
              <<"tell", "disconnect_status", "relieve">>}
  <2>1. CASE ReconnectBegin(s)
    BY <2>1 DEF ReconnectBegin, Running, Codes, Places
  <2>2. CASE ReconnectSuccess(s)
    BY <2>2 DEF ReconnectSuccess, Running, Codes, Places
  <2>3. CASE TellDisconnect(s)
    BY <2>3 DEF TellDisconnect, Running, Codes, Places
  <2>4. QED
    BY <2>1, <2>2, <2>3
<1>2. Turns' /\ work' \in [Sessions -> Places]
  BY <1>1, WorkTurns
<1>3. FlagHonest' /\ flag' \in BOOLEAN /\ told' \in [Sessions -> Codes]
  BY <1>1, WorkFlag
<1>4. SessionTypeOK'
  BY <1>1, <1>2, <1>3 DEF PushInv, SessionTypeOK
<1>5. \A r \in Sessions : Session(r)'
  <2>1. ASSUME NEW r \in Sessions, r # s PROVE Session(r)'
    BY <1>1, <2>1, OthersKeep DEF PushInv, SessionTypeOK, Goto, Tell
  <2>2. Session(s)'
    <3>1. /\ work'[s] = place /\ told'[s] = code /\ status'[s] = status[s]
          /\ asked'[s] = asked[s]
      BY <1>1 DEF Goto, Tell, PushInv, SessionTypeOK
    <3>2. Session(s)
      BY DEF PushInv, Session
    <3>3. QED
      BY <1>1, <3>1, <3>2 DEF Session, Attempts, Heard, Stops, Early, Setting, Working, Closing, Leaving
  <2>3. QED
    BY <2>1, <2>2
<1>6. QED
  BY <1>2, <1>3, <1>4, <1>5 DEF PushInv, Session

LEMMA EndSendSteps ==
  ASSUME PushInv, NEW s \in Sessions, EndSend(s)
  PROVE  PushInv'
<1>1. /\ Goto(s, "close") /\ Running(s) /\ work[s] = "stopped"
      /\ IF status[s] = "stop_send" THEN Quiet ELSE Tell(s, "stop_send_abnormal")
      /\ status' = [status EXCEPT ![s] = "disconnect_status"]
      /\ UNCHANGED <<pConfig, allocated, config, attempt, asked>>
  BY DEF EndSend, Running
<1>2. Turns' /\ work' \in [Sessions -> Places]
  BY <1>1, WorkTurns DEF Places
<1>3. FlagHonest' /\ flag' \in BOOLEAN /\ told' \in [Sessions -> Codes]
  BY <1>1, WorkFlag, QuietFlag DEF Codes
<1>4. SessionTypeOK'
  BY <1>1, <1>2, <1>3 DEF PushInv, SessionTypeOK, Statuses
<1>5. \A r \in Sessions : Session(r)'
  <2>1. ASSUME NEW r \in Sessions, r # s PROVE Session(r)'
    BY <1>1, <2>1, OthersKeep DEF PushInv, SessionTypeOK, Goto, Tell, Quiet
  <2>2. Session(s)'
    <3>1. /\ work'[s] = "close" /\ status'[s] = "disconnect_status" /\ asked'[s] = asked[s]
          /\ told'[s] = IF status[s] = "stop_send" THEN told[s] ELSE "stop_send_abnormal"
      BY <1>1 DEF Goto, Tell, Quiet, PushInv, SessionTypeOK
    <3>2. Session(s)
      BY DEF PushInv, Session
    <3>3. QED
      BY <1>1, <3>1, <3>2 DEF Session, Attempts, Heard, Stops, Early, Setting, Working, Closing, Leaving
  <2>3. QED
    BY <2>1, <2>2
<1>6. QED
  BY <1>2, <1>3, <1>4, <1>5 DEF PushInv, Session

LEMMA TeardownSteps ==
  ASSUME PushInv, NEW s \in Sessions, CloseRTMP(s) \/ FreeBufferConfig(s)
  PROVE  PushInv'
<1>1. PICK place \in {"free", "tell"} :
      /\ Goto(s, place) /\ Running(s) /\ work[s] \in Closing /\ Quiet
      /\ status' = status \/ status' = [status EXCEPT ![s] = "disconnect_status"]
      /\ config' \subseteq config
      /\ UNCHANGED <<pConfig, allocated, attempt, asked>>
  BY DEF CloseRTMP, FreeBufferConfig, Running, Closing
<1>2. Turns' /\ work' \in [Sessions -> Places]
  BY <1>1, WorkTurns DEF Places
<1>3. FlagHonest' /\ flag' \in BOOLEAN /\ told' \in [Sessions -> Codes]
  BY <1>1, QuietFlag
<1>4. SessionTypeOK'
  BY <1>1, <1>2, <1>3 DEF PushInv, SessionTypeOK, Statuses
<1>5. \A r \in Sessions : Session(r)'
  <2>1. ASSUME NEW r \in Sessions, r # s PROVE Session(r)'
    BY <1>1, <2>1, OthersKeep DEF PushInv, SessionTypeOK, Goto, Quiet
  <2>2. Session(s)'
    <3>1. /\ work'[s] = place /\ asked'[s] = asked[s] /\ told'[s] = told[s]
          /\ status'[s] \in {status[s], "disconnect_status"}
      BY <1>1 DEF Goto, Quiet, PushInv, SessionTypeOK
    <3>2. Session(s)
      BY DEF PushInv, Session
    <3>3. QED
      BY <1>1, <3>1, <3>2 DEF Session, Attempts, Heard, Stops, Early, Setting, Working, Closing, Leaving
  <2>3. QED
    BY <2>1, <2>2
<1>6. QED
  BY <1>2, <1>3, <1>4, <1>5 DEF PushInv, Session

(* The thread frees its own session, for nobody else can be running.       *)
LEMMA UninitSteps ==
  ASSUME PushInv, NEW s \in Sessions, Uninit(s)
  PROVE  PushInv'
<1>1. /\ Goto(s, "ended") /\ Running(s) /\ work[s] = "relieve" /\ Quiet
      /\ allocated' = allocated \ {pConfig} /\ pConfig' = 0
      /\ UNCHANGED <<config, status, attempt, asked>>
  BY DEF Uninit, Running
<1>2. \A r \in Sessions : work'[r] = IF r = s THEN "ended" ELSE work[r]
  BY <1>1 DEF Goto, PushInv, SessionTypeOK
<1>3. \A r \in Sessions : ~Running(r)'
  BY <1>1, <1>2, Alone DEF Running
<1>4. Turns'
  <2>1. \A r, q \in Sessions : r < q /\ work'[q] # "none" => work'[r] # "none"
    <3> SUFFICES ASSUME NEW r \in Sessions, NEW q \in Sessions, r < q, work'[q] # "none"
        PROVE  work'[r] # "none"
      OBVIOUS
    <3>1. work[q] # "none"
      BY <1>1, <1>2
    <3>2. work[r] # "none"
      BY <3>1 DEF PushInv, Turns
    <3>3. QED
      BY <1>2, <3>2
  <2>2. ThreadOwnsSession'
    BY <1>1, <1>3 DEF ThreadOwnsSession
  <2>3. QED
    BY <1>3, <2>1, <2>2 DEF Turns
<1>5. FlagHonest' /\ flag' \in BOOLEAN /\ told' \in [Sessions -> Codes]
  BY <1>1, QuietFlag
<1>6. SessionTypeOK'
  <2>1. work' \in [Sessions -> Places] /\ allocated' \subseteq Sessions /\ pConfig' \in 0..MaxSessions
    BY <1>1, PushConstants DEF PushInv, SessionTypeOK, Goto, Places
  <2>2. QED
    BY <1>1, <1>5, <2>1 DEF PushInv, SessionTypeOK
<1>7. \A r \in Sessions : Session(r)'
  <2>1. ASSUME NEW r \in Sessions, r # s PROVE Session(r)'
    BY <1>1, <2>1, OthersKeep DEF PushInv, SessionTypeOK, Goto, Quiet
  <2>2. Session(s)'
    <3>1. /\ work'[s] = "ended" /\ asked'[s] = asked[s] /\ told'[s] = told[s]
          /\ status'[s] = status[s]
      BY <1>1 DEF Goto, Quiet, PushInv, SessionTypeOK
    <3>2. Session(s)
      BY DEF PushInv, Session
    <3>3. QED
      BY <1>1, <3>1, <3>2 DEF Session, Attempts, Heard, Stops, Early, Setting, Working, Closing, Leaving
  <2>3. QED
    BY <2>1, <2>2
<1>8. QED
  BY <1>4, <1>5, <1>6, <1>7 DEF PushInv, Session

LEMMA StartSteps ==
  ASSUME PushInv, NEW s \in Sessions, Librtmp_start(s)
  PROVE  PushInv'
<1>1. PICK place \in {"begin", "unborn"} :
      /\ Goto(s, place) /\ work[s] = "none" /\ Quiet
      /\ \A r \in 1..(s - 1) : work[r] \in {"ended", "unborn"}
      /\ pConfig' = s /\ allocated' = allocated \cup {s} /\ config' = config \cup {s}
      /\ UNCHANGED <<status, attempt, asked>>
  BY DEF Librtmp_start
<1>2. \A r \in Sessions : work'[r] = IF r = s THEN place ELSE work[r]
  BY <1>1 DEF Goto, PushInv, SessionTypeOK
<1>3. \A r \in Sessions : r < s => r \in 1..(s - 1)
  BY DEF Sessions
<1>4. \A r \in Sessions : s < r => work[r] = "none"
  BY <1>1 DEF PushInv, Turns
<1>5. \A r \in Sessions : r # s => ~Running(r)'
  <2> SUFFICES ASSUME NEW r \in Sessions, r # s PROVE ~Running(r)'
    OBVIOUS
  <2>1. r < s \/ s < r
    BY DEF Sessions
  <2>2. QED
    BY <1>1, <1>2, <1>3, <1>4, <2>1 DEF Running
<1>6. Turns'
  <2>1. ASSUME NEW r \in Sessions, NEW q \in Sessions, r < q, work'[q] # "none"
        PROVE  ~Running(r)' /\ work'[r] # "none"
    <3>1. CASE q = s
      BY <1>1, <1>2, <1>3, <2>1, <3>1 DEF Running
    <3>2. CASE q # s
      BY <1>1, <1>2, <2>1, <3>2, <1>5 DEF PushInv, Turns
    <3>3. QED
      BY <3>1, <3>2
  <2>2. ThreadOwnsSession'
    BY <1>1, <1>5 DEF ThreadOwnsSession
  <2>3. QED
    BY <2>1, <2>2 DEF Turns
<1>7. FlagHonest' /\ flag' \in BOOLEAN /\ told' \in [Sessions -> Codes]
  BY <1>1, QuietFlag
<1>8. SessionTypeOK'
  BY <1>1, <1>7 DEF PushInv, SessionTypeOK, Goto, Places, Sessions
<1>9. \A r \in Sessions : Session(r)'
  <2>1. ASSUME NEW r \in Sessions, r # s PROVE Session(r)'
    BY <1>1, <2>1, OthersKeep DEF PushInv, SessionTypeOK, Goto, Quiet
  <2>2. Session(s)'
    <3>1. /\ work'[s] = place /\ asked'[s] = asked[s] /\ told'[s] = told[s]
          /\ status'[s] = status[s] /\ attempt'[s] = attempt[s]
      BY <1>1 DEF Goto, Quiet, PushInv, SessionTypeOK
    <3>2. Session(s)
      BY DEF PushInv, Session
    <3>3. QED
      BY <1>1, <3>1, <3>2 DEF Session, Attempts, Heard, Stops, Early, Setting, Working, Closing, Leaving
  <2>3. QED
    BY <2>1, <2>2
<1>10. QED
  BY <1>6, <1>7, <1>8, <1>9 DEF PushInv, Session

LEMMA StopSteps ==
  ASSUME PushInv, StopSend
  PROVE  PushInv'
<1>1. PICK s \in Sessions : s = pConfig
  BY DEF StopSend, PushInv, SessionTypeOK
<1>2. /\ status' = [status EXCEPT ![s] =
                      IF @ = "send_status" THEN "stop_send" ELSE "disconnect_status"]
      /\ asked' = [asked EXCEPT ![s] =
                     IF status[s] = "send_status" THEN 1
                     ELSE IF work[s] \in Working THEN 2 ELSE @]
      /\ Quiet /\ UNCHANGED <<pConfig, allocated, config, work, attempt>>
  BY <1>1 DEF StopSend, Working
<1>3. FlagHonest' /\ flag' \in BOOLEAN /\ told' \in [Sessions -> Codes]
  BY <1>2, QuietFlag
<1>4. Turns'
  BY <1>2 DEF PushInv, Turns, ThreadOwnsSession, Running
<1>5. Session(s)
  BY DEF PushInv, Session
<1>6. asked'[s] = IF status[s] = "send_status" THEN 1 ELSE IF work[s] \in Working THEN 2 ELSE asked[s]
  BY <1>2 DEF PushInv, SessionTypeOK
<1>7. SessionTypeOK'
  <2>1. status' \in [Sessions -> Statuses]
    BY <1>2 DEF PushInv, SessionTypeOK, Statuses
  <2>2. asked' \in [Sessions -> 0..2]
    BY <1>2, <1>6 DEF PushInv, SessionTypeOK
  <2>3. QED
    BY <1>2, <1>3, <2>1, <2>2 DEF PushInv, SessionTypeOK
<1>8. \A r \in Sessions : Session(r)'
  <2>1. ASSUME NEW r \in Sessions, r # s PROVE Session(r)'
    BY <1>2, <2>1, OthersKeep DEF PushInv, SessionTypeOK, Quiet
  <2>2. Session(s)'
    <3>1. /\ work'[s] = work[s] /\ told'[s] = told[s] /\ attempt'[s] = attempt[s]
          /\ status'[s] = IF status[s] = "send_status" THEN "stop_send" ELSE "disconnect_status"
      BY <1>2 DEF Quiet, PushInv, SessionTypeOK
    <3>2. QED
      BY <1>5, <1>6, <3>1 DEF Session, Attempts, Heard, Stops, Early, Setting, Working, Closing, Leaving
  <2>3. QED
    BY <2>1, <2>2
<1>9. QED
  BY <1>3, <1>4, <1>7, <1>8 DEF PushInv, Session

LEMMA SessionStart == SessionInit => PushInv
<1> SUFFICES ASSUME SessionInit PROVE PushInv
  OBVIOUS
<1>1. SessionTypeOK /\ told \in [Sessions -> Codes]
  <2>1. work \in [Sessions -> Places] /\ told \in [Sessions -> Codes] /\ status \in [Sessions -> Statuses]
    BY DEF SessionInit, Places, Codes, Statuses
  <2>2. attempt \in [Sessions -> 0..MaxAttempts] /\ asked \in [Sessions -> 0..2]
    <3>1. 0 \in 0..MaxAttempts /\ 0 \in 0..2
      BY PushConstants
    <3>2. QED
      BY <3>1 DEF SessionInit
  <2>3. 0 \in 0..MaxSessions
    BY PushConstants
  <2>4. QED
    BY <2>1, <2>2, <2>3 DEF SessionInit, SessionTypeOK
<1>2. \A s \in Sessions : work[s] = "none" /\ told[s] = "init_status"
                          /\ asked[s] = 0 /\ attempt[s] = 0 /\ status[s] = "init_status"
  BY DEF SessionInit
<1>3. \A s \in Sessions : Attempts(s) /\ Heard(s) /\ Stops(s)
  BY <1>2 DEF Attempts, Heard, Stops, Setting, Working, Closing, Leaving
<1>4. Turns /\ FlagHonest
  BY <1>2 DEF Turns, ThreadOwnsSession, Running, FlagHonest, SessionInit
<1>5. QED
  BY <1>1, <1>3, <1>4 DEF PushInv

(* Which of the two kinds of step an action of connectRtmp or StartSend is. *)
LEMMA WorkerMoves ==
  ASSUME PushInv, NEW s \in Sessions,
         \/ TryAgain(s) \/ SendHeaders(s) \/ CheckState(s) \/ ReconnectFail(s)
         \/ SeeStop(s) \/ Silence(s) \/ Move(s, "begin", "connect")
  PROVE  PushInv'
<1>1. PICK from \in Places, place \in Places :
        /\ Move(s, from, place)
        /\ \/ <<from, place>> \in {<<"begin", "connect">>, <<"headers", "check">>,
                <<"headers", "close">>, <<"check", "start">>, <<"check", "close">>,
                <<"reconnect", "stopped">>, <<"control", "stopped">>}
           \/ from = "again" /\ place = "connect" /\ attempt[s] < MaxAttempts
  BY DEF TryAgain, SendHeaders, CheckState, ReconnectFail, SeeStop, Silence, Places
<1>2. Running(s)
  BY <1>1 DEF Move, Running
<1>3. QED
  BY <1>1, <1>2, MoveSteps

LEMMA WorkerReports ==
  ASSUME PushInv, NEW s \in Sessions,
         \/ work[s] = "begin" /\ Report(s, "connect_fail", "close")
         \/ ConnectFail(s) \/ ConnectSuccess(s) \/ StartSend(s)
  PROVE  PushInv'
<1>1. PICK code \in {"connect_fail", "connect_success", "send_status"}, place \in Places :
        /\ Report(s, code, place)
        /\ \/ /\ work[s] \in {"begin", "connect", "again"}
              /\ <<code, place>> \in {<<"connect_fail", "close">>, <<"connect_success", "headers">>}
           \/ work[s] = "start" /\ code = "send_status" /\ place = "control"
  BY DEF ConnectFail, ConnectSuccess, StartSend, Places
<1>2. Running(s) /\ (work[s] \in {"begin", "connect", "again"} => work[s] \in Early /\ asked[s] = 0)
  BY <1>1 DEF PushInv, Heard, Running, Early
<1>3. QED
  BY <1>1, <1>2, ReportSteps

LEMMA SessionStep == PushInv /\ [SessionNext]_sessionVars => PushInv'
<1> SUFFICES ASSUME PushInv, [SessionNext]_sessionVars PROVE PushInv'
  OBVIOUS
<1>1. CASE UNCHANGED sessionVars
  BY <1>1 DEF sessionVars, PushInv, SessionTypeOK, Turns, ThreadOwnsSession, Running, Attempts, Heard,
              Stops, FlagHonest
<1>2. ASSUME NEW s \in Sessions, Worker(s) PROVE PushInv'
  BY <1>2, WorkerMoves, WorkerReports, AttemptSteps, TellSteps, EndSendSteps, TeardownSteps,
     UninitSteps
  DEF Worker, Attempt, RequestAccess, Loop, Teardown
<1>3. QED
  BY <1>1, <1>2, StopSteps, StartSteps DEF SessionNext

LEMMA PushInvariant == SessionSpec => []PushInv
  BY SessionStart, SessionStep, PTL DEF SessionSpec

(* The types of a session, for any number of sessions and of attempts.     *)
THEOREM SessionTypes == SessionSpec => []SessionTypeOK
<1>1. PushInv => SessionTypeOK
  BY DEF PushInv
<1>2. QED
  BY <1>1, PushInvariant, PTL

(* The work thread has its session until its last callback, although one   *)
(* global pointer serves all sessions, and the encoders are let through    *)
(* exactly while the listener was last told that a session sends.          *)
THEOREM SessionSafe == SessionSpec => []PushSafe
<1>1. PushInv => PushSafe
  BY DEF PushInv, Turns, PushSafe
<1>2. QED
  BY <1>1, PushInvariant, PTL
-----------------------------------------------------------------------------
(* What the listener hears                                                 *)

LEMMA AfterValues ==
  /\ Life!After["init_status"] = {"connect_fail", "connect_success"}
  /\ Life!After["connect_fail"] = {"disconnect_status"}
  /\ Life!After["connect_success"] = {"send_status", "disconnect_status"}
  /\ Life!After["send_status"] = {"reconnect_begin", "stop_send_abnormal"}
  /\ Life!After["reconnect_begin"] = {"reconnect_success", "stop_send_abnormal"}
  /\ Life!After["reconnect_success"] = {"reconnect_begin", "stop_send_abnormal"}
  /\ Life!After["stop_send_abnormal"] = {"disconnect_status"}
  BY DEF Life!After

(* What a step of a work thread tells is what SessionLife lets it tell.    *)
LEMMA TellLife ==
  ASSUME PushInv, NEW s \in Sessions, Worker(s)
  PROVE  Life!Tell(s) \/ UNCHANGED <<told, asked>>
<1> USE AfterValues DEF PushInv, Heard, Stops, Early, Setting, Working, Closing, Tell, Report
<1>1. CASE RequestAccess(s) \/ ConnectFail(s) \/ ConnectSuccess(s)
  BY <1>1 DEF RequestAccess, ConnectFail, ConnectSuccess, Move, Quiet, Life!Tell
<1>2. CASE StartSend(s)
  BY <1>2 DEF StartSend, Life!Tell
<1>3. CASE ReconnectBegin(s) \/ ReconnectSuccess(s)
  BY <1>3 DEF ReconnectBegin, ReconnectSuccess, Life!Tell
<1>4. CASE EndSend(s)
  BY <1>4 DEF EndSend, Quiet, Life!Tell, Life!Sending
<1>5. CASE TellDisconnect(s)
  BY <1>5 DEF TellDisconnect, Life!Tell, Life!Sending
<1>6. CASE \/ AttemptFails(s) \/ TryAgain(s) \/ SendHeaders(s) \/ CheckState(s) \/ Silence(s)
           \/ SeeStop(s) \/ ReconnectFail(s) \/ CloseRTMP(s) \/ FreeBufferConfig(s) \/ Uninit(s)
  BY <1>6 DEF AttemptFails, TryAgain, SendHeaders, CheckState, Silence, SeeStop, ReconnectFail,
              CloseRTMP, FreeBufferConfig, Uninit, Move, Quiet
<1>7. QED
  BY <1>1, <1>2, <1>3, <1>4, <1>5, <1>6 DEF Worker, Attempt, Loop, Teardown

LEMMA AskLife ==
  ASSUME PushInv, StopSend
  PROVE  (\E s \in Sessions : Life!Ask(s)) \/ UNCHANGED <<told, asked>>
<1>1. PICK s \in Sessions : s = pConfig
  BY DEF StopSend, PushInv, SessionTypeOK
<1>2. /\ asked' = [asked EXCEPT ![s] =
                     IF status[s] = "send_status" THEN 1
                     ELSE IF work[s] \in Working THEN 2 ELSE @]
      /\ told' = told
  BY <1>1 DEF StopSend, Working, Quiet
<1>3. Stops(s) /\ Heard(s)
  BY DEF PushInv
<1>4. CASE work[s] \in Working
  <2>1. told[s] \in Life!Sending
    BY <1>3, <1>4 DEF Heard, Working, Life!Sending
  <2>2. asked' = [asked EXCEPT ![s] = IF @ = 0 THEN 1 ELSE 2]
    <3> DEFINE new == IF asked[s] = 0 THEN 1 ELSE 2
    <3>1. (IF status[s] = "send_status" THEN 1 ELSE IF work[s] \in Working THEN 2 ELSE asked[s]) = new
      BY <1>3, <1>4 DEF Stops
    <3>2. asked' = [asked EXCEPT ![s] = new]
      BY <1>2, <3>1
    <3>3. QED
      BY <3>2
  <2>3. QED
    BY <1>2, <2>1, <2>2 DEF Life!Ask
<1>5. CASE work[s] \notin Working
  BY <1>2, <1>3, <1>5 DEF Stops, PushInv, SessionTypeOK
<1>6. QED
  BY <1>4, <1>5

(* The listener hears of a session in order, of its end once and last, and *)
(* of an abnormal end only when the user did not stop it by one stop.      *)
THEOREM SessionImplementsLife == SessionSpec => ImplementsLife
<1>1. SessionInit => Life!Init
  BY DEF SessionInit, Life!Init
<1>2. PushInv /\ [SessionNext]_sessionVars =>
        [\E s \in Sessions : Life!Ask(s) \/ Life!Tell(s)]_<<told, asked>>
  BY TellLife, AskLife DEF SessionNext, Librtmp_start, Quiet, sessionVars
<1>3. QED
  BY <1>1, <1>2, PushInvariant, PTL DEF SessionSpec, ImplementsLife, Life!Spec

(* A stop of a sending session is never undone by what connects, sends or  *)
(* closes at the same time.                                                *)
THEOREM SessionStopSticks == SessionSpec => StopSticks
<1>1. PushInv /\ PushInv' /\ [SessionNext]_sessionVars =>
        [\A s \in Sessions : asked[s] > 0 => status'[s] \in {"stop_send", "disconnect_status"}]_sessionVars
  <2> SUFFICES ASSUME PushInv, PushInv', SessionNext, NEW s \in Sessions, asked[s] > 0
      PROVE  status'[s] \in {"stop_send", "disconnect_status"}
    OBVIOUS
  <2>1. asked'[s] > 0
    <3>1. asked' = asked \/ StopSend
      BY DEF SessionNext, Librtmp_start, Worker, Attempt, RequestAccess, AttemptFails, TryAgain, ConnectFail,
             ConnectSuccess, SendHeaders, CheckState, StartSend, ReconnectBegin, Silence, Loop,
             SeeStop, ReconnectFail, ReconnectSuccess, EndSend, Teardown, CloseRTMP,
             FreeBufferConfig, TellDisconnect, Uninit, Report, Move
    <3>2. CASE StopSend
      BY <3>2 DEF StopSend, PushInv, SessionTypeOK
    <3>3. QED
      BY <3>1, <3>2
  <2>2. Stops(s)'
    BY DEF PushInv
  <2>3. QED
    BY <2>1, <2>2 DEF Stops
<1>2. QED
  BY <1>1, PushInvariant, PTL DEF SessionSpec, StopSticks
-----------------------------------------------------------------------------
(* The network check of SdtCore                                            *)

Ascending(s) == \A i, j \in DOMAIN s : i < j => s[i] < s[j]
Held(s)      == {s[i] : i \in DOMAIN s}

SdtTypes ==
  /\ checks \in 0..MaxChecks /\ checking \in BOOLEAN /\ cancel \in BOOLEAN
  /\ thread \in {"off", "start", "loop", "reset", "ending"} /\ core \in {"up", "going", "gone"}
  /\ check_list \in Seq({checks}) /\ left \in Seq(Nat) /\ reported \in Seq(1..checks)
  /\ Len(check_list) <= MaxCheckers /\ Len(left) <= MaxCheckers

(* A core is busy with the check its thread runs, or for good with one     *)
(* that was accepted while the thread was on its way out.                  *)
Busy ==
  /\ thread \in {"start", "loop", "reset"} => checking /\ lost = {}
  /\ ~checking => check_list = <<>>
  /\ lost \in {{}, {checks}}
  /\ lost # {} => thread \in {"ending", "off"} /\ (core = "up" => checking)
  /\ checking /\ thread \in {"off", "ending"} => lost # {}

(* The reports so far, and the one that the thread is still to make.       *)
ReportsSoFar ==
  /\ Ascending(reported)
  /\ thread \in {"start", "loop"} => checks >= 1 /\ checks \notin Held(reported)
  /\ \A c \in 1..checks : \/ c \in lost \cup Held(reported)
                          \/ c = checks /\ thread \in {"start", "loop"}

SdtInv == SdtTypes /\ Busy /\ ReportsSoFar

LEMMA Nothing ==
  /\ \A S : <<>> \in Seq(S)
  /\ Len(<<>>) = 0 /\ Held(<<>>) = {} /\ Ascending(<<>>)
<1>1. \A S : <<>> \in Seq(S)
  OBVIOUS
<1>2. Len(<<>>) = 0 /\ DOMAIN <<>> = {}
  OBVIOUS
<1> QED BY <1>1, <1>2 DEF Held, Ascending

LEMMA Appended ==
  ASSUME NEW S, NEW s \in Seq(S), NEW e \in S
  PROVE  /\ Append(s, e) \in Seq(S) /\ Len(Append(s, e)) = Len(s) + 1
         /\ Held(Append(s, e)) = Held(s) \cup {e}
         /\ Ascending(s) /\ (\A a \in Held(s) : a < e) => Ascending(Append(s, e))
<1> DEFINE t == Append(s, e)
<1>1. /\ t \in Seq(S) /\ Len(t) = Len(s) + 1 /\ t[Len(s) + 1] = e
      /\ \A i \in 1..Len(s) : t[i] = s[i]
  BY AppendProperties
<1>2. DOMAIN s = 1..Len(s) /\ DOMAIN t = 1..(Len(s) + 1) /\ Len(s) \in Nat
  BY <1>1, LenProperties
<1> HIDE DEF t
<1>3. Held(t) = Held(s) \cup {e}
  <2>1. ASSUME NEW a \in Held(t) PROVE a \in Held(s) \cup {e}
    BY <2>1, <1>1, <1>2 DEF Held
  <2>2. ASSUME NEW a \in Held(s) PROVE a \in Held(t)
    BY <2>2, <1>1, <1>2 DEF Held
  <2>3. e \in Held(t)
    BY <1>1, <1>2 DEF Held
  <2> QED BY <2>1, <2>2, <2>3
<1>4. ASSUME Ascending(s), \A a \in Held(s) : a < e PROVE Ascending(t)
  BY <1>1, <1>2, <1>4 DEF Ascending, Held
<1> QED BY <1>1, <1>3, <1>4 DEF t

LEMMA SdtStarts == Sdt!Init => SdtInv
<1> SUFFICES ASSUME Sdt!Init PROVE SdtInv
  OBVIOUS
<1> USE MachinesAssumption, Nothing DEF Sdt!Init
<1>0. <<>> \in Seq({checks}) /\ <<>> \in Seq(Nat) /\ <<>> \in Seq(1..checks)
  OBVIOUS
<1>1. SdtTypes
  <2>1. check_list \in Seq({checks}) /\ left \in Seq(Nat) /\ reported \in Seq(1..checks)
    BY <1>0
  <2>2. Len(check_list) <= MaxCheckers /\ Len(left) <= MaxCheckers
    OBVIOUS
  <2>3. checks \in 0..MaxChecks
    OBVIOUS
  <2>4. QED
    BY <2>1, <2>2, <2>3 DEF SdtTypes
<1>2. Busy BY DEF Busy
<1>3. ReportsSoFar BY DEF ReportsSoFar
<1> QED BY <1>1, <1>2, <1>3 DEF SdtInv

(* The numbers of a list stay in their range when it is longer.            *)
LEMMA SdtCheckStarts ==
  ASSUME SdtInv, NEW n \in 0..MaxCheckers, Sdt!StartCheck(n)
  PROVE  SdtInv'
<1> DEFINE new == [i \in 1..n |-> checks + 1]
<1> USE MachinesAssumption DEF SdtInv, Sdt!StartCheck, Sdt!Request
<1>1. check_list = <<>> /\ new \in Seq({checks + 1}) /\ Len(new) = n
  BY DEF Busy, SdtTypes
<1>2. check_list' = new
  BY <1>1, ConcatEmptySeq
<1>3. SdtTypes'
  <2>1. reported \in Seq(1..(checks + 1))
    BY SeqMonotonic DEF SdtTypes
  <2>2. QED
    BY <1>1, <1>2, <2>1 DEF SdtTypes
<1>4. Busy'
  BY <1>1 DEF Busy, SdtTypes
<1>5. ReportsSoFar'
  <2>1. \A i \in DOMAIN reported : reported[i] \in 1..checks
    BY DEF SdtTypes
  <2>2. checks + 1 \notin Held(reported)
    BY <2>1 DEF SdtTypes, Held
  <2>3. thread \notin {"start", "loop"} /\ (thread' = "start" \/ lost' = lost \cup {checks + 1})
    BY DEF Busy, SdtTypes
  <2>4. QED
    BY <2>2, <2>3 DEF ReportsSoFar, SdtTypes
<1> QED BY <1>3, <1>4, <1>5

LEMMA EmptyFits == <<>> \in Seq({checks}) /\ Len(<<>>) <= MaxCheckers
<1>1. <<>> \in Seq({checks}) /\ Len(<<>>) = 0
  OBVIOUS
<1> QED BY <1>1, MachinesAssumption

LEMMA SdtStep == SdtInv /\ [Sdt!Next]_sdtVars => SdtInv'
<1> SUFFICES ASSUME SdtInv, [Sdt!Next]_sdtVars PROVE SdtInv'
  OBVIOUS
<1> USE DEF SdtInv, SdtTypes, Busy, ReportsSoFar
<1>1. CASE Sdt!CancelCheck
  BY <1>1 DEF Sdt!CancelCheck
<1>2. CASE Sdt!Destroy
  <2>1. /\ UNCHANGED <<thread, left, checks, reported, lost>> /\ cancel' = TRUE
        /\ core' \in {"gone", "going"} /\ checking' \in BOOLEAN
        /\ check_list' \in {<<>>, check_list} /\ (~checking' => check_list' = <<>>)
        /\ thread # "off" => checking' = checking
        /\ thread = "off" => ~checking'
    BY <1>2 DEF Sdt!Destroy
  <2>2. check_list' \in Seq({checks}) /\ Len(check_list') <= MaxCheckers
    BY <2>1, EmptyFits
  <2>3. SdtTypes' /\ Busy' /\ ReportsSoFar'
    BY <2>1, <2>2
  <2> QED BY <2>3
<1>3. CASE Sdt!Joined
  BY <1>3 DEF Sdt!Joined
<1>4. CASE Sdt!Begin
  <2>1. check_list \in Seq(Nat)
    BY SeqMonotonic
  <2>2. QED
    BY <1>4, <2>1 DEF Sdt!Begin
<1>5. CASE Sdt!Check
  <2>1. Tail(left) \in Seq(Nat) /\ Len(Tail(left)) = Len(left) - 1
    BY <1>5, HeadTailProperties DEF Sdt!Check, Sdt!Over
  <2>2. Len(left) \in Nat /\ left' = Tail(left)
    BY <1>5, LenProperties DEF Sdt!Check
  <2>3. Len(left') <= MaxCheckers
    BY <2>1, <2>2, MachinesAssumption
  <2>4. QED
    BY <1>5, <2>1, <2>2, <2>3 DEF Sdt!Check
<1>6. CASE Sdt!Report
  <2>1. /\ reported' = Append(reported, checks) /\ reported \in Seq(1..checks) /\ checks \in 1..checks
        /\ thread = "loop" /\ thread' = "reset"
        /\ UNCHANGED <<checking, cancel, check_list, left, checks, lost, core>>
    BY <1>6 DEF Sdt!Report
  <2>2. \A a \in Held(reported) : a < checks
    BY <2>1 DEF Held
  <2>3. Ascending(reported') /\ Held(reported') = Held(reported) \cup {checks}
        /\ reported' \in Seq(1..checks)
    <3> DEFINE r == Append(reported, checks)
    <3>1. Ascending(r) /\ Held(r) = Held(reported) \cup {checks} /\ r \in Seq(1..checks)
      <4>1. Ascending(reported)
        OBVIOUS
      <4> HIDE DEF SdtInv, SdtTypes, Busy, ReportsSoFar
      <4>2. QED
        BY <2>1, <2>2, <4>1, Appended
    <3>2. QED
      BY <2>1, <3>1
  <2>4. QED
    BY <2>1, <2>3
<1>7. CASE Sdt!Reset
  <2>1. check_list' = <<>> /\ <<>> \in Seq({checks}) /\ Len(<<>>) <= MaxCheckers
    BY <1>7, EmptyFits DEF Sdt!Reset
  <2>2. QED
    BY <1>7, <2>1 DEF Sdt!Reset
<1>8. CASE Sdt!End
  BY <1>8 DEF Sdt!End
<1>9. CASE UNCHANGED sdtVars
  BY <1>9 DEF sdtVars
<1> QED
  BY <1>1, <1>2, <1>3, <1>4, <1>5, <1>6, <1>7, <1>8, <1>9, SdtCheckStarts
     DEF Sdt!Next, Sdt!Calls, Sdt!Thread

(* What the run checks of the network check follows.                       *)
LEMMA SdtSafe == SdtInv => Sdt!TypeOK /\ Sdt!ListIsOwn /\ Sdt!BusyHasThread /\ Sdt!EveryCheckReports
<1> SUFFICES ASSUME SdtInv PROVE Sdt!TypeOK /\ Sdt!ListIsOwn /\ Sdt!BusyHasThread /\ Sdt!EveryCheckReports
  OBVIOUS
<1> USE DEF SdtInv, SdtTypes, Busy, ReportsSoFar
<1>1. Sdt!TypeOK BY DEF Sdt!TypeOK
<1>2. Sdt!ListIsOwn BY DEF Sdt!ListIsOwn
<1>3. Sdt!BusyHasThread BY DEF Sdt!BusyHasThread
<1>4. Sdt!EveryCheckReports BY DEF Sdt!EveryCheckReports, Ascending, Held
<1> QED BY <1>1, <1>2, <1>3, <1>4
-----------------------------------------------------------------------------
(* The periodic check of the addresses                                     *)

(* What ActiveLogic signalled last is what the handler will do last, and   *)
(* what it has done when nothing is left to do.                            *)
Follows ==
  installed /\ active => IF inbox = <<>> THEN asyncpost ELSE inbox[Len(inbox)] = "start"

SourcesInv ==
  /\ active \in BOOLEAN /\ asyncpost \in BOOLEAN /\ joining \in BOOLEAN
  /\ installed \in BOOLEAN /\ broken \in BOOLEAN
  /\ inbox \in Seq({"start", "stop"})
  /\ net_thread \in {"off", "clear", "select"}
  /\ changes \in 0..MaxChanges /\ net_checks \in 0..MaxChecks
  /\ Sources!OnePeriodic
  /\ joining => asyncpost /\ installed
  /\ ~installed => ~asyncpost /\ net_thread = "off"
  /\ Follows

LEMMA SourcesStart == Sources!Init => SourcesInv
<1> SUFFICES ASSUME Sources!Init PROVE SourcesInv
  OBVIOUS
<1>1. inbox \in Seq({"start", "stop"}) /\ inbox # <<>> /\ inbox[Len(inbox)] = "start"
  BY DEF Sources!Init
<1>2. Follows /\ Sources!OnePeriodic
  BY <1>1 DEF Sources!Init, Follows, Sources!OnePeriodic
<1>3. /\ active = TRUE /\ asyncpost = FALSE /\ joining = FALSE /\ net_thread = "off"
      /\ broken = FALSE /\ installed = TRUE /\ changes = 0 /\ net_checks = 0
  BY DEF Sources!Init
<1>4. /\ active \in BOOLEAN /\ asyncpost \in BOOLEAN /\ joining \in BOOLEAN
      /\ installed \in BOOLEAN /\ broken \in BOOLEAN
  BY <1>3
<1>5. changes \in 0..MaxChanges /\ net_checks \in 0..MaxChecks
  BY <1>3, MachinesAssumption
<1> QED
  BY <1>1, <1>2, <1>3, <1>4, <1>5 DEF SourcesInv

LEMMA HandlerTakes ==
  ASSUME NEW call, Sources!Takes(call), SourcesInv
  PROVE  /\ inbox' \in Seq({"start", "stop"}) /\ Head(inbox) = call
         /\ inbox' # <<>> => inbox'[Len(inbox')] = inbox[Len(inbox)]
         /\ inbox' = <<>> => inbox[Len(inbox)] = call
         /\ installed /\ ~joining /\ inbox # <<>>
<1> DEFINE t == Tail(inbox)
<1>1. inbox # <<>> /\ inbox' = t /\ Head(inbox) = call /\ installed /\ ~joining
  BY DEF Sources!Takes
<1>2. inbox \in Seq({"start", "stop"})
  BY DEF SourcesInv
<1>3. /\ t \in Seq({"start", "stop"}) /\ Len(t) = Len(inbox) - 1
      /\ \A i \in 1..Len(t) : t[i] = inbox[i + 1]
  BY <1>1, <1>2, HeadTailProperties
<1>4. Len(inbox) \in Nat /\ Len(inbox) # 0 /\ Head(inbox) = inbox[1]
  BY <1>1, <1>2
<1> HIDE DEF t
<1>5. t # <<>> => Len(t) \in 1..Len(t) /\ t[Len(t)] = inbox[Len(inbox)]
  <2> SUFFICES ASSUME t # <<>> PROVE Len(t) \in 1..Len(t) /\ t[Len(t)] = inbox[Len(inbox)]
    OBVIOUS
  <2>1. Len(t) \in Nat /\ Len(t) # 0
    BY <1>3
  <2>2. QED
    BY <2>1, <1>3, <1>4
<1>6. t = <<>> => inbox[Len(inbox)] = call
  <2> SUFFICES ASSUME t = <<>> PROVE inbox[Len(inbox)] = call
    OBVIOUS
  <2>1. Len(t) = 0
    OBVIOUS
  <2>2. Len(inbox) = 1
    BY <2>1, <1>3, <1>4
  <2>3. QED
    BY <2>2, <1>4, <1>1
<1> QED BY <1>1, <1>3, <1>5, <1>6

LEMMA SourcesStep == SourcesInv /\ [Sources!Next]_sourcesVars => SourcesInv'
<1> SUFFICES ASSUME SourcesInv, [Sources!Next]_sourcesVars PROVE SourcesInv'
  OBVIOUS
<1> USE MachinesAssumption DEF SourcesInv, Follows, Sources!OnePeriodic
<1>1. CASE Sources!OnActiveChanged
  <2> DEFINE call == IF active THEN "stop" ELSE "start"
  <2>1. inbox' = Append(inbox, call) /\ call \in {"start", "stop"} /\ active' = ~active
        /\ changes' \in 0..MaxChanges
    BY <1>1 DEF Sources!OnActiveChanged, Sources!Change
  <2>2. inbox' \in Seq({"start", "stop"}) /\ inbox' # <<>> /\ inbox'[Len(inbox')] = call
    BY <2>1, AppendProperties
  <2>3. QED
    BY <1>1, <2>1, <2>2 DEF Sources!OnActiveChanged
<1>2. CASE Sources!CancelConnect
  BY <1>2 DEF Sources!CancelConnect, Sources!Change
<1>3. CASE Sources!Check
  BY <1>3 DEF Sources!Check
<1>4. CASE Sources!StartCheck
  <2>1. Sources!Takes("start")
    BY <1>4 DEF Sources!StartCheck
  <2>2. QED
    BY <1>4, <2>1, HandlerTakes DEF Sources!StartCheck
<1>5. CASE Sources!StopCheck
  <2>1. Sources!Takes("stop")
    BY <1>5 DEF Sources!StopCheck
  <2>2. joining' \in BOOLEAN /\ broken' \in BOOLEAN /\ (joining' => asyncpost)
    BY <1>5 DEF Sources!StopCheck
  <2>3. /\ UNCHANGED <<active, asyncpost, periodics, net_thread, installed, changes, net_checks>>
    BY <1>5 DEF Sources!StopCheck
  <2>4. QED
    BY <2>1, <2>2, <2>3, HandlerTakes
<1>6. CASE Sources!Joined
  <2>1. <<>> \in Seq({"start", "stop"})
    OBVIOUS
  <2>2. QED
    BY <1>6, <2>1 DEF Sources!Joined
<1>7. CASE Sources!Unheard
  <2>1. Tail(inbox) \in Seq({"start", "stop"})
    BY <1>7, HeadTailProperties DEF Sources!Unheard
  <2>2. QED
    BY <1>7, <2>1 DEF Sources!Unheard
<1>8. CASE Sources!RunsOn \/ Sources!Answer
  <2>1. /\ UNCHANGED <<active, inbox, asyncpost, periodics, joining, installed, changes, net_checks>>
        /\ net_thread # "off" /\ net_thread' \in {"off", "select"} /\ broken' \in {FALSE, broken}
    BY <1>8 DEF Sources!RunsOn, Sources!Answer, Sources!Clear, Sources!NoAddress, Sources!Broken,
                Sources!TimeOut, Sources!Run
  <2>2. QED
    BY <2>1
<1>9. CASE UNCHANGED sourcesVars
  BY <1>9 DEF sourcesVars
<1> QED
  BY <1>1, <1>2, <1>3, <1>4, <1>5, <1>6, <1>7, <1>8, <1>9 DEF Sources!Next, Sources!Handlers

LEMMA SourcesSafe == SourcesInv => Sources!TypeOK /\ Sources!OnePeriodic /\ Sources!ActiveIsChecked
BY DEF SourcesInv, Follows, Sources!TypeOK, Sources!OnePeriodic, Sources!ActiveIsChecked
-----------------------------------------------------------------------------
(* The machines side by side                                               *)

LEMMA Interleaved ==
  [MachinesNext]_all =>
    /\ [Next]_threadVars /\ [Block!Next]_blockVars /\ [File!Next]_fileVars
    /\ [SessionNext]_sessionVars /\ [Sdt!Next]_sdtVars /\ [Sources!Next]_sourcesVars
<1> SUFFICES ASSUME [MachinesNext]_all
    PROVE /\ [Next]_threadVars /\ [Block!Next]_blockVars /\ [File!Next]_fileVars
          /\ [SessionNext]_sessionVars /\ [Sdt!Next]_sdtVars /\ [Sources!Next]_sourcesVars
  OBVIOUS
<1>1. CASE Next /\ ThreadOnly
  BY <1>1 DEF ThreadOnly
<1>2. CASE Block!Next /\ BlockOnly
  BY <1>2 DEF BlockOnly
<1>3. CASE File!Next /\ FileOnly
  BY <1>3 DEF FileOnly
<1>4. CASE SessionNext /\ PushOnly
  BY <1>4 DEF PushOnly
<1>5. CASE Sdt!Next /\ SdtOnly
  BY <1>5 DEF SdtOnly
<1>6. CASE Sources!Next /\ SourcesOnly
  BY <1>6 DEF SourcesOnly
<1>7. CASE UNCHANGED all
  BY <1>7 DEF all
<1> QED
  BY <1>1, <1>2, <1>3, <1>4, <1>5, <1>6, <1>7 DEF MachinesNext

(* Side by side each machine behaves as its own module says, so that what  *)
(* is proved of a handle, a session or a file is true of the composition.  *)
THEOREM MachinesAreTheirModules ==
  MachinesSpec => Spec /\ SessionSpec /\ Block!Spec /\ File!Spec /\ Sdt!Spec /\ Sources!Spec
<1>1. MachinesInit => Init /\ SessionInit /\ Block!Init /\ File!Init /\ Sdt!Init /\ Sources!Init
  BY DEF MachinesInit
<1>2. /\ [Block!Next]_blockVars => [Block!Next]_(Block!vars)
      /\ [File!Next]_fileVars => [File!Next]_(File!fileVars)
      /\ [Sdt!Next]_sdtVars => [Sdt!Next]_(Sdt!sdtVars)
      /\ [Sources!Next]_sourcesVars => [Sources!Next]_(Sources!timerCheckVars)
  BY DEF blockVars, fileVars, sdtVars, sourcesVars, Block!vars, File!fileVars, Sdt!sdtVars,
         Sources!timerCheckVars
<1> QED
  BY <1>1, <1>2, Interleaved, PTL
     DEF MachinesSpec, Spec, SessionSpec, Block!Spec, File!Spec, Sdt!Spec, Sources!Spec

LEMMA ChecksHold == MachinesSpec => [](SdtInv /\ SourcesInv)
<1>1. MachinesInit => SdtInv /\ SourcesInv
  BY SdtStarts, SourcesStart DEF MachinesInit
<1>2. SdtInv /\ SourcesInv /\ [MachinesNext]_all => (SdtInv /\ SourcesInv)'
  BY Interleaved, SdtStep, SourcesStep
<1> QED BY <1>1, <1>2, PTL DEF MachinesSpec

(* Both kinds of check at every moment.  A network check has its own list  *)
(* and its own report; the addresses of an active application are checked  *)
(* by one periodic message, until a stop has found the thread at work.     *)
THEOREM MachinesChecksSafe == MachinesSpec => []ChecksSafe
<1>1. SdtInv /\ SourcesInv => ChecksSafe
  BY SdtSafe, SourcesSafe DEF ChecksSafe
<1> QED BY <1>1, ChecksHold, PTL
-----------------------------------------------------------------------------
(* The files of the appender: sequences of records                         *)

Distinct(s) == \A i, j \in DOMAIN s : s[i] = s[j] => i = j
Below(s, t) == \A a \in Held(s), b \in Held(t) : a < b

Begins(s, t) == \E r \in Seq(Nat) : t = s \o r

LEMMA Concatenated ==
  ASSUME NEW s \in Seq(Nat), NEW t \in Seq(Nat)
  PROVE  /\ s \o t \in Seq(Nat) /\ Held(s \o t) = Held(s) \cup Held(t)
         /\ Distinct(s \o t) => Distinct(s) /\ Distinct(t) /\ Held(s) \cap Held(t) = {}
         /\ Distinct(s) /\ Distinct(t) /\ Held(s) \cap Held(t) = {} => Distinct(s \o t)
         /\ Ascending(s \o t) => Ascending(s) /\ Ascending(t) /\ Below(s, t)
         /\ Ascending(s) /\ Ascending(t) /\ Below(s, t) => Ascending(s \o t)
<1> DEFINE m == Len(s)
           n == Len(t)
           c == s \o t
<1>1. /\ c \in Seq(Nat) /\ Len(c) = m + n
      /\ \A i \in 1..(m + n) : c[i] = IF i <= m THEN s[i] ELSE t[i - m]
  BY ConcatProperties
<1>2. DOMAIN s = 1..m /\ DOMAIN t = 1..n /\ DOMAIN c = 1..(m + n) /\ m \in Nat /\ n \in Nat
  BY <1>1, LenProperties
<1> HIDE DEF m, n, c
<1>3. \A i \in 1..m : i \in 1..(m + n) /\ c[i] = s[i]
  BY <1>1, <1>2
<1>4. \A j \in 1..n : m + j \in 1..(m + n) /\ c[m + j] = t[j]
  BY <1>1, <1>2
<1>5. \A k \in 1..(m + n) : k \in 1..m \/ (k - m \in 1..n /\ k = m + (k - m))
  BY <1>2
<1>6. \A i \in 1..m : s[i] \in Nat
  BY <1>2
<1>7. \A j \in 1..n : t[j] \in Nat
  BY <1>2
<1>8. Held(c) = Held(s) \cup Held(t)
  <2>1. ASSUME NEW a \in Held(c) PROVE a \in Held(s) \cup Held(t)
    <3>1. PICK k \in 1..(m + n) : a = c[k]
      BY <1>2 DEF Held
    <3>2. CASE k \in 1..m
      BY <3>1, <3>2, <1>2, <1>3 DEF Held
    <3>3. CASE k - m \in 1..n /\ k = m + (k - m)
      <4>1. a = t[k - m]
        BY <3>1, <3>3, <1>4
      <4>2. QED
        BY <4>1, <3>3, <1>2 DEF Held
    <3>4. QED BY <3>2, <3>3, <1>5
  <2>2. ASSUME NEW a \in Held(s) PROVE a \in Held(c)
    BY <1>2, <1>3 DEF Held
  <2>3. ASSUME NEW a \in Held(t) PROVE a \in Held(c)
    BY <1>2, <1>4 DEF Held
  <2> QED BY <2>1, <2>2, <2>3
<1>9. ASSUME Distinct(c) PROVE Distinct(s) /\ Distinct(t) /\ Held(s) \cap Held(t) = {}
  <2>1. Distinct(s)
    BY <1>9, <1>2, <1>3 DEF Distinct
  <2>2. Distinct(t)
    <3> SUFFICES ASSUME NEW i \in 1..n, NEW j \in 1..n, t[i] = t[j] PROVE i = j
      BY <1>2 DEF Distinct
    <3>1. m + i = m + j
      BY <1>9, <1>2, <1>4 DEF Distinct
    <3> QED BY <3>1, <1>2
  <2>3. ASSUME NEW i \in 1..m, NEW j \in 1..n, s[i] = t[j] PROVE FALSE
    <3>1. i = m + j
      BY <1>9, <2>3, <1>2, <1>3, <1>4 DEF Distinct
    <3> QED BY <3>1, <1>2
  <2> QED BY <2>1, <2>2, <2>3, <1>2 DEF Held
<1>10. ASSUME Distinct(s), Distinct(t), Held(s) \cap Held(t) = {} PROVE Distinct(c)
  <2> SUFFICES ASSUME NEW i \in 1..(m + n), NEW j \in 1..(m + n), c[i] = c[j] PROVE i = j
    BY <1>2 DEF Distinct
  <2>1. CASE i \in 1..m /\ j \in 1..m
    BY <2>1, <1>10, <1>2, <1>3 DEF Distinct
  <2>2. ASSUME NEW x \in 1..m, NEW y \in 1..n, c[x] = c[m + y] PROVE FALSE
    <3>1. s[x] \in Held(s) /\ t[y] \in Held(t) /\ s[x] = t[y]
      BY <2>2, <1>2, <1>3, <1>4 DEF Held
    <3> QED BY <3>1, <1>10
  <2>3. CASE i \in 1..m /\ j - m \in 1..n /\ j = m + (j - m)
    BY <2>3, <2>2
  <2>4. CASE j \in 1..m /\ i - m \in 1..n /\ i = m + (i - m)
    BY <2>4, <2>2
  <2>5. CASE i - m \in 1..n /\ i = m + (i - m) /\ j - m \in 1..n /\ j = m + (j - m)
    <3>1. t[i - m] = t[j - m]
      BY <2>5, <1>4
    <3>2. i - m = j - m
      BY <3>1, <2>5, <1>10, <1>2 DEF Distinct
    <3> QED BY <3>2, <1>2
  <2> QED BY <2>1, <2>3, <2>4, <2>5, <1>5
<1>11. ASSUME Ascending(c) PROVE Ascending(s) /\ Ascending(t) /\ Below(s, t)
  <2>1. Ascending(s)
    <3> SUFFICES ASSUME NEW i \in 1..m, NEW j \in 1..m, i < j PROVE s[i] < s[j]
      BY <1>2 DEF Ascending
    <3> QED BY <1>11, <1>2, <1>3 DEF Ascending
  <2>2. Ascending(t)
    <3> SUFFICES ASSUME NEW i \in 1..n, NEW j \in 1..n, i < j PROVE t[i] < t[j]
      BY <1>2 DEF Ascending
    <3>1. m + i < m + j
      BY <1>2
    <3> QED BY <3>1, <1>11, <1>2, <1>4 DEF Ascending
  <2>3. ASSUME NEW i \in 1..m, NEW j \in 1..n PROVE s[i] < t[j]
    <3>1. i < m + j
      BY <1>2
    <3> QED BY <3>1, <1>11, <1>2, <1>3, <1>4 DEF Ascending
  <2> QED BY <2>1, <2>2, <2>3, <1>2 DEF Held, Below
<1>12. ASSUME Ascending(s), Ascending(t), Below(s, t) PROVE Ascending(c)
  <2> SUFFICES ASSUME NEW i \in 1..(m + n), NEW j \in 1..(m + n), i < j PROVE c[i] < c[j]
    BY <1>2 DEF Ascending
  <2>1. CASE i \in 1..m /\ j \in 1..m
    BY <2>1, <1>12, <1>2, <1>3 DEF Ascending
  <2>2. CASE i \in 1..m /\ j - m \in 1..n /\ j = m + (j - m)
    <3>1. s[i] \in Held(s) /\ t[j - m] \in Held(t)
      BY <2>2, <1>2 DEF Held
    <3>2. c[i] = s[i] /\ c[j] = t[j - m]
      BY <2>2, <1>3, <1>4
    <3> QED BY <3>1, <3>2, <1>12 DEF Below
  <2>3. CASE j \in 1..m /\ i - m \in 1..n
    BY <2>3, <1>2
  <2>4. CASE i - m \in 1..n /\ i = m + (i - m) /\ j - m \in 1..n /\ j = m + (j - m)
    <3>1. c[i] = t[i - m]
      BY <2>4, <1>4
    <3>2. c[j] = t[j - m]
      BY <2>4, <1>4
    <3>3. i - m < j - m
      BY <1>2
    <3> QED BY <3>1, <3>2, <3>3, <2>4, <1>12, <1>2 DEF Ascending
  <2> QED BY <2>1, <2>2, <2>3, <2>4, <1>5
<1> QED BY <1>1, <1>8, <1>9, <1>10, <1>11, <1>12 DEF c
-----------------------------------------------------------------------------
(* The files of the appender: what they hold together                      *)

LogOf(d)   == <<"log", d>>
CacheOf(d) == <<"cache", d>>
Shelf      == [File!Files -> Seq(Nat)]

LEMMA FileNames ==
  /\ \A d \in File!Days : LogOf(d) \in File!Files /\ CacheOf(d) \in File!Files
  /\ \A d, e : LogOf(d) # CacheOf(e) /\ (LogOf(d) = LogOf(e) => d = e) /\ (CacheOf(d) = CacheOf(e) => d = e)
  /\ File!None \notin File!Files
  /\ \A f \in File!Files : \E d \in File!Days : f \in {LogOf(d), CacheOf(d)}
  /\ \A d : File!Target(CacheOf(d)) = LogOf(d)
BY DEF LogOf, CacheOf, File!Files, File!Dirs, File!None, File!Target

(* No record is twice on the shelf.                                        *)
NoneTwice(v) ==
  /\ \A f \in File!Files : Distinct(v[f])
  /\ \A f, g \in File!Files : f # g => Held(v[f]) \cap Held(v[g]) = {}

(* The records of a day come in their order, log file first.               *)
InOrder(v) ==
  \A d \in File!Days :
    Ascending(v[LogOf(d)]) /\ Ascending(v[CacheOf(d)]) /\ Below(v[LogOf(d)], v[CacheOf(d)])

Without(v, f) == [v EXCEPT ![f] = <<>>]

LEMMA WithoutApart ==
  ASSUME NEW v \in Shelf, NEW f \in File!Files
  PROVE  /\ Without(v, f) \in Shelf /\ Without(v, f)[f] = <<>>
         /\ \A g \in File!Files \ {f} : Without(v, f)[g] = v[g]
         /\ NoneTwice(v) => NoneTwice(Without(v, f))
         /\ InOrder(v) => InOrder(Without(v, f))
<1> DEFINE w == Without(v, f)
<1>1. w \in Shelf /\ w[f] = <<>> /\ \A g \in File!Files \ {f} : w[g] = v[g]
  <2>1. <<>> \in Seq(Nat)
    OBVIOUS
  <2> QED BY <2>1 DEF Without, Shelf
<1> HIDE DEF w
<1>2. Held(<<>>) = {} /\ Distinct(<<>>) /\ Ascending(<<>>)
  BY DEF Held, Distinct, Ascending
<1>3. ASSUME NoneTwice(v) PROVE NoneTwice(w)
  BY <1>1, <1>2, <1>3 DEF NoneTwice
<1>4. ASSUME InOrder(v) PROVE InOrder(w)
  BY <1>1, <1>2, <1>4, FileNames DEF InOrder, Below
<1> QED BY <1>1, <1>3, <1>4 DEF w

(* A new record at the end of a file: of the cache, or of the log when the *)
(* cache of that day holds nothing.                                        *)
LEMMA Adding ==
  ASSUME NEW v \in Shelf, NEW f \in File!Files, NEW r \in Nat,
         \A g \in File!Files : \A a \in Held(v[g]) : a < r
  PROVE  LET w == [v EXCEPT ![f] = Append(v[f], r)] IN
         /\ NoneTwice(v) => NoneTwice(w)
         /\ InOrder(v) /\ (\A d \in File!Days : f = LogOf(d) => v[CacheOf(d)] = <<>>) => InOrder(w)
<1> DEFINE w == [v EXCEPT ![f] = Append(v[f], r)]
           q == v[f]
           u == Append(q, r)
<1>1. q \in Seq(Nat) /\ w[f] = u /\ \A g \in File!Files \ {f} : w[g] = v[g]
  BY DEF Shelf
<1>2. <<r>> \in Seq(Nat) /\ u = q \o <<r>>
  BY <1>1, AppendIsConcat
<1>3. Held(<<r>>) = {r} /\ Distinct(<<r>>) /\ Ascending(<<r>>)
  BY DEF Held, Distinct, Ascending
<1>4. \A a \in Held(q) : a < r /\ a \in Nat
  BY <1>1 DEF Held
<1>5. Held(q) \cap {r} = {}
  BY <1>4
<1>6. Below(q, <<r>>)
  BY <1>3, <1>4 DEF Below
<1> HIDE DEF w, q, u
<1>7. /\ Held(u) = Held(q) \cup {r} /\ (Distinct(q) => Distinct(u))
      /\ (Ascending(q) => Ascending(u))
  <2>1. PICK one \in Seq(Nat) : one = <<r>>
    BY <1>2
  <2>2. Held(one) = {r} /\ Distinct(one) /\ Ascending(one) /\ u = q \o one /\ Below(q, one)
    BY <2>1, <1>2, <1>3, <1>6
  <2>3. Held(u) = Held(q) \cup {r}
    BY <2>2, <1>1, Concatenated
  <2>4. Held(q) \cap Held(one) = {}
    BY <2>2, <1>5
  <2>5. Distinct(q) => Distinct(u)
    BY <2>2, <2>4, <1>1, Concatenated
  <2>6. Ascending(q) => Ascending(u)
    BY <2>2, <1>1, Concatenated
  <2> QED BY <2>3, <2>5, <2>6
<1>8. \A g \in File!Files : r \notin Held(v[g])
  <2>1. \A g \in File!Files : \A a \in Held(v[g]) : a # r
    OBVIOUS
  <2> QED BY <2>1
<1>9. ASSUME NoneTwice(v) PROVE NoneTwice(w)
  <2>1. \A g \in File!Files : Distinct(w[g])
    BY <1>1, <1>7, <1>9 DEF NoneTwice, q
  <2>2. ASSUME NEW g \in File!Files, NEW h \in File!Files, g # h PROVE Held(w[g]) \cap Held(w[h]) = {}
    <3>1. Held(q) = Held(v[f])
      BY DEF q
    <3>2. CASE g = f
      BY <3>1, <3>2, <1>1, <1>7, <1>8, <1>9, <2>2 DEF NoneTwice
    <3>3. CASE h = f
      BY <3>1, <3>3, <1>1, <1>7, <1>8, <1>9, <2>2 DEF NoneTwice
    <3>4. CASE g # f /\ h # f
      BY <3>4, <1>1, <1>9, <2>2 DEF NoneTwice
    <3> QED BY <3>2, <3>3, <3>4
  <2> QED BY <2>1, <2>2 DEF NoneTwice
<1>10. ASSUME InOrder(v), \A d \in File!Days : f = LogOf(d) => v[CacheOf(d)] = <<>> PROVE InOrder(w)
  <2> SUFFICES ASSUME NEW d \in File!Days
      PROVE Ascending(w[LogOf(d)]) /\ Ascending(w[CacheOf(d)]) /\ Below(w[LogOf(d)], w[CacheOf(d)])
    BY DEF InOrder
  <2>1. Ascending(v[LogOf(d)]) /\ Ascending(v[CacheOf(d)]) /\ Below(v[LogOf(d)], v[CacheOf(d)])
    BY <1>10 DEF InOrder
  <2>2. LogOf(d) \in File!Files /\ CacheOf(d) \in File!Files /\ LogOf(d) # CacheOf(d)
    BY FileNames
  <2>3. CASE f = LogOf(d)
    <3>1. v[CacheOf(d)] = <<>> /\ w[LogOf(d)] = u /\ w[CacheOf(d)] = v[CacheOf(d)] /\ v[LogOf(d)] = q
      BY <1>10, <1>1, <2>2, <2>3 DEF q
    <3>2. Held(<<>>) = {}
      BY DEF Held
    <3> QED BY <3>1, <3>2, <2>1, <1>7 DEF Below
  <2>4. CASE f = CacheOf(d)
    <3>1. w[CacheOf(d)] = u /\ w[LogOf(d)] = v[LogOf(d)] /\ v[CacheOf(d)] = q
      BY <1>1, <2>2, <2>4 DEF q
    <3>2. \A a \in Held(v[LogOf(d)]) : a < r
      BY <2>2
    <3> QED BY <3>1, <3>2, <2>1, <1>7 DEF Below
  <2>5. CASE f # LogOf(d) /\ f # CacheOf(d)
    BY <2>5, <2>1, <2>2, <1>1
  <2> QED BY <2>3, <2>4, <2>5
<1> QED BY <1>9, <1>10 DEF w

(* A cache file goes to the end of the log file of its day.                *)
LEMMA MovingApart ==
  ASSUME NEW v \in Shelf, NEW w \in Shelf, NEW t \in File!Files, NEW f \in File!Files,
         t # f, NoneTwice(v), Distinct(w[t]), Held(w[t]) \subseteq Held(v[t]) \cup Held(v[f]),
         w[f] = <<>>, \A g \in File!Files \ {t, f} : w[g] = v[g]
  PROVE  NoneTwice(w)
<1>1. Held(<<>>) = {} /\ Distinct(<<>>)
  BY DEF Held, Distinct
<1>2. \A g \in File!Files : Distinct(w[g])
  BY <1>1 DEF NoneTwice
<1>3. ASSUME NEW g \in File!Files, NEW h \in File!Files, g # h PROVE Held(w[g]) \cap Held(w[h]) = {}
  <2>1. CASE g = f \/ h = f
    BY <2>1, <1>1
  <2>2. CASE g = t /\ h # f
    BY <2>2, <1>3 DEF NoneTwice
  <2>3. CASE h = t /\ g # f
    BY <2>3, <1>3 DEF NoneTwice
  <2>4. CASE g \notin {t, f} /\ h \notin {t, f}
    BY <2>4, <1>3 DEF NoneTwice
  <2> QED BY <2>1, <2>2, <2>3, <2>4
<1> QED BY <1>2, <1>3 DEF NoneTwice

LEMMA MovingInOrder ==
  ASSUME NEW v \in Shelf, NEW w \in Shelf, NEW d \in File!Days, InOrder(v),
         w[LogOf(d)] = v[LogOf(d)] \o v[CacheOf(d)], w[CacheOf(d)] = <<>>,
         \A g \in File!Files \ {LogOf(d), CacheOf(d)} : w[g] = v[g]
  PROVE  InOrder(w)
<1> SUFFICES ASSUME NEW e \in File!Days
    PROVE Ascending(w[LogOf(e)]) /\ Ascending(w[CacheOf(e)]) /\ Below(w[LogOf(e)], w[CacheOf(e)])
  BY DEF InOrder
<1>1. Ascending(v[LogOf(e)]) /\ Ascending(v[CacheOf(e)]) /\ Below(v[LogOf(e)], v[CacheOf(e)])
  BY DEF InOrder
<1>2. /\ LogOf(e) \in File!Files /\ CacheOf(e) \in File!Files /\ LogOf(d) \in File!Files
      /\ CacheOf(d) \in File!Files
      /\ e # d => LogOf(e) \notin {LogOf(d), CacheOf(d)} /\ CacheOf(e) \notin {LogOf(d), CacheOf(d)}
  BY FileNames
<1>3. CASE e = d
  <2>1. v[LogOf(e)] \in Seq(Nat) /\ v[CacheOf(e)] \in Seq(Nat)
    BY <1>2 DEF Shelf
  <2>2. Ascending(v[LogOf(e)] \o v[CacheOf(e)])
    BY <2>1, <1>1, Concatenated
  <2>3. Held(<<>>) = {} /\ Ascending(<<>>)
    BY DEF Held, Ascending
  <2> QED BY <1>3, <2>2, <2>3 DEF Below
<1>4. CASE e # d
  BY <1>4, <1>1, <1>2
<1> QED BY <1>3, <1>4

(* A shelf whose files are shorter is as good.                             *)
LEMMA Shorter ==
  ASSUME NEW v \in Shelf, NEW u \in Shelf,
         \A g \in File!Files : Begins(u[g], v[g])
  PROVE  /\ \A g \in File!Files : Held(u[g]) \subseteq Held(v[g])
         /\ NoneTwice(v) => NoneTwice(u) /\ (InOrder(v) => InOrder(u))
<1>1. ASSUME NEW g \in File!Files
      PROVE  /\ Held(u[g]) \subseteq Held(v[g])
             /\ Distinct(v[g]) => Distinct(u[g])
             /\ Ascending(v[g]) => Ascending(u[g])
  <2>1. PICK s \in Seq(Nat) : v[g] = u[g] \o s
    BY DEF Begins
  <2>2. u[g] \in Seq(Nat)
    BY DEF Shelf
  <2> QED BY <2>1, <2>2, Concatenated
<1>2. ASSUME NoneTwice(v) PROVE NoneTwice(u)
  BY <1>1, <1>2 DEF NoneTwice
<1>3. ASSUME InOrder(v) PROVE InOrder(u)
  BY <1>1, <1>3, FileNames DEF InOrder, Below
<1> QED BY <1>1, <1>2, <1>3
-----------------------------------------------------------------------------
(* The files of the appender: the inductive invariant                      *)

(* What the files hold once the open one is closed.                        *)
Combined(x, o, b) == IF o = File!None THEN x ELSE [x EXCEPT ![o] = @ \o b]
Behind  == IF unlinked THEN File!None ELSE open   \* the file that the buffer will go to
Virtual == Combined(disk, Behind, buffered)

FileTypes ==
  /\ day \in File!Days /\ records \in Nat /\ log_mode \in {"async", "sync"}
  /\ disk \in Shelf /\ there \subseteq File!Files /\ open \in File!Files \cup {File!None}
  /\ buffered \in Seq(Nat) /\ unlinked \in BOOLEAN /\ overtook \in BOOLEAN /\ died \in BOOLEAN
  /\ \/ step = File!Idle
     \/ \E d \in File!Days : \E op \in {"append", "remove"} : step = File!To(op, CacheOf(d))

(* What is in a file was written; a file that is open and not removed is   *)
(* there.  A record that waits in the buffer is one of synchronous mode.   *)
Written ==
  /\ \A f \in File!Files : \A a \in Held(disk[f]) : a <= records
  /\ \A a \in Held(buffered) : a <= records
  /\ open = File!None => buffered = <<>>
  /\ Behind # File!None => Behind \in there
  /\ \A f \in File!Files \ there : disk[f] = <<>>
  /\ Held(buffered) \subseteq synced

(* No record of asynchronous mode is gone, and what is about to be removed *)
(* is in the log file.                                                     *)
Kept ==
  /\ \A r \in 1..records : r \in synced \cup failed \/ \E f \in File!Files : r \in Held(disk[f])
  /\ step.op = "remove" => Held(disk[step.file]) \subseteq Held(disk[File!Target(step.file)])

(* Without a death all that is in the files and in the buffer is apart and *)
(* in order, but for the file that is about to be removed.                 *)
Rest == IF step.op = "remove" THEN Without(Virtual, step.file) ELSE Virtual
Tidy ==
  ~died => /\ NoneTwice(Rest)
           /\ ~overtook => InOrder(Rest)

(* While the log file of a day is open its cache file is empty.            *)
LogFirst ==
  ~died /\ ~overtook => \A d \in File!Days : Behind = LogOf(d) => Virtual[CacheOf(d)] = <<>>

FileInv == FileTypes /\ Written /\ Kept /\ Tidy /\ LogFirst

LEMMA StepNames ==
  /\ File!Idle.op = "idle"
  /\ \A op, f : File!To(op, f).op = op /\ File!To(op, f).file = f
BY DEF File!Idle, File!To

LEMMA CombinedFiles ==
  ASSUME NEW x \in Shelf, NEW o \in File!Files \cup {File!None}, NEW b \in Seq(Nat)
  PROVE  /\ Combined(x, o, b) \in Shelf
         /\ \A g \in File!Files : Combined(x, o, b)[g] = IF g = o THEN x[g] \o b ELSE x[g]
         /\ \A g \in File!Files : Begins(x[g], Combined(x, o, b)[g])
<1>1. \A g \in File!Files : x[g] \in Seq(Nat) /\ x[g] \o b \in Seq(Nat)
  BY ConcatProperties DEF Shelf
<1>2. \A g \in File!Files : x[g] = x[g] \o <<>> /\ <<>> \in Seq(Nat)
  BY <1>1, ConcatEmptySeq
<1>3. CASE o = File!None
  <2>1. Combined(x, o, b) = x
    BY <1>3 DEF Combined
  <2> QED BY <2>1, <1>2, <1>3, FileNames DEF Begins
<1>4. CASE o # File!None
  <2>1. Combined(x, o, b) = [x EXCEPT ![o] = x[o] \o b] /\ o \in File!Files
    BY <1>4 DEF Combined
  <2>2. Combined(x, o, b) \in Shelf
    BY <2>1, <1>1 DEF Shelf
  <2>3. \A g \in File!Files : Combined(x, o, b)[g] = IF g = o THEN x[g] \o b ELSE x[g]
    BY <2>1, <1>1 DEF Shelf
  <2>4. \A g \in File!Files : Begins(x[g], Combined(x, o, b)[g])
    BY <2>3, <1>2 DEF Begins
  <2> QED BY <2>2, <2>3, <2>4
<1> QED BY <1>3, <1>4

LEMMA CombinedAt ==
  ASSUME NEW x \in Shelf, NEW o \in File!Files \cup {File!None}, NEW b \in Seq(Nat), NEW g \in File!Files
  PROVE  Combined(x, o, b)[g] = IF g = o THEN x[g] \o b ELSE x[g]
BY CombinedFiles

LEMMA VirtualFiles ==
  ASSUME FileTypes
  PROVE  /\ Virtual \in Shelf /\ File!Closed(disk) = Virtual
         /\ \A g \in File!Files : Virtual[g] = IF g = Behind THEN disk[g] \o buffered ELSE disk[g]
         /\ \A g \in File!Files : Begins(disk[g], Virtual[g])
         /\ Behind \in File!Files \cup {File!None}
<1>1. File!Closed(disk) = Virtual
  BY DEF File!Closed, Virtual, Combined, Behind
<1>2. PICK x \in Shelf, o \in File!Files \cup {File!None}, b \in Seq(Nat) :
        x = disk /\ o = Behind /\ b = buffered
  BY DEF FileTypes, Behind
<1>3. Virtual = Combined(x, o, b)
  BY <1>2 DEF Virtual
<1>4. PICK c : c = Combined(x, o, b)
  OBVIOUS
<1>5. c \in Shelf
  BY <1>4, CombinedFiles
<1>6. \A g \in File!Files : c[g] = IF g = o THEN x[g] \o b ELSE x[g]
  BY <1>4, CombinedFiles
<1>7. \A g \in File!Files : Begins(x[g], c[g])
  BY <1>4, CombinedFiles
<1> QED BY <1>1, <1>2, <1>3, <1>4, <1>5, <1>6, <1>7

LEMMA FilesStart == File!Init => FileInv
<1> SUFFICES ASSUME File!Init PROVE FileInv
  OBVIOUS
<1> USE DEF File!Init
<1>1. /\ disk \in Shelf /\ \A f \in File!Files : disk[f] = <<>>
      /\ open = File!None /\ buffered = <<>> /\ step.op = "idle" /\ records = 0
      /\ Held(<<>>) = {} /\ Distinct(<<>>) /\ Ascending(<<>>) /\ <<>> \in Seq(Nat)
  BY StepNames DEF Shelf, Held, Distinct, Ascending
<1>2. FileTypes
  <2>1. unlinked \in BOOLEAN /\ overtook \in BOOLEAN /\ died \in BOOLEAN
    OBVIOUS
  <2>2. day \in File!Days
    BY MachinesAssumption DEF File!Days
  <2> QED BY <1>1, <2>1, <2>2 DEF FileTypes
<1>3. Written /\ Kept
  BY <1>1 DEF Written, Kept, Behind
<1>4. Virtual = disk /\ Rest = disk
  BY <1>1 DEF Virtual, Combined, Behind, Rest
<1>5. Tidy
  BY <1>1, <1>4, FileNames DEF Tidy, NoneTwice, InOrder, Below
<1>6. LogFirst
  BY <1>1, <1>4, FileNames DEF LogFirst, Behind
<1> QED BY <1>2, <1>3, <1>5, <1>6 DEF FileInv

LEMMA OneSize == \A S : File!Cardinality(S) = Cardinality(S)
BY DEF File!Cardinality, Cardinality

LEMMA DayByDay ==
  ASSUME ~died /\ ~overtook /\ step.op # "remove" =>
           \A d \in File!Days : File!Rising(disk[LogOf(d)] \o disk[CacheOf(d)])
  PROVE  File!DayInOrder
BY Zenon DEF File!DayInOrder, LogOf, CacheOf

(* The invariant says what the run checks.                                 *)
LEMMA FilesSafe == FileInv => File!TypeOK /\ FilesKeep
<1> SUFFICES ASSUME FileInv PROVE File!TypeOK /\ FilesKeep
  OBVIOUS
<1> USE DEF FileInv
<1>1. File!TypeOK
  BY DEF FileTypes, Written, File!TypeOK
<1>2. \A f \in File!Files : \A r : File!On(disk[f], r) <=> r \in Held(disk[f])
  BY DEF File!On, Held
<1>3. File!AsyncKept
  BY <1>2 DEF Kept, File!AsyncKept, File!Places
<1>4. ~died /\ step.op # "remove" => NoneTwice(disk) /\ (~overtook => InOrder(disk))
  <2> SUFFICES ASSUME ~died, step.op # "remove" PROVE NoneTwice(disk) /\ (~overtook => InOrder(disk))
    OBVIOUS
  <2>1. NoneTwice(Virtual) /\ (~overtook => InOrder(Virtual))
    BY DEF Tidy, Rest
  <2>2. Virtual \in Shelf /\ disk \in Shelf
        /\ \A g \in File!Files : Begins(disk[g], Virtual[g])
    BY VirtualFiles DEF FileTypes
  <2> QED BY <2>1, <2>2, Shorter
<1>5. File!Once
  <2> SUFFICES ASSUME ~died, step.op # "remove"
      PROVE  /\ \A r \in 1..records : Cardinality(File!Places(r)) <= 1
             /\ \A f \in File!Files : \A i, j \in DOMAIN disk[f] : i # j => disk[f][i] # disk[f][j]
    BY OneSize DEF File!Once
  <2>1. NoneTwice(disk)
    BY <1>4
  <2>2. \A f \in File!Files : \A i, j \in DOMAIN disk[f] : i # j => disk[f][i] # disk[f][j]
    BY <2>1 DEF NoneTwice, Distinct
  <2>3. ASSUME NEW r \in 1..records PROVE Cardinality(File!Places(r)) <= 1
    <3>1. \A f, g \in File!Places(r) : f = g
      <4> SUFFICES ASSUME NEW f \in File!Places(r), NEW g \in File!Places(r), f # g PROVE FALSE
        OBVIOUS
      <4>1. f \in File!Files /\ g \in File!Files /\ r \in Held(disk[f]) /\ r \in Held(disk[g])
        BY <1>2 DEF File!Places
      <4> QED BY <4>1, <2>1 DEF NoneTwice
    <3>2. CASE File!Places(r) = {}
      BY <3>2, FS_EmptySet
    <3>3. CASE File!Places(r) # {}
      <4>1. PICK f : File!Places(r) = {f}
        BY <3>1, <3>3
      <4> QED BY <4>1, FS_Singleton
    <3> QED BY <3>2, <3>3
  <2> QED BY <2>2, <2>3
<1>6. File!DayInOrder
  <2> SUFFICES ASSUME ~died, ~overtook, step.op # "remove", NEW d \in File!Days
      PROVE File!Rising(disk[LogOf(d)] \o disk[CacheOf(d)])
    BY DayByDay
  <2>1. PICK s \in Seq(Nat) : s = disk[LogOf(d)]
    BY FileNames DEF FileTypes, Shelf
  <2>2. PICK t \in Seq(Nat) : t = disk[CacheOf(d)]
    BY FileNames DEF FileTypes, Shelf
  <2>3. Ascending(s) /\ Ascending(t) /\ Below(s, t)
    BY <1>4, <2>1, <2>2 DEF InOrder
  <2>4. Ascending(s \o t)
    BY <2>3, Concatenated
  <2> QED BY <2>1, <2>2, <2>4 DEF Ascending, File!Rising
<1> QED BY <1>1, <1>3, <1>5, <1>6 DEF FilesKeep
-----------------------------------------------------------------------------
(* The files of the appender: the steps                                    *)

(* Whatever the mode and whatever file was open, the record is at the end  *)
(* of its file once that is closed, and nothing else has changed.          *)
LEMMA WriteEffect ==
  ASSUME FileTypes, Written, NEW f \in File!Files, NEW r \in Nat, File!WriteTo(f, r)
  PROVE  /\ disk' \in Shelf /\ there' = there \cup {f} /\ open' \in {File!None, f}
         /\ buffered' \in Seq(Nat) /\ unlinked' = FALSE
         /\ Virtual' = [Virtual EXCEPT ![f] = Append(Virtual[f], r)]
         /\ \A g \in File!Files :
              Held(disk[g]) \subseteq Held(disk'[g]) /\ Held(disk'[g]) \subseteq Held(disk[g]) \cup Held(buffered) \cup {r}
         /\ \A g \in File!Files \ there' : disk'[g] = <<>>
         /\ log_mode # "sync" => r \in Held(disk'[f]) /\ buffered' = <<>>
         /\ Held(buffered') \subseteq Held(buffered) \cup {r}
         /\ open' = File!None => buffered' = <<>>
<1>1. PICK v \in Shelf : v = Virtual /\ File!Closed(disk) = v
  BY VirtualFiles
<1>2. /\ \A g \in File!Files : v[g] = IF g = Behind THEN disk[g] \o buffered ELSE disk[g]
      /\ buffered \in Seq(Nat) /\ unlinked \in BOOLEAN
      /\ \A g \in File!Files : disk[g] \in Seq(Nat) /\ v[g] \in Seq(Nat)
  BY <1>1, VirtualFiles DEF FileTypes, Shelf
<1>3. \A g \in File!Files : Held(v[g]) = IF g = Behind THEN Held(disk[g]) \cup Held(buffered) ELSE Held(disk[g])
  BY <1>2, Concatenated
<1>4. <<r>> \in Seq(Nat) /\ Append(<<>>, r) = <<r>> /\ Held(<<>>) = {} /\ Held(<<r>>) = {r} /\ <<>> \in Seq(Nat)
  BY DEF Held
<1>5. \A g \in File!Files \ there : disk[g] = <<>> /\ v[g] = <<>>
  BY <1>2, FileNames DEF Written
<1>6. /\ Append(v[f], r) \in Seq(Nat) /\ Held(Append(v[f], r)) = Held(v[f]) \cup {r}
      /\ Append(buffered, r) \in Seq(Nat) /\ Held(Append(buffered, r)) = Held(buffered) \cup {r}
  BY <1>2, Appended
<1>7. there' = there \cup {f}
  BY DEF File!WriteTo
<1>8. CASE log_mode = "async"
  <2>1. disk' = [v EXCEPT ![f] = Append(v[f], r)] /\ open' = File!None /\ buffered' = <<>> /\ unlinked' = FALSE
    BY <1>1, <1>8 DEF File!WriteTo
  <2>2. disk' \in Shelf /\ disk'[f] = Append(v[f], r) /\ \A g \in File!Files \ {f} : disk'[g] = v[g]
    BY <2>1, <1>6 DEF Shelf
  <2>3. Virtual' = disk'
    BY <2>1 DEF Virtual, Combined, Behind
  <2>4. \A g \in File!Files :
          Held(disk[g]) \subseteq Held(disk'[g]) /\ Held(disk'[g]) \subseteq Held(disk[g]) \cup Held(buffered) \cup {r}
    BY <2>2, <1>3, <1>6
  <2> QED BY <2>1, <2>2, <2>3, <2>4, <1>1, <1>4, <1>5, <1>6, <1>7
<1>9. CASE log_mode # "async" /\ open = f /\ ~unlinked
  <2>1. buffered' = Append(buffered, r) /\ disk' = disk /\ open' = f /\ unlinked' = unlinked /\ unlinked = FALSE
    BY <1>2, <1>9 DEF File!WriteTo
  <2>2. Behind = f /\ f # File!None /\ disk \in Shelf
    BY <1>9, FileNames DEF Behind, FileTypes
  <2>3. Virtual' = [disk EXCEPT ![f] = disk[f] \o Append(buffered, r)]
    BY <2>1, <2>2 DEF Virtual, Combined, Behind
  <2>4. v = [disk EXCEPT ![f] = disk[f] \o buffered]
    BY <1>1, <2>2 DEF Virtual, Combined
  <2>5. disk[f] \o Append(buffered, r) = Append(v[f], r)
    <3>1. Append(buffered, r) = buffered \o <<r>> /\ Append(v[f], r) = v[f] \o <<r>>
      BY <1>2, AppendIsConcat
    <3>2. v[f] = disk[f] \o buffered
      BY <1>2, <2>2
    <3>3. disk[f] \o (buffered \o <<r>>) = (disk[f] \o buffered) \o <<r>>
      <4>1. PICK x \in Seq(Nat), y \in Seq(Nat), z \in Seq(Nat) : x = disk[f] /\ y = buffered /\ z = <<r>>
        BY <1>2, <1>4
      <4>2. x \o (y \o z) = (x \o y) \o z
        BY ConcatAssociative
      <4> QED BY <4>1, <4>2
    <3> QED BY <3>1, <3>2, <3>3
  <2>6. Virtual' = [v EXCEPT ![f] = Append(v[f], r)]
    BY <2>2, <2>3, <2>4, <2>5 DEF Shelf
  <2>7. log_mode = "sync"
    BY <1>9 DEF FileTypes
  <2> QED BY <2>1, <2>2, <2>6, <2>7, <1>1, <1>5, <1>6, <1>7, <1>9
<1>10. CASE log_mode # "async" /\ ~(open = f /\ ~unlinked)
  <2>1. disk' = v /\ open' = f /\ buffered' = <<r>> /\ unlinked' = FALSE
    BY <1>1, <1>10 DEF File!WriteTo
  <2>2. Virtual' = [v EXCEPT ![f] = v[f] \o <<r>>]
    BY <2>1, FileNames DEF Virtual, Combined, Behind
  <2>3. v[f] \o <<r>> = Append(v[f], r)
    BY <1>2, AppendIsConcat
  <2>4. \A g \in File!Files :
          Held(disk[g]) \subseteq Held(disk'[g]) /\ Held(disk'[g]) \subseteq Held(disk[g]) \cup Held(buffered) \cup {r}
    BY <2>1, <1>3
  <2>5. log_mode = "sync"
    BY <1>10 DEF FileTypes
  <2> QED BY <2>1, <2>2, <2>3, <2>4, <2>5, <1>1, <1>4, <1>5, <1>7, FileNames
<1> QED BY <1>8, <1>9, <1>10

(* What was written is older than the next record.                         *)
LEMMA Older ==
  ASSUME FileTypes, Written
  PROVE  /\ records \in Nat /\ records + 1 \in Nat /\ records <= records + 1
         /\ \A g \in File!Files : \A a \in Held(disk[g]) \cup Held(buffered) :
              a \in Nat /\ a <= records + 1 /\ a < records + 1
<1>1. records \in Nat /\ buffered \in Seq(Nat) /\ \A g \in File!Files : disk[g] \in Seq(Nat)
  BY DEF FileTypes, Shelf
<1>2. ASSUME NEW g \in File!Files, NEW a \in Held(disk[g]) \cup Held(buffered)
      PROVE  a \in Nat /\ a <= records + 1 /\ a < records + 1
  <2>1. a \in Nat
    BY <1>1, <1>2 DEF Held
  <2>2. a <= records
    BY <1>2 DEF Written
  <2>3. \A x, y \in Nat : x <= y => x <= y + 1 /\ x < y + 1
    OBVIOUS
  <2> QED BY <1>1, <2>1, <2>2, <2>3
<1> QED BY <1>1, <1>2

(* A record that went to a file: not to the log of a day whose cache holds *)
(* something, unless it overtook.                                          *)
LEMMA RecordedStep ==
  ASSUME FileInv, File!Record, NEW f \in File!Files, File!WriteTo(f, records + 1), failed' = failed,
         step' = File!Idle \/ \E d \in File!Days : step' = File!To("append", CacheOf(d)),
         overtook' \in BOOLEAN, overtook => overtook',
         ~overtook' => \A d \in File!Days : f = LogOf(d) => Virtual[CacheOf(d)] = <<>>
  PROVE  FileInv'
<1> USE DEF FileInv
<1>1. PICK r \in Nat : r = records + 1
  BY DEF FileTypes
<1>2. /\ step = File!Idle /\ records' = r /\ synced' = IF log_mode = "sync" THEN synced \cup {r} ELSE synced
      /\ UNCHANGED <<day, log_mode, died>>
  BY <1>1 DEF File!Record
<1>3. PICK v \in Shelf : v = Virtual
  BY VirtualFiles
<1>4. PICK w : w = [v EXCEPT ![f] = Append(v[f], r)]
  OBVIOUS
<1>5. /\ disk' \in Shelf /\ there' = there \cup {f} /\ open' \in {File!None, f}
      /\ buffered' \in Seq(Nat) /\ unlinked' = FALSE /\ Virtual' = w
      /\ \A g \in File!Files :
           Held(disk[g]) \subseteq Held(disk'[g]) /\ Held(disk'[g]) \subseteq Held(disk[g]) \cup Held(buffered) \cup {r}
      /\ \A g \in File!Files \ there' : disk'[g] = <<>>
      /\ log_mode # "sync" => r \in Held(disk'[f]) /\ buffered' = <<>>
      /\ Held(buffered') \subseteq Held(buffered) \cup {r}
      /\ open' = File!None => buffered' = <<>>
  BY <1>1, <1>3, <1>4, WriteEffect
<1>6. step.op # "remove" /\ step'.op # "remove"
  BY <1>2, StepNames
<1>7. FileTypes'
  BY <1>2, <1>5, StepNames DEF FileTypes
<1>8. Written'
  <2>1. \A a \in Held(buffered) : a <= r
    BY <1>1, Older DEF Written
  <2>2. \A g \in File!Files : \A a \in Held(disk[g]) : a <= r
    BY <1>1, Older DEF Written
  <2>3. \A g \in File!Files : \A a \in Held(disk'[g]) : a <= records'
    BY <2>1, <2>2, <1>1, <1>2, <1>5
  <2>4. \A a \in Held(buffered') : a <= records'
    BY <2>1, <1>1, <1>2, <1>5
  <2>5. Held(buffered') \subseteq synced'
    <3>1. Held(<<>>) = {}
      BY DEF Held
    <3> QED BY <3>1, <1>2, <1>5 DEF Written
  <2>6. Behind' # File!None => Behind' \in there'
    BY <1>5 DEF Behind
  <2> QED BY <1>5, <2>3, <2>4, <2>5, <2>6 DEF Written
<1>9. Kept'
  <2> SUFFICES ASSUME NEW a \in 1..r PROVE a \in synced' \cup failed' \/ \E g \in File!Files : a \in Held(disk'[g])
    BY <1>2, <1>6 DEF Kept
  <2>1. CASE a = r
    BY <2>1, <1>2, <1>5
  <2>2. CASE a \in 1..records
    BY <2>2, <1>2, <1>5 DEF Kept
  <2> QED BY <2>1, <2>2, <1>1 DEF FileTypes
<1>10. \A g \in File!Files : \A a \in Held(v[g]) : a < r
  <2> SUFFICES ASSUME NEW g \in File!Files, NEW a \in Held(v[g]) PROVE a < r
    OBVIOUS
  <2>1. v[g] = IF g = Behind THEN disk[g] \o buffered ELSE disk[g]
    BY <1>3, VirtualFiles
  <2>2. disk[g] \in Seq(Nat) /\ buffered \in Seq(Nat)
    BY DEF FileTypes, Shelf
  <2>3. a \in Held(disk[g]) \cup Held(buffered)
    BY <2>1, <2>2, Concatenated
  <2>4. a < records + 1
    BY <2>3, Older
  <2> QED BY <2>4, <1>1
<1>11. Tidy'
  <2> SUFFICES ASSUME ~died PROVE NoneTwice(w) /\ (~overtook' => InOrder(w))
    BY <1>2, <1>5, <1>6 DEF Tidy, Rest
  <2>1. NoneTwice(v) /\ (~overtook => InOrder(v))
    BY <1>3, <1>6 DEF Tidy, Rest
  <2>2. NoneTwice(w)
    BY <2>1, <1>4, <1>10, Adding
  <2>3. ASSUME ~overtook' PROVE InOrder(w)
    <3>1. InOrder(v) /\ \A d \in File!Days : f = LogOf(d) => v[CacheOf(d)] = <<>>
      BY <2>1, <2>3, <1>3
    <3> QED BY <3>1, <1>4, <1>10, Adding
  <2> QED BY <2>2, <2>3
<1>12. LogFirst'
  <2> SUFFICES ASSUME ~overtook', NEW d \in File!Days, open' = LogOf(d) PROVE w[CacheOf(d)] = <<>>
    BY <1>5 DEF LogFirst, Behind
  <2>1. f = LogOf(d) /\ f # CacheOf(d) /\ CacheOf(d) \in File!Files
    BY <1>5, FileNames
  <2>2. v[CacheOf(d)] = <<>>
    BY <2>1, <1>3
  <2> QED BY <2>1, <2>2, <1>4 DEF Shelf
<1> QED BY <1>7, <1>8, <1>9, <1>11, <1>12

LEMMA RecordSteps ==
  ASSUME FileInv, File!ToCache \/ File!ToLog \/ File!ToNewCache
  PROVE  FileInv'
<1>1. /\ File!Cache = CacheOf(day) /\ File!Log = LogOf(day) /\ day \in File!Days
      /\ CacheOf(day) \in File!Files /\ LogOf(day) \in File!Files
  BY FileNames DEF File!Cache, File!Log, CacheOf, LogOf, FileInv, FileTypes
<1>2. overtook \in BOOLEAN /\ \A d \in File!Days : CacheOf(day) # LogOf(d)
  BY FileNames DEF FileInv, FileTypes
<1>3. CASE File!ToCache
  <2>1. /\ File!Record /\ File!WriteTo(CacheOf(day), records + 1) /\ failed' = failed /\ overtook' = overtook
        /\ step' = File!To("append", CacheOf(day))
    BY <1>1, <1>3 DEF File!ToCache
  <2> QED BY <2>1, <1>1, <1>2, RecordedStep
<1>4. CASE File!ToNewCache
  <2>1. /\ File!Record /\ File!WriteTo(CacheOf(day), records + 1) /\ failed' = failed /\ overtook' = overtook
        /\ step' = step
    BY <1>1, <1>4 DEF File!ToNewCache
  <2>2. step' = File!Idle
    BY <2>1 DEF File!Record
  <2> QED BY <2>1, <2>2, <1>1, <1>2, RecordedStep
<1>5. CASE File!ToLog
  <2>1. /\ File!Record /\ File!WriteTo(LogOf(day), records + 1) /\ failed' = failed /\ step' = step
        /\ overtook' = (overtook \/ CacheOf(day) \in there)
    BY <1>1, <1>5 DEF File!ToLog
  <2>2. step' = File!Idle
    BY <2>1 DEF File!Record
  <2>3. ~overtook' => CacheOf(day) \notin there
    BY <2>1
  <2>4. CacheOf(day) \notin there => Virtual[CacheOf(day)] = <<>>
    <3> SUFFICES ASSUME CacheOf(day) \notin there PROVE Virtual[CacheOf(day)] = <<>>
      OBVIOUS
    <3>1. CacheOf(day) # Behind /\ disk[CacheOf(day)] = <<>>
      BY <1>1, FileNames DEF FileInv, Written
    <3> QED BY <3>1, <1>1, VirtualFiles DEF FileInv
  <2>5. \A d \in File!Days : LogOf(day) = LogOf(d) => d = day
    BY FileNames
  <2>6. overtook' \in BOOLEAN /\ (overtook => overtook')
    BY <2>1
  <2> QED BY <2>1, <2>2, <2>3, <2>4, <2>5, <2>6, <1>1, RecordedStep
<1> QED BY <1>3, <1>4, <1>5

(* No directory takes it: what was open is closed, and that is all.        *)
LEMMA NowhereStep ==
  ASSUME FileInv, File!Nowhere
  PROVE  FileInv'
<1> USE DEF FileInv
<1>1. PICK v \in Shelf : v = Virtual /\ File!Closed(disk) = v
  BY VirtualFiles
<1>2. /\ step = File!Idle /\ step' = File!Idle /\ records' = records + 1 /\ failed' = failed \cup {records + 1}
      /\ disk' = v /\ open' = File!None /\ buffered' = <<>> /\ unlinked' = FALSE
      /\ UNCHANGED <<day, log_mode, died, there, overtook>>
      /\ synced \subseteq synced'
  BY <1>1 DEF File!Nowhere, File!Record
<1>3. Virtual' = v /\ Behind' = File!None /\ step.op # "remove" /\ step'.op # "remove" /\ Held(<<>>) = {}
  BY <1>2, StepNames DEF Virtual, Combined, Behind, Held
<1>4. \A g \in File!Files : /\ v[g] = IF g = Behind THEN disk[g] \o buffered ELSE disk[g]
                            /\ disk[g] \in Seq(Nat) /\ buffered \in Seq(Nat)
  BY <1>1, VirtualFiles DEF FileTypes, Shelf
<1>5. \A g \in File!Files : Held(disk[g]) \subseteq Held(v[g]) /\ Held(v[g]) \subseteq Held(disk[g]) \cup Held(buffered)
  BY <1>4, Concatenated
<1>6. FileTypes'
  <2>1. <<>> \in Seq(Nat) /\ FALSE \in BOOLEAN
    OBVIOUS
  <2>2. records' \in Nat
    BY <1>2, Older
  <2>3. /\ day' \in File!Days /\ log_mode' \in {"async", "sync"} /\ there' \subseteq File!Files
        /\ overtook' \in BOOLEAN /\ died' \in BOOLEAN
    BY <1>2 DEF FileTypes
  <2>4. disk' \in Shelf /\ open' \in File!Files \cup {File!None} /\ buffered' \in Seq(Nat) /\ unlinked' \in BOOLEAN
    BY <1>2, <2>1
  <2> HIDE DEF FileInv
  <2> QED BY <1>2, <2>2, <2>3, <2>4 DEF FileTypes
<1>7. Written'
  <2>1. \A g \in File!Files : \A a \in Held(v[g]) : a <= records'
    <3> SUFFICES ASSUME NEW g \in File!Files, NEW a \in Held(v[g]) PROVE a <= records + 1
      BY <1>2
    <3>1. a \in Held(disk[g]) \cup Held(buffered)
      BY <1>5
    <3> QED BY <3>1, Older
  <2>2. \A g \in File!Files \ there : v[g] = <<>>
    BY <1>4, FileNames DEF Written
  <2> QED BY <2>1, <2>2, <1>2, <1>3 DEF Written
<1>8. Kept'
  <2> SUFFICES ASSUME NEW a \in 1..(records + 1)
               PROVE a \in synced' \cup failed' \/ \E g \in File!Files : a \in Held(v[g])
    BY <1>2, <1>3 DEF Kept
  <2>1. CASE a \in 1..records
    BY <2>1, <1>2, <1>5 DEF Kept
  <2>2. CASE a = records + 1
    BY <2>2, <1>2
  <2> QED BY <2>1, <2>2 DEF FileTypes
<1>9. Tidy'
  BY <1>1, <1>2, <1>3 DEF Tidy, Rest
<1>10. LogFirst'
  BY <1>3, FileNames DEF LogFirst
<1> QED BY <1>6, <1>7, <1>8, <1>9, <1>10

(* A file that __append_file or remove works on is a cache file.           *)
LEMMA OnCache ==
  ASSUME FileTypes, step.op # "idle"
  PROVE  \E d \in File!Days : step = File!To(step.op, CacheOf(d)) /\ step.file = CacheOf(d)
<1>1. step # File!Idle
  BY StepNames
<1>2. PICK d \in File!Days, op \in {"append", "remove"} : step = File!To(op, CacheOf(d))
  BY <1>1 DEF FileTypes
<1> QED BY <1>2, StepNames

(* __append_file copies the whole cache file behind the log file; a log    *)
(* file that is open then would still hold a buffer of later records, but  *)
(* its cache file is empty unless a record overtook.                       *)
LEMMA AppendStep ==
  ASSUME FileInv, File!AppendFile
  PROVE  FileInv'
<1> USE DEF FileInv
<1>1. PICK d \in File!Days : step = File!To("append", CacheOf(d)) /\ step.file = CacheOf(d)
  BY OnCache, StepNames DEF File!AppendFile
<1>2. PICK f \in File!Files, t \in File!Files :
        f = CacheOf(d) /\ t = LogOf(d) /\ t # f /\ step.file = f /\ File!Target(f) = t
  BY <1>1, FileNames
<1>3. PICK v \in Shelf, o \in File!Files \cup {File!None}, b \in Seq(Nat), x \in Shelf :
        v = Virtual /\ o = Behind /\ b = buffered /\ x = disk
  BY VirtualFiles DEF FileTypes
<1>4. /\ UNCHANGED <<day, log_mode, open, buffered, unlinked, records, synced, failed, overtook, died>>
      /\ step.op = "append"
  BY DEF File!AppendFile
<1>5. Behind' = o /\ Rest = v /\ Virtual' = Combined(disk', o, b)
  BY <1>3, <1>4 DEF Behind, Rest, Virtual
<1>6. \A g \in File!Files : v[g] = (IF g = o THEN x[g] \o b ELSE x[g]) /\ Begins(x[g], v[g]) /\ x[g] \in Seq(Nat)
  BY <1>3, VirtualFiles DEF Shelf
<1>7. Held(<<>>) = {} /\ <<>> \in Seq(Nat)
  BY DEF Held
<1>8. ASSUME disk' = disk, there' = there, step' = File!To("remove", f) \/ step' = File!Idle,
             step' = File!To("remove", f) => x[f] = <<>>
      PROVE  FileInv'
  <2>1. Virtual' = v /\ step'.op \in {"remove", "idle"} /\ (step'.op = "remove" => step' = File!To("remove", f) /\ step'.file = f)
    BY <1>3, <1>4, <1>8, StepNames DEF Virtual, Behind
  <2>2. FileTypes'
    BY <1>2, <1>4, <1>8 DEF FileTypes
  <2>3. Written'
    BY <1>3, <1>4, <1>5, <1>8 DEF Written
  <2>4. Kept'
    BY <1>2, <1>3, <1>4, <1>7, <1>8, <2>1 DEF Kept
  <2>5. Tidy'
    <3> SUFFICES ASSUME ~died PROVE NoneTwice(Rest') /\ (~overtook => InOrder(Rest'))
      BY <1>4 DEF Tidy
    <3>1. NoneTwice(v) /\ (~overtook => InOrder(v))
      BY <1>5 DEF Tidy
    <3>2. CASE step'.op = "remove"
      <4>1. Rest' = Without(v, f)
        BY <2>1, <3>2 DEF Rest
      <4>2. NoneTwice(Without(v, f)) /\ (~overtook => InOrder(Without(v, f)))
        BY <3>1, WithoutApart
      <4> QED BY <4>1, <4>2
    <3>3. CASE step'.op = "idle"
      <4>1. Rest' = v
        BY <2>1, <3>3 DEF Rest
      <4> QED BY <3>1, <4>1
    <3> QED BY <2>1, <3>2, <3>3
  <2>6. LogFirst'
    BY <1>3, <1>4, <1>5, <2>1 DEF LogFirst
  <2> QED BY <2>2, <2>3, <2>4, <2>5, <2>6
<1>9. ASSUME x[f] # <<>>, step' = File!To("remove", f), disk' = [x EXCEPT ![t] = x[t] \o x[f]], there' = there \cup {t}
      PROVE  FileInv'
  <2>1. PICK y \in Shelf, q \in Seq(Nat) : y = disk' /\ q = x[t] \o x[f] /\ y[t] = q /\ \A g \in File!Files \ {t} : y[g] = x[g]
    <3>1. x[t] \o x[f] \in Seq(Nat)
      BY <1>6, ConcatProperties
    <3>2. disk' \in Shelf /\ disk'[t] = x[t] \o x[f] /\ \A g \in File!Files \ {t} : disk'[g] = x[g]
      BY <1>9, <3>1 DEF Shelf
    <3> QED BY <3>1, <3>2
  <2>2. Held(q) = Held(x[t]) \cup Held(x[f])
    BY <1>6, <2>1, Concatenated
  <2>3. PICK u \in Shelf : /\ u = Virtual'
                           /\ \A g \in File!Files : u[g] = IF g = o THEN y[g] \o b ELSE y[g]
    <3>1. PICK c : c = Combined(y, o, b)
      OBVIOUS
    <3>2. c \in Shelf
      BY <3>1, CombinedFiles
    <3>3. \A g \in File!Files : c[g] = IF g = o THEN y[g] \o b ELSE y[g]
      BY <3>1, CombinedAt
    <3>4. Virtual' = c
      BY <1>5, <2>1, <3>1
    <3> QED BY <3>2, <3>3, <3>4
  <2>4. step'.op = "remove" /\ step'.file = f
    BY <1>9, StepNames
  <2>5. PICK w \in Shelf : w = Without(u, f) /\ w[f] = <<>> /\ \A g \in File!Files \ {f} : w[g] = u[g]
    BY WithoutApart
  <2>6. Rest' = w
    BY <2>3, <2>4, <2>5 DEF Rest
  <2>7. \A g \in File!Files \ {t} : u[g] = v[g]
    BY <1>6, <2>1, <2>3
  <2>8. FileTypes'
    <3>1. there' \subseteq File!Files /\ disk' \in Shelf
      BY <1>9, <2>1 DEF FileTypes
    <3>2. \E e \in File!Days : \E op \in {"append", "remove"} : step' = File!To(op, CacheOf(e))
      BY <1>2, <1>9
    <3> QED BY <1>4, <3>1, <3>2 DEF FileTypes
  <2>9. Written'
    <3>1. \A g \in File!Files : \A a \in Held(y[g]) : a <= records
      BY <1>3, <2>1, <2>2 DEF Written
    <3>2. \A g \in File!Files \ there' : y[g] = <<>>
      BY <1>3, <1>9, <2>1 DEF Written
    <3>3. Behind' # File!None => Behind' \in there'
      BY <1>3, <1>5, <1>9 DEF Written
    <3> QED BY <1>4, <2>1, <3>1, <3>2, <3>3 DEF Written
  <2>10. Kept'
    <3>1. \A g \in File!Files : Held(x[g]) \subseteq Held(y[g])
      BY <2>1, <2>2
    <3>2. \A r \in 1..records : r \in synced \cup failed \/ \E g \in File!Files : r \in Held(y[g])
      BY <1>3, <3>1 DEF Kept
    <3>3. Held(y[f]) \subseteq Held(y[t])
      BY <1>2, <2>1, <2>2
    <3> QED BY <1>2, <1>4, <2>1, <2>4, <3>2, <3>3 DEF Kept
  <2>11. Tidy'
    <3> SUFFICES ASSUME ~died PROVE NoneTwice(w) /\ (~overtook => InOrder(w))
      BY <1>4, <2>6 DEF Tidy
    <3>1. NoneTwice(v) /\ (~overtook => InOrder(v))
      BY <1>5 DEF Tidy
    <3>2. PICK s \in Seq(Nat), p \in Seq(Nat) : s = x[t] /\ p = x[f]
      BY <1>6
    <3>3. q = s \o p
      BY <2>1, <3>2
    <3>4. \A g \in File!Files \ {t, f} : w[g] = v[g]
      BY <2>5, <2>7
    <3>5. CASE o = t
      <4>1. v[t] = s \o b /\ v[f] = p /\ w[t] = q \o b
        BY <1>2, <1>6, <2>1, <2>3, <2>5, <3>2, <3>5
      <4>2. Distinct(s \o b) /\ Distinct(p) /\ Held(v[t]) \cap Held(v[f]) = {}
        BY <1>2, <3>1, <4>1 DEF NoneTwice
      <4>3. Held(v[t]) = Held(s) \cup Held(b)
        BY <4>1, Concatenated
      <4>4. Distinct(s) /\ Distinct(b) /\ Held(s) \cap Held(b) = {}
        BY <4>2, Concatenated
      <4>5. Held(s) \cap Held(p) = {} /\ Held(b) \cap Held(p) = {}
        BY <4>1, <4>2, <4>3
      <4>6. Distinct(q) /\ Held(q) = Held(s) \cup Held(p)
        BY <3>3, <4>2, <4>4, <4>5, Concatenated
      <4>7. Held(q) \cap Held(b) = {}
        BY <4>4, <4>5, <4>6
      <4>8. Distinct(q \o b) /\ Held(q \o b) = Held(q) \cup Held(b)
        BY <4>4, <4>6, <4>7, Concatenated
      <4>9. Held(w[t]) \subseteq Held(v[t]) \cup Held(v[f])
        BY <4>1, <4>3, <4>6, <4>8
      <4>10. NoneTwice(w)
        <5>1. t # f /\ NoneTwice(v) /\ Distinct(w[t]) /\ w[f] = <<>>
          BY <1>2, <2>5, <3>1, <4>1, <4>8
        <5> QED BY <3>4, <4>9, <5>1, MovingApart
      <4>11. overtook
        <5> SUFFICES ASSUME ~overtook PROVE v[f] = <<>>
          BY <1>9, <3>2, <4>1
        <5> QED BY <1>2, <1>3, <3>5 DEF LogFirst
      <4> QED BY <4>10, <4>11
    <3>6. CASE o # t
      <4>1. v[t] = s /\ w[t] = q /\ Begins(p, v[f])
        BY <1>2, <1>6, <2>1, <2>3, <2>5, <3>2, <3>6
      <4>2. PICK l \in Seq(Nat) : v[f] = p \o l
        BY <4>1 DEF Begins
      <4>3. Distinct(s) /\ Distinct(v[f]) /\ Held(s) \cap Held(v[f]) = {}
        BY <1>2, <3>1, <4>1 DEF NoneTwice
      <4>4. Distinct(p) /\ Held(v[f]) = Held(p) \cup Held(l)
        BY <4>2, <4>3, Concatenated
      <4>5. Held(s) \cap Held(p) = {}
        BY <4>3, <4>4
      <4>6. Distinct(q) /\ Held(q) = Held(s) \cup Held(p)
        BY <3>3, <4>3, <4>4, <4>5, Concatenated
      <4>7. Held(w[t]) \subseteq Held(v[t]) \cup Held(v[f])
        BY <4>1, <4>4, <4>6
      <4>8. NoneTwice(w)
        BY <1>2, <2>5, <3>1, <3>4, <4>1, <4>6, <4>7, MovingApart
      <4>9. ASSUME ~overtook PROVE InOrder(w)
        <5>1. PICK c \in Shelf : c[f] = p /\ \A g \in File!Files \ {f} : c[g] = v[g]
          <6>1. [v EXCEPT ![f] = p] \in Shelf
            BY DEF Shelf
          <6> QED BY <6>1 DEF Shelf
        <5>2. \A g \in File!Files : v[g] = v[g] \o <<>>
          <6>1. \A g \in File!Files : v[g] \in Seq(Nat)
            BY DEF Shelf
          <6> QED BY <6>1, ConcatEmptySeq
        <5>3. \A g \in File!Files : Begins(c[g], v[g])
          BY <1>7, <4>1, <5>1, <5>2 DEF Begins
        <5>4. InOrder(c)
          BY <3>1, <4>9, <5>3, Shorter
        <5>5. w[t] = c[t] \o c[f] /\ \A g \in File!Files \ {t, f} : w[g] = c[g]
          BY <1>2, <3>3, <3>4, <4>1, <5>1
        <5>6. w[LogOf(d)] = c[LogOf(d)] \o c[CacheOf(d)] /\ w[CacheOf(d)] = <<>>
          BY <1>2, <2>5, <5>5
        <5>7. \A g \in File!Files \ {LogOf(d), CacheOf(d)} : w[g] = c[g]
          BY <1>2, <5>5
        <5> QED BY <5>4, <5>6, <5>7, MovingInOrder
      <4> QED BY <4>8, <4>9
    <3> QED BY <3>5, <3>6
  <2>12. LogFirst'
    <3> SUFFICES ASSUME ~died, ~overtook, NEW e \in File!Days, o = LogOf(e) PROVE u[CacheOf(e)] = <<>>
      BY <1>4, <1>5, <2>3 DEF LogFirst
    <3>1. CacheOf(e) \in File!Files \ {t}
      BY <1>2, FileNames
    <3>2. v[CacheOf(e)] = <<>>
      BY <1>3 DEF LogFirst
    <3> QED BY <2>7, <3>1, <3>2
  <2> QED BY <2>8, <2>9, <2>10, <2>11, <2>12
<1>10. \/ /\ disk' = disk /\ there' = there /\ (step' = File!To("remove", f) \/ step' = File!Idle)
          /\ (step' = File!To("remove", f) => x[f] = <<>>)
       \/ /\ x[f] # <<>> /\ step' = File!To("remove", f) /\ disk' = [x EXCEPT ![t] = x[t] \o x[f]]
          /\ there' = there \cup {t}
  <2>1. File!To("remove", f) # File!Idle
    BY StepNames
  <2>2. x[f] = disk[step.file] /\ x = disk /\ File!Target(step.file) = t /\ step.file = f
    BY <1>2, <1>3
  <2>3. CASE disk[step.file] = <<>> /\ step' = File!To("remove", step.file) /\ UNCHANGED <<disk, there>>
    BY <2>2, <2>3
  <2>4. CASE disk[step.file] # <<>> /\ step' = File!Idle /\ UNCHANGED <<disk, there>>
    BY <2>1, <2>2, <2>4
  <2>5. CASE /\ disk[step.file] # <<>> /\ step' = File!To("remove", step.file)
             /\ disk' = [disk EXCEPT ![File!Target(step.file)] = disk[File!Target(step.file)] \o disk[step.file]]
             /\ there' = there \cup {File!Target(step.file)}
    BY <2>2, <2>5
  <2> HIDE DEF FileInv
  <2> QED BY <2>3, <2>4, <2>5 DEF File!AppendFile
<1> QED BY <1>8, <1>9, <1>10

(* A cache file goes: after its append, so that its records are elsewhere; *)
(* what the buffer of that file held goes with it.                         *)
LEMMA RemoveStep ==
  ASSUME FileInv, File!Remove
  PROVE  FileInv'
<1> USE DEF FileInv
<1>1. PICK d \in File!Days : step = File!To("remove", CacheOf(d)) /\ step.file = CacheOf(d)
  BY OnCache, StepNames DEF File!Remove
<1>2. PICK f \in File!Files, t \in File!Files :
        f = CacheOf(d) /\ t = LogOf(d) /\ t # f /\ step.file = f /\ File!Target(f) = t
  BY <1>1, FileNames
<1>3. PICK v \in Shelf, o \in File!Files \cup {File!None}, b \in Seq(Nat), x \in Shelf :
        v = Virtual /\ o = Behind /\ b = buffered /\ x = disk
  BY VirtualFiles DEF FileTypes
<1>4. /\ UNCHANGED <<day, log_mode, records, synced, failed, overtook, died>>
      /\ step.op = "remove" /\ step' = File!Idle /\ there' = there \ {f} /\ disk' = [x EXCEPT ![f] = <<>>]
  BY <1>2, <1>3 DEF File!Remove
<1>5. \/ open = f /\ open' = File!None /\ buffered' = <<>> /\ unlinked' = FALSE
      \/ open = f /\ open' = open /\ buffered' = buffered /\ unlinked' = TRUE
      \/ open # f /\ open' = open /\ buffered' = buffered /\ unlinked' = unlinked
  <2>1. unlinked \in BOOLEAN
    BY DEF FileTypes
  <2>2. CASE open = f /\ f = File!Cache /\ log_mode = "sync"
    BY <1>2, <2>2 DEF File!Remove
  <2>3. CASE ~(open = f /\ f = File!Cache /\ log_mode = "sync") /\ open = f
    BY <1>2, <2>3 DEF File!Remove
  <2>4. CASE open # f
    BY <1>2, <2>1, <2>4 DEF File!Remove
  <2> QED BY <2>2, <2>3, <2>4
<1>6. PICK p \in File!Files \cup {File!None}, c \in Seq(Nat) :
        /\ p = Behind' /\ c = buffered' /\ p = IF o = f THEN File!None ELSE o
        /\ p # File!None => c = b
        /\ open' \in File!Files \cup {File!None} /\ c \in {b, <<>>} /\ (open' = File!None => c = <<>>)
  <2>1. <<>> \in Seq(Nat) /\ f # File!None /\ (open = File!None => b = <<>>)
    BY <1>3, FileNames DEF Written
  <2>2. open \in File!Files \cup {File!None}
    BY DEF FileTypes
  <2>3. CASE open = f /\ open' = File!None /\ buffered' = <<>> /\ unlinked' = FALSE
    BY <1>3, <2>1, <2>3 DEF Behind
  <2>4. CASE open = f /\ open' = open /\ buffered' = buffered /\ unlinked' = TRUE
    BY <1>3, <2>1, <2>2, <2>4 DEF Behind
  <2>5. CASE open # f /\ open' = open /\ buffered' = buffered /\ unlinked' = unlinked
    BY <1>3, <2>1, <2>2, <2>5 DEF Behind
  <2> QED BY <1>5, <2>3, <2>4, <2>5
<1>7. Held(<<>>) = {} /\ <<>> \in Seq(Nat) /\ f # File!None /\ step'.op = "idle"
  BY <1>4, FileNames, StepNames DEF Held
<1>8. PICK y \in Shelf : y = disk' /\ y[f] = <<>> /\ \A g \in File!Files \ {f} : y[g] = x[g]
  <2>1. [x EXCEPT ![f] = <<>>] \in Shelf
    BY <1>7 DEF Shelf
  <2> QED BY <1>4, <2>1 DEF Shelf
<1>9. \A g \in File!Files : v[g] = (IF g = o THEN x[g] \o b ELSE x[g]) /\ x[g] \in Seq(Nat)
  BY <1>3, VirtualFiles DEF Shelf
<1>10. PICK w \in Shelf : w = Without(v, f) /\ w[f] = <<>> /\ \A g \in File!Files \ {f} : w[g] = v[g]
  BY WithoutApart
<1>11. Rest = w
  BY <1>2, <1>3, <1>4, <1>10 DEF Rest
<1>12. PICK u \in Shelf : u = Virtual' /\ \A g \in File!Files : u[g] = IF g = p THEN y[g] \o c ELSE y[g]
  <2>1. PICK z : z = Combined(y, p, c)
    OBVIOUS
  <2>2. z \in Shelf
    BY <2>1, CombinedFiles
  <2>3. \A g \in File!Files : z[g] = IF g = p THEN y[g] \o c ELSE y[g]
    BY <2>1, CombinedAt
  <2>4. Virtual' = z
    BY <1>6, <1>8, <2>1 DEF Virtual
  <2> QED BY <2>2, <2>3, <2>4
<1>13. u = w
  <2>1. ASSUME NEW g \in File!Files PROVE u[g] = w[g]
    <3>1. CASE g = f
      BY <1>6, <1>7, <1>8, <1>10, <1>12, <3>1
    <3>2. CASE g # f /\ g = o
      BY <1>6, <1>7, <1>8, <1>9, <1>10, <1>12, <3>2, FileNames
    <3>3. CASE g # f /\ g # o
      BY <1>6, <1>7, <1>8, <1>9, <1>10, <1>12, <3>3, FileNames
    <3> QED BY <3>1, <3>2, <3>3
  <2> QED BY <2>1 DEF Shelf
<1>14. FileTypes'
  <2>1. unlinked' \in BOOLEAN
    BY <1>5 DEF FileTypes
  <2>2. there' \subseteq File!Files /\ day' \in File!Days /\ log_mode' \in {"async", "sync"}
        /\ records' \in Nat /\ overtook' \in BOOLEAN /\ died' \in BOOLEAN
    BY <1>4 DEF FileTypes
  <2>3. disk' \in Shelf /\ open' \in File!Files \cup {File!None} /\ buffered' \in Seq(Nat)
    BY <1>6, <1>8
  <2> HIDE DEF FileInv
  <2> QED BY <1>4, <2>1, <2>2, <2>3 DEF FileTypes
<1>15. Written'
  <2>1. \A g \in File!Files : \A a \in Held(y[g]) : a <= records
    BY <1>3, <1>7, <1>8 DEF Written
  <2>2. Held(c) \subseteq Held(b)
    BY <1>6, <1>7
  <2>3. (\A a \in Held(c) : a <= records) /\ Held(c) \subseteq synced
    BY <1>3, <2>2 DEF Written
  <2>4. p # File!None => p \in there'
    BY <1>3, <1>4, <1>6 DEF Written
  <2>5. \A g \in File!Files \ there' : y[g] = <<>>
    BY <1>3, <1>4, <1>8 DEF Written
  <2> QED BY <1>4, <1>6, <1>8, <2>1, <2>3, <2>4, <2>5 DEF Written
<1>16. Kept'
  <2>1. Held(x[f]) \subseteq Held(x[t])
    BY <1>2, <1>3, <1>4 DEF Kept
  <2>2. \A r \in 1..records : r \in synced \cup failed \/ \E g \in File!Files : r \in Held(y[g])
    <3> SUFFICES ASSUME NEW r \in 1..records, r \notin synced \cup failed PROVE \E g \in File!Files : r \in Held(y[g])
      OBVIOUS
    <3>1. PICK g \in File!Files : r \in Held(x[g])
      BY <1>3 DEF Kept
    <3> QED BY <1>2, <1>8, <2>1, <3>1
  <2> QED BY <1>4, <1>7, <1>8, <2>2 DEF Kept
<1>17. Tidy'
  <2>1. Rest' = w
    BY <1>7, <1>12, <1>13 DEF Rest
  <2> QED BY <1>4, <1>11, <2>1 DEF Tidy
<1>18. LogFirst'
  <2> SUFFICES ASSUME ~died, ~overtook, NEW e \in File!Days, p = LogOf(e) PROVE w[CacheOf(e)] = <<>>
    BY <1>4, <1>6, <1>12, <1>13 DEF LogFirst
  <2>1. o = LogOf(e) /\ CacheOf(e) \in File!Files
    <3>1. LogOf(e) # File!None /\ CacheOf(e) \in File!Files
      BY FileNames
    <3> QED BY <1>6, <3>1
  <2>2. v[CacheOf(e)] = <<>>
    BY <1>3, <2>1 DEF LogFirst
  <2> QED BY <1>10, <2>1, <2>2
<1> QED BY <1>14, <1>15, <1>16, <1>17, <1>18

(* The start of a move, and the world around: nothing in the files changes.*)
LEMMA QuietStep ==
  ASSUME FileInv, File!MoveOldFile \/ File!DirChanges \/ File!NextDay \/ File!SetMode
  PROVE  FileInv'
<1> USE DEF FileInv
<1>1. UNCHANGED <<disk, there, open, buffered, unlinked, records, synced, failed, overtook, died>>
  BY DEF File!MoveOldFile, File!DirChanges, File!NextDay, File!SetMode
<1>2. \/ step' = step
      \/ /\ step'.op = "append" /\ step.op # "remove"
         /\ \E d \in File!Days : step' = File!To("append", CacheOf(d))
  <2>1. CASE File!MoveOldFile
    <3>1. PICK f \in there : f[1] = "cache" /\ step' = File!To("append", f)
      BY <2>1 DEF File!MoveOldFile
    <3>2. PICK d \in File!Days : f \in {LogOf(d), CacheOf(d)}
      BY FileNames DEF FileTypes
    <3>3. f = CacheOf(d)
      BY <3>1, <3>2 DEF LogOf
    <3> QED BY <2>1, <3>1, <3>3, StepNames DEF File!MoveOldFile
  <2>2. CASE ~File!MoveOldFile
    BY <2>2 DEF File!DirChanges, File!NextDay, File!SetMode
  <2> QED BY <2>1, <2>2
<1>3. \/ step'.op = step.op /\ step'.file = step.file
      \/ step'.op # "remove" /\ step.op # "remove"
  BY <1>2
<1>4. day' \in File!Days /\ log_mode' \in {"async", "sync"}
  <2>1. CASE File!NextDay
    BY <2>1, MachinesAssumption DEF File!NextDay, File!Days, FileTypes
  <2>2. CASE File!SetMode
    BY <2>2 DEF File!SetMode, FileTypes
  <2>3. CASE File!MoveOldFile \/ File!DirChanges
    BY <2>3 DEF File!MoveOldFile, File!DirChanges, FileTypes
  <2> QED BY <2>1, <2>2, <2>3
<1>5. Virtual' = Virtual /\ Behind' = Behind /\ Rest' = Rest
  BY <1>1, <1>3 DEF Virtual, Behind, Rest
<1>6. FileTypes'
  BY <1>1, <1>2, <1>4 DEF FileTypes
<1>7. Written' /\ LogFirst'
  BY <1>1, <1>5 DEF Written, LogFirst
<1>8. Kept'
  BY <1>1, <1>3 DEF Kept
<1>9. Tidy'
  BY <1>1, <1>5 DEF Tidy
<1> QED BY <1>6, <1>7, <1>8, <1>9

(* A death empties the buffer, whose records are of synchronous mode.      *)
LEMMA CrashStep ==
  ASSUME FileInv, File!Crash
  PROVE  FileInv'
<1> USE DEF FileInv
<1>1. /\ UNCHANGED <<day, log_mode, there, records, synced, failed, overtook, disk>>
      /\ died' = TRUE /\ step' = File!Idle /\ open' = File!None /\ buffered' = <<>> /\ unlinked' = FALSE
  BY DEF File!Crash
<1>2. Held(<<>>) = {} /\ <<>> \in Seq(Nat) /\ step'.op # "remove" /\ Behind' = File!None
  BY <1>1, StepNames DEF Held, Behind
<1>3. FileTypes'
  <2>1. TRUE \in BOOLEAN /\ FALSE \in BOOLEAN
    OBVIOUS
  <2>2. /\ day' \in File!Days /\ log_mode' \in {"async", "sync"} /\ there' \subseteq File!Files
        /\ overtook' \in BOOLEAN /\ records' \in Nat /\ disk' \in Shelf
    BY <1>1 DEF FileTypes
  <2> HIDE DEF FileInv
  <2> QED BY <1>1, <1>2, <2>1, <2>2 DEF FileTypes
<1>4. Written'
  BY <1>1, <1>2 DEF Written
<1>5. Kept'
  BY <1>1, <1>2 DEF Kept
<1>6. Tidy' /\ LogFirst'
  BY <1>1 DEF Tidy, LogFirst
<1> QED BY <1>3, <1>4, <1>5, <1>6

LEMMA FilesStep == FileInv /\ [File!Next]_(File!fileVars) => FileInv'
<1> SUFFICES ASSUME FileInv, [File!Next]_(File!fileVars) PROVE FileInv'
  OBVIOUS
<1>1. CASE File!ToCache \/ File!ToLog \/ File!ToNewCache
  BY <1>1, RecordSteps
<1>2. CASE File!Nowhere
  BY <1>2, NowhereStep
<1>3. CASE File!AppendFile
  BY <1>3, AppendStep
<1>4. CASE File!Remove
  BY <1>4, RemoveStep
<1>5. CASE File!MoveOldFile \/ File!DirChanges \/ File!NextDay \/ File!SetMode
  BY <1>5, QuietStep
<1>6. CASE File!Crash
  BY <1>6, CrashStep
<1>7. CASE UNCHANGED File!fileVars
  BY <1>7 DEF File!fileVars, FileInv, FileTypes, Written, Kept, Tidy, LogFirst, Rest, Virtual, Behind
<1> QED BY <1>1, <1>2, <1>3, <1>4, <1>5, <1>6, <1>7 DEF File!Next, File!Moves

LEMMA FilesHold == File!Spec => []FileInv
BY FilesStart, FilesStep, PTL DEF File!Spec

(* A record of asynchronous mode is in a file or was refused by both       *)
(* directories, whatever dies; without a death it is there once, and the   *)
(* records of a day are in their order: for any number of days, records    *)
(* and faults.                                                             *)
THEOREM MachinesFilesKeep == MachinesSpec => []FilesKeep
<1>1. MachinesSpec => File!Spec
  BY MachinesAreTheirModules
<1> QED BY <1>1, FilesHold, FilesSafe, PTL

-----------------------------------------------------------------------------
(* The log block: what the decoder reads.  The loop of the decoder is a    *)
(* recursive function over the cells; Body is one turn of it.              *)
ZCells == [t : {"z"}, n : Nat, k : Nat, d : Nat]

Body(s, len, h) ==
  [i \in 1..(len + 1) |->
     IF i > len \/ s[i].t # "len" THEN <<>>
     ELSE SubSeq(s, i + 2, IF i + 2 + s[i].c - 1 < len THEN i + 2 + s[i].c - 1 ELSE len)
          \o (IF i + 2 + s[i].c - 1 < len THEN h[i + 2 + s[i].c - 1 + 1] ELSE <<>>)]

LEMMA PiecesAre ==
  ASSUME NEW s, NEW len
  PROVE  Block!Pieces(s, len) = CHOOSE h : h = Body(s, len, h)
BY DEF Block!Pieces, Body, Block!PrefixLen

LEMMA PiecesFix ==
  ASSUME NEW s, NEW len, NEW f, f = Body(s, len, f)
  PROVE  Block!Pieces(s, len) = Body(s, len, Block!Pieces(s, len))
BY PiecesAre

(* A block of len cells of data that the decoder reads: pieces begin at    *)
(* the members of B, and g[b] is what it has read from b on.               *)
Read(s, len, B, g) ==
  /\ B \subseteq 1..(len + 1) /\ 1 \in B /\ len + 1 \in B
  /\ g \in [B -> Seq(ZCells)] /\ g[len + 1] = <<>>
  /\ \A b \in B : b <= len =>
       /\ s[b].t = "len" /\ s[b].c \in Nat /\ b + 2 + s[b].c \in B
       /\ \A i \in (b + 2)..(b + 1 + s[b].c) : s[i] \in ZCells
       /\ g[b] = SubSeq(s, b + 2, b + 1 + s[b].c) \o g[b + 2 + s[b].c]
  /\ \A i \in 1..len : i \notin B => s[i].t # "len"

Reads(s, len, q) == \E B, g : Read(s, len, B, g) /\ g[1] = q

(* A set of numbers below a bound has a greatest member.                   *)
LEMMA Greatest ==
  ASSUME NEW n \in Nat, NEW S \in SUBSET (1..n), S # {}
  PROVE  \E m \in S : \A j \in S : j <= m
<1> DEFINE D == {n - j : j \in S}
<1>1. PICK R : R = {ss \in Nat \X Nat : ss[1] < ss[2]}
  OBVIOUS
<1>2. IsWellFoundedOn({ss \in Nat \X Nat : ss[1] < ss[2]}, Nat)
  BY NatLessThanWellFounded DEF OpToRel
<1>3. D \in SUBSET Nat /\ D # {}
  <2>1. PICK j : j \in S
    OBVIOUS
  <2>2. n - j \in D
    BY <2>1
  <2>3. \A k \in S : n - k \in Nat
    OBVIOUS
  <2> QED BY <2>2, <2>3
<1>4. PICK i \in D : \A j \in D : <<j, i>> \notin R
  BY <1>1, <1>2, <1>3, WFMin
<1>5. PICK m \in S : i = n - m
  BY <1>4
<1>6. ASSUME NEW j \in S, m < j PROVE FALSE
  <2>1. n - j \in D /\ n - j < i /\ n - j \in Nat /\ i \in Nat
    BY <1>5, <1>6
  <2>2. <<n - j, i>> \in Nat \X Nat /\ <<n - j, i>>[1] < <<n - j, i>>[2]
    BY <2>1
  <2> QED BY <1>1, <1>4, <2>1, <2>2
<1> QED BY <1>6

(* One turn of the decoder's loop, at a place where a piece begins and at  *)
(* any other.                                                              *)
Turn(s, len, B, g, h, i) ==
  /\ i \notin B \/ i = len + 1 => Body(s, len, h)[i] = <<>>
  /\ i \in B /\ i # len + 1 =>
       \E next \in B : next > i /\ (h[next] = g[next] => Body(s, len, h)[i] = g[i])

LEMMA ReadTurn ==
  ASSUME NEW s, NEW len \in Nat, NEW B, NEW g, Read(s, len, B, g), NEW h, NEW i \in 1..(len + 1)
  PROVE  Turn(s, len, B, g, h, i)
<1>1. PICK c : c = s[i].c
  OBVIOUS
<1>2. Body(s, len, h)[i] =
     IF i > len \/ s[i].t # "len" THEN <<>>
     ELSE SubSeq(s, i + 2, IF i + 2 + c - 1 < len THEN i + 2 + c - 1 ELSE len)
          \o (IF i + 2 + c - 1 < len THEN h[i + 2 + c - 1 + 1] ELSE <<>>)
  BY <1>1 DEF Body
<1>3. CASE i = len + 1
  BY <1>2, <1>3 DEF Turn
<1>4. CASE i # len + 1 /\ i \notin B
  <2>1. i \in 1..len
    BY <1>4
  <2>2. s[i].t # "len"
    BY <1>4, <2>1 DEF Read
  <2> QED BY <1>2, <1>4, <2>2 DEF Turn
<1>5. CASE i # len + 1 /\ i \in B
  <2>1. PICK next : next = i + 2 + c
    OBVIOUS
  <2>2. i <= len /\ i \in Nat
    BY <1>5
  <2>3. /\ s[i].t = "len" /\ c \in Nat /\ next \in B
        /\ g[i] = SubSeq(s, i + 2, i + 1 + c) \o g[next]
    BY <1>1, <1>5, <2>1, <2>2 DEF Read
  <2>4. next \in 1..(len + 1)
    BY <2>3 DEF Read
  <2>5. next > i /\ i + 2 + c - 1 = i + 1 + c /\ i + 2 + c - 1 + 1 = next
    BY <2>1, <2>2, <2>3
  <2>6. CASE next = len + 1
    <3>1. ~(i + 2 + c - 1 < len) /\ len = i + 1 + c
      BY <2>1, <2>2, <2>3, <2>6
    <3>2. g[next] = <<>>
      BY <2>6 DEF Read
    <3> QED BY <1>2, <1>5, <2>2, <2>3, <2>5, <3>1, <3>2 DEF Turn
  <2>7. CASE next # len + 1
    <3>1. i + 2 + c - 1 < len
      BY <2>1, <2>2, <2>3, <2>4, <2>7
    <3>2. h[next] = g[next] => Body(s, len, h)[i] = g[i]
      <4>1. ~(i > len)
        BY <2>2
      <4>2. Body(s, len, h)[i] = SubSeq(s, i + 2, i + 2 + c - 1) \o h[i + 2 + c - 1 + 1]
        BY <1>2, <2>3, <3>1, <4>1, Zenon
      <4> QED BY <2>3, <2>5, <4>2, Zenon
    <3> QED BY <1>5, <2>3, <2>5, <3>2 DEF Turn
  <2> QED BY <2>6, <2>7
<1> QED BY <1>3, <1>4, <1>5

(* Where the pieces begin fixes what is read.                              *)
LEMMA ReadOnce ==
  ASSUME NEW s, NEW len \in Nat, NEW B, NEW g, Read(s, len, B, g), NEW h, h = Body(s, len, h)
  PROVE  \A b \in B : h[b] = g[b]
<1>1. PICK S : S = {b \in B : h[b] # g[b]}
  OBVIOUS
<1> SUFFICES ASSUME S # {} PROVE FALSE
  BY <1>1
<1>2. B \subseteq 1..(len + 1) /\ g[len + 1] = <<>> /\ len + 1 \in Nat
  BY DEF Read
<1>3. S \in SUBSET (1..(len + 1))
  BY <1>1, <1>2
<1>4. PICK m \in S : \A j \in S : j <= m
  BY <1>2, <1>3, Greatest
<1>5. m \in 1..(len + 1) /\ m \in B /\ h[m] # g[m]
  BY <1>1, <1>3, <1>4
<1>6. h[m] = Body(s, len, h)[m]
  OBVIOUS
<1>9. Turn(s, len, B, g, h, m)
  BY <1>5, ReadTurn
<1>7. CASE m = len + 1
  BY <1>2, <1>5, <1>6, <1>7, <1>9 DEF Turn
<1>8. CASE m # len + 1
  <2>1. PICK next \in B : next > m /\ (h[next] = g[next] => Body(s, len, h)[m] = g[m])
    BY <1>5, <1>8, <1>9 DEF Turn
  <2>2. next \notin S
    BY <1>2, <1>4, <1>5, <2>1
  <2> QED BY <1>1, <1>5, <1>6, <2>1, <2>2
<1> QED BY <1>7, <1>8

LEMMA ReadIs ==
  ASSUME NEW s, NEW len \in Nat, NEW q, Reads(s, len, q)
  PROVE  Block!Payload(s, len) = q /\ q \in Seq(ZCells)
<1> PICK B, g : Read(s, len, B, g) /\ g[1] = q
  BY DEF Reads
<1>1. PICK f : f = [i \in 1..(len + 1) |-> IF i \in B THEN g[i] ELSE <<>>]
  OBVIOUS
<1>2. \A b \in B : f[b] = g[b]
  BY <1>1 DEF Read
<1>3. ASSUME NEW i \in 1..(len + 1) PROVE f[i] = Body(s, len, f)[i]
  <2> Turn(s, len, B, g, f, i)
    BY ReadTurn
  <2>1. CASE i \notin B
    BY <1>1, <2>1 DEF Turn
  <2>2. CASE i = len + 1
    <3>1. g[len + 1] = <<>> /\ len + 1 \in B
      BY DEF Read
    <3> QED BY <1>2, <2>2, <3>1 DEF Turn
  <2>3. CASE i \in B /\ i # len + 1
    BY <1>2, <2>3 DEF Turn
  <2> QED BY <2>1, <2>2, <2>3
<1>4. f = Body(s, len, f)
  BY <1>1, <1>3 DEF Body
<1>5. \A b \in B : Block!Pieces(s, len)[b] = g[b]
  BY <1>4, PiecesFix, ReadOnce
<1> QED BY <1>5 DEF Block!Payload, Read

LEMMA Associates == \A x, y, z \in Seq(ZCells) : (x \o y) \o z = x \o (y \o z)
<1>1. PICK S : S = ZCells
  OBVIOUS
<1>2. ASSUME NEW x \in Seq(S), NEW y \in Seq(S), NEW z \in Seq(S) PROVE (x \o y) \o z = x \o (y \o z)
  BY ConcatAssociative
<1> QED BY <1>1, <1>2

LEMMA SameCells ==
  ASSUME NEW s, NEW r, NEW m \in Int, NEW n \in Int, \A i \in m..n : r[i] = s[i],
         \A i \in m..n : s[i] \in ZCells
  PROVE  SubSeq(r, m, n) = SubSeq(s, m, n)
<1>1. PICK a : a = SubSeq(r, m, n)
  OBVIOUS
<1>2. PICK b : b = SubSeq(s, m, n)
  OBVIOUS
<1>3. PICK l : l = IF m <= n THEN n - m + 1 ELSE 0
  OBVIOUS
<1>4. \A i \in m..n : r[i] \in ZCells
  OBVIOUS
<1>5. a \in Seq(ZCells) /\ Len(a) = l /\ \A i \in 1..(n - m + 1) : a[i] = r[m + i - 1]
  BY <1>1, <1>3, <1>4, SubSeqProperties
<1>6. b \in Seq(ZCells) /\ Len(b) = l /\ \A i \in 1..(n - m + 1) : b[i] = s[m + i - 1]
  BY <1>2, <1>3, SubSeqProperties
<1>7. \A i \in 1..l : a[i] = b[i]
  <2> SUFFICES ASSUME NEW i \in 1..l PROVE a[i] = b[i]
    OBVIOUS
  <2>1. i \in 1..(n - m + 1) /\ m + i - 1 \in m..n
    BY <1>3
  <2> QED BY <1>5, <1>6, <2>1
<1>8. a = b
  BY <1>5, <1>6, <1>7, LenProperties
<1> QED BY <1>1, <1>2, <1>8

(* What is behind the length is not read.                                  *)
LEMMA ReadSame ==
  ASSUME NEW s, NEW len \in Nat, NEW B, NEW g, Read(s, len, B, g),
         NEW r, \A i \in 1..len : r[i] = s[i]
  PROVE  Read(r, len, B, g)
<1>1. B \subseteq 1..(len + 1)
  BY DEF Read
<1>2. ASSUME NEW b \in B, b <= len
      PROVE  /\ r[b].t = "len" /\ r[b].c \in Nat /\ b + 2 + r[b].c \in B
             /\ \A i \in (b + 2)..(b + 1 + r[b].c) : r[i] \in ZCells
             /\ g[b] = SubSeq(r, b + 2, b + 1 + r[b].c) \o g[b + 2 + r[b].c]
  <2>1. b \in 1..len /\ b \in Nat
    BY <1>1, <1>2
  <2>2. PICK c : c = s[b].c
    OBVIOUS
  <2>3. r[b] = s[b] /\ r[b].c = c
    BY <2>1, <2>2
  <2>4. /\ s[b].t = "len" /\ c \in Nat /\ b + 2 + c \in B
        /\ \A i \in (b + 2)..(b + 1 + c) : s[i] \in ZCells
        /\ g[b] = SubSeq(s, b + 2, b + 1 + c) \o g[b + 2 + c]
    BY <1>2, <2>2 DEF Read
  <2>5. b + 1 + c <= len /\ b + 2 \in Int /\ b + 1 + c \in Int
    BY <1>1, <2>1, <2>4
  <2>6. \A i \in (b + 2)..(b + 1 + c) : r[i] = s[i]
    BY <2>1, <2>5
  <2>7. SubSeq(r, b + 2, b + 1 + c) = SubSeq(s, b + 2, b + 1 + c)
    BY <2>4, <2>5, <2>6, SameCells
  <2> QED BY <2>3, <2>4, <2>6, <2>7
<1>3. \A i \in 1..len : i \notin B => r[i].t # "len"
  BY DEF Read
<1> QED BY <1>2, <1>3 DEF Read

(* Behind len cells there is a piece of the data p: its length and p.      *)
Piece(s, len, p) ==
  /\ s[len + 1] = [t |-> "len", c |-> Len(p)] /\ s[len + 2].t # "len"
  /\ \A j \in 1..Len(p) : s[len + 2 + j] = p[j]

(* The next piece is read behind what was read.                            *)
LEMMA ReadNext ==
  ASSUME NEW s, NEW len \in Nat, NEW q, Reads(s, len, q), NEW p \in Seq(ZCells), Piece(s, len, p)
  PROVE  Reads(s, len + 2 + Len(p), q \o p)
<1> PICK B, g : Read(s, len, B, g) /\ g[1] = q
  BY DEF Reads
<1>0. /\ s[len + 1] = [t |-> "len", c |-> Len(p)] /\ s[len + 2].t # "len"
      /\ \A j \in 1..Len(p) : s[len + 2 + j] = p[j]
  BY DEF Piece
<1>1. PICK c : c = Len(p)
  OBVIOUS
<1>2. PICK l : l = len + 2 + c
  OBVIOUS
<1>3. c \in Nat /\ l \in Nat /\ l > len + 1 /\ len + 1 + 2 + c = l + 1
  BY <1>1, <1>2
<1>4. PICK C : C = B \cup {l + 1}
  OBVIOUS
<1>5. PICK h : h = [b \in C |-> IF b = l + 1 THEN <<>> ELSE g[b] \o p]
  OBVIOUS
<1>6. B \subseteq 1..(len + 1) /\ 1 \in B /\ len + 1 \in B /\ g \in [B -> Seq(ZCells)] /\ g[len + 1] = <<>>
  BY DEF Read
<1>7. l + 1 \notin B /\ C \subseteq 1..(l + 1) /\ 1 \in C /\ l + 1 \in C
  BY <1>3, <1>4, <1>6
<1>8. \A b \in B : h[b] = g[b] \o p
  BY <1>4, <1>5, <1>7
<1>9. h[l + 1] = <<>>
  BY <1>5, <1>7
<1>10. h \in [C -> Seq(ZCells)]
  <2>1. \A b \in B : g[b] \o p \in Seq(ZCells)
    BY <1>6
  <2>2. \A b \in C : (IF b = l + 1 THEN <<>> ELSE g[b] \o p) \in Seq(ZCells)
    BY <1>4, <2>1
  <2> QED BY <1>5, <2>2
<1>11. ASSUME NEW b \in C, b <= l
      PROVE  /\ s[b].t = "len" /\ s[b].c \in Nat /\ b + 2 + s[b].c \in C
             /\ \A i \in (b + 2)..(b + 1 + s[b].c) : s[i] \in ZCells
             /\ h[b] = SubSeq(s, b + 2, b + 1 + s[b].c) \o h[b + 2 + s[b].c]
  <2>1. b \in B /\ b \in 1..(len + 1)
    BY <1>3, <1>4, <1>6, <1>11
  <2>2. CASE b = len + 1
    <3>1. s[b].t = "len" /\ s[b].c = c
      BY <1>0, <1>1, <2>2
    <3>2. b + 2 + c = l + 1 /\ b + 1 + c = l /\ b + 2 = len + 3
      BY <1>2, <1>3, <2>2
    <3>3. \A i \in (len + 3)..l : s[i] = p[i - len - 2] /\ i - len - 2 \in 1..c
      <4> SUFFICES ASSUME NEW i \in (len + 3)..l PROVE s[i] = p[i - len - 2] /\ i - len - 2 \in 1..c
        OBVIOUS
      <4>1. i - len - 2 \in 1..Len(p) /\ len + 2 + (i - len - 2) = i
        BY <1>1, <1>2, <1>3
      <4> QED BY <1>0, <1>1, <4>1
    <3>4. \A i \in (len + 3)..l : s[i] \in ZCells
      BY <1>1, <3>3
    <3>5. SubSeq(s, len + 3, l) = p
      <4>1. PICK a : a = SubSeq(s, len + 3, l)
        OBVIOUS
      <4>2. len + 3 \in Int /\ l \in Int /\ l - (len + 3) + 1 = c /\ ((len + 3 <= l) <=> (c # 0))
        BY <1>2, <1>3
      <4>3. a \in Seq(ZCells) /\ Len(a) = IF len + 3 <= l THEN l - (len + 3) + 1 ELSE 0
        BY <3>4, <4>1, <4>2, SubSeqProperties
      <4>4. \A i \in 1..(l - (len + 3) + 1) : a[i] = s[len + 3 + i - 1]
        BY <3>4, <4>1, <4>2, SubSeqProperties
      <4>5. Len(a) = c
        BY <4>2, <4>3
      <4>6. \A i \in 1..c : a[i] = p[i]
        <5> SUFFICES ASSUME NEW i \in 1..c PROVE a[i] = p[i]
          OBVIOUS
        <5>1. PICK k : k = len + 3 + i - 1
          OBVIOUS
        <5>2. i \in 1..(l - (len + 3) + 1) /\ k = len + 2 + i
          BY <1>3, <4>2, <5>1
        <5>3. a[i] = s[k]
          BY <4>4, <5>1, <5>2
        <5> QED BY <1>0, <1>1, <5>2, <5>3
      <4>7. a = p
        BY <1>1, <4>3, <4>5, <4>6, LenProperties
      <4> QED BY <4>1, <4>7
    <3>6. h[b] = <<>> \o p /\ h[l + 1] = <<>>
      BY <1>6, <1>8, <1>9, <2>1, <2>2
    <3>7. <<>> \o p = p \o <<>>
      BY ConcatEmptySeq
    <3> QED BY <1>3, <1>7, <3>1, <3>2, <3>4, <3>5, <3>6, <3>7
  <2>3. CASE b # len + 1
    <3>1. b <= len /\ b \in Nat
      BY <2>1, <2>3
    <3>2. PICK e : e = s[b].c
      OBVIOUS
    <3>3. /\ s[b].t = "len" /\ e \in Nat /\ b + 2 + e \in B
          /\ \A i \in (b + 2)..(b + 1 + e) : s[i] \in ZCells
          /\ g[b] = SubSeq(s, b + 2, b + 1 + e) \o g[b + 2 + e]
      BY <2>1, <3>1, <3>2 DEF Read
    <3>4. h[b] = g[b] \o p /\ h[b + 2 + e] = g[b + 2 + e] \o p /\ g[b + 2 + e] \in Seq(ZCells)
      BY <1>6, <1>8, <2>1, <3>3
    <3>5. SubSeq(s, b + 2, b + 1 + e) \in Seq(ZCells)
      BY <3>1, <3>3, SubSeqProperties
    <3>6. h[b] = SubSeq(s, b + 2, b + 1 + e) \o h[b + 2 + e]
      <4>1. PICK x \in Seq(ZCells), y \in Seq(ZCells), z \in Seq(ZCells) :
              x = SubSeq(s, b + 2, b + 1 + e) /\ y = g[b + 2 + e] /\ z = p
        BY <3>4, <3>5
      <4>2. (x \o y) \o z = x \o (y \o z)
        BY Associates
      <4> QED BY <3>3, <3>4, <4>1, <4>2
    <3> QED BY <1>4, <3>2, <3>3, <3>6
  <2> QED BY <2>2, <2>3
<1>12. ASSUME NEW i \in 1..l, i \notin C PROVE s[i].t # "len"
  <2>1. CASE i <= len
    <3>1. i \in 1..len /\ i \notin B
      BY <1>4, <1>12, <2>1
    <3> QED BY <3>1 DEF Read
  <2>2. CASE i = len + 1
    BY <1>4, <1>6, <1>12, <2>2
  <2>3. CASE i = len + 2
    BY <1>0, <2>3
  <2>4. CASE i > len + 2
    <3>1. PICK k : k = i - len - 2
      OBVIOUS
    <3>2. k \in 1..Len(p) /\ len + 2 + k = i
      BY <1>1, <1>2, <1>3, <2>4, <3>1
    <3>3. s[len + 2 + k] = p[k] /\ p[k] \in ZCells
      BY <1>0, <3>2, ElementOfSeq
    <3>4. s[i] = p[k]
      BY <3>2, <3>3
    <3> QED BY <3>3, <3>4 DEF ZCells
  <2> QED BY <2>1, <2>2, <2>3, <2>4
<1>13. Read(s, l, C, h)
  BY <1>7, <1>9, <1>10, <1>11, <1>12 DEF Read
<1> QED BY <1>1, <1>2, <1>6, <1>8, <1>13 DEF Reads

(* The stream that is read ends with a line, and so do the lines in it.    *)
Whole(q) == Block!Continuous(q) /\ (q # <<>> => q[Len(q)].k = q[Len(q)].d)
Ends(q)  == Only(q, {c \in Members(q) : c.k = c.d})

LEMMA DeflatedIs ==
  ASSUME NEW n \in Nat, NEW d \in Nat
  PROVE  /\ Block!Deflated(n, d) \in Seq(ZCells) /\ Len(Block!Deflated(n, d)) = d
         /\ \A k \in 1..d : Block!Deflated(n, d)[k] = [t |-> "z", n |-> n, k |-> k, d |-> d]
BY DEF Block!Deflated, ZCells

LEMMA WholeNext ==
  ASSUME NEW q \in Seq(ZCells), Whole(q), NEW n \in Nat, NEW d \in Nat \ {0}
  PROVE  Whole(q \o Block!Deflated(n, d))
<1>1. PICK p : p = Block!Deflated(n, d)
  OBVIOUS
<1>2. p \in Seq(ZCells) /\ Len(p) = d /\ \A k \in 1..d : p[k] = [t |-> "z", n |-> n, k |-> k, d |-> d]
  BY <1>1, DeflatedIs
<1>3. PICK r : r = q \o p
  OBVIOUS
<1>4. PICK m : m = Len(q)
  OBVIOUS
<1>5. /\ r \in Seq(ZCells) /\ Len(r) = m + d /\ m \in Nat /\ d \in Nat /\ d > 0 /\ DOMAIN q = 1..m
      /\ \A i \in 1..(m + d) : r[i] = IF i <= m THEN q[i] ELSE p[i - m]
      /\ DOMAIN r = 1..(m + d)
  <2>1. /\ q \o p \in Seq(ZCells) /\ Len(q \o p) = Len(q) + Len(p)
        /\ \A i \in 1..(Len(q) + Len(p)) : (q \o p)[i] = IF i <= Len(q) THEN q[i] ELSE p[i - Len(q)]
    BY <1>2, ConcatProperties
  <2>2. Len(q) \in Nat /\ DOMAIN q = 1..Len(q)
    OBVIOUS
  <2>3. r \in Seq(ZCells) /\ Len(r) = m + d
    BY <1>2, <1>3, <1>4, <2>1
  <2>4. DOMAIN r = 1..(m + d)
    BY <2>3, LenProperties
  <2>5. \A i \in 1..(m + d) : r[i] = IF i <= m THEN q[i] ELSE p[i - m]
    BY <1>2, <1>3, <1>4, <2>1
  <2>6. m \in Nat /\ DOMAIN q = 1..m
    BY <1>4, <2>2
  <2>7. d \in Nat /\ d > 0
    OBVIOUS
  <2> QED BY <2>3, <2>4, <2>5, <2>6, <2>7
<1>6. r[m + d].k = r[m + d].d
  <2>1. m \in Nat /\ d \in Nat /\ d > 0
    BY <1>5
  <2>2. m + d \in 1..(m + d) /\ ~(m + d <= m) /\ m + d - m = d /\ d \in 1..d
    BY <2>1
  <2>3. r[m + d] = p[d]
    BY <1>5, <2>2
  <2> QED BY <1>2, <2>2, <2>3
<1>7. ASSUME NEW i \in DOMAIN r
      PROVE  /\ r[i].t = "z"
             /\ IF r[i].k = 1 THEN i = 1 \/ r[i - 1].k = r[i - 1].d
                              ELSE i > 1 /\ r[i - 1] = [r[i] EXCEPT !.k = @ - 1]
  <2>0. i \in 1..(m + d) /\ i \in Nat /\ r[i] \in ZCells
    BY <1>5
  <2>1. CASE i <= m
    <3>1. i \in DOMAIN q /\ r[i] = q[i]
      BY <1>5, <2>0, <2>1
    <3>2. /\ q[i].t = "z"
          /\ IF q[i].k = 1 THEN i = 1 \/ q[i - 1].k = q[i - 1].d
                           ELSE i > 1 /\ q[i - 1] = [q[i] EXCEPT !.k = @ - 1]
      BY <3>1 DEF Whole, Block!Continuous
    <3>3. i # 1 => r[i - 1] = q[i - 1]
      BY <1>5, <2>0, <2>1
    <3> QED BY <2>0, <3>1, <3>2, <3>3
  <2>2. CASE i = m + 1
    <3>1. r[i] = p[1] /\ 1 \in 1..d
      BY <1>5, <2>2
    <3>2. r[i].t = "z" /\ r[i].k = 1
      BY <1>2, <3>1
    <3>3. i # 1 => q # <<>> /\ r[i - 1] = q[m]
      BY <1>4, <1>5, <2>2
    <3> QED BY <1>4, <3>2, <3>3 DEF Whole
  <2>3. CASE i > m + 1
    <3>0. i - 1 \in 1..(m + d) /\ ~(i <= m) /\ ~(i - 1 <= m) /\ i - m \in 1..d /\ i - 1 - m \in 1..d
      <4>1. m \in Nat /\ d \in Nat
        BY <1>5
      <4>2. PICK j \in Nat : j = i /\ j <= m + d /\ j > m + 1
        BY <2>0, <2>3
      <4>3. j - 1 \in 1..(m + d)
        BY <4>1, <4>2
      <4>4. j - m \in 1..d
        BY <4>1, <4>2
      <4>5. j - 1 - m \in 1..d
        BY <4>1, <4>2
      <4>6. ~(j <= m) /\ ~(j - 1 <= m)
        BY <4>1, <4>2
      <4> QED BY <4>2, <4>3, <4>4, <4>5, <4>6
    <3>1. r[i] = p[i - m] /\ r[i - 1] = p[i - 1 - m] /\ i - m \in 1..d /\ i - 1 - m \in 1..d
      BY <1>5, <2>0, <3>0
    <3>2. /\ r[i] = [t |-> "z", n |-> n, k |-> i - m, d |-> d]
          /\ r[i - 1] = [t |-> "z", n |-> n, k |-> i - 1 - m, d |-> d]
      BY <1>2, <3>1
    <3>3. i - m # 1 /\ i > 1 /\ (i - m) - 1 = i - 1 - m
      BY <1>5, <2>0, <2>3
    <3> QED BY <3>2, <3>3
  <2> QED BY <1>5, <2>0, <2>1, <2>2, <2>3
<1>8. Block!Continuous(r)
  BY <1>7 DEF Block!Continuous
<1> QED BY <1>1, <1>3, <1>5, <1>6, <1>8 DEF Whole

(* A list with one more member of K, at its end.                           *)
LEMMA OnlyNext ==
  ASSUME NEW q \in Seq(ZCells), NEW p \in Seq(ZCells), p # <<>>,
         \A i \in 1..(Len(p) - 1) : p[i].k # p[i].d, p[Len(p)].k = p[Len(p)].d
  PROVE  Ends(q \o p) = Append(Ends(q), p[Len(p)])
<1>1. PICK m : m = Len(q)
  OBVIOUS
<1>2. PICK d : d = Len(p)
  OBVIOUS
<1>3. PICK r : r = q \o p
  OBVIOUS
<1>4. /\ r \in Seq(ZCells) /\ Len(r) = m + d /\ m \in Nat /\ d \in Nat /\ d > 0
      /\ DOMAIN q = 1..m /\ DOMAIN r = 1..(m + d)
      /\ \A i \in 1..(m + d) : r[i] = IF i <= m THEN q[i] ELSE p[i - m]
  <2>1. /\ q \o p \in Seq(ZCells) /\ Len(q \o p) = Len(q) + Len(p)
        /\ \A i \in 1..(Len(q) + Len(p)) : (q \o p)[i] = IF i <= Len(q) THEN q[i] ELSE p[i - Len(q)]
    BY ConcatProperties
  <2>2. Len(q) \in Nat /\ DOMAIN q = 1..Len(q) /\ Len(p) \in Nat /\ Len(p) > 0
    OBVIOUS
  <2>3. r \in Seq(ZCells) /\ Len(r) = m + d
    BY <1>1, <1>2, <1>3, <2>1
  <2>4. DOMAIN r = 1..(m + d)
    BY <2>3, LenProperties
  <2>5. \A i \in 1..(m + d) : r[i] = IF i <= m THEN q[i] ELSE p[i - m]
    BY <1>1, <1>2, <1>3, <2>1
  <2> QED BY <1>1, <1>2, <2>2, <2>3, <2>4, <2>5
<1>5. PICK P : P = {i \in DOMAIN q : q[i].k = q[i].d}
  OBVIOUS
<1>6. PICK R : R = {i \in DOMAIN r : r[i].k = r[i].d}
  OBVIOUS
<1>7. PlacesOf(q, {c \in Members(q) : c.k = c.d}) = P /\ PlacesOf(r, {c \in Members(r) : c.k = c.d}) = R
  BY <1>5, <1>6 DEF PlacesOf, Members
<1>8. R = P \cup {m + d}
  <2>1. ASSUME NEW i \in 1..(m + d) PROVE i \in R <=> i \in P \cup {m + d}
    <3>1. CASE i <= m
      <4>1. i \in DOMAIN q /\ i \in DOMAIN r /\ r[i] = q[i] /\ i # m + d
        BY <1>4, <3>1
      <4> QED BY <1>5, <1>6, <4>1
    <3>2. CASE i > m /\ i # m + d
      <4>1. i - m \in 1..(Len(p) - 1) /\ r[i] = p[i - m]
        BY <1>2, <1>4, <3>2
      <4>2. r[i].k # r[i].d
        BY <4>1
      <4>3. i \notin DOMAIN q
        BY <1>4, <3>2
      <4> QED BY <1>5, <1>6, <3>2, <4>2, <4>3
    <3>3. CASE i = m + d
      <4>1. r[i] = p[Len(p)] /\ i \in DOMAIN r
        BY <1>2, <1>4, <3>3
      <4> QED BY <1>6, <3>3, <4>1
    <3> QED BY <1>4, <3>1, <3>2, <3>3
  <2>2. R \subseteq 1..(m + d) /\ P \cup {m + d} \subseteq 1..(m + d)
    BY <1>4, <1>5, <1>6
  <2> QED BY <2>1, <2>2
<1>9. IsFiniteSet(P) /\ P \in SUBSET Nat /\ \A i \in P : i < m + d
  <2>1. P \subseteq 1..m
    BY <1>4, <1>5
  <2>2. IsFiniteSet(1..m)
    BY <1>4, UpTo
  <2>3. IsFiniteSet(P)
    BY <2>1, <2>2, FS_Subset
  <2>4. \A i \in P : i \in Nat /\ i < m + d
    BY <1>4, <2>1
  <2> QED BY <2>3, <2>4
<1>10. PICK n : n = Cardinality(P)
  OBVIOUS
<1>11. n \in Nat /\ Cardinality(R) = n + 1
  <2>1. m + d \notin P
    BY <1>4, <1>9
  <2> QED BY <1>8, <1>9, <1>10, <2>1, FS_AddElement, FS_CardinalityType
<1>12. \A i \in P : Rank(R, i) = Rank(P, i)
  <2> SUFFICES ASSUME NEW i \in P PROVE Rank(R, i) = Rank(P, i)
    OBVIOUS
  <2>1. {j \in R : j <= i} = {j \in P : j <= i}
    BY <1>4, <1>8, <1>9
  <2> QED BY <2>1 DEF Rank
<1>13. Rank(R, m + d) = n + 1
  <2>1. \A j \in R : j <= m + d
    BY <1>4, <1>8, <1>9
  <2>2. {j \in R : j <= m + d} = R
    BY <2>1
  <2> QED BY <1>11, <2>2 DEF Rank
<1>14. /\ \A i \in P : Rank(P, i) \in 1..n
       /\ \A k \in 1..n : \E i \in P : Rank(P, i) = k
       /\ \A i, j \in P : i < j => Rank(P, i) < Rank(P, j)
  BY <1>9, <1>10, Ranks
<1>15. /\ Ends(q) \in Seq(ZCells) /\ Len(Ends(q)) = n
       /\ \A i \in P : Ends(q)[Rank(P, i)] = q[i]
  <2>1. PICK K : K = {c \in Members(q) : c.k = c.d}
    OBVIOUS
  <2>2. /\ Only(q, K) \in Seq(ZCells) /\ Len(Only(q, K)) = Cardinality(PlacesOf(q, K))
        /\ \A i \in PlacesOf(q, K) : Only(q, K)[Rank(PlacesOf(q, K), i)] = q[i]
    BY OnlyRanked
  <2> QED BY <1>7, <1>10, <2>1, <2>2 DEF Ends
<1>16. /\ Ends(r) \in Seq(ZCells) /\ Len(Ends(r)) = n + 1
       /\ \A i \in R : Ends(r)[Rank(R, i)] = r[i]
  <2>1. /\ Ends(r) \in Seq(ZCells) /\ Len(Ends(r)) = Cardinality(R)
        /\ \A i \in R : Ends(r)[Rank(R, i)] = r[i]
    <3>1. PICK K : K = {c \in Members(r) : c.k = c.d}
      OBVIOUS
    <3>2. /\ Only(r, K) \in Seq(ZCells) /\ Len(Only(r, K)) = Cardinality(PlacesOf(r, K))
          /\ \A i \in PlacesOf(r, K) : Only(r, K)[Rank(PlacesOf(r, K), i)] = r[i]
      BY <1>4, OnlyRanked
    <3> QED BY <1>7, <3>1, <3>2 DEF Ends
  <2> QED BY <1>11, <2>1
<1>17. ASSUME NEW k \in 1..n PROVE Ends(r)[k] = Ends(q)[k]
  <2>1. PICK i \in P : Rank(P, i) = k
    BY <1>14
  <2>2. i \in R /\ Rank(R, i) = k
    BY <1>8, <1>12, <2>1
  <2>3. r[i] = q[i]
    BY <1>4, <1>5
  <2> QED BY <1>15, <1>16, <2>1, <2>2, <2>3
<1>18. Ends(r)[n + 1] = p[Len(p)]
  <2>1. r[m + d] = p[Len(p)]
    BY <1>2, <1>4
  <2> QED BY <1>8, <1>13, <1>16, <2>1
<1>20. Ends(r) = Append(Ends(q), p[Len(p)])
  <2>1. PICK e : e = Ends(q)
    OBVIOUS
  <2>2. PICK x : x = p[Len(p)]
    OBVIOUS
  <2>3. e \in Seq(ZCells) /\ Len(e) = n /\ x \in ZCells
    BY <1>2, <1>4, <1>15, <2>1, <2>2
  <2>4. PICK w : w = Append(e, x)
    OBVIOUS
  <2>5. /\ w \in Seq(ZCells) /\ Len(w) = n + 1 /\ w[n + 1] = x
        /\ \A k \in 1..n : w[k] = e[k]
    BY <2>3, <2>4, AppendProperties
  <2>6. \A k \in 1..(n + 1) : Ends(r)[k] = w[k]
    <3> SUFFICES ASSUME NEW k \in 1..(n + 1) PROVE Ends(r)[k] = w[k]
      OBVIOUS
    <3>1. k \in 1..n \/ k = n + 1
      BY <1>11
    <3> QED BY <1>17, <1>18, <2>1, <2>2, <2>5, <3>1
  <2>7. Ends(r) = w
    BY <1>16, <2>5, <2>6, LenProperties
  <2> QED BY <2>1, <2>2, <2>4, <2>7
<1> QED BY <1>3, <1>20
-----------------------------------------------------------------------------
(* What the decoder makes of a readable block                              *)
Readable(s, len) == \E q : Reads(s, len, q) /\ Whole(q)
Lines(q) == [i \in DOMAIN Ends(q) |-> Ends(q)[i].n]

LEMMA SameSelection == \A q, K : Block!Only(q, K) = Only(q, K) /\ Block!Members(q) = Members(q)
BY DEF Block!Only, Only, Block!PlacesOf, PlacesOf, Block!Rank, Rank, Block!Cardinality, Cardinality,
       Block!Members, Members

LEMMA DecodeIs ==
  ASSUME NEW s, NEW len \in Nat, NEW q, Reads(s, len, q), Whole(q)
  PROVE  Block!Decode(s, len) = Lines(q)
<1>1. Block!Payload(s, len) = q
  BY ReadIs
<1>2. Block!Continuous(q)
  BY DEF Whole
<1>3. Block!Only(q, {c \in Block!Members(q) : c.k = c.d}) = Ends(q)
  BY SameSelection DEF Ends
<1> QED BY <1>1, <1>2, <1>3 DEF Block!Decode, Lines

LEMMA DecodeSame ==
  ASSUME NEW s, NEW len \in Nat, Readable(s, len), NEW r, \A i \in 1..len : r[i] = s[i]
  PROVE  Readable(r, len) /\ Block!Decode(r, len) = Block!Decode(s, len)
<1>1. PICK q : Reads(s, len, q) /\ Whole(q)
  BY DEF Readable
<1>2. Reads(r, len, q)
  BY <1>1, ReadSame DEF Reads
<1>3. Block!Decode(s, len) = Lines(q) /\ Block!Decode(r, len) = Lines(q)
  BY <1>1, <1>2, DecodeIs
<1> QED BY <1>1, <1>2, <1>3 DEF Readable

LEMMA NumbersNext ==
  ASSUME NEW e \in Seq(ZCells), NEW x \in ZCells
  PROVE  [i \in DOMAIN Append(e, x) |-> Append(e, x)[i].n] = Append([i \in DOMAIN e |-> e[i].n], x.n)
<1>1. PICK w : w = Append(e, x)
  OBVIOUS
<1>2. PICK m \in Nat : m = Len(e)
  OBVIOUS
<1>3. w \in Seq(ZCells) /\ Len(w) = m + 1 /\ w[m + 1] = x /\ \A i \in 1..m : w[i] = e[i]
  BY <1>1, <1>2, AppendProperties
<1>4. DOMAIN w = 1..(m + 1) /\ DOMAIN e = 1..m
  BY <1>2, <1>3, LenProperties
<1>5. \A c \in ZCells : c.n \in Nat
  BY DEF ZCells
<1>6. \A i \in 1..m : e[i].n \in Nat
  <2>1. \A i \in 1..m : e[i] \in ZCells
    BY <1>2, ElementOfSeq
  <2> QED BY <1>5, <2>1
<1>7. PICK y : y = [i \in 1..m |-> e[i].n]
  OBVIOUS
<1>8. y \in Seq(Nat) /\ Len(y) = m
  <2>1. y \in [1..m -> Nat]
    BY <1>6, <1>7
  <2> QED BY <2>1
<1>9. PICK v : v = Append(y, x.n)
  OBVIOUS
<1>10. v \in Seq(Nat) /\ Len(v) = m + 1 /\ v[m + 1] = x.n /\ \A i \in 1..m : v[i] = y[i]
  BY <1>5, <1>8, <1>9, AppendProperties
<1>11. DOMAIN v = 1..(m + 1) /\ v = [i \in 1..(m + 1) |-> v[i]]
  BY <1>10, LenProperties
<1>12. ASSUME NEW i \in 1..(m + 1) PROVE w[i].n = v[i]
  <2>1. CASE i \in 1..m
    <3>1. w[i] = e[i] /\ v[i] = y[i] /\ y[i] = e[i].n
      BY <1>3, <1>7, <1>10, <2>1
    <3> QED BY <3>1
  <2>2. CASE i = m + 1
    BY <1>3, <1>10, <2>2
  <2>3. i \in 1..m \/ i = m + 1
    BY <1>2
  <2> QED BY <2>1, <2>2, <2>3
<1>13. [i \in 1..(m + 1) |-> w[i].n] = v
  BY <1>11, <1>12
<1> QED BY <1>1, <1>4, <1>7, <1>9, <1>13

LEMMA DecodeNext ==
  ASSUME NEW s, NEW len \in Nat, Readable(s, len), NEW n \in Nat, NEW d \in Nat \ {0},
         Piece(s, len, Block!Deflated(n, d))
  PROVE  /\ Readable(s, len + 2 + d)
         /\ Block!Decode(s, len + 2 + d) = Append(Block!Decode(s, len), n)
<1>1. PICK q : Reads(s, len, q) /\ Whole(q)
  BY DEF Readable
<1>2. PICK p : p = Block!Deflated(n, d)
  OBVIOUS
<1>3. p \in Seq(ZCells) /\ Len(p) = d /\ \A k \in 1..d : p[k] = [t |-> "z", n |-> n, k |-> k, d |-> d]
  BY <1>2, DeflatedIs
<1>4. PICK l \in Nat : l = len + 2 + d
  OBVIOUS
<1>5. Reads(s, l, q \o p)
  BY <1>1, <1>2, <1>3, <1>4, ReadNext
<1>6. q \in Seq(ZCells)
  BY <1>1, ReadIs
<1>7. Whole(q \o p)
  BY <1>1, <1>2, <1>6, WholeNext
<1>8. Ends(q \o p) = Append(Ends(q), p[d])
  <2>1. p # <<>> /\ p[Len(p)].k = p[Len(p)].d /\ \A i \in 1..(Len(p) - 1) : p[i].k # p[i].d
    <3>1. d \in 1..d /\ d \in Nat /\ d > 0 /\ Len(p) = d
      BY <1>3
    <3>2. p # <<>>
      BY <1>3
    <3>3. p[d].k = p[d].d
      BY <1>3, <3>1
    <3>4. \A i \in 1..(d - 1) : p[i].k # p[i].d
      <4> SUFFICES ASSUME NEW i \in 1..(d - 1) PROVE p[i].k # p[i].d
        OBVIOUS
      <4>1. i \in 1..d /\ i # d
        BY <3>1
      <4>2. p[i] = [t |-> "z", n |-> n, k |-> i, d |-> d]
        BY <1>3, <4>1
      <4> QED BY <4>1, <4>2
    <3> QED BY <3>1, <3>2, <3>3, <3>4
  <2> QED BY <1>3, <1>6, <2>1, OnlyNext
<1>9. Lines(q \o p) = Append(Lines(q), n)
  <2>1. PICK e \in Seq(ZCells) : e = Ends(q)
    BY <1>6, OnlyElements DEF Ends
  <2>2. PICK x \in ZCells : x = p[d] /\ x.n = n
    BY <1>3
  <2>3. [i \in DOMAIN Append(e, x) |-> Append(e, x)[i].n] = Append([i \in DOMAIN e |-> e[i].n], x.n)
    BY NumbersNext
  <2> QED BY <1>8, <2>1, <2>2, <2>3 DEF Lines
<1>10. Block!Decode(s, len) = Lines(q) /\ Block!Decode(s, l) = Lines(q \o p)
  BY <1>1, <1>5, <1>7, DecodeIs
<1>11. Readable(s, l)
  BY <1>5, <1>7 DEF Readable
<1> QED BY <1>4, <1>9, <1>10, <1>11

LEMMA DecodeEmpty ==
  ASSUME NEW s
  PROVE  Readable(s, 0) /\ Block!Decode(s, 0) = <<>>
<1>1. PICK g : g = [b \in {1} |-> <<>>]
  OBVIOUS
<1>2. Read(s, 0, {1}, g)
  BY <1>1 DEF Read
<1>3. Reads(s, 0, <<>>)
  BY <1>1, <1>2 DEF Reads
<1>4. Whole(<<>>)
  BY DEF Whole, Block!Continuous
<1>5. DOMAIN Ends(<<>>) = {}
  <2>1. <<>> \in Seq(ZCells)
    OBVIOUS
  <2>2. \A k \in DOMAIN Ends(<<>>) : \E i \in DOMAIN <<>> : TRUE
    <3>1. PICK q \in Seq(ZCells) : q = <<>>
      BY <2>1
    <3>2. \A k \in DOMAIN Ends(q) : \E i \in DOMAIN q : TRUE
      BY OnlyElements DEF Ends
    <3> QED BY <3>1, <3>2
  <2> QED BY <2>2
<1>6. Lines(<<>>) = <<>>
  BY <1>5 DEF Lines
<1> QED BY <1>3, <1>4, <1>6, DecodeIs DEF Readable
-----------------------------------------------------------------------------
(* The log block.  While no line overruns it, its length is what the mmap  *)
(* file says, but for a record whose length is about to be written.        *)
Writing == {"deflate", "prefix", "data", "length", "loglen"}

BlockTypes ==
  /\ magic \in BOOLEAN /\ stream \in BOOLEAN /\ up \in BOOLEAN
  /\ loglen \in Nat /\ length \in 0..Block!MaxLength /\ DOMAIN cells = 1..Room
  /\ pc \in Writing \cup {"idle", "tail", "copy", "clear"}
  /\ count \in 0..MaxLines /\ crashes \in 0..MaxCrashes
  /\ pending \in Seq(ZCells) /\ crypt \in Seq(ZCells) /\ Len(crypt) <= CryptRoom
  /\ pc \in Writing => count > 0

LengthInv ==
  /\ BlockTypes
  /\ ~up => pc = "idle"
  /\ up /\ pc = "idle" => length = IF magic THEN 1 + loglen ELSE 0
  /\ pc \in {"deflate", "prefix", "data", "length"} => magic /\ length = 1 + loglen
  /\ pc = "loglen" => magic /\ length = 1 + loglen + 2 + Len(crypt)
  /\ magic => 1 + loglen <= Block!MaxLength

LEMMA NoCells == <<>> \in Seq(ZCells) /\ Len(<<>>) = 0
BY EmptySeq

LEMMA BlockStarts == Block!Init => LengthInv
<1> SUFFICES ASSUME Block!Init PROVE LengthInv
  OBVIOUS
<1>1. pending \in Seq(ZCells) /\ crypt \in Seq(ZCells) /\ Len(crypt) = 0
  BY NoCells DEF Block!Init
<1>2. DOMAIN cells = 1..Room
  BY DEF Block!Init, Block!Blank
<1>3. /\ ~magic /\ magic \in BOOLEAN /\ loglen = 0 /\ length = 0 /\ ~stream /\ stream \in BOOLEAN
      /\ pc = "idle" /\ up /\ up \in BOOLEAN /\ count = 0 /\ crashes = 0
  BY DEF Block!Init
<1> QED BY <1>1, <1>2, <1>3, MachinesAssumption DEF LengthInv, BlockTypes, Writing, Block!MaxLength, Block!HeaderLen

(* What deflate gives, and how much of it is kept.                         *)
LEMMA DeflateTypes ==
  ASSUME LengthInv, NEW d \in Sizes, Block!WriteDeflate(d)
  PROVE  pending' \in Seq(ZCells) /\ crypt' \in Seq(ZCells) /\ Len(crypt') <= CryptRoom
<1>1. pending \in Seq(ZCells) /\ crypt \in Seq(ZCells) /\ Len(crypt) <= CryptRoom
  BY DEF LengthInv, BlockTypes
<1>2. PICK o \in Seq(ZCells) : o = pending \o Block!Deflated(count, d)
  <2>1. count \in Nat /\ d \in Nat
    BY MachinesAssumption DEF LengthInv, BlockTypes
  <2>2. Block!Deflated(count, d) \in Seq(ZCells)
    BY <2>1, DeflatedIs
  <2> QED BY <1>1, <2>2, ConcatProperties
<1>3. PICK n : n = IF Len(o) < Block!MaxLength - length THEN Len(o) ELSE Block!MaxLength - length
  OBVIOUS
<1>4. CASE ~(stream /\ Block!MaxLength - length > 0)
  BY <1>1, <1>4 DEF Block!WriteDeflate
<1>5. CASE stream /\ Block!MaxLength - length > 0
  <2>1. Block!MaxLength - length \in Nat /\ n \in Nat /\ n <= Len(o) /\ Len(o) \in Nat /\ CryptRoom \in Nat
    BY <1>3, <1>5, MachinesAssumption DEF LengthInv, BlockTypes, Block!MaxLength, Block!HeaderLen
  <2>2. PICK k \in Nat : k = IF n < CryptRoom THEN n ELSE CryptRoom
    BY <2>1
  <2>3. pending' = SubSeq(o, n + 1, Len(o)) /\ crypt' = SubSeq(o, 1, k)
    BY <1>2, <1>3, <1>5, <2>2 DEF Block!WriteDeflate
  <2>4. k <= CryptRoom /\ k <= Len(o)
    BY <2>1, <2>2
  <2>5. /\ \A i \in (n + 1)..Len(o) : o[i] \in ZCells
        /\ \A i \in 1..k : o[i] \in ZCells
    BY <2>1, <2>4, ElementOfSeq
  <2>6. SubSeq(o, n + 1, Len(o)) \in Seq(ZCells)
    BY <2>1, <2>5, SubSeqProperties
  <2>7. SubSeq(o, 1, k) \in Seq(ZCells) /\ Len(SubSeq(o, 1, k)) = IF 1 <= k THEN k - 1 + 1 ELSE 0
    BY <2>5, SubSeqProperties
  <2> QED BY <2>1, <2>2, <2>3, <2>4, <2>6, <2>7
<1> QED BY <1>4, <1>5

LEMMA BlockStep ==
  ASSUME LengthInv, Block!LengthAssert, [Block!Next]_blockVars
  PROVE  LengthInv'
<1> USE DEF LengthInv, BlockTypes, Writing, Block!MaxLength, Block!HeaderLen, Block!PrefixLen
<1> USE MachinesAssumption
<1>1. CASE Block!WriteBegin
  <2>1. pending' \in Seq(ZCells) /\ DOMAIN cells' = 1..Room /\ crypt' = crypt
    BY <1>1, NoCells DEF Block!WriteBegin, Block!mem, Block!Blank
  <2>2. /\ up /\ pc = "idle" /\ count < MaxLines /\ pc' = "deflate" /\ count' = count + 1
        /\ crashes' = crashes
        /\ \/ length = 0 /\ loglen' = 0 /\ length' = 1
           \/ length # 0 /\ UNCHANGED <<loglen, length>>
    BY <1>1 DEF Block!WriteBegin, Block!mem
  <2>3. magic' /\ up'
    BY <1>1 DEF Block!WriteBegin, Block!mem
  <2>4. magic' \in BOOLEAN /\ stream' \in BOOLEAN /\ up' \in BOOLEAN
    BY <1>1, Zenon DEF Block!WriteBegin, Block!mem
  <2>5. loglen' \in Nat /\ length' = 1 + loglen' /\ 1 + loglen' <= 1 + Room
    BY <2>2
  <2>6. count' \in 0..MaxLines /\ count' > 0 /\ crashes' \in 0..MaxCrashes
    BY <2>2
  <2>7. Len(crypt') <= CryptRoom /\ crypt' \in Seq(ZCells)
    BY <2>1
  <2>8. length' \in 0..(1 + Room)
    BY <2>2
  <2> QED BY <2>1, <2>2, <2>3, <2>4, <2>5, <2>6, <2>7, <2>8
<1>2. ASSUME NEW d \in Sizes, Block!WriteDeflate(d) PROVE LengthInv'
  <2>1. pending' \in Seq(ZCells) /\ crypt' \in Seq(ZCells) /\ Len(crypt') <= CryptRoom
    BY <1>2, DeflateTypes
  <2>2. /\ DOMAIN cells' = 1..Room /\ pc' \in {"prefix", "idle"}
        /\ pc = "deflate" /\ up
        /\ UNCHANGED <<magic, loglen, length, stream, up, count, taken, crashes>>
    BY <1>2 DEF Block!WriteDeflate, Block!Put
  <2> QED BY <2>1, <2>2
<1>3. CASE Block!WritePrefix
  BY <1>3 DEF Block!WritePrefix, Block!Put
<1>4. CASE Block!WriteData
  BY <1>4 DEF Block!WriteData, Block!Put
<1>5. CASE Block!WriteLength
  BY <1>5 DEF Block!WriteLength, Block!LengthAssert, Block!NewLength, Block!mem
<1>6. CASE Block!WriteLogLen
  BY <1>6 DEF Block!WriteLogLen
<1>7. CASE Block!FlushBegin
  BY <1>7, NoCells DEF Block!FlushBegin, Block!mem
<1>8. CASE Block!FlushTail
  BY <1>8 DEF Block!FlushTail, Block!Put
<1>9. CASE Block!FlushCopy
  BY <1>9 DEF Block!FlushCopy
<1>10. CASE Block!FlushClear
  <2>1. DOMAIN cells' = 1..Room /\ UNCHANGED <<pending, crypt, stream, up, count, crashes>>
    BY <1>10 DEF Block!FlushClear, Block!Blank
  <2>2. pc' = "idle" /\ ~magic' /\ loglen' = 0 /\ length' = 0 /\ up
    BY <1>10 DEF Block!FlushClear
  <2>3. magic' \in BOOLEAN
    BY <1>10, Zenon DEF Block!FlushClear
  <2> QED BY <2>1, <2>2, <2>3
<1>11. CASE Block!Crash
  <2>1. pending' \in Seq(ZCells) /\ crypt' \in Seq(ZCells) /\ Len(crypt') = 0
    BY <1>11, NoCells DEF Block!Crash
  <2>2. /\ ~up' /\ crashes < MaxCrashes /\ crashes' = crashes + 1 /\ length' = 0
        /\ pc' = "idle" /\ UNCHANGED <<magic, loglen, cells, count>>
    BY <1>11 DEF Block!Crash, Block!mem
  <2>3. stream' \in BOOLEAN /\ up' \in BOOLEAN
    BY <1>11, Zenon DEF Block!Crash
  <2> QED BY <2>1, <2>2, <2>3
<1>12. CASE Block!Restart
  BY <1>12 DEF Block!Restart, Block!mem
<1>13. CASE UNCHANGED blockVars
  BY <1>13 DEF blockVars
<1> QED BY <1>1, <1>2, <1>3, <1>4, <1>5, <1>6, <1>7, <1>8, <1>9, <1>10, <1>11, <1>12, <1>13 DEF Block!Next

LEMMA BlockLengths == LengthInv => Block!TypeOK
BY DEF LengthInv, BlockTypes, Writing, Block!TypeOK, Block!MaxLength, Block!HeaderLen
-----------------------------------------------------------------------------
(* The block as AtomicBlock sees it.  Where the room suffices for every    *)
(* line, the stream holds nothing back, crypt_buffer has one whole line,   *)
(* and what is before the length field of the mmap file is whole lines.    *)
Added == IF pc \in Writing THEN count - 1 ELSE count

(* Whoever writes leaves room for one more line, its prefix and the tail   *)
(* byte: what the tests of XlogAppender at a third and at four fifths of   *)
(* the block are for.                                                      *)
RoomLeft == pc = "deflate" => length + 2 + CryptRoom < 1 + Room

(* Every line fits into crypt_buffer, which block_longline does without.   *)
LinesFit == Room > 0 /\ \A d \in Sizes : d <= CryptRoom

OneLine ==
  pc \in {"prefix", "data", "length", "loglen"} =>
    \E d \in Sizes : crypt = Block!Deflated(count, d) /\ loglen + 2 + d < Room

Prefixed ==
  pc \in {"data", "length", "loglen"} =>
    cells[loglen + 1] = [t |-> "len", c |-> Len(crypt)] /\ cells[loglen + 2] = [t |-> "len2"]

WholeBlock ==
  /\ pending = <<>> /\ OneLine /\ Prefixed
  /\ pc \in {"length", "loglen"} => Piece(cells, loglen, crypt)
  /\ pc = "tail" => magic /\ length = 1 + loglen
  /\ pc = "copy" => magic /\ length = 2 + loglen /\ cells[loglen + 1] = Block!End
  /\ pc = "clear" /\ magic => loglen = 0
  /\ magic => loglen < Room /\ Readable(cells, loglen)

BlockInv == LengthInv /\ WholeBlock

(* The four things a step can be for AtomicBlock.                          *)
Same    == Block!Recoverable' = Block!Recoverable /\ taken' = taken /\ Added' = Added
Refused == Block!Recoverable' = Block!Recoverable /\ taken' = taken /\ Added' = Added + 1
Stored  == Block!Recoverable' = Append(Block!Recoverable, Added') /\ taken' = taken /\ Added' = Added + 1
Flushed == Block!Recoverable' = <<>> /\ taken' = taken \o Block!Recoverable /\ Added' = Added

Effect == Same \/ Refused \/ Stored \/ Flushed

LEMMA BlockRoom == BlockInv => Block!LengthAssert
<1> SUFFICES ASSUME BlockInv, pc = "length" PROVE Block!NewLength <= Block!MaxLength
  BY DEF Block!LengthAssert
<1>1. PICK d \in Sizes : crypt = Block!Deflated(count, d) /\ loglen + 2 + d < Room
  BY DEF BlockInv, WholeBlock, OneLine
<1>2. count \in Nat /\ d \in Nat /\ loglen \in Nat /\ length = 1 + loglen
  BY MachinesAssumption DEF BlockInv, LengthInv, BlockTypes
<1>3. Len(crypt) = d
  BY <1>1, <1>2, DeflatedIs
<1> QED BY <1>1, <1>2, <1>3, MachinesAssumption
        DEF Block!NewLength, Block!MaxLength, Block!HeaderLen, Block!PrefixLen

(* A memory write behind the block leaves what is before the length field. *)
LEMMA PutBehind ==
  ASSUME NEW x, NEW n \in Nat, DOMAIN x = 1..n, NEW pos \in Nat, Block!Put(x, pos + 1)
  PROVE  /\ DOMAIN cells' = 1..Room
         /\ \A i \in 1..Room : i < pos => cells'[i] = cells[i]
         /\ \A j \in 1..n : pos + j - 1 \in 1..Room => cells'[pos + j - 1] = x[j]
         /\ \A i \in 1..Room : i \notin pos..(pos + n - 1) => cells'[i] = cells[i]
<1>1. cells' = [i \in 1..Room |-> IF i + 1 - (pos + 1) + 1 \in 1..n THEN x[i + 1 - (pos + 1) + 1] ELSE cells[i]]
  BY DEF Block!Put, Block!HeaderLen
<1>2. ASSUME NEW j \in 1..n, pos + j - 1 \in 1..Room PROVE cells'[pos + j - 1] = x[j]
  <2>1. PICK i \in 1..Room : i = pos + j - 1
    BY <1>2
  <2>2. i + 1 - (pos + 1) + 1 = j
    BY <2>1
  <2> QED BY <1>1, <2>1, <2>2
<1>3. ASSUME NEW i \in 1..Room, i \notin pos..(pos + n - 1) PROVE cells'[i] = cells[i]
  <2>1. i + 1 - (pos + 1) + 1 \notin 1..n
    BY <1>3, MachinesAssumption
  <2> QED BY <1>1, <2>1
<1>4. DOMAIN cells' = 1..Room
  BY <1>1
<1>5. ASSUME NEW i \in 1..Room, i < pos PROVE cells'[i] = cells[i]
  <2>1. i \notin pos..(pos + n - 1)
    BY <1>5, MachinesAssumption
  <2> QED BY <1>3, <2>1
<1> QED BY <1>2, <1>3, <1>4, <1>5

LEMMA MemKept ==
  ASSUME BlockInv, magic' = magic, loglen' = loglen, magic => \A i \in 1..loglen : cells'[i] = cells[i]
  PROVE  /\ Block!Recoverable' = Block!Recoverable
         /\ magic' => loglen' < Room /\ Readable(cells', loglen')
<1>1. CASE ~magic
  BY <1>1 DEF Block!Recoverable
<1>2. CASE magic
  <2>1. loglen \in Nat /\ loglen < Room /\ Readable(cells, loglen)
    BY <1>2 DEF BlockInv, LengthInv, BlockTypes, WholeBlock
  <2>2. \A i \in 1..loglen : cells'[i] = cells[i]
    BY <1>2
  <2>3. PICK r : r = cells'
    OBVIOUS
  <2>4. Readable(r, loglen) /\ Block!Decode(r, loglen) = Block!Decode(cells, loglen)
    BY <2>1, <2>2, <2>3, DecodeSame
  <2> QED BY <1>2, <2>1, <2>3, <2>4, MachinesAssumption DEF Block!Recoverable
<1> QED BY <1>1, <1>2 DEF BlockInv, LengthInv, BlockTypes

(* One lemma per action: it keeps whole lines, and what it is above.       *)
LEMMA BeginWhole ==
  ASSUME BlockInv, Room > 0, Block!WriteBegin
  PROVE  WholeBlock' /\ Same
<1>1. /\ up /\ pc = "idle" /\ pc' = "deflate" /\ count' = count + 1 /\ taken' = taken
      /\ count \in Nat /\ pending = <<>>
  BY MachinesAssumption DEF Block!WriteBegin, BlockInv, LengthInv, BlockTypes, WholeBlock
<1>2. Added' = Added
  BY <1>1 DEF Added, Writing
<1>3. CASE length = 0
  <2>1. ~magic
    BY <1>1, <1>3 DEF BlockInv, LengthInv, BlockTypes
  <2>2. pending' = <<>> /\ magic' /\ loglen' = 0 /\ length' = 1
    BY <1>3 DEF Block!WriteBegin, Block!HeaderLen
  <2>3. Room > 0 /\ 0 <= Room
    BY MachinesAssumption
  <2>4. PICK s : s = cells'
    OBVIOUS
  <2>5. Readable(s, 0) /\ Block!Decode(s, 0) = <<>>
    BY DecodeEmpty
  <2>6. Block!Recoverable = <<>> /\ Block!Recoverable' = <<>>
    BY <2>1, <2>2, <2>3, <2>4, <2>5 DEF Block!Recoverable
  <2>7. WholeBlock'
    BY <1>1, <2>2, <2>3, <2>4, <2>5 DEF WholeBlock, OneLine, Prefixed
  <2> QED BY <1>1, <1>2, <2>6, <2>7 DEF Same
<1>4. CASE length # 0
  <2>1. pending' = pending /\ magic' = magic /\ loglen' = loglen /\ cells' = cells
    BY <1>4 DEF Block!WriteBegin, Block!mem
  <2>2. /\ Block!Recoverable' = Block!Recoverable
        /\ magic' => loglen' < Room /\ Readable(cells', loglen')
    BY <2>1, MemKept
  <2>3. WholeBlock'
    BY <1>1, <2>1, <2>2 DEF WholeBlock, OneLine, Prefixed
  <2> QED BY <1>1, <1>2, <2>2, <2>3 DEF Same
<1> QED BY <1>3, <1>4

LEMMA DeflateWhole ==
  ASSUME BlockInv, RoomLeft, LinesFit, NEW d \in Sizes, Block!WriteDeflate(d)
  PROVE  WholeBlock' /\ Effect
<1>1. /\ up /\ pc = "deflate" /\ taken' = taken /\ magic' = magic /\ loglen' = loglen
      /\ length' = length /\ count' = count
      /\ pending = <<>> /\ magic /\ length = 1 + loglen /\ loglen \in Nat /\ loglen < Room
      /\ count \in Nat /\ count > 0
  BY MachinesAssumption DEF Block!WriteDeflate, BlockInv, LengthInv, BlockTypes, WholeBlock, Writing
<1>2. d \in Nat \ {0} /\ d <= CryptRoom /\ CryptRoom \in Nat /\ Room \in Nat /\ length + 2 + CryptRoom < 1 + Room
  BY <1>1, MachinesAssumption DEF RoomLeft, LinesFit
<1>3. PICK o : o = Block!Deflated(count, d)
  OBVIOUS
<1>4. o \in Seq(ZCells) /\ Len(o) = d /\ DOMAIN o = 1..d
  <2>1. count \in Nat /\ d \in Nat
    BY <1>1, <1>2
  <2>2. o \in Seq(ZCells) /\ Len(o) = d
    BY <1>3, <2>1, DeflatedIs
  <2> QED BY <2>2, LenProperties
<1>5. pending \o o = o
  BY <1>1, <1>4
<1>10. length \in Nat
  BY <1>1
<1>6. PICK avail \in Nat : avail = 1 + Room - length
  BY <1>1, <1>2
<1>7. d < avail
  BY <1>1, <1>2, <1>6
<1>8. CASE ~stream
  <2>1. pc' = "idle" /\ cells' = cells /\ pending' = pending
    BY <1>8 DEF Block!WriteDeflate
  <2>2. /\ Block!Recoverable' = Block!Recoverable
        /\ magic' => loglen' < Room /\ Readable(cells', loglen')
    BY <1>1, <2>1, MemKept
  <2>3. WholeBlock'
    BY <1>1, <2>1, <2>2 DEF WholeBlock, OneLine, Prefixed
  <2>4. Added' = Added + 1
    BY <1>1, <2>1 DEF Added, Writing
  <2> QED BY <1>1, <2>2, <2>3, <2>4 DEF Effect, Refused
<1>9. CASE stream
  <2>1. /\ pc' = "prefix" /\ Block!Put(SubSeq(o, 1, d), length + 1)
        /\ pending' = SubSeq(o, d + 1, d)
        /\ crypt' = SubSeq(o, 1, IF d < CryptRoom THEN d ELSE CryptRoom)
    <3>1. Block!MaxLength - length = avail /\ avail > 0
      BY <1>2, <1>6, <1>7, <1>10 DEF Block!MaxLength, Block!HeaderLen
    <3>2. LET output == pending \o Block!Deflated(count, d)
              n      == IF Len(output) < Block!MaxLength - length THEN Len(output) ELSE Block!MaxLength - length
          IN /\ pc' = "prefix" /\ Block!Put(SubSeq(output, 1, n), length + 1)
             /\ pending' = SubSeq(output, n + 1, Len(output))
             /\ crypt' = SubSeq(output, 1, IF n < CryptRoom THEN n ELSE CryptRoom)
      BY <1>9, <3>1 DEF Block!WriteDeflate
    <3> QED BY <1>3, <1>4, <1>5, <1>7, <3>1, <3>2
  <2>2. (IF d < CryptRoom THEN d ELSE CryptRoom) = d
    BY <1>2
  <2>3. SubSeq(o, 1, d) = o
    <3>1. Len(SubSeq(o, 1, d)) = d /\ SubSeq(o, 1, d) \in Seq(ZCells)
          /\ \A i \in 1..d : SubSeq(o, 1, d)[i] = o[i]
      BY <1>2, <1>4, SubSeqProperties, ElementOfSeq
    <3> QED BY <1>4, <3>1, SeqEqual
  <2>4. SubSeq(o, d + 1, d) = <<>>
    BY <1>2, <1>4, SubSeqEmpty
  <2>5. crypt' = o /\ pending' = <<>> /\ Block!Put(o, length + 1)
    BY <2>1, <2>2, <2>3, <2>4
  <2>6. \A i \in 1..Room : i < length => cells'[i] = cells[i]
    <3>1. PICK n \in Nat : n = d
      BY <1>2
    <3>2. DOMAIN o = 1..n /\ Block!Put(o, length + 1)
      BY <1>4, <2>5, <3>1
    <3> QED BY <1>10, <3>2, PutBehind
  <2>7. \A i \in 1..loglen : cells'[i] = cells[i]
    BY <1>1, <1>2, <2>6
  <2>8. /\ Block!Recoverable' = Block!Recoverable
        /\ magic' => loglen' < Room /\ Readable(cells', loglen')
    BY <1>1, <2>7, MemKept
  <2>9. crypt' = Block!Deflated(count', d) /\ loglen' + 2 + d < Room
    BY <1>1, <1>2, <1>3, <2>5
  <2>10. WholeBlock'
    BY <2>1, <2>5, <2>8, <2>9 DEF WholeBlock, OneLine, Prefixed
  <2>11. Added' = Added
    BY <1>1, <2>1 DEF Added, Writing
  <2> QED BY <1>1, <2>8, <2>10, <2>11 DEF Effect, Same
<1> QED BY <1>8, <1>9

LEMMA LineAt ==
  ASSUME BlockInv, pc \in {"prefix", "data", "length", "loglen"}
  PROVE  /\ \E d \in Sizes : /\ crypt = Block!Deflated(count, d) /\ loglen + 2 + d < Room
                             /\ Len(crypt) = d /\ DOMAIN crypt = 1..d /\ d \in Nat \ {0}
         /\ count \in Nat /\ count > 0 /\ loglen \in Nat /\ magic /\ pending = <<>>
         /\ pc # "loglen" => length = 1 + loglen
<1>1. PICK d \in Sizes : crypt = Block!Deflated(count, d) /\ loglen + 2 + d < Room
  BY DEF BlockInv, WholeBlock, OneLine
<1>2. d \in Nat \ {0} /\ d \in Nat /\ count \in Nat
  BY MachinesAssumption DEF BlockInv, LengthInv, BlockTypes
<1>3. crypt \in Seq(ZCells) /\ Len(crypt) = d
  BY <1>1, <1>2, DeflatedIs
<1>4. DOMAIN crypt = 1..d
  BY <1>3, LenProperties
<1>5. count > 0 /\ loglen \in Nat /\ magic /\ pending = <<>> /\ (pc # "loglen" => length = 1 + loglen)
  BY DEF BlockInv, LengthInv, BlockTypes, WholeBlock, Writing
<1> QED BY <1>1, <1>2, <1>3, <1>4, <1>5

LEMMA PrefixWhole ==
  ASSUME BlockInv, Block!WritePrefix
  PROVE  WholeBlock' /\ Same
<1>1. /\ pc = "prefix" /\ pc' = "data" /\ Block!Put(Block!Prefix(Len(crypt)), length + 1)
      /\ UNCHANGED <<magic, loglen, length, pending, crypt, count, taken>>
  BY DEF Block!WritePrefix
<1>2. PICK d \in Sizes : /\ crypt = Block!Deflated(count, d) /\ loglen + 2 + d < Room
                         /\ Len(crypt) = d /\ DOMAIN crypt = 1..d /\ d \in Nat \ {0}
  BY <1>1, LineAt
<1>3. loglen \in Nat /\ magic /\ pending = <<>> /\ length = 1 + loglen /\ length \in Nat
  BY <1>1, LineAt
<1>4. PICK x : x = Block!Prefix(Len(crypt))
  OBVIOUS
<1>5. DOMAIN x = 1..2 /\ x[1] = [t |-> "len", c |-> Len(crypt)] /\ x[2] = [t |-> "len2"]
  BY <1>4 DEF Block!Prefix
<1>6. /\ \A i \in 1..Room : i < length => cells'[i] = cells[i]
      /\ \A j \in 1..2 : length + j - 1 \in 1..Room => cells'[length + j - 1] = x[j]
  <2>1. PICK n \in Nat : n = 2
    OBVIOUS
  <2>2. DOMAIN x = 1..n /\ Block!Put(x, length + 1)
    BY <1>1, <1>4, <1>5, <2>1
  <2>3. /\ \A i \in 1..Room : i < length => cells'[i] = cells[i]
        /\ \A j \in 1..n : length + j - 1 \in 1..Room => cells'[length + j - 1] = x[j]
    BY <1>3, <2>2, PutBehind
  <2> QED BY <2>1, <2>3
<1>7. cells'[loglen + 1] = x[1] /\ cells'[loglen + 2] = x[2]
  <2>1. length + 1 - 1 = loglen + 1 /\ length + 2 - 1 = loglen + 2
        /\ loglen + 1 \in 1..Room /\ loglen + 2 \in 1..Room
    BY <1>2, <1>3, MachinesAssumption
  <2>2. 1 \in 1..2 /\ 2 \in 1..2
    OBVIOUS
  <2> QED BY <1>6, <2>1, <2>2
<1>8. \A i \in 1..loglen : cells'[i] = cells[i]
  BY <1>2, <1>3, <1>6, MachinesAssumption
<1>9. /\ Block!Recoverable' = Block!Recoverable
      /\ magic' => loglen' < Room /\ Readable(cells', loglen')
  BY <1>1, <1>8, MemKept
<1>10. OneLine'
  BY <1>1, <1>2 DEF OneLine
<1>11. Prefixed'
  BY <1>1, <1>5, <1>7 DEF Prefixed
<1>12. WholeBlock'
  BY <1>1, <1>3, <1>9, <1>10, <1>11 DEF WholeBlock
<1> QED BY <1>1, <1>9, <1>12 DEF Same, Added, Writing

LEMMA DataWhole ==
  ASSUME BlockInv, Block!WriteData
  PROVE  WholeBlock' /\ Same
<1>1. /\ pc = "data" /\ pc' = "length" /\ Block!Put(crypt, length + 2 + 1)
      /\ UNCHANGED <<magic, loglen, length, pending, crypt, count, taken>>
  BY DEF Block!WriteData, Block!PrefixLen
<1>2. PICK d \in Sizes : /\ crypt = Block!Deflated(count, d) /\ loglen + 2 + d < Room
                         /\ Len(crypt) = d /\ DOMAIN crypt = 1..d /\ d \in Nat \ {0}
  BY <1>1, LineAt
<1>3. loglen \in Nat /\ magic /\ pending = <<>> /\ length = 1 + loglen /\ length + 2 \in Nat
  BY <1>1, LineAt
<1>4. /\ \A i \in 1..Room : i < length + 2 => cells'[i] = cells[i]
      /\ \A j \in 1..d : length + 2 + j - 1 \in 1..Room => cells'[length + 2 + j - 1] = crypt[j]
  <2>1. PICK n \in Nat : n = d
    BY <1>2
  <2>2. PICK pos \in Nat : pos = length + 2
    BY <1>3
  <2>3. DOMAIN crypt = 1..n /\ Block!Put(crypt, pos + 1)
    BY <1>1, <1>2, <2>1, <2>2
  <2>4. /\ \A i \in 1..Room : i < pos => cells'[i] = cells[i]
        /\ \A j \in 1..n : pos + j - 1 \in 1..Room => cells'[pos + j - 1] = crypt[j]
    BY <2>3, PutBehind
  <2> QED BY <2>1, <2>2, <2>4
<1>5. \A j \in 1..d : cells'[loglen + 2 + j] = crypt[j]
  <2> SUFFICES ASSUME NEW j \in 1..d PROVE cells'[loglen + 2 + j] = crypt[j]
    OBVIOUS
  <2>1. length + 2 + j - 1 = loglen + 2 + j /\ loglen + 2 + j \in 1..Room
    BY <1>2, <1>3, MachinesAssumption
  <2> QED BY <1>4, <2>1
<1>6. cells'[loglen + 1] = cells[loglen + 1] /\ cells'[loglen + 2] = cells[loglen + 2]
  <2>1. loglen + 1 \in 1..Room /\ loglen + 2 \in 1..Room /\ loglen + 1 < length + 2 /\ loglen + 2 < length + 2
    BY <1>2, <1>3, MachinesAssumption
  <2> QED BY <1>4, <2>1
<1>7. \A i \in 1..loglen : cells'[i] = cells[i]
  BY <1>2, <1>3, <1>4, MachinesAssumption
<1>8. /\ Block!Recoverable' = Block!Recoverable
      /\ magic' => loglen' < Room /\ Readable(cells', loglen')
  BY <1>1, <1>7, MemKept
<1>9. cells[loglen + 1] = [t |-> "len", c |-> Len(crypt)] /\ cells[loglen + 2] = [t |-> "len2"]
  BY <1>1 DEF BlockInv, WholeBlock, Prefixed
<1>10. OneLine'
  BY <1>1, <1>2 DEF OneLine
<1>11. Prefixed'
  BY <1>1, <1>6, <1>9 DEF Prefixed
<1>12. Piece(cells', loglen', crypt')
  BY <1>1, <1>2, <1>5, <1>6, <1>9 DEF Piece
<1>13. WholeBlock'
  BY <1>1, <1>3, <1>8, <1>10, <1>11, <1>12 DEF WholeBlock
<1> QED BY <1>1, <1>8, <1>13 DEF Same, Added, Writing

LEMMA LengthWhole ==
  ASSUME BlockInv, Block!WriteLength
  PROVE  WholeBlock' /\ Same
<1>1. /\ pc = "length" /\ pc' = "loglen"
      /\ UNCHANGED <<magic, loglen, cells, pending, crypt, count, taken>>
  BY DEF Block!WriteLength, Block!mem
<1>2. /\ Block!Recoverable' = Block!Recoverable
      /\ magic' => loglen' < Room /\ Readable(cells', loglen')
  BY <1>1, MemKept
<1>3. pending = <<>> /\ OneLine /\ Prefixed /\ Piece(cells, loglen, crypt)
  BY <1>1 DEF BlockInv, WholeBlock
<1>4. OneLine' /\ Prefixed'
  BY <1>1, <1>3 DEF OneLine, Prefixed
<1>5. Piece(cells', loglen', crypt')
  BY <1>1, <1>3
<1>6. WholeBlock'
  BY <1>1, <1>2, <1>3, <1>4, <1>5 DEF WholeBlock
<1> QED BY <1>1, <1>2, <1>6 DEF Same, Added, Writing

LEMMA LogLenWhole ==
  ASSUME BlockInv, Block!WriteLogLen
  PROVE  WholeBlock' /\ Stored
<1>1. /\ pc = "loglen" /\ pc' = "idle" /\ loglen' = loglen + 2 + Len(crypt)
      /\ UNCHANGED <<magic, cells, pending, count, taken>>
  BY DEF Block!WriteLogLen, Block!PrefixLen
<1>2. PICK d \in Sizes : /\ crypt = Block!Deflated(count, d) /\ loglen + 2 + d < Room
                         /\ Len(crypt) = d /\ d \in Nat \ {0}
  BY <1>1, LineAt
<1>3. count \in Nat /\ count > 0 /\ loglen \in Nat /\ magic /\ pending = <<>>
  BY <1>1, LineAt
<1>4. Readable(cells, loglen) /\ Piece(cells, loglen, Block!Deflated(count, d))
  BY <1>1, <1>2, <1>3 DEF BlockInv, WholeBlock
<1>5. /\ Readable(cells, loglen + 2 + d)
      /\ Block!Decode(cells, loglen + 2 + d) = Append(Block!Decode(cells, loglen), count)
  BY <1>2, <1>3, <1>4, DecodeNext
<1>6. loglen' = loglen + 2 + d /\ loglen <= Room /\ loglen + 2 + d <= Room
  BY <1>1, <1>2, <1>3, MachinesAssumption
<1>7. WholeBlock'
  BY <1>1, <1>2, <1>3, <1>5, <1>6 DEF WholeBlock, OneLine, Prefixed
<1>8. Block!Recoverable = Block!Decode(cells, loglen)
      /\ Block!Recoverable' = Block!Decode(cells, loglen + 2 + d)
  BY <1>1, <1>3, <1>6 DEF Block!Recoverable
<1>9. Added = count - 1 /\ Added' = count
  BY <1>1 DEF Added, Writing
<1> QED BY <1>1, <1>3, <1>5, <1>7, <1>8, <1>9 DEF Stored

LEMMA FlushWhole ==
  ASSUME BlockInv, Block!FlushBegin \/ Block!FlushTail
  PROVE  WholeBlock' /\ Same
<1>1. CASE Block!FlushBegin
  <2>1. /\ up /\ pc = "idle" /\ pending' = <<>> /\ pc' \in {"tail", "clear"}
        /\ pc' = "tail" => length >= 1 /\ magic
        /\ pc' = "clear" => ~(length >= 1 /\ magic /\ loglen > 0)
        /\ UNCHANGED <<magic, loglen, cells, length, count, taken>>
    BY <1>1 DEF Block!FlushBegin, Block!mem, Block!HeaderLen
  <2>2. loglen \in Nat /\ (magic => length = 1 + loglen)
    BY <2>1 DEF BlockInv, LengthInv, BlockTypes
  <2>3. /\ pc' = "tail" => magic /\ length = 1 + loglen
        /\ pc' = "clear" /\ magic => loglen = 0
    BY <2>1, <2>2
  <2>4. /\ Block!Recoverable' = Block!Recoverable
        /\ magic' => loglen' < Room /\ Readable(cells', loglen')
    BY <2>1, MemKept
  <2>5. WholeBlock'
    BY <2>1, <2>3, <2>4 DEF WholeBlock, OneLine, Prefixed
  <2> QED BY <2>1, <2>4, <2>5 DEF Same, Added, Writing
<1>2. CASE Block!FlushTail
  <2>1. /\ pc = "tail" /\ pc' = "copy" /\ Block!Put(<<Block!End>>, length + 1)
        /\ length' = IF length + 1 > 1 + Room THEN 1 + Room ELSE length + 1
        /\ UNCHANGED <<magic, loglen, pending, count, taken>>
    BY <1>2 DEF Block!FlushTail, Block!MaxLength, Block!HeaderLen
  <2>2. magic /\ length = 1 + loglen /\ loglen \in Nat /\ length \in Nat /\ loglen < Room /\ pending = <<>>
    BY <2>1 DEF BlockInv, LengthInv, BlockTypes, WholeBlock
  <2>3. PICK n \in Nat : n = 1
    OBVIOUS
  <2>4. PICK x : x = <<Block!End>>
    OBVIOUS
  <2>5. DOMAIN x = 1..n /\ x[1] = Block!End /\ Block!Put(x, length + 1)
    BY <2>1, <2>3, <2>4
  <2>6. /\ \A i \in 1..Room : i < length => cells'[i] = cells[i]
        /\ \A j \in 1..n : length + j - 1 \in 1..Room => cells'[length + j - 1] = x[j]
    BY <2>2, <2>5, PutBehind
  <2>7. cells'[loglen + 1] = Block!End
    <3>1. 1 \in 1..n /\ length + 1 - 1 = loglen + 1 /\ loglen + 1 \in 1..Room
      BY <2>2, <2>3, MachinesAssumption
    <3> QED BY <2>5, <2>6, <3>1
  <2>8. \A i \in 1..loglen : cells'[i] = cells[i]
    BY <2>2, <2>6, MachinesAssumption
  <2>9. /\ Block!Recoverable' = Block!Recoverable
        /\ magic' => loglen' < Room /\ Readable(cells', loglen')
    BY <2>1, <2>8, MemKept
  <2>10. length' = 2 + loglen
    BY <2>1, <2>2, MachinesAssumption
  <2>11. WholeBlock'
    BY <2>1, <2>2, <2>7, <2>9, <2>10 DEF WholeBlock, OneLine, Prefixed
  <2> QED BY <2>1, <2>9, <2>11 DEF Same, Added, Writing
<1> QED BY <1>1, <1>2

LEMMA CopyWhole ==
  ASSUME BlockInv, Block!FlushCopy
  PROVE  WholeBlock' /\ Flushed
<1>1. /\ pc = "copy" /\ pc' = "clear" /\ ~magic' /\ UNCHANGED <<pending, count>>
      /\ taken' = IF loglen + 1 <= length - 1 /\ cells[loglen + 1] = Block!End
                  THEN taken \o Block!Decode(cells, loglen) ELSE taken
  BY DEF Block!FlushCopy, Block!HeaderLen
<1>2. magic /\ length = 2 + loglen /\ cells[loglen + 1] = Block!End /\ loglen \in Nat /\ loglen < Room
      /\ pending = <<>>
  BY <1>1 DEF BlockInv, LengthInv, BlockTypes, WholeBlock
<1>3. loglen + 1 <= length - 1 /\ loglen <= Room
  BY <1>2, MachinesAssumption
<1>4. taken' = taken \o Block!Decode(cells, loglen)
  BY <1>1, <1>2, <1>3
<1>5. Block!Recoverable = Block!Decode(cells, loglen) /\ Block!Recoverable' = <<>>
  BY <1>1, <1>2, <1>3 DEF Block!Recoverable
<1>6. WholeBlock'
  BY <1>1, <1>2 DEF WholeBlock, OneLine, Prefixed
<1> QED BY <1>1, <1>4, <1>5, <1>6 DEF Flushed, Added, Writing

LEMMA RestWhole ==
  ASSUME BlockInv, Block!FlushClear \/ Block!Crash \/ Block!Restart \/ UNCHANGED blockVars
  PROVE  WholeBlock' /\ Effect
<1>1. CASE Block!FlushClear
  <2>1. /\ pc = "clear" /\ pc' = "idle" /\ ~magic' /\ UNCHANGED <<pending, count, taken>>
    BY <1>1 DEF Block!FlushClear
  <2>2. pending = <<>> /\ (magic => loglen = 0)
    BY <2>1 DEF BlockInv, WholeBlock
  <2>3. Block!Recoverable = <<>> /\ Block!Recoverable' = <<>>
    BY <2>1, <2>2, DecodeEmpty DEF Block!Recoverable
  <2>4. WholeBlock'
    BY <2>1, <2>2 DEF WholeBlock, OneLine, Prefixed
  <2> QED BY <2>1, <2>3, <2>4 DEF Effect, Same, Added, Writing
<1>2. CASE Block!Crash
  <2>1. pc' = "idle" /\ pending' = <<>> /\ UNCHANGED <<magic, loglen, cells, count, taken>>
    BY <1>2 DEF Block!Crash, Block!mem
  <2>2. /\ Block!Recoverable' = Block!Recoverable
        /\ magic' => loglen' < Room /\ Readable(cells', loglen')
    BY <2>1, MemKept
  <2>3. WholeBlock'
    BY <2>1, <2>2 DEF WholeBlock, OneLine, Prefixed
  <2>4. count \in Nat
    BY MachinesAssumption DEF BlockInv, LengthInv, BlockTypes
  <2>5. Added' = Added \/ Added' = Added + 1
    BY <2>1, <2>4 DEF Added, Writing
  <2> QED BY <2>1, <2>2, <2>3, <2>5 DEF Effect, Same, Refused
<1>3. CASE Block!Restart
  <2>1. ~up /\ UNCHANGED <<pc, pending, magic, loglen, cells, count, taken>>
    BY <1>3 DEF Block!Restart, Block!mem
  <2>2. pc = "idle" /\ pending = <<>>
    BY <2>1 DEF BlockInv, LengthInv, WholeBlock
  <2>3. /\ Block!Recoverable' = Block!Recoverable
        /\ magic' => loglen' < Room /\ Readable(cells', loglen')
    BY <2>1, MemKept
  <2>4. WholeBlock'
    BY <2>1, <2>2, <2>3 DEF WholeBlock, OneLine, Prefixed
  <2> QED BY <2>1, <2>3, <2>4 DEF Effect, Same, Added
<1>4. CASE UNCHANGED blockVars
  <2>1. UNCHANGED <<magic, loglen, cells, length, stream, pending, pc, crypt, up, count, taken, crashes>>
    BY <1>4 DEF blockVars
  <2>2. /\ Block!Recoverable' = Block!Recoverable
        /\ magic' => loglen' < Room /\ Readable(cells', loglen')
    BY <2>1, MemKept
  <2>3. WholeBlock'
    BY <2>1, <2>2 DEF BlockInv, WholeBlock, OneLine, Prefixed
  <2> QED BY <2>1, <2>2, <2>3 DEF Effect, Same, Added
<1> QED BY <1>1, <1>2, <1>3, <1>4

LEMMA BlockEffect ==
  ASSUME BlockInv, RoomLeft, LinesFit, [Block!Next]_blockVars
  PROVE  BlockInv' /\ Effect
<1>1. LengthInv /\ LengthInv'
  BY BlockRoom, BlockStep DEF BlockInv
<1>2. WholeBlock' /\ Effect
  <2>1. CASE Block!WriteBegin
    BY <2>1, BeginWhole DEF Effect, LinesFit
  <2>2. ASSUME NEW d \in Sizes, Block!WriteDeflate(d) PROVE WholeBlock' /\ Effect
    BY <2>2, DeflateWhole
  <2>3. CASE Block!WritePrefix \/ Block!WriteData \/ Block!WriteLength
    BY <2>3, PrefixWhole, DataWhole, LengthWhole DEF Effect
  <2>4. CASE Block!WriteLogLen
    BY <2>4, LogLenWhole DEF Effect
  <2>5. CASE Block!FlushBegin \/ Block!FlushTail
    BY <2>5, FlushWhole DEF Effect
  <2>6. CASE Block!FlushCopy
    BY <2>6, CopyWhole DEF Effect
  <2>7. CASE Block!FlushClear \/ Block!Crash \/ Block!Restart \/ UNCHANGED blockVars
    BY <2>7, RestWhole
  <2> QED BY <2>1, <2>2, <2>3, <2>4, <2>5, <2>6, <2>7 DEF Block!Next
<1> QED BY <1>1, <1>2 DEF BlockInv

LEMMA EffectIs == Effect => [Block!AB!Write \/ Block!AB!Flush]_<<Block!Recoverable, taken, Added>>
BY DEF Effect, Same, Refused, Stored, Flushed, Block!AB!Write, Block!AB!Flush, Added, Writing

LEMMA WholeStarts == Block!Init => WholeBlock /\ Block!AB!Init
BY DEF Block!Init, WholeBlock, OneLine, Prefixed, Block!AB!Init, Block!Recoverable

(* Where the lines of the run all fit, the room is there: each line is at  *)
(* most a prefix and a crypt_buffer.                                       *)
EveryLineFits == LinesFit /\ MaxLines * (2 + CryptRoom) < Room

Bound == magic => loglen <= Added * (2 + CryptRoom)

LEMMA Widths ==
  ASSUME NEW w \in Nat, NEW m \in Nat, NEW n \in Nat
  PROVE  m * w \in Nat /\ (m + 1) * w = m * w + w /\ (m <= n => m * w <= n * w)
<1>1. m * w \in Nat /\ (m + 1) * w = m * w + w
  OBVIOUS
<1>2. ASSUME m <= n PROVE m * w <= n * w
  <2>1. PICK k \in Nat : n = m + k
    <3>1. n - m \in Nat /\ n = m + (n - m)
      BY <1>2
    <3> QED BY <3>1
  <2>2. n * w = m * w + k * w /\ k * w \in Nat
    BY <2>1
  <2> QED BY <1>1, <2>2
<1> QED BY <1>1, <1>2

LEMMA BoundRoom == BlockInv /\ Bound /\ EveryLineFits => RoomLeft
<1> SUFFICES ASSUME BlockInv, Bound, EveryLineFits, pc = "deflate" PROVE length + 2 + CryptRoom < 1 + Room
  BY DEF RoomLeft
<1>1. PICK w \in Nat : w = 2 + CryptRoom
  BY MachinesAssumption
<1>2. /\ magic /\ length = 1 + loglen /\ loglen \in Nat /\ count \in Nat /\ count > 0 /\ count <= MaxLines
      /\ MaxLines \in Nat /\ Room \in Nat /\ CryptRoom \in Nat
  BY MachinesAssumption DEF BlockInv, LengthInv, BlockTypes, Writing
<1>3. PICK m \in Nat : m = count - 1 /\ m + 1 <= MaxLines
  BY <1>2
<1>4. loglen <= m * w
  BY <1>1, <1>2, <1>3 DEF Bound, Added, Writing
<1>5. m * w \in Nat /\ (m + 1) * w = m * w + w
  BY Widths
<1>6. (m + 1) * w <= MaxLines * w
  <2>1. m + 1 \in Nat
    BY <1>3
  <2> QED BY <1>2, <1>3, <2>1, Widths
<1>7. MaxLines * w < Room /\ MaxLines * w \in Nat
  BY <1>1, <1>2, Widths DEF EveryLineFits
<1>8. loglen + w < Room
  BY <1>2, <1>4, <1>5, <1>6, <1>7
<1> QED BY <1>1, <1>2, <1>8

(* The length grows by one line at most when a line is added.              *)
LEMMA BoundStep ==
  ASSUME BlockInv, Bound, EveryLineFits, [Block!Next]_blockVars
  PROVE  Bound'
<1>1. PICK w \in Nat : w = 2 + CryptRoom
  BY MachinesAssumption
<1>2. loglen \in Nat /\ count \in Nat /\ (pc \in Writing => count > 0)
  BY MachinesAssumption DEF BlockInv, LengthInv, BlockTypes
<1>3. PICK m \in Nat : m = Added
  BY <1>2 DEF Added
<1>4. \/ ~magic'
      \/ loglen' = 0 /\ Added' = m
      \/ magic' = magic /\ loglen' = loglen /\ (Added' = m \/ Added' = m + 1)
      \/ magic /\ loglen' <= loglen + w /\ loglen' \in Nat /\ Added' = m + 1
  <2>1. CASE Block!WriteBegin
    BY <1>2, <1>3, <2>1 DEF Block!WriteBegin, Block!mem, Added, Writing
  <2>2. ASSUME NEW d \in Sizes, Block!WriteDeflate(d) PROVE magic' = magic /\ loglen' = loglen /\ (Added' = m \/ Added' = m + 1)
    BY <1>2, <1>3, <2>2 DEF Block!WriteDeflate, Added, Writing
  <2>3. CASE Block!WritePrefix \/ Block!WriteData \/ Block!WriteLength
    BY <1>2, <1>3, <2>3 DEF Block!WritePrefix, Block!WriteData, Block!WriteLength, Block!mem, Added, Writing
  <2>4. CASE Block!WriteLogLen
    <3>1. pc = "loglen" /\ pc' = "idle" /\ loglen' = loglen + 2 + Len(crypt) /\ count' = count
      BY <2>4 DEF Block!WriteLogLen, Block!PrefixLen
    <3>2. PICK d \in Sizes : Len(crypt) = d /\ d \in Nat \ {0}
      BY <3>1, LineAt
    <3>3. d <= CryptRoom
      BY DEF EveryLineFits, LinesFit
    <3>4. magic /\ count > 0
      BY <3>1, LineAt
    <3>5. Added' = m + 1
      BY <1>2, <1>3, <3>1, <3>4 DEF Added, Writing
    <3>6. loglen' <= loglen + w /\ loglen' \in Nat
      BY <1>1, <1>2, <3>1, <3>2, <3>3, MachinesAssumption
    <3> QED BY <3>4, <3>5, <3>6
  <2>5. CASE Block!FlushBegin \/ Block!FlushTail
    BY <1>2, <1>3, <2>5 DEF Block!FlushBegin, Block!FlushTail, Block!mem, Added, Writing
  <2>6. CASE Block!FlushCopy \/ Block!FlushClear
    BY <2>6 DEF Block!FlushCopy, Block!FlushClear
  <2>7. CASE Block!Crash
    BY <1>2, <1>3, <2>7 DEF Block!Crash, Block!mem, Added, Writing
  <2>8. CASE Block!Restart
    BY <1>2, <1>3, <2>8 DEF Block!Restart, Block!mem, Added, Writing
  <2>9. CASE UNCHANGED blockVars
    BY <1>2, <1>3, <2>9 DEF blockVars, Added, Writing
  <2> QED BY <2>1, <2>2, <2>3, <2>4, <2>5, <2>6, <2>7, <2>8, <2>9 DEF Block!Next
<1>5. m * w \in Nat /\ (m + 1) * w = m * w + w
  BY Widths
<1>6. Bound <=> (magic => loglen <= m * w)
  BY <1>1, <1>3 DEF Bound
<1>7. SUFFICES ASSUME magic' PROVE loglen' <= Added' * w
  BY <1>1 DEF Bound
<1>8. CASE loglen' = 0 /\ Added' = m
  BY <1>5, <1>8
<1>9. CASE magic' = magic /\ loglen' = loglen /\ Added' = m
  BY <1>6, <1>7, <1>9
<1>10. CASE magic' = magic /\ loglen' = loglen /\ Added' = m + 1
  <2>1. magic /\ loglen <= m * w
    BY <1>6, <1>7, <1>10
  <2>2. loglen <= m * w + w
    BY <1>2, <1>5, <2>1
  <2> QED BY <1>5, <1>10, <2>2
<1>11. CASE magic /\ loglen' <= loglen + w /\ loglen' \in Nat /\ Added' = m + 1
  <2>1. loglen <= m * w
    BY <1>6, <1>11
  <2>2. PICK l \in Nat : l = loglen'
    BY <1>11
  <2>3. l <= m * w + w
    BY <1>2, <1>5, <1>11, <2>1, <2>2
  <2> QED BY <1>5, <1>11, <2>2, <2>3
<1> QED BY <1>4, <1>7, <1>8, <1>9, <1>10, <1>11

LEMMA BoundStarts == Block!Init => Bound
BY DEF Block!Init, Bound

LEMMA BlockGrows ==
  ASSUME BlockInv, Bound, EveryLineFits, [Block!Next]_blockVars
  PROVE  BlockInv' /\ Bound' /\ Effect
<1>1. RoomLeft /\ LinesFit
  BY BoundRoom DEF EveryLineFits
<1> QED BY <1>1, BoundStep, BlockEffect

(* The block under either assumption.                                      *)
LEMMA BlockIs ==
  /\ Block!Init /\ [][Block!Next]_blockVars /\ LinesFit /\ []RoomLeft => []BlockInv /\ Block!AB!Spec
  /\ Block!Init /\ [][Block!Next]_blockVars /\ EveryLineFits => []BlockInv /\ Block!AB!Spec
<1>1. Block!Init => BlockInv /\ Bound /\ Block!AB!Init
  BY BlockStarts, WholeStarts, BoundStarts DEF BlockInv
<1>2. BlockInv /\ RoomLeft /\ LinesFit /\ [Block!Next]_blockVars => BlockInv' /\ Effect
  BY BlockEffect
<1>3. BlockInv /\ Bound /\ EveryLineFits /\ [Block!Next]_blockVars => (BlockInv /\ Bound)' /\ Effect
  BY BlockGrows
<1>4. Effect => [Block!AB!Write \/ Block!AB!Flush]_<<Block!Recoverable, taken, Added>>
  BY EffectIs
<1>5. LinesFit => LinesFit'
  BY DEF LinesFit
<1>6. EveryLineFits => EveryLineFits'
  BY DEF EveryLineFits, LinesFit
<1> QED BY <1>1, <1>2, <1>3, <1>4, <1>5, <1>6, PTL DEF Block!AB!Spec, Added, Writing

LEMMA LengthsHold ==
  Block!Init /\ [][Block!Next]_blockVars /\ []Block!LengthAssert => []LengthInv
<1>1. LengthInv /\ Block!LengthAssert /\ [Block!Next]_blockVars => LengthInv'
  BY BlockStep
<1> QED BY <1>1, BlockStarts, PTL

LEMMA BlockOfMachines == MachinesSpec => Block!Init /\ [][Block!Next]_blockVars
<1>1. MachinesInit => Block!Init
  BY DEF MachinesInit
<1> QED BY <1>1, Interleaved, PTL DEF MachinesSpec

LEMMA AllTypes ==
  FileInv /\ SdtInv /\ SourcesInv /\ TypeOK /\ SessionTypeOK /\ LengthInv => TypesOK
BY FilesSafe, SdtSafe, SourcesSafe, BlockLengths DEF TypesOK

(* The types of all machines, and that between two calls the length of the *)
(* log block is the one a restart takes from the mmap file: as long as no  *)
(* line overruns the block.  What one does that is the run block_full.     *)
THEOREM MachinesTypes == MachinesSpec /\ []Block!LengthAssert => []TypesOK
<1>1. MachinesSpec => File!Spec /\ Spec /\ SessionSpec
  BY MachinesAreTheirModules
<1> QED
  BY <1>1, FilesHold, ChecksHold, ThreadTypes, SessionTypes, BlockOfMachines, LengthsHold, AllTypes, PTL

(* A log block is AtomicBlock: whenever the process dies, at any memory    *)
(* write of LogBuffer::Write or Flush, a restart decodes from the mmap     *)
(* file exactly the lines whose Write ended and that were not flushed.     *)
(* For any sizes that fit into crypt_buffer, if whoever writes leaves room *)
(* for one more line.                                                      *)
THEOREM MachinesBlockWhole == MachinesSpec /\ LinesFit /\ []RoomLeft => ImplementsBlock
BY BlockOfMachines, BlockIs, PTL DEF ImplementsBlock, Block!ImplementsBlock

(* If the lines of a run all fit, nothing else is needed: no write breaks  *)
(* the assertion on the length of the block, the types hold, and the block *)
(* is AtomicBlock.                                                         *)
THEOREM MachinesBlockFits ==
  MachinesSpec /\ EveryLineFits => []Block!LengthAssert /\ []TypesOK /\ ImplementsBlock
<1>1. BlockInv => Block!LengthAssert
  BY BlockRoom
<1> QED
  BY <1>1, BlockOfMachines, BlockIs, MachinesTypes, PTL DEF ImplementsBlock, Block!ImplementsBlock
=============================================================================
