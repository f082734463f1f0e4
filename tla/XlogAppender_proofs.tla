------------------------- MODULE XlogAppender_proofs -------------------------
(***************************************************************************)
(* Proofs about XlogAppender for every set of threads, every marks and     *)
(* every bounds.  All actions touch the places of the lines in one of six  *)
(* ways (the EFFECTS below); a first lemma says which, and the invariants  *)
(* are shown effect by effect.  The second part is about the asynchronous  *)
(* mode: its flush thread, and the order of the lines of a session.        *)
(***************************************************************************)
EXTENDS XlogAppender, SequenceTheorems, TLAPS

-----------------------------------------------------------------------------
(* The inductive form of TypeOK: a mapped block has emptied the mmap file, *)
(* and there are lines in the block only while there is a block.           *)
BlockInv ==
  /\ is_mapped => held[Mmap] = <<>>
  /\ ~has_buff => held[Buff] = <<>>
  /\ mpc \in {"o_flush", "o_sealed", "o_publish", "o_setmode", "o_recover",
              "c_notify", "c_join", "c_free"} => has_buff
  /\ ~sg_log_close => has_buff
  /\ mpc \in {"c_notify", "c_join", "c_free"} => sg_log_close

TypeInv == TypeOK /\ BlockInv

LEMMA PlacesDistinct ==
  /\ Buff \in Places /\ Mmap \in Places /\ File \in Places
  /\ Flusher \in Places /\ Main \in Places /\ Threads \subseteq Places
  /\ Buff # Mmap /\ Buff # File /\ Buff # Flusher /\ Buff # Main
  /\ Mmap # File /\ Mmap # Flusher /\ Mmap # Main
  /\ File # Flusher /\ File # Main /\ Flusher # Main
  /\ \A w \in Threads : w # Buff /\ w # Mmap /\ w # File /\ w # Flusher /\ w # Main
  BY ThreadsAssumption DEF Places, Buff, Mmap, File, Flusher, Main

(* What a move, a drop and a new entry do to the types of the places.      *)
LEMMA MoveType ==
  ASSUME held \in [Places -> Seq(Line)],
         NEW p \in Places, NEW q \in Places, p # q, Move(p, q)
  PROVE  /\ held' \in [Places -> Seq(Line)]
         /\ held'[p] = <<>> /\ held'[q] = held[q] \o held[p]
         /\ \A r \in Places \ {p, q} : held'[r] = held[r]
         /\ Len(held'[q]) = Len(held[q]) + Len(held[p])
<1>1. held[p] \in Seq(Line) /\ held[q] \in Seq(Line)
  OBVIOUS
<1>2. held[q] \o held[p] \in Seq(Line) /\ <<>> \in Seq(Line)
  BY <1>1
<1>3. held' = [held EXCEPT ![q] = held[q] \o held[p], ![p] = <<>>]
  BY DEF Move
<1>4. /\ held' \in [Places -> Seq(Line)]
      /\ held'[p] = <<>> /\ held'[q] = held[q] \o held[p]
      /\ \A r \in Places \ {p, q} : held'[r] = held[r]
  BY <1>2, <1>3, Zenon
<1>5. Len(held[q] \o held[p]) = Len(held[q]) + Len(held[p])
  BY <1>1
<1> QED
  BY <1>4, <1>5

LEMMA DropType ==
  ASSUME held \in [Places -> Seq(Line)], NEW p \in Places, Drop(p)
  PROVE  /\ held' \in [Places -> Seq(Line)]
         /\ held'[p] = <<>>
         /\ \A r \in Places \ {p} : held'[r] = held[r]
  BY DEF Drop, Line

LEMMA AppendType ==
  ASSUME held \in [Places -> Seq(Line)], NEW p \in Places, NEW e \in Line,
         held' = [held EXCEPT ![p] = Append(@, e)]
  PROVE  /\ held' \in [Places -> Seq(Line)]
         /\ held'[p] = Append(held[p], e)
         /\ \A r \in Places \ {p} : held'[r] = held[r]
         /\ Len(held'[p]) = Len(held[p]) + 1
  BY DEF Line

LEMMA LinesType ==
  ASSUME NEW s \in Seq(Line) PROVE Lines(s) \subseteq Nat
  BY DEF Lines, Line
-----------------------------------------------------------------------------
(* The effects of a step on held, lost and accepted.                       *)
Untouched == UNCHANGED <<held, lost, accepted>>

Moved ==
  \E p \in Places \ {File}, q \in Places :
    /\ p # q /\ q # Mmap /\ Move(p, q)
    /\ (q = Buff => p = Mmap /\ held[Buff] = <<>> /\ has_buff')
    /\ UNCHANGED <<lost, accepted>>

Dropped == \E p \in Places \ {File} : Drop(p) /\ accepted' = accepted

Stored ==
  \E p \in {Buff, File} :
    /\ held' = [held EXCEPT ![p] = Append(@, accepted + 1)]
    /\ (p = Buff => has_buff /\ Len(held[Buff]) < BlockLength)
    /\ accepted' = accepted + 1 /\ lost' = lost

Refused ==
  /\ \/ held' = held
     \/ /\ held' = [held EXCEPT ![Buff] = Append(@, Warning)]
        /\ has_buff /\ Len(held[Buff]) < BlockLength
  /\ accepted' = accepted + 1 /\ lost' = lost \cup {accepted + 1}

Effect == Untouched \/ Moved \/ Dropped \/ Stored \/ Refused \/ Crash

LEMMA Log2FileEffect ==
  ASSUME NEW p \in Places \ {File, Mmap, Buff}, Log2File(p), accepted' = accepted
  PROVE  Moved \/ Dropped
  BY PlacesDistinct DEF Log2File, Moved, Dropped

LEMMA FlushEffect ==
  ASSUME NEW p \in Places \ {File, Mmap, Buff}, Flush(p), UNCHANGED <<accepted, lost>>
  PROVE  Moved
  BY PlacesDistinct DEF Flush, Moved

LEMMA WriterEffect ==
  ASSUME TypeInv, NEW w \in Threads, Writer(w)
  PROVE  Effect
<1>1. w \in Places \ {File, Mmap, Buff}
  BY PlacesDistinct
<1>2. CASE Call(w) \/ Route(w) \/ AppenderFlush(w) \/ FlushSync(w)
  BY <1>2 DEF Call, Route, AppenderFlush, FlushSync, Effect, Untouched
<1>3. CASE AppenderSync(w)
  <2>1. CASE held' = [held EXCEPT ![File] = Append(@, accepted + 1)] /\ UNCHANGED <<lost, fails>>
    BY <1>3, <2>1, PlacesDistinct DEF AppenderSync, Accept, Effect, Stored
  <2>2. CASE lost' = lost \cup {accepted + 1} /\ UNCHANGED held
    BY <1>3, <2>2 DEF AppenderSync, Accept, Effect, Refused
  <2> QED
    BY <1>3, <2>1, <2>2 DEF AppenderSync
<1>4. CASE FlushSyncTake(w)
  <2>1. CASE Flush(w)
    BY <1>1, <1>4, <2>1, FlushEffect DEF FlushSyncTake, Effect
  <2>2. CASE UNCHANGED held
    BY <1>4, <2>2 DEF FlushSyncTake, Effect, Untouched
  <2> QED
    BY <1>4, <2>1, <2>2 DEF FlushSyncTake
<1>5. CASE FlushSyncWrite(w)
  BY <1>1, <1>5, Log2FileEffect DEF FlushSyncWrite, Effect
<1>6. ASSUME NEW fatal \in BOOLEAN, AppenderAsync(w, fatal)
      PROVE  Effect
  <2>1. CASE ~has_buff
    BY <1>6, <2>1 DEF AppenderAsync, Effect, Untouched
  <2>2. CASE has_buff /\ Writable /\ Len(held[Buff]) < FullMark
    BY <1>6, <2>2 DEF AppenderAsync, Accept, Writable, Effect, Stored
  <2>3. CASE has_buff /\ Writable /\ ~(Len(held[Buff]) < FullMark)
    BY <1>6, <2>3 DEF AppenderAsync, Accept, Writable, Effect, Refused
  <2>4. CASE has_buff /\ ~Writable
    BY <1>6, <2>4 DEF AppenderAsync, Accept, Effect, Refused
  <2> QED
    BY <2>1, <2>2, <2>3, <2>4
<1> QED
  BY <1>2, <1>3, <1>4, <1>5, <1>6 DEF Writer

LEMMA FlushThreadEffect ==
  ASSUME TypeInv, FlushThread
  PROVE  Effect
<1>1. Flusher \in Places \ {File, Mmap, Buff}
  BY PlacesDistinct
<1>2. CASE ThreadTake
  BY <1>1, <1>2, FlushEffect DEF ThreadTake, Effect, Untouched
<1>3. CASE ThreadWrite
  BY <1>1, <1>3, Log2FileEffect DEF ThreadWrite, Effect
<1>4. CASE ThreadCheck \/ ThreadWait \/ ThreadTimeout \/ ThreadEnd
  BY <1>4 DEF ThreadCheck, ThreadWait, ThreadTimeout, ThreadEnd, Effect, Untouched
<1> QED
  BY <1>2, <1>3, <1>4 DEF FlushThread

LEMMA MainThreadEffect ==
  ASSUME TypeInv, MainThread
  PROVE  Effect
<1>1. Main \in Places \ {File, Mmap, Buff}
  BY PlacesDistinct
<1>2. ASSUME NEW mapped \in BOOLEAN, OpenBuffer(mapped)
      PROVE  Effect
  <2>1. CASE mapped
    <3>1. Mmap \in Places \ {File} /\ Buff \in Places /\ Mmap # Buff
      BY PlacesDistinct
    <3>2. Move(Mmap, Buff) /\ held[Buff] = <<>> /\ has_buff' /\ UNCHANGED <<lost, accepted>>
      BY <1>2, <2>1 DEF OpenBuffer, TypeInv, BlockInv
    <3> QED
      BY <3>1, <3>2 DEF Effect, Moved
  <2>2. CASE ~mapped
    BY <1>2, <2>2 DEF OpenBuffer, Effect, Untouched
  <2> QED
    BY <2>1, <2>2
<1>3. CASE OpenFlush
  BY <1>1, <1>3, FlushEffect DEF OpenFlush, Effect
<1>4. CASE OpenRecover
  BY <1>1, <1>4, Log2FileEffect DEF OpenRecover, Effect
<1>5. CASE OpenPublish \/ CloseBegin \/ CloseNotify \/ CloseJoin
  BY <1>5 DEF OpenPublish, CloseBegin, CloseNotify, CloseJoin, Effect, Untouched
<1>6. ASSUME NEW mode \in Modes, OpenSetMode(mode) \/ SetMode(mode)
      PROVE  Effect
  BY <1>6 DEF OpenSetMode, SetMode, Effect, Untouched
<1>7. CASE CloseFree
  BY <1>7, PlacesDistinct DEF CloseFree, Effect, Dropped
<1> QED
  BY <1>2, <1>3, <1>4, <1>5, <1>6, <1>7 DEF MainThread

LEMMA StepEffect ==
  ASSUME TypeInv, [Next]_vars
  PROVE  Effect
  BY WriterEffect, FlushThreadEffect, MainThreadEffect DEF Next, Effect, Untouched, vars
-----------------------------------------------------------------------------
(* Type correctness.                                                       *)
ScalarType ==
  /\ sg_mode \in {"async", "sync"} /\ sg_log_close \in BOOLEAN
  /\ has_buff \in BOOLEAN /\ is_mapped \in BOOLEAN
  /\ wpc \in [Threads -> {"idle", "called", "async", "sync", "flush", "flushed"}]
  /\ tpc \in {"none", "top", "write", "check", "parking", "wait", "ended"}
  /\ mpc \in {"idle", "o_flush", "o_sealed", "o_publish", "o_setmode", "o_recover",
              "c_notify", "c_join", "c_free"}
  /\ accepted \in Nat /\ lost \subseteq Nat /\ starts \subseteq Nat
  /\ quiet \in BOOLEAN /\ crashes \in Nat /\ fails \in Nat

HeldType ==
  /\ held \in [Places -> Seq(Line)]
  /\ Len(held[Buff]) <= BlockLength /\ Len(held[Mmap]) <= BlockLength

(* What each step does to the block and to the mmap file, apart from the   *)
(* lines.                                                                  *)
BlockStep ==
  /\ is_mapped' => is_mapped \/ held'[Mmap] = <<>>
  /\ has_buff /\ ~has_buff' => held'[Buff] = <<>>
  /\ mpc' \in {"o_flush", "o_sealed", "o_publish", "o_setmode", "o_recover",
               "c_notify", "c_join", "c_free"} => has_buff'
  /\ ~sg_log_close' => has_buff'
  /\ mpc' \in {"c_notify", "c_join", "c_free"} => sg_log_close'

LEMMA LostType ==
  ASSUME TypeInv, Effect PROVE lost' \subseteq Nat /\ accepted' \in Nat
<1>1. lost \subseteq Nat /\ accepted \in Nat /\ held \in [Places -> Seq(Line)]
  BY DEF TypeInv, TypeOK
<1>2. CASE Untouched \/ Moved
  BY <1>1, <1>2 DEF Untouched, Moved
<1>a. CASE Stored
  BY <1>1, <1>a DEF Stored
<1>b. CASE Refused
  BY <1>1, <1>b DEF Refused
<1>3. CASE Dropped
  BY <1>1, <1>3, LinesType DEF Dropped, Drop
<1>4. CASE Crash
  <2>1. \A p \in Places : Lines(held[p]) \subseteq Nat
    BY <1>1, LinesType
  <2> QED
    BY <1>1, <1>4, <2>1 DEF Crash
<1> QED
  BY <1>2, <1>a, <1>b, <1>3, <1>4 DEF Effect

LEMMA ScalarStep ==
  ASSUME TypeInv, [Next]_vars PROVE ScalarType' /\ BlockStep
<1>1. ScalarType /\ BlockInv /\ HeldType
  BY DEF TypeInv, TypeOK, ScalarType, HeldType
<1>2. lost' \subseteq Nat /\ accepted' \in Nat
  BY StepEffect, LostType
<1>3. CASE UNCHANGED vars
  BY <1>1, <1>3 DEF vars, ScalarType, BlockInv, BlockStep
<1>4. ASSUME NEW w \in Threads, Writer(w) PROVE ScalarType' /\ BlockStep
  <2>1a. CASE Call(w)
    BY <1>1, <2>1a DEF Call, NotifyAll, ScalarType, BlockInv, BlockStep
  <2>1b. CASE Route(w)
    BY <1>1, <2>1b DEF Route, NotifyAll, ScalarType, BlockInv, BlockStep
  <2>2. CASE AppenderSync(w)
    BY <1>1, <1>2, <2>2 DEF AppenderSync, ScalarType, BlockInv, BlockStep
  <2>3a. CASE AppenderFlush(w)
    BY <1>1, <2>3a DEF AppenderFlush, NotifyAll, ScalarType, BlockInv, BlockStep
  <2>3b. CASE FlushSync(w)
    BY <1>1, <2>3b DEF FlushSync, NotifyAll, ScalarType, BlockInv, BlockStep
  <2>3c. CASE FlushSyncTake(w)
    BY <1>1, <2>3c DEF FlushSyncTake, NotifyAll, ScalarType, BlockInv, BlockStep
  <2>4. CASE FlushSyncWrite(w)
    BY <1>1, <1>2, <2>4 DEF FlushSyncWrite, Log2File, ScalarType, BlockInv, BlockStep
  <2>5. ASSUME NEW fatal \in BOOLEAN, AppenderAsync(w, fatal)
        PROVE  ScalarType' /\ BlockStep
    BY <1>1, <1>2, <2>5 DEF AppenderAsync, NotifyAll, ScalarType, BlockInv, BlockStep
  <2> QED
    BY <1>4, <2>1a, <2>1b, <2>2, <2>3a, <2>3b, <2>3c, <2>4, <2>5 DEF Writer
<1>5. CASE FlushThread
  <2>1a. CASE ThreadTake
    BY <1>1, <2>1a DEF ThreadTake, NotifyAll, ScalarType, BlockInv, BlockStep
  <2>1b. CASE ThreadCheck
    BY <1>1, <2>1b DEF ThreadCheck, NotifyAll, ScalarType, BlockInv, BlockStep
  <2>1c. CASE ThreadWait
    BY <1>1, <2>1c DEF ThreadWait, NotifyAll, ScalarType, BlockInv, BlockStep
  <2>1d. CASE ThreadTimeout
    BY <1>1, <2>1d DEF ThreadTimeout, NotifyAll, ScalarType, BlockInv, BlockStep
  <2>1e. CASE ThreadEnd
    BY <1>1, <2>1e DEF ThreadEnd, NotifyAll, ScalarType, BlockInv, BlockStep
  <2>2. CASE ThreadWrite
    BY <1>1, <1>2, <2>2 DEF ThreadWrite, Log2File, ScalarType, BlockInv, BlockStep
  <2> QED
    BY <1>5, <2>1a, <2>1b, <2>1c, <2>1d, <2>1e, <2>2 DEF FlushThread
<1>6. CASE MainThread
  <2>1. ASSUME NEW mapped \in BOOLEAN, OpenBuffer(mapped)
        PROVE  ScalarType' /\ BlockStep
    <3>1. mapped => held'[Mmap] = <<>>
      BY <2>1, <1>1, PlacesDistinct, MoveType DEF OpenBuffer, HeldType
    <3> QED
      BY <1>1, <2>1, <3>1 DEF OpenBuffer, ScalarType, BlockInv, BlockStep
  <2>2. CASE OpenFlush
    <3>1. starts' \subseteq Nat
      BY <1>1, <2>2 DEF OpenFlush, ScalarType
    <3> QED
      BY <1>1, <2>2, <3>1 DEF OpenFlush, ScalarType, BlockInv, BlockStep
  <2>3a. CASE OpenPublish
    BY <1>1, <2>3a DEF OpenPublish, NotifyAll, ScalarType, BlockInv, BlockStep
  <2>3b. CASE CloseBegin
    BY <1>1, <2>3b DEF CloseBegin, NotifyAll, ScalarType, BlockInv, BlockStep
  <2>3c. CASE CloseNotify
    BY <1>1, <2>3c DEF CloseNotify, NotifyAll, ScalarType, BlockInv, BlockStep
  <2>3d. CASE CloseJoin
    BY <1>1, <2>3d DEF CloseJoin, NotifyAll, ScalarType, BlockInv, BlockStep
  <2>4. CASE OpenRecover
    BY <1>1, <1>2, <2>4 DEF OpenRecover, Log2File, ScalarType, BlockInv, BlockStep
  <2>5. ASSUME NEW mode \in Modes, OpenSetMode(mode) \/ SetMode(mode)
        PROVE  ScalarType' /\ BlockStep
    BY <1>1, <2>5, ModesAssumption
       DEF OpenSetMode, SetMode, AppenderSetMode, ScalarType, BlockInv, BlockStep
  <2>6. CASE CloseFree
    <3>1. held'[Buff] = <<>>
      BY <1>1, <2>6, PlacesDistinct, DropType DEF CloseFree, HeldType
    <3> QED
      BY <1>1, <1>2, <2>6, <3>1 DEF CloseFree, ScalarType, BlockInv, BlockStep
  <2> QED
    BY <1>6, <2>1, <2>2, <2>3a, <2>3b, <2>3c, <2>3d, <2>4, <2>5, <2>6 DEF MainThread
<1>7. CASE Crash
  <2>1. held'[Buff] = <<>>
    BY <1>7, PlacesDistinct DEF Crash
  <2>2. /\ crashes' = crashes + 1
        /\ sg_mode' = "async" /\ sg_log_close' = TRUE /\ has_buff' = FALSE /\ is_mapped' = FALSE
        /\ wpc' = [w \in Threads |-> "idle"] /\ tpc' = "none" /\ mpc' = "idle"
        /\ UNCHANGED <<starts, quiet, fails>>
    BY <1>7 DEF Crash
  <2>3. wpc' \in [Threads -> {"idle", "called", "async", "sync", "flush", "flushed"}]
    BY <2>2, Zenon
  <2>4. BlockStep
    BY <2>1, <2>2 DEF BlockStep
  <2>5. crashes' \in Nat /\ starts' \subseteq Nat /\ fails' \in Nat /\ quiet' \in BOOLEAN
    BY <1>1, <2>2 DEF ScalarType
  <2> QED
    BY <1>2, <2>2, <2>3, <2>4, <2>5 DEF ScalarType
<1> QED
  BY <1>3, <1>4, <1>5, <1>6, <1>7 DEF Next

LEMMA HeldStep ==
  ASSUME TypeInv, Effect, BlockStep PROVE HeldType' /\ BlockInv'
<1> USE DEF Line
<1>1. HeldType /\ BlockInv /\ BlockLength \in Nat /\ 0 <= BlockLength
  BY MarksAssumption DEF TypeInv, TypeOK, HeldType
<1>2. \A p \in Places : held[p] \in Seq(Line) /\ Len(held[p]) \in Nat
  BY <1>1 DEF HeldType
<1>3. SUFFICES /\ HeldType'
               /\ is_mapped /\ is_mapped' => held'[Mmap] = <<>>
               /\ ~has_buff /\ ~has_buff' => held'[Buff] = <<>>
  BY DEF BlockInv, BlockStep
<1>4. CASE Untouched
  BY <1>1, <1>4 DEF Untouched, HeldType, BlockInv
<1>5. CASE Moved
  <2>1. PICK p \in Places \ {File}, q \in Places :
             /\ p # q /\ q # Mmap /\ Move(p, q)
             /\ (q = Buff => p = Mmap /\ held[Buff] = <<>> /\ has_buff')
    BY <1>5 DEF Moved
  <2>2. /\ held' \in [Places -> Seq(Line)]
        /\ held'[p] = <<>> /\ held'[q] = held[q] \o held[p]
        /\ \A r \in Places \ {p, q} : held'[r] = held[r]
        /\ Len(held'[q]) = Len(held[q]) + Len(held[p])
    BY <1>1, <2>1, MoveType DEF HeldType
  <2>3. held'[Mmap] = <<>> \/ held'[Mmap] = held[Mmap]
    BY <2>1, <2>2, PlacesDistinct
  <2>4. held'[Buff] = <<>> \/ held'[Buff] = held[Buff]
        \/ (Len(held'[Buff]) = Len(held[Mmap]) /\ has_buff')
    <3>1. CASE q = Buff
      <4>1. Len(held[q]) = 0 /\ Len(held[Mmap]) \in Nat /\ has_buff' /\ p = Mmap
        BY <1>2, <2>1, <3>1, PlacesDistinct
      <4>2. Len(held'[q]) = 0 + Len(held[Mmap])
        BY <2>2, <4>1
      <4> QED
        BY <3>1, <4>1, <4>2
    <3>2. CASE q # Buff
      BY <2>2, <3>2, PlacesDistinct, Zenon
    <3> QED
      BY <3>1, <3>2
  <2> QED
    BY <1>1, <2>2, <2>3, <2>4, PlacesDistinct DEF HeldType, BlockInv
<1>6. CASE Dropped
  <2>1. PICK p \in Places : Drop(p)
    BY <1>6 DEF Dropped
  <2>2. /\ held' \in [Places -> Seq(Line)]
        /\ \A r \in Places : held'[r] = <<>> \/ held'[r] = held[r]
    BY <1>1, <2>1, DropType DEF HeldType
  <2> QED
    BY <1>1, <2>2, PlacesDistinct DEF HeldType, BlockInv
<1>7. CASE Stored
  <2>1. accepted + 1 \in Nat
    BY DEF TypeInv, TypeOK
  <2>2. PICK p \in {Buff, File} :
             /\ held' = [held EXCEPT ![p] = Append(@, accepted + 1)]
             /\ (p = Buff => has_buff /\ Len(held[Buff]) < BlockLength)
    BY <1>7 DEF Stored
  <2>3. /\ held' \in [Places -> Seq(Line)]
        /\ \A r \in Places \ {p} : held'[r] = held[r]
        /\ Len(held'[p]) = Len(held[p]) + 1
    BY <1>1, <2>1, <2>2, AppendType, PlacesDistinct DEF HeldType
  <2> QED
    BY <1>1, <1>2, <2>2, <2>3, PlacesDistinct DEF HeldType, BlockInv
<1>8. CASE Refused
  <2>1. CASE held' = held
    BY <1>1, <2>1 DEF HeldType, BlockInv
  <2>2. CASE /\ held' = [held EXCEPT ![Buff] = Append(@, Warning)]
             /\ has_buff /\ Len(held[Buff]) < BlockLength
    <3>1. Warning \in Line
      BY DEF Warning
    <3>2. /\ held' \in [Places -> Seq(Line)]
          /\ \A r \in Places \ {Buff} : held'[r] = held[r]
          /\ Len(held'[Buff]) = Len(held[Buff]) + 1
      BY <1>1, <2>2, <3>1, AppendType, PlacesDistinct DEF HeldType
    <3> QED
      BY <1>1, <1>2, <2>2, <3>2, PlacesDistinct DEF HeldType, BlockInv
  <2> QED
    BY <1>8, <2>1, <2>2 DEF Refused
<1>9. CASE Crash
  <2>1. held[Mmap] \o held[Buff] \in Seq(Line)
    BY <1>2, PlacesDistinct
  <2> DEFINE after(p) == CASE p = File -> held[File]
                           [] p = Mmap -> IF is_mapped THEN held[Mmap] \o held[Buff]
                                          ELSE held[Mmap]
                           [] OTHER -> <<>>
  <2>2. held' = [p \in Places |-> after(p)]
    BY <1>9 DEF Crash
  <2>3. \A p \in Places : after(p) \in Seq(Line)
    BY <1>2, <2>1, PlacesDistinct
  <2>5. after(Buff) = <<>> /\ after(Mmap) \in {held[Mmap], held[Mmap] \o held[Buff]}
        /\ (~is_mapped => after(Mmap) = held[Mmap])
    BY PlacesDistinct
  <2>4. held' \in [Places -> Seq(Line)] /\ held'[Buff] = after(Buff) /\ held'[Mmap] = after(Mmap)
    <3> HIDE DEF after
    <3> QED
      BY <2>2, <2>3, PlacesDistinct
  <2>6. is_mapped => held[Mmap] \o held[Buff] = held[Buff]
    BY <1>1, <1>2, PlacesDistinct, ConcatEmptySeq DEF BlockInv
  <2>7. held'[Mmap] = held[Buff] \/ held'[Mmap] = held[Mmap]
    BY <2>4, <2>5, <2>6
  <2>8. is_mapped' = FALSE
    BY <1>9 DEF Crash
  <2> QED
    BY <1>1, <2>4, <2>5, <2>7, <2>8 DEF HeldType
<1> QED
  BY <1>4, <1>5, <1>6, <1>7, <1>8, <1>9 DEF Effect

LEMMA TypeInit == Init => TypeInv
<1> SUFFICES ASSUME Init PROVE TypeInv
  OBVIOUS
<1>1. <<>> \in Seq(Line) /\ Len(<<>>) = 0
  OBVIOUS
<1>2. held \in [Places -> Seq(Line)] /\ \A p \in Places : held[p] = <<>>
  BY <1>1 DEF Init
<1>3. wpc \in [Threads -> {"idle", "called", "async", "sync", "flush", "flushed"}]
  BY DEF Init
<1>4. HeldType /\ held[Mmap] = <<>> /\ held[Buff] = <<>>
  BY <1>1, <1>2, PlacesDistinct, MarksAssumption DEF HeldType
<1>5. ScalarType
  BY <1>3 DEF Init, ScalarType
<1>6. BlockInv
  BY <1>4 DEF Init, BlockInv
<1> QED
  BY <1>4, <1>5, <1>6 DEF TypeInv, TypeOK, HeldType, ScalarType

LEMMA TypeStep == TypeInv /\ [Next]_vars => TypeInv'
  BY StepEffect, ScalarStep, HeldStep DEF TypeInv, TypeOK, ScalarType, HeldType

(* Every reachable state is well typed, and the block never overfills.     *)
THEOREM TypeCorrect == Spec => []TypeOK
<1>1. TypeInv => TypeOK
  BY DEF TypeInv
<1> QED
  BY <1>1, TypeInit, TypeStep, PTL DEF Spec

-----------------------------------------------------------------------------
(* The lines of a place after each kind of change.                         *)
LEMMA LinesConcat ==
  ASSUME NEW s \in Seq(Line), NEW t \in Seq(Line)
  PROVE  Lines(s \o t) = Lines(s) \cup Lines(t)
<1>1. /\ DOMAIN (s \o t) = 1..(Len(s) + Len(t)) /\ Len(s) \in Nat /\ Len(t) \in Nat
      /\ DOMAIN s = 1..Len(s) /\ DOMAIN t = 1..Len(t)
      /\ \A i \in 1..(Len(s) + Len(t)) :
           (s \o t)[i] = IF i <= Len(s) THEN s[i] ELSE t[i - Len(s)]
  BY ConcatProperties, LenProperties
<1>2. ASSUME NEW x \in Lines(s \o t) PROVE x \in Lines(s) \cup Lines(t)
  BY <1>1, <1>2 DEF Lines
<1>3. ASSUME NEW x \in Lines(s) PROVE x \in Lines(s \o t)
  BY <1>1, <1>3 DEF Lines
<1>4. ASSUME NEW x \in Lines(t) PROVE x \in Lines(s \o t)
  <2>1. PICK j \in 1..Len(t) : t[j] = x
    BY <1>1, <1>4 DEF Lines
  <2>2. j + Len(s) \in 1..(Len(s) + Len(t)) /\ (s \o t)[j + Len(s)] = x
    BY <1>1, <2>1
  <2> QED
    BY <1>1, <1>4, <2>2 DEF Lines
<1> QED
  BY <1>2, <1>3, <1>4

LEMMA LinesAppend ==
  ASSUME NEW s \in Seq(Line), NEW e \in Line
  PROVE  Lines(Append(s, e)) = Lines(s) \cup ({e} \ {Warning})
<1>1. /\ Len(s) \in Nat /\ DOMAIN s = 1..Len(s)
      /\ DOMAIN Append(s, e) = 1..(Len(s) + 1)
      /\ \A i \in 1..Len(s) : Append(s, e)[i] = s[i]
      /\ Append(s, e)[Len(s) + 1] = e
  OBVIOUS
<1> QED
  BY <1>1 DEF Lines

LEMMA LinesEmpty == Lines(<<>>) = {}
  BY DEF Lines

LEMMA LinesDisjoint ==
  ASSUME AtMostOnce, NEW p \in Places, NEW q \in Places, p # q
  PROVE  Lines(held[p]) \cap Lines(held[q]) = {}
  BY DEF AtMostOnce, Lines

-----------------------------------------------------------------------------
(* No line is duplicated, effect by effect.                                *)
LEMMA MoveOnce ==
  ASSUME held \in [Places -> Seq(Line)], AtMostOnce,
         NEW p \in Places, NEW q \in Places, p # q, Move(p, q)
  PROVE  AtMostOnce'
<1> DEFINE n == Len(held[q])
<1>1. /\ held'[p] = <<>> /\ held'[q] = held[q] \o held[p]
      /\ \A r \in Places \ {p, q} : held'[r] = held[r]
  BY MoveType
<1>2. /\ n \in Nat /\ Len(held[p]) \in Nat
      /\ DOMAIN held[q] = 1..n /\ DOMAIN held[p] = 1..Len(held[p])
      /\ DOMAIN held'[q] = 1..(n + Len(held[p]))
      /\ \A i \in 1..(n + Len(held[p])) :
           held'[q][i] = IF i <= n THEN held[q][i] ELSE held[p][i - n]
  <2>1. held[p] \in Seq(Line) /\ held[q] \in Seq(Line)
    OBVIOUS
  <2> QED
    BY <1>1, <2>1, ConcatProperties, LenProperties
<1> DEFINE Origin(r, i, x, j) == /\ held'[r][i] = held[x][j]
                                 /\ IF x = p THEN r = q /\ i = j + n ELSE r = x /\ i = j
<1>3. ASSUME NEW r \in Places, NEW i \in DOMAIN held'[r]
      PROVE  \E x \in Places : \E j \in DOMAIN held[x] : Origin(r, i, x, j)
  <2>1. r # p
    BY <1>1, <1>3
  <2>2. CASE r # q
    BY <1>1, <2>1, <2>2, <1>3
  <2>3. CASE r = q /\ i <= n
    <3>1. i \in DOMAIN held[q] /\ held'[r][i] = held[q][i]
      BY <1>2, <1>3, <2>3
    <3> QED
      BY <2>3, <3>1
  <2>4. CASE r = q /\ ~(i <= n)
    <3>1. i - n \in DOMAIN held[p] /\ held'[r][i] = held[p][i - n] /\ i = (i - n) + n
      BY <1>2, <1>3, <2>4
    <3> QED
      BY <2>4, <3>1
  <2> QED
    BY <2>2, <2>3, <2>4
<1>4. SUFFICES ASSUME NEW r1 \in Places, NEW r2 \in Places,
                      NEW i1 \in DOMAIN held'[r1], NEW i2 \in DOMAIN held'[r2],
                      held'[r1][i1] = held'[r2][i2], held'[r1][i1] # Warning
               PROVE  r1 = r2 /\ i1 = i2
  BY DEF AtMostOnce
<1>5. PICK x1 \in Places : \E j \in DOMAIN held[x1] : Origin(r1, i1, x1, j)
  BY <1>3
<1>6. PICK j1 \in DOMAIN held[x1] : Origin(r1, i1, x1, j1)
  BY <1>5
<1>7. PICK x2 \in Places : \E j \in DOMAIN held[x2] : Origin(r2, i2, x2, j)
  BY <1>3
<1>8. PICK j2 \in DOMAIN held[x2] : Origin(r2, i2, x2, j2)
  BY <1>7
<1>9. held[x1][j1] = held[x2][j2] /\ held[x1][j1] # Warning
  BY <1>4, <1>6, <1>8
<1>10. x1 = x2 /\ j1 = j2
  BY <1>9 DEF AtMostOnce
<1> QED
  BY <1>6, <1>8, <1>10

LEMMA SubsetOnce ==
  ASSUME AtMostOnce, \A r \in Places : held'[r] = <<>> \/ held'[r] = held[r]
  PROVE  AtMostOnce'
  BY DEF AtMostOnce

LEMMA AppendOnce ==
  ASSUME held \in [Places -> Seq(Line)], AtMostOnce,
         NEW p \in Places, NEW e \in Line,
         e = Warning \/ \A r \in Places : e \notin Lines(held[r]),
         held' = [held EXCEPT ![p] = Append(@, e)]
  PROVE  AtMostOnce'
<1>1. /\ held'[p] = Append(held[p], e)
      /\ \A r \in Places \ {p} : held'[r] = held[r]
  BY AppendType
<1>2. held[p] \in Seq(Line)
  OBVIOUS
<1>3. /\ Len(held[p]) \in Nat
      /\ DOMAIN held[p] = 1..Len(held[p]) /\ DOMAIN held'[p] = 1..(Len(held[p]) + 1)
      /\ \A i \in 1..Len(held[p]) : held'[p][i] = held[p][i]
      /\ held'[p][Len(held[p]) + 1] = e
  BY <1>1, <1>2
<1>4. \A r \in Places : \A i : i \in DOMAIN held'[r] =>
        \/ i \in DOMAIN held[r] /\ held'[r][i] = held[r][i]
        \/ r = p /\ i = Len(held[p]) + 1 /\ held'[r][i] = e
  BY <1>1, <1>3
<1>5. e # Warning => \A r \in Places : \A i \in DOMAIN held[r] : held[r][i] # e
  BY DEF Lines
<1> QED
  BY <1>4, <1>5 DEF AtMostOnce
-----------------------------------------------------------------------------
(* The inductive invariant of the lines: nothing is in two places, and     *)
(* what is held and what is lost share out the accepted ids.               *)
LineInv == TypeInv /\ AtMostOnce /\ Conservation

LEMMA HeldLinesDef ==
  \A x : x \in HeldLines <=> \E p \in Places : x \in Lines(held[p])
  BY DEF HeldLines

LEMMA OnceStep ==
  ASSUME LineInv, Effect PROVE AtMostOnce'
<1>1. held \in [Places -> Seq(Line)] /\ accepted \in Nat /\ AtMostOnce
  BY DEF LineInv, TypeInv, TypeOK
<1>2. \A p \in Places : held[p] \in Seq(Line)
  BY <1>1
<1>3. \A r \in Places : accepted + 1 \notin Lines(held[r])
  <2>1. HeldLines \subseteq 1..accepted
    BY DEF LineInv, Conservation
  <2>2. accepted + 1 \notin 1..accepted
    BY <1>1
  <2> QED
    BY <2>1, <2>2 DEF HeldLines
<1>4. CASE Untouched
  BY <1>1, <1>4 DEF Untouched, AtMostOnce
<1>5. CASE Moved
  BY <1>1, <1>5, MoveOnce DEF Moved
<1>6. CASE Dropped
  BY <1>1, <1>6, DropType, SubsetOnce DEF Dropped
<1>7. CASE Stored
  <2>1. PICK p \in {Buff, File} : held' = [held EXCEPT ![p] = Append(@, accepted + 1)]
    BY <1>7 DEF Stored
  <2>2. p \in Places /\ accepted + 1 \in Line
    BY <1>1, PlacesDistinct DEF Line
  <2> QED
    BY <1>1, <1>3, <2>1, <2>2, AppendOnce
<1>8. CASE Refused
  <2>1. Buff \in Places /\ Warning \in Line
    BY PlacesDistinct DEF Warning, Line
  <2>2. CASE held' = held
    BY <1>1, <2>2, SubsetOnce
  <2>3. CASE held' = [held EXCEPT ![Buff] = Append(@, Warning)]
    BY <1>1, <2>1, <2>3, AppendOnce
  <2> QED
    BY <1>8, <2>2, <2>3 DEF Refused
<1>9. CASE Crash
  <2>1. is_mapped => held[Mmap] \o held[Buff] = held[Buff]
    BY <1>2, PlacesDistinct, ConcatEmptySeq DEF LineInv, TypeInv, BlockInv
  <2>2. \A r \in Places : held'[r] = IF r = File THEN held[File]
                                    ELSE IF r = Mmap THEN IF is_mapped THEN held[Buff] ELSE held[Mmap]
                                    ELSE <<>>
    BY <1>9, <2>1, PlacesDistinct DEF Crash
  <2> DEFINE Source(r) == IF r = Mmap /\ is_mapped THEN Buff ELSE r
  <2>3. ASSUME NEW r \in Places, NEW i \in DOMAIN held'[r]
        PROVE  r \in {File, Mmap} /\ held'[r] = held[Source(r)] /\ Source(r) \in Places
    <3>1. held'[r] # <<>>
      BY <2>3
    <3> QED
      BY <2>2, <3>1, PlacesDistinct
  <2>4. SUFFICES ASSUME NEW r1 \in Places, NEW r2 \in Places,
                        NEW i1 \in DOMAIN held'[r1], NEW i2 \in DOMAIN held'[r2],
                        held'[r1][i1] = held'[r2][i2], held'[r1][i1] # Warning
                 PROVE  r1 = r2 /\ i1 = i2
    BY DEF AtMostOnce
  <2> DEFINE x1 == Source(r1)
             x2 == Source(r2)
  <2>5. r1 \in {File, Mmap} /\ held'[r1] = held[x1] /\ x1 \in Places
    BY <2>3
  <2>6. r2 \in {File, Mmap} /\ held'[r2] = held[x2] /\ x2 \in Places
    BY <2>3
  <2>7. held[x1][i1] = held[x2][i2] /\ held[x1][i1] # Warning
    <3> HIDE DEF x1, x2
    <3> QED
      BY <2>4, <2>5, <2>6
  <2>8. x1 = x2 /\ i1 = i2
    <3> HIDE DEF x1, x2
    <3> QED
      BY <1>1, <2>4, <2>5, <2>6, <2>7 DEF AtMostOnce
  <2> QED
    BY <2>5, <2>6, <2>8, PlacesDistinct
<1> QED
  BY <1>4, <1>5, <1>6, <1>7, <1>8, <1>9 DEF Effect

LEMMA ConservationStep ==
  ASSUME LineInv, Effect PROVE Conservation'
<1>1. /\ held \in [Places -> Seq(Line)] /\ accepted \in Nat /\ AtMostOnce
      /\ HeldLines \cup lost = 1..accepted /\ HeldLines \cap lost = {}
  BY DEF LineInv, TypeInv, TypeOK, Conservation
<1>2. \A p \in Places : held[p] \in Seq(Line)
  BY <1>1
<1>3. \A x : x \in HeldLines' <=> \E p \in Places : x \in Lines(held'[p])
  BY DEF HeldLines, Lines
<1>4. CASE Untouched
  BY <1>1, <1>4 DEF Untouched, Conservation, HeldLines, Lines
<1>5. CASE Moved
  <2>1. PICK p \in Places, q \in Places : p # q /\ Move(p, q) /\ UNCHANGED <<lost, accepted>>
    BY <1>5 DEF Moved
  <2>2. /\ held'[p] = <<>> /\ held'[q] = held[q] \o held[p]
        /\ \A r \in Places \ {p, q} : held'[r] = held[r]
    BY <1>1, <2>1, MoveType
  <2>3. Lines(held'[q]) = Lines(held[q]) \cup Lines(held[p]) /\ Lines(held'[p]) = {}
    BY <1>2, <2>2, LinesConcat, LinesEmpty
  <2>4. HeldLines' = HeldLines
    BY <1>3, <2>2, <2>3, HeldLinesDef
  <2> QED
    BY <1>1, <2>1, <2>4 DEF Conservation
<1>6. CASE Dropped
  <2>1. PICK p \in Places : Drop(p) /\ accepted' = accepted
    BY <1>6 DEF Dropped
  <2>2. held'[p] = <<>> /\ \A r \in Places \ {p} : held'[r] = held[r]
    BY <1>1, <2>1, DropType
  <2>3. \A r \in Places \ {p} : Lines(held[r]) \cap Lines(held[p]) = {}
    BY <1>1, LinesDisjoint
  <2>4. HeldLines' = HeldLines \ Lines(held[p]) /\ Lines(held[p]) \subseteq HeldLines
    BY <1>3, <2>2, <2>3, LinesEmpty, HeldLinesDef
  <2>5. lost' = lost \cup Lines(held[p])
    BY <2>1 DEF Drop
  <2> QED
    BY <1>1, <2>1, <2>4, <2>5 DEF Conservation
<1>7. CASE Stored
  <2>1. PICK p \in {Buff, File} : held' = [held EXCEPT ![p] = Append(@, accepted + 1)]
    BY <1>7 DEF Stored
  <2>2. p \in Places /\ accepted + 1 \in Line /\ accepted + 1 # Warning
    BY <1>1, PlacesDistinct DEF Line, Warning
  <2>3. Lines(held'[p]) = Lines(held[p]) \cup {accepted + 1}
        /\ \A r \in Places \ {p} : held'[r] = held[r]
    BY <1>1, <1>2, <2>1, <2>2, AppendType, LinesAppend
  <2>4. HeldLines' = HeldLines \cup {accepted + 1}
    BY <1>3, <2>2, <2>3, HeldLinesDef
  <2>5. 1..(accepted + 1) = (1..accepted) \cup {accepted + 1} /\ accepted + 1 \notin 1..accepted
    BY <1>1
  <2> QED
    BY <1>1, <1>7, <2>4, <2>5 DEF Conservation, Stored
<1>8. CASE Refused
  <2>1. HeldLines' = HeldLines
    <3>1. CASE held' = held
      BY <3>1 DEF HeldLines, Lines
    <3>2. CASE held' = [held EXCEPT ![Buff] = Append(@, Warning)]
      <4>1. Buff \in Places /\ Warning \in Line
        BY PlacesDistinct DEF Warning, Line
      <4>2. Lines(held'[Buff]) = Lines(held[Buff])
            /\ \A r \in Places \ {Buff} : held'[r] = held[r]
        <5>1. /\ held'[Buff] = Append(held[Buff], Warning)
              /\ \A r \in Places \ {Buff} : held'[r] = held[r]
          BY <1>1, <3>2, <4>1, AppendType
        <5>2. Lines(Append(held[Buff], Warning)) = Lines(held[Buff]) \cup ({Warning} \ {Warning})
          BY <1>2, <4>1, LinesAppend
        <5> QED
          BY <5>1, <5>2
      <4> QED
        BY <1>3, <4>1, <4>2, HeldLinesDef
    <3> QED
      BY <1>8, <3>1, <3>2 DEF Refused
  <2>2. 1..(accepted + 1) = (1..accepted) \cup {accepted + 1} /\ accepted + 1 \notin 1..accepted
    BY <1>1
  <2> QED
    BY <1>1, <1>8, <2>1, <2>2 DEF Conservation, Refused
<1>9. CASE Crash
  <2>1. is_mapped => held[Mmap] \o held[Buff] = held[Buff] /\ held[Mmap] = <<>>
    BY <1>2, PlacesDistinct, ConcatEmptySeq DEF LineInv, TypeInv, BlockInv
  <2> DEFINE kept == IF is_mapped THEN {File, Buff} ELSE {File, Mmap}
  <2>2. \A r \in Places : held'[r] = IF r = File THEN held[File]
                                    ELSE IF r = Mmap THEN IF is_mapped THEN held[Buff] ELSE held[Mmap]
                                    ELSE <<>>
    BY <1>9, <2>1, PlacesDistinct DEF Crash
  <2>3. \A x : x \in HeldLines' <=> \E p \in kept : x \in Lines(held[p])
    BY <1>3, <2>2, PlacesDistinct, LinesEmpty
  <2>4. \A x : x \in lost' <=> x \in lost \/ \E p \in Places \ kept : x \in Lines(held[p])
    <3>1. lost' = lost \cup UNION {Lines(held[p]) : p \in Places \ ({File, Mmap} \cup IF is_mapped THEN {Buff} ELSE {})}
      BY <1>9 DEF Crash
    <3>2. \A x : x \in lost' <=> x \in lost \/ \E p \in Places \ ({File, Mmap} \cup IF is_mapped THEN {Buff} ELSE {}) : x \in Lines(held[p])
      BY <3>1
    <3> QED
      BY <2>1, <3>2, LinesEmpty
  <2>5. \A p \in kept, q \in Places \ kept : Lines(held[p]) \cap Lines(held[q]) = {}
    BY <1>1, LinesDisjoint, PlacesDistinct
  <2>6. kept \subseteq Places
    BY PlacesDistinct
  <2>7. HeldLines' \cup lost' = HeldLines \cup lost /\ HeldLines' \cap lost' = {}
    <3> HIDE DEF kept
    <3> QED
      BY <1>1, <2>3, <2>4, <2>5, <2>6, HeldLinesDef
  <2>8. accepted' = accepted
    BY <1>9 DEF Crash
  <2> QED
    BY <1>1, <2>7, <2>8 DEF Conservation
<1> QED
  BY <1>4, <1>5, <1>6, <1>7, <1>8, <1>9 DEF Effect

LEMMA LineInit == Init => LineInv
<1>1. ASSUME Init PROVE AtMostOnce /\ Conservation
  <2>1. \A p \in Places : held[p] = <<>>
    BY <1>1 DEF Init
  <2>2. HeldLines = {} /\ lost = {} /\ accepted = 0
    BY <1>1, <2>1, HeldLinesDef, LinesEmpty DEF Init
  <2> QED
    BY <2>1, <2>2 DEF AtMostOnce, Conservation
<1> QED
  BY <1>1, TypeInit DEF LineInv

LEMMA LineStep ==
  ASSUME LineInv, [Next]_vars PROVE LineInv'
<1>1. TypeInv
  BY DEF LineInv
<1> QED
  BY <1>1, TypeStep, StepEffect, OnceStep, ConservationStep DEF LineInv

LEMMA LineInvInductive == Spec => []LineInv
<1>1. Init => LineInv
  BY LineInit
<1>2. LineInv /\ [Next]_vars => LineInv'
  BY LineStep
<1> QED
  BY <1>1, <1>2, PTL DEF Spec

(* No accepted line is ever in two places or twice in the log file.        *)
THEOREM NeverDuplicated == Spec => []AtMostOnce
<1>1. LineInv => AtMostOnce
  BY DEF LineInv
<1> QED
  BY <1>1, LineInvInductive, PTL

(* Every accepted line is held somewhere or accounted as lost, for good.   *)
THEOREM NothingVanishes == Spec => []Conservation
<1>1. LineInv => Conservation
  BY DEF LineInv
<1> QED
  BY <1>1, LineInvInductive, PTL
-----------------------------------------------------------------------------
(* The appender implements ReliableLog, effect by effect.                  *)
Pending == HeldLines \ Lines(held[File])
LogStep == [RL!Take \/ RL!Commit \/ RL!Discard]_<<held[File], Pending, accepted>>

Extends(u, s, t) ==
  /\ Len(s) \in Nat /\ Len(s) <= Len(u) /\ DOMAIN u = 1..Len(u) /\ Len(u) \in Nat
  /\ \A i \in 1..Len(s) : u[i] = s[i]
  /\ \A i \in (Len(s) + 1)..Len(u) : \E j \in DOMAIN t : u[i] = t[j]
  /\ \A j \in DOMAIN t : \E i \in (Len(s) + 1)..Len(u) : u[i] = t[j]

LEMMA ConcatExtends ==
  ASSUME NEW s \in Seq(Line), NEW t \in Seq(Line), NEW u, u = s \o t
  PROVE  Extends(u, s, t)
<1>1. /\ Len(s) \in Nat /\ Len(t) \in Nat /\ Len(u) = Len(s) + Len(t)
      /\ u \in Seq(Line) /\ DOMAIN u = 1..Len(u) /\ DOMAIN t = 1..Len(t)
  BY ConcatProperties, LenProperties
<1>2. \A i \in 1..(Len(s) + Len(t)) : u[i] = IF i <= Len(s) THEN s[i] ELSE t[i - Len(s)]
  BY ConcatProperties
<1>3. \A i \in (Len(s) + 1)..Len(u) : i - Len(s) \in DOMAIN t /\ u[i] = t[i - Len(s)]
  BY <1>1, <1>2
<1>4. ASSUME NEW j \in DOMAIN t
      PROVE  j + Len(s) \in (Len(s) + 1)..Len(u) /\ u[j + Len(s)] = t[j]
  <2>1. j + Len(s) \in (Len(s) + 1)..Len(u) /\ (j + Len(s)) - Len(s) = j
    BY <1>1, <1>4
  <2> QED
    BY <1>3, <2>1
<1>6. \A i \in 1..Len(s) : u[i] = s[i]
  BY <1>1, <1>2
<1>7. Len(s) <= Len(u) /\ Len(u) \in Nat
  BY <1>1
<1> QED
  BY <1>1, <1>3, <1>4, <1>6, <1>7, Zenon DEF Extends

LEMMA CommitStep ==
  ASSUME LineInv, LineInv', NEW p \in Places \ {File}, Move(p, File),
         UNCHANGED <<lost, accepted>>
  PROVE  RL!Commit
<1> DEFINE old == held[File]
           new == held'[File]
<1>1. /\ held \in [Places -> Seq(Line)] /\ AtMostOnce /\ AtMostOnce' /\ File \in Places
      /\ held' \in [Places -> Seq(Line)]
  BY PlacesDistinct DEF LineInv, TypeInv, TypeOK
<1>2. new = old \o held[p] /\ old \in Seq(Line) /\ held[p] \in Seq(Line)
  BY <1>1, MoveType
<1>3. Extends(new, old, held[p])
  BY <1>2, ConcatExtends
<1>4. (Len(old) + 1)..Len(new) \subseteq DOMAIN new
  <2> HIDE DEF old, new
  <2> QED
    BY <1>3 DEF Extends
<1>5. \A i, j \in (Len(old) + 1)..Len(new) : new[i] = new[j] /\ new[i] # Warning => i = j
  BY <1>1, <1>4 DEF AtMostOnce
<1>6. {new[i] : i \in (Len(old) + 1)..Len(new)} \ {Warning} = Lines(held[p])
  <2> HIDE DEF old, new
  <2> QED
    BY <1>3 DEF Lines, Extends
<1>7. Lines(held[p]) \subseteq Pending
  BY <1>1, LinesDisjoint, HeldLinesDef DEF Pending
<1>8. Pending' = Pending \ Lines(held[p])
  <2>1. HeldLines' \cup lost = HeldLines \cup lost
        /\ HeldLines' \cap lost = {} /\ HeldLines \cap lost = {}
    BY DEF LineInv, Conservation
  <2>2. HeldLines' = HeldLines
    BY <2>1
  <2>3. Lines(new) = Lines(old) \cup Lines(held[p])
    BY <1>2, LinesConcat
  <2>4. Pending' = HeldLines' \ Lines(new)
    BY DEF Pending, Lines
  <2> QED
    BY <2>2, <2>3, <2>4 DEF Pending
<1> QED
  BY <1>3, <1>5, <1>6, <1>7, <1>8 DEF Extends, RL!Commit, RL!Committed, RL!Added, Pending, Lines

LEMMA EffectRefines ==
  ASSUME LineInv, LineInv', Effect PROVE LogStep
<1>1. /\ held \in [Places -> Seq(Line)] /\ AtMostOnce /\ File \in Places /\ Buff \in Places
      /\ Buff # File /\ accepted \in Nat
      /\ HeldLines \cup lost = 1..accepted /\ HeldLines \cap lost = {}
      /\ HeldLines' \cup lost' = 1..accepted' /\ HeldLines' \cap lost' = {}
  BY PlacesDistinct DEF LineInv, TypeInv, TypeOK, Conservation
<1>2. Pending' = HeldLines' \ Lines(held'[File])
  BY DEF Pending, Lines
<1>3. Lines(held[File]) \subseteq HeldLines
  BY <1>1, HeldLinesDef
<1>4. CASE Untouched
  <2>1. UNCHANGED <<held[File], Pending, accepted>>
    BY <1>4 DEF Untouched, Pending, HeldLines, Lines
  <2> QED
    BY <2>1 DEF LogStep
<1>5. CASE Moved
  <2>1. PICK p \in Places \ {File}, q \in Places : p # q /\ Move(p, q) /\ UNCHANGED <<lost, accepted>>
    BY <1>5 DEF Moved
  <2>2. CASE q = File
    BY <2>1, <2>2, CommitStep DEF LogStep
  <2>3. CASE q # File
    <3>1. held'[File] = held[File]
      BY <1>1, <2>1, <2>3, MoveType
    <3>2. Pending' = Pending
      BY <1>1, <1>2, <2>1, <3>1 DEF Pending
    <3> QED
      BY <2>1, <3>1, <3>2 DEF LogStep
  <2> QED
    BY <2>2, <2>3
<1>6. CASE Dropped \/ Crash
  <2>1. held'[File] = held[File] /\ accepted' = accepted /\ lost \subseteq lost'
    <3>1. CASE Dropped
      BY <1>1, <3>1, DropType DEF Dropped, Drop
    <3>2. CASE Crash
      <4>1. held'[File] = held[File]
        BY <3>2, PlacesDistinct DEF Crash
      <4> QED
        BY <3>2, <4>1 DEF Crash
    <3> QED
      BY <1>6, <3>1, <3>2
  <2>2. Pending' \subseteq Pending
    BY <1>1, <1>2, <2>1 DEF Pending
  <2> QED
    BY <2>1, <2>2 DEF LogStep, RL!Discard, Pending
<1>7. CASE Stored \/ Refused
  <2>1. accepted' = accepted + 1 /\ 1..(accepted + 1) = (1..accepted) \cup {accepted + 1}
        /\ accepted + 1 \notin 1..accepted /\ accepted + 1 \in Line /\ Warning \in Line
        /\ accepted + 1 # Warning
    BY <1>1, <1>7 DEF Stored, Refused, Line, Warning
  <2>2. CASE Refused
    <3>1. held'[File] = held[File] /\ lost' = lost \cup {accepted + 1}
      BY <1>1, <2>2 DEF Refused
    <3>2. Pending' = Pending
      BY <1>1, <1>2, <2>1, <3>1 DEF Pending
    <3> QED
      BY <2>1, <3>1, <3>2 DEF LogStep, RL!Take, Pending
  <2>3. CASE Stored
    <3>1. lost' = lost
      BY <2>3 DEF Stored
    <3>2. HeldLines' = HeldLines \cup {accepted + 1}
      BY <1>1, <2>1, <3>1
    <3>3. CASE held' = [held EXCEPT ![Buff] = Append(@, accepted + 1)]
      <4>1. held'[File] = held[File]
        BY <1>1, <3>3
      <4>2. Pending' = Pending \cup {accepted'}
        BY <1>1, <1>2, <1>3, <2>1, <3>2, <4>1 DEF Pending
      <4> QED
        BY <2>1, <4>1, <4>2 DEF LogStep, RL!Take, Pending
    <3>4. CASE held' = [held EXCEPT ![File] = Append(@, accepted + 1)]
      <4>1. held'[File] = Append(held[File], accepted + 1)
        BY <1>1, <3>4
      <4>2. Lines(held'[File]) = Lines(held[File]) \cup {accepted + 1}
        BY <1>1, <2>1, <4>1, LinesAppend
      <4>3. Pending' = Pending
        BY <1>1, <1>2, <2>1, <3>2, <4>2 DEF Pending
      <4> QED
        BY <2>1, <4>1, <4>3 DEF LogStep, RL!Take, Pending
    <3> QED
      BY <2>3, <3>3, <3>4 DEF Stored
  <2> QED
    BY <1>7, <2>2, <2>3
<1> QED
  BY <1>4, <1>5, <1>6, <1>7 DEF Effect

(* Writers, flushers, opens, closes, crashes and failed writes together    *)
(* implement the abstract log.                                             *)
THEOREM AppenderImplementsLog == Spec => ImplementsLog
<1>1. Init => RL!Init
  <2> SUFFICES ASSUME Init PROVE RL!Init
    OBVIOUS
  <2>1. held[File] = <<>> /\ accepted = 0
    BY PlacesDistinct DEF Init
  <2>2. HeldLines = {}
    BY LinesEmpty, HeldLinesDef DEF Init
  <2> QED
    BY <2>1, <2>2 DEF RL!Init
<1>2. LineInv /\ LineInv' /\ [Next]_vars => LogStep
  BY StepEffect, EffectRefines DEF LineInv
<1> QED
  BY <1>1, <1>2, LineInvInductive, PTL DEF Spec, ImplementsLog, RL!Spec, LogStep, Pending
-----------------------------------------------------------------------------
(* Asynchronous mode: an open appender has a flush thread that is awake    *)
(* when it is needed, and the lines of a session reach the file in their   *)
(* order.  The first needs that appender_setmode is not called on a closed *)
(* appender, the second also that nobody else flushes (appender_flush_sync *)
(* or synchronous mode): with either of them it is false.                  *)

Opening == {"o_flush", "o_sealed", "o_publish"}
Closing == {"c_notify", "c_join", "c_free"}

(* The flush thread is gone while the appender is closed, until open has   *)
(* chosen the mode, and only a closed appender makes it end.               *)
FlusherInv ==
  /\ mpc \in Opening \cup Closing => sg_log_close
  /\ mpc \in {"o_setmode", "o_recover"} => ~sg_log_close
  /\ sg_log_close /\ mpc \notin {"c_notify", "c_join"} => tpc = "none"
  /\ mpc = "o_setmode" => tpc = "none"
  /\ tpc = "ended" => sg_log_close
  /\ ~sg_log_close /\ mpc \in {"idle", "o_recover"} /\ sg_mode = "async" => tpc # "none"

LEMMA FlusherInit == Init => FlusherInv
  BY DEF Init, FlusherInv, Opening, Closing

LEMMA FlusherStep ==
  ASSUME SetModeClosed = FALSE, TypeInv, FlusherInv, [Next]_vars
  PROVE  FlusherInv'
<1> USE DEF FlusherInv, Opening, Closing, NotifyAll
<1>0. ScalarType /\ (~sg_log_close => has_buff)
  BY DEF TypeInv, TypeOK, ScalarType, BlockInv
<1>1. ASSUME NEW w \in Threads, Writer(w) PROVE FlusherInv'
  <2>1. /\ UNCHANGED <<mpc, sg_log_close, sg_mode>>
        /\ tpc' = tpc \/ (tpc = "wait" /\ tpc' = "top")
    BY <1>1 DEF Writer, Call, Route, AppenderSync, AppenderFlush, FlushSync, FlushSyncTake,
       FlushSyncWrite, AppenderAsync
  <2> QED BY <2>1
<1>2. CASE FlushThread
  <2>1. UNCHANGED <<mpc, sg_log_close, sg_mode>>
    BY <1>2 DEF FlushThread, ThreadTake, ThreadWrite, ThreadCheck, ThreadWait, ThreadTimeout, ThreadEnd
  <2>2. /\ tpc # "none"
        /\ tpc' = "none" => tpc = "ended"
        /\ tpc' = "ended" => sg_log_close
    BY <1>0, <1>2 DEF FlushThread, ThreadTake, ThreadWrite, ThreadCheck, ThreadWait, ThreadTimeout,
       ThreadEnd
  <2> QED BY <2>1, <2>2
<1>3. ASSUME NEW mapped \in BOOLEAN, OpenBuffer(mapped) PROVE FlusherInv'
  BY <1>3 DEF OpenBuffer
<1>4. CASE OpenFlush \/ OpenPublish
  BY <1>4 DEF OpenFlush, OpenPublish
<1>5. CASE OpenRecover
  BY <1>5 DEF OpenRecover
<1>6. ASSUME NEW m \in Modes, OpenSetMode(m) PROVE FlusherInv'
  BY <1>6, <1>0 DEF OpenSetMode, AppenderSetMode
<1>7. ASSUME NEW m \in Modes, SetMode(m) PROVE FlusherInv'
  BY <1>7, <1>0 DEF SetMode, AppenderSetMode
<1>8. CASE CloseBegin
  BY <1>8 DEF CloseBegin
<1>9. CASE CloseNotify
  BY <1>9 DEF CloseNotify
<1>10. CASE CloseJoin \/ CloseFree
  BY <1>10 DEF CloseJoin, CloseFree
<1>11. CASE Crash
  <2>1. sg_log_close' = TRUE /\ tpc' = "none" /\ mpc' = "idle"
    BY <1>11 DEF Crash
  <2> QED BY <2>1
<1>12. CASE UNCHANGED vars
  BY <1>12 DEF vars
<1> QED
  BY <1>1, <1>2, <1>3, <1>4, <1>5, <1>6, <1>7, <1>8, <1>9, <1>10, <1>11, <1>12
     DEF Next, MainThread
-----------------------------------------------------------------------------
(* Whoever makes the block longer than the mark wakes the flush thread.    *)
LEMMA WakeupStep ==
  ASSUME SetModeClosed = FALSE, TypeInv, FlusherInv, WakeupAtMark, [Next]_vars
  PROVE  WakeupAtMark'
<1>1. /\ held \in [Places -> Seq(Line)] /\ Buff \in Places /\ NotifyMark \in Nat /\ 0 < NotifyMark
      /\ ScalarType
  BY PlacesDistinct, MarksAssumption DEF TypeInv, TypeOK, ScalarType
<1>2. CASE held'[Buff] = held[Buff] /\ quiet' = quiet /\ (tpc' = "wait" => tpc = "wait")
  BY <1>2 DEF WakeupAtMark
<1>3. CASE held'[Buff] = <<>>
  <2>1. Len(held'[Buff]) = 0
    BY <1>3
  <2> QED BY <1>1, <2>1 DEF WakeupAtMark
<1>4. CASE tpc' # "wait" \/ quiet' = TRUE
  BY <1>4 DEF WakeupAtMark
<1>5. ASSUME NEW p \in Places \ {Buff, Mmap, File}, Flush(p) PROVE WakeupAtMark'
  BY <1>1, <1>3, <1>5, MoveType DEF Flush
<1>6. ASSUME NEW p \in Places \ {Buff, Mmap, File}, Log2File(p)
      PROVE  held'[Buff] = held[Buff]
  <2>1. CASE Move(p, File)
    BY <1>1, <2>1, MoveType, PlacesDistinct
  <2>2. CASE Drop(p)
    BY <1>1, <2>2, DropType, PlacesDistinct
  <2> QED BY <1>6, <2>1, <2>2 DEF Log2File
<1>7. ASSUME NEW w \in Threads, Writer(w) PROVE WakeupAtMark'
  <2>1. w \in Places \ {Buff, Mmap, File}
    BY PlacesDistinct
  <2>2. CASE Call(w) \/ Route(w) \/ AppenderFlush(w) \/ FlushSync(w)
    <3>1. held' = held /\ quiet' = quiet /\ (tpc' = "wait" => tpc = "wait")
      BY <2>2 DEF Call, Route, AppenderFlush, FlushSync, NotifyAll
    <3> QED BY <1>2, <3>1
  <2>3. CASE AppenderSync(w)
    <3>1. held'[Buff] = held[Buff]
      BY <1>1, <2>3, PlacesDistinct DEF AppenderSync
    <3> QED BY <1>2, <2>3, <3>1 DEF AppenderSync
  <2>4. CASE FlushSyncTake(w)
    BY <1>2, <1>5, <2>1, <2>4 DEF FlushSyncTake
  <2>5. CASE FlushSyncWrite(w)
    BY <1>2, <1>6, <2>1, <2>5 DEF FlushSyncWrite
  <2>6. ASSUME NEW fatal \in BOOLEAN, AppenderAsync(w, fatal) PROVE WakeupAtMark'
    <3>1. CASE ~has_buff \/ ~Writable
      <4>1. held' = held /\ quiet' = quiet /\ tpc' = tpc
        BY <1>1, <2>6, <3>1 DEF AppenderAsync, ScalarType
      <4> QED BY <1>2, <4>1
    <3>2. CASE has_buff /\ Writable
      <4>1. PICK e \in Line : held' = [held EXCEPT ![Buff] = Append(@, e)]
        BY <1>1, <2>6, <3>2 DEF AppenderAsync, ScalarType, Line, Warning
      <4>2. Len(held'[Buff]) = Len(held[Buff]) + 1 /\ Len(held[Buff]) \in Nat
        BY <1>1, <4>1, AppendType
      <4>3. Len(held[Buff]) + 1 >= NotifyMark => tpc' # "wait"
        BY <2>6, <3>2 DEF AppenderAsync, NotifyAll
      <4> QED BY <1>1, <4>2, <4>3 DEF WakeupAtMark
    <3> QED BY <3>1, <3>2
  <2> QED BY <1>7, <2>2, <2>3, <2>4, <2>5, <2>6 DEF Writer
<1>8. CASE FlushThread
  <2>1. Flusher \in Places \ {Buff, Mmap, File}
    BY PlacesDistinct
  <2>2. CASE ThreadTake
    BY <1>4, <1>5, <2>1, <2>2 DEF ThreadTake
  <2>3. CASE ThreadWrite \/ ThreadCheck \/ ThreadWait \/ ThreadTimeout \/ ThreadEnd
    BY <1>4, <2>3 DEF ThreadWrite, ThreadCheck, ThreadWait, ThreadTimeout, ThreadEnd
  <2> QED BY <1>8, <2>2, <2>3 DEF FlushThread
<1>9. ASSUME NEW mapped \in BOOLEAN, OpenBuffer(mapped) PROVE WakeupAtMark'
  BY <1>4, <1>9 DEF OpenBuffer, FlusherInv
<1>10. CASE OpenFlush
  BY <1>5, <1>10, PlacesDistinct DEF OpenFlush
<1>11. CASE OpenPublish \/ CloseBegin \/ CloseNotify \/ CloseJoin
  <2>1. held' = held /\ quiet' = quiet /\ (tpc' = "wait" => tpc = "wait")
    BY <1>11 DEF OpenPublish, CloseBegin, CloseNotify, CloseJoin, NotifyAll
  <2> QED BY <1>2, <2>1
<1>12. CASE OpenRecover
  BY <1>2, <1>6, <1>12, PlacesDistinct DEF OpenRecover
<1>13. ASSUME NEW m \in Modes, OpenSetMode(m) \/ SetMode(m) PROVE WakeupAtMark'
  BY <1>4, <1>13, <1>1 DEF OpenSetMode, SetMode, AppenderSetMode, ScalarType
<1>14. CASE CloseFree
  BY <1>1, <1>3, <1>14, DropType DEF CloseFree
<1>15. CASE Crash
  BY <1>4, <1>15 DEF Crash
<1>16. CASE UNCHANGED vars
  <2>1. held' = held /\ quiet' = quiet /\ tpc' = tpc
    BY <1>16 DEF vars
  <2> QED BY <1>2, <2>1
<1> QED
  BY <1>7, <1>8, <1>9, <1>10, <1>11, <1>12, <1>13, <1>14, <1>15, <1>16 DEF Next, MainThread

(* With appender_setmode only on an open appender, an open appender in     *)
(* asynchronous mode has a flush thread that is not about to end, and it   *)
(* does not sleep through a write that left the block at the mark.         *)
THEOREM FlusherStaysReady ==
  ASSUME SetModeClosed = FALSE
  PROVE  Spec => []FlusherReady
<1> DEFINE Ready == TypeInv /\ FlusherInv /\ WakeupAtMark
<1>1. Init => Ready
  <2> SUFFICES ASSUME Init PROVE Ready
    OBVIOUS
  <2>1. WakeupAtMark
    BY DEF Init, WakeupAtMark
  <2> QED BY <2>1, TypeInit, FlusherInit
<1>2. Ready /\ [Next]_vars => Ready'
  BY TypeStep, FlusherStep, WakeupStep
<1>3. Ready => FlusherReady
  BY DEF FlusherReady, OpenHasFlusher, FlusherInv, TypeInv, TypeOK
<1> QED
  BY <1>1, <1>2, <1>3, PTL DEF Spec
-----------------------------------------------------------------------------
(* The order of lines.  Two lines of one session are in the order in which *)
(* they were accepted; S is the set of first lines of sessions.            *)
Same(a, b, S)    == ~ \E x \in S : (a < x /\ x <= b) \/ (b < x /\ x <= a)
InOrder(a, b, S) == a # Warning /\ b # Warning /\ Same(a, b, S) => a < b
Follows(s, t, S) == \A i \in DOMAIN s, j \in DOMAIN t : InOrder(s[i], t[j], S)
Sorted(s, S)     == \A i, j \in DOMAIN s : i < j => InOrder(s[i], s[j], S)

(* A session began since the last line of s; n lines are accepted.         *)
Past(s, n, S) == s = <<>> \/ \E x \in S : x <= n + 1 /\ \A a \in Lines(s) : a < x

LEMMA SortedFile == SessionOrder <=> Sorted(held[File], starts)
  BY DEF SessionOrder, SameSession, Sorted, InOrder, Same

(* A new session only makes fewer lines comparable.                        *)
LEMMA Grow ==
  ASSUME NEW S, NEW T, S \subseteq T, NEW s, NEW t
  PROVE  /\ Follows(s, t, S) => Follows(s, t, T)
         /\ Sorted(s, S) => Sorted(s, T)
         /\ \A n : Past(s, n, S) => Past(s, n, T)
  BY DEF Follows, Sorted, InOrder, Same, Past

LEMMA EmptyOrder ==
  ASSUME NEW s, NEW S
  PROVE  Follows(s, <<>>, S) /\ Follows(<<>>, s, S) /\ Sorted(<<>>, S)
  BY DEF Follows, Sorted

LEMMA ConcatOrder ==
  ASSUME NEW s \in Seq(Line), NEW t \in Seq(Line), NEW u \in Seq(Line), NEW S
  PROVE  /\ Follows(s, u, S) /\ Follows(t, u, S) => Follows(s \o t, u, S)
         /\ Follows(u, s, S) /\ Follows(u, t, S) => Follows(u, s \o t, S)
         /\ Sorted(s, S) /\ Sorted(t, S) /\ Follows(s, t, S) => Sorted(s \o t, S)
<1>1. /\ DOMAIN (s \o t) = 1..(Len(s) + Len(t)) /\ Len(s) \in Nat /\ Len(t) \in Nat
      /\ DOMAIN s = 1..Len(s) /\ DOMAIN t = 1..Len(t)
      /\ \A i \in 1..(Len(s) + Len(t)) :
           (s \o t)[i] = IF i <= Len(s) THEN s[i] ELSE t[i - Len(s)]
  BY ConcatProperties, LenProperties
<1>2. \A i \in DOMAIN (s \o t) :
        \/ i \in DOMAIN s /\ (s \o t)[i] = s[i]
        \/ i > Len(s) /\ i - Len(s) \in DOMAIN t /\ (s \o t)[i] = t[i - Len(s)]
  BY <1>1
<1>3. ASSUME Follows(s, u, S), Follows(t, u, S) PROVE Follows(s \o t, u, S)
  BY <1>2, <1>3 DEF Follows
<1>4. ASSUME Follows(u, s, S), Follows(u, t, S) PROVE Follows(u, s \o t, S)
  BY <1>2, <1>4 DEF Follows
<1>5. ASSUME Sorted(s, S), Sorted(t, S), Follows(s, t, S) PROVE Sorted(s \o t, S)
  <2> SUFFICES ASSUME NEW i \in DOMAIN (s \o t), NEW j \in DOMAIN (s \o t), i < j
               PROVE  InOrder((s \o t)[i], (s \o t)[j], S)
    BY DEF Sorted
  <2>1. CASE j \in DOMAIN s /\ (s \o t)[j] = s[j]
    <3>1. i \in DOMAIN s /\ (s \o t)[i] = s[i]
      BY <1>1, <2>1
    <3> QED BY <1>5, <2>1, <3>1 DEF Sorted
  <2>2. CASE j > Len(s) /\ j - Len(s) \in DOMAIN t /\ (s \o t)[j] = t[j - Len(s)]
    <3>1. CASE i \in DOMAIN s /\ (s \o t)[i] = s[i]
      BY <1>5, <2>2, <3>1 DEF Follows
    <3>2. CASE i > Len(s) /\ i - Len(s) \in DOMAIN t /\ (s \o t)[i] = t[i - Len(s)]
      <4>1. i - Len(s) < j - Len(s)
        BY <1>1
      <4> QED BY <1>5, <2>2, <3>2, <4>1 DEF Sorted
    <3> QED BY <1>2, <3>1, <3>2
  <2> QED BY <1>2, <2>1, <2>2
<1> QED BY <1>3, <1>4, <1>5

(* A line just accepted is later than all, and of another session than     *)
(* what is past.                                                           *)
LEMMA AppendOrder ==
  ASSUME NEW s \in Seq(Line), NEW n \in Nat, NEW e \in {n + 1, Warning},
         NEW t \in Seq(Line), NEW S \in SUBSET Nat,
         Lines(s) \subseteq 1..n, Lines(t) \subseteq 1..n
  PROVE  /\ Sorted(s, S) => Sorted(Append(s, e), S)
         /\ Follows(t, s, S) => Follows(t, Append(s, e), S)
         /\ Past(t, n, S) /\ Follows(s, t, S) => Follows(Append(s, e), t, S)
<1>1. /\ Len(s) \in Nat /\ DOMAIN s = 1..Len(s)
      /\ DOMAIN Append(s, e) = 1..(Len(s) + 1)
      /\ \A i \in 1..Len(s) : Append(s, e)[i] = s[i]
      /\ Append(s, e)[Len(s) + 1] = e
  BY DEF Line, Warning
<1>2. \A i \in DOMAIN Append(s, e) :
        \/ i \in DOMAIN s /\ Append(s, e)[i] = s[i]
        \/ i = Len(s) + 1 /\ Append(s, e)[i] = e
  BY <1>1
<1>3. \A a : a \in Lines(s) \cup Lines(t) => InOrder(a, e, S)
  BY DEF InOrder
<1>4. /\ \A i \in DOMAIN s : s[i] = Warning \/ s[i] \in Lines(s)
      /\ \A i \in DOMAIN t : t[i] = Warning \/ t[i] \in Lines(t)
  BY DEF Lines
<1>5. \A a : InOrder(Warning, a, S)
  BY DEF InOrder
<1>6. (\A i \in DOMAIN s : InOrder(s[i], e, S)) /\ (\A i \in DOMAIN t : InOrder(t[i], e, S))
  BY <1>3, <1>4, <1>5
<1>7. ASSUME Sorted(s, S) PROVE Sorted(Append(s, e), S)
  <2> SUFFICES ASSUME NEW i \in DOMAIN Append(s, e), NEW j \in DOMAIN Append(s, e), i < j
               PROVE  InOrder(Append(s, e)[i], Append(s, e)[j], S)
    BY DEF Sorted
  <2>1. i \in DOMAIN s /\ Append(s, e)[i] = s[i]
    BY <1>1
  <2> QED BY <1>2, <1>6, <1>7, <2>1 DEF Sorted
<1>8. ASSUME Follows(t, s, S) PROVE Follows(t, Append(s, e), S)
  BY <1>2, <1>6, <1>8 DEF Follows
<1>9. ASSUME Past(t, n, S), Follows(s, t, S) PROVE Follows(Append(s, e), t, S)
  <2>1. CASE t = <<>>
    BY <2>1, EmptyOrder
  <2>2. CASE t # <<>>
    <3>1. PICK x \in S : x <= n + 1 /\ \A a \in Lines(t) : a < x
      BY <1>9, <2>2 DEF Past
    <3>2. \A a \in Lines(t) : InOrder(e, a, S)
      BY <3>1 DEF InOrder, Same
    <3>3. \A a : InOrder(a, Warning, S)
      BY DEF InOrder
    <3>4. \A j \in DOMAIN t : InOrder(e, t[j], S)
      BY <1>4, <3>2, <3>3
    <3> QED BY <1>2, <1>9, <3>4 DEF Follows
  <2> QED BY <2>1, <2>2
<1> QED BY <1>7, <1>8, <1>9
-----------------------------------------------------------------------------
(* Shelves are the places lines pass through when nobody calls flush_sync. *)
(* Ordered says which of them may be put behind which: the file before all,*)
(* what the flush thread took before the block, and what open recovered    *)
(* (Main) on either side of both, being of an earlier session.             *)
Shelves == {File, Mmap, Buff, Flusher, Main}
Ordered(h, S) ==
  /\ \A p \in Shelves : Sorted(h[p], S)
  /\ \A q \in {Mmap, Buff, Flusher, Main} : Follows(h[File], h[q], S)
  /\ \A q \in {Mmap, Buff, Main} : Follows(h[Flusher], h[q], S)
  /\ \A q \in {Mmap, Buff, Flusher} : Follows(h[Main], h[q], S)
  /\ \A q \in {Mmap, Main} : Follows(h[Buff], h[q], S)

AsyncInv == sg_mode = "async" /\ \A w \in Threads : wpc[w] \in {"idle", "called", "async"}

HandsInv ==
  /\ tpc # "write" => held[Flusher] = <<>>
  /\ mpc \notin {"o_publish", "o_setmode", "o_recover"} => held[Main] = <<>>

(* A session has begun since the process was started.                      *)
Begun ==
  \/ ~sg_log_close \/ mpc \notin {"idle", "o_flush", "o_sealed"}
  \/ \E w \in Threads : wpc[w] # "idle"

PastInv ==
  /\ Past(held[Main], accepted, starts)
  /\ Begun => Past(held[Mmap], accepted, starts)

OrderInv == LineInv /\ FlusherInv /\ AsyncInv /\ HandsInv /\ PastInv /\ Ordered(held, starts)

LEMMA ShelvesArePlaces == Shelves \subseteq Places
  BY PlacesDistinct DEF Shelves

LEMMA HeldSeq ==
  ASSUME LineInv
  PROVE  /\ held \in [Places -> Seq(Line)] /\ accepted \in Nat /\ starts \in SUBSET Nat
         /\ \A p \in Places : held[p] \in Seq(Line) /\ Lines(held[p]) \subseteq 1..accepted
<1>1. held \in [Places -> Seq(Line)] /\ accepted \in Nat /\ starts \in SUBSET Nat
  BY DEF LineInv, TypeInv, TypeOK
<1>2. HeldLines \subseteq 1..accepted
  BY DEF LineInv, Conservation
<1> QED BY <1>1, <1>2, HeldLinesDef

(* All the lines of a place go to an empty one.                            *)
LEMMA MoveEmpty ==
  ASSUME LineInv, NEW p \in Shelves, NEW q \in Shelves, p # q, Move(p, q), held[q] = <<>>
  PROVE  /\ held'[p] = <<>> /\ held'[q] = held[p]
         /\ \A r \in Shelves \ {p, q} : held'[r] = held[r]
<1>1. /\ held'[p] = <<>> /\ held'[q] = held[q] \o held[p]
      /\ \A r \in Places \ {p, q} : held'[r] = held[r]
  BY HeldSeq, ShelvesArePlaces, MoveType
<1>2. held[p] \in Seq(Line)
  BY HeldSeq, ShelvesArePlaces
<1> QED BY <1>1, <1>2, ShelvesArePlaces, ConcatEmptySeq

LEMMA EmptiedOrdered ==
  ASSUME NEW S, Ordered(held, S), \A r \in Shelves : held'[r] = held[r] \/ held'[r] = <<>>
  PROVE  Ordered(held', S)
  BY EmptyOrder DEF Ordered, Shelves

LEMMA GrowOrdered ==
  ASSUME NEW S, NEW T, S \subseteq T, NEW h, Ordered(h, S)
  PROVE  Ordered(h, T)
  BY Grow DEF Ordered

(* A record in the hands of the flush thread or of open goes to the file,  *)
(* or is lost.                                                             *)
LEMMA WriteOrdered ==
  ASSUME LineInv, Ordered(held, starts), NEW p \in {Flusher, Main}, Log2File(p)
  PROVE  /\ Ordered(held', starts) /\ held'[p] = <<>>
         /\ \A r \in Places \ {p, File} : held'[r] = held[r]
<1>1. p \in Shelves /\ File \in Shelves /\ p \in Places /\ File \in Places /\ p # File
  BY PlacesDistinct DEF Shelves
<1>2. CASE Move(p, File)
  <2>1. /\ held'[p] = <<>> /\ held'[File] = held[File] \o held[p]
        /\ \A r \in Places \ {p, File} : held'[r] = held[r]
    BY <1>1, <1>2, HeldSeq, MoveType
  <2>2. /\ Sorted(held[File], starts) /\ Sorted(held[p], starts)
        /\ \A r \in Shelves \ {File} : Follows(held[File], held[r], starts)
        /\ \A r \in Shelves \ {p, File} : Follows(held[p], held[r], starts)
    BY PlacesDistinct DEF Ordered, Shelves
  <2>3. Follows(held[File], held[p], starts)
    BY <1>1, <2>2
  <2>4. Sorted(held'[File], starts)
    BY <1>1, <2>1, <2>2, <2>3, HeldSeq, ConcatOrder
  <2>5. \A r \in Shelves \ {p, File} : Follows(held'[File], held[r], starts)
    BY <1>1, <2>1, <2>2, HeldSeq, ShelvesArePlaces, ConcatOrder
  <2>6. Ordered(held', starts)
    BY <1>1, <2>1, <2>4, <2>5, EmptyOrder, PlacesDistinct, ShelvesArePlaces DEF Ordered, Shelves
  <2> QED BY <2>1, <2>6
<1>3. CASE Drop(p)
  <2>1. held'[p] = <<>> /\ \A r \in Places \ {p} : held'[r] = held[r]
    BY <1>1, <1>3, HeldSeq, DropType
  <2> QED BY <1>1, <2>1, EmptiedOrdered, ShelvesArePlaces
<1> QED BY <1>2, <1>3 DEF Log2File

-----------------------------------------------------------------------------
(* One lemma for each step that touches the lines: what becomes of the     *)
(* order and of the hands.                                                 *)
Steady == starts' = starts /\ accepted' = accepted

LEMMA PastGrow ==
  ASSUME NEW s, NEW n \in Nat, NEW m \in Nat, n <= m, NEW S \in SUBSET Nat, NEW T \in SUBSET Nat,
         S \subseteq T, Past(s, n, S)
  PROVE  Past(s, m, T)
  BY DEF Past

(* What is accepted so far is past when a session begins.                  *)
LEMMA PastBegins ==
  ASSUME NEW s, NEW n \in Nat, NEW S, Lines(s) \subseteq 1..n, n + 1 \in S
  PROVE  Past(s, n, S)
<1>1. \A a \in Lines(s) : a < n + 1
  OBVIOUS
<1> QED BY <1>1 DEF Past

LEMMA PastEmpty == ASSUME NEW n, NEW S PROVE Past(<<>>, n, S)
  BY DEF Past

(* The async write of a line, which ends up last in the block.             *)
LEMMA AppenderAsyncOrder ==
  ASSUME OrderInv, NEW w \in Threads, NEW fatal \in BOOLEAN, AppenderAsync(w, fatal)
  PROVE  HandsInv' /\ PastInv' /\ Ordered(held', starts')
<1>1. /\ held \in [Places -> Seq(Line)] /\ accepted \in Nat /\ starts \in SUBSET Nat
      /\ \A p \in Places : held[p] \in Seq(Line) /\ Lines(held[p]) \subseteq 1..accepted
  BY HeldSeq DEF OrderInv
<1>2. starts' = starts /\ tpc' \in {tpc, "top"} /\ (tpc' = tpc \/ tpc = "wait") /\ mpc' = mpc
      /\ sg_log_close' = sg_log_close
  BY DEF AppenderAsync, NotifyAll
<1>3. /\ accepted' = accepted \/ accepted' = accepted + 1
      /\ \/ held' = held
         \/ \E e \in {accepted + 1, Warning} : held' = [held EXCEPT ![Buff] = Append(@, e)]
  BY DEF AppenderAsync, Accept
<1>4. \A p \in Places \ {Buff} : held'[p] = held[p]
  BY <1>1, <1>3, PlacesDistinct
<1>5. HandsInv'
  BY <1>2, <1>4, PlacesDistinct DEF OrderInv, HandsInv
<1>6. Past(held[Main], accepted, starts) /\ Past(held[Mmap], accepted, starts)
  <2>1. Begun
    BY DEF Begun, AppenderAsync
  <2> QED BY <2>1 DEF OrderInv, PastInv
<1>7. PastInv'
  <2>1. accepted' \in Nat /\ accepted <= accepted'
    BY <1>1, <1>3
  <2>2. Past(held[Main], accepted', starts) /\ Past(held[Mmap], accepted', starts)
    BY <1>1, <1>6, <2>1, PastGrow
  <2>3. held'[Main] = held[Main] /\ held'[Mmap] = held[Mmap]
    BY <1>4, PlacesDistinct
  <2> QED BY <1>2, <2>2, <2>3 DEF PastInv
<1>8. Ordered(held', starts)
  <2>1. CASE held' = held
    BY <2>1 DEF OrderInv
  <2>2. ASSUME NEW e \in {accepted + 1, Warning}, held' = [held EXCEPT ![Buff] = Append(@, e)]
        PROVE  Ordered(held', starts)
    <3>1. held'[Buff] = Append(held[Buff], e)
      BY <1>1, <2>2, PlacesDistinct
    <3>2. /\ Sorted(held[Buff], starts)
          /\ \A r \in {File, Flusher, Main} : Follows(held[r], held[Buff], starts)
          /\ \A r \in {Mmap, Main} : Follows(held[Buff], held[r], starts)
      BY DEF OrderInv, Ordered, Shelves
    <3>3. Sorted(held'[Buff], starts)
      BY <1>1, <3>1, <3>2, AppendOrder, PlacesDistinct
    <3>4. \A r \in {File, Flusher, Main} : Follows(held[r], held'[Buff], starts)
      BY <1>1, <3>1, <3>2, AppendOrder, PlacesDistinct
    <3>5. \A r \in {Mmap, Main} : Follows(held'[Buff], held[r], starts)
      BY <1>1, <1>6, <3>1, <3>2, AppendOrder, PlacesDistinct
    <3> QED
      BY <1>4, <3>3, <3>4, <3>5, PlacesDistinct, ShelvesArePlaces DEF OrderInv, Ordered, Shelves
  <2> QED BY <1>3, <2>1, <2>2
<1> QED BY <1>2, <1>5, <1>7, <1>8

(* The flush thread takes the block.                                       *)
LEMMA ThreadTakeOrder ==
  ASSUME OrderInv, ThreadTake
  PROVE  HandsInv' /\ Ordered(held', starts) /\ held'[Main] = held[Main] /\ held'[Mmap] = held[Mmap]
<1>1. CASE held' = held
  BY <1>1 DEF OrderInv, HandsInv, ThreadTake
<1>2. CASE Flush(Flusher) /\ tpc' = (IF held[Buff] = <<>> THEN "check" ELSE "write")
  <2>1. held[Flusher] = <<>>
    BY DEF OrderInv, HandsInv, ThreadTake
  <2>2. /\ held'[Buff] = <<>> /\ held'[Flusher] = held[Buff]
        /\ \A r \in Shelves \ {Buff, Flusher} : held'[r] = held[r]
    BY <1>2, <2>1, MoveEmpty, PlacesDistinct DEF OrderInv, Flush, Shelves
  <2>3. HandsInv'
    BY <1>2, <2>2, PlacesDistinct DEF OrderInv, HandsInv, ThreadTake, Shelves
  <2>4. Ordered(held', starts)
    BY <2>2, EmptyOrder, PlacesDistinct DEF OrderInv, Ordered, Shelves
  <2> QED BY <2>2, <2>3, <2>4, PlacesDistinct DEF Shelves
<1> QED BY <1>1, <1>2 DEF ThreadTake

(* open takes the mmap file over as its block.                             *)
LEMMA OpenBufferOrder ==
  ASSUME OrderInv, NEW mapped \in BOOLEAN, OpenBuffer(mapped)
  PROVE  /\ HandsInv' /\ Ordered(held', starts)
         /\ held'[Main] = held[Main] /\ held'[Mmap] \in {held[Mmap], <<>>}
<1>1. CASE held' = held
  BY <1>1 DEF OrderInv, HandsInv, OpenBuffer
<1>2. CASE Move(Mmap, Buff)
  <2>1. held[Buff] = <<>> /\ held[Main] = <<>> /\ held[Flusher] = <<>> /\ tpc = "none"
    BY DEF OrderInv, HandsInv, OpenBuffer, FlusherInv, LineInv, TypeInv, BlockInv
  <2>2. /\ held'[Mmap] = <<>> /\ held'[Buff] = held[Mmap]
        /\ \A r \in Shelves \ {Buff, Mmap} : held'[r] = held[r]
    BY <1>2, <2>1, MoveEmpty, PlacesDistinct DEF OrderInv, Shelves
  <2>3. HandsInv'
    BY <2>1, <2>2, PlacesDistinct DEF HandsInv, OpenBuffer, Shelves
  <2>4. held'[Main] = <<>> /\ held'[Flusher] = <<>> /\ held'[File] = held[File]
    BY <2>1, <2>2, PlacesDistinct DEF Shelves
  <2>5. Ordered(held', starts)
    BY <2>2, <2>4, EmptyOrder, PlacesDistinct DEF OrderInv, Ordered, Shelves
  <2> QED BY <2>1, <2>2, <2>3, <2>4, <2>5
<1> QED BY <1>1, <1>2 DEF OpenBuffer

(* open takes what it found out of the block; a session begins.            *)
LEMMA OpenFlushOrder ==
  ASSUME OrderInv, OpenFlush
  PROVE  HandsInv' /\ PastInv' /\ Ordered(held', starts')
<1>1. /\ held \in [Places -> Seq(Line)] /\ accepted \in Nat /\ starts \in SUBSET Nat
      /\ \A p \in Places : held[p] \in Seq(Line) /\ Lines(held[p]) \subseteq 1..accepted
  BY HeldSeq DEF OrderInv
<1>2. held[Main] = <<>> /\ held[Flusher] = <<>> /\ tpc = "none"
  BY DEF OrderInv, HandsInv, OpenFlush, FlusherInv, Opening
<1>3. /\ held'[Buff] = <<>> /\ held'[Main] = held[Buff]
      /\ \A r \in Shelves \ {Buff, Main} : held'[r] = held[r]
  BY <1>2, MoveEmpty, PlacesDistinct DEF OrderInv, Flush, OpenFlush, Shelves
<1>4. held'[Flusher] = <<>> /\ held'[File] = held[File] /\ held'[Mmap] = held[Mmap]
  BY <1>2, <1>3, PlacesDistinct DEF Shelves
<1>5. starts' = starts \cup {accepted + 1} /\ accepted' = accepted /\ tpc' = tpc /\ mpc' = "o_publish"
  BY DEF OpenFlush
<1>6. HandsInv'
  BY <1>4, <1>5 DEF HandsInv
<1>7. Past(held[Buff], accepted, starts') /\ Past(held[Mmap], accepted, starts')
  BY <1>1, <1>5, PastBegins, PlacesDistinct
<1>8. PastInv'
  BY <1>3, <1>4, <1>5, <1>7 DEF PastInv
<1>9. Ordered(held', starts)
  BY <1>3, <1>4, EmptyOrder, PlacesDistinct DEF OrderInv, Ordered, Shelves
<1>10. Ordered(held', starts')
  BY <1>5, <1>9, GrowOrdered
<1> QED BY <1>6, <1>8, <1>10

(* A dead process leaves the file, and its block in the mmap file.         *)
LEMMA CrashOrder ==
  ASSUME OrderInv, Crash
  PROVE  HandsInv' /\ PastInv' /\ Ordered(held', starts)
<1>1. is_mapped => held[Mmap] = <<>>
  BY DEF OrderInv, LineInv, TypeInv, BlockInv
<1>2. held[Buff] \in Seq(Line)
  BY HeldSeq, PlacesDistinct DEF OrderInv
<1> DEFINE kept     == IF is_mapped THEN held[Mmap] \o held[Buff] ELSE held[Mmap]
           after(p) == CASE p = File -> held[File] [] p = Mmap -> kept [] OTHER -> <<>>
<1>3. held' = [p \in Places |-> after(p)]
  BY DEF Crash
<1>4. kept = held[Buff] \/ kept = held[Mmap]
  BY <1>1, <1>2, ConcatEmptySeq
<1>5. after(File) = held[File] /\ after(Mmap) = kept /\ after(Buff) = <<>> /\ after(Flusher) = <<>>
      /\ after(Main) = <<>>
  BY PlacesDistinct
<1>6. \A p \in Places : held'[p] = after(p)
  <2> HIDE DEF after
  <2> QED BY <1>3
<1>7. /\ held'[File] = held[File] /\ held'[Mmap] \in {held[Buff], held[Mmap]}
      /\ held'[Buff] = <<>> /\ held'[Flusher] = <<>> /\ held'[Main] = <<>>
  <2> HIDE DEF after, kept
  <2> QED BY <1>4, <1>5, <1>6, PlacesDistinct
<1>8. HandsInv'
  BY <1>7 DEF HandsInv
<1>9. PastInv'
  <2>1. sg_log_close' = TRUE /\ mpc' = "idle" /\ wpc' = [w \in Threads |-> "idle"]
    BY DEF Crash
  <2>2. \A w \in Threads : wpc'[w] = "idle"
    BY <2>1
  <2>3. ~Begun'
    BY <2>1, <2>2 DEF Begun
  <2>4. Past(held'[Main], accepted', starts')
    BY <1>7, PastEmpty
  <2> QED BY <2>3, <2>4 DEF PastInv
<1>10. Ordered(held', starts)
  BY <1>7, EmptyOrder, PlacesDistinct DEF OrderInv, Ordered, Shelves
<1> QED BY <1>8, <1>9, <1>10

(* The rest of the steps.                                                  *)
LEMMA PastKept ==
  ASSUME OrderInv, Steady, Begun' => Begun,
         held'[Main] \in {held[Main], <<>>}, held'[Mmap] \in {held[Mmap], <<>>}
  PROVE  PastInv'
<1>1. Past(held'[Main], accepted', starts')
  BY PastEmpty DEF OrderInv, PastInv, Steady
<1>2. Begun' => Past(held'[Mmap], accepted', starts')
  BY PastEmpty DEF OrderInv, PastInv, Steady
<1> QED BY <1>1, <1>2 DEF PastInv

LEMMA CalmOrder ==
  ASSUME OrderInv, Steady, held' = held, Begun' => Begun, tpc = "write" => tpc' = "write",
         mpc \in {"o_publish", "o_setmode", "o_recover"} =>
           mpc' \in {"o_publish", "o_setmode", "o_recover"}
  PROVE  HandsInv' /\ PastInv' /\ Ordered(held', starts')
<1>1. PastInv'
  BY PastKept
<1>2. HandsInv'
  BY DEF OrderInv, HandsInv
<1>3. Ordered(held', starts')
  BY DEF OrderInv, Steady
<1> QED BY <1>1, <1>2, <1>3

LEMMA WriterOrder ==
  ASSUME SyncFlush = FALSE, OrderInv, NEW w \in Threads, Writer(w)
  PROVE  AsyncInv' /\ HandsInv' /\ PastInv' /\ Ordered(held', starts')
<1>1. /\ wpc \in [Threads -> {"idle", "called", "async", "sync", "flush", "flushed"}]
      /\ sg_mode = "async" /\ \A v \in Threads : wpc[v] \in {"idle", "called", "async"}
  BY DEF OrderInv, LineInv, TypeInv, TypeOK, AsyncInv
<1>2. Call(w) \/ Route(w) \/ AppenderFlush(w) \/ \E fatal \in BOOLEAN : AppenderAsync(w, fatal)
  BY <1>1 DEF Writer, AppenderSync, FlushSync, FlushSyncTake, FlushSyncWrite
<1>3. CASE Call(w)
  <2>1. AsyncInv'
    BY <1>1, <1>3 DEF AsyncInv, Call
  <2>2. Begun' => Begun
    BY <1>3 DEF Begun, Call
  <2>3. Steady /\ held' = held /\ tpc' = tpc /\ mpc' = mpc
    BY <1>3 DEF Call, Steady
  <2> QED BY <2>1, <2>2, <2>3, CalmOrder
<1>4. CASE Route(w)
  <2>1. AsyncInv'
    BY <1>1, <1>4 DEF AsyncInv, Route
  <2>2. Begun' => Begun
    BY <1>4 DEF Begun, Route
  <2>3. Steady /\ held' = held /\ tpc' = tpc /\ mpc' = mpc
    BY <1>4 DEF Route, Steady
  <2> QED BY <2>1, <2>2, <2>3, CalmOrder
<1>5. CASE AppenderFlush(w)
  <2>1. AsyncInv'
    BY <1>1, <1>5 DEF AsyncInv, AppenderFlush
  <2>2. Begun' => Begun
    BY <1>5 DEF Begun, AppenderFlush
  <2>3. Steady /\ held' = held /\ mpc' = mpc /\ (tpc = "write" => tpc' = "write")
    BY <1>5 DEF AppenderFlush, Steady, NotifyAll
  <2> QED BY <2>1, <2>2, <2>3, CalmOrder
<1>6. ASSUME NEW fatal \in BOOLEAN, AppenderAsync(w, fatal)
      PROVE  AsyncInv' /\ HandsInv' /\ PastInv' /\ Ordered(held', starts')
  <2>1. AsyncInv'
    BY <1>1, <1>6 DEF AsyncInv, AppenderAsync
  <2> QED BY <1>6, <2>1, AppenderAsyncOrder
<1> QED BY <1>2, <1>3, <1>4, <1>5, <1>6

LEMMA FlushThreadOrder ==
  ASSUME OrderInv, FlushThread
  PROVE  AsyncInv' /\ HandsInv' /\ PastInv' /\ Ordered(held', starts')
<1>1. Steady /\ UNCHANGED <<sg_mode, sg_log_close, wpc, mpc>>
  BY DEF FlushThread, ThreadTake, ThreadWrite, ThreadCheck, ThreadWait, ThreadTimeout, ThreadEnd, Steady
<1>2. AsyncInv' /\ (Begun' => Begun)
  BY <1>1 DEF OrderInv, AsyncInv, Begun
<1>3. CASE ThreadTake
  BY <1>1, <1>2, <1>3, ThreadTakeOrder, PastKept DEF Steady
<1>4. CASE ThreadWrite
  <2>1. /\ Ordered(held', starts) /\ held'[Flusher] = <<>>
        /\ \A r \in Places \ {Flusher, File} : held'[r] = held[r]
    BY <1>4, WriteOrdered DEF OrderInv, ThreadWrite
  <2>2. held'[Main] = held[Main] /\ held'[Mmap] = held[Mmap]
    BY <2>1, PlacesDistinct
  <2>3. HandsInv'
    BY <1>1, <2>1, <2>2 DEF OrderInv, HandsInv
  <2> QED BY <1>1, <1>2, <2>1, <2>2, <2>3, PastKept DEF Steady
<1>5. CASE ThreadCheck \/ ThreadWait \/ ThreadTimeout \/ ThreadEnd
  <2>1. held' = held /\ tpc # "write"
    BY <1>5 DEF ThreadCheck, ThreadWait, ThreadTimeout, ThreadEnd
  <2> QED BY <1>1, <1>2, <2>1, CalmOrder
<1> QED BY <1>3, <1>4, <1>5 DEF FlushThread

LEMMA MainThreadOrder ==
  ASSUME Modes = {"async"}, OrderInv, MainThread
  PROVE  AsyncInv' /\ HandsInv' /\ PastInv' /\ Ordered(held', starts')
<1>1. AsyncInv'
  <2>1. wpc' = wpc /\ (sg_mode' = sg_mode \/ sg_mode' \in Modes)
    BY DEF MainThread, OpenBuffer, OpenFlush, OpenPublish, OpenRecover, OpenSetMode, SetMode,
       AppenderSetMode, CloseBegin, CloseNotify, CloseJoin, CloseFree
  <2> QED BY <2>1 DEF OrderInv, AsyncInv
<1>2. ASSUME NEW mapped \in BOOLEAN, OpenBuffer(mapped)
      PROVE  HandsInv' /\ PastInv' /\ Ordered(held', starts')
  <2>1. Steady /\ (Begun' => Begun)
    BY <1>2 DEF OpenBuffer, Steady, Begun
  <2> QED BY <1>2, <2>1, OpenBufferOrder, PastKept DEF Steady
<1>3. CASE OpenFlush
  BY <1>1, <1>3, OpenFlushOrder
<1>4. CASE OpenPublish
  <2>1. Begun
    BY <1>4 DEF OpenPublish, Begun
  <2> QED BY <1>1, <1>4, <2>1, CalmOrder DEF OpenPublish, Steady
<1>5. CASE OpenRecover
  <2>1. /\ Ordered(held', starts) /\ held'[Main] = <<>>
        /\ \A r \in Places \ {Main, File} : held'[r] = held[r]
    BY <1>5, WriteOrdered DEF OrderInv, OpenRecover
  <2>2. held'[Flusher] = held[Flusher] /\ held'[Mmap] = held[Mmap]
    BY <2>1, PlacesDistinct
  <2>3. Steady /\ Begun /\ tpc' = tpc
    BY <1>5 DEF OpenRecover, Steady, Begun
  <2>4. HandsInv'
    BY <2>1, <2>2, <2>3 DEF OrderInv, HandsInv
  <2> QED BY <1>1, <2>1, <2>2, <2>3, <2>4, PastKept DEF Steady
<1>6. ASSUME NEW mode \in Modes, OpenSetMode(mode)
      PROVE  HandsInv' /\ PastInv' /\ Ordered(held', starts')
  <2>1. Begun
    BY <1>6 DEF OpenSetMode, Begun
  <2>2. tpc = "write" => tpc' = "write"
    BY <1>6 DEF OpenSetMode, AppenderSetMode
  <2> QED BY <1>6, <2>1, <2>2, CalmOrder DEF OpenSetMode, Steady
<1>7. ASSUME NEW mode \in Modes, SetMode(mode)
      PROVE  HandsInv' /\ PastInv' /\ Ordered(held', starts')
  <2>1. Begun' => Begun
    BY <1>7 DEF SetMode, Begun
  <2>2. tpc = "write" => tpc' = "write"
    BY <1>7 DEF SetMode, AppenderSetMode
  <2> QED BY <1>7, <2>1, <2>2, CalmOrder DEF SetMode, Steady
<1>8. CASE CloseBegin \/ CloseNotify \/ CloseJoin
  <2>1. Begun /\ mpc \notin {"o_publish", "o_setmode", "o_recover"}
    BY <1>8 DEF CloseBegin, CloseNotify, CloseJoin, Begun
  <2>2. tpc = "write" => tpc' = "write"
    BY <1>8 DEF CloseBegin, CloseNotify, CloseJoin, NotifyAll
  <2>3. Steady /\ held' = held
    BY <1>8 DEF CloseBegin, CloseNotify, CloseJoin, Steady
  <2> QED BY <1>1, <2>1, <2>2, <2>3, CalmOrder
<1>9. CASE CloseFree
  <2>1. Drop(Buff) /\ Steady /\ tpc' = tpc /\ mpc = "c_free" /\ Begun
    BY <1>9 DEF CloseFree, Steady, Begun
  <2>2. held'[Buff] = <<>> /\ \A r \in Places \ {Buff} : held'[r] = held[r]
    BY <2>1, HeldSeq, DropType, PlacesDistinct DEF OrderInv
  <2>3. held'[Main] = held[Main] /\ held'[Mmap] = held[Mmap] /\ held'[Flusher] = held[Flusher]
    BY <2>2, PlacesDistinct
  <2>4. HandsInv'
    BY <2>1, <2>3 DEF OrderInv, HandsInv
  <2>5. Ordered(held', starts)
    BY <2>2, EmptiedOrdered, ShelvesArePlaces DEF OrderInv
  <2> QED BY <1>1, <2>1, <2>3, <2>4, <2>5, PastKept DEF Steady
<1> QED BY <1>1, <1>2, <1>3, <1>4, <1>5, <1>6, <1>7, <1>8, <1>9 DEF MainThread

(* The log file has the lines of a session in the order in which the       *)
(* appender took them, whatever crashes, failed writes and reopenings      *)
(* happen: with the flush thread as the only flusher of an open appender.  *)
THEOREM SessionsInOrder ==
  ASSUME SetModeClosed = FALSE, SyncFlush = FALSE, Modes = {"async"}
  PROVE  Spec => []SessionOrder
<1>1. Init => OrderInv
  <2> SUFFICES ASSUME Init PROVE OrderInv
    OBVIOUS
  <2>1. LineInv
    BY LineInit
  <2>2. \A p \in Places : held[p] = <<>>
    BY DEF Init
  <2>3. Ordered(held, starts)
    BY <2>2, EmptyOrder, ShelvesArePlaces DEF Ordered, Shelves
  <2>4. HandsInv /\ PastInv
    BY <2>2, PastEmpty, PlacesDistinct DEF HandsInv, PastInv
  <2>5. AsyncInv
    BY DEF Init, AsyncInv
  <2> QED BY <2>1, <2>3, <2>4, <2>5, FlusherInit DEF OrderInv
<1>2. OrderInv /\ [Next]_vars => OrderInv'
  <2> SUFFICES ASSUME OrderInv, [Next]_vars PROVE OrderInv'
    OBVIOUS
  <2>1. LineInv'
    BY LineStep DEF OrderInv
  <2>2. FlusherInv'
    BY FlusherStep DEF OrderInv, LineInv
  <2>3. AsyncInv' /\ HandsInv' /\ PastInv' /\ Ordered(held', starts')
    <3>1. CASE UNCHANGED vars
      <4>1. Steady /\ held' = held /\ UNCHANGED <<tpc, mpc, sg_mode, sg_log_close, wpc>>
        BY <3>1 DEF vars, Steady
      <4>2. AsyncInv' /\ (Begun' => Begun)
        BY <4>1 DEF OrderInv, AsyncInv, Begun
      <4> QED BY <4>1, <4>2, CalmOrder
    <3>2. CASE Crash
      <4>1. sg_mode' = "async" /\ wpc' = [w \in Threads |-> "idle"] /\ starts' = starts
        BY <3>2 DEF Crash
      <4>2. AsyncInv'
        BY <4>1 DEF AsyncInv
      <4> QED BY <3>2, <4>1, <4>2, CrashOrder
    <3> QED BY <3>1, <3>2, WriterOrder, FlushThreadOrder, MainThreadOrder DEF Next
  <2> QED BY <2>1, <2>2, <2>3 DEF OrderInv
<1>3. OrderInv => SessionOrder
  BY SortedFile DEF OrderInv, Ordered, Shelves
<1> QED BY <1>1, <1>2, <1>3, PTL DEF Spec
=============================================================================
