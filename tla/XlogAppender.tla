----------------------------- MODULE XlogAppender -----------------------------
(***************************************************************************)
(* The xlog appender of Mars (log/src/appender.cc): writer threads, the    *)
(* asynchronous flush thread, appender_flush_sync, and the main thread     *)
(* that opens, closes and switches the mode of the appender, over one      *)
(* shared LogBuffer that lives in an mmap'ed file or on the heap.          *)
(*                                                                         *)
(* Every accepted log line has an id (1, 2, ...) given in the order in     *)
(* which the appender takes the lines.  A line moves between PLACES: the   *)
(* shared buffer, the mmap file a dead process left behind, the local      *)
(* AutoBuffer of whoever flushes, and the log file.  The text of a line,   *)
(* its compression and its encryption are abstracted.                      *)
(***************************************************************************)
EXTENDS Integers, Sequences

CONSTANTS
  Threads,        \* threads that log and call appender_flush / appender_flush_sync
  NotifyMark,     \* buffer length that wakes the flush thread (1/3 of the block)
  FullMark,       \* buffer length from which a line is replaced by a warning (4/5)
  BlockLength,    \* kBufferBlockLength: no line fits above it
  Modes,          \* the modes the main thread may choose, within {"async", "sync"}
  SyncFlush,      \* TRUE: the threads also call appender_flush_sync
  SetModeClosed,  \* TRUE: appender_setmode may also be called on a closed appender
  MaxLines, MaxCrashes, MaxFails  \* bounds of the model, not of the code

ASSUME MarksAssumption ==
  /\ NotifyMark \in Nat /\ FullMark \in Nat /\ BlockLength \in Nat
  /\ 0 < NotifyMark /\ NotifyMark <= FullMark /\ FullMark <= BlockLength
ASSUME BoundsAssumption == MaxLines \in Nat /\ MaxCrashes \in Nat /\ MaxFails \in Nat
ASSUME ModesAssumption == Modes \subseteq {"async", "sync"}
ASSUME SwitchesAssumption == SyncFlush \in BOOLEAN /\ SetModeClosed \in BOOLEAN
ASSUME ThreadsAssumption == Threads \cap {"buff", "mmap", "file", "flusher", "main"} = {}

(* The places a line can be in.  A thread's place is the AutoBuffer of its *)
(* own appender_flush_sync.                                                *)
Buff    == "buff"     \* sg_log_buff
Mmap    == "mmap"     \* the mmap file while no process maps it
File    == "file"     \* the log file
Flusher == "flusher"  \* tmp of __async_log_thread
Main    == "main"     \* buffer of appender_open
Places  == Threads \cup {Buff, Mmap, File, Flusher, Main}

Warning == 0          \* the line "[F][ sg_buffer_async.Length() >= ..."
Line    == Nat

VARIABLES
  sg_mode,      \* sg_mode
  sg_log_close, \* sg_log_close
  has_buff,     \* sg_log_buff # NULL
  is_mapped,    \* the memory of sg_log_buff is the mmap file
  held,         \* held[p]: the lines in place p, in order
  wpc,          \* where each logging thread is
  tpc,          \* where the flush thread is; "none" when it is not running
  mpc,          \* where the main thread is
  accepted,     \* number of lines the appender took (history)
  lost,         \* ids of the accepted lines that are in no place any more (history)
  starts,       \* ids of the first line of each session (history)
  quiet,        \* no line written to the block since the flush thread began to wait (history)
  crashes, fails

vars == <<sg_mode, sg_log_close, has_buff, is_mapped, held, wpc, tpc, mpc,
          accepted, lost, starts, quiet, crashes, fails>>

Lines(s)   == {s[i] : i \in DOMAIN s} \ {Warning}
HeldLines  == UNION {Lines(held[p]) : p \in Places}

Init ==
  /\ sg_mode = "async" /\ sg_log_close = TRUE
  /\ has_buff = FALSE /\ is_mapped = FALSE
  /\ held = [p \in Places |-> <<>>]
  /\ wpc = [w \in Threads |-> "idle"] /\ tpc = "none" /\ mpc = "idle"
  /\ accepted = 0 /\ lost = {} /\ starts = {} /\ quiet = TRUE
  /\ crashes = 0 /\ fails = 0

-----------------------------------------------------------------------------
(* Helpers                                                                 *)

(* Condition::notifyAll(false): it wakes a thread that already waits and   *)
(* leaves no trace for one that is about to.                               *)
NotifyAll == tpc' = IF tpc = "wait" THEN "top" ELSE tpc

(* Wrong move: what is moved comes first.                                  *)
MoveFirst(p, q) == held' = [held EXCEPT ![q] = held[p] \o @, ![p] = <<>>]

(* All the lines of place p go to the end of place q.                      *)
Move(p, q) == held' = [held EXCEPT ![q] = @ \o held[p], ![p] = <<>>]

(* The lines of place p are gone.                                          *)
Drop(p) == /\ held' = [held EXCEPT ![p] = <<>>]
           /\ lost' = lost \cup Lines(held[p])

(* Wrong flush: the block is not cleared.                                  *)
FlushNotCleared(p) == held' = [held EXCEPT ![p] = @ \o held[Buff]]

(* LogBuffer::Flush under sg_mutex_buffer_async: the content is copied out *)
(* and the buffer, hence the mmap file, is cleared.                        *)
Flush(p) == Move(Buff, p)

(* appender_open holds sg_mutex_log_file from the moment it clears         *)
(* sg_log_close until appender_setmode returns.                            *)
FileUnlocked == mpc # "o_setmode"

(* __log2file under sg_mutex_log_file, of the block in place p: written to *)
(* the end of the log file, or lost when open or fwrite fails.             *)
Log2File(p) ==
  /\ FileUnlocked
  /\ \/ Move(p, File) /\ UNCHANGED <<lost, fails>>
     \/ /\ fails < MaxFails
        /\ fails' = fails + 1
        /\ Drop(p)

(* A line is accepted and gets its id.                                     *)
Accept == accepted < MaxLines /\ accepted' = accepted + 1
-----------------------------------------------------------------------------
(* xlogger_appender and appender_flush(_sync), run by any thread           *)

(* The unlocked test of sg_log_close; a closed appender returns at once.   *)
Call(w) ==
  /\ wpc[w] = "idle" /\ ~sg_log_close
  /\ wpc' = [wpc EXCEPT ![w] = "called"]
  /\ UNCHANGED <<sg_mode, sg_log_close, has_buff, is_mapped, held, tpc, mpc,
                 accepted, lost, starts, quiet, crashes, fails>>

(* The unlocked read of sg_mode.                                           *)
Route(w) ==
  /\ wpc[w] = "called"
  /\ wpc' = [wpc EXCEPT ![w] = sg_mode]
  /\ UNCHANGED <<sg_mode, sg_log_close, has_buff, is_mapped, held, tpc, mpc,
                 accepted, lost, starts, quiet, crashes, fails>>

(* Wrong Write: the length left in the block is not tested.                *)
WritableUnchecked == mpc # "o_sealed"

(* LogBuffer::Write succeeds: the line fits, and the block is not a        *)
(* recovered one, which has no deflate stream until it is flushed.         *)
Writable == Len(held[Buff]) < BlockLength /\ mpc # "o_sealed"

(* Wrong __appender_async: it notifies only when the mark is crossed.      *)
AppenderAsyncEdge(w, fatal) ==
  /\ wpc[w] = "async"
  /\ wpc' = [wpc EXCEPT ![w] = "idle"]
  /\ has_buff /\ Writable /\ Accept
  /\ held' = [held EXCEPT ![Buff] = Append(@, accepted + 1)]
  /\ IF Len(held[Buff]) + 1 = NotifyMark THEN NotifyAll ELSE UNCHANGED tpc
  /\ quiet' = FALSE
  /\ UNCHANGED <<sg_mode, sg_log_close, has_buff, is_mapped, mpc, lost, starts, crashes, fails>>

(* __appender_async under sg_mutex_buffer_async.  fatal is the level of    *)
(* the line; a line that finds the block 4/5 full is replaced by a warning.*)
AppenderAsync(w, fatal) ==
  /\ wpc[w] = "async"
  /\ wpc' = [wpc EXCEPT ![w] = "idle"]
  /\ IF has_buff
     THEN LET len   == Len(held[Buff])
              taken == Writable /\ len < FullMark
              entry == IF taken THEN accepted + 1 ELSE Warning
          IN /\ Accept
             /\ held' = IF Writable THEN [held EXCEPT ![Buff] = Append(@, entry)] ELSE held
             /\ lost' = IF taken THEN lost ELSE lost \cup {accepted + 1}
             /\ IF Writable /\ (len + 1 >= NotifyMark \/ fatal)
                THEN NotifyAll ELSE UNCHANGED tpc
             /\ quiet' = (quiet /\ ~Writable)
     ELSE UNCHANGED <<held, tpc, accepted, lost, quiet>>
  /\ UNCHANGED <<sg_mode, sg_log_close, has_buff, is_mapped, mpc, starts, crashes, fails>>

(* __appender_sync: the line goes straight to the file.                    *)
AppenderSync(w) ==
  /\ wpc[w] = "sync" /\ FileUnlocked
  /\ Accept
  /\ wpc' = [wpc EXCEPT ![w] = "idle"]
  /\ \/ held' = [held EXCEPT ![File] = Append(@, accepted + 1)] /\ UNCHANGED <<lost, fails>>
     \/ /\ fails < MaxFails
        /\ fails' = fails + 1
        /\ lost' = lost \cup {accepted + 1} /\ UNCHANGED held
  /\ UNCHANGED <<sg_mode, sg_log_close, has_buff, is_mapped, tpc, mpc, starts, quiet, crashes>>

(* appender_flush.                                                         *)
AppenderFlush(w) ==
  /\ wpc[w] = "idle" /\ NotifyAll
  /\ UNCHANGED <<sg_mode, sg_log_close, has_buff, is_mapped, held, wpc, mpc,
                 accepted, lost, starts, quiet, crashes, fails>>

(* appender_flush_sync: the unlocked test of sg_mode ...                   *)
FlushSync(w) ==
  /\ SyncFlush /\ wpc[w] = "idle" /\ sg_mode # "sync"
  /\ wpc' = [wpc EXCEPT ![w] = "flush"]
  /\ UNCHANGED <<sg_mode, sg_log_close, has_buff, is_mapped, held, tpc, mpc,
                 accepted, lost, starts, quiet, crashes, fails>>

(* ... the block taken under the buffer lock ...                           *)
FlushSyncTake(w) ==
  /\ wpc[w] = "flush"
  /\ IF has_buff /\ held[Buff] # <<>>
     THEN Flush(w) /\ wpc' = [wpc EXCEPT ![w] = "flushed"]
     ELSE wpc' = [wpc EXCEPT ![w] = "idle"] /\ UNCHANGED held
  /\ UNCHANGED <<sg_mode, sg_log_close, has_buff, is_mapped, tpc, mpc,
                 accepted, lost, starts, quiet, crashes, fails>>

(* ... and written after the buffer lock is released.                      *)
FlushSyncWrite(w) ==
  /\ wpc[w] = "flushed"
  /\ Log2File(w)
  /\ wpc' = [wpc EXCEPT ![w] = "idle"]
  /\ UNCHANGED <<sg_mode, sg_log_close, has_buff, is_mapped, tpc, mpc,
                 accepted, starts, quiet, crashes>>
-----------------------------------------------------------------------------
(* __async_log_thread                                                      *)

(* The top of the loop under sg_mutex_buffer_async.                        *)
ThreadTake ==
  /\ tpc = "top"
  /\ IF has_buff
     THEN Flush(Flusher) /\ tpc' = (IF held[Buff] = <<>> THEN "check" ELSE "write")
     ELSE tpc' = "ended" /\ UNCHANGED held
  /\ UNCHANGED <<sg_mode, sg_log_close, has_buff, is_mapped, wpc, mpc,
                 accepted, lost, starts, quiet, crashes, fails>>

ThreadWrite ==
  /\ tpc = "write"
  /\ Log2File(Flusher)
  /\ tpc' = "check"
  /\ UNCHANGED <<sg_mode, sg_log_close, has_buff, is_mapped, wpc, mpc,
                 accepted, starts, quiet, crashes>>

(* "if (sg_log_close) break", with no lock held ...                        *)
ThreadCheck ==
  /\ tpc = "check"
  /\ tpc' = IF sg_log_close THEN "ended" ELSE "parking"
  /\ UNCHANGED <<sg_mode, sg_log_close, has_buff, is_mapped, held, wpc, mpc,
                 accepted, lost, starts, quiet, crashes, fails>>

(* ... and the timed wait: a notification between the two is not seen.     *)
ThreadWait ==
  /\ tpc = "parking"
  /\ tpc' = "wait" /\ quiet' = TRUE
  /\ UNCHANGED <<sg_mode, sg_log_close, has_buff, is_mapped, held, wpc, mpc,
                 accepted, lost, starts, crashes, fails>>

(* Wrong wait: no timeout.                                                 *)
ThreadNoTimeout == tpc = "wait" /\ FALSE /\ UNCHANGED vars

(* The 15 minutes are over.                                                *)
ThreadTimeout ==
  /\ tpc = "wait" /\ tpc' = "top"
  /\ UNCHANGED <<sg_mode, sg_log_close, has_buff, is_mapped, held, wpc, mpc,
                 accepted, lost, starts, quiet, crashes, fails>>

(* Thread::cleanup: from here on isruning() is false and join returns.     *)
ThreadEnd ==
  /\ tpc = "ended" /\ tpc' = "none"
  /\ UNCHANGED <<sg_mode, sg_log_close, has_buff, is_mapped, held, wpc, mpc,
                 accepted, lost, starts, quiet, crashes, fails>>
-----------------------------------------------------------------------------
(* The main thread: appender_open, appender_setmode, appender_close        *)

(* OpenMmapFile and the new LogBuffer over what the file holds, or a heap  *)
(* block when the file cannot be mapped.                                   *)
OpenBuffer(mapped) ==
  /\ mpc = "idle" /\ sg_log_close /\ ~has_buff
  /\ mpc' = IF mapped /\ held[Mmap] # <<>> THEN "o_sealed" ELSE "o_flush"
  /\ has_buff' = TRUE /\ is_mapped' = mapped
  /\ IF mapped THEN Move(Mmap, Buff) ELSE UNCHANGED held
  /\ UNCHANGED <<sg_mode, sg_log_close, wpc, tpc, accepted, lost, starts, quiet, crashes, fails>>

(* What a previous process left is taken out of the mmap file: lines       *)
(* accepted from here on belong to the new session.                        *)
OpenFlush ==
  /\ mpc \in {"o_flush", "o_sealed"}
  /\ mpc' = "o_publish"
  /\ Flush(Main)
  /\ starts' = starts \cup {accepted + 1}
  /\ UNCHANGED <<sg_mode, sg_log_close, has_buff, is_mapped, wpc, tpc,
                 accepted, lost, quiet, crashes, fails>>

(* With sg_mutex_log_file held: sg_log_close = false ...                   *)
OpenPublish ==
  /\ mpc = "o_publish"
  /\ mpc' = "o_setmode"
  /\ sg_log_close' = FALSE
  /\ UNCHANGED <<sg_mode, has_buff, is_mapped, held, wpc, tpc,
                 accepted, lost, starts, quiet, crashes, fails>>

(* appender_setmode: the mode, a notification, and the flush thread        *)
(* started if the mode is async and it is not running.                     *)
AppenderSetMode(mode) ==
  /\ sg_mode' = mode
  /\ tpc' = CASE tpc = "wait" -> "top"
              [] tpc = "none" /\ mode = "async" -> "top"
              [] OTHER -> tpc

(* ... and appender_setmode, then the file mutex is released.              *)
OpenSetMode(mode) ==
  /\ mpc = "o_setmode"
  /\ mpc' = "o_recover"
  /\ AppenderSetMode(mode)
  /\ UNCHANGED <<sg_log_close, has_buff, is_mapped, held, wpc,
                 accepted, lost, starts, quiet, crashes, fails>>

(* What was recovered is written last, in the open appender.               *)
OpenRecover ==
  /\ mpc = "o_recover"
  /\ mpc' = "idle"
  /\ Log2File(Main)
  /\ UNCHANGED <<sg_mode, sg_log_close, has_buff, is_mapped, wpc, tpc,
                 accepted, starts, quiet, crashes>>

SetMode(mode) ==
  /\ mpc = "idle" /\ (sg_log_close => SetModeClosed)
  /\ AppenderSetMode(mode)
  /\ UNCHANGED <<sg_log_close, has_buff, is_mapped, held, wpc, mpc,
                 accepted, lost, starts, quiet, crashes, fails>>

(* appender_close: sg_log_close = true ...                                 *)
CloseBegin ==
  /\ mpc = "idle" /\ ~sg_log_close
  /\ mpc' = "c_notify"
  /\ sg_log_close' = TRUE
  /\ UNCHANGED <<sg_mode, has_buff, is_mapped, held, wpc, tpc,
                 accepted, lost, starts, quiet, crashes, fails>>

(* ... notifyAll ...                                                       *)
CloseNotify ==
  /\ mpc = "c_notify"
  /\ mpc' = "c_join"
  /\ NotifyAll
  /\ UNCHANGED <<sg_mode, sg_log_close, has_buff, is_mapped, held, wpc,
                 accepted, lost, starts, quiet, crashes, fails>>

(* ... join the flush thread if it runs ...                                *)
CloseJoin ==
  /\ mpc = "c_join" /\ tpc = "none"
  /\ mpc' = "c_free"
  /\ UNCHANGED <<sg_mode, sg_log_close, has_buff, is_mapped, held, wpc, tpc,
                 accepted, lost, starts, quiet, crashes, fails>>

(* Wrong free: the mapped block is not zeroed before it is unmapped.       *)
CloseFreeNotZeroed ==
  /\ mpc = "c_free"
  /\ mpc' = "idle"
  /\ IF is_mapped THEN Move(Buff, Mmap) ELSE held' = [held EXCEPT ![Buff] = <<>>]
  /\ lost' = lost \cup Lines(held[Buff])
  /\ has_buff' = FALSE /\ is_mapped' = FALSE
  /\ UNCHANGED <<sg_mode, sg_log_close, wpc, tpc, accepted, starts, quiet, crashes, fails>>

(* ... and, under the buffer lock, zero and unmap or delete the block.     *)
CloseFree ==
  /\ mpc = "c_free"
  /\ mpc' = "idle"
  /\ Drop(Buff)
  /\ has_buff' = FALSE /\ is_mapped' = FALSE
  /\ UNCHANGED <<sg_mode, sg_log_close, wpc, tpc, accepted, starts, quiet, crashes, fails>>
-----------------------------------------------------------------------------
(* The process dies and starts again with the globals' initial values; the *)
(* mmap file keeps the block, everything else in memory is gone.           *)
Crash ==
  /\ crashes < MaxCrashes
  /\ crashes' = crashes + 1
  /\ LET volatile == Places \ ({File, Mmap} \cup IF is_mapped THEN {Buff} ELSE {})
         kept     == IF is_mapped THEN held[Mmap] \o held[Buff] ELSE held[Mmap]
     IN /\ held' = [p \in Places |-> CASE p = File -> held[File]
                                       [] p = Mmap -> kept
                                       [] OTHER -> <<>>]
        /\ lost' = lost \cup UNION {Lines(held[p]) : p \in volatile}
  /\ sg_mode' = "async" /\ sg_log_close' = TRUE
  /\ has_buff' = FALSE /\ is_mapped' = FALSE
  /\ wpc' = [w \in Threads |-> "idle"] /\ tpc' = "none" /\ mpc' = "idle"
  /\ UNCHANGED <<accepted, starts, quiet, fails>>

Writer(w) ==
  \/ Call(w) \/ Route(w) \/ AppenderSync(w) \/ AppenderFlush(w)
  \/ FlushSync(w) \/ FlushSyncTake(w) \/ FlushSyncWrite(w)
  \/ \E fatal \in BOOLEAN : AppenderAsync(w, fatal)

FlushThread ==
  ThreadTake \/ ThreadWrite \/ ThreadCheck \/ ThreadWait \/ ThreadTimeout \/ ThreadEnd

MainThread ==
  \/ \E mapped \in BOOLEAN : OpenBuffer(mapped)
  \/ OpenFlush \/ OpenPublish \/ OpenRecover
  \/ \E mode \in Modes : OpenSetMode(mode) \/ SetMode(mode)
  \/ CloseBegin \/ CloseNotify \/ CloseJoin \/ CloseFree

Next == MainThread \/ FlushThread \/ Crash \/ \E w \in Threads : Writer(w)

Spec == Init /\ [][Next]_vars

(* Scheduling: a runnable flush thread runs and its timed wait ends; a     *)
(* call of the main thread, once entered, goes on.  Nobody has to call.    *)
Fairness ==
  /\ WF_vars(FlushThread)
  /\ WF_vars(OpenFlush \/ OpenPublish \/ OpenRecover \/ \E mode \in Modes : OpenSetMode(mode))
  /\ WF_vars(CloseNotify \/ CloseJoin \/ CloseFree)

FairSpec == Spec /\ Fairness
-----------------------------------------------------------------------------
(* Properties                                                              *)

(* Every variable has its type, and the block never holds more than fits,  *)
(* in memory or in the mmap file a dead process left.                      *)
TypeOK ==
  /\ sg_mode \in {"async", "sync"} /\ sg_log_close \in BOOLEAN
  /\ has_buff \in BOOLEAN /\ is_mapped \in BOOLEAN
  /\ held \in [Places -> Seq(Line)]
  /\ Len(held[Buff]) <= BlockLength /\ Len(held[Mmap]) <= BlockLength
  /\ wpc \in [Threads -> {"idle", "called", "async", "sync", "flush", "flushed"}]
  /\ tpc \in {"none", "top", "write", "check", "parking", "wait", "ended"}
  /\ mpc \in {"idle", "o_flush", "o_sealed", "o_publish", "o_setmode", "o_recover",
              "c_notify", "c_join", "c_free"}
  /\ accepted \in Nat /\ lost \subseteq Nat /\ starts \subseteq Nat
  /\ quiet \in BOOLEAN /\ crashes \in Nat /\ fails \in Nat

(* No line is in two places, or twice in one: two flushers, a crash        *)
(* between a flush and its write, a reopen over a used mmap file never     *)
(* write a line twice.                                                     *)
AtMostOnce ==
  \A p, q \in Places : \A i \in DOMAIN held[p], j \in DOMAIN held[q] :
    held[p][i] = held[q][j] /\ held[p][i] # Warning => p = q /\ i = j

(* A line the appender took is somewhere, or it is counted as lost by the  *)
(* step that lost it (a crash, a failed write, the free of a block that    *)
(* was not flushed, a full block); a lost line never comes back.           *)
Conservation ==
  /\ HeldLines \cup lost = 1..accepted
  /\ HeldLines \cap lost = {}

SameSession(a, b) == ~ \E s \in starts : a < s /\ s <= b

(* With the flush thread as the only flusher, the log file has the lines   *)
(* of each session in the order in which the appender took them, crashes   *)
(* and recovered blocks included (the recovered block itself may come      *)
(* after lines of the session that recovers it).                           *)
SessionOrder ==
  \A i, j \in DOMAIN held[File] :
    LET a == held[File][i]
        b == held[File][j]
    IN i < j /\ a # Warning /\ b # Warning /\ (SameSession(a, b) /\ SameSession(b, a)) => a < b

(* The flush thread never sleeps through a write that left the block at or *)
(* above the mark: a notification lost while it was writing the file or    *)
(* about to wait is made up for by the next line written to the block.     *)
WakeupAtMark == tpc = "wait" /\ Len(held[Buff]) >= NotifyMark => quiet

(* An open appender in async mode has a flush thread that is not about to  *)
(* end, whatever the order of closes, crashes and reopens (as long as      *)
(* appender_setmode is not called on a closed appender).                   *)
OpenHasFlusher ==
  ~sg_log_close /\ mpc = "idle" /\ sg_mode = "async" => tpc \notin {"none", "ended"}

(* The flush thread is there and awake when it is needed.                  *)
FlusherReady == WakeupAtMark /\ OpenHasFlusher

(* A line in the block gets out of it by itself: to the file, or lost, or  *)
(* (crash) into the mmap file for the next open.                           *)
Settled ==
  \A n \in 1..MaxLines :
    n \in Lines(held[Buff]) ~> n \in Lines(held[File]) \cup Lines(held[Mmap]) \cup lost

(* appender_close, which waits for the flush thread, always returns.       *)
CloseReturns == mpc \in {"c_notify", "c_join", "c_free"} ~> mpc = "idle"

(* Neither a line nor a close is stuck, although notifications are lost.   *)
NothingStuck == Settled /\ CloseReturns

(* The appender is a log: lines in memory are pending, the file is the log.*)
RL == INSTANCE ReliableLog WITH
        Filler  <- Warning,
        log     <- held[File],
        pending <- HeldLines \ Lines(held[File]),
        seen    <- accepted

ImplementsLog == RL!Spec
=============================================================================
