------------------------------- MODULE XlogFile -------------------------------
(***************************************************************************)
(* The files of the appender (mars/log/src/appender.cc, __log2file and     *)
(* what it calls) when it has a cache directory: one file a day in each of *)
(* the two directories.  All of it runs under the mutex of the log file,   *)
(* so only a death, a full or lost directory and the next day come between *)
(* its steps.  A record is a number.  What fwrite has taken and fclose not *)
(* yet written is buffered: nothing flushes it before.                     *)
(*                                                                         *)
(* Left out: a clock set back, and a write error that only fclose meets.   *)
(***************************************************************************)
EXTENDS Integers, Sequences, FiniteSets

CONSTANTS MaxDay, MaxRecords, MaxFaults

VARIABLES
  day, mode,
  prefixed,   \* the paths of the files begin with sg_logfileprefix
  disk,       \* disk[f]: records in file f, f = <<directory, day>>
  there,      \* the files that exist
  open,       \* the file sg_logfile is open on, or None
  buffered,   \* records in its buffer
  unlinked,   \* the file was removed while it was open
  bad,        \* directories where nothing can be opened or written now
  step,       \* what __log2file or __move_old_files does next: [op, file]
  records,    \* records so far
  synced,     \* records written in synchronous mode
  failed,     \* records no file took
  overtook,   \* a record went to the log file past a cache file that would not open
  faults, died

fileVars == <<day, mode, prefixed, disk, there, open, buffered, unlinked, bad, step, records,
              synced, failed, overtook, faults, died>>

Dirs  == {"cache", "log"}
Days  == 1..MaxDay
Files == Dirs \X Days
None  == <<"none", 0>>
Idle  == [op |-> "idle", file |-> None]
To(op, f) == [op |-> op, file |-> f]

Init ==
  /\ day = 1 /\ mode \in {"async", "sync"} /\ prefixed \in BOOLEAN
  /\ disk = [f \in Files |-> <<>>] /\ there = {} /\ open = None /\ buffered = <<>>
  /\ unlinked = FALSE /\ bad = {} /\ step = Idle /\ records = 0 /\ synced = {} /\ failed = {}
  /\ overtook = FALSE /\ faults = 0 /\ died = FALSE

(* What the files hold once the open one is closed.                        *)
Closed(files) ==
  IF open = None \/ unlinked THEN files ELSE [files EXCEPT ![open] = @ \o buffered]

(* __openlogfile and __writefile, then __closelogfile in asynchronous      *)
(* mode.  Another file is closed first, and so is one that was removed.    *)
WriteTo(f, r) ==
  /\ there' = there \cup {f}
  /\ IF mode = "async"
     THEN /\ disk' = [Closed(disk) EXCEPT ![f] = Append(@, r)]
          /\ open' = None /\ buffered' = <<>> /\ unlinked' = FALSE
     ELSE IF open = f /\ ~unlinked
     THEN buffered' = Append(buffered, r) /\ UNCHANGED <<disk, open, unlinked>>
     ELSE disk' = Closed(disk) /\ open' = f /\ buffered' = <<r>> /\ unlinked' = FALSE
-----------------------------------------------------------------------------
Cache == <<"cache", day>>
Log   == <<"log", day>>
Opens(f) == f[1] \notin bad

Record ==
  /\ step = Idle /\ records < MaxRecords /\ records' = records + 1
  /\ synced' = IF mode = "sync" THEN synced \cup {records + 1} ELSE synced
  /\ UNCHANGED <<day, mode, prefixed, bad, faults, died>>

(* A cache file of today: write there, then append it to the log file.     *)
ToCache ==
  /\ Record /\ Cache \in there /\ Opens(Cache)
  /\ WriteTo(Cache, records + 1) /\ step' = To("append", Cache) /\ UNCHANGED <<failed, overtook>>

ToLog ==
  /\ Record /\ (Cache \notin there \/ ~Opens(Cache)) /\ Opens(Log)
  /\ WriteTo(Log, records + 1) /\ overtook' = (overtook \/ Cache \in there)
  /\ UNCHANGED <<step, failed>>

(* The log file fails: a cache file begins.                                *)
ToNewCache ==
  /\ Record /\ Cache \notin there /\ ~Opens(Log) /\ Opens(Cache)
  /\ WriteTo(Cache, records + 1) /\ UNCHANGED <<step, failed, overtook>>

Nowhere ==
  /\ Record /\ ~Opens(Log) /\ ~Opens(Cache) /\ failed' = failed \cup {records + 1}
  /\ disk' = Closed(disk) /\ open' = None /\ buffered' = <<>> /\ unlinked' = FALSE
  /\ UNCHANGED <<there, step, overtook>>

Target(f) == <<"log", f[2]>>

(* Wrong: what cannot be opened counts as appended.                        *)
AppendAssumed ==
  /\ step.op = "append" /\ step' = To("remove", step.file)
  /\ LET f == step.file IN
     IF Opens(Target(f))
     THEN disk' = [disk EXCEPT ![Target(f)] = @ \o disk[f]] /\ there' = there \cup {Target(f)}
     ELSE UNCHANGED <<disk, there>>
  /\ UNCHANGED <<day, mode, prefixed, open, buffered, unlinked, bad, records, synced, failed, overtook,
                 faults, died>>

(* __append_file: nothing to do for an empty file; all of it or nothing.   *)
AppendFile ==
  /\ step.op = "append"
  /\ LET f == step.file IN
     \/ /\ disk[f] = <<>> /\ step' = To("remove", f) /\ UNCHANGED <<disk, there>>
     \/ /\ disk[f] # <<>> /\ Opens(Target(f)) /\ step' = To("remove", f)
        /\ disk' = [disk EXCEPT ![Target(f)] = @ \o disk[f]] /\ there' = there \cup {Target(f)}
     \/ /\ disk[f] # <<>> /\ ~Opens(Target(f)) /\ step' = Idle /\ UNCHANGED <<disk, there>>
  /\ UNCHANGED <<day, mode, prefixed, open, buffered, unlinked, bad, records, synced, failed, overtook, faults, died>>

(* In synchronous mode __log2file closes first; a move does not.           *)
Remove ==
  /\ step.op = "remove" /\ step' = Idle
  /\ LET f == step.file IN
     /\ there' = there \ {f} /\ disk' = [disk EXCEPT ![f] = <<>>]
     /\ IF open = f /\ f = Cache /\ mode = "sync"
        THEN open' = None /\ buffered' = <<>> /\ unlinked' = FALSE
        ELSE unlinked' = (unlinked \/ open = f) /\ UNCHANGED <<open, buffered>>
  /\ UNCHANGED <<day, mode, prefixed, bad, records, synced, failed, overtook, faults, died>>

(* __move_old_files, minutes after the start: it takes the files whose     *)
(* path begins with the prefix of their name.                              *)
MoveOldFile ==
  /\ step = Idle /\ prefixed
  /\ \E f \in there : f[1] = "cache" /\ step' = To("append", f)
  /\ UNCHANGED <<day, mode, prefixed, disk, there, open, buffered, unlinked, bad, records, synced,
                 failed, overtook, faults, died>>
-----------------------------------------------------------------------------
(* The rest of the world                                                   *)

Fault == faults < MaxFaults /\ faults' = faults + 1

DirChanges ==
  /\ Fault /\ \E d \in Dirs : bad' \in {bad \cup {d}, bad \ {d}}
  /\ UNCHANGED <<day, mode, prefixed, disk, there, open, buffered, unlinked, step, records, synced,
                 failed, overtook, died>>

NextDay ==
  /\ step = Idle /\ day < MaxDay /\ day' = day + 1
  /\ UNCHANGED <<mode, prefixed, disk, there, open, buffered, unlinked, bad, step, records, synced,
                 failed, overtook, faults, died>>

SetMode ==
  /\ step = Idle /\ Fault /\ mode' \in {"async", "sync"} \ {mode}
  /\ UNCHANGED <<day, prefixed, disk, there, open, buffered, unlinked, bad, step, records, synced,
                 failed, overtook, died>>

Crash ==
  /\ Fault /\ died' = TRUE /\ step' = Idle /\ open' = None /\ buffered' = <<>> /\ unlinked' = FALSE
  /\ UNCHANGED <<day, mode, prefixed, disk, there, bad, records, synced, failed, overtook>>
-----------------------------------------------------------------------------
Moves == AppendFile \/ Remove
Next ==
  \/ ToCache \/ ToLog \/ ToNewCache \/ Nowhere \/ Moves \/ MoveOldFile
  \/ DirChanges \/ NextDay \/ SetMode \/ Crash
Spec == Init /\ [][Next]_fileVars
-----------------------------------------------------------------------------
(* Properties                                                              *)

On(s, r) == \E i \in DOMAIN s : s[i] = r
Places(r) == {f \in Files : On(disk[f], r)}
Rising(s) == \A i, j \in DOMAIN s : i < j => s[i] < s[j]

TypeOK ==
  /\ there \subseteq Files /\ open \in Files \cup {None} /\ (open = None => buffered = <<>>)
  /\ \A f \in Files \ there : disk[f] = <<>>

(* A record written in asynchronous mode is in a file or was refused by    *)
(* both directories, whatever dies or fails and whenever.                  *)
AsyncKept == \A r \in 1..records : r \in synced \cup failed \/ Places(r) # {}

(* Without a death no record is in two files, or twice in one, but between *)
(* the append and the removal.                                             *)
Once ==
  ~died /\ step.op # "remove" =>
    /\ \A r \in 1..records : Cardinality(Places(r)) <= 1
    /\ \A f \in Files : \A i, j \in DOMAIN disk[f] : i # j => disk[f][i] # disk[f][j]

(* Without a death the records of a day come in their order, those of the  *)
(* log file first, then those of the cache, unless one was written past a  *)
(* cache file that could not be opened.                                    *)
DayInOrder ==
  ~died /\ ~overtook /\ step.op # "remove" =>
    \A d \in Days : Rising(disk[<<"log", d>>] \o disk[<<"cache", d>>])
=============================================================================
