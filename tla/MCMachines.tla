------------------------------ MODULE MCMachines ------------------------------
(* Six machines that share no state, checked side by side: a behaviour is  *)
(* one of them at work (focus) while the others rest.  None of them calls  *)
(* another, so no behaviour is lost.                                       *)
EXTENDS Thread, PushSession

CONSTANTS Room, CryptRoom, Sizes, MaxLines, MaxCrashes, MaxDay, MaxRecords, MaxFaults,
          MaxChecks, MaxCheckers, MaxChanges

ASSUME MachinesAssumption ==
  /\ MaxDay \in Nat \ {0} /\ MaxChecks \in Nat /\ MaxCheckers \in Nat /\ MaxChanges \in Nat
  /\ Room \in Nat /\ CryptRoom \in Nat /\ Sizes \subseteq Nat \ {0}
  /\ MaxLines \in Nat /\ MaxCrashes \in Nat

CONSTANTS c1, c2
MCCallers == {c1, c2}
OneOrTwo  == {1, 2}

VARIABLES
  focus,
  magic, loglen, cells, length, stream, pending, pc, crypt, up, count, taken, crashes,
  day, log_mode, prefixed, disk, there, open, buffered, unlinked, bad, step, records, synced,
  failed, overtook, faults, died,
  checking, cancel, check_list, check_status, thread, left, checks, reported, lost, core,
  active, inbox, asyncpost, periodics, joining, net_thread, broken, installed, changes, net_checks

Block   == INSTANCE XlogBlock
File    == INSTANCE XlogFile WITH mode <- log_mode
Sdt     == INSTANCE SdtCheck
Sources == INSTANCE NetSourceTimerCheck WITH thread <- net_thread, checks <- net_checks

blockVars   == <<magic, loglen, cells, length, stream, pending, pc, crypt, up, count, taken, crashes>>
fileVars    == <<day, log_mode, prefixed, disk, there, open, buffered, unlinked, bad, step, records,
                 synced, failed, overtook, faults, died>>
sdtVars     == <<checking, cancel, check_list, check_status, thread, left, checks, reported, lost, core>>
sourcesVars == <<active, inbox, asyncpost, periodics, joining, net_thread, broken, installed,
                 changes, net_checks>>
all == <<focus, threadVars, blockVars, fileVars, sessionVars, sdtVars, sourcesVars>>

ThreadOnly  == focus = "thread" /\ UNCHANGED <<focus, blockVars, fileVars, sessionVars, sdtVars, sourcesVars>>
BlockOnly   == focus = "block" /\ UNCHANGED <<focus, threadVars, fileVars, sessionVars, sdtVars, sourcesVars>>
FileOnly    == focus = "file" /\ UNCHANGED <<focus, threadVars, blockVars, sessionVars, sdtVars, sourcesVars>>
PushOnly    == focus = "push" /\ UNCHANGED <<focus, threadVars, blockVars, fileVars, sdtVars, sourcesVars>>
SdtOnly     == focus = "sdt" /\ UNCHANGED <<focus, threadVars, blockVars, fileVars, sessionVars, sourcesVars>>
SourcesOnly == focus = "sources" /\ UNCHANGED <<focus, threadVars, blockVars, fileVars, sessionVars, sdtVars>>

MachinesInit ==
  /\ focus \in {"thread", "block", "file", "push", "sdt", "sources"}
  /\ Init /\ SessionInit /\ Block!Init /\ Sdt!Init /\ Sources!Init
  /\ IF focus = "file" THEN File!Init ELSE File!Init /\ log_mode = "async" /\ prefixed = FALSE

MachinesNext ==
  \/ Next /\ ThreadOnly
  \/ Block!Next /\ BlockOnly
  \/ File!Next /\ FileOnly
  \/ SessionNext /\ PushOnly
  \/ Sdt!Next /\ SdtOnly
  \/ Sources!Next /\ SourcesOnly

(* The fairness of each machine, as its module justifies it.               *)
ThreadFair ==
  /\ \A c \in Callers : WF_all(JoinGoesOn(c) /\ ThreadOnly)
  /\ \A i \in Threads : WF_all(Lives(i) /\ ThreadOnly)
PushFair ==
  \A s \in Sessions :
    /\ WF_all(Prompt(s) /\ PushOnly) /\ WF_all(Loop(s) /\ PushOnly)
    /\ SF_all(SeeStop(s) /\ PushOnly)
CheckFair ==
  /\ WF_all(Sdt!Thread /\ SdtOnly) /\ WF_all(Sdt!Joined /\ SdtOnly)
  /\ WF_all(Sources!Handlers /\ SourcesOnly) /\ WF_all(Sources!RunsOn /\ SourcesOnly)

MachinesSpec == MachinesInit /\ [][MachinesNext]_all /\ ThreadFair /\ PushFair /\ CheckFair
-----------------------------------------------------------------------------
(* Properties                                                              *)

(* The types of all six, with what each of them says about its own.        *)
TypesOK ==
  /\ TypeOK /\ SessionTypeOK /\ Block!TypeOK /\ File!TypeOK /\ Sdt!TypeOK /\ Sources!TypeOK

(* What is asked to end does: a cancelled thread, a join.                  *)
ThreadEnds == CancelEnds /\ JoinEnds

(* A block in the mmap file is one whose lines come and go whole, whenever *)
(* the process dies.                                                       *)
ImplementsBlock == Block!ImplementsBlock

(* A record of asynchronous mode is kept, once, and in the order of its    *)
(* day, in two directories that come and go.                               *)
FilesKeep == File!AsyncKept /\ File!Once /\ File!DayInOrder

(* A network check has its own list and its own report, and a busy core a  *)
(* thread; the application, while it is active, has one periodic check of  *)
(* its addresses, until the first stop that finds a thread at work.        *)
ChecksSafe ==
  /\ Sdt!ListIsOwn /\ Sdt!BusyHasThread /\ Sdt!EveryCheckReports
  /\ Sources!OnePeriodic /\ Sources!ActiveIsChecked

(* Both kinds of check end, for whoever waits in a join too.               *)
ChecksEnd == Sdt!ChecksEnd /\ Sources!StopReturns
=============================================================================
