------------------------------ MODULE ReliableLog ------------------------------
(***************************************************************************)
(* What a log promises: a line that was taken is pending until it is       *)
(* committed to the log or discarded, each of them once and for good.  The *)
(* log only grows, and nothing is committed that is not pending.           *)
(***************************************************************************)
EXTENDS Integers, Sequences

CONSTANT Filler  \* an entry of the log that is not a line (a warning)

VARIABLES log, pending, seen

Init == log = <<>> /\ pending = {} /\ seen = 0

(* A new line: pending, committed at once, or discarded at once.           *)
Take ==
  /\ seen' = seen + 1
  /\ \/ pending' = pending \cup {seen'} /\ log' = log
     \/ pending' = pending /\ log' = Append(log, seen')
     \/ pending' = pending /\ log' = log

Added     == (Len(log) + 1)..Len(log')
Committed == {log'[i] : i \in Added} \ {Filler}

(* Pending lines are appended, no line twice, and stop being pending.      *)
Commit ==
  /\ Len(log) <= Len(log')
  /\ \A i \in 1..Len(log) : log'[i] = log[i]
  /\ \A i, j \in Added : log'[i] = log'[j] /\ log'[i] # Filler => i = j
  /\ Committed \subseteq pending
  /\ pending' = pending \ Committed
  /\ seen' = seen

Discard == pending' \subseteq pending /\ UNCHANGED <<log, seen>>

Spec == Init /\ [][Take \/ Commit \/ Discard]_<<log, pending, seen>>
=============================================================================
