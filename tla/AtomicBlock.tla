------------------------------ MODULE AtomicBlock ------------------------------
(***************************************************************************)
(* What XlogAppender takes a LogBuffer for: a block of lines to which a    *)
(* line is added in one step, whose lines are taken out in one step, and   *)
(* which a process death leaves as it is.                                  *)
(***************************************************************************)
EXTENDS Naturals, Sequences

VARIABLES block, taken, count

Init == block = <<>> /\ taken = <<>> /\ count = 0

Write  == /\ count' = count + 1
          /\ block' \in {block, Append(block, count')}
          /\ taken' = taken
Flush  == block' = <<>> /\ taken' = taken \o block /\ count' = count

Spec == Init /\ [][Write \/ Flush]_<<block, taken, count>>
=============================================================================
