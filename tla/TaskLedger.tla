------------------------------ MODULE TaskLedger ------------------------------
(***************************************************************************)
(* What a task service promises.  A task is taken once, tried any number   *)
(* of times while it is pending, and ends once and for good; one that ends *)
(* well was tried.  Several tasks may move in one step.                    *)
(***************************************************************************)
EXTENDS Naturals

CONSTANT Tasks

VARIABLES state, tries

Ends == {"ok", "failed", "stopped", "cleared"}

Init == state = [t \in Tasks |-> "new"] /\ tries = [t \in Tasks |-> 0]

Stay(t)   == state'[t] = state[t] /\ tries'[t] = tries[t]
Take(t)   == state[t] = "new" /\ state'[t] = "pending" /\ tries'[t] = 0
Try(t)    == state[t] = "pending" /\ state'[t] = "pending" /\ tries'[t] = tries[t] + 1
Finish(t) == /\ state[t] = "pending" /\ state'[t] \in Ends
             /\ tries'[t] \in {tries[t], tries[t] + 1}
             /\ state'[t] = "ok" => tries'[t] > 0

Move(t) == Stay(t) \/ Take(t) \/ Try(t) \/ Finish(t)

Next == /\ DOMAIN state' = Tasks /\ DOMAIN tries' = Tasks
        /\ \A t \in Tasks : Move(t)

Spec == Init /\ [][Next]_<<state, tries>>
=============================================================================
