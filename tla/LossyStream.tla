------------------------------ MODULE LossyStream ------------------------------
(***************************************************************************)
(* What a receiver may count on for one kind of packets of a live stream:  *)
(* packets wait in the order in which they were put, each is delivered     *)
(* once or not at all, and never one after a later one.                    *)
(***************************************************************************)
EXTENDS Sequences

VARIABLES waiting, delivered

Init == waiting = <<>> /\ delivered = <<>>

Put     == /\ waiting' # <<>> /\ waiting' = Append(waiting, waiting'[Len(waiting')])
           /\ delivered' = delivered
Drop    == waiting # <<>> /\ waiting' = Tail(waiting) /\ delivered' = delivered
Deliver == /\ waiting # <<>> /\ waiting' = Tail(waiting)
           /\ delivered' = Append(delivered, Head(waiting))

Spec == Init /\ [][Put \/ Drop \/ Deliver]_<<waiting, delivered>>
=============================================================================
