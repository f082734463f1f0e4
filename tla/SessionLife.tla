------------------------------ MODULE SessionLife ------------------------------
(***************************************************************************)
(* What the listener of a push session (MediaRecorderUtils.onStatusChange) *)
(* may count on: the order of the statuses it is told, that the end of the *)
(* session is told once and last, and that a sending session is said to    *)
(* have ended abnormally unless one stop ended it.  A second stop makes    *)
(* the end an abnormal one again.                                          *)
(***************************************************************************)
CONSTANT Sessions

VARIABLES
  told,   \* told[s]: the status the listener of s heard last
  asked   \* asked[s]: 0, 1 or more (2) stops since s sends

Sending == {"send_status", "reconnect_begin", "reconnect_success"}

(* What may be told after each status while nobody has stopped.            *)
After == [
  init_status        |-> {"connect_fail", "connect_success"},
  connect_fail       |-> {"disconnect_status"},
  connect_success    |-> {"send_status", "disconnect_status"},
  send_status        |-> {"reconnect_begin", "stop_send_abnormal"},
  reconnect_begin    |-> {"reconnect_success", "stop_send_abnormal"},
  reconnect_success  |-> {"reconnect_begin", "stop_send_abnormal"},
  stop_send_abnormal |-> {"disconnect_status"},
  disconnect_status  |-> {}]

Init == told = [s \in Sessions |-> "init_status"] /\ asked = [s \in Sessions |-> 0]

Ask(s) ==
  /\ told[s] \in Sending
  /\ asked' = [asked EXCEPT ![s] = IF @ = 0 THEN 1 ELSE 2]
  /\ UNCHANGED told

(* A stopped session may finish the reconnect it is in; then it ends.      *)
Tell(s) ==
  /\ \E next \in IF asked[s] # 1 THEN After[told[s]]
                 ELSE (After[told[s]] \ {"stop_send_abnormal"}) \cup {"disconnect_status"} :
       told' = [told EXCEPT ![s] = next]
  /\ told[s] # "disconnect_status"
  /\ UNCHANGED asked

Spec == Init /\ [][\E s \in Sessions : Ask(s) \/ Tell(s)]_<<told, asked>>
=============================================================================
