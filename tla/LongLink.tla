------------------------------- MODULE LongLink -------------------------------
(***************************************************************************)
(* The long connection of mars stn (stn/src/longlink.cc): the connection   *)
(* thread, the list of requests it has to send, and the calls other        *)
(* threads make on it.  LongLinkTasks puts the task manager on top of it.  *)
(*                                                                         *)
(* Not modelled: addresses, profiles, the choice of the heartbeat interval *)
(* and the identity check, which only replaces the noop; the callback      *)
(* OnRecv, which only moves a timeout.                                     *)
(***************************************************************************)
EXTENDS Selection

CONSTANTS
  Tasks,     \* task ids
  MaxConns,  \* bound of the model: connections that are started
  Heartbeats \* whether a heartbeat interval may pass

ASSUME MaxConnsAssumption == MaxConns \in Nat /\ Heartbeats \in BOOLEAN
ASSUME NoopAssumption == "noop" \notin Tasks

VARIABLES
  connectstatus_, disconnectinternalcode_,
  lstsenddata_,   \* requests to send; "begun" is data.Pos() # 0
  thread_,        \* where __Run is; "none" when thread_.isruning() is false
  errtype,        \* of __Run: "kEctOK" or "error"
  is_noop,        \* of __RunReadWrite: a noop waits for its answer
  conn,           \* connections started so far (history)
  server,         \* requests of this connection the server has not answered
  messages        \* what waits in the message queue, oldest first

linkVars == <<connectstatus_, disconnectinternalcode_, lstsenddata_, thread_, errtype,
              is_noop, conn, server, messages>>

Data    == [task : Tasks \cup {"noop"}, conn : 0..MaxConns, begun : BOOLEAN]
Post(m) == messages' = Append(messages, m)
On(type, t) == [type |-> type, task |-> t]
Signal  == [type |-> "kConnected"]
OnError == [type |-> "OnError"]

LinkInit ==
  /\ connectstatus_ = "kConnectIdle" /\ disconnectinternalcode_ = "kNone"
  /\ lstsenddata_ = <<>> /\ thread_ = "none" /\ errtype = "kEctOK" /\ is_noop = FALSE
  /\ conn = 0 /\ server = {} /\ messages = <<>>
-----------------------------------------------------------------------------
(* Calls, each under mutex_                                                *)

(* Send, while connected: the request goes to the end of the list.         *)
Send(t) ==
  /\ connectstatus_ = "kConnected"
  /\ lstsenddata_' = Append(lstsenddata_, [task |-> t, conn |-> conn, begun |-> FALSE])

(* Stop takes a request back that no byte was sent of.                     *)
Stop(t) == lstsenddata_' = Only(lstsenddata_, {d \in Members(lstsenddata_) : d.task # t \/ d.begun})

(* MakeSureConnected, and the reset for a new thread.  A thread that still *)
(* runs is left alone, even one that is about to end.                      *)
MakeSureConnected ==
  IF connectstatus_ # "kConnected" /\ thread_ = "none" /\ conn < MaxConns
  THEN /\ thread_' = "begin" /\ conn' = conn + 1
       /\ connectstatus_' = "kConnectIdle" /\ disconnectinternalcode_' = "kNone"
  ELSE UNCHANGED <<thread_, conn, connectstatus_, disconnectinternalcode_>>

(* Disconnect up to the release of mutex_; the join comes after it.        *)
DisconnectBegin ==
  /\ lstsenddata_' = <<>>
  /\ disconnectinternalcode_' = IF thread_ = "none" THEN disconnectinternalcode_ ELSE "set"
-----------------------------------------------------------------------------
(* The connection thread                                                   *)

Begin ==
  /\ thread_ = "begin" /\ thread_' = "connecting"
  /\ connectstatus_' = "kConnecting"
  /\ UNCHANGED <<disconnectinternalcode_, lstsenddata_, errtype, is_noop, conn, server, messages>>

(* No address: an error, even when the connection is being given up.       *)
NoAddress ==
  /\ thread_ = "connecting" /\ thread_' = "failed"
  /\ connectstatus_' = "kConnectFailed"
  /\ UNCHANGED <<disconnectinternalcode_, lstsenddata_, errtype, is_noop, conn, server, messages>>

ConnectFail ==
  /\ thread_ = "connecting"
  /\ thread_' = IF disconnectinternalcode_ = "kNone" THEN "failed" ELSE "ending"
  /\ connectstatus_' = "kConnectFailed"
  /\ UNCHANGED <<disconnectinternalcode_, lstsenddata_, errtype, is_noop, conn, server, messages>>

Connect ==
  /\ thread_ = "connecting" /\ thread_' = "rw"
  /\ connectstatus_' = "kConnected" /\ Post(Signal)
  /\ UNCHANGED <<disconnectinternalcode_, lstsenddata_, errtype, is_noop, conn, server>>

(* __NoopReq, when its interval is over: only if nothing else is to send.  *)
NoopReq ==
  /\ Heartbeats /\ thread_ = "rw" /\ ~is_noop /\ lstsenddata_ = <<>>
  /\ lstsenddata_' = <<[task |-> "noop", conn |-> conn, begun |-> FALSE]>>
  /\ is_noop' = TRUE
  /\ UNCHANGED <<connectstatus_, disconnectinternalcode_, thread_, errtype, conn, server, messages>>

(* OnSend for a request of which nothing was sent yet.                     *)
OnSend(d) == IF d.begun \/ d.task = "noop" THEN UNCHANGED messages ELSE Post(On("OnSend", d.task))

WriteAll ==
  /\ thread_ = "rw" /\ lstsenddata_ # <<>>
  /\ OnSend(Head(lstsenddata_))
  /\ lstsenddata_' = Tail(lstsenddata_) /\ server' = server \cup {Head(lstsenddata_).task}
  /\ UNCHANGED <<connectstatus_, disconnectinternalcode_, thread_, errtype, is_noop, conn>>

WritePart ==
  /\ thread_ = "rw" /\ lstsenddata_ # <<>> /\ ~Head(lstsenddata_).begun
  /\ OnSend(Head(lstsenddata_))
  /\ lstsenddata_' = [lstsenddata_ EXCEPT ![1].begun = TRUE]
  /\ UNCHANGED <<connectstatus_, disconnectinternalcode_, thread_, errtype, is_noop, conn, server>>

NoopResp ==
  /\ thread_ = "rw" /\ "noop" \in server
  /\ server' = server \ {"noop"} /\ is_noop' = FALSE
  /\ UNCHANGED <<connectstatus_, disconnectinternalcode_, lstsenddata_, thread_, errtype, conn, messages>>

Response(t) ==
  /\ thread_ = "rw" /\ t \in server
  /\ server' = server \ {t} /\ Post(On("OnResponse", t))
  /\ UNCHANGED <<connectstatus_, disconnectinternalcode_, lstsenddata_, thread_, errtype, is_noop, conn>>

(* A socket error, the end of the stream, a bad package, a noop timeout.   *)
Break ==
  /\ thread_ = "rw" /\ thread_' = "closing" /\ errtype' = "error"
  /\ UNCHANGED <<connectstatus_, disconnectinternalcode_, lstsenddata_, is_noop, conn, server, messages>>

(* select returned because of the break of Disconnect.                     *)
SeeDisconnect ==
  /\ thread_ = "rw" /\ disconnectinternalcode_ # "kNone" /\ thread_' = "closing"
  /\ UNCHANGED <<connectstatus_, disconnectinternalcode_, lstsenddata_, errtype, is_noop,
                 conn, server, messages>>

(* Wrong: nobody hears that the connection broke.                          *)
CloseSilently ==
  /\ thread_ = "closing" /\ errtype' = "kEctOK" /\ is_noop' = FALSE
  /\ thread_' = "ending" /\ connectstatus_' = "kDisConnected" /\ server' = {}
  /\ UNCHANGED <<disconnectinternalcode_, lstsenddata_, conn, messages>>

(* The locals of __RunReadWrite and __Run are gone after this.             *)
Close ==
  /\ thread_ = "closing" /\ errtype' = "kEctOK" /\ is_noop' = FALSE
  /\ thread_' = IF errtype = "kEctOK" THEN "ending" ELSE "failed"
  /\ connectstatus_' = "kDisConnected" /\ server' = {}
  /\ UNCHANGED <<disconnectinternalcode_, lstsenddata_, conn, messages>>

RunResponseError ==
  /\ thread_ = "failed" /\ thread_' = "ending"
  /\ lstsenddata_' = <<>> /\ Post(OnError)
  /\ UNCHANGED <<connectstatus_, disconnectinternalcode_, errtype, is_noop, conn, server>>

(* From here on isruning() is false.                                       *)
End ==
  /\ thread_ = "ending" /\ thread_' = "none"
  /\ UNCHANGED <<connectstatus_, disconnectinternalcode_, lstsenddata_, errtype, is_noop,
                 conn, server, messages>>

(* Steps the thread takes whatever the network does.                       *)
OwnStep == Begin \/ NoAddress \/ ConnectFail \/ Connect \/ SeeDisconnect \/ Close
           \/ RunResponseError \/ End

LinkThread == OwnStep \/ NoopReq \/ WriteAll \/ WritePart \/ NoopResp \/ Break
              \/ \E t \in Tasks : Response(t)
-----------------------------------------------------------------------------
LinkTypeOK ==
  /\ connectstatus_ \in {"kConnectIdle", "kConnecting", "kConnected", "kDisConnected", "kConnectFailed"}
  /\ disconnectinternalcode_ \in {"kNone", "set"}
  /\ lstsenddata_ \in Seq(Data)
  /\ thread_ \in {"none", "begin", "connecting", "rw", "closing", "failed", "ending"}
  /\ errtype \in {"kEctOK", "error"} /\ is_noop \in BOOLEAN
  /\ conn \in 0..MaxConns /\ server \subseteq Tasks \cup {"noop"}
=============================================================================
