----------------------------- MODULE PushSession -----------------------------
(***************************************************************************)
(* The life of an RTMP push session (librtmp/rtmp_ios.c): the JNI calls    *)
(* start and stop of the application, the work thread start_send with its  *)
(* connect attempts, the sending loop (PushBuffer has its inside) and the  *)
(* teardown, and what onStatusChange is told meanwhile.                    *)
(*                                                                         *)
(* A session is the number of its start.  The application is assumed to    *)
(* start the next one when the work thread of the last one has ended: JNI  *)
(* keeps one global pointer, and uninit frees what it points to.  That     *)
(* pthread_join waits for a thread nobody created (line 214) is taken to   *)
(* return at once.  An encoder's call is left out: it changes only queues. *)
(***************************************************************************)
EXTENDS Naturals

CONSTANTS
  MaxSessions,  \* bound of the model: how often the application starts
  MaxAttempts   \* attempts of RTMP_Connect_kk (8)

Sessions == 1..MaxSessions

ASSUME PushConstants == MaxSessions \in Nat /\ MaxAttempts \in Nat \ {0}

VARIABLES
  pConfig,   \* the JNI global: 0 for NULL, else the session it points to
  allocated, \* the sessions whose LIBRTMP is allocated
  config,    \* the sessions whose BufferConfig is allocated
  status,    \* status[s]: pConfig->state of s
  work,      \* work[s]: where the work thread of s is
  attempt,   \* attempt[s]: failed attempts of its connect
  flag,      \* RtmpManager.getFlag(): the encoders may put
  told, asked  \* what the listener heard, and stops of a sending session (history)

sessionVars == <<pConfig, allocated, config, status, work, attempt, flag, told, asked>>

SessionInit ==
  /\ pConfig = 0 /\ allocated = {} /\ config = {}
  /\ status = [s \in Sessions |-> "init_status"]
  /\ work = [s \in Sessions |-> "none"]
  /\ attempt = [s \in Sessions |-> 0]
  /\ flag = FALSE
  /\ told = [s \in Sessions |-> "init_status"]
  /\ asked = [s \in Sessions |-> 0]

Goto(s, place) == work' = [work EXCEPT ![s] = place]

(* MediaRecorderUtils.onStatusChange: the flag is up while packets are sent *)
Tell(s, code) ==
  /\ told' = [told EXCEPT ![s] = code]
  /\ flag' = (code \in {"send_status", "reconnect_success"})

Quiet == UNCHANGED <<told, flag>>
-----------------------------------------------------------------------------
(* The application                                                         *)

(* start and Librtmp_start; pthread_create may fail, which leaves a        *)
(* session without a thread that nobody frees.                             *)
Librtmp_start(s) ==
  /\ work[s] = "none" /\ \A r \in 1..(s - 1) : work[r] \in {"ended", "unborn"}
  /\ pConfig' = s
  /\ allocated' = allocated \cup {s} /\ config' = config \cup {s}
  /\ Goto(s, "begin") \/ Goto(s, "unborn")
  /\ Quiet /\ UNCHANGED <<status, attempt, asked>>

(* stop, Librtmp_Stop, StopSend: pConfig->state tells how to stop.  A      *)
(* second stop turns stop_send into disconnect_status.                     *)
StopSend ==
  /\ pConfig # 0 /\ pConfig \in config
  /\ status' = [status EXCEPT ![pConfig] =
                  IF @ = "send_status" THEN "stop_send" ELSE "disconnect_status"]
  /\ asked' = [asked EXCEPT ![pConfig] =
                 IF status[pConfig] = "send_status" THEN 1
                 ELSE IF work[pConfig] \in {"control", "reconnect", "stopped"} THEN 2 ELSE @]
  /\ Quiet /\ UNCHANGED <<pConfig, allocated, config, work, attempt>>
-----------------------------------------------------------------------------
(* connectRtmp                                                             *)

(* The state is overwritten, a stop's disconnect_status included.          *)
Report(s, code, place) ==
  /\ status' = [status EXCEPT ![s] = code]
  /\ Tell(s, code) /\ Goto(s, place)
  /\ UNCHANGED <<pConfig, allocated, config, attempt, asked>>

Move(s, from, to) ==
  /\ work[s] = from /\ Goto(s, to)
  /\ Quiet /\ UNCHANGED <<pConfig, allocated, config, status, attempt, asked>>

(* RTMP_Request_Access fails, or there is no need for it or it succeeds.   *)
RequestAccess(s) ==
  \/ work[s] = "begin" /\ Report(s, "connect_fail", "close")
  \/ Move(s, "begin", "connect")

(* RTMP_Connect_kk: an attempt fails, then RTMP_Init and a second of sleep. *)
AttemptFails(s) ==
  /\ work[s] = "connect"
  /\ attempt' = [attempt EXCEPT ![s] = @ + 1]
  /\ Goto(s, "again") /\ Quiet
  /\ UNCHANGED <<pConfig, allocated, config, status, asked>>

TryAgain(s) == attempt[s] < MaxAttempts /\ Move(s, "again", "connect")

(* All attempts failed, or RTMP_SetupURL refused the address.              *)
ConnectFail(s) ==
  /\ work[s] = "connect" \/ (work[s] = "again" /\ attempt[s] = MaxAttempts)
  /\ Report(s, "connect_fail", "close")

ConnectSuccess(s) == work[s] = "connect" /\ Report(s, "connect_success", "headers")

(* Chunk size, metadata and the AAC header are sent, or one of them fails. *)
SendHeaders(s) == Move(s, "headers", "check") \/ Move(s, "headers", "close")
-----------------------------------------------------------------------------
(* StartSend                                                               *)

(* The test is made without the lock, the change under it.                 *)
CheckState(s) ==
  \/ status[s] = "connect_success" /\ Move(s, "check", "start")
  \/ status[s] # "connect_success" /\ Move(s, "check", "close")

StartSend(s) == work[s] = "start" /\ Report(s, "send_status", "control")

(* Buffer_Control: RTMP_SendPacket_reconnect tells of its reconnects and   *)
(* gives up; the loop returns when it sees the stop, or silence.           *)
ReconnectBegin(s) ==
  /\ work[s] = "control" /\ Tell(s, "reconnect_begin") /\ Goto(s, "reconnect")
  /\ UNCHANGED <<pConfig, allocated, config, status, attempt, asked>>

ReconnectSuccess(s) ==
  /\ work[s] = "reconnect" /\ Tell(s, "reconnect_success") /\ Goto(s, "control")
  /\ UNCHANGED <<pConfig, allocated, config, status, attempt, asked>>

ReconnectFail(s) == Move(s, "reconnect", "stopped")

(* Wrong: the loop does not look at the state.                             *)
SeeStopNever(s) == FALSE /\ Move(s, "control", "stopped")

SeeStop(s) == status[s] # "send_status" /\ Move(s, "control", "stopped")
Silence(s) == Move(s, "control", "stopped")

(* Wrong: every end counts as abnormal.                                    *)
EndSendAbnormal(s) ==
  /\ work[s] = "stopped" /\ Tell(s, "stop_send_abnormal")
  /\ status' = [status EXCEPT ![s] = "disconnect_status"]
  /\ Goto(s, "close")
  /\ UNCHANGED <<pConfig, allocated, config, attempt, asked>>

EndSend(s) ==
  /\ work[s] = "stopped"
  /\ IF status[s] = "stop_send" THEN Quiet ELSE Tell(s, "stop_send_abnormal")
  /\ status' = [status EXCEPT ![s] = "disconnect_status"]
  /\ Goto(s, "close")
  /\ UNCHANGED <<pConfig, allocated, config, attempt, asked>>
-----------------------------------------------------------------------------
(* The rest of start_send                                                  *)

CloseRTMP(s) ==
  /\ work[s] = "close" /\ Goto(s, "free")
  /\ status' = [status EXCEPT ![s] = "disconnect_status"]
  /\ Quiet /\ UNCHANGED <<pConfig, allocated, config, attempt, asked>>

(* Wrong: the whole session is freed before its last callback.             *)
FreeBufferConfigAll(s) ==
  /\ work[s] = "free" /\ Goto(s, "tell")
  /\ config' = config \ {s} /\ allocated' = allocated \ {s}
  /\ Quiet /\ UNCHANGED <<pConfig, status, attempt, asked>>

FreeBufferConfig(s) ==
  /\ work[s] = "free" /\ Goto(s, "tell")
  /\ config' = config \ {s}
  /\ Quiet /\ UNCHANGED <<pConfig, allocated, status, attempt, asked>>

TellDisconnect(s) ==
  /\ work[s] = "tell" /\ Tell(s, "disconnect_status") /\ Goto(s, "relieve")
  /\ UNCHANGED <<pConfig, allocated, config, status, attempt, asked>>

(* relievebind is uninit: it frees what the global points to.              *)
Uninit(s) ==
  /\ work[s] = "relieve" /\ Goto(s, "ended")
  /\ allocated' = allocated \ {pConfig} /\ pConfig' = 0
  /\ Quiet /\ UNCHANGED <<config, status, attempt, asked>>
-----------------------------------------------------------------------------
Attempt(s) ==
  RequestAccess(s) \/ AttemptFails(s) \/ TryAgain(s) \/ ConnectFail(s) \/ ConnectSuccess(s)
Teardown(s) == CloseRTMP(s) \/ FreeBufferConfig(s) \/ TellDisconnect(s) \/ Uninit(s)
Loop(s)     == SeeStop(s) \/ ReconnectFail(s) \/ ReconnectSuccess(s)

Worker(s) ==
  \/ Attempt(s) \/ SendHeaders(s) \/ CheckState(s) \/ StartSend(s)
  \/ ReconnectBegin(s) \/ Silence(s) \/ Loop(s) \/ EndSend(s) \/ Teardown(s)

SessionNext == StopSend \/ \E s \in Sessions : Librtmp_start(s) \/ Worker(s)

SessionSpec == SessionInit /\ [][SessionNext]_sessionVars

(* The work thread never waits for another: attempts and sends end because *)
(* the sockets have timeouts.  A loop that looks at the state again and    *)
(* again sees the stop, whatever reconnects come between (strong).         *)
Prompt(s) == Attempt(s) \/ SendHeaders(s) \/ CheckState(s) \/ StartSend(s) \/ EndSend(s) \/ Teardown(s)

FairSession ==
  /\ SessionSpec
  /\ \A s \in Sessions : WF_sessionVars(Prompt(s)) /\ WF_sessionVars(Loop(s)) /\ SF_sessionVars(SeeStop(s))
-----------------------------------------------------------------------------
(* Properties                                                              *)

Places == {"none", "unborn", "begin", "connect", "again", "headers", "check", "start",
           "control", "reconnect", "stopped", "close", "free", "tell", "relieve", "ended"}
Statuses == {"init_status", "connect_fail", "connect_success", "send_status", "stop_send",
             "disconnect_status"}
Running(s) == work[s] \notin {"none", "unborn", "ended"}

(* Types; what a session has allocated follows from where its thread is.   *)
SessionTypeOK ==
  /\ pConfig \in 0..MaxSessions /\ allocated \subseteq Sessions /\ config \subseteq Sessions
  /\ status \in [Sessions -> Statuses] /\ work \in [Sessions -> Places]
  /\ attempt \in [Sessions -> 0..MaxAttempts]
  /\ flag \in BOOLEAN /\ asked \in [Sessions -> 0..2]

(* A running work thread owns the LIBRTMP it was given, up to its last     *)
(* callback, although uninit and the next start share one global pointer.  *)
ThreadOwnsSession ==
  /\ \A s \in Sessions : Running(s) => s \in allocated /\ pConfig = s
  /\ pConfig # 0 => pConfig \in allocated

(* The encoders are let through exactly while the last thing the listener  *)
(* heard of a session is that it sends, and never after its end.           *)
FlagHonest ==
  flag <=> \E s \in Sessions : told[s] \in {"send_status", "reconnect_success"}

(* Neither a freed session nor a closed connection is used.                *)
PushSafe == ThreadOwnsSession /\ FlagHonest

(* The listener hears of each session in order, of its end once and last,  *)
(* and of an abnormal end only when the user did not stop it (or did so    *)
(* twice: the second stop hides the first from StartSend, line 152).       *)
Life == INSTANCE SessionLife
ImplementsLife == Life!Spec

(* A stop of a sending session is not lost, whatever reconnects do         *)
(* meanwhile (one that comes while the session connects may be: Report).   *)
StopSticks ==
  [][\A s \in Sessions : asked[s] > 0 => status'[s] \in {"stop_send", "disconnect_status"}]_sessionVars

(* ... and it ends the session, down to the release of the global.         *)
StopEnds == \A s \in Sessions : asked[s] > 0 ~> work[s] = "ended"

(* Connecting is no endless matter: a started session sends or ends.       *)
ConnectEnds == \A s \in Sessions : work[s] = "begin" ~> work[s] \in {"control", "ended"}

(* A stop of a sending session is never undone and ends the session, and   *)
(* connecting ends as well.                                                *)
PushEnds == StopSticks /\ StopEnds /\ ConnectEnds
=============================================================================
