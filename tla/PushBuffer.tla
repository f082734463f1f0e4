------------------------------ MODULE PushBuffer ------------------------------
(***************************************************************************)
(* The sending loop of the RTMP pusher (librtmp/rtmp_thread.c, function    *)
(* Buffer_Control) between the two packet queues the encoder threads fill  *)
(* (rtmp_buffer.c) and a connection that may fail and is set up again by   *)
(* RTMP_SendPacket_reconnect (rtmp.c).                                     *)
(* The notification publish_audio_only is left out.                        *)
(*                                                                         *)
(* A packet is its kind, its timestamp, whether it is a key frame, and the *)
(* timestamp of the packet of its kind before it, to which it refers.      *)
(* Timestamps are ticks of a clock the encoders share: a packet is put at  *)
(* its own timestamp.  min_bitrate_status is 0: only speed_calculate sets  *)
(* it, and no thread runs speed_calculate (rtmp_ios.c, line 506).          *)
(***************************************************************************)
EXTENDS Integers, Sequences

CONSTANTS
  MaxDelay,  \* iMaxDelay
  WaitTime,  \* iWaitTime / 10: rounds of the wait loop without data
  TryTime,   \* try_time: attempts of one reconnect
  MaxTime    \* bound of the model, not of the code

ASSUME ConstantsAssumption ==
  /\ MaxDelay \in Nat \ {0} /\ WaitTime \in Nat \ {0} /\ TryTime \in Nat
  /\ MaxTime \in Nat

Kinds  == {"video", "audio"}
Packet == [kind : Kinds, ts : 1..MaxTime, key : BOOLEAN, prev : 0..MaxTime]
None   == [kind |-> "none", ts |-> 0, key |-> FALSE, prev |-> 0]  \* NULL

VARIABLES
  now,            \* the clock of the encoders
  buffer,         \* buffer[k]: pVideoBuffer, pAudioBuffer
  iLast_frame_time, iLast_i_frame_time,  \* per kind
  state,          \* pConfig->state: "send_status", "stop_send"
  pc, back,       \* where the sender is; where it goes after a send
  node,           \* node[k]: pVideoNode, pAudioNode
  pSendPacket, iCurrentTime, iLastTime, iWaitTime,
  fail_num,       \* attempts of the reconnect in progress
  sent,           \* sent[k]: packets given to the server (history)
  result          \* why Buffer_Control returned

producer == <<now, buffer, iLast_frame_time, iLast_i_frame_time>>
vars == <<now, buffer, iLast_frame_time, iLast_i_frame_time, state, pc, back, node,
          pSendPacket, iCurrentTime, iLastTime, iWaitTime, fail_num, sent, result>>

Init ==
  /\ now = 0
  /\ buffer = [k \in Kinds |-> <<>>]
  /\ iLast_frame_time = [k \in Kinds |-> 0] /\ iLast_i_frame_time = [k \in Kinds |-> 0]
  /\ state = "send_status"
  /\ pc = "fetchVideo" /\ back = "top"
  /\ node = [k \in Kinds |-> None] /\ pSendPacket = None
  /\ iCurrentTime = 0 /\ iLastTime = 0 /\ iWaitTime = -1
  /\ fail_num = 0
  /\ sent = [k \in Kinds |-> <<>>]
  /\ result = "none"
-----------------------------------------------------------------------------
(* The encoder threads, and the user                                       *)

(* Time passes, while the sender sends, waits or takes packets out: a tick *)
(* is far longer than the few instructions that judge a packet.            *)
Tick ==
  /\ now < MaxTime
  /\ pc \notin {"measure", "late"}
  /\ now' = now + 1
  /\ UNCHANGED <<buffer, iLast_frame_time, iLast_i_frame_time, state, pc, back, node,
                 pSendPacket, iCurrentTime, iLastTime, iWaitTime, fail_num, sent, result>>

(* Librtmp_PutVideoBuffer, Librtmp_PutAudioBuffer: nothing is taken unless *)
(* the session sends; RTMP_Put_Buffer appends under the lock of the queue. *)
(* An audio packet counts as a key frame.  An encoder begins with one.     *)
Put(k, key) ==
  /\ state = "send_status" /\ iLast_frame_time[k] < now
  /\ k = "audio" \/ iLast_frame_time[k] = 0 => key
  /\ buffer' = [buffer EXCEPT ![k] = Append(@, [
                  kind |-> k, ts |-> now, key |-> key, prev |-> iLast_frame_time[k]])]
  /\ iLast_frame_time' = [iLast_frame_time EXCEPT ![k] = now]
  /\ iLast_i_frame_time' = IF key THEN [iLast_i_frame_time EXCEPT ![k] = now]
                                  ELSE iLast_i_frame_time
  /\ UNCHANGED <<now, state, pc, back, node, pSendPacket, iCurrentTime, iLastTime,
                 iWaitTime, fail_num, sent, result>>

(* Librtmp_Stop while the session sends.                                   *)
StopSend ==
  /\ state = "send_status"
  /\ state' = "stop_send"
  /\ UNCHANGED <<producer, pc, back, node, pSendPacket, iCurrentTime, iLastTime,
                 iWaitTime, fail_num, sent, result>>
-----------------------------------------------------------------------------
(* Wrong: the packet put last.                                             *)
GetNewest(k) ==
  LET q == buffer[k] IN
  IF q = <<>> THEN node' = [node EXCEPT ![k] = None] /\ UNCHANGED buffer
  ELSE /\ node' = [node EXCEPT ![k] = q[Len(q)]]
       /\ buffer' = [buffer EXCEPT ![k] = SubSeq(q, 1, Len(q) - 1)]

(* RTMP_Get_Buffer: node[k] becomes the oldest packet of the queue, or NULL *)
Get(k) ==
  IF buffer[k] = <<>> THEN node' = [node EXCEPT ![k] = None] /\ UNCHANGED buffer
  ELSE /\ node' = [node EXCEPT ![k] = Head(buffer[k])]
       /\ buffer' = [buffer EXCEPT ![k] = Tail(@)]

(* Both queues are read before the loop (iWaitTime = -1 stands for that)   *)
(* and in each round of the wait loop.                                     *)
FetchVideo ==
  /\ pc = "fetchVideo" /\ pc' = "fetchAudio"
  /\ Get("video")
  /\ UNCHANGED <<now, iLast_frame_time, iLast_i_frame_time, state, back, pSendPacket,
                 iCurrentTime, iLastTime, iWaitTime, fail_num, sent, result>>

(* Wrong: the rounds are not counted.                                      *)
FetchAudioNoCount ==
  /\ pc = "fetchAudio" /\ pc' = "top"
  /\ Get("audio") /\ iWaitTime' = 0
  /\ UNCHANGED <<now, iLast_frame_time, iLast_i_frame_time, state, back, pSendPacket,
                 iCurrentTime, iLastTime, fail_num, sent, result>>

FetchAudio ==
  /\ pc = "fetchAudio" /\ pc' = "top"
  /\ Get("audio") /\ iWaitTime' = iWaitTime + 1
  /\ UNCHANGED <<now, iLast_frame_time, iLast_i_frame_time, state, back, pSendPacket,
                 iCurrentTime, iLastTime, fail_num, sent, result>>

NoData == node["video"] = None /\ node["audio"] = None

Wait ==
  /\ pc = "top" /\ NoData /\ iWaitTime < WaitTime /\ state = "send_status"
  /\ pc' = "fetchVideo"
  /\ UNCHANGED <<producer, state, back, node, pSendPacket, iCurrentTime, iLastTime,
                 iWaitTime, fail_num, sent, result>>

Return(why) ==
  /\ pc' = "done" /\ result' = why
  /\ UNCHANGED <<producer, state, back, node, pSendPacket, iCurrentTime, iLastTime,
                 iWaitTime, fail_num, sent>>

(* The rounds are used up, whatever the last one fetched.                  *)
GiveUp == pc = "top" /\ iWaitTime >= WaitTime /\ Return("no_data")

SeeStop == pc = "top" /\ iWaitTime < WaitTime /\ state # "send_status" /\ Return("stopped")

(* Wrong: a queue without look-ahead is taken for one with an old packet.  *)
OlderUnchecked ==
  IF node["audio"] = None \/ node["video"].ts < node["audio"].ts THEN "video" ELSE "audio"

(* The packet with the smaller timestamp, audio first when they are equal; *)
(* only the queue it came from is read again.                              *)
Older ==
  IF node["audio"] = None \/ (node["video"] # None /\ node["video"].ts < node["audio"].ts)
  THEN "video" ELSE "audio"

Pick ==
  /\ pc = "top" /\ ~NoData /\ iWaitTime < WaitTime /\ state = "send_status"
  /\ pc' = "measure" /\ iWaitTime' = 0
  /\ pSendPacket' = node[Older]
  /\ Get(Older)
  /\ UNCHANGED <<now, iLast_frame_time, iLast_i_frame_time, state, back,
                 iCurrentTime, iLastTime, fail_num, sent, result>>

(* How late the packet is against the newest one that was put.             *)
Measure ==
  /\ pc = "measure"
  /\ iCurrentTime' = IF iLast_frame_time["video"] > iLast_frame_time["audio"]
                     THEN iLast_frame_time["video"] ELSE iLast_frame_time["audio"]
  /\ pc' = IF iCurrentTime' < MaxDelay + pSendPacket.ts THEN "send" ELSE "late"
  /\ UNCHANGED <<producer, state, back, node, pSendPacket, iLastTime, iWaitTime,
                 fail_num, sent, result>>

(* Too late: sent all the same when no key frame is newer; otherwise it is *)
(* given up (freed when the skipping ends) and the sender goes on to that  *)
(* key frame.                                                              *)
Late ==
  /\ pc = "late"
  /\ iLastTime' = iLast_i_frame_time["video"]
  /\ IF iLastTime' <= pSendPacket.ts THEN pc' = "send" /\ UNCHANGED pSendPacket
                                     ELSE pc' = "skipVideo" /\ pSendPacket' = None
  /\ UNCHANGED <<producer, state, back, node, iCurrentTime, iWaitTime, fail_num, sent, result>>
-----------------------------------------------------------------------------
(* The two loops of the skipping: drop what is older than the key frame,   *)
(* send the first packet that is not, and read the queue once more.        *)
(* Wrong: the key frame itself is dropped.                                 *)
KeepsPast(p) == p.ts > iLastTime
Keeps(p) == p.ts >= iLastTime

SkipDrop(k, at) ==
  /\ pc = at /\ node[k] # None /\ ~Keeps(node[k])
  /\ Get(k)
  /\ UNCHANGED <<now, iLast_frame_time, iLast_i_frame_time, state, pc, back, pSendPacket,
                 iCurrentTime, iLastTime, iWaitTime, fail_num, sent, result>>

SkipSend(k, at, refetch) ==
  /\ pc = at /\ node[k] # None /\ Keeps(node[k])
  /\ pSendPacket' = node[k] /\ node' = [node EXCEPT ![k] = None]
  /\ pc' = "send" /\ back' = refetch
  /\ UNCHANGED <<producer, state, iCurrentTime, iLastTime, iWaitTime, fail_num, sent, result>>

SkipEnd(k, at, next) ==
  /\ pc = at /\ node[k] = None /\ pc' = next
  /\ UNCHANGED <<producer, state, back, node, pSendPacket, iCurrentTime, iLastTime,
                 iWaitTime, fail_num, sent, result>>

Refetch(k, at, next) ==
  /\ pc = at /\ pc' = next /\ back' = "top"
  /\ Get(k)
  /\ UNCHANGED <<now, iLast_frame_time, iLast_i_frame_time, state, pSendPacket,
                 iCurrentTime, iLastTime, iWaitTime, fail_num, sent, result>>

SkipVideo == \/ SkipDrop("video", "skipVideo")
             \/ SkipSend("video", "skipVideo", "refetchVideo")
             \/ SkipEnd("video", "skipVideo", "skipAudio")
             \/ Refetch("video", "refetchVideo", "skipAudio")

SkipAudio == \/ SkipDrop("audio", "skipAudio")
             \/ SkipSend("audio", "skipAudio", "refetchAudio")
             \/ SkipEnd("audio", "skipAudio", "top")
             \/ Refetch("audio", "refetchAudio", "top")
-----------------------------------------------------------------------------
(* RTMP_SendPacket_reconnect                                               *)

Delivered ==
  /\ sent' = [sent EXCEPT ![pSendPacket.kind] = Append(@, pSendPacket)]
  /\ pSendPacket' = None /\ fail_num' = 0 /\ pc' = back
  /\ UNCHANGED <<producer, state, back, node, iCurrentTime, iLastTime, iWaitTime, result>>

SendPacket == pc = "send" /\ Delivered

(* reconnect_begin.                                                        *)
SendFail ==
  /\ pc = "send" /\ pc' = "reconnect"
  /\ UNCHANGED <<producer, state, back, node, pSendPacket, iCurrentTime, iLastTime,
                 iWaitTime, fail_num, sent, result>>

(* One attempt: it looks at the state after a second of sleep, connects,   *)
(* sends the headers and the packet again.                                 *)
ReconnectSuccess == pc = "reconnect" /\ fail_num < TryTime /\ state = "send_status" /\ Delivered

ReconnectFail ==
  /\ pc = "reconnect" /\ fail_num < TryTime /\ state = "send_status"
  /\ fail_num' = fail_num + 1
  /\ UNCHANGED <<producer, state, pc, back, node, pSendPacket, iCurrentTime, iLastTime,
                 iWaitTime, sent, result>>

ReconnectEnd ==
  /\ pc = "reconnect" /\ (fail_num >= TryTime \/ state # "send_status")
  /\ Return("send_failed")
-----------------------------------------------------------------------------
Sender ==
  \/ FetchVideo \/ FetchAudio \/ Wait \/ GiveUp \/ SeeStop \/ Pick \/ Measure \/ Late
  \/ SkipVideo \/ SkipAudio
  \/ SendPacket \/ SendFail \/ ReconnectSuccess \/ ReconnectFail \/ ReconnectEnd

Next == Tick \/ (\E k \in Kinds, key \in BOOLEAN : Put(k, key)) \/ StopSend \/ Sender

Spec == Init /\ [][Next]_vars

(* The sender is a thread of its own that sleeps, never waits for a lock   *)
(* held across a step; the encoders, the user and the network promise      *)
(* nothing.                                                                *)
FairSpec == Spec /\ WF_vars(Sender)
-----------------------------------------------------------------------------
(* Properties                                                              *)

Places == {"fetchVideo", "fetchAudio", "top", "measure", "late", "send", "skipVideo",
           "refetchVideo", "skipAudio", "refetchAudio", "reconnect", "done"}

(* Types; a packet to send is held exactly where one is looked at, and the *)
(* look-ahead of a kind holds a packet of that kind.                       *)
TypeOK ==
  /\ now \in 0..MaxTime
  /\ buffer \in [Kinds -> Seq(Packet)] /\ sent \in [Kinds -> Seq(Packet)]
  /\ iLast_frame_time \in [Kinds -> 0..MaxTime]
  /\ iLast_i_frame_time \in [Kinds -> 0..MaxTime]
  /\ state \in {"send_status", "stop_send"} /\ pc \in Places
  /\ back \in {"top", "refetchVideo", "refetchAudio"}
  /\ \A k \in Kinds : node[k] # None => node[k] \in Packet /\ node[k].kind = k
  /\ pSendPacket # None <=> pc \in {"measure", "late", "send", "reconnect"} \/ result = "send_failed"
  /\ pSendPacket \in Packet \cup {None}
  /\ iCurrentTime \in 0..MaxTime /\ iLastTime \in 0..MaxTime
  /\ iWaitTime \in -1..WaitTime /\ fail_num \in 0..TryTime
  /\ result \in {"none", "no_data", "stopped", "send_failed"}

(* Per kind, a packet is delivered once or not at all and never after a    *)
(* later one, through look-ahead, skipping, failure and reconnect.         *)
Held(p, k) == IF p.kind = k THEN <<p>> ELSE <<>>
Waiting(k) == Held(pSendPacket, k) \o Held(node[k], k) \o buffer[k]
Video == INSTANCE LossyStream WITH waiting <- Waiting("video"), delivered <- sent["video"]
Audio == INSTANCE LossyStream WITH waiting <- Waiting("audio"), delivered <- sent["audio"]
VideoStream == Video!Spec
AudioStream == Audio!Spec
Streams == VideoStream /\ AudioStream

(* Dropping leaves the pictures decodable: a frame that is not a key frame *)
(* is only sent when the frame before it was the last one sent.            *)
GOPIntact ==
  \A i \in DOMAIN sent["video"] :
    \/ sent["video"][i].key
    \/ i > 1 /\ sent["video"][i - 1].ts = sent["video"][i].prev

(* A stop ends the sending, and so does the silence of the encoders (in a  *)
(* run they fall silent at MaxTime): no wait and no reconnect is endless.  *)
StopHonoured == state = "stop_send" ~> pc = "done"
SilenceEnds  == <>(pc = "done")
LoopEnds     == StopHonoured /\ SilenceEnds
=============================================================================
