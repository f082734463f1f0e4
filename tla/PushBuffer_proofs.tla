--------------------------- MODULE PushBuffer_proofs ---------------------------
(***************************************************************************)
(* Proofs about the sending loop of the pusher: its types, that each kind  *)
(* of packets is a LossyStream, and that what is sent of the pictures can  *)
(* be decoded.  The argument looks at the packets of one kind that wait,   *)
(* Waiting(k): the one to send, the look-ahead, the queue, in this order.  *)
(***************************************************************************)
EXTENDS PushBuffer, SequenceTheorems, TLAPS

Of(k)      == {p \in Packet : p.kind = k}
Judging    == {"measure", "late"}
Sending    == {"send", "reconnect"}

(* The place of the sender tells what it holds: a packet while it judges   *)
(* or sends one, no look-ahead where a queue is about to be read.          *)
PlaceInv ==
  /\ pc = "fetchVideo" => NoData
  /\ pc = "fetchAudio" => node["audio"] = None
  /\ pc \in {"fetchVideo", "fetchAudio"} => iWaitTime < WaitTime
  /\ back = "refetchVideo" => node["video"] = None
  /\ back = "refetchAudio" => node["audio"] = None
  /\ back # "top" => pc \in Sending \cup {back, "done"}
  /\ pc \in {"refetchVideo", "refetchAudio"} => back = pc
  /\ result # "none" => pc = "done"

Clocks ==
  \A k \in Kinds : iLast_i_frame_time[k] <= iLast_frame_time[k] /\ iLast_frame_time[k] <= now

TypeInv ==
  /\ TypeOK
  /\ \A k \in Kinds : buffer[k] \in Seq(Of(k))
  /\ node \in [Kinds -> Packet \cup {None}]
  /\ PlaceInv
  /\ Clocks

(* The frames w that wait refer to one another, up to the last one put.    *)
Chain(w, last) ==
  /\ \A i \in 1..Len(w) - 1 : w[i + 1].prev = w[i].ts
  /\ \A i, j \in 1..Len(w) : i < j => w[i].ts < w[j].ts
  /\ w # <<>> => w[Len(w)].ts = last

(* A key frame put at t is still among them, unless all of them are newer. *)
HasKey(w, t)  == \E j \in 1..Len(w) : w[j].ts = t /\ w[j].key
Reached(w, t) == w # <<>> /\ w[1].ts <= t => HasKey(w, t)

(* The next frame can be sent after s was.                                 *)
Joined(w, s, last) ==
  IF w = <<>> THEN IF s = <<>> THEN last = 0 ELSE s[Len(s)].ts = last
              ELSE w[1].key \/ (s # <<>> /\ s[Len(s)].ts = w[1].prev)

(* Skipping may break the line of frames, but only before the key frame it *)
(* leads to.  A packet judged too late was the last of its queue only when *)
(* a key frame alone has been put behind it, for no time has passed.       *)
LinkInv ==
  /\ Chain(Waiting("video"), iLast_frame_time["video"])
  /\ Reached(Waiting("video"), iLast_i_frame_time["video"])
  /\ pc = "skipVideo" =>
       iLastTime <= iLast_frame_time["video"] /\ Reached(Waiting("video"), iLastTime)
  /\ \/ Joined(Waiting("video"), sent["video"], iLast_frame_time["video"])
     \/ pc = "skipVideo" /\ node["video"] # None /\ node["video"].ts <= iLastTime
  /\ pc \in Judging /\ pSendPacket.kind = "video" /\ node["video"] = None =>
       \/ buffer["video"] = <<>>
       \/ Len(buffer["video"]) = 1 /\ iLast_frame_time["video"] = now
-----------------------------------------------------------------------------
(* Types                                                                   *)

LEMMA NoneIsNoPacket == None \notin Packet /\ \A k \in Kinds : None.kind # k
  BY DEF None, Packet, Kinds

(* What RTMP_Get_Buffer does to one queue.                                 *)
LEMMA GetTypes ==
  ASSUME TypeInv, NEW k \in Kinds, Get(k)
  PROVE  /\ buffer' \in [Kinds -> Seq(Packet)]
         /\ node' \in [Kinds -> Packet \cup {None}]
         /\ \A j \in Kinds : buffer'[j] \in Seq(Of(j))
         /\ \A j \in Kinds : node'[j] # None => node'[j] \in Packet /\ node'[j].kind = j
         /\ \A j \in Kinds \ {k} : buffer'[j] = buffer[j] /\ node'[j] = node[j]
         /\ IF buffer[k] = <<>> THEN node'[k] = None /\ buffer'[k] = <<>>
            ELSE node'[k] = Head(buffer[k]) /\ buffer'[k] = Tail(buffer[k])
<1>1. CASE buffer[k] = <<>>
  BY <1>1 DEF TypeInv, TypeOK, Get
<1>2. CASE buffer[k] # <<>>
  <2>1. buffer[k] \in Seq(Of(k)) /\ buffer[k] \in Seq(Packet)
    BY DEF TypeInv, TypeOK
  <2>2. Head(buffer[k]) \in Of(k) /\ Tail(buffer[k]) \in Seq(Of(k)) /\ Tail(buffer[k]) \in Seq(Packet)
    BY <2>1, <1>2, HeadTailProperties
  <2>3. Head(buffer[k]) \in Packet /\ Head(buffer[k]).kind = k
    BY <2>2 DEF Of
  <2>4. /\ node' = [node EXCEPT ![k] = Head(buffer[k])]
        /\ buffer' = [buffer EXCEPT ![k] = Tail(buffer[k])]
    BY <1>2 DEF Get
  <2> HIDE DEF Get
  <2>5. QED
    BY <1>2, <2>2, <2>3, <2>4 DEF TypeInv, TypeOK
<1>3. QED
  BY <1>1, <1>2

LEMMA InitTypes == Init => TypeInv
<1>1. <<>> \in Seq(Packet) /\ \A k \in Kinds : <<>> \in Seq(Of(k))
  BY EmptySeq
<1>2. QED
  BY <1>1, ConstantsAssumption, NoneIsNoPacket
  DEF Init, TypeInv, TypeOK, Places, PlaceInv, Clocks, NoData, Sending, Kinds

LEMMA PutTypes ==
  ASSUME TypeInv, NEW k \in Kinds, NEW key \in BOOLEAN, Put(k, key)
  PROVE  TypeInv'
<1> DEFINE p == [kind |-> k, ts |-> now, key |-> key, prev |-> iLast_frame_time[k]]
<1>1. p \in Packet /\ p \in Of(k)
  BY ConstantsAssumption DEF Put, TypeInv, TypeOK, Packet, Of
<1>2. buffer' = [buffer EXCEPT ![k] = Append(@, p)]
  BY DEF Put
<1>3. Append(buffer[k], p) \in Seq(Packet) /\ Append(buffer[k], p) \in Seq(Of(k))
  BY <1>1, AppendProperties DEF TypeInv, TypeOK
<1> HIDE DEF p
<1>4. buffer' \in [Kinds -> Seq(Packet)] /\ \A j \in Kinds : buffer'[j] \in Seq(Of(j))
  BY <1>2, <1>3 DEF TypeInv, TypeOK
<1>5. /\ iLast_frame_time' \in [Kinds -> 0..MaxTime]
      /\ iLast_i_frame_time' \in [Kinds -> 0..MaxTime]
      /\ Clocks'
  BY DEF Put, TypeInv, TypeOK, Clocks
<1>6. QED
  BY <1>4, <1>5 DEF Put, TypeInv, TypeOK, PlaceInv, NoData

LEMMA GettingTypes ==
  ASSUME TypeInv,
         \/ FetchVideo \/ FetchAudio \/ Pick
         \/ SkipDrop("video", "skipVideo") \/ SkipDrop("audio", "skipAudio")
         \/ Refetch("video", "refetchVideo", "skipAudio") \/ Refetch("audio", "refetchAudio", "top")
  PROVE  TypeInv'
<1>1. CASE FetchVideo
  BY <1>1, GetTypes, NoneIsNoPacket, ConstantsAssumption
  DEF FetchVideo, TypeInv, TypeOK, Places, PlaceInv, Clocks, NoData, Kinds, Sending
<1>2. CASE FetchAudio
  BY <1>2, GetTypes, NoneIsNoPacket, ConstantsAssumption
  DEF FetchAudio, TypeInv, TypeOK, Places, PlaceInv, Clocks, NoData, Kinds, Sending
<1>3. CASE Pick
  <2>1. Older \in Kinds /\ node[Older] # None
    BY <1>3 DEF Pick, Older, NoData, Kinds
  <2>2. QED
    BY <1>3, <2>1, GetTypes, NoneIsNoPacket, ConstantsAssumption
    DEF Pick, TypeInv, TypeOK, Places, PlaceInv, Clocks, NoData, Kinds, Sending
<1>4. CASE SkipDrop("video", "skipVideo")
  BY <1>4, GetTypes, NoneIsNoPacket, ConstantsAssumption
  DEF SkipDrop, TypeInv, TypeOK, Places, PlaceInv, Clocks, NoData, Kinds, Sending
<1>5. CASE SkipDrop("audio", "skipAudio")
  BY <1>5, GetTypes, NoneIsNoPacket, ConstantsAssumption
  DEF SkipDrop, TypeInv, TypeOK, Places, PlaceInv, Clocks, NoData, Kinds, Sending
<1>6. CASE Refetch("video", "refetchVideo", "skipAudio")
  BY <1>6, GetTypes, NoneIsNoPacket, ConstantsAssumption
  DEF Refetch, TypeInv, TypeOK, Places, PlaceInv, Clocks, NoData, Kinds, Sending
<1>7. CASE Refetch("audio", "refetchAudio", "top")
  BY <1>7, GetTypes, NoneIsNoPacket, ConstantsAssumption
  DEF Refetch, TypeInv, TypeOK, Places, PlaceInv, Clocks, NoData, Kinds, Sending
<1>8. QED
  BY <1>1, <1>2, <1>3, <1>4, <1>5, <1>6, <1>7

LEMMA DeliveredTypes ==
  ASSUME TypeInv, pc \in Sending, Delivered
  PROVE  TypeInv'
<1>1. pSendPacket \in Packet /\ pSendPacket.kind \in Kinds
  BY DEF TypeInv, TypeOK, Sending, Packet
<1>2. Append(sent[pSendPacket.kind], pSendPacket) \in Seq(Packet)
  BY <1>1, AppendProperties DEF TypeInv, TypeOK
<1>3. sent' \in [Kinds -> Seq(Packet)]
  BY <1>1, <1>2 DEF Delivered, TypeInv, TypeOK
<1>4. QED
  BY <1>3, ConstantsAssumption
  DEF Delivered, TypeInv, TypeOK, Sending, Places, PlaceInv, Clocks, NoData, producer

LEMMA OtherTypes ==
  ASSUME TypeInv,
         \/ Tick \/ StopSend \/ Wait \/ GiveUp \/ SeeStop \/ Measure \/ Late
         \/ SendFail \/ ReconnectFail \/ ReconnectEnd
  PROVE  TypeInv'
<1> USE ConstantsAssumption, NoneIsNoPacket
    DEF TypeInv, TypeOK, Places, PlaceInv, Clocks, NoData, Kinds, Sending, producer, Return
<1>1. CASE Tick
  BY <1>1 DEF Tick
<1>2. CASE StopSend
  BY <1>2 DEF StopSend
<1>3. CASE Wait
  BY <1>3 DEF Wait
<1>4. CASE GiveUp
  BY <1>4 DEF GiveUp
<1>5. CASE SeeStop
  BY <1>5 DEF SeeStop
<1>6. CASE Measure
  BY <1>6 DEF Measure
<1>7. CASE Late
  BY <1>7 DEF Late
<1>8. CASE SendFail
  BY <1>8 DEF SendFail
<1>9. CASE ReconnectFail
  BY <1>9 DEF ReconnectFail
<1>10. CASE ReconnectEnd
  BY <1>10 DEF ReconnectEnd
<1>11. QED
  BY <1>1, <1>2, <1>3, <1>4, <1>5, <1>6, <1>7, <1>8, <1>9, <1>10

LEMMA SkippingTypes ==
  ASSUME TypeInv,
         \/ SkipSend("video", "skipVideo", "refetchVideo")
         \/ SkipSend("audio", "skipAudio", "refetchAudio")
         \/ SkipEnd("video", "skipVideo", "skipAudio") \/ SkipEnd("audio", "skipAudio", "top")
  PROVE  TypeInv'
<1> USE ConstantsAssumption, NoneIsNoPacket
    DEF TypeInv, TypeOK, Places, PlaceInv, Clocks, NoData, Kinds, Sending, producer
<1>1. CASE SkipSend("video", "skipVideo", "refetchVideo")
  BY <1>1 DEF SkipSend
<1>2. CASE SkipSend("audio", "skipAudio", "refetchAudio")
  BY <1>2 DEF SkipSend
<1>3. CASE SkipEnd("video", "skipVideo", "skipAudio")
  BY <1>3 DEF SkipEnd
<1>4. CASE SkipEnd("audio", "skipAudio", "top")
  BY <1>4 DEF SkipEnd
<1>5. QED
  BY <1>1, <1>2, <1>3, <1>4

LEMMA NextTypes == TypeInv /\ [Next]_vars => TypeInv'
<1> SUFFICES ASSUME TypeInv, [Next]_vars PROVE TypeInv'
  OBVIOUS
<1>1. CASE UNCHANGED vars
  BY <1>1 DEF vars, TypeInv, TypeOK, PlaceInv, Clocks, NoData
<1>2. CASE Next
  BY <1>2, PutTypes, GettingTypes, DeliveredTypes, OtherTypes, SkippingTypes
  DEF Next, Sender, SkipVideo, SkipAudio, SendPacket, ReconnectSuccess, Sending
<1>3. QED
  BY <1>1, <1>2

LEMMA TypeInvariant == Spec => []TypeInv
<1>1. QED
  BY InitTypes, NextTypes, PTL DEF Spec

(* The sender holds a packet to send exactly where it looks at one, the    *)
(* look-ahead of a queue is a packet of its kind, and every number stays   *)
(* in its range, for any size of the constants.                            *)
THEOREM PushTypes == Spec => []TypeOK
<1>1. TypeInv => TypeOK
  BY DEF TypeInv
<1>2. QED
  BY <1>1, TypeInvariant, PTL
-----------------------------------------------------------------------------
(* What a step does to the packets of one kind                             *)

LEMMA OneFirst ==
  ASSUME NEW S, NEW p \in S, NEW q \in Seq(S)
  PROVE  <<p>> \o q \in Seq(S) /\ <<p>> \o q # <<>> /\ Head(<<p>> \o q) = p /\ Tail(<<p>> \o q) = q
<1>1. <<p>> \in Seq(S) /\ Len(<<p>>) = 1 /\ <<p>>[1] = p
  OBVIOUS
<1>2. /\ <<p>> \o q \in Seq(S)
      /\ Len(<<p>> \o q) = 1 + Len(q)
      /\ \A i \in 1..1 + Len(q) : (<<p>> \o q)[i] = IF i <= 1 THEN p ELSE q[i - 1]
  BY <1>1, ConcatProperties
<1>3. <<p>> \o q # <<>> /\ Head(<<p>> \o q) = p
  BY <1>2, LenProperties
<1>4. /\ Tail(<<p>> \o q) \in Seq(S)
      /\ Len(Tail(<<p>> \o q)) = Len(q)
      /\ \A i \in 1..Len(q) : Tail(<<p>> \o q)[i] = q[i]
  BY <1>2, <1>3, HeadTailProperties, LenProperties
<1>5. Tail(<<p>> \o q) = q
  BY <1>4, SeqEqual
<1>6. QED
  BY <1>2, <1>3, <1>5

LEMMA AppendLast ==
  ASSUME NEW S, NEW s \in Seq(S), NEW q \in Seq(S), NEW x \in S
  PROVE  s \o Append(q, x) = Append(s \o q, x)
<1>1. Append(q, x) = q \o <<x>> /\ <<x>> \in Seq(S) /\ s \o q \in Seq(S)
  BY AppendIsConcat, ConcatProperties
<1>2. QED
  BY <1>1, AppendIsConcat, ConcatAssociative

(* The packets of kind k among one to send (p), a look-ahead (n) and a     *)
(* queue (q), and the last two of them.                                    *)
Row(p, n, q, k) == Held(p, k) \o Held(n, k) \o q
Rest(n, q, k)   == Held(n, k) \o q
Ahead(k)        == Rest(node[k], buffer[k], k)

(* A row w of p, n and q whose last two are a.                             *)
Split(w, a, p, n, q, k) ==
  /\ w \in Seq(Packet) /\ a \in Seq(Packet)
  /\ w = Held(p, k) \o a
  /\ p.kind # k => w = a
  /\ p.kind = k => w # <<>> /\ Head(w) = p /\ Tail(w) = a
  /\ n = None => a = q
  /\ n # None => a # <<>> /\ Head(a) = n /\ Tail(a) = q

LEMMA RowParts ==
  ASSUME NEW k \in Kinds, NEW q \in Seq(Packet),
         NEW p \in Packet \cup {None}, NEW n \in Packet \cup {None}, n # None => n.kind = k
  PROVE  Split(Row(p, n, q, k), Rest(n, q, k), p, n, q, k)
<1>1. Held(p, k) \in Seq(Packet) /\ Held(n, k) \in Seq(Packet)
  BY NoneIsNoPacket DEF Held
<1>2. Rest(n, q, k) \in Seq(Packet)
  BY <1>1, ConcatProperties DEF Rest
<1>3. Row(p, n, q, k) = Held(p, k) \o Rest(n, q, k)
  BY <1>1, ConcatAssociative DEF Row, Rest
<1>4. Row(p, n, q, k) \in Seq(Packet)
  BY <1>1, <1>2, <1>3, ConcatProperties
<1>5. p.kind # k => Row(p, n, q, k) = Rest(n, q, k)
  BY <1>2, <1>3, ConcatEmptySeq DEF Held
<1>6. p.kind = k => p \in Packet /\ Row(p, n, q, k) = <<p>> \o Rest(n, q, k)
  BY <1>3, NoneIsNoPacket DEF Held
<1>7. p.kind = k => /\ Row(p, n, q, k) # <<>> /\ Head(Row(p, n, q, k)) = p
                    /\ Tail(Row(p, n, q, k)) = Rest(n, q, k)
  BY <1>2, <1>6, OneFirst
<1>8. n = None => Rest(n, q, k) = q
  BY NoneIsNoPacket, ConcatEmptySeq DEF Held, Rest
<1>9. n # None => n \in Packet /\ Rest(n, q, k) = <<n>> \o q
  BY DEF Held, Rest
<1>10. n # None => Rest(n, q, k) # <<>> /\ Head(Rest(n, q, k)) = n /\ Tail(Rest(n, q, k)) = q
  BY <1>9, OneFirst
<1>11. QED
  BY <1>2, <1>3, <1>4, <1>5, <1>7, <1>8, <1>10 DEF Split

LEMMA NowSplit ==
  ASSUME TypeInv, NEW k \in Kinds
  PROVE  Split(Waiting(k), Ahead(k), pSendPacket, node[k], buffer[k], k)
<1>1. /\ buffer[k] \in Seq(Packet) /\ pSendPacket \in Packet \cup {None}
      /\ node[k] \in Packet \cup {None} /\ (node[k] # None => node[k].kind = k)
  BY DEF TypeInv, TypeOK
<1>2. /\ Waiting(k) = Row(pSendPacket, node[k], buffer[k], k)
      /\ Ahead(k) = Rest(node[k], buffer[k], k)
  BY DEF Waiting, Row, Ahead
<1>3. QED
  BY <1>1, <1>2, RowParts

LEMMA NextSplit ==
  ASSUME TypeInv', NEW k \in Kinds
  PROVE  Split(Waiting(k)', Ahead(k)', pSendPacket', node'[k], buffer'[k], k)
<1>1. /\ buffer'[k] \in Seq(Packet) /\ pSendPacket' \in Packet \cup {None}
      /\ node'[k] \in Packet \cup {None} /\ (node'[k] # None => node'[k].kind = k)
  BY DEF TypeInv, TypeOK
<1>2. /\ Waiting(k)' = Row(pSendPacket', node'[k], buffer'[k], k)
      /\ Ahead(k)' = Rest(node'[k], buffer'[k], k)
  BY DEF Waiting, Row, Ahead
<1>3. QED
  BY <1>1, <1>2, RowParts

(* A queue whose look-ahead was taken gives its next packet up as the new  *)
(* look-ahead and loses nothing.                                           *)
LEMMA GetLine ==
  ASSUME TypeInv, NEW k \in Kinds, Get(k), NEW j \in Kinds
  PROVE  Ahead(j)' = IF j = k THEN buffer[k] ELSE Ahead(j)
<1>1. CASE j # k
  BY <1>1, GetTypes DEF Ahead, Rest
<1>2. CASE j = k /\ buffer[k] = <<>>
  <2>1. Ahead(k)' = Held(None, k) \o <<>>
    BY <1>2, GetTypes DEF Ahead, Rest
  <2>2. QED
    BY <2>1, <1>2, NoneIsNoPacket, ConcatEmptySeq, EmptySeq DEF Held
<1>3. CASE j = k /\ buffer[k] # <<>>
  <2>1. buffer[k] \in Seq(Of(k))
    BY DEF TypeInv
  <2>2. Head(buffer[k]) \in Of(k)
    BY <2>1, <1>3, HeadTailProperties
  <2>3. Ahead(k)' = <<Head(buffer[k])>> \o Tail(buffer[k])
    BY <1>3, <2>2, GetTypes DEF Ahead, Rest, Held, Of
  <2>4. <<Head(buffer[k])>> \o Tail(buffer[k]) = buffer[k]
    <3>1. /\ Tail(buffer[k]) \in Seq(Of(k)) /\ Len(Tail(buffer[k])) = Len(buffer[k]) - 1
          /\ \A i \in 1..Len(Tail(buffer[k])) : Tail(buffer[k])[i] = buffer[k][i + 1]
          /\ Len(buffer[k]) \in Nat \ {0} /\ Head(buffer[k]) = buffer[k][1]
      BY <2>1, <1>3, HeadTailProperties, LenProperties, EmptySeq
    <3>2. <<Head(buffer[k])>> \in Seq(Of(k)) /\ Len(<<Head(buffer[k])>>) = 1
      BY <2>2
    <3>3. /\ Len(<<Head(buffer[k])>> \o Tail(buffer[k])) = Len(buffer[k])
          /\ <<Head(buffer[k])>> \o Tail(buffer[k]) \in Seq(Of(k))
          /\ \A i \in 1..Len(buffer[k]) :
               (<<Head(buffer[k])>> \o Tail(buffer[k]))[i]
                 = IF i <= 1 THEN Head(buffer[k]) ELSE Tail(buffer[k])[i - 1]
      BY <3>1, <3>2, ConcatProperties
    <3>4. \A i \in 1..Len(buffer[k]) :
            (<<Head(buffer[k])>> \o Tail(buffer[k]))[i] = buffer[k][i]
      BY <3>1, <3>3
    <3>5. QED
      BY <3>3, <3>4, <2>1, SeqEqual
  <2>5. QED
    BY <1>3, <2>3, <2>4
<1>4. QED
  BY <1>1, <1>2, <1>3

(* The four effects of a step on the packets of one kind.                  *)
Same(k)     == Waiting(k)' = Waiting(k) /\ sent'[k] = sent[k]
Loses(k)    == Waiting(k) # <<>> /\ Waiting(k)' = Tail(Waiting(k)) /\ sent'[k] = sent[k]
Delivers(k) == Waiting(k) # <<>> /\ Waiting(k)' = Tail(Waiting(k))
               /\ sent'[k] = Append(sent[k], Head(Waiting(k)))
Newest(k, key) == [kind |-> k, ts |-> now, key |-> key, prev |-> iLast_frame_time[k]]
Grows(k, key)  == Waiting(k)' = Append(Waiting(k), Newest(k, key)) /\ sent'[k] = sent[k]

LEMMA PutLine ==
  ASSUME TypeInv, NEW k \in Kinds, NEW key \in BOOLEAN, Put(k, key), NEW j \in Kinds
  PROVE  IF j = k THEN Grows(k, key) /\ Newest(k, key) \in Packet ELSE Same(j)
<1>1. Newest(k, key) \in Packet
  BY ConstantsAssumption DEF Put, TypeInv, TypeOK, Packet, Newest
<1>2. buffer' = [buffer EXCEPT ![k] = Append(@, Newest(k, key))]
  BY DEF Put, Newest
<1>3. node' = node /\ pSendPacket' = pSendPacket /\ sent' = sent
  BY DEF Put
<1>4. CASE j # k
  BY <1>2, <1>3, <1>4 DEF Same, Waiting, TypeInv, TypeOK
<1>5. CASE j = k
  <2>1. buffer'[k] = Append(buffer[k], Newest(k, key)) /\ buffer[k] \in Seq(Packet)
    BY <1>2 DEF TypeInv, TypeOK
  <2>2. Held(pSendPacket, k) \in Seq(Packet) /\ Held(node[k], k) \in Seq(Packet)
    BY NoneIsNoPacket DEF TypeInv, TypeOK, Held
  <2>3. Held(pSendPacket, k) \o Held(node[k], k) \in Seq(Packet)
    BY <2>2, ConcatProperties
  <2>4. Waiting(k)' = (Held(pSendPacket, k) \o Held(node[k], k)) \o Append(buffer[k], Newest(k, key))
    BY <2>1, <1>3 DEF Waiting
  <2> DEFINE h == Held(pSendPacket, k) \o Held(node[k], k)
  <2>5. Waiting(k)' = h \o Append(buffer[k], Newest(k, key)) /\ Waiting(k) = h \o buffer[k]
    BY <2>4 DEF Waiting
  <2>6. h \in Seq(Packet)
    BY <2>3
  <2> HIDE DEF h
  <2>7. Waiting(k)' = Append(Waiting(k), Newest(k, key))
    BY <2>1, <2>5, <2>6, <1>1, AppendLast
  <2>8. QED
    BY <1>1, <1>3, <1>5, <2>7 DEF Grows
<1>6. QED
  BY <1>4, <1>5

(* Reading a queue whose look-ahead is gone moves nothing.                 *)
LEMMA GetSame ==
  ASSUME TypeInv, TypeInv', NEW k \in Kinds, Get(k), node[k] = None,
         pSendPacket' = pSendPacket, sent' = sent, NEW j \in Kinds
  PROVE  Same(j)
<1>1. Ahead(k) = buffer[k]
  BY NowSplit DEF Split
<1>2. Ahead(j)' = Ahead(j)
  BY <1>1, GetLine
<1>3. Waiting(j) = Held(pSendPacket, j) \o Ahead(j)
  BY NowSplit DEF Split
<1>4. Waiting(j)' = Held(pSendPacket, j)' \o Ahead(j)'
  BY NextSplit DEF Split
<1>5. Held(pSendPacket, j)' = Held(pSendPacket, j)
  BY DEF Held
<1>6. QED
  BY <1>2, <1>3, <1>4, <1>5 DEF Same

LEMMA FetchLine ==
  ASSUME TypeInv, TypeInv', NEW j \in Kinds,
         \/ FetchVideo \/ FetchAudio
         \/ Refetch("video", "refetchVideo", "skipAudio") \/ Refetch("audio", "refetchAudio", "top")
  PROVE  Same(j)
<1>1. \E k \in Kinds : Get(k) /\ node[k] = None
  BY DEF FetchVideo, FetchAudio, Refetch, TypeInv, PlaceInv, NoData, Kinds
<1>2. pSendPacket' = pSendPacket /\ sent' = sent
  BY DEF FetchVideo, FetchAudio, Refetch
<1>3. QED
  BY <1>1, <1>2, GetSame

LEMMA PickLine ==
  ASSUME TypeInv, TypeInv', Pick, NEW j \in Kinds
  PROVE  Same(j)
<1>1. PICK k \in Kinds : node[k] # None /\ Get(k) /\ pSendPacket' = node[k] /\ sent' = sent
  BY DEF Pick, Older, NoData, Kinds
<1>2. pSendPacket.kind # j
  BY NoneIsNoPacket DEF Pick, TypeInv, TypeOK, PlaceInv
<1>3. Waiting(j) = Ahead(j)
  BY <1>2, NowSplit DEF Split
<1>4. node[k].kind = k
  BY <1>1 DEF TypeInv, TypeOK
<1>5. CASE j # k
  <2>1. Waiting(j)' = Ahead(j)'
    BY <1>1, <1>4, <1>5, NextSplit DEF Split
  <2>2. Ahead(j)' = Ahead(j)
    BY <1>1, <1>5, GetLine
  <2>3. QED
    BY <1>1, <1>3, <2>1, <2>2 DEF Same
<1>6. CASE j = k
  <2>1. Waiting(k)' = Held(pSendPacket, k)' \o Ahead(k)'
    BY <1>1, NextSplit DEF Split
  <2>2. Ahead(k)' = buffer[k]
    BY <1>1, GetLine
  <2>3. Waiting(k)' = Held(node[k], k) \o buffer[k]
    BY <1>1, <2>1, <2>2 DEF Held
  <2>4. QED
    BY <1>1, <1>3, <1>6, <2>3 DEF Same, Ahead, Rest
<1>7. QED
  BY <1>5, <1>6

LEMMA DropLine ==
  ASSUME TypeInv, TypeInv', NEW k \in Kinds, NEW at \in {"skipVideo", "skipAudio"},
         SkipDrop(k, at), NEW j \in Kinds
  PROVE  IF j = k THEN Loses(k) /\ Head(Waiting(k)) = node[k] /\ Waiting(k)' = buffer[k]
                  ELSE Same(j)
<1>1. Get(k) /\ node[k] # None /\ pSendPacket' = pSendPacket /\ sent' = sent
  BY DEF SkipDrop
<1>2. pSendPacket.kind # j
  BY NoneIsNoPacket DEF SkipDrop, TypeInv, TypeOK, PlaceInv
<1>3. Waiting(j) = Ahead(j)
  BY <1>2, NowSplit DEF Split
<1>4. Waiting(j)' = Ahead(j)'
  BY <1>1, <1>2, NextSplit DEF Split
<1>5. Ahead(j)' = IF j = k THEN buffer[k] ELSE Ahead(j)
  BY <1>1, GetLine
<1>6. Ahead(k) # <<>> /\ Head(Ahead(k)) = node[k] /\ Tail(Ahead(k)) = buffer[k]
  BY <1>1, NowSplit DEF Split
<1>7. QED
  BY <1>1, <1>3, <1>4, <1>5, <1>6 DEF Same, Loses

LEMMA SkipSendLine ==
  ASSUME TypeInv, TypeInv', NEW k \in Kinds, NEW at \in {"skipVideo", "skipAudio"}, NEW refetch,
         SkipSend(k, at, refetch), NEW j \in Kinds
  PROVE  Same(j)
<1>1. /\ node[k] # None /\ pSendPacket' = node[k] /\ node' = [node EXCEPT ![k] = None]
      /\ buffer' = buffer /\ sent' = sent
  BY DEF SkipSend, producer
<1>2. pSendPacket.kind # j
  BY NoneIsNoPacket DEF SkipSend, TypeInv, TypeOK, PlaceInv
<1>3. Waiting(j) = Ahead(j)
  BY <1>2, NowSplit DEF Split
<1>4. node[k].kind = k /\ node'[k] = None
  BY <1>1 DEF TypeInv, TypeOK
<1>5. CASE j # k
  <2>1. Waiting(j)' = Ahead(j)'
    BY <1>1, <1>4, <1>5, NextSplit DEF Split
  <2>2. Ahead(j)' = Ahead(j)
    BY <1>1, <1>5 DEF Ahead, TypeInv
  <2>3. QED
    BY <1>1, <1>3, <2>1, <2>2 DEF Same
<1>6. CASE j = k
  <2>1. Waiting(k)' = Held(pSendPacket, k)' \o Ahead(k)'
    BY NextSplit DEF Split
  <2>2. Ahead(k)' = buffer[k]
    BY <1>1, <1>4, NextSplit DEF Split
  <2>3. Waiting(k)' = Held(node[k], k) \o buffer[k]
    BY <1>1, <2>1, <2>2 DEF Held
  <2>4. QED
    BY <1>1, <1>3, <1>6, <2>3 DEF Same, Ahead, Rest
<1>7. QED
  BY <1>5, <1>6

(* A packet of a kind the sender gives up or delivers is the oldest one.   *)
LEMMA LateLine ==
  ASSUME TypeInv, TypeInv', Late, NEW j \in Kinds
  PROVE  IF pSendPacket' # pSendPacket /\ pSendPacket.kind = j
         THEN Loses(j) /\ Waiting(j)' = Ahead(j) ELSE Same(j)
<1>1. node' = node /\ buffer' = buffer /\ sent' = sent /\ Ahead(j)' = Ahead(j)
  BY DEF Late, producer, Ahead
<1>2. pSendPacket' = pSendPacket \/ pSendPacket' = None
  BY DEF Late
<1>3. CASE pSendPacket' = pSendPacket
  BY <1>1, <1>3 DEF Same, Waiting
<1>4. CASE pSendPacket' = None
  <2>1. Waiting(j)' = Ahead(j)'
    BY <1>4, NextSplit, NoneIsNoPacket DEF Split
  <2>2. IF pSendPacket.kind = j THEN Waiting(j) # <<>> /\ Tail(Waiting(j)) = Ahead(j)
                                ELSE Waiting(j) = Ahead(j)
    BY NowSplit DEF Split
  <2>3. pSendPacket.kind = j => pSendPacket' # pSendPacket
    BY <1>4, NoneIsNoPacket
  <2>4. QED
    BY <1>1, <2>1, <2>2, <2>3 DEF Same, Loses
<1>5. QED
  BY <1>2, <1>3, <1>4

LEMMA DeliveredLine ==
  ASSUME TypeInv, TypeInv', pc \in Sending, Delivered, NEW j \in Kinds
  PROVE  /\ pSendPacket \in Packet
         /\ IF pSendPacket.kind = j
            THEN Delivers(j) /\ Head(Waiting(j)) = pSendPacket /\ Waiting(j)' = Ahead(j)
            ELSE Same(j)
<1>1. /\ node' = node /\ buffer' = buffer /\ Ahead(j)' = Ahead(j) /\ pSendPacket' = None
      /\ sent' = [sent EXCEPT ![pSendPacket.kind] = Append(@, pSendPacket)]
  BY DEF Delivered, producer, Ahead
<1>2. Waiting(j)' = Ahead(j)'
  BY <1>1, NextSplit, NoneIsNoPacket DEF Split
<1>3. IF pSendPacket.kind = j
      THEN Waiting(j) # <<>> /\ Tail(Waiting(j)) = Ahead(j) /\ Head(Waiting(j)) = pSendPacket
      ELSE Waiting(j) = Ahead(j)
  BY NowSplit DEF Split
<1>4. sent'[j] = IF pSendPacket.kind = j THEN Append(sent[j], pSendPacket) ELSE sent[j]
  BY <1>1 DEF TypeInv, TypeOK
<1>5. pSendPacket \in Packet
  BY DEF TypeInv, TypeOK, Sending
<1>6. CASE pSendPacket.kind = j
  BY <1>1, <1>2, <1>3, <1>4, <1>5, <1>6 DEF Delivers
<1>7. CASE pSendPacket.kind # j
  BY <1>1, <1>2, <1>3, <1>4, <1>5, <1>7 DEF Same
<1>8. QED
  BY <1>6, <1>7

LEMMA OtherLine ==
  ASSUME NEW j \in Kinds,
         \/ Tick \/ StopSend \/ Wait \/ GiveUp \/ SeeStop \/ Measure \/ SendFail
         \/ ReconnectFail \/ ReconnectEnd \/ UNCHANGED vars
         \/ SkipEnd("video", "skipVideo", "skipAudio") \/ SkipEnd("audio", "skipAudio", "top")
  PROVE  Same(j)
<1>1. pSendPacket' = pSendPacket /\ node' = node /\ buffer' = buffer /\ sent' = sent
  BY DEF Tick, StopSend, Wait, GiveUp, SeeStop, Measure, SendFail, ReconnectFail, ReconnectEnd,
         vars, SkipEnd, Return, producer
<1>2. QED
  BY <1>1 DEF Same, Waiting
-----------------------------------------------------------------------------
(* The streams                                                             *)

LEMMA StreamStep ==
  ASSUME TypeInv, [Next]_vars, NEW j \in Kinds
  PROVE  \/ Same(j) \/ Loses(j) \/ Delivers(j)
         \/ \E p \in Packet : Waiting(j)' = Append(Waiting(j), p) /\ sent'[j] = sent[j]
<1>0. TypeInv'
  BY NextTypes
<1>1. CASE \E k \in Kinds, key \in BOOLEAN : Put(k, key)
  BY <1>1, PutLine DEF Grows
<1>2. CASE FetchVideo \/ FetchAudio \/ Refetch("video", "refetchVideo", "skipAudio")
           \/ Refetch("audio", "refetchAudio", "top")
  BY <1>0, <1>2, FetchLine
<1>3. CASE Pick
  BY <1>0, <1>3, PickLine
<1>4. CASE Late
  BY <1>0, <1>4, LateLine
<1>5. CASE SkipDrop("video", "skipVideo") \/ SkipDrop("audio", "skipAudio")
  BY <1>0, <1>5, DropLine DEF Kinds
<1>6. CASE SkipSend("video", "skipVideo", "refetchVideo") \/ SkipSend("audio", "skipAudio", "refetchAudio")
  BY <1>0, <1>6, SkipSendLine DEF Kinds
<1>7. CASE SendPacket \/ ReconnectSuccess
  BY <1>0, <1>7, DeliveredLine DEF SendPacket, ReconnectSuccess, Sending
<1>8. CASE \/ Tick \/ StopSend \/ Wait \/ GiveUp \/ SeeStop \/ Measure \/ SendFail
           \/ ReconnectFail \/ ReconnectEnd \/ UNCHANGED vars
           \/ SkipEnd("video", "skipVideo", "skipAudio") \/ SkipEnd("audio", "skipAudio", "top")
  BY <1>8, OtherLine
<1>9. QED
  BY <1>1, <1>2, <1>3, <1>4, <1>5, <1>6, <1>7, <1>8
  DEF Next, Sender, SkipVideo, SkipAudio

LEMMA AppendedLast ==
  ASSUME NEW S, NEW w \in Seq(S), NEW p \in S, NEW v, v = Append(w, p)
  PROVE  v # <<>> /\ v = Append(w, v[Len(v)])
  BY AppendProperties

LEMMA InitLine ==
  ASSUME Init, NEW k \in Kinds PROVE Waiting(k) = <<>> /\ sent[k] = <<>>
<1>1. Waiting(k) = Ahead(k) /\ Ahead(k) = buffer[k]
  BY InitTypes, NowSplit, NoneIsNoPacket DEF Init, Split
<1>2. QED
  BY <1>1 DEF Init

(* For each kind, packets are delivered in the order in which they were    *)
(* put, once or not at all: the packets to send, looked at and queued are  *)
(* together the waiting line of a LossyStream.                             *)
THEOREM PushStreams == Spec => Streams
<1>1. Init => Video!Init /\ Audio!Init
  BY InitLine DEF Video!Init, Audio!Init, Kinds
<1>2. TypeInv /\ [Next]_vars =>
        /\ [Video!Put \/ Video!Drop \/ Video!Deliver]_<<Waiting("video"), sent["video"]>>
        /\ [Audio!Put \/ Audio!Drop \/ Audio!Deliver]_<<Waiting("audio"), sent["audio"]>>
  <2> SUFFICES ASSUME TypeInv, [Next]_vars
      PROVE  /\ [Video!Put \/ Video!Drop \/ Video!Deliver]_<<Waiting("video"), sent["video"]>>
             /\ [Audio!Put \/ Audio!Drop \/ Audio!Deliver]_<<Waiting("audio"), sent["audio"]>>
    OBVIOUS
  <2>1. \A j \in Kinds :
          \/ Same(j) \/ Loses(j) \/ Delivers(j)
          \/ /\ Waiting(j)' # <<>> /\ Waiting(j)' = Append(Waiting(j), Waiting(j)'[Len(Waiting(j)')])
             /\ sent'[j] = sent[j]
    BY StreamStep, AppendedLast, NowSplit DEF Split
  <2>2. [Video!Put \/ Video!Drop \/ Video!Deliver]_<<Waiting("video"), sent["video"]>>
    BY <2>1 DEF Kinds, Video!Put, Video!Drop, Video!Deliver, Same, Loses, Delivers
  <2>3. [Audio!Put \/ Audio!Drop \/ Audio!Deliver]_<<Waiting("audio"), sent["audio"]>>
    BY <2>1 DEF Kinds, Audio!Put, Audio!Drop, Audio!Deliver, Same, Loses, Delivers
  <2>4. QED
    BY <2>2, <2>3
<1>3. QED
  BY <1>1, <1>2, TypeInvariant, PTL
  DEF Spec, Streams, VideoStream, AudioStream, Video!Spec, Audio!Spec
-----------------------------------------------------------------------------
(* Lines of frames                                                         *)

LEMMA FrameTimes ==
  ASSUME NEW w \in Seq(Packet)
  PROVE  \A i \in 1..Len(w) : w[i] \in Packet /\ w[i].ts \in Nat /\ w[i].prev \in Nat
<1>1. \A p \in Packet : p.ts \in Nat /\ p.prev \in Nat
  BY ConstantsAssumption DEF Packet
<1>2. QED
  BY <1>1, ElementOfSeq

LEMMA NewFrame ==
  ASSUME NEW w \in Seq(Packet), NEW s \in Seq(Packet), NEW p \in Packet, NEW last \in Nat, NEW t \in Nat,
         Chain(w, last), t <= last, p.prev = last, last < p.ts
  PROVE  /\ Chain(Append(w, p), p.ts)
         /\ Reached(w, t) => Reached(Append(w, p), t)
         /\ p.key => Reached(Append(w, p), p.ts)
         /\ Joined(w, s, last) /\ (last = 0 => p.key) => Joined(Append(w, p), s, p.ts)
<1> DEFINE v == Append(w, p)
<1>1. /\ v \in Seq(Packet) /\ v # <<>> /\ Len(v) = Len(w) + 1 /\ v[Len(w) + 1] = p
      /\ \A i \in 1..Len(w) : v[i] = w[i]
      /\ Len(w) \in Nat /\ (w = <<>> <=> Len(w) = 0)
  BY AppendProperties, EmptySeq, LenProperties
<1>2. \A i \in 1..Len(w) : w[i] \in Packet /\ w[i].ts \in Nat
  BY FrameTimes
<1> HIDE DEF v
<1>3. \A i \in 1..Len(w) : w[i].ts <= last
  BY <1>1, <1>2 DEF Chain
<1>4. p.ts \in Nat
  BY ConstantsAssumption DEF Packet
<1>5. Chain(v, p.ts)
  <2>1. \A i \in 1..Len(v) - 1 : v[i + 1].prev = v[i].ts
    <3> TAKE i \in 1..Len(v) - 1
    <3>1. CASE i = Len(w)
      <4>1. w # <<>> /\ v[i + 1] = p /\ v[i] = w[i]
        BY <1>1, <3>1
      <4>2. QED
        BY <4>1, <3>1 DEF Chain
    <3>2. CASE i # Len(w)
      <4>1. i \in 1..Len(w) - 1 /\ i \in 1..Len(w) /\ i + 1 \in 1..Len(w)
        BY <1>1, <3>2
      <4>2. v[i + 1] = w[i + 1] /\ v[i] = w[i]
        BY <1>1, <4>1
      <4>3. QED
        BY <4>1, <4>2 DEF Chain
    <3>3. QED
      BY <3>1, <3>2
  <2>2. \A i, j \in 1..Len(v) : i < j => v[i].ts < v[j].ts
    <3> SUFFICES ASSUME NEW i \in 1..Len(v), NEW j \in 1..Len(v), i < j PROVE v[i].ts < v[j].ts
      OBVIOUS
    <3>1. i \in 1..Len(w) /\ v[i] = w[i]
      BY <1>1
    <3>2. CASE j = Len(w) + 1
      BY <1>1, <1>2, <1>3, <1>4, <3>1, <3>2
    <3>3. CASE j \in 1..Len(w)
      BY <1>1, <3>1, <3>3 DEF Chain
    <3>4. QED
      BY <1>1, <3>2, <3>3
  <2>3. QED
    BY <1>1, <2>1, <2>2 DEF Chain
<1>6. Reached(w, t) => Reached(v, t)
  <2> SUFFICES ASSUME Reached(w, t), v[1].ts <= t PROVE HasKey(v, t)
    BY DEF Reached
  <2>1. w # <<>>
    BY <1>1, <1>4
  <2>2. v[1] = w[1]
    BY <1>1, <2>1
  <2>3. HasKey(w, t)
    BY <2>1, <2>2 DEF Reached
  <2>4. QED
    BY <1>1, <2>3 DEF HasKey
<1>7. p.key => Reached(v, p.ts)
  BY <1>1 DEF Reached, HasKey
<1>8. Joined(w, s, last) /\ (last = 0 => p.key) => Joined(v, s, p.ts)
  <2>1. CASE w = <<>>
    BY <1>1, <2>1 DEF Joined
  <2>2. CASE w # <<>>
    <3>1. v[1] = w[1]
      BY <1>1, <2>2
    <3>2. QED
      BY <1>1, <2>2, <3>1 DEF Joined
  <2>3. QED
    BY <2>1, <2>2
<1>9. QED
  BY <1>5, <1>6, <1>7, <1>8 DEF v

LEMMA OldestGone ==
  ASSUME NEW w \in Seq(Packet), w # <<>>, NEW last \in Nat, NEW t \in Nat, Chain(w, last)
  PROVE  /\ Chain(Tail(w), last)
         /\ Reached(w, t) => Reached(Tail(w), t)
         /\ Reached(w, t) /\ w[1].ts < t =>
              /\ HasKey(Tail(w), t) /\ Tail(w) # <<>> /\ Tail(w)[1].ts <= t
<1> DEFINE v == Tail(w)
<1>1. /\ v \in Seq(Packet) /\ Len(v) = Len(w) - 1 /\ \A i \in 1..Len(v) : v[i] = w[i + 1]
      /\ Len(w) \in Nat \ {0} /\ (v = <<>> <=> Len(v) = 0)
  BY HeadTailProperties, EmptySeq, LenProperties
<1>2. \A i \in 1..Len(w) : w[i] \in Packet /\ w[i].ts \in Nat
  BY FrameTimes
<1> HIDE DEF v
<1>3. Chain(v, last)
  <2>1. \A i \in 1..Len(v) - 1 : v[i + 1].prev = v[i].ts
    <3> TAKE i \in 1..Len(v) - 1
    <3>1. i + 1 \in 1..Len(w) - 1 /\ i \in 1..Len(v) /\ i + 1 \in 1..Len(v)
      BY <1>1
    <3>2. v[i] = w[i + 1] /\ v[i + 1] = w[i + 1 + 1]
      BY <1>1, <3>1
    <3>3. QED
      BY <3>1, <3>2 DEF Chain
  <2>2. \A i, j \in 1..Len(v) : i < j => v[i].ts < v[j].ts
    <3> SUFFICES ASSUME NEW i \in 1..Len(v), NEW j \in 1..Len(v), i < j PROVE v[i].ts < v[j].ts
      OBVIOUS
    <3>1. i + 1 \in 1..Len(w) /\ j + 1 \in 1..Len(w) /\ v[i] = w[i + 1] /\ v[j] = w[j + 1]
      BY <1>1
    <3>2. QED
      BY <3>1 DEF Chain
  <2>3. v # <<>> => v[Len(v)].ts = last
    BY <1>1 DEF Chain
  <2>4. QED
    BY <2>1, <2>2, <2>3 DEF Chain
<1>4. Reached(w, t) /\ w[1].ts < t => HasKey(v, t) /\ v # <<>> /\ v[1].ts <= t
  <2> SUFFICES ASSUME Reached(w, t), w[1].ts < t PROVE HasKey(v, t) /\ v # <<>> /\ v[1].ts <= t
    OBVIOUS
  <2>1. HasKey(w, t)
    BY <1>1, <1>2 DEF Reached
  <2>2. PICK j \in 1..Len(w) : w[j].ts = t /\ w[j].key
    BY <2>1 DEF HasKey
  <2>3. 1 \in 1..Len(w) /\ w[1].ts \in Nat /\ w[j].ts \in Nat
    BY <1>1, <1>2
  <2>4. j # 1
    BY <2>3, <2>2
  <2>5. j - 1 \in 1..Len(v) /\ (j - 1) + 1 = j
    BY <1>1, <2>4
  <2>6. v[j - 1] = w[j]
    BY <1>1, <2>5
  <2>7. HasKey(v, t)
    BY <2>2, <2>5, <2>6 DEF HasKey
  <2>8. v # <<>> /\ v[1] = w[2] /\ 2 \in 1..Len(w)
    BY <1>1, <2>5
  <2>9. v[1].ts <= t
    <3>1. CASE j = 2
      BY <2>2, <2>8, <1>2, <3>1
    <3>2. CASE j # 2
      <4>1. 2 < j
        BY <2>4, <3>2
      <4>2. w[2].ts < w[j].ts
        BY <4>1, <2>8 DEF Chain
      <4>3. QED
        BY <4>2, <2>2, <2>8, <1>2
    <3>3. QED
      BY <3>1, <3>2
  <2>10. QED
    BY <2>7, <2>8, <2>9
<1>5. Reached(w, t) => Reached(v, t)
  <2> SUFFICES ASSUME Reached(w, t), v # <<>>, v[1].ts <= t PROVE HasKey(v, t)
    BY DEF Reached
  <2>1. 1 \in 1..Len(v) /\ 1 \in 1..Len(w) /\ 2 \in 1..Len(w) /\ v[1] = w[2]
    BY <1>1
  <2>2. w[1].ts < w[2].ts
    BY <2>1 DEF Chain
  <2>3. w[1].ts < t
    BY <2>1, <2>2, <1>2
  <2>4. QED
    BY <2>3, <1>4
<1>6. QED
  BY <1>3, <1>4, <1>5 DEF v

(* A frame that is sent leaves a line that continues it.                   *)
Decodable(s) == \A i \in DOMAIN s : s[i].key \/ (i > 1 /\ s[i - 1].ts = s[i].prev)

LEMMA OldestSent ==
  ASSUME NEW w \in Seq(Packet), w # <<>>, NEW s \in Seq(Packet), NEW last \in Nat, Chain(w, last)
  PROVE  /\ Joined(Tail(w), Append(s, Head(w)), last)
         /\ Joined(w, s, last) /\ Decodable(s) => Decodable(Append(s, Head(w)))
<1> DEFINE v == Tail(w)
           r == Append(s, w[1])
<1>0. Head(w) = w[1] /\ w[1] \in Packet /\ Len(w) \in Nat \ {0}
  BY HeadTailProperties, EmptySeq, LenProperties, ElementOfSeq
<1>1. /\ v \in Seq(Packet) /\ Len(v) = Len(w) - 1 /\ \A i \in 1..Len(v) : v[i] = w[i + 1]
      /\ (v = <<>> <=> Len(v) = 0)
  BY HeadTailProperties, EmptySeq, LenProperties
<1>2. /\ r \in Seq(Packet) /\ r # <<>> /\ Len(r) = Len(s) + 1 /\ r[Len(s) + 1] = w[1]
      /\ \A i \in 1..Len(s) : r[i] = s[i]
      /\ Len(s) \in Nat /\ (s = <<>> <=> Len(s) = 0) /\ DOMAIN r = 1..Len(r) /\ DOMAIN s = 1..Len(s)
  BY <1>0, AppendProperties, EmptySeq, LenProperties
<1> HIDE DEF v, r
<1>3. Joined(v, r, last)
  <2>1. CASE v = <<>>
    <3>1. Len(w) = 1
      BY <1>0, <1>1, <2>1
    <3>2. w[1].ts = last /\ r[Len(r)] = w[1]
      BY <1>0, <1>2, <3>1 DEF Chain
    <3>3. QED
      BY <1>2, <2>1, <3>2 DEF Joined
  <2>2. CASE v # <<>>
    <3>1. v[1] = w[1 + 1] /\ 1 \in 1..Len(w) - 1
      BY <1>0, <1>1, <2>2
    <3>2. v[1].prev = w[1].ts
      BY <3>1 DEF Chain
    <3>3. QED
      BY <1>2, <2>2, <3>2 DEF Joined
  <2>3. QED
    BY <2>1, <2>2
<1>4. ASSUME Joined(w, s, last), Decodable(s) PROVE Decodable(r)
  <2> SUFFICES ASSUME NEW i \in 1..Len(r) PROVE r[i].key \/ (i > 1 /\ r[i - 1].ts = r[i].prev)
    BY <1>2 DEF Decodable
  <2>1. CASE i \in 1..Len(s)
    <3>1. i > 1 => i - 1 \in 1..Len(s)
      BY <1>2, <2>1
    <3>2. QED
      BY <1>2, <1>4, <2>1, <3>1 DEF Decodable
  <2>2. CASE i = Len(s) + 1
    BY <1>2, <1>4, <2>2 DEF Joined
  <2>3. QED
    BY <1>2, <2>1, <2>2
<1>5. QED
  BY <1>0, <1>3, <1>4 DEF v, r
-----------------------------------------------------------------------------
(* The frames that wait stay linked                                        *)

LEMMA VideoTypes ==
  ASSUME TypeInv
  PROVE  /\ Waiting("video") \in Seq(Packet) /\ sent["video"] \in Seq(Packet)
         /\ buffer["video"] \in Seq(Packet) /\ now \in Nat
         /\ iLast_frame_time["video"] \in Nat /\ iLast_i_frame_time["video"] \in Nat
         /\ iLast_i_frame_time["video"] <= iLast_frame_time["video"]
         /\ iLast_frame_time["video"] <= now /\ iLastTime \in Nat
<1>1. "video" \in Kinds
  BY DEF Kinds
<1>2. Waiting("video") \in Seq(Packet)
  BY <1>1, NowSplit DEF Split
<1>3. QED
  BY <1>1, <1>2, ConstantsAssumption DEF TypeInv, TypeOK, Clocks

(* A step that moves no frame, neither skips nor judges.                   *)
LEMMA CalmLink ==
  ASSUME LinkInv, Same("video"),
         iLast_frame_time'["video"] = iLast_frame_time["video"],
         iLast_i_frame_time'["video"] = iLast_i_frame_time["video"],
         pc # "skipVideo", pc' \notin Judging \cup {"skipVideo"}
  PROVE  LinkInv' /\ sent'["video"] = sent["video"]
  BY DEF LinkInv, Same

LEMMA GettingLink ==
  ASSUME TypeInv, TypeInv', LinkInv,
         \/ FetchVideo \/ FetchAudio \/ SkipDrop("audio", "skipAudio")
         \/ SkipSend("audio", "skipAudio", "refetchAudio")
         \/ Refetch("video", "refetchVideo", "skipAudio") \/ Refetch("audio", "refetchAudio", "top")
  PROVE  LinkInv' /\ sent'["video"] = sent["video"]
<1>1. Same("video")
  <2>1. CASE \/ FetchVideo \/ FetchAudio \/ Refetch("video", "refetchVideo", "skipAudio")
             \/ Refetch("audio", "refetchAudio", "top")
    BY <2>1, FetchLine DEF Kinds
  <2>2. CASE SkipDrop("audio", "skipAudio")
    BY <2>2, DropLine DEF Kinds
  <2>3. CASE SkipSend("audio", "skipAudio", "refetchAudio")
    BY <2>3, SkipSendLine DEF Kinds
  <2>4. QED
    BY <2>1, <2>2, <2>3
<1>2. /\ iLast_frame_time' = iLast_frame_time /\ iLast_i_frame_time' = iLast_i_frame_time
      /\ pc # "skipVideo" /\ pc' \notin Judging \cup {"skipVideo"}
  BY DEF FetchVideo, FetchAudio, SkipDrop, SkipSend, Refetch, producer, Judging
<1>3. QED
  BY <1>1, <1>2, CalmLink

LEMMA OtherLink ==
  ASSUME LinkInv,
         \/ Tick \/ StopSend \/ Wait \/ GiveUp \/ SeeStop \/ Measure \/ SendFail
         \/ ReconnectFail \/ ReconnectEnd \/ UNCHANGED vars
         \/ SkipEnd("video", "skipVideo", "skipAudio") \/ SkipEnd("audio", "skipAudio", "top")
  PROVE  LinkInv' /\ sent'["video"] = sent["video"]
<1>1. Same("video")
  BY OtherLine DEF Kinds
<1>2. /\ pSendPacket' = pSendPacket /\ node' = node /\ buffer' = buffer /\ iLastTime' = iLastTime
      /\ iLast_frame_time' = iLast_frame_time /\ iLast_i_frame_time' = iLast_i_frame_time
      /\ pc' = "skipVideo" => pc = "skipVideo"
      /\ pc = "skipVideo" /\ node["video"] # None => pc' = "skipVideo"
      /\ pc' \in Judging => pc \in Judging /\ now' = now
  BY DEF Tick, StopSend, Wait, GiveUp, SeeStop, Measure, SendFail, ReconnectFail, ReconnectEnd,
         vars, SkipEnd, Return, producer, Judging
<1>3. QED
  BY <1>1, <1>2 DEF LinkInv, Same

LEMMA PutLink ==
  ASSUME TypeInv, LinkInv, NEW k \in Kinds, NEW key \in BOOLEAN, Put(k, key)
  PROVE  LinkInv' /\ sent'["video"] = sent["video"]
<1>1. /\ pSendPacket' = pSendPacket /\ node' = node /\ iLastTime' = iLastTime
      /\ pc' = pc /\ now' = now
  BY DEF Put
<1>2. CASE k = "audio"
  <2>1. Same("video")
    BY <1>2, PutLine DEF Kinds
  <2>2. /\ iLast_frame_time'["video"] = iLast_frame_time["video"]
        /\ iLast_i_frame_time'["video"] = iLast_i_frame_time["video"]
        /\ buffer'["video"] = buffer["video"]
    BY <1>2 DEF Put, TypeInv, TypeOK, Kinds
  <2>3. QED
    BY <1>1, <2>1, <2>2 DEF LinkInv, Same
<1>3. CASE k = "video"
  <2> DEFINE w == Waiting("video")
             p == Newest("video", key)
             last == iLast_frame_time["video"]
  <2>1. w' = Append(w, p) /\ sent'["video"] = sent["video"] /\ p \in Packet
    BY <1>3, PutLine DEF Grows
  <2>2. /\ last < now /\ last' = now
        /\ iLast_i_frame_time'["video"] = IF key THEN now ELSE iLast_i_frame_time["video"]
        /\ buffer'["video"] = Append(buffer["video"], p) /\ (last = 0 => key)
    BY <1>3 DEF Put, TypeInv, TypeOK, Newest, Kinds
  <2>3. p.ts = now /\ p.prev = last /\ p.key = key
    BY DEF Newest
  <2>4. /\ w \in Seq(Packet) /\ sent["video"] \in Seq(Packet) /\ buffer["video"] \in Seq(Packet)
        /\ last \in Nat /\ iLast_i_frame_time["video"] \in Nat /\ iLastTime \in Nat
        /\ iLast_i_frame_time["video"] <= last
    BY VideoTypes
  <2>5. Chain(w, last)
    BY DEF LinkInv
  <2> HIDE DEF w, p, last
  <2>6. Chain(w', last')
    BY <2>1, <2>2, <2>3, <2>4, <2>5, NewFrame
  <2>7. Reached(w', iLast_i_frame_time'["video"])
    <3>1. Reached(w, iLast_i_frame_time["video"])
      BY DEF LinkInv, w
    <3>2. QED
      BY <2>1, <2>2, <2>3, <2>4, <2>5, <3>1, NewFrame
  <2>8. pc' = "skipVideo" => iLastTime' <= last' /\ Reached(w', iLastTime')
    <3> SUFFICES ASSUME pc = "skipVideo" PROVE iLastTime' <= last' /\ Reached(w', iLastTime')
      BY <1>1
    <3>1. iLastTime <= last /\ Reached(w, iLastTime)
      BY DEF LinkInv, w, last
    <3>2. Reached(Append(w, p), iLastTime)
      BY <2>1, <2>2, <2>3, <2>4, <2>5, <3>1, NewFrame
    <3>3. iLastTime <= now
      BY <2>2, <2>4, <3>1, VideoTypes
    <3>4. QED
      BY <1>1, <2>1, <2>2, <3>2, <3>3
  <2>9. \/ Joined(w', sent'["video"], last')
        \/ pc' = "skipVideo" /\ node'["video"] # None /\ node'["video"].ts <= iLastTime'
    <3>1. CASE Joined(w, sent["video"], last)
      BY <2>1, <2>2, <2>3, <2>4, <2>5, <3>1, NewFrame
    <3>2. CASE ~Joined(w, sent["video"], last)
      BY <1>1, <3>2 DEF LinkInv, w, last
    <3>3. QED
      BY <3>1, <3>2
  <2>10. pc' \in Judging /\ pSendPacket'.kind = "video" /\ node'["video"] = None =>
           Len(buffer'["video"]) = 1 /\ last' = now'
    <3> SUFFICES ASSUME pc \in Judging, pSendPacket.kind = "video", node["video"] = None
        PROVE  Len(buffer'["video"]) = 1 /\ last' = now'
      BY <1>1
    <3>1. buffer["video"] = <<>> \/ last = now
      BY DEF LinkInv, last
    <3>2. last # now
      BY <2>2, <2>4
    <3>3. Len(Append(buffer["video"], p)) = Len(buffer["video"]) + 1 /\ Len(<<>>) = 0
      BY <2>1, <2>4, AppendProperties
    <3>4. QED
      BY <1>1, <2>2, <3>1, <3>2, <3>3
  <2>11. QED
    BY <2>1, <2>6, <2>7, <2>8, <2>9, <2>10 DEF LinkInv, w, last
<1>4. QED
  BY <1>2, <1>3 DEF Kinds

LEMMA PickLink ==
  ASSUME TypeInv, TypeInv', LinkInv, Pick
  PROVE  LinkInv' /\ sent'["video"] = sent["video"]
<1>1. Same("video")
  BY PickLine DEF Kinds
<1>2. /\ iLast_frame_time' = iLast_frame_time /\ iLast_i_frame_time' = iLast_i_frame_time
      /\ pc = "top" /\ pc' = "measure"
  BY DEF Pick
<1>3. pSendPacket'.kind = "video" /\ node'["video"] = None => buffer'["video"] = <<>>
  <2> SUFFICES ASSUME pSendPacket'.kind = "video", node'["video"] = None
      PROVE  buffer'["video"] = <<>>
    OBVIOUS
  <2>1. Older \in Kinds /\ node[Older] # None /\ Get(Older) /\ pSendPacket' = node[Older]
    BY DEF Pick, Older, NoData, Kinds
  <2>2. Older = "video"
    BY <2>1 DEF TypeInv, TypeOK
  <2>3. Get("video")
    BY <2>1, <2>2
  <2>4. \/ buffer["video"] = <<>> /\ buffer'["video"] = <<>>
        \/ buffer["video"] # <<>> /\ node'["video"] = Head(buffer["video"])
    BY <2>3, GetTypes DEF Kinds
  <2>5. buffer["video"] # <<>> => Head(buffer["video"]) \in Packet
    BY HeadTailProperties, VideoTypes
  <2>6. QED
    BY <2>4, <2>5, NoneIsNoPacket
<1>4. QED
  BY <1>1, <1>2, <1>3 DEF LinkInv, Same, Judging

(* A frame that is given up: the key frame the sender goes on to is there. *)
LEMMA LateLink ==
  ASSUME TypeInv, TypeInv', LinkInv, Late
  PROVE  LinkInv' /\ sent'["video"] = sent["video"]
<1> DEFINE w == Waiting("video")
           last == iLast_frame_time["video"]
           t == iLast_i_frame_time["video"]
<1>1. /\ node' = node /\ buffer' = buffer /\ iLastTime' = t
      /\ iLast_frame_time' = iLast_frame_time /\ iLast_i_frame_time' = iLast_i_frame_time
      /\ pc = "late" /\ pc' \in {"send", "skipVideo"}
      /\ pSendPacket' = pSendPacket \/ (pc' = "skipVideo" /\ pSendPacket.ts < t)
  BY VideoTypes DEF Late, producer, TypeInv, TypeOK, Packet, ConstantsAssumption
<1>2. /\ w \in Seq(Packet) /\ last \in Nat /\ t \in Nat /\ t <= last
  BY VideoTypes
<1>3. Chain(w, last) /\ Reached(w, t) /\ Joined(w, sent["video"], last)
  BY <1>1 DEF LinkInv
<1>4. sent' = sent
  BY DEF Late
<1> HIDE DEF w, last, t
<1>5. CASE ~(pSendPacket' # pSendPacket /\ pSendPacket.kind = "video")
  <2>1. w' = w
    BY <1>5, LateLine DEF Same, Kinds, w
  <2>2. QED
    BY <1>1, <1>2, <1>3, <1>4, <2>1 DEF LinkInv, w, last, t, Judging
<1>6. CASE pSendPacket' # pSendPacket /\ pSendPacket.kind = "video"
  <2>1. w # <<>> /\ w' = Tail(w) /\ w' = Ahead("video") /\ Head(w) = pSendPacket
    BY <1>6, LateLine, NowSplit DEF Loses, Kinds, w, Split
  <2>2. w[1].ts < t
    BY <1>1, <1>2, <1>6, <2>1, HeadTailProperties
  <2>3. /\ Chain(w', last) /\ Reached(w', t)
        /\ HasKey(w', t) /\ w' # <<>> /\ w'[1].ts <= t
    BY <1>2, <1>3, <2>1, <2>2, OldestGone
  <2>4. CASE node["video"] = None
    <3>1. w' = buffer["video"]
      BY <2>1, <2>4, NowSplit DEF Split, Kinds
    <3>2. Len(w') = 1
      BY <1>1, <1>6, <2>3, <2>4, <3>1 DEF LinkInv, Judging
    <3>3. w'[1].key
      BY <2>3, <3>2 DEF HasKey
    <3>4. Joined(w', sent["video"], last)
      BY <2>3, <3>3 DEF Joined
    <3>5. QED
      BY <1>1, <1>2, <1>4, <2>3, <3>4 DEF LinkInv, w, last, t, Judging
  <2>5. CASE node["video"] # None
    <3>1. Head(w') = node["video"]
      BY <2>1, <2>5, NowSplit DEF Split, Kinds
    <3>2. w' \in Seq(Packet)
      BY <1>2, <2>1, HeadTailProperties
    <3>3. w'[1] = node["video"]
      BY <2>3, <3>1, <3>2
    <3>4. node["video"].ts <= t
      BY <2>3, <3>3
    <3>5. QED
      BY <1>1, <1>2, <1>6, <1>4, <2>3, <2>5, <3>4 DEF LinkInv, w, last, t, Judging
  <2>6. QED
    BY <2>4, <2>5
<1>7. QED
  BY <1>5, <1>6

LEMMA DropLink ==
  ASSUME TypeInv, TypeInv', LinkInv, SkipDrop("video", "skipVideo")
  PROVE  LinkInv' /\ sent'["video"] = sent["video"]
<1> DEFINE w == Waiting("video")
           last == iLast_frame_time["video"]
           t == iLast_i_frame_time["video"]
<1>1. /\ pc = "skipVideo" /\ pc' = pc /\ iLastTime' = iLastTime
      /\ iLast_frame_time' = iLast_frame_time /\ iLast_i_frame_time' = iLast_i_frame_time
      /\ node["video"] # None /\ node["video"].ts < iLastTime
  BY VideoTypes, ConstantsAssumption DEF SkipDrop, Keeps, TypeInv, TypeOK, Kinds, Packet
<1>2. w \in Seq(Packet) /\ last \in Nat /\ t \in Nat /\ iLastTime \in Nat
  BY VideoTypes
<1>3. Chain(w, last) /\ Reached(w, t) /\ Reached(w, iLastTime) /\ iLastTime <= last
  BY <1>1 DEF LinkInv
<1>4. /\ w # <<>> /\ w' = Tail(w) /\ Head(w) = node["video"] /\ w' = buffer["video"]
      /\ sent'["video"] = sent["video"]
  BY DropLine DEF Kinds, Loses
<1>5. Get("video")
  BY DEF SkipDrop
<1> HIDE DEF w, last, t
<1>6. w[1].ts < iLastTime
  BY <1>1, <1>2, <1>4, HeadTailProperties
<1>7. /\ Chain(w', last) /\ Reached(w', t) /\ Reached(w', iLastTime)
      /\ w' # <<>> /\ w'[1].ts <= iLastTime
  BY <1>2, <1>3, <1>4, <1>6, OldestGone
<1>8. node'["video"] = Head(w') /\ node'["video"] # None
  <2>1. node'["video"] = Head(buffer["video"]) /\ buffer["video"] # <<>>
    BY <1>4, <1>5, <1>7, GetTypes DEF Kinds
  <2>2. Head(buffer["video"]) \in Packet
    BY <2>1, VideoTypes, HeadTailProperties
  <2>3. QED
    BY <1>4, <2>1, <2>2, NoneIsNoPacket
<1>9. node'["video"].ts <= iLastTime
  BY <1>7, <1>8
<1>10. QED
  BY <1>1, <1>3, <1>4, <1>7, <1>8, <1>9 DEF LinkInv, w, last, t, Judging

LEMMA SkipSendLink ==
  ASSUME TypeInv, TypeInv', LinkInv, SkipSend("video", "skipVideo", "refetchVideo")
  PROVE  LinkInv' /\ sent'["video"] = sent["video"]
<1> DEFINE w == Waiting("video")
           last == iLast_frame_time["video"]
<1>1. /\ pc = "skipVideo" /\ pc' = "send"
      /\ iLast_frame_time' = iLast_frame_time /\ iLast_i_frame_time' = iLast_i_frame_time
      /\ node["video"] # None /\ iLastTime <= node["video"].ts
  BY VideoTypes, ConstantsAssumption
  DEF SkipSend, Keeps, producer, TypeInv, TypeOK, Kinds, Packet
<1>2. w \in Seq(Packet) /\ iLastTime \in Nat
  BY VideoTypes
<1>3. Same("video")
  BY SkipSendLine DEF Kinds
<1>4. w # <<>> /\ Head(w) = node["video"]
  <2>1. pSendPacket.kind # "video"
    BY <1>1, NoneIsNoPacket DEF TypeInv, TypeOK, PlaceInv, Kinds
  <2>2. QED
    BY <1>1, <2>1, NowSplit DEF Split, Kinds
<1>5. Joined(w, sent["video"], last)
  <2>1. CASE node["video"].ts <= iLastTime
    <3>1. w[1].ts = iLastTime /\ 1 \in 1..Len(w)
      <4>1. 1 \in 1..Len(w)
        BY <1>2, <1>4, EmptySeq, LenProperties
      <4>2. w[1] = node["video"] /\ w[1].ts \in Nat
        BY <1>2, <1>4, <4>1, FrameTimes
      <4>3. QED
        BY <1>1, <1>2, <2>1, <4>1, <4>2
    <3>2. HasKey(w, iLastTime)
      BY <1>1, <1>2, <1>4, <3>1 DEF LinkInv, Reached
    <3>3. PICK j \in 1..Len(w) : w[j].ts = iLastTime /\ w[j].key
      BY <3>2 DEF HasKey
    <3>4. j = 1
      <4>1. Chain(w, last)
        BY DEF LinkInv
      <4>2. 1 < j => w[1].ts < w[j].ts
        BY <3>1, <4>1 DEF Chain
      <4>3. QED
        BY <3>1, <3>3, <4>2, <1>2
    <3>5. QED
      BY <1>4, <3>3, <3>4 DEF Joined
  <2>2. CASE ~(node["video"].ts <= iLastTime)
    BY <2>2 DEF LinkInv
  <2>3. QED
    BY <2>1, <2>2
<1>6. QED
  BY <1>1, <1>3, <1>5 DEF LinkInv, Same, Judging

LEMMA DeliveredLink ==
  ASSUME TypeInv, TypeInv', LinkInv, pc \in Sending, Delivered, Decodable(sent["video"])
  PROVE  LinkInv' /\ Decodable(sent'["video"])
<1> DEFINE w == Waiting("video")
           last == iLast_frame_time["video"]
           t == iLast_i_frame_time["video"]
<1>1. /\ iLast_frame_time' = iLast_frame_time /\ iLast_i_frame_time' = iLast_i_frame_time
      /\ pc # "skipVideo" /\ pc' \notin Judging \cup {"skipVideo"}
  BY DEF Delivered, producer, TypeInv, TypeOK, Sending, Judging
<1>2. CASE pSendPacket.kind # "video"
  <2>1. Same("video")
    BY <1>2, DeliveredLine DEF Kinds
  <2>2. QED
    BY <1>1, <2>1, CalmLink
<1>3. CASE pSendPacket.kind = "video"
  <2>1. w # <<>> /\ w' = Tail(w) /\ sent'["video"] = Append(sent["video"], Head(w))
    BY <1>3, DeliveredLine DEF Delivers, Kinds
  <2>2. w \in Seq(Packet) /\ sent["video"] \in Seq(Packet) /\ last \in Nat /\ t \in Nat
    BY VideoTypes
  <2>3. Chain(w, last) /\ Reached(w, t) /\ Joined(w, sent["video"], last)
    BY <1>1 DEF LinkInv
  <2> HIDE DEF w, last, t
  <2>4. Chain(w', last) /\ Reached(w', t)
    BY <2>1, <2>2, <2>3, OldestGone
  <2>5. Joined(w', sent'["video"], last) /\ Decodable(sent'["video"])
    BY <2>1, <2>2, <2>3, OldestSent
  <2>6. QED
    BY <1>1, <2>4, <2>5 DEF LinkInv, w, last, t
<1>4. QED
  BY <1>2, <1>3

LEMMA NextLink ==
  ASSUME TypeInv, LinkInv, Decodable(sent["video"]), [Next]_vars
  PROVE  LinkInv' /\ Decodable(sent'["video"])
<1>0. TypeInv'
  BY NextTypes
<1>1. CASE \E k \in Kinds, key \in BOOLEAN : Put(k, key)
  BY <1>1, PutLink
<1>2. CASE \/ FetchVideo \/ FetchAudio \/ SkipDrop("audio", "skipAudio")
           \/ SkipSend("audio", "skipAudio", "refetchAudio")
           \/ Refetch("video", "refetchVideo", "skipAudio") \/ Refetch("audio", "refetchAudio", "top")
  BY <1>0, <1>2, GettingLink
<1>3. CASE Pick
  BY <1>0, <1>3, PickLink
<1>4. CASE Late
  BY <1>0, <1>4, LateLink
<1>5. CASE SkipDrop("video", "skipVideo")
  BY <1>0, <1>5, DropLink
<1>6. CASE SkipSend("video", "skipVideo", "refetchVideo")
  BY <1>0, <1>6, SkipSendLink
<1>7. CASE SendPacket \/ ReconnectSuccess
  BY <1>0, <1>7, DeliveredLink DEF SendPacket, ReconnectSuccess, Sending
<1>8. CASE \/ Tick \/ StopSend \/ Wait \/ GiveUp \/ SeeStop \/ Measure \/ SendFail
           \/ ReconnectFail \/ ReconnectEnd \/ UNCHANGED vars
           \/ SkipEnd("video", "skipVideo", "skipAudio") \/ SkipEnd("audio", "skipAudio", "top")
  BY <1>8, OtherLink
<1>9. QED
  BY <1>1, <1>2, <1>3, <1>4, <1>5, <1>6, <1>7, <1>8
  DEF Next, Sender, SkipVideo, SkipAudio

LEMMA InitLink == Init => LinkInv /\ Decodable(sent["video"])
<1> SUFFICES ASSUME Init PROVE LinkInv /\ Decodable(sent["video"])
  OBVIOUS
<1>1. Waiting("video") = <<>> /\ sent["video"] = <<>>
  BY InitLine DEF Kinds
<1>2. /\ pc = "fetchVideo" /\ iLast_frame_time["video"] = 0
  BY DEF Init, Kinds
<1>3. \A last, t : Chain(<<>>, last) /\ Reached(<<>>, t) /\ Decodable(<<>>)
  BY DEF Chain, Reached, Decodable
<1>4. Joined(<<>>, <<>>, 0)
  BY DEF Joined
<1>5. QED
  BY <1>1, <1>2, <1>3, <1>4 DEF LinkInv, Judging

(* What the server gets of the pictures can be decoded: a frame is only    *)
(* sent right after the one it refers to, however frames were skipped, the *)
(* connection lost and set up again, and for any delay and any length.     *)
THEOREM PushDecodable == Spec => []GOPIntact
<1>1. TypeInv /\ LinkInv /\ Decodable(sent["video"]) /\ [Next]_vars
        => LinkInv' /\ Decodable(sent["video"])'
  BY NextLink
<1>2. Decodable(sent["video"]) => GOPIntact
  BY DEF Decodable, GOPIntact
<1>3. QED
  BY InitLink, <1>1, <1>2, TypeInvariant, PTL DEF Spec
=============================================================================
