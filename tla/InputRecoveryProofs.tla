------------------------ MODULE InputRecoveryProofs ------------------------
(***************************************************************************)
(* Nothing of a new timeline reaches a decoder unannounced, for queues of   *)
(* any capacity and any number of breaks.  The argument follows a stream     *)
(* from the decoder back to the peer: of two units that come one after the   *)
(* other, the later one is of the same timeline, or it bears a flag, or a     *)
(* flag for it waits with the demuxer, or a chunk in between breaks the       *)
(* stream, or the transport still has to tell of a reconnection.  A flag may  *)
(* move on to a later unit, and it may go when a later one has come, but a    *)
(* packet is never given out ahead of it.                                     *)
(***************************************************************************)
EXTENDS InputRecovery, SequenceTheorems, TLAPS

\* The timeline of what the decoder of a stream has last taken.
DecodedAt(s) == IF s = "audio" THEN audio.last ELSE generation.last

\* A decoder that starts afresh with whatever it takes next, or takes nothing
\* any more.
Fresh(s) == IF s = "audio" THEN audio.last = 0 ELSE waiting \/ failed

\* The same of the queue of the stream: what its next packet comes after.
QueuedAt(s) ==
  IF packets[s] = <<>> THEN DecodedAt(s) ELSE packets[s][Len(packets[s])].at
FreshQueue(s) == packets[s] = <<>> /\ Fresh(s)

\* And of the demuxer, with the packet that it is sending.
Sending(s) == hand # <<>> /\ hand[1].stream = s
DemuxedAt(s) == IF Sending(s) THEN hand[1].at ELSE QueuedAt(s)
FreshDemux(s) == ~Sending(s) /\ FreshQueue(s)
Announced(s) == s \in marked \cup pending

Completes(c, s) == c.unit # "none" /\ StreamOf(c.unit) = s
Breaks(c, s) == c.discontinuity \/ s \in c.gap
BreakIn(i, j, s) == \E k \in i .. j : Breaks(chunks[k], s)

QueueFollows ==
  \A s \in Streams : \A i \in 1 .. Len(packets[s]) :
    LET p == packets[s][i]
    IN  \/ p.discontinuity
        \/ i = 1 /\ (Fresh(s) \/ p.at = DecodedAt(s))
        \/ i > 1 /\ p.at = packets[s][i - 1].at

HandFollows ==
  \A s \in Streams :
    Sending(s) => hand[1].discontinuity \/ FreshQueue(s) \/ hand[1].at = QueuedAt(s)

\* A chunk, after what was demuxed and after an earlier chunk.
ChunkFollows ==
  \A s \in Streams : \A j \in 1 .. Len(chunks) :
    Completes(chunks[j], s) =>
      /\ FreshDemux(s) \/ Announced(s) \/ BreakIn(1, j, s) \/ chunks[j].at = DemuxedAt(s)
      /\ \A i \in 1 .. j - 1 :
           Completes(chunks[i], s) => BreakIn(i + 1, j, s) \/ chunks[j].at = chunks[i].at

Untold == reconnects # received

PeerFollows ==
  \A s \in Streams :
    /\ \/ FreshDemux(s) \/ Announced(s) \/ BreakIn(1, Len(chunks), s) \/ Untold
       \/ timeline[s] = DemuxedAt(s)
    /\ \A i \in 1 .. Len(chunks) :
         Completes(chunks[i], s) =>
           BreakIn(i + 1, Len(chunks), s) \/ Untold \/ timeline[s] = chunks[i].at

\* Each break is counted once by the peer's timelines.
Counted ==
  /\ received <= reconnects
  /\ \A s \in Streams : reconnects < timeline[s] /\ (~connected => timeline[s] < MaxTimeline)

\* The gate of the decoder is never closed behind an open one of decode_video.
GatesAgree == nvdec.waiting => (waiting \/ failed)

StreamsKept == \A s \in Streams : \A i \in 1 .. Len(packets[s]) : packets[s][i].stream = s

IInv ==
  /\ TypeOK
  /\ Counted
  /\ GatesAgree
  /\ StreamsKept
  /\ QueueFollows
  /\ HandFollows
  /\ ChunkFollows
  /\ PeerFollows
  /\ AudioRestarts

-----------------------------------------------------------------------------
LEMMA AppendAt ==
  ASSUME NEW S, NEW q \in Seq(S), NEW e \in S
  PROVE  /\ Append(q, e) \in Seq(S)
         /\ Len(Append(q, e)) = Len(q) + 1
         /\ \A i \in 1 .. Len(q) : Append(q, e)[i] = q[i]
         /\ Append(q, e)[Len(q) + 1] = e
  OBVIOUS

LEMMA TailAt ==
  ASSUME NEW S, NEW q \in Seq(S), q # <<>>
  PROVE  /\ Tail(q) \in Seq(S)
         /\ Len(q) \in Nat \ {0}
         /\ Len(Tail(q)) = Len(q) - 1
         /\ \A i \in 1 .. Len(q) - 1 : Tail(q)[i] = q[i + 1]
         /\ Head(q) = q[1] /\ q[1] \in S
  OBVIOUS

LEMMA InitIInv ==
  ASSUME Init
  PROVE  IInv
  <1>1. TypeOK
    <2>1. 1 \in Timeline /\ ChunkCapacity >= 0 /\ PacketCapacity >= 0
      BY RecoveryAssumption DEF Timeline
    <2>2. /\ chunks \in Seq(Chunk) /\ Len(chunks) <= ChunkCapacity
          /\ hand \in Seq(Packet) /\ Len(hand) <= 1
          /\ packets \in [Streams -> Seq(Packet)]
          /\ \A s \in Streams : Len(packets[s]) <= PacketCapacity
      BY <2>1 DEF Init
    <2>3. /\ nvdec \in [waiting : BOOLEAN, reset : BOOLEAN]
          /\ generation \in [first : {0} \cup Timeline, last : {0} \cup Timeline,
                             format : {NoFormat} \cup Format]
          /\ audio \in [first : {0} \cup Timeline, last : {0} \cup Timeline]
      BY DEF Init
    <2>4. connected \in BOOLEAN /\ waiting \in BOOLEAN /\ failed \in BOOLEAN
      BY Zenon DEF Init
    <2>5. /\ reconnects \in 0 .. MaxTimeline /\ received \in 0 .. MaxTimeline
          /\ format \in Format /\ timeline \in [Streams -> Timeline]
          /\ marked \in SUBSET Streams /\ pending \in SUBSET Streams
      BY <2>1, RecoveryAssumption DEF Init
    <2> QED BY <2>2, <2>3, <2>4, <2>5 DEF TypeOK
  <1>2. \A s \in Streams : packets[s] = <<>> /\ ~Sending(s) /\ Fresh(s)
    BY DEF Init, Streams, Sending, Fresh
  <1>3. \A s \in Streams : FreshDemux(s)
    BY <1>2 DEF FreshDemux, FreshQueue
  <1>4. Counted /\ GatesAgree /\ AudioRestarts
    BY RecoveryAssumption DEF Init, Counted, GatesAgree, AudioRestarts, Streams
  <1>5. StreamsKept /\ QueueFollows
    BY <1>2 DEF StreamsKept, QueueFollows
  <1>6. HandFollows
    BY <1>2 DEF HandFollows
  <1>7. ChunkFollows /\ PeerFollows
    <2>1. Len(chunks) = 0
      BY DEF Init
    <2> QED BY <1>3, <2>1 DEF ChunkFollows, PeerFollows
  <1> QED BY <1>1, <1>4, <1>5, <1>6, <1>7 DEF IInv

(* The peer and the transport. *)
LEMMA DeliverKeeps ==
  ASSUME IInv, NEW unit \in {"key", "delta", "audio", "none"}, NEW gap \in SUBSET Streams,
         Deliver(unit, gap)
  PROVE  IInv'
  <1> DEFINE c == [unit |-> unit, discontinuity |-> reconnects # received, gap |-> gap,
                   at |-> timeline'[StreamOf(unit)], format |-> format]
  <1>n. PICK n \in Nat : n = Len(chunks)
    BY DEF IInv, TypeOK
  <1>1. timeline' \in [Streams -> Timeline]
    <2>1. \A t \in Timeline : t < MaxTimeline => t + 1 \in Timeline
      BY RecoveryAssumption DEF Timeline
    <2> QED BY <2>1 DEF IInv, TypeOK, Deliver
  <1>2. c \in Chunk
    BY <1>1 DEF IInv, TypeOK, Chunk, StreamOf, Streams
  <1>3. /\ chunks \in Seq(Chunk) /\ n = Len(chunks)
        /\ chunks' = Append(chunks, c)
    BY <1>n DEF IInv, TypeOK, Deliver
  <1>4. /\ chunks' \in Seq(Chunk) /\ Len(chunks') = n + 1
        /\ \A i \in 1 .. n : chunks'[i] = chunks[i]
        /\ chunks'[n + 1] = c
    BY <1>2, <1>3, AppendAt
  <1> HIDE DEF c
  <1>5. TypeOK'
    <2>1. Len(chunks') <= ChunkCapacity
      BY <1>3, <1>4, RecoveryAssumption DEF Deliver
    <2> QED BY <1>1, <1>4, <2>1 DEF IInv, TypeOK, Deliver, demuxVars, decodeVars
  <1>6. Counted'
    BY <1>1 DEF IInv, TypeOK, Counted, Deliver, Timeline
  <1>7. /\ GatesAgree' /\ StreamsKept' /\ AudioRestarts'
        /\ QueueFollows' /\ HandFollows'
    BY DEF IInv, Deliver, demuxVars, decodeVars, GatesAgree, StreamsKept, AudioRestarts,
           QueueFollows, HandFollows, Sending, FreshQueue, Fresh, QueuedAt, DecodedAt
  <1>8. \A s \in Streams : /\ FreshDemux(s)' = FreshDemux(s) /\ DemuxedAt(s)' = DemuxedAt(s)
                           /\ Announced(s)' = Announced(s)
    BY DEF Deliver, demuxVars, decodeVars, FreshDemux, DemuxedAt, Announced, Sending, FreshQueue,
           Fresh, QueuedAt, DecodedAt
  <1>9. ~Untold'
    BY DEF Deliver, Untold
  <1>10. \A s \in Streams : \A i, j \in Nat : 1 <= i /\ j <= n /\ BreakIn(i, j, s) => BreakIn(i, j, s)'
    BY <1>3, <1>4 DEF BreakIn
  <1>11. \A s \in Streams : \A i \in 1 .. n : BreakIn(i, n, s) => BreakIn(i, n + 1, s)'
    BY <1>3, <1>4 DEF BreakIn
  <1>12. \A s \in Streams : \A i \in 1 .. n + 1 : Breaks(c, s) => BreakIn(i, n + 1, s)'
    BY <1>3, <1>4 DEF BreakIn
  <1>13. \A s \in Streams : ~Breaks(c, s) => ~Untold /\ timeline'[s] = timeline[s]
    BY DEF Breaks, c, Untold, Deliver
  <1>14. \A s \in Streams : Completes(c, s) => c.at = timeline'[s]
    BY DEF Completes, c
  <1>15. \A s \in Streams :
           \/ FreshDemux(s)' \/ Announced(s)' \/ BreakIn(1, n + 1, s)'
           \/ timeline'[s] = DemuxedAt(s)'
    <2> SUFFICES ASSUME NEW s \in Streams, ~FreshDemux(s), ~Announced(s), ~BreakIn(1, n + 1, s)'
                 PROVE  timeline'[s] = DemuxedAt(s)'
      BY <1>8
    <2>1. ~Breaks(c, s)
      BY <1>3, <1>12
    <2>2. ~BreakIn(1, n, s)
      BY <1>3, <1>11 DEF BreakIn
    <2> QED BY <2>1, <2>2, <1>3, <1>8, <1>13 DEF IInv, PeerFollows
  <1>16. \A s \in Streams : \A i \in 1 .. n :
           Completes(chunks[i], s) => BreakIn(i + 1, n + 1, s)' \/ timeline'[s] = chunks[i].at
    <2> SUFFICES ASSUME NEW s \in Streams, NEW i \in 1 .. n, Completes(chunks[i], s),
                        ~BreakIn(i + 1, n + 1, s)'
                 PROVE  timeline'[s] = chunks[i].at
      OBVIOUS
    <2>1. ~Breaks(c, s)
      BY <1>3, <1>12
    <2>2. ~BreakIn(i + 1, n, s)
      BY <1>3, <1>4 DEF BreakIn
    <2> QED BY <2>1, <2>2, <1>3, <1>13 DEF IInv, PeerFollows
  <1>17. PeerFollows'
    BY <1>3, <1>4, <1>14, <1>15, <1>16 DEF PeerFollows
  <1>18. ChunkFollows'
    <2> SUFFICES ASSUME NEW s \in Streams, NEW j \in 1 .. n + 1, Completes(chunks'[j], s)
                 PROVE  /\ \/ FreshDemux(s)' \/ Announced(s)' \/ BreakIn(1, j, s)'
                           \/ chunks'[j].at = DemuxedAt(s)'
                        /\ \A i \in 1 .. j - 1 :
                             Completes(chunks'[i], s) => \/ BreakIn(i + 1, j, s)'
                                                         \/ chunks'[j].at = chunks'[i].at
      BY <1>4 DEF ChunkFollows
    <2>1. CASE j = n + 1
      <3>1. chunks'[j] = c /\ c.at = timeline'[s] /\ j - 1 = n
        BY <2>1, <1>4, <1>14
      <3>2. \A i \in 1 .. j - 1 : chunks'[i] = chunks[i] /\ i \in 1 .. n
        BY <3>1, <1>4
      <3>3. \/ FreshDemux(s)' \/ Announced(s)' \/ BreakIn(1, j, s)'
            \/ chunks'[j].at = DemuxedAt(s)'
        BY <2>1, <3>1, <1>15
      <3>4. \A i \in 1 .. j - 1 :
              Completes(chunks'[i], s) => BreakIn(i + 1, j, s)' \/ chunks'[j].at = chunks'[i].at
        BY <2>1, <3>1, <3>2, <1>16
      <3> QED BY <3>3, <3>4
    <2>2. CASE j \in 1 .. n
      <3>1. chunks'[j] = chunks[j] /\ \A i \in 1 .. j - 1 : chunks'[i] = chunks[i]
        BY <2>2, <1>3, <1>4
      <3>2. /\ BreakIn(1, j, s) => BreakIn(1, j, s)'
            /\ \A i \in 1 .. j - 1 : BreakIn(i + 1, j, s) => BreakIn(i + 1, j, s)'
        BY <2>2, <1>3, <1>10
      <3> QED BY <2>2, <3>1, <3>2, <1>3, <1>8 DEF IInv, ChunkFollows
    <2> QED BY <2>1, <2>2, <1>3
  <1> QED BY <1>5, <1>6, <1>7, <1>17, <1>18 DEF IInv

LEMMA BreakKeeps ==
  ASSUME IInv, Disconnect \/ Reconnect
  PROVE  IInv'
  <1>1. UNCHANGED <<chunks, received, demuxVars, packets, decodeVars>>
    BY DEF Disconnect, Reconnect
  <1>2. TypeOK'
    <2>1. CASE Disconnect
      BY <2>1, <1>1 DEF IInv, TypeOK, Disconnect, demuxVars, decodeVars
    <2>2. CASE Reconnect
      <3>1. reconnects' \in 0 .. MaxTimeline /\ timeline' \in [Streams -> Timeline]
        BY <2>2, RecoveryAssumption DEF IInv, TypeOK, Counted, Reconnect, Timeline, Streams
      <3> QED BY <2>2, <3>1, <1>1 DEF IInv, TypeOK, Reconnect, demuxVars, decodeVars
    <2> QED BY <2>1, <2>2
  <1>3. Counted'
    BY RecoveryAssumption DEF IInv, TypeOK, Counted, Disconnect, Reconnect, Timeline
  <1>4. /\ GatesAgree' /\ StreamsKept' /\ AudioRestarts'
        /\ QueueFollows' /\ HandFollows'
    BY <1>1 DEF IInv, demuxVars, decodeVars, GatesAgree, StreamsKept, AudioRestarts,
                QueueFollows, HandFollows, Sending, FreshQueue, Fresh, QueuedAt, DecodedAt
  <1>5. \A s \in Streams : /\ FreshDemux(s)' = FreshDemux(s) /\ DemuxedAt(s)' = DemuxedAt(s)
                           /\ Announced(s)' = Announced(s)
    BY <1>1 DEF demuxVars, decodeVars, FreshDemux, DemuxedAt, Announced, Sending, FreshQueue,
                Fresh, QueuedAt, DecodedAt
  <1>6. \A s \in Streams : \A i, j \in Nat : BreakIn(i, j, s)' = BreakIn(i, j, s)
    BY <1>1 DEF BreakIn
  <1>7. ChunkFollows'
    BY <1>1, <1>5 DEF IInv, ChunkFollows, BreakIn
  <1>8. Untold' \/ (Untold' = Untold /\ timeline' = timeline)
    BY DEF IInv, TypeOK, Counted, Disconnect, Reconnect, Untold
  <1>9. PeerFollows'
    BY <1>1, <1>5, <1>8 DEF IInv, PeerFollows, BreakIn
  <1> QED BY <1>2, <1>3, <1>4, <1>7, <1>9 DEF IInv

(* The demuxer: a flag that a chunk raises, or finds raised, stays raised for *)
(* a stream until a packet of the stream bears it.                           *)
LEMMA DemuxKeeps ==
  ASSUME IInv, Demux
  PROVE  IInv'
  <1>1. /\ chunks \in Seq(Chunk) /\ chunks # <<>> /\ chunks' = Tail(chunks)
        /\ hand = <<>>
    BY DEF IInv, TypeOK, Demux
  <1>2. PICK n \in Nat, c \in Chunk, u \in Streams :
          /\ n = Len(chunks) /\ c = Head(chunks) /\ u = StreamOf(c.unit)
    BY <1>1, TailAt DEF StreamOf, Streams
  <1>3. /\ chunks' \in Seq(Chunk) /\ n >= 1
        /\ Len(chunks') = n - 1
        /\ \A i \in 1 .. n - 1 : chunks'[i] = chunks[i + 1]
        /\ c = chunks[1]
    BY <1>1, <1>2, TailAt
  <1>4. UNCHANGED <<sourceVars, packets, decodeVars>>
    BY DEF Demux
  <1>5. ASSUME c.unit # "none"
        PROVE  /\ hand' \in Seq(Packet) /\ Len(hand') = 1 /\ hand'[1].at = c.at
               /\ hand'[1].discontinuity <=> Announced(u) \/ Breaks(c, u)
               /\ Sending(u)' /\ \A t \in Streams \ {u} : ~Sending(t)'
               /\ \A t \in Streams \ {u} : Announced(t)' <=> Announced(t) \/ Breaks(c, t)
               /\ marked' \in SUBSET Streams /\ pending' \in SUBSET Streams
    <2> DEFINE p == [stream |-> u, keyframe |-> c.unit # "delta", at |-> c.at,
                     discontinuity |-> u \in MarksAfter(c) \cup PendingAfter(c),
                     format |-> c.format]
    <2>1. /\ marked' = MarksAfter(c) \ {u}
          /\ pending' = Remaining(u, PendingAfter(c), u \notin MarksAfter(c))
          /\ hand' = <<p>>
      BY <1>5, <1>2 DEF Demux
    <2>2. p \in Packet /\ hand' # <<>> /\ hand'[1] = p /\ hand' \in Seq(Packet) /\ Len(hand') = 1
      BY <1>2, <2>1 DEF Packet, Chunk
    <2>3. /\ p.stream = u /\ p.at = c.at
          /\ p.discontinuity <=> Announced(u) \/ Breaks(c, u)
      BY DEF Announced, Breaks, MarksAfter, PendingAfter
    <2> HIDE DEF p
    <2>4. \A t \in Streams \ {u} : Announced(t)' <=> Announced(t) \/ Breaks(c, t)
      BY <2>1 DEF Announced, Breaks, MarksAfter, PendingAfter, Remaining
    <2>5. hand'[1].stream = u
      BY <2>2, <2>3
    <2>6. Sending(u)' /\ \A t \in Streams \ {u} : ~Sending(t)'
      BY <2>2, <2>5 DEF Sending
    <2>7. marked' \in SUBSET Streams /\ pending' \in SUBSET Streams
      BY <2>1 DEF IInv, TypeOK, MarksAfter, PendingAfter, Remaining, Chunk
    <2> QED BY <2>2, <2>3, <2>4, <2>6, <2>7
  <1>6. ASSUME c.unit = "none"
        PROVE  /\ hand' = hand
               /\ \A t \in Streams : ~Sending(t)'
               /\ \A t \in Streams : Announced(t)' <=> Announced(t) \/ Breaks(c, t)
               /\ marked' \in SUBSET Streams /\ pending' \in SUBSET Streams
    <2>1. hand' = hand /\ marked' = MarksAfter(c) /\ pending' = PendingAfter(c)
      BY <1>6, <1>2 DEF Demux
    <2>2. \A t \in Streams : Announced(t)' <=> Announced(t) \/ Breaks(c, t)
      BY <2>1 DEF Announced, Breaks, MarksAfter, PendingAfter
    <2>3. marked' \in SUBSET Streams /\ pending' \in SUBSET Streams
      BY <2>1 DEF IInv, TypeOK, MarksAfter, PendingAfter, Chunk
    <2> QED BY <2>1, <2>2, <2>3, <1>1 DEF Sending
  <1>7. TypeOK'
    <2>1. hand' \in Seq(Packet) /\ Len(hand') <= 1
      <3>1. CASE c.unit # "none"
        <4>1. hand' \in Seq(Packet) /\ Len(hand') = 1
          BY <1>5, <3>1
        <4> QED BY <4>1
      <3>2. CASE c.unit = "none"
        BY <1>6, <3>2 DEF IInv, TypeOK
      <3> QED BY <3>1, <3>2
    <2>2. marked' \in SUBSET Streams /\ pending' \in SUBSET Streams
      BY <1>5, <1>6
    <2>3. Len(chunks') <= ChunkCapacity
      BY <1>2, <1>3, RecoveryAssumption DEF IInv, TypeOK
    <2> QED BY <2>1, <2>2, <2>3, <1>3, <1>4 DEF IInv, TypeOK, sourceVars, decodeVars
  <1>8. /\ Counted' /\ GatesAgree' /\ StreamsKept' /\ AudioRestarts' /\ QueueFollows'
        /\ Untold' = Untold /\ timeline' = timeline
    BY <1>4 DEF IInv, sourceVars, decodeVars, Counted, GatesAgree, StreamsKept, AudioRestarts,
                QueueFollows, Fresh, DecodedAt, Untold
  <1>9. \A t \in Streams : QueuedAt(t)' = QueuedAt(t) /\ FreshQueue(t)' = FreshQueue(t)
    BY <1>4 DEF decodeVars, QueuedAt, FreshQueue, Fresh, DecodedAt
  <1>10. \A t \in Streams : DemuxedAt(t) = QueuedAt(t) /\ (FreshDemux(t) <=> FreshQueue(t))
    BY <1>1 DEF DemuxedAt, FreshDemux, Sending
  <1>11. \A t \in Streams : Completes(c, t) <=> c.unit # "none" /\ t = u
    BY <1>2 DEF Completes
  <1>12. ASSUME NEW t \in Streams, ~Completes(c, t)
         PROVE  /\ ~Sending(t)'
                /\ FreshDemux(t)' <=> FreshDemux(t)
                /\ DemuxedAt(t)' = DemuxedAt(t)
                /\ Announced(t)' <=> Announced(t) \/ Breaks(c, t)
    <2>1. ~Sending(t)' /\ (Announced(t)' <=> Announced(t) \/ Breaks(c, t))
      BY <1>5, <1>6, <1>11, <1>12
    <2> QED BY <2>1, <1>9, <1>10 DEF FreshDemux, DemuxedAt
  <1>13. ASSUME NEW t \in Streams, Completes(c, t)
         PROVE  /\ Sending(t)'
                /\ DemuxedAt(t)' = c.at
                /\ hand'[1].at = c.at
                /\ hand'[1].discontinuity <=> Announced(t) \/ Breaks(c, t)
    BY <1>5, <1>11, <1>13 DEF DemuxedAt
  <1>14. HandFollows'
    <2> SUFFICES ASSUME NEW t \in Streams, Sending(t)'
                 PROVE  \/ hand'[1].discontinuity \/ FreshQueue(t)'
                        \/ hand'[1].at = QueuedAt(t)'
      BY DEF HandFollows
    <2>1. Completes(c, t)
      BY <1>12
    <2>2. FreshDemux(t) \/ Announced(t) \/ BreakIn(1, 1, t) \/ c.at = DemuxedAt(t)
      BY <2>1, <1>2, <1>3 DEF IInv, ChunkFollows
    <2>3. BreakIn(1, 1, t) => Breaks(c, t)
      BY <1>3 DEF BreakIn
    <2> QED BY <2>1, <2>2, <2>3, <1>9, <1>10, <1>13
  <1>15. \A t \in Streams : \A i, j \in Nat :
           /\ j <= n /\ i >= 2 /\ BreakIn(i, j, t) => \E k \in i - 1 .. j - 1 : Breaks(chunks'[k], t)
           /\ j <= n /\ BreakIn(1, j, t) =>
                Breaks(c, t) \/ \E k \in 1 .. j - 1 : Breaks(chunks'[k], t)
    <2> SUFFICES ASSUME NEW t \in Streams, NEW i \in Nat, NEW j \in Nat, j <= n, i >= 1,
                        BreakIn(i, j, t)
                 PROVE  \/ i = 1 /\ Breaks(c, t)
                        \/ \E k \in i - 1 .. j - 1 : k >= 1 /\ Breaks(chunks'[k], t)
      OBVIOUS
    <2>1. PICK k \in i .. j : Breaks(chunks[k], t)
      BY DEF BreakIn
    <2>2. CASE k = 1
      BY <2>1, <2>2, <1>3
    <2>3. CASE k # 1
      <3>1. k - 1 \in i - 1 .. j - 1 /\ k - 1 \in 1 .. n - 1 /\ chunks'[k - 1] = chunks[k]
        BY <2>3, <1>3
      <3> QED BY <2>1, <3>1
    <2> QED BY <2>2, <2>3
  <1>16. \A t \in Streams : \A j \in 1 .. n - 1 :
           /\ BreakIn(1, j + 1, t) => Breaks(c, t) \/ BreakIn(1, j, t)'
           /\ \A i \in 1 .. j : BreakIn(i + 1, j + 1, t) => BreakIn(i, j, t)'
    <2> SUFFICES ASSUME NEW t \in Streams, NEW j \in 1 .. n - 1
                 PROVE  /\ BreakIn(1, j + 1, t) => Breaks(c, t) \/ BreakIn(1, j, t)'
                        /\ \A i \in 1 .. j : BreakIn(i + 1, j + 1, t) => BreakIn(i, j, t)'
      OBVIOUS
    <2>1. j + 1 <= n /\ j + 1 \in Nat /\ (j + 1) - 1 = j
      BY <1>3
    <2>2. BreakIn(1, j + 1, t) => Breaks(c, t) \/ BreakIn(1, j, t)'
      BY <2>1, <1>15 DEF BreakIn
    <2>3. ASSUME NEW i \in 1 .. j, BreakIn(i + 1, j + 1, t)
          PROVE  BreakIn(i, j, t)'
      <3>1. i + 1 \in Nat /\ i + 1 >= 2 /\ (i + 1) - 1 = i
        OBVIOUS
      <3> QED BY <2>1, <2>3, <3>1, <1>15 DEF BreakIn
    <2> QED BY <2>2, <2>3
  <1>17. ChunkFollows'
    <2> SUFFICES ASSUME NEW t \in Streams, NEW j \in 1 .. n - 1, Completes(chunks'[j], t)
                 PROVE  /\ \/ FreshDemux(t)' \/ Announced(t)' \/ BreakIn(1, j, t)'
                           \/ chunks'[j].at = DemuxedAt(t)'
                        /\ \A i \in 1 .. j - 1 :
                             Completes(chunks'[i], t) => \/ BreakIn(i + 1, j, t)'
                                                         \/ chunks'[j].at = chunks'[i].at
      BY <1>3 DEF ChunkFollows
    <2>1. j + 1 \in 1 .. n /\ chunks'[j] = chunks[j + 1] /\ (j + 1) - 1 = j
      BY <1>3
    <2>2. /\ FreshDemux(t) \/ Announced(t) \/ BreakIn(1, j + 1, t) \/ chunks[j + 1].at = DemuxedAt(t)
          /\ \A i \in 1 .. j :
               Completes(chunks[i], t) => BreakIn(i + 1, j + 1, t) \/ chunks[j + 1].at = chunks[i].at
      BY <2>1, <1>2 DEF IInv, ChunkFollows
    <2>3. \/ FreshDemux(t)' \/ Announced(t)' \/ BreakIn(1, j, t)'
          \/ chunks'[j].at = DemuxedAt(t)'
      <3>1. CASE Completes(c, t)
        <4>1. BreakIn(1 + 1, j + 1, t) \/ chunks[j + 1].at = c.at
          BY <2>1, <2>2, <3>1, <1>3
        <4>2. BreakIn(1 + 1, j + 1, t) => BreakIn(1, j, t)'
          BY <1>16
        <4> QED BY <2>1, <3>1, <4>1, <4>2, <1>13
      <3>2. CASE ~Completes(c, t)
        BY <2>1, <2>2, <3>2, <1>12, <1>16
      <3> QED BY <3>1, <3>2
    <2>4. ASSUME NEW i \in 1 .. j - 1, Completes(chunks'[i], t)
          PROVE  BreakIn(i + 1, j, t)' \/ chunks'[j].at = chunks'[i].at
      <3>1. i + 1 \in 1 .. j /\ chunks'[i] = chunks[i + 1]
        BY <1>3
      <3> QED BY <2>1, <2>2, <2>4, <3>1, <1>16
    <2> QED BY <2>3, <2>4
  <1>18. PeerFollows'
    <2> SUFFICES ASSUME NEW t \in Streams, ~Untold
                 PROVE  /\ \/ FreshDemux(t)' \/ Announced(t)' \/ BreakIn(1, n - 1, t)'
                           \/ timeline[t] = DemuxedAt(t)'
                        /\ \A i \in 1 .. n - 1 :
                             Completes(chunks'[i], t) => \/ BreakIn(i + 1, n - 1, t)'
                                                         \/ timeline[t] = chunks'[i].at
      BY <1>3, <1>8 DEF PeerFollows
    <2>1. /\ FreshDemux(t) \/ Announced(t) \/ BreakIn(1, n, t) \/ timeline[t] = DemuxedAt(t)
          /\ \A i \in 1 .. n :
               Completes(chunks[i], t) => BreakIn(i + 1, n, t) \/ timeline[t] = chunks[i].at
      BY <1>2 DEF IInv, PeerFollows
    <2>2. \A i \in 1 .. n - 1 : BreakIn(i + 1, n, t) => BreakIn(i, n - 1, t)'
      <3> SUFFICES ASSUME NEW i \in 1 .. n - 1
                   PROVE  BreakIn(i + 1, n, t) => BreakIn(i, n - 1, t)'
        OBVIOUS
      <3>1. n - 1 \in 1 .. n - 1 /\ i \in 1 .. n - 1 /\ (n - 1) + 1 = n
        OBVIOUS
      <3>2. BreakIn(i + 1, (n - 1) + 1, t) => BreakIn(i, n - 1, t)'
        BY <3>1, <1>16
      <3> QED BY <3>1, <3>2
    <2>3. BreakIn(1, n, t) => Breaks(c, t) \/ BreakIn(1, n - 1, t)'
      <3>1. CASE n = 1
        BY <3>1, <1>3 DEF BreakIn
      <3>2. CASE n # 1
        <4>1. n - 1 \in 1 .. n - 1 /\ (n - 1) + 1 = n
          BY <3>2, <1>3
        <4>2. BreakIn(1, (n - 1) + 1, t) => Breaks(c, t) \/ BreakIn(1, n - 1, t)'
          BY <4>1, <1>16
        <4> QED BY <4>1, <4>2
      <3> QED BY <3>1, <3>2
    <2>4. \/ FreshDemux(t)' \/ Announced(t)' \/ BreakIn(1, n - 1, t)'
          \/ timeline[t] = DemuxedAt(t)'
      <3>1. CASE Completes(c, t)
        <4>1. BreakIn(1 + 1, n, t) \/ timeline[t] = c.at
          BY <2>1, <3>1, <1>3
        <4>2. BreakIn(1 + 1, n, t) => BreakIn(1, n - 1, t)'
          <5>1. CASE n = 1
            BY <5>1 DEF BreakIn
          <5>2. CASE n # 1
            BY <5>2, <2>2, <1>3
          <5> QED BY <5>1, <5>2
        <4> QED BY <3>1, <4>1, <4>2, <1>13
      <3>2. CASE ~Completes(c, t)
        BY <2>1, <2>3, <3>2, <1>12
      <3> QED BY <3>1, <3>2
    <2>5. ASSUME NEW i \in 1 .. n - 1, Completes(chunks'[i], t)
          PROVE  BreakIn(i + 1, n - 1, t)' \/ timeline[t] = chunks'[i].at
      <3>1. i + 1 \in 1 .. n /\ chunks'[i] = chunks[i + 1]
        BY <1>3
      <3>2. BreakIn((i + 1) + 1, n, t) \/ timeline[t] = chunks[i + 1].at
        BY <2>1, <2>5, <3>1
      <3>3. BreakIn((i + 1) + 1, n, t) => BreakIn(i + 1, n - 1, t)'
        <4>1. CASE i = n - 1
          BY <4>1 DEF BreakIn
        <4>2. CASE i # n - 1
          <5>1. i + 1 \in 1 .. n - 1
            BY <4>2
          <5> QED BY <5>1, <2>2
        <4> QED BY <4>1, <4>2
      <3> QED BY <3>1, <3>2, <3>3
    <2> QED BY <2>4, <2>5
  <1> QED BY <1>7, <1>8, <1>14, <1>17, <1>18 DEF IInv

LEMMA RouteKeeps ==
  ASSUME IInv, Route
  PROVE  IInv'
  <1>1. /\ hand \in Seq(Packet) /\ Len(hand) = 1 /\ hand # <<>>
        /\ hand[1] \in Packet /\ hand[1] = Head(hand)
    <2>1. hand \in Seq(Packet) /\ Len(hand) <= 1 /\ hand # <<>>
      BY DEF IInv, TypeOK, Route
    <2> QED BY <2>1, TailAt
  <1>2. PICK p \in Packet, u \in Streams, n \in Nat :
          p = hand[1] /\ p = Head(hand) /\ u = p.stream /\ n = Len(packets[u])
    <2>1. hand[1].stream \in Streams
      BY <1>1 DEF Packet
    <2>2. Len(packets[hand[1].stream]) \in Nat
      BY <2>1 DEF IInv, TypeOK
    <2> QED BY <2>1, <2>2, <1>1
  <1>3. /\ packets[u] \in Seq(Packet) /\ n = Len(packets[u]) /\ n < PacketCapacity
        /\ packets' = [packets EXCEPT ![u] = Append(@, p)]
        /\ hand' = <<>>
        /\ UNCHANGED <<sourceVars, chunks, marked, pending, decodeVars>>
    BY <1>2 DEF IInv, TypeOK, Route
  <1>4. packets'[u] = Append(packets[u], p) /\ \A t \in Streams \ {u} : packets'[t] = packets[t]
    BY <1>3 DEF IInv, TypeOK
  <1>5. /\ packets'[u] \in Seq(Packet) /\ Len(packets'[u]) = n + 1
        /\ \A i \in 1 .. n : packets'[u][i] = packets[u][i]
        /\ packets'[u][n + 1] = p
    BY <1>3, <1>4, AppendAt
  <1>6. TypeOK'
    <2>1. packets' \in [Streams -> Seq(Packet)]
      BY <1>3 DEF IInv, TypeOK
    <2>2. \A t \in Streams : Len(packets'[t]) <= PacketCapacity
      BY <1>3, <1>4, <1>5, RecoveryAssumption DEF IInv, TypeOK
    <2>3. hand' \in Seq(Packet) /\ Len(hand') <= 1
      BY <1>3
    <2> QED BY <2>1, <2>2, <2>3, <1>3 DEF IInv, TypeOK, sourceVars, decodeVars
  <1>7. Counted' /\ GatesAgree' /\ AudioRestarts' /\ Untold' = Untold
    BY <1>3 DEF IInv, sourceVars, decodeVars, Counted, GatesAgree, AudioRestarts, Untold
  <1>8. \A t \in Streams : /\ Fresh(t)' = Fresh(t) /\ DecodedAt(t)' = DecodedAt(t)
                           /\ Announced(t)' = Announced(t) /\ ~Sending(t)'
    BY <1>3 DEF decodeVars, Fresh, DecodedAt, Announced, Sending
  <1>9. Sending(u) /\ \A t \in Streams \ {u} : ~Sending(t)
    BY <1>1, <1>2 DEF Sending
  <1>10. \A t \in Streams : /\ DemuxedAt(t)' = DemuxedAt(t)
                            /\ FreshDemux(t)' <=> FreshDemux(t)
    <2>1. packets'[u] # <<>>
      BY <1>5
    <2>2. DemuxedAt(u)' = p.at /\ ~FreshDemux(u)'
      BY <2>1, <1>5, <1>8 DEF DemuxedAt, QueuedAt, FreshDemux, FreshQueue
    <2>3. DemuxedAt(u) = p.at /\ ~FreshDemux(u)
      BY <1>2, <1>9 DEF DemuxedAt, FreshDemux
    <2>4. \A t \in Streams \ {u} : DemuxedAt(t)' = DemuxedAt(t) /\ (FreshDemux(t)' <=> FreshDemux(t))
      BY <1>4, <1>8, <1>9 DEF DemuxedAt, QueuedAt, FreshDemux, FreshQueue
    <2> QED BY <2>2, <2>3, <2>4
  <1>11. ChunkFollows' /\ PeerFollows'
    BY <1>3, <1>7, <1>8, <1>10 DEF IInv, ChunkFollows, PeerFollows, BreakIn, sourceVars
  <1>12. HandFollows'
    BY <1>8 DEF HandFollows
  <1>13. StreamsKept'
    BY <1>2, <1>3, <1>4, <1>5 DEF IInv, StreamsKept
  <1>14. p.discontinuity \/ FreshQueue(u) \/ p.at = QueuedAt(u)
    BY <1>2, <1>9 DEF IInv, HandFollows
  <1>15. QueueFollows'
    <2> SUFFICES ASSUME NEW t \in Streams, NEW i \in 1 .. Len(packets'[t])
                 PROVE  \/ packets'[t][i].discontinuity
                        \/ i = 1 /\ (Fresh(t) \/ packets'[t][i].at = DecodedAt(t))
                        \/ i > 1 /\ packets'[t][i].at = packets'[t][i - 1].at
      BY <1>8 DEF QueueFollows
    <2>1. CASE t # u \/ i \in 1 .. n
      <3>1. packets'[t][i] = packets[t][i] /\ i \in 1 .. Len(packets[t])
        BY <2>1, <1>3, <1>4, <1>5
      <3>2. i > 1 => packets'[t][i - 1] = packets[t][i - 1]
        BY <2>1, <3>1, <1>3, <1>4, <1>5
      <3> QED BY <3>1, <3>2 DEF IInv, QueueFollows
    <2>2. CASE t = u /\ i = n + 1
      <3>1. CASE n = 0
        BY <2>2, <3>1, <1>3, <1>5, <1>14 DEF FreshQueue, QueuedAt
      <3>2. CASE n > 0
        <4>1. ~FreshQueue(u) /\ QueuedAt(u) = packets[u][n].at
          BY <3>2, <1>3 DEF FreshQueue, QueuedAt
        <4>2. n \in 1 .. n /\ (n + 1) - 1 = n
          BY <3>2
        <4> QED BY <2>2, <3>2, <4>1, <4>2, <1>5, <1>14
      <3> QED BY <3>1, <3>2
    <2> QED BY <2>1, <2>2, <1>5
  <1> QED BY <1>6, <1>7, <1>11, <1>12, <1>13, <1>15 DEF IInv

-----------------------------------------------------------------------------
(* A decoder takes a packet, or drops it and waits.                         *)
LEMMA TakeFollows ==
  ASSUME IInv, NEW u \in Streams, TakePacket(u),
         Fresh(u)' \/ DecodedAt(u)' = Head(packets[u]).at,
         \A t \in Streams \ {u} : /\ Fresh(t) => Fresh(t)'
                                  /\ Fresh(t)' \/ DecodedAt(t)' = DecodedAt(t)
  PROVE  /\ StreamsKept' /\ QueueFollows' /\ HandFollows' /\ ChunkFollows' /\ PeerFollows'
         /\ Counted'
         /\ packets' \in [Streams -> Seq(Packet)]
         /\ \A t \in Streams : Len(packets'[t]) <= PacketCapacity
  <1>1. packets[u] \in Seq(Packet) /\ packets[u] # <<>>
    BY DEF IInv, TypeOK, TakePacket
  <1>2. PICK n \in Nat \ {0}, p \in Packet :
          n = Len(packets[u]) /\ p = packets[u][1] /\ p = Head(packets[u])
    BY <1>1, TailAt
  <1>3. packets'[u] = Tail(packets[u]) /\ \A t \in Streams \ {u} : packets'[t] = packets[t]
    BY DEF IInv, TypeOK, TakePacket
  <1>4. /\ packets'[u] \in Seq(Packet) /\ Len(packets'[u]) = n - 1
        /\ \A i \in 1 .. n - 1 : packets'[u][i] = packets[u][i + 1]
    BY <1>1, <1>2, <1>3, TailAt
  <1>5. UNCHANGED <<sourceVars, chunks, demuxVars>>
    BY DEF TakePacket
  <1>6. packets' \in [Streams -> Seq(Packet)]
    BY <1>4 DEF IInv, TypeOK, TakePacket
  <1>7. \A t \in Streams : Len(packets'[t]) <= PacketCapacity
    BY <1>2, <1>3, <1>4, RecoveryAssumption DEF IInv, TypeOK
  <1>8. StreamsKept'
    <2> SUFFICES ASSUME NEW t \in Streams, NEW i \in 1 .. Len(packets'[t])
                 PROVE  packets'[t][i].stream = t
      BY DEF StreamsKept
    <2>1. CASE t # u
      BY <2>1, <1>3 DEF IInv, StreamsKept
    <2>2. CASE t = u
      <3>1. i + 1 \in 1 .. n /\ packets'[u][i] = packets[u][i + 1]
        BY <2>2, <1>4
      <3> QED BY <2>2, <3>1, <1>2 DEF IInv, StreamsKept
    <2> QED BY <2>1, <2>2
  <1>9. \A t \in Streams : /\ FreshQueue(t) => FreshQueue(t)'
                           /\ FreshQueue(t)' \/ QueuedAt(t)' = QueuedAt(t)
    <2>1. ~FreshQueue(u) /\ QueuedAt(u) = packets[u][n].at
      BY <1>1, <1>2 DEF FreshQueue, QueuedAt
    <2>2. FreshQueue(u)' \/ QueuedAt(u)' = QueuedAt(u)
      <3>1. CASE n = 1
        <4>1. packets'[u] = <<>>
          BY <3>1, <1>4
        <4>2. FreshQueue(u)' \/ QueuedAt(u)' = p.at
          BY <4>1, <1>2 DEF FreshQueue, QueuedAt
        <4> QED BY <2>1, <3>1, <4>2, <1>2
      <3>2. CASE n > 1
        <4>1. packets'[u] # <<>> /\ packets'[u][n - 1] = packets[u][n]
          <5>1. n - 1 \in 1 .. n - 1 /\ (n - 1) + 1 = n
            BY <3>2
          <5>2. packets'[u][n - 1] = packets[u][(n - 1) + 1]
            BY <5>1, <1>4
          <5>3. packets'[u] # <<>>
            BY <5>1, <1>4
          <5> QED BY <5>1, <5>2, <5>3
        <4>2. QueuedAt(u)' = packets[u][n].at
          BY <4>1, <1>4 DEF QueuedAt
        <4> QED BY <2>1, <4>2
      <3> QED BY <3>1, <3>2
    <2>3. ASSUME NEW t \in Streams \ {u}
          PROVE  /\ FreshQueue(t) => FreshQueue(t)'
                 /\ FreshQueue(t)' \/ QueuedAt(t)' = QueuedAt(t)
      <3>1. packets'[t] = packets[t]
        BY <1>3
      <3>2. (Fresh(t) => Fresh(t)') /\ (Fresh(t)' \/ DecodedAt(t)' = DecodedAt(t))
        BY Zenon
      <3> QED BY <3>1, <3>2 DEF FreshQueue, QueuedAt
    <2> QED BY <2>1, <2>2, <2>3
  <1>10. \A t \in Streams : /\ FreshDemux(t) => FreshDemux(t)'
                            /\ FreshDemux(t)' \/ DemuxedAt(t)' = DemuxedAt(t)
                            /\ Announced(t)' = Announced(t) /\ Sending(t)' = Sending(t)
    BY <1>5, <1>9 DEF demuxVars, FreshDemux, DemuxedAt, Sending, Announced
  <1>11. HandFollows'
    BY <1>5, <1>9, <1>10 DEF IInv, HandFollows, demuxVars
  <1>12. ChunkFollows' /\ PeerFollows' /\ Counted'
    BY <1>5, <1>10 DEF IInv, ChunkFollows, PeerFollows, Counted, Untold, BreakIn, sourceVars
  <1>13. QueueFollows'
    <2> SUFFICES ASSUME NEW t \in Streams, NEW i \in 1 .. Len(packets'[t])
                 PROVE  \/ packets'[t][i].discontinuity
                        \/ i = 1 /\ (Fresh(t)' \/ packets'[t][i].at = DecodedAt(t)')
                        \/ i > 1 /\ packets'[t][i].at = packets'[t][i - 1].at
      BY DEF QueueFollows
    <2>1. CASE t # u
      <3>1. packets'[t] = packets[t]
        BY <2>1, <1>3
      <3>2. \/ packets[t][i].discontinuity
            \/ i = 1 /\ (Fresh(t) \/ packets[t][i].at = DecodedAt(t))
            \/ i > 1 /\ packets[t][i].at = packets[t][i - 1].at
        BY <3>1 DEF IInv, QueueFollows
      <3>3. (Fresh(t) => Fresh(t)') /\ (Fresh(t)' \/ DecodedAt(t)' = DecodedAt(t))
        <4>1. t \in Streams \ {u}
          BY <2>1
        <4> QED BY <4>1, Zenon
      <3> QED BY <3>1, <3>2, <3>3
    <2>2. CASE t = u
      <3>1. i \in 1 .. n - 1 /\ i + 1 \in 1 .. n /\ packets'[u][i] = packets[u][i + 1]
        BY <2>2, <1>4
      <3>2. packets[u][i + 1].discontinuity \/ packets[u][i + 1].at = packets[u][i].at
        <4>1. (i + 1) - 1 = i /\ i + 1 # 1 /\ i + 1 \in 1 .. Len(packets[u])
          BY <3>1, <1>2
        <4> QED BY <4>1 DEF IInv, QueueFollows
      <3>3. CASE i = 1
        BY <2>2, <3>1, <3>2, <3>3, <1>2
      <3>4. CASE i > 1
        <4>1. packets'[u][i - 1] = packets[u][i]
          <5>1. i - 1 \in 1 .. n - 1 /\ (i - 1) + 1 = i
            BY <3>1, <3>4
          <5>2. packets'[u][i - 1] = packets[u][(i - 1) + 1]
            BY <5>1, <1>4
          <5> QED BY <5>1, <5>2
        <4> QED BY <2>2, <3>1, <3>2, <3>4, <4>1
      <3> QED BY <3>1, <3>3, <3>4
    <2> QED BY <2>1, <2>2
  <1> QED BY <1>6, <1>7, <1>8, <1>11, <1>12, <1>13

LEMMA DropKeeps ==
  ASSUME IInv, DropVideo
  PROVE  IInv'
  <1>1. TakePacket("video") /\ waiting' = TRUE /\ UNCHANGED <<nvdec, generation, audio, failed>>
    BY Zenon DEF DropVideo
  <1>2. Fresh("video")'
    BY <1>1 DEF Fresh
  <1>3. \A t \in Streams \ {"video"} : (Fresh(t)' <=> Fresh(t)) /\ DecodedAt(t)' = DecodedAt(t)
    BY <1>1 DEF Fresh, DecodedAt, Streams
  <1>4. /\ StreamsKept' /\ QueueFollows' /\ HandFollows' /\ ChunkFollows' /\ PeerFollows'
        /\ Counted'
        /\ packets' \in [Streams -> Seq(Packet)]
        /\ \A t \in Streams : Len(packets'[t]) <= PacketCapacity
    BY <1>1, <1>2, <1>3, TakeFollows DEF Streams
  <1>5. waiting' \in BOOLEAN
    BY <1>1, Zenon
  <1>6. TypeOK'
    BY <1>1, <1>4, <1>5 DEF IInv, TypeOK, TakePacket, sourceVars, demuxVars
  <1>7. GatesAgree' /\ AudioRestarts'
    BY <1>1 DEF IInv, GatesAgree, AudioRestarts
  <1> QED BY <1>4, <1>6, <1>7 DEF IInv

\* A packet that passes the gate of decode_video passes the decoder's, and is a
\* keyframe unless it goes on with the timeline of the picture before it.
LEMMA PassesBoth ==
  ASSUME IInv, ~failed, DecodeVideo
  PROVE  LET p == Head(packets["video"])
         IN  /\ ~StillWaiting(nvdec.waiting, p)
             /\ p.keyframe \/ p.at = generation.last
  <1>1. packets["video"] \in Seq(Packet) /\ packets["video"] # <<>>
    BY DEF IInv, TypeOK, Streams, DecodeVideo, TakePacket
  <1>2. PICK p \in Packet : p = Head(packets["video"]) /\ p = packets["video"][1]
    BY <1>1, TailAt
  <1>3. p.keyframe \/ (~waiting /\ ~p.discontinuity)
    BY <1>2 DEF DecodeVideo, StillWaiting
  <1>4. p.discontinuity \/ Fresh("video") \/ p.at = DecodedAt("video")
    BY <1>1, <1>2, TailAt DEF IInv, QueueFollows, Streams
  <1>5. ~StillWaiting(nvdec.waiting, p)
    BY <1>3 DEF IInv, GatesAgree, StillWaiting
  <1> QED BY <1>2, <1>3, <1>4, <1>5 DEF Fresh, DecodedAt

LEMMA DecodeKeeps ==
  ASSUME IInv, ~failed, DecodeVideo
  PROVE  IInv'
  <1>1. packets["video"] \in Seq(Packet) /\ packets["video"] # <<>>
    BY DEF IInv, TypeOK, Streams, DecodeVideo, TakePacket
  <1>2. PICK p \in Packet : p = Head(packets["video"]) /\ p = packets["video"][1]
    BY <1>1, TailAt
  <1>3. ~StillWaiting(nvdec.waiting, p)
    BY <1>2, PassesBoth
  <1>4. /\ TakePacket("video") /\ waiting' = FALSE /\ audio' = audio
        /\ \/ /\ nvdec' = [waiting |-> FALSE, reset |-> FALSE]
              /\ generation' \in [first : {generation.first, p.at}, last : {p.at}, format : {p.format}]
              /\ failed' = failed
           \/ /\ nvdec' = [waiting |-> TRUE, reset |-> TRUE]
              /\ failed' = TRUE /\ generation' = generation
    BY <1>2, <1>3 DEF DecodeVideo
  <1>5. Fresh("video")' \/ DecodedAt("video")' = Head(packets["video"]).at
    BY <1>2, <1>4 DEF Fresh, DecodedAt
  <1>6. \A t \in Streams \ {"video"} : (Fresh(t)' <=> Fresh(t)) /\ DecodedAt(t)' = DecodedAt(t)
    BY <1>4 DEF Fresh, DecodedAt, Streams
  <1>7. /\ StreamsKept' /\ QueueFollows' /\ HandFollows' /\ ChunkFollows' /\ PeerFollows'
        /\ Counted'
        /\ packets' \in [Streams -> Seq(Packet)]
        /\ \A t \in Streams : Len(packets'[t]) <= PacketCapacity
    BY <1>4, <1>5, <1>6, TakeFollows DEF Streams
  <1>8. waiting' \in BOOLEAN /\ failed' \in BOOLEAN
    BY <1>4, Zenon DEF IInv, TypeOK
  <1>9. generation' \in [first : {0} \cup Timeline, last : {0} \cup Timeline,
                         format : {NoFormat} \cup Format]
    BY <1>4 DEF IInv, TypeOK, Packet
  <1>10. nvdec' \in [waiting : BOOLEAN, reset : BOOLEAN]
    <2>1. nvdec' \in {[waiting |-> FALSE, reset |-> FALSE], [waiting |-> TRUE, reset |-> TRUE]}
      BY <1>4, Zenon
    <2>2. CASE nvdec' = [waiting |-> FALSE, reset |-> FALSE]
      BY <2>2
    <2>3. CASE nvdec' = [waiting |-> TRUE, reset |-> TRUE]
      BY <2>3
    <2> QED BY <2>1, <2>2, <2>3
  <1>11. TypeOK'
    BY <1>4, <1>7, <1>8, <1>9, <1>10 DEF IInv, TypeOK, TakePacket, sourceVars, demuxVars
  <1>12. GatesAgree' /\ AudioRestarts'
    BY <1>4 DEF IInv, GatesAgree, AudioRestarts
  <1> QED BY <1>7, <1>11, <1>12 DEF IInv

LEMMA AudioKeeps ==
  ASSUME IInv, DecodeAudio
  PROVE  IInv'
  <1>1. packets["audio"] \in Seq(Packet) /\ packets["audio"] # <<>>
    BY DEF IInv, TypeOK, Streams, DecodeAudio, TakePacket
  <1>2. PICK p \in Packet : p = Head(packets["audio"]) /\ p = packets["audio"][1]
    BY <1>1, TailAt
  <1>3. /\ TakePacket("audio") /\ UNCHANGED <<waiting, nvdec, generation, failed>>
        /\ audio' = [first |-> IF p.discontinuity \/ audio.first = 0 THEN p.at ELSE audio.first,
                     last  |-> p.at]
    BY <1>2 DEF DecodeAudio
  <1>4. DecodedAt("audio")' = Head(packets["audio"]).at
    BY <1>2, <1>3 DEF DecodedAt
  <1>5. \A t \in Streams \ {"audio"} : (Fresh(t)' <=> Fresh(t)) /\ DecodedAt(t)' = DecodedAt(t)
    BY <1>3 DEF Fresh, DecodedAt, Streams
  <1>6. /\ StreamsKept' /\ QueueFollows' /\ HandFollows' /\ ChunkFollows' /\ PeerFollows'
        /\ Counted'
        /\ packets' \in [Streams -> Seq(Packet)]
        /\ \A t \in Streams : Len(packets'[t]) <= PacketCapacity
    BY <1>3, <1>4, <1>5, TakeFollows DEF Streams
  <1>7. audio' \in [first : {0} \cup Timeline, last : {0} \cup Timeline]
    BY <1>3 DEF IInv, TypeOK, Packet
  <1>8. TypeOK'
    BY <1>3, <1>6, <1>7 DEF IInv, TypeOK, TakePacket, sourceVars, demuxVars
  <1>9. GatesAgree'
    BY <1>3 DEF IInv, GatesAgree
  <1>10. p.discontinuity \/ audio.last = 0 \/ p.at = audio.last
    BY <1>1, <1>2, TailAt DEF IInv, QueueFollows, Streams, Fresh, DecodedAt
  <1>11. AudioRestarts'
    BY <1>3, <1>10 DEF IInv, AudioRestarts
  <1> QED BY <1>6, <1>8, <1>9, <1>11 DEF IInv

-----------------------------------------------------------------------------
LEMMA StepIInv ==
  ASSUME IInv, [Next]_vars
  PROVE  IInv'
  <1>1. CASE ~failed /\ Source
    BY <1>1, DeliverKeeps, BreakKeeps DEF Source
  <1>2. CASE ~failed /\ Demux
    BY <1>2, DemuxKeeps
  <1>3. CASE ~failed /\ Route
    BY <1>3, RouteKeeps
  <1>4. CASE ~failed /\ DropVideo
    BY <1>4, DropKeeps
  <1>5. CASE ~failed /\ DecodeVideo
    BY <1>5, DecodeKeeps
  <1>6. CASE ~failed /\ DecodeAudio
    BY <1>6, AudioKeeps
  <1>7. CASE UNCHANGED vars
    BY <1>7 DEF vars, sourceVars, demuxVars, decodeVars, IInv, TypeOK, Counted, Untold, GatesAgree,
                StreamsKept, QueueFollows, HandFollows, ChunkFollows, PeerFollows, AudioRestarts,
                BreakIn, FreshDemux, FreshQueue, Fresh, Sending, Announced, DemuxedAt, QueuedAt,
                DecodedAt
  <1> QED BY <1>1, <1>2, <1>3, <1>4, <1>5, <1>6, <1>7 DEF Next

LEMMA IInvAlways == Spec => []IInv
  BY InitIInv, StepIInv, PTL DEF Spec

(* The audio decoder has decoded frames of one timeline only since it was    *)
(* last reset, wherever the flag of the break had to wait.                   *)
THEOREM AudioAlwaysRestarts == Spec => []AudioRestarts
  <1>1. IInv => AudioRestarts
    BY DEF IInv
  <1> QED BY <1>1, IInvAlways, PTL

(* decode_video hands the parser the first picture of another timeline only  *)
(* if it is a keyframe, and NvdecDecoder, whose gate is never the narrower,   *)
(* takes it: a picture never refers to one that the parser has not had.       *)
THEOREM ReferencesStayIntact == Spec => ReferencesIntact
  <1>1. ASSUME IInv, [Next]_vars
        PROVE  [generation'.last # generation.last => Head(packets["video"]).keyframe]_vars
    <2>1. CASE ~failed /\ DecodeVideo
      <3>1. \/ generation' = generation
            \/ generation'.last = Head(packets["video"]).at
        BY <2>1 DEF DecodeVideo
      <3> QED BY <2>1, <3>1, <1>1, PassesBoth
    <2>2. CASE ~failed /\ (Source \/ Demux \/ Route \/ DropVideo \/ DecodeAudio)
      <3>1. generation' = generation
        BY <2>2 DEF Source, Deliver, Disconnect, Reconnect, Demux, Route, DropVideo, DecodeAudio,
                    decodeVars
      <3> QED BY <3>1
    <2>3. CASE UNCHANGED vars
      BY <2>3
    <2> QED BY <1>1, <2>1, <2>2, <2>3 DEF Next
  <1> QED BY <1>1, IInvAlways, PTL DEF Spec, ReferencesIntact
=============================================================================
