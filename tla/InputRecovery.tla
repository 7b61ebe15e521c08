---------------------------- MODULE InputRecovery ----------------------------
(***************************************************************************)
(* How a single pipeline gets over a break of its SRT input.  A reconnection *)
(* of the transport (crates/srt/src/lib.rs) or a gap in the continuity       *)
(* counters (crates/mpegts/src/stream.rs) starts a new timeline of a stream. *)
(* It is told downstream by flags on the chunks and packets that happen to   *)
(* come next: receive_transport, demux_transport and decode_video of         *)
(* crates/runtime/src/single.rs pass them through two bounded queues to      *)
(* NvdecDecoder (crates/nvidia/src/decoder.rs) and the AAC decoder           *)
(* (crates/aac/src/lib.rs), which start afresh when they see one.            *)
(*                                                                         *)
(* A chunk completes one access unit or none; corrupt data counts as a gap.  *)
(* A gap is a loss that the counters reveal; StreamDemuxer has the others.    *)
(* A peer may come back with another format.  The timelines, `at`, are not    *)
(* in the code: they say which pictures refer to each other.                 *)
(***************************************************************************)
EXTENDS Naturals, Sequences

CONSTANTS
  ChunkCapacity,    \* SingleQueuePlan.transport_messages
  PacketCapacity,   \* SingleQueuePlan.video_packets and audio_packets
  Format,           \* picture formats a peer may send
  FirstFormat,      \* the format that the peer sends when the run starts
  MaxTimeline       \* bound of the model: timelines of one stream

ASSUME RecoveryAssumption ==
  /\ ChunkCapacity \in Nat \ {0}
  /\ PacketCapacity \in Nat \ {0}
  /\ FirstFormat \in Format /\ 0 \notin Format
  /\ MaxTimeline \in Nat \ {0}

VARIABLES
  connected,      \* the transport has a handle
  reconnects,     \* TransportInner.reconnects
  received,       \* SrtTransport.received_reconnects
  format,         \* what the peer sends now
  timeline,       \* the timeline of each stream at the peer's end
  chunks,         \* the transport queue
  marked,         \* StreamDemuxer.pending_discontinuity: streams
  pending,        \* pending_discontinuity of demux_transport: streams
  hand,           \* the packet that route_demux_events is sending, if any
  packets,        \* the packet queue of each stream
  waiting,        \* waiting_for_idr of decode_video
  nvdec,          \* waiting_for_idr and reset_pending of NvdecDecoder
  generation,     \* the native decoder: its format and the timelines of its first packet and its last
  audio,          \* the same of the AAC decoder
  failed          \* decode returned an error, which ends the run

sourceVars == <<connected, reconnects, received, format, timeline>>
demuxVars == <<marked, pending, hand>>
decodeVars == <<waiting, nvdec, generation, audio, failed>>
vars == <<sourceVars, chunks, demuxVars, packets, decodeVars>>

Streams == {"video", "audio"}
Timeline == 1 .. MaxTimeline
NoFormat == 0

\* A chunk: what it completes, whether it is the first since a reconnection,
\* and the streams whose counter jumps in it.
Chunk == [unit : {"key", "delta", "audio", "none"}, discontinuity : BOOLEAN,
          gap : SUBSET Streams, at : Timeline, format : Format]

Packet == [stream : Streams, keyframe : BOOLEAN, discontinuity : BOOLEAN, at : Timeline,
           format : Format]

TypeOK ==
  /\ connected \in BOOLEAN
  /\ reconnects \in 0 .. MaxTimeline
  /\ received \in 0 .. MaxTimeline
  /\ format \in Format
  /\ timeline \in [Streams -> Timeline]
  /\ chunks \in Seq(Chunk) /\ Len(chunks) <= ChunkCapacity
  /\ marked \in SUBSET Streams
  /\ pending \in SUBSET Streams
  /\ hand \in Seq(Packet) /\ Len(hand) <= 1
  /\ packets \in [Streams -> Seq(Packet)]
  /\ \A s \in Streams : Len(packets[s]) <= PacketCapacity
  /\ waiting \in BOOLEAN
  /\ nvdec \in [waiting : BOOLEAN, reset : BOOLEAN]
  /\ generation \in [first : {0} \cup Timeline, last : {0} \cup Timeline,
                     format : {NoFormat} \cup Format]
  /\ audio \in [first : {0} \cup Timeline, last : {0} \cup Timeline]
  /\ failed \in BOOLEAN

Init ==
  /\ connected = TRUE
  /\ reconnects = 0
  /\ received = 0
  /\ format = FirstFormat
  /\ timeline = [s \in Streams |-> 1]
  /\ chunks = <<>>
  /\ marked = {}
  /\ pending = {}
  /\ hand = <<>>
  /\ packets = [s \in Streams |-> <<>>]
  /\ waiting = TRUE
  /\ nvdec = [waiting |-> TRUE, reset |-> FALSE]
  /\ generation = [first |-> 0, last |-> 0, format |-> NoFormat]
  /\ audio = [first |-> 0, last |-> 0]
  /\ failed = FALSE

-----------------------------------------------------------------------------
StreamOf(unit) == IF unit = "audio" THEN "audio" ELSE "video"

(* receive_transport with SrtTransport::receive: a slot of the queue is     *)
(* reserved, then a message is read, in which packets may be missing.        *)
Deliver(unit, gap) ==
  /\ connected
  /\ Len(chunks) < ChunkCapacity
  /\ \A s \in gap : timeline[s] < MaxTimeline
  /\ timeline' = [s \in Streams |-> IF s \in gap THEN timeline[s] + 1 ELSE timeline[s]]
  /\ chunks' = Append(chunks, [unit |-> unit, discontinuity |-> reconnects # received, gap |-> gap,
                               at |-> timeline'[StreamOf(unit)], format |-> format])
  /\ received' = reconnects
  /\ UNCHANGED <<connected, reconnects, format, demuxVars, packets, decodeVars>>

(* The connection is lost: receive marks it and goes on to reconnect.       *)
Disconnect ==
  /\ connected
  /\ \A s \in Streams : timeline[s] < MaxTimeline
  /\ connected' = FALSE
  /\ UNCHANGED <<reconnects, received, format, timeline, chunks, demuxVars, packets, decodeVars>>

(* reconnect_if_due(true) gets a connection, maybe to a restarted peer.     *)
Reconnect ==
  /\ ~connected
  /\ connected' = TRUE
  /\ reconnects' = reconnects + 1
  /\ timeline' = [s \in Streams |-> timeline[s] + 1]
  /\ format' \in Format
  /\ UNCHANGED <<received, chunks, demuxVars, packets, decodeVars>>

-----------------------------------------------------------------------------
\* A plausible bug: a jump of the counters only drops the unit in progress.
MarksAfterQuiet(c) == IF c.discontinuity THEN {} ELSE marked

\* StreamDemuxer::push: a stream is marked when its counter jumps.  After a
\* reconnection the demuxer is a new one.
MarksAfter(c) == (IF c.discontinuity THEN {} ELSE marked) \cup c.gap

PendingAfter(c) == IF c.discontinuity THEN Streams ELSE pending

\* A plausible bug: the first packet of either stream takes the flag of both.
RemainingShared(s, flags, taken) == IF taken THEN {} ELSE flags

\* mem::take takes the flag of one stream.
Remaining(s, flags, taken) == IF taken THEN flags \ {s} ELSE flags

(* demux_transport takes a chunk; a unit that it completes becomes a packet. *)
(* A mark of the demuxer comes first: `||` leaves the other flag in place.   *)
Demux ==
  /\ hand = <<>>
  /\ chunks # <<>>
  /\ LET c == Head(chunks)
         s == StreamOf(c.unit)
         marks == MarksAfter(c)
         flags == PendingAfter(c)
     IN IF c.unit = "none"
        THEN /\ marked' = marks
             /\ pending' = flags
             /\ UNCHANGED hand
        ELSE /\ marked' = marks \ {s}
             /\ pending' = Remaining(s, flags, s \notin marks)
             /\ hand' = <<[stream |-> s, keyframe |-> c.unit # "delta", at |-> c.at,
                           discontinuity |-> s \in marks \cup flags, format |-> c.format]>>
  /\ chunks' = Tail(chunks)
  /\ UNCHANGED <<sourceVars, packets, decodeVars>>

(* send_observed: wait for a slot in the queue of the packet's stream.       *)
Route ==
  /\ hand # <<>>
  /\ LET p == Head(hand) IN
       /\ Len(packets[p.stream]) < PacketCapacity
       /\ packets' = [packets EXCEPT ![p.stream] = Append(@, p)]
  /\ hand' = <<>>
  /\ UNCHANGED <<sourceVars, chunks, marked, pending, decodeVars>>

-----------------------------------------------------------------------------
TakePacket(s) ==
  /\ packets[s] # <<>>
  /\ packets' = [packets EXCEPT ![s] = Tail(@)]
  /\ UNCHANGED <<sourceVars, chunks, demuxVars>>

\* A plausible bug: only a keyframe with the flag on it opens the gate.
StillWaitingForFlag(w, p) == (w \/ p.discontinuity) /\ ~(p.keyframe /\ p.discontinuity)

\* The keyframe gate; decode_video and NvdecDecoder each have one.
StillWaiting(w, p) == (w \/ p.discontinuity) /\ ~p.keyframe

(* decode_video drops the packet at its own gate.                           *)
DropVideo ==
  /\ TakePacket("video")
  /\ LET p == Head(packets["video"]) IN
       /\ StillWaiting(waiting, p)
       /\ waiting' = TRUE
  /\ UNCHANGED <<nvdec, generation, audio, failed>>

(* NvdecDecoder::decode and the worker: with a flag, or one that a failed    *)
(* or skipped packet has left in reset_pending, the worker starts a new      *)
(* generation.  A picture of another format than the generation's is an      *)
(* error, and so is the end of the run.                                      *)
DecodeVideo ==
  /\ TakePacket("video")
  /\ LET p == Head(packets["video"])
         reset == nvdec.reset \/ p.discontinuity
         first == IF reset \/ generation.first = 0 THEN p.at ELSE generation.first
         known == IF reset THEN NoFormat ELSE generation.format
     IN /\ ~StillWaiting(waiting, p)
        /\ waiting' = FALSE
        /\ IF StillWaiting(nvdec.waiting, p)
           THEN /\ nvdec' = [waiting |-> TRUE, reset |-> reset]
                /\ UNCHANGED <<generation, failed>>
           ELSE IF known \in {NoFormat, p.format}
           THEN /\ nvdec' = [waiting |-> FALSE, reset |-> FALSE]
                /\ generation' = [first |-> first, last |-> p.at, format |-> p.format]
                /\ UNCHANGED failed
           ELSE /\ nvdec' = [waiting |-> TRUE, reset |-> TRUE]
                /\ failed' = TRUE
                /\ UNCHANGED generation
  /\ UNCHANGED audio

(* LibxaacAudioDecoder::decode: a new decoder and timeline on the flag.      *)
DecodeAudio ==
  /\ TakePacket("audio")
  /\ LET p == Head(packets["audio"]) IN
       audio' = [first |-> IF p.discontinuity \/ audio.first = 0 THEN p.at ELSE audio.first,
                 last  |-> p.at]
  /\ UNCHANGED <<waiting, nvdec, generation, failed>>

-----------------------------------------------------------------------------
Source ==
  \/ \E unit \in {"key", "delta", "audio", "none"}, gap \in SUBSET Streams : Deliver(unit, gap)
  \/ Disconnect \/ Reconnect

Next ==
  \/ ~failed /\ (Source \/ Demux \/ Route \/ DropVideo \/ DecodeVideo \/ DecodeAudio)
  \/ failed /\ UNCHANGED vars

Spec == Init /\ [][Next]_vars

\* The tasks are polled, the peer comes back, and it keeps sending keyframes.
FairSpec ==
  /\ Spec
  /\ WF_vars(~failed /\ Reconnect)
  /\ SF_vars(~failed /\ Deliver("key", {}))
  /\ WF_vars(~failed /\ Demux)
  /\ WF_vars(~failed /\ Route)
  /\ WF_vars(~failed /\ (DropVideo \/ DecodeVideo))
  /\ WF_vars(~failed /\ DecodeAudio)

-----------------------------------------------------------------------------
(* The parser never gets a picture that refers to pictures of a timeline it *)
(* has not seen a keyframe of, whatever gap there was and wherever its flag   *)
(* waited.                                                                   *)
ReferencesIntact ==
  [][generation'.last # generation.last => Head(packets["video"]).keyframe]_vars

(* The audio decoder and its timeline start again at every break, also when *)
(* video recovers first.                                                     *)
AudioRestarts == audio.last = audio.first

(* Video comes back after every break: a keyframe of the new timeline is     *)
(* decoded, unless there is yet another break or the run has failed.         *)
VideoResumes ==
  \A t \in Timeline :
    (timeline["video"] = t) ~> (generation.last = t \/ timeline["video"] # t \/ failed)

(* README.md: after an SRT recovery the timeline of the decoder is reset;    *)
(* docs/rfcs/0004: a connection that is rebuilt, or a loss, makes the        *)
(* decoder retire its generation before it decodes what comes next.          *)
GenerationRestarts == generation.last = generation.first
=============================================================================
