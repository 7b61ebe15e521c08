---------------------------- MODULE InputHealth -----------------------------
(***************************************************************************)
(* What the Controller shows of the input of a running pipeline              *)
(* (crates/runtime/src/lib.rs): the statistics of its connection, which a     *)
(* monitor samples, and whether it is healthy.  Three tasks of single.rs      *)
(* write the latter, each when it comes to it: the task that meets a mark,    *)
(* the decoder that has a picture, and the monitor.  The packets on their way *)
(* to the decoder lie between them.                                           *)
(***************************************************************************)
EXTENDS Naturals, Sequences

CONSTANT MaxItems   \* the places of the transport and of the video channel

VARIABLES
  protocol,   \* "srt", "rtsp" or "rtmp"
  up, had,    \* the input is connected; it has ever been
  marks,      \* the streams whose next packet is marked, and "chunk"
  chunks,     \* SRT: the marks of the chunks in the transport channel
  video,      \* the packets in the video channel
  waiting,    \* waiting_for_idr
  healthy,    \* InputRuntimeState.healthy, the camera's and synchronized
  shown,      \* connected in the statistics of the Controller
  sample,     \* the statistics the monitor has read and not yet applied
  phase       \* "off", "live", "ended" (all tasks), "stopping" (the monitor), "over"

flowVars == <<chunks, video, waiting>>
linkVars == <<up, had, marks>>
vars == <<protocol, linkVars, flowVars, healthy, shown, sample, phase>>

Media == {"video", "audio"}

TypeOK ==
  /\ protocol \in {"none", "srt", "rtsp", "rtmp"}
  /\ up \in BOOLEAN /\ had \in BOOLEAN
  /\ marks \subseteq Media \cup {"chunk"}
  /\ chunks \in Seq(BOOLEAN) /\ Len(chunks) <= MaxItems
  /\ video \in Seq([marked : BOOLEAN, key : BOOLEAN]) /\ Len(video) <= MaxItems
  /\ waiting \in BOOLEAN /\ healthy \in BOOLEAN /\ shown \in BOOLEAN
  /\ sample \in {"none", "up", "down"}
  /\ phase \in {"off", "live", "ended", "stopping", "over"}

Init ==
  /\ protocol = "none"
  /\ up = FALSE /\ had = FALSE /\ marks = {}
  /\ chunks = <<>> /\ video = <<>> /\ waiting = TRUE
  /\ healthy = FALSE /\ shown = FALSE
  /\ sample = "none"
  /\ phase = "off"

(* Controller::new: an RTMP listener has no publisher yet; the other inputs  *)
(* are connected and shown as ready.                                         *)
Start(scheme) ==
  LET ready == scheme # "rtmp"
  IN /\ phase = "off"
     /\ phase' = "live"
     /\ protocol' = scheme
     /\ up' = ready /\ had' = ready
     /\ healthy' = ready /\ shown' = ready
     /\ UNCHANGED <<marks, flowVars, sample>>

-----------------------------------------------------------------------------
Live == phase = "live"

\* mark_input_discontinuity, with a packet or a chunk that is marked.
MarkInput(marked) == healthy' = (healthy /\ ~marked)

ToVideo(s, marked, key) ==
  IF s = "video" THEN Append(video, [marked |-> marked, key |-> key]) ELSE video

(* receive_packets: each marked packet marks the input, of both streams.  A *)
(* camera's packet may have a reason of its own.                             *)
Packet(s, key, own) ==
  /\ Live /\ protocol # "srt" /\ up /\ Len(video) < MaxItems
  /\ own => protocol = "rtsp"
  /\ MarkInput(own \/ s \in marks)
  /\ video' = ToVideo(s, own \/ s \in marks, key)
  /\ marks' = IF own THEN marks ELSE marks \ {s}
  /\ UNCHANGED <<protocol, up, had, chunks, waiting, shown, sample, phase>>

\* receive_transport.
Chunk ==
  /\ Live /\ protocol = "srt" /\ up /\ Len(chunks) < MaxItems
  /\ chunks' = Append(chunks, "chunk" \in marks)
  /\ marks' = marks \ {"chunk"}
  /\ UNCHANGED <<protocol, up, had, video, waiting, healthy, shown, sample, phase>>

(* demux_transport: a marked chunk marks the input and the next packet of   *)
(* either stream.  "none": it completes no packet.                           *)
Demux(s, key) ==
  /\ Live /\ chunks # <<>> /\ Len(video) < MaxItems
  /\ LET pending == IF Head(chunks) THEN Media ELSE marks
     IN /\ video' = ToVideo(s, s \in pending, key)
        /\ marks' = (pending \ {s}) \cup (marks \cap {"chunk"})
  /\ MarkInput(Head(chunks))
  /\ chunks' = Tail(chunks)
  /\ UNCHANGED <<protocol, up, had, waiting, shown, sample, phase>>

(* decode_video and record_decoded: with the first picture the input is      *)
(* shown as healthy, be the packet of the present connection or not.          *)
Decode(frames) ==
  LET waits == waiting \/ Head(video).marked
  IN /\ Live /\ video # <<>>
     /\ video' = Tail(video)
     /\ waiting' = (waits /\ ~Head(video).key)
     /\ healthy' = (healthy \/ (frames > 0 /\ ~waiting'))
     /\ UNCHANGED <<protocol, linkVars, chunks, shown, sample, phase>>

-----------------------------------------------------------------------------
\* The source loses the connection and makes another one.
Lose ==
  /\ Live /\ up
  /\ up' = FALSE
  /\ UNCHANGED <<protocol, had, marks, flowVars, healthy, shown, sample, phase>>

Reconnect ==
  /\ Live /\ ~up
  /\ up' = TRUE /\ had' = TRUE
  /\ marks' = IF ~had THEN marks
              ELSE IF protocol = "srt" THEN marks \cup {"chunk"} ELSE Media
  /\ UNCHANGED <<protocol, flowVars, healthy, shown, sample, phase>>

(* monitor_transport and monitor_packet_source.  The statistics are read,    *)
(* then the lock of the Controller is waited for.  stop is seen only in      *)
(* between.                                                                  *)
Sample ==
  /\ phase \in {"live", "ended"} /\ sample = "none"
  /\ sample' = IF up THEN "up" ELSE "down"
  /\ UNCHANGED <<protocol, linkVars, flowVars, healthy, shown, phase>>

\* A plausible bug: a sample only replaces the statistics.
ApplyShown ==
  /\ sample # "none"
  /\ shown' = (sample = "up")
  /\ sample' = "none"
  /\ UNCHANGED <<protocol, linkVars, flowVars, healthy, phase>>

\* set_input_srt, set_input_rtsp and set_input_rtmp.
Apply ==
  /\ sample # "none"
  /\ shown' = (sample = "up")
  /\ healthy' = (healthy /\ sample = "up")
  /\ sample' = "none"
  /\ UNCHANGED <<protocol, linkVars, flowVars, phase>>

\* The tasks have ended or were aborted: a source that was closed is down.
TasksEnd ==
  /\ Live
  /\ phase' = "ended"
  /\ up' \in {up, FALSE}
  /\ UNCHANGED <<protocol, had, marks, flowVars, healthy, shown, sample>>

\* A plausible bug: the monitors are stopped without a last sample.
LastSampleSkipped ==
  /\ phase = "ended"
  /\ phase' = "stopping"
  /\ UNCHANGED <<protocol, linkVars, flowVars, healthy, shown, sample>>

\* The last sample, which only a packet source gives, and monitor_stop.
LastSample ==
  /\ phase = "ended"
  /\ phase' = "stopping"
  /\ IF protocol = "srt" THEN UNCHANGED <<healthy, shown>>
     ELSE shown' = up /\ healthy' = (healthy /\ up)
  /\ UNCHANGED <<protocol, linkVars, flowVars, sample>>

\* The monitor is joined once it has applied what it had read.
MonitorEnds ==
  /\ phase = "stopping" /\ sample = "none"
  /\ phase' = "over"
  /\ UNCHANGED <<protocol, linkVars, flowVars, healthy, shown, sample>>

\* The run is dropped, and the monitor with it.
Drop ==
  /\ phase # "off"
  /\ phase' = "off"
  /\ up' = FALSE /\ had' = FALSE /\ marks' = {}
  /\ chunks' = <<>> /\ video' = <<>> /\ waiting' = TRUE
  /\ sample' = "none"
  /\ UNCHANGED <<protocol, healthy, shown>>

Next ==
  \/ \E s \in Media, key, own \in BOOLEAN : Packet(s, key, own)
  \/ Chunk
  \/ \E s \in Media \cup {"none"}, key \in BOOLEAN : Demux(s, key)
  \/ \E frames \in 0 .. 1 : Decode(frames)
  \/ Lose \/ Reconnect \/ Sample \/ Apply
  \/ TasksEnd \/ LastSample \/ MonitorEnds

(* The executor runs the tasks and time passes.  Nothing is assumed of the   *)
(* network or of the codec.                                                  *)
Fairness ==
  /\ WF_vars(\E s \in Media \cup {"none"}, key \in BOOLEAN : Demux(s, key))
  /\ WF_vars(\E frames \in 0 .. 1 : Decode(frames))
  /\ WF_vars(Sample) /\ WF_vars(Apply)
  /\ WF_vars(LastSample) /\ WF_vars(MonitorEnds)
=============================================================================
