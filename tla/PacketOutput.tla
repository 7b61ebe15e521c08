---------------------------- MODULE PacketOutput ----------------------------
(***************************************************************************)
(* The output half of a pipeline that publishes over RTMP: send_packets    *)
(* (crates/runtime/src/single.rs) and RtmpPacketSink                       *)
(* (crates/rtmp/src/sink.rs) with the sequence headers of its AVC and AAC  *)
(* publishers.  The sink keeps no media.  A write that fails drops the      *)
(* packet and the connection; a background task dials again and is looked   *)
(* at once per packet; after that everything is dropped until a keyframe    *)
(* arrives, and each drop asks the video encoder for one.                    *)
(*                                                                         *)
(* The encoders never set a packet's discontinuity flag, so that branch of  *)
(* publish is left out.  output_failed only gates a log line here.          *)
(***************************************************************************)
EXTENDS ProgramEncoders

VARIABLES
  step,           \* where send_packets stands
  held,           \* the packet it works on, or "none"
  reconnects,     \* config.reconnect.enabled, fixed for the run
  connection,     \* "none", "live", or "broken" (peer lost, not yet noticed)
  task,           \* reconnect_task: "none", "running", or how it has finished
  due,            \* next_retry has passed
  waitingForIdr,  \* the media gate
  headerSent,     \* streams whose publisher has sent its sequence header
  viewer          \* what has reached the peer of this connection, {} if there is none

sinkVars == <<step, held, reconnects, connection, task, due, waitingForIdr, headerSent, viewer>>
vars == <<encoderVars, sinkVars>>

SinkStep == {"recv", "publish", "closed", "failed"}
Over == step \in {"closed", "failed"}

\* "ok": a publishing connection; "retry" and "refused": a retryable and a
\* final error; "lost": the task itself did not survive.
TaskEnd == {"ok", "retry", "refused", "lost"}

Received == Packet \cup {"avcHeader", "aacHeader"}

TypeOK ==
  /\ EncodersTypeOK
  /\ step \in SinkStep
  /\ held \in Packet \cup {"none"}
  /\ reconnects \in BOOLEAN
  /\ connection \in {"none", "live", "broken"}
  /\ task \in {"none", "running"} \cup TaskEnd
  /\ due \in BOOLEAN
  /\ waitingForIdr \in BOOLEAN
  /\ headerSent \in SUBSET Streams
  /\ viewer \in SUBSET Received

\* RtmpPacketSink::connect has succeeded before the run starts.
Init ==
  /\ EncodersInit
  /\ step = "recv"
  /\ held = "none"
  /\ reconnects \in BOOLEAN
  /\ connection = "live"
  /\ task = "none"
  /\ due = TRUE
  /\ waitingForIdr = TRUE
  /\ headerSent = {}
  /\ viewer = {}

StreamOf(p) == IF p = "audio" THEN "audio" ELSE "video"
HeaderOf(p) == IF p = "audio" THEN "aacHeader" ELSE "avcHeader"

-----------------------------------------------------------------------------
Receive ==
  /\ step = "recv"
  /\ queue # <<>>
  /\ held' = Head(queue)
  /\ queue' = Tail(queue)
  /\ step' = "publish"
  /\ UNCHANGED <<requestIdr, ended, encoder, hand, reconnects, connection, task, due,
                 waitingForIdr, headerSent, viewer>>

\* A plausible bug: only the video publisher starts again.
ResetMediaGateVideo ==
  /\ waitingForIdr' = TRUE
  /\ headerSent' = headerSent \ {"video"}

(* reset_media_gate: wait for a keyframe and send both headers again.       *)
ResetMediaGate ==
  /\ waitingForIdr' = TRUE
  /\ headerSent' = {}

\* A plausible bug: a packet is dropped and nobody is asked for a keyframe.
DropPacketSilently ==
  /\ held' = "none"
  /\ step' = "recv"
  /\ UNCHANGED <<encoderVars, reconnects>>

(* Both drop outcomes of send_packets: the packet is gone, ask for a        *)
(* keyframe.                                                                *)
DropPacket ==
  /\ held' = "none"
  /\ step' = "recv"
  /\ requestIdr' = TRUE
  /\ UNCHANGED <<ended, encoder, hand, queue, reconnects>>

(* An error that is not Io ends send_packets and with it the run.           *)
FailWith(t) ==
  /\ step' = "failed"
  /\ held' = "none"
  /\ task' = t
  /\ UNCHANGED <<encoderVars, reconnects, connection, due, waitingForIdr, headerSent, viewer>>

-----------------------------------------------------------------------------
(* ensure_connected without a connection, one branch each.                  *)
ReconnectDisabled ==
  /\ step = "publish"
  /\ connection = "none"
  /\ ~reconnects
  /\ FailWith(task)

NotYet ==
  /\ step = "publish"
  /\ connection = "none"
  /\ reconnects
  /\ \/ task = "running"
     \/ task = "none" /\ ~due
  /\ DropPacket
  /\ UNCHANGED <<connection, task, due, waitingForIdr, headerSent, viewer>>

StartTask ==
  /\ step = "publish"
  /\ connection = "none"
  /\ reconnects
  /\ task = "none"
  /\ due
  /\ task' = "running"
  /\ DropPacket
  /\ UNCHANGED <<connection, due, waitingForIdr, headerSent, viewer>>

\* A plausible bug: a failed attempt is kept and never replaced by another.
TaskErrorKept ==
  /\ step = "publish"
  /\ connection = "none"
  /\ reconnects
  /\ task \in {"retry", "lost"}
  /\ due' = (due /\ task = "lost")
  /\ DropPacket
  /\ UNCHANGED <<connection, task, waitingForIdr, headerSent, viewer>>

(* A retryable error schedules the next attempt; a task that was lost does  *)
(* not, so the next packet starts another one at once.                      *)
TaskError ==
  /\ step = "publish"
  /\ connection = "none"
  /\ reconnects
  /\ task \in {"retry", "lost"}
  /\ task' = "none"
  /\ due' = (due /\ task = "lost")
  /\ DropPacket
  /\ UNCHANGED <<connection, waitingForIdr, headerSent, viewer>>

TaskRefused ==
  /\ step = "publish"
  /\ connection = "none"
  /\ reconnects
  /\ task = "refused"
  /\ FailWith("none")

(* The connection of the finished task is taken over and publish goes on    *)
(* with the packet in hand.                                                 *)
Adopt ==
  /\ step = "publish"
  /\ connection = "none"
  /\ reconnects
  /\ task = "ok"
  /\ connection' = "live"
  /\ task' = "none"
  /\ ResetMediaGate
  /\ viewer' = {}
  /\ UNCHANGED <<encoderVars, step, held, reconnects, due>>

(* The gate: DroppedAwaitingKeyframe.                                       *)
DropAwaitingKeyframe ==
  /\ step = "publish"
  /\ connection # "none"
  /\ waitingForIdr
  /\ held # "key"
  /\ DropPacket
  /\ UNCHANGED <<connection, task, due, waitingForIdr, headerSent, viewer>>

GateOpen == ~waitingForIdr \/ held = "key"

(* The publishers put the missing header in front of the packet, and both   *)
(* are flushed.  Keyframes carry their parameter sets, so the AVC publisher *)
(* has what its header needs.  The bytes arrive only if the peer is there.  *)
SendOk ==
  /\ step = "publish"
  /\ connection # "none"
  /\ GateOpen
  /\ viewer' = IF connection = "broken" THEN viewer
               ELSE viewer \cup {held}
                      \cup (IF StreamOf(held) \in headerSent THEN {} ELSE {HeaderOf(held)})
  /\ headerSent' = headerSent \cup {StreamOf(held)}
  /\ waitingForIdr' = (waitingForIdr /\ held # "key")
  /\ held' = "none"
  /\ step' = "recv"
  /\ UNCHANGED <<encoderVars, reconnects, connection, task, due>>

(* Reading from or writing to the peer fails: Io, and send_packet           *)
(* disconnects.  The next attempt may start at once.                        *)
SendError ==
  /\ step = "publish"
  /\ connection = "broken"
  /\ GateOpen
  /\ connection' = "none"
  /\ due' = TRUE
  /\ ResetMediaGate
  /\ DropPacket
  /\ UNCHANGED <<task, viewer>>

(* A packet that the publishers reject.                                     *)
SendRejected ==
  /\ step = "publish"
  /\ connection # "none"
  /\ GateOpen
  /\ FailWith(task)

(* recv() gives None: close aborts the task and shuts the connection down.  *)
Close ==
  /\ step = "recv"
  /\ queue = <<>>
  /\ EncodersGone
  /\ step' = "closed"
  /\ task' = "none"
  /\ connection' = "none"
  /\ viewer' = {}
  /\ UNCHANGED <<encoderVars, held, reconnects, due, waitingForIdr, headerSent>>

-----------------------------------------------------------------------------
(* connect_once, running on its own, and the clock of the backoff.          *)
TaskEnds ==
  /\ task = "running"
  /\ task' \in TaskEnd
  /\ UNCHANGED <<encoderVars, step, held, reconnects, connection, due, waitingForIdr,
                 headerSent, viewer>>

BackoffExpires ==
  /\ ~due
  /\ due' = TRUE
  /\ UNCHANGED <<encoderVars, step, held, reconnects, connection, task, waitingForIdr,
                 headerSent, viewer>>

(* The network: the peer of a connection disappears.                        *)
LinkBreaks ==
  /\ connection = "live"
  /\ connection' = "broken"
  /\ viewer' = {}
  /\ UNCHANGED <<encoderVars, step, held, reconnects, task, due, waitingForIdr, headerSent>>

Encoders == ~Over /\ EncodersStep /\ UNCHANGED sinkVars
InputEnd == ~Over /\ (\E s \in Streams : InputEnds(s)) /\ UNCHANGED sinkVars
Finished == Over /\ UNCHANGED vars

Sink == Receive \/ ReconnectDisabled \/ NotYet \/ StartTask \/ TaskError \/ TaskRefused
          \/ Adopt \/ DropAwaitingKeyframe \/ SendOk \/ SendError \/ Close

Next == Encoders \/ InputEnd \/ Sink \/ SendRejected
          \/ (~Over /\ (TaskEnds \/ BackoffExpires \/ LinkBreaks)) \/ Finished

Spec == Init /\ [][Next]_vars

(* Every task that can go on is polled.  An attempt ends before its timeout *)
(* and, tried again and again, succeeds; TCP eventually reports a lost peer. *)
Fairness ==
  /\ WF_vars(~Over /\ (FirstPicture \/ EncodeVideo) /\ UNCHANGED sinkVars)
  /\ WF_vars(~Over /\ EncodeAudio /\ UNCHANGED sinkVars)
  /\ \A s \in Streams :
       /\ WF_vars(~Over /\ FlushEncoder(s) /\ UNCHANGED sinkVars)
       /\ SF_vars(~Over /\ Enqueue(s) /\ UNCHANGED sinkVars)
  /\ WF_vars(Sink)
  /\ SF_vars(SendError)
  /\ WF_vars(~Over /\ BackoffExpires)
  /\ SF_vars(~Over /\ TaskEnds /\ task' = "ok")

FairSpec == Spec /\ Fairness

-----------------------------------------------------------------------------
(* A peer never gets anything before the decoder configuration and a        *)
(* keyframe, and no audio before its own configuration, on any connection:   *)
(* the gate and the header flags always match the connection they are for.  *)
StartsDecodable ==
  /\ viewer # {} => {"avcHeader", "key"} \subseteq viewer
  /\ "audio" \in viewer => "aacHeader" \in viewer

(* A peer that has had no keyframe will get one: it has been asked for or   *)
(* is in the encoder's hands, in the queue or in the sink's.  A packet that  *)
(* the sink still has to drop asks when it is dropped.                       *)
KeyframePromised ==
  (connection = "live" /\ "key" \notin viewer /\ step = "recv")
    => (requestIdr \/ KeyUnderway)

Phase == IF Over THEN "over" ELSE IF connection = "live" THEN "on" ELSE "off"
Given == IF Phase = "on" THEN viewer ELSE {}

\* A packet that the gate will turn away asks for a keyframe when it is dropped.
Coming == requestIdr \/ KeyUnderway \/ (step = "publish" /\ (held = "key" \/ waitingForIdr))

Live == INSTANCE LiveOutput
  WITH Needs <- [i \in Received |->
                   {"avcHeader", "key"} \cup (IF i = "audio" THEN {"aacHeader"} ELSE {})],
       Key <- "key",
       phase <- Phase,
       given <- Given,
       coming <- Coming

(* The RTMP output is a live output: every peer starts with the headers and  *)
(* a keyframe, loses nothing it had, and has a keyframe coming until it gets  *)
(* one, also while a connection made in another task is taken over.           *)
ImplementsLiveOutput == Live!Spec

(* Output resumes after an outage if the network stops failing and          *)
(* reconnection is enabled and not refused.                                  *)
OutputResumes ==
  (<>[][~LinkBreaks]_vars)
    => (("key" \notin viewer) ~> ("key" \in viewer \/ Over \/ encoder["video"] \in {"first", "done"}))

(* An outage never keeps the run from ending: once both inputs have ended,  *)
(* the sink is closed.                                                       *)
EndsAfterInput == (ended = Streams) ~> Over
=============================================================================
