--------------------------- MODULE SinglePipeline ---------------------------
(***************************************************************************)
(* SinglePipeline::run (crates/runtime/src/single.rs): the tasks of a        *)
(* pipeline, joined by bounded channels that close when an end is dropped,   *)
(* the depths that they publish, and the task that waits for all of them.    *)
(*                                                                          *)
(* A channel is the number of its items.  A decoder or an encoder takes an   *)
(* item and sends its result, one item at most, in one step; a chunk holds    *)
(* one packet at most.  The places that hands add are the matter of           *)
(* VideoStage, the contents of the items that of InputRecovery and of the two *)
(* outputs, the statistics of the input that of InputHealth.                  *)
(***************************************************************************)
EXTENDS Naturals, FiniteSets

CONSTANTS
  Capacity,      \* the places of a channel; a plan gives each at least one
  MaxFailures    \* bound of the model: tasks that fail on their own in one run

VARIABLES
  input,      \* "none" before the start, then "transport" or "packets" (SingleInput)
  task,       \* how each task stands
  queue,      \* the items in each channel
  permit,     \* receive_transport has reserved a place
  held,       \* the packet that the task before the decoders waits to send
  started,    \* encode_video has its first frame
  control,    \* what the Controller publishes; depths: one of them may not be zero
  supervisor, \* run: "off", "joining", "aborting", "stopping", "returned"
  failure     \* of what kind the error was that was joined first

sourceVars == <<permit, held>>
endVars == <<supervisor, failure>>
vars == <<input, task, queue, sourceVars, started, control, endVars>>

Task == {"receive", "demux", "packetSource", "videoDecode", "audioDecode", "videoEncode",
         "audioEncode", "output"}
Media == {"video", "audio"}
Queue == Media \cup {"transport", "videoFrames", "audioFrames", "encoded"}

\* off: not spawned.  failed: an error of its own; closed: ChannelClosed.
Status == {"off", "run", "ok", "failed", "closed", "aborted"}

TypeOK ==
  /\ input \in {"none", "transport", "packets"}
  /\ task \in [Task -> Status]
  /\ queue \in [Queue -> 0 .. Capacity]
  /\ permit \in BOOLEAN /\ started \in BOOLEAN
  /\ held \in Media \cup {"none"}
  /\ control \in [running : BOOLEAN, depths : BOOLEAN]
  /\ supervisor \in {"off", "joining", "aborting", "stopping", "returned"}
  /\ failure \in {"none", "failed", "closed"}

Init ==
  /\ input = "none"
  /\ task = [t \in Task |-> "off"]
  /\ queue = [q \in Queue |-> 0]
  /\ permit = FALSE /\ held = "none" /\ started = FALSE
  /\ control = [running |-> FALSE, depths |-> FALSE]
  /\ supervisor = "off" /\ failure = "none"

\* The first lines of run: the tasks are spawned.
Start(kind) ==
  /\ supervisor = "off"
  /\ input' = kind
  /\ task' = [t \in Task |->
       IF t \in (IF kind = "packets" THEN {"receive", "demux"} ELSE {"packetSource"})
       THEN "off" ELSE "run"]
  /\ control' = [control EXCEPT !.running = TRUE]
  /\ supervisor' = "joining"
  /\ UNCHANGED <<queue, sourceVars, started, failure>>

-----------------------------------------------------------------------------
(* The channels.                                                            *)
Runs(t) == task[t] = "run"

Ends(t, status) == task' = [task EXCEPT ![t] = status]

\* The task that takes from a channel, and those that send to it.
Taker(q) ==
  CASE q = "transport" -> "demux"
    [] q = "video" -> "videoDecode"
    [] q = "audio" -> "audioDecode"
    [] q = "videoFrames" -> "videoEncode"
    [] q = "audioFrames" -> "audioEncode"
    [] q = "encoded" -> "output"

Senders(q) ==
  CASE q = "transport" -> {"receive"}
    [] q \in Media -> {"demux", "packetSource"}
    [] q = "videoFrames" -> {"videoDecode"}
    [] q = "audioFrames" -> {"audioDecode"}
    [] q = "encoded" -> {"videoEncode", "audioEncode"}

Closed(q) == ~Runs(Taker(q))

HasRoom(q) == ~Closed(q) /\ queue[q] < Capacity

\* recv gives None: the channel is empty and all its senders are dropped.
Drained(q) == queue[q] = 0 /\ \A t \in Senders(q) : ~Runs(t)

\* observe_queue: some depth may be shown that is not zero.
Observed == control' = [control EXCEPT !.depths = TRUE]

(* take items are taken from one channel and put items are sent to another,  *)
(* where there must be room for them; send_observed.                          *)
Move(from, take, to, put) ==
  /\ take <= queue[from]
  /\ put > 0 => ~Closed(to) /\ queue[to] + put <= Capacity
  /\ queue' = [queue EXCEPT ![from] = @ - take, ![to] = @ + put]
  /\ Observed

-----------------------------------------------------------------------------
(* receive_transport: a place is reserved before the transport is read.     *)
Reserve ==
  /\ Runs("receive") /\ ~permit /\ HasRoom("transport")
  /\ permit' = TRUE
  /\ UNCHANGED <<input, task, queue, held, started, control, endVars>>

ReserveClosed ==
  /\ Runs("receive") /\ ~permit /\ Closed("transport")
  /\ Ends("receive", "closed")
  /\ UNCHANGED <<input, queue, sourceVars, started, control, endVars>>

\* A chunk that is sent with a permit to a task that has ended is lost.
ReceiveChunk ==
  /\ Runs("receive") /\ permit
  /\ queue' = IF Closed("transport") THEN queue ELSE [queue EXCEPT !["transport"] = @ + 1]
  /\ permit' = FALSE
  /\ Observed
  /\ UNCHANGED <<input, task, held, started, endVars>>

(* EndOfStream, then close.  The transports of the tests end a run in this   *)
(* way; an SRT input does not.                                               *)
ReceiveEnds ==
  /\ Runs("receive") /\ permit
  /\ Ends("receive", "ok")
  /\ UNCHANGED <<input, queue, sourceVars, started, control, endVars>>

(* demux_transport and route_demux_events: a chunk completes a packet or    *)
(* none.                                                                     *)
DemuxChunk ==
  /\ Runs("demux") /\ held = "none" /\ queue["transport"] > 0
  /\ queue' = [queue EXCEPT !["transport"] = @ - 1]
  /\ held' \in Media \cup {"none"}
  /\ Observed
  /\ UNCHANGED <<input, task, permit, started, endVars>>

\* flush, whose packet, if there is one, is sent before the end.
DemuxEnds ==
  /\ Runs("demux") /\ held = "none" /\ Drained("transport")
  /\ \/ Ends("demux", "ok") /\ UNCHANGED <<queue, control>>
     \/ \E q \in Media : Ends("demux", "ok") /\ Move("transport", 0, q, 1)
     \/ (\E q \in Media : Closed(q)) /\ Ends("demux", "closed") /\ UNCHANGED <<queue, control>>
  /\ UNCHANGED <<input, sourceVars, started, endVars>>

(* receive_packets.                                                         *)
ReceivePacket ==
  /\ Runs("packetSource") /\ held = "none"
  /\ held' \in Media
  /\ UNCHANGED <<input, task, queue, permit, started, control, endVars>>

\* EndOfStream, then close.
SourceEnds ==
  /\ Runs("packetSource") /\ held = "none"
  /\ Ends("packetSource", "ok")
  /\ UNCHANGED <<input, queue, sourceVars, started, control, endVars>>

\* The packet in hand reaches its decoder.
Route(t) ==
  /\ Runs(t) /\ held # "none" /\ HasRoom(held)
  /\ queue' = [queue EXCEPT ![held] = @ + 1]
  /\ held' = "none"
  /\ Observed
  /\ UNCHANGED <<input, task, permit, started, endVars>>

RouteClosed(t) ==
  /\ Runs(t) /\ held # "none" /\ Closed(held)
  /\ Ends(t, "closed")
  /\ held' = "none"
  /\ UNCHANGED <<input, queue, permit, started, control, endVars>>

-----------------------------------------------------------------------------
(* decode_video and decode_audio.  A packet may give no frame: the decoder   *)
(* waits for an IDR, or has none yet.                                         *)
Frames(q) == IF q = "video" THEN "videoFrames" ELSE "audioFrames"

Decode(q, n) ==
  /\ Runs(Taker(q)) /\ queue[q] > 0
  /\ Move(q, 1, Frames(q), n)
  /\ UNCHANGED <<input, task, sourceVars, started, endVars>>

DecodeEnds(q, n) ==
  /\ Runs(Taker(q)) /\ Drained(q)
  /\ Move(q, 0, Frames(q), n)
  /\ Ends(Taker(q), "ok")
  /\ UNCHANGED <<input, sourceVars, started, endVars>>

(* encode_video waits for a first frame; from then on each tick takes a new *)
(* frame if there is one and encodes the last one.                           *)
FirstFrame ==
  /\ Runs("videoEncode") /\ ~started /\ queue["videoFrames"] > 0
  /\ queue' = [queue EXCEPT !["videoFrames"] = @ - 1]
  /\ started' = TRUE
  /\ UNCHANGED <<input, task, sourceVars, control, endVars>>

\* encode_audio ticks from the start, with silence when no frame is there.
Ticking(q) == Runs(Taker(q)) /\ (q = "videoFrames" => started)

Encode(q, n) ==
  /\ Ticking(q) /\ ~Drained(q)
  /\ Move(q, IF queue[q] > 0 THEN 1 ELSE 0, "encoded", n)
  /\ UNCHANGED <<input, task, sourceVars, started, endVars>>

\* A plausible bug: an empty channel is taken for a closed one.
EncodeEndsEarly(q, n) ==
  /\ Runs(Taker(q)) /\ queue[q] = 0
  /\ n > 0 => Ticking(q)
  /\ Move(q, 0, "encoded", n)
  /\ Ends(Taker(q), "ok")
  /\ UNCHANGED <<input, sourceVars, started, endVars>>

\* Disconnected; without a first frame there is nothing to flush.
EncodeEnds(q, n) ==
  /\ Runs(Taker(q)) /\ Drained(q)
  /\ n > 0 => Ticking(q)
  /\ Move(q, 0, "encoded", n)
  /\ Ends(Taker(q), "ok")
  /\ UNCHANGED <<input, sourceVars, started, endVars>>

\* A decoder or an encoder has something to send and nobody takes it.
SendClosed(q) ==
  /\ Runs(Taker(q))
  /\ IF q \in Media THEN Closed(Frames(q)) /\ (queue[q] > 0 \/ Drained(q))
                     ELSE Closed("encoded") /\ Ticking(q)
  /\ Ends(Taker(q), "closed")
  /\ UNCHANGED <<input, queue, sourceVars, started, control, endVars>>

(* mux_and_send and send_packets.  The former drops what waits while its     *)
(* transport is away.                                                        *)
Send ==
  /\ Runs("output")
  /\ \E n \in 1 .. queue["encoded"] : queue' = [queue EXCEPT !["encoded"] = @ - n]
  /\ Observed
  /\ UNCHANGED <<input, task, sourceVars, started, endVars>>

SendEnds ==
  /\ Runs("output") /\ Drained("encoded")
  /\ Ends("output", "ok")
  /\ UNCHANGED <<input, queue, sourceVars, started, control, endVars>>

(* An error of a backend, of the demuxer or of the muxer ends its task.      *)
(* After abort_all it makes no difference.                                   *)
Fail(t) ==
  /\ Runs(t) /\ supervisor = "joining"
  /\ Cardinality({u \in Task : task[u] = "failed"}) < MaxFailures   \* the bound of the model
  /\ Ends(t, "failed")
  /\ held' = IF t \in {"demux", "packetSource"} THEN "none" ELSE held
  /\ UNCHANGED <<input, queue, permit, started, control, endVars>>

-----------------------------------------------------------------------------
Spawned == {t \in Task : task[t] # "off"}

\* The first task that is joined with an error, in whatever order they ended.
JoinFailure ==
  /\ supervisor = "joining"
  /\ \E t \in Task : task[t] \in {"failed", "closed"} /\ failure' = task[t]
  /\ supervisor' = "aborting"
  /\ UNCHANGED <<input, task, queue, sourceVars, started, control>>

\* A plausible bug: the tasks that were aborted are not joined.
AbortUnjoined ==
  /\ supervisor = "aborting"
  /\ UNCHANGED task
  /\ held' = "none"
  /\ supervisor' = "stopping"
  /\ UNCHANGED <<input, queue, permit, started, control, failure>>

\* A plausible bug: the remaining tasks are joined, and not aborted before.
AbortNone ==
  /\ supervisor = "aborting"
  /\ \A t \in Task : ~Runs(t)
  /\ UNCHANGED task
  /\ held' = "none"
  /\ supervisor' = "stopping"
  /\ UNCHANGED <<input, queue, permit, started, control, failure>>

(* abort_all, and the rest is joined.  Until then the others go on; that     *)
(* they end at different times only closes channels earlier.                 *)
Abort ==
  /\ supervisor = "aborting"
  /\ task' = [t \in Task |-> IF Runs(t) THEN "aborted" ELSE task[t]]
  /\ held' = "none"
  /\ supervisor' = "stopping"
  /\ UNCHANGED <<input, queue, permit, started, control, failure>>

JoinAll ==
  /\ supervisor = "joining"
  /\ \A t \in Spawned : task[t] = "ok"
  /\ supervisor' = "stopping"
  /\ UNCHANGED <<input, task, queue, sourceVars, started, control, failure>>

(* The run is dropped, and its tasks with it: nothing is finished.          *)
Drop ==
  /\ supervisor # "off"
  /\ task' = [t \in Task |-> "off"]
  /\ queue' = [q \in Queue |-> 0]
  /\ permit' = FALSE /\ held' = "none" /\ started' = FALSE
  /\ supervisor' = "off" /\ failure' = "none"
  /\ UNCHANGED <<input, control>>

\* The monitors have ended; controller.finish.
Finish ==
  /\ supervisor = "stopping"
  /\ control' = [control EXCEPT !.running = FALSE, !.depths = FALSE]
  /\ supervisor' = "returned"
  /\ UNCHANGED <<input, task, queue, sourceVars, started, failure>>

-----------------------------------------------------------------------------
Router == {"demux", "packetSource"}

Encoded == {"videoFrames", "audioFrames"}

Source ==
  \/ Reserve \/ ReserveClosed \/ ReceiveChunk \/ ReceiveEnds
  \/ DemuxChunk \/ DemuxEnds
  \/ ReceivePacket \/ SourceEnds
  \/ \E t \in Router : Route(t) \/ RouteClosed(t)

Decoder(q) == (\E n \in 0 .. 1 : Decode(q, n) \/ DecodeEnds(q, n)) \/ SendClosed(q)

Encoder(q) ==
  \/ q = "videoFrames" /\ FirstFrame
  \/ \E n \in 0 .. 1 : Encode(q, n) \/ EncodeEnds(q, n)
  \/ SendClosed(q)

Supervise == JoinFailure \/ JoinAll \/ Abort \/ Finish

Next ==
  \/ Source
  \/ \E q \in Media : Decoder(q)
  \/ \E q \in Encoded : Encoder(q)
  \/ Send \/ SendEnds
  \/ \E t \in Task : Fail(t)
  \/ Supervise

(* The executor runs every task that can run, and the calls of the backends  *)
(* return, except for those that wait for the network to deliver.            *)
Fairness ==
  /\ WF_vars(Reserve \/ ReserveClosed) /\ WF_vars(DemuxChunk \/ DemuxEnds)
  /\ \A t \in Router : WF_vars(Route(t) \/ RouteClosed(t))
  /\ \A q \in Media : WF_vars(Decoder(q))
  /\ \A q \in Encoded : WF_vars(Encoder(q))
  /\ WF_vars(Send \/ SendEnds)
  /\ WF_vars(Supervise)
=============================================================================
