# A TLA+ model of aimedia's live runtime

This directory holds a formal model of the core of `aimedia`: the way of a job
from its document to a run, the runtime of a single live pipeline (SRT, RTSP or
RTMP in, NVDEC/NVENC, SRT or RTMP out) and the two-camera director.
TLC checks the modules on small instances; TLAPS proves the main safety
properties for every value of the constants. `PROJECT.json` lists, for every
definition, the source lines that it models, and for every property a mutated
definition (a plausible bug) under which the property fails.

Paths below are relative to `src/crates/` unless they start with `docs/`.

## 1. The system

A run of `aimedia` is a graph of tokio tasks joined by bounded queues
(`runtime/src/single.rs`, `SinglePipeline::run`):

```
 peer -> receive_transport -> [transport] -> demux_transport -+-> [video packets] -> decode_video -> [frames] -> encode_video -+
                                                              +-> [audio packets] -> decode_audio -> [blocks] -> encode_audio -+
                                                                                                                               |
                          viewer <- mux_and_send (SRT) or send_packets (RTMP) <----------------------------------- [encoded] <-+
```

| component (source) | state it keeps | operations | talks to |
|---|---|---|---|
| program encoders (`runtime/src/single.rs` `encode_video`, `encode_audio`; `nvidia/src/encoder.rs`) | the picture to repeat, the flag `request_idr`, the encoded queue | first frame, tick, encode, flush, `send_observed` | the decoders by the frame queues; the output by the queue and `request_idr` |
| transport output (`mux_and_send`; `srt/src/lib.rs` `send`; `mpegts/src/stream.rs` `StreamMuxer`) | `output_failed`, the muxer's `last_psi_pts`, the SRT handle and its backoff | receive, skip the backlog, mux, send, reconnect, close | the encoders (asks for keyframes), the viewer |
| packet output (`send_packets`; `rtmp/src/sink.rs`, `avc.rs`, `aac.rs`) | connection, connect task, `next_retry`, media gate, header flags | `ensure_connected`, `publish`, `disconnect`, `close`, the background dial | the encoders, the RTMP server |
| NVDEC worker (`nvidia/src/decoder.rs`) | command channel, release channel, current and retired generations, `SurfaceMetrics` | decode, flush, shutdown, drain releases; leases dropped from any thread | `decode_video`; whoever holds a frame |
| video stage (`decode_video`, `encode_video`) | the decode gate (a semaphore), the frame queue, `last_frame`, the surface pool | gate, decode, emit, take, replace, flush | the NVDEC worker |
| MPEG-TS demultiplexer (`mpegts/src/stream.rs` `StreamDemuxer`; `demux_transport`, `route_demux_events`) | per PID: continuity counter, PES in assembly, discontinuity mark, timestamp unwrapper; per task: pending marks | `push`, `flush`, a new demuxer after a reconnect | the transport queue and the packet queues |
| input recovery (SRT `receive`/`reconnect_if_due`, the demultiplexer, the decode tasks, `nvidia/src/decoder.rs`, `aac/src/lib.rs`) | flags at every stage: `received_reconnects`, pending marks, `waiting_for_idr`, `reset_pending` | deliver, reconnect, demux, route, gate, decode | all stages of the input |
| director (`core/src/director.rs`) | active input, last switch, candidate, manual hold, auto flag | `evaluate`, `take`, `resume_auto`, `pause_auto` | the controller and the replay |
| controller and control protocol (`runtime/src/lib.rs`, `core/src/control.rs`) | published state of inputs and queues, the director | commands, tick, `mark_input_discontinuity`, observers | every task, the Unix socket |
| pipeline supervision (`SinglePipeline::run`, monitors) | a `JoinSet` of tasks, the monitor of the input | start, first error, abort all, join, last sample | all tasks, the controller |
| NVENC worker (`nvidia/src/encoder.rs`) | command channel, context, session, surfaces | build, encode, flush, shutdown, drop | `encode_video`; holds clones of NVDEC frames |
| SRT transport (`srt/src/lib.rs`) | handle, connecting flag, reconnect schedule, statistics | `receive`, `send`, `close`, `reconnect_if_due` | libsrt |
| RTSP input (`rtsp/src/lib.rs`) | session, profile, pending marks | describe, set up, play, next packet, loss, reconnect | retina |
| RTMP listener input (`rtmp/src/source.rs`, `avc.rs`, `aac.rs`, `ingress.rs`) | one publisher, packet queue, pending marks, headers of both streams, chunk limits | accept, publish, replace the peer | the RTMP peer |
| audio codecs (`aac/src/lib.rs`, G.711 in `rtsp`) | a native decoder or encoder, samples short of a frame | decode, encode, flush, restart at a discontinuity | libxaac |
| graph and configuration (`graph/src/lib.rs`, `core/src/config.rs`) | none | validate, convert, compile, explain | the CLI, both runtimes, the constructors of all backends |
| time (`ProgramClock` in `runtime/src/lib.rs`, the tickers of `encode_video` and `encode_audio`) | count of pictures, count of samples, the next deadlines | next stamp, tick | the encode tasks, the outputs |
| synchronisation, loudness (`TimelineMapper` in `core/src/time.rs`, `sync.rs`, `audio.rs`; `DriftCorrector` in `runtime/src/lib.rs`) | epochs, offsets, bounded buffers | map, correct, push, pop | nothing: only tests call them |
| advisor, plugin ABI (`core/src/vlm.rs`, `plugin_abi.rs`) | none that persists | ask, score | the director's scores |
| CLI, tools, fuzz targets (`cli/`) | none | parse arguments, build a pipeline, replay | everything |

**What is hard here.** Three things recur in the code, and none of them is
reached well by its unit tests:

* *A flag that travels apart from what it is about.* A discontinuity mark, a
  keyframe request or a gate is set by one task, carried by whatever packet
  comes next, and used up by another task. Packets are dropped on the way.
  The question is always whether the flag can get lost with the packet.
* *Failures of a connection at any step of its use.* State that belongs to one
  connection (headers sent, tables written, a gate) must not outlive it.
* *Resources released elsewhere.* GPU surfaces are leased to frames that are
  dropped on any thread; permits travel with frames. Sockets and native
  objects are made in several steps, each of which may fail.
* *The same rule in several places.* A configuration is validated, compiled,
  checked again by two runtimes and again by each backend.

The properties that make each part correct are listed with its module below.
The hazards, each at its line, are in `PROJECT.json`.

## 2. The modules

`X.tla` models a component, `MCX.tla` and `MCX*.cfg` give its constants small
values for TLC, `XProofs.tla` holds the theorems and their proofs.

### ProgramEncoders

The producer side of both outputs; it has no behaviour of its own until an output
module EXTENDS it and supplies the consumer. Each encoder task is a program counter
(`encoder[s]`) and the packet it is about to send (`hand[s]`). `EncodeVideo` is
one turn of the select loop: `request_idr.swap(false)` together with the encode
call, which awaits nothing in between; `Enqueue` is the `send().await` that
follows, which waits for a slot. Between the two, everything else may happen.
Payloads are left out, and timestamps, which are ProgramClock's: a fresh frame and a
repeated one give the same packet to the queue.

### TransportOutput (EXTENDS ProgramEncoders)

`mux_and_send` step by step. `Receive` and `DrainOne` are `recv` and the
`try_recv` loop that skips the backlog after a failure; `DrainEnds` is its end,
where a keyframe is requested. `DropPacket` is the whole error branch: no
connection, a new muxer, a keyframe request, `output_failed`.
`handle = "broken"` is a peer that is gone and not noticed yet: what is sent
then is accepted and reaches nobody. `viewer` is not in the code; it records
what the peer of the *current* connection has received.

* `KeyframePromised` - a connected viewer without a keyframe has one on its
  way: requested, in the encoder's hand, queued, or held by the sender.
* `TablesBeforeMedia` - PAT and PMT come before media on every connection;
  checked as part of LiveOutput.
* `OutputResumes` - when links stop breaking, the viewer gets its keyframe.
* `EndsAfterInput` - when both inputs have ended, the output closes.
* `ImplementsLiveOutput` - it is a LiveOutput (below).

### PacketOutput (EXTENDS ProgramEncoders)

The RTMP publisher. `ensure_connected` is one action per branch
(`ReconnectDisabled`, `NotYet`, `StartTask`, `TaskError`, `TaskRefused`,
`Adopt`), because its background task ends at any time (`TaskEnds`) and is only
looked at once per packet. `ResetMediaGate` is part of every action that
adopts or loses a connection.

* `StartsDecodable` - on each connection, headers and a keyframe come first;
  checked as part of LiveOutput.
* `KeyframePromised` - as above; proved, and in the run as part of LiveOutput.
* `OutputResumes`, `EndsAfterInput`, `ImplementsLiveOutput` - as above.

### LiveOutput

What both outputs promise a viewer, without queues, encoders or protocols: a
viewer comes, is given items, and goes; `Needs` says which items are of no use
without which others (over SRT: nothing without the tables; over RTMP: nothing
without the video header and a keyframe, audio also not without its own header).
What a viewer has been given is closed under `Needs` at every step, it is never
taken back while the viewer is there, and the next viewer starts from nothing.
Until it has a keyframe, one is asked for or on its way (`coming`). This is the
sentence of README.md:37 and 44 of the repository, that a reconnect waits for
configuration and IDR again, as steps. `Phase`, `Given` and `Coming` in both
modules are the refinement mapping; while `Adopt` hands a new connection to a
`publish` that is under way, the packet in hand counts as `coming`, because its
drop asks.

### ProgramClock

What stamps the outputs' packets get. Wall-clock time (`now`) passes on its own,
and a task may run later than its deadline by any time. `FirstDecoded` makes the ticker of
video, `StampPicture` and `StampSound` are one turn of each loop: the deadline moves on
by one period (`NextDue`, `MissedTickBehavior::Burst`), the shared clock counts, the
packets are stamped. `DecodeAac`, `DecodeG711` and `FlushDecoder` are the decoders as
the counter sees them: how many samples go in, which whole frames come out,
what stays behind; `SendBlock` gives one to the queue; a queue found empty is a
frame of silence. Periods are rounded as `from_secs_f64` does, stamps are floors of
exact fractions.

* `StampsInStep` - once both tasks have caught up, the last stamps of audio and video are
  as far apart as when video began, but for a period, a tick and the rounding of
  the periods. It takes several parts to hold: no tick may be
  lost in either task, every block must be one frame, and silence too.
* `AudioCadence`, `ClockTypeOK` (proved, not in a run) - the encoder holds nothing back, and its
  n-th packet has the stamp of its own first sample; types and ranges.

The rounding is half a nanosecond a packet at most: with 30 pictures and 46.875 AAC
frames a second that is 38 ns a second, 3.3 ms in a day.

### NvdecSurfaces

The worker thread, the command channel, the release channel, generations and
leases. Surfaces of a generation are interchangeable, so leases and releases
are counted per generation. `Respond` maps n surfaces at once, and `DropLease` by
anybody covers frames that nobody collects. The worker's refusal of commands
during shutdown is not an action: `Shutdown` is always the last command, so the
branch cannot be reached.

* `CountsExact` - the worker's books and the metric agree with the leases and
  releases that exist.
* `DecoderOutlivesSurfaces` - no native decoder is destroyed under a surface.
* `ExitsClean`, `WorkerExits` - the worker leaves nothing behind, and it exits
  even if the shutdown command found no room.

### VideoStage

`decode_video` and `encode_video` around the gate and the pool, down to the
moment at which a permit or a surface is given back. The worker's loop is here
again, reduced to one generation, because its order (drain, then wait for a
command) decides how many surfaces are needed.

* `PoolSuffices` - no call ever finds the pool exhausted (which ends the run).
* `LeasedBounded` (proved, not in a run) - the gate bounds the frames alive at once.

### NvencWorker and VideoPath (EXTENDS VideoStage, INSTANCE NvencWorker)

NvencWorker is the NVENC thread with everything it holds: `Retain`, `Push`,
`OpenEncoder` and `CreateSurface` are the native calls of `Worker::new`, each of which may fail;
`Encode`, `Map`, `Picture`, `Flush`, `Shutdown` are the commands; `DropSurface`,
`DestroyEncoder`, `ReleaseContext` are `Drop`. `stage` is where the thread
stands. The `NvencEncoder` is the other half: `Ask` sends a command and waits,
`DropHandle` is its `Drop`, which sends nothing when the channel is full.

VideoPath puts it behind `encode_video`. Each request carries a clone of
`last_frame`, so an NVDEC surface stays mapped while the NVENC thread works,
also after the task that asked is gone: `orphan` counts that clone, and
`AbandonedCall` is the decode command whose task is gone. `Abort` drops all
tasks at any moment.

* `NativeNested` - surfaces are mapped only during a picture and registered only
  with a session, the session needs the context, and a thread that is gone has left
  nothing, wherever a call failed.
* `PathDrains` - when the packets end or the run is aborted, every NVDEC surface
  is given back and the NVENC thread ends.

### MarkedSource, RtspSource, RtmpSource, SrtTransport, PacketSources

MarkedSource is the abstract specification of a live input, what the pipeline
relies on (`MediaPacket.discontinuity` and `TransportChunk.discontinuity` in
`core/src/backend.rs`): units of a session never come after units of a newer one, the
first of each stream in a later session is marked, and all have the format the
decoders were made for. Each of the three inputs is a module with one action per
step of its code, and PacketSources runs one of them at a time and shows that
it implements MarkedSource (`ImplementsMarkedSource`, by `INSTANCE MarkedSource WITH ...`).

* RtspSource: `Describe` (what the camera offers, choice of tracks, profile),
  `SetUp`, `Play`, `Frame`, the failures of each, the retry loop and its delays.
* RtmpSource: `Accept` replaces nobody but the peer that has gone; `Read` handles the
  events of one read, whose packets wait in a bounded queue; headers and frames
  of both streams go through the converters `avc.rs` and `aac.rs`.
* SrtTransport: the handle behind one lock, the `connecting` flag, the schedule
  with its doubling, and a dial in steps (`CreateSocket`, `Poll`, `Listen`,
  `Accept`, `Dialed`), each with the errors that can happen there. `native` is what
  libsrt then holds, `owned` what the fields of the half-made handle name;
  `DropHandle`, its `Drop`, releases the latter, at whatever step a dial fails. The observer that samples it from another task.

Properties besides the refinement:

* `RtmpStartsAtKey` - a publisher's first picture is an IDR after a sequence header,
  whatever the last publisher left in the converter.
* `MarksJustified` - RTMP and RTSP mark no more than they have to. RTSP marks one packet more
  when a frame with a reason of its own comes first (rtsp/src/lib.rs:825). The property
  permits this late mark, once for each stream and session and only on the first
  packet without a reason of its own; it would catch one that comes later or twice.
* `SrtReturnCounted` - no sample shows SRT back without the reconnection counted.
* `SocketsOwned` - no failed attempt leaves a socket or an epoll behind: at no step is
  there one that the handle does not name.
* `SessionReturns` - a lost session is replaced, or the input ends.

### JobConfig, ExecutionPlan, SinglePipeline, InputHealth, JobRun

From a document to the end of its run. JobConfig holds the configuration as
records (an optional section is a sequence of at most one): what validation accepts, the defaults, the
legacy format, `config convert`, how secrets resolve, and what the constructors of
the endpoints and encoders demand. ExecutionPlan is the compiler (capacities,
nodes, edges) with the checks of both runtimes. They are operators; JobRun has the
state machine: `Load`/`Convert`, `Compile`, `DryRun`, `Mock`, `Native`, then the
backends in the order of `build_backends`, `Preflight`, `Start`, and `Interrupt`
(ctrl-c).

SinglePipeline is the task graph that `Start` spawns: every task of both shapes of
input (transport or packets), its channels, `Fail` at any time, `JoinFailure`,
`Abort`, `JoinAll` and the published queue depths. InputHealth is what the
controller publishes of the input: marks, decoded packets and monitor samples in
any order, and the last sample. A run shows one of the two beside JobRun, since they share
no variable.

* `AcceptedJobsRun` - an accepted document is not refused later for breaking a rule, but
  for the cases listed in section 6.
* `ConversionFaithful` - `config convert` keeps the meaning.
* `PlansKeepTheirClaims` - every edge is bounded and taps cannot block (`ClaimsHold`); the
  five queues of a route, from the source of the packets to the output, hold
  together no more than `bufferMs` of pictures or of sound, or one slot each (`BufferShared`).
  The messages in front of the demultiplexer are left out of the sum: they have no length in time.
* `EndsHonestly` - a good end leaves nothing in a channel; a bad one has a task that failed.
  It does not say which error the run reports.
* `ReturnedShowsNothing` - a run that has returned shows nothing, and nothing goes on. Abort and
  join are one step, before which the tasks go on.
* `RunReturns` - when the source ends or a task fails, the run returns.
* `DownShown` - an input that stays down is shown down, whatever comes late.
* `LastSampleStands` - the last sample of a packet source stands.

### StreamDemuxer

The demultiplexer for the packets of one PID, and the routing of what it emits.
The sender cuts units into TS packets, with or without a declared PES length;
packets are lost, damaged, flagged, or cut off by a reconnect at any place.
`ProcessPacket` is a composition of operators named after the methods
(`CheckContinuity`, `StartPes`, `PushPes`, `TakeComplete`, `EmitPes`,
`ResetPid`, `Unwrapped`), in the order of the code. `blind` is not in the code:
it holds the units that lost a packet while the demuxer had no counter to compare with.

* `UnflaggedWhole` - without a discontinuity flag, a packet is a whole unit.
  Only the final `flush` may cut one short.
* `TimestampsFollow` - without the flag, PTS has advanced as the sender's clock.
* `LossesAnnounced` - without the flag, nothing is missing before it, except
  units in `blind`. The exception is real: `reset_pid` (stream.rs:472) forgets the
  counter that was stored just before (stream.rs:360), so a second loss right
  after a detected one goes unnoticed, and the video decoder is then given
  pictures that refer to a lost one. No document speaks of this case, so it
  stands as the exact limit of the property and not as a finding.

### InputRecovery

The whole path of a break, from the transport to both decoders, at the level of
chunks and packets, with every queue in between. A `timeline` is not in the
code: it says which pictures refer to each other. A `gap` is a loss that the
counters reveal; which losses they do not reveal is the subject of
`StreamDemuxer`, so together they give the claim: pictures are decoded intact
except after a loss in `blind`.

* `ReferencesIntact` - the decoder moves to another timeline only by a keyframe.
* `AudioRestarts` - the audio decoder starts afresh at every break.
* `VideoResumes` - video is decoded again after each break.

### Director

The director and the orders in which its callers use it. Times are ages, since
only differences are compared; scores are which camera leads by the margin. A
command includes the evaluation that both callers make right after it.

* `ServesEligible`, `ManualStands`, `AutomaticSpaced`, `LeadHeld`, `Settles`. The input that
  the first evaluation chooses is not a switch for `AutomaticSpaced`, as it is none for the code.

## 3. Runs

| run | module, bounds | distinct states | shows |
|---|---|---|---|
| `transport_output` | TransportOutput, queue of 2 | 44,524 | safety and liveness of the SRT output; it is a LiveOutput |
| `rtmp_output` | PacketOutput, queue of 2 | 87,671 | the same for RTMP |
| `nvdec` | NvdecSurfaces, 2 surfaces, 2 commands, 3 generations | 6,610 | books, order of destruction, exit |
| `video_path` | VideoPath, queue 1, pool 6, burst 2, 2 NVENC surfaces, 1 command | 4,556 | the pool suffices, native objects nested, both threads drain |
| `surface_plan` | VideoStage, the same decoder side | - | violation: the documented size of the pool is one too small |
| `timestamps` | StreamDemuxer, counter mod 3, PTS mod 8, 4 units of up to 3 packets; or ProgramClock, seconds of 8 units for 24 units, 3 pictures and 3.5 AAC frames of 2 samples a second, a queue of 1 | 927,104 | flags, whole units, timestamps; no drift between audio and video |
| `input_recovery` | InputRecovery, queues of 1, 2 formats, 3 timelines | 379,229 | breaks overtaking flags, video resumes |
| `input_restart` | InputRecovery | - | violation: a reconnect that does not retire the generation |
| `director` | Director, thresholds 2, 3, 2, holds up to 3 | 25,120 | the five director properties |
| `director_take` | the same | - | violation: a Take before the first evaluation |
| `packet_sources` | PacketSources, 3 sessions, 2 failed attempts in a row, 2 pending packets, backoff 1 to 3, 8 kinds of camera | 49,505 | three inputs, one promise; sockets, counts, return |
| `job_run` | JobRun, 2,592 documents, channels of 1, 2 items, 1 failure by itself | 199,347 | what is accepted runs; how runs end |

**Why the bounds are enough.** Two slots of the encoded queue let a keyframe wait
behind a stale packet while both encoders are blocked; more slots add only
longer backlogs, and the theorems cover every capacity. Three generations let two
retired ones wait for releases at once beside a current one. The video stage
runs with the queue of one that single.rs:141-147 demands, and with calls that
display two frames, so that the second waits for a permit while it holds a surface.
Six surfaces are then as tight as the deployed four (`NvdecConfig::default`) are at
one frame a call: with five `PoolSuffices` fails. `LargePoolSuffices` covers the
deployed pool at one frame a call, where four is the least it speaks of. Three timelines give two
breaks, so that a second one can overtake the flag of the first. Counter modulus
3 lets up to two packets in a row be lost, which removes any one unit or the
end of one and the start of the next; four units cross the wrap of PTS and leave one after
every recovery. The PES limit of two packets makes units of three overflow it.
The director's thresholds differ in what each one allows. Three sessions let a
second loss meet marks of the first, a backoff limit of 3 is not a power of two times the
initial 1, reads of more than two packets exceed the limit of the RTMP queue,
and the cameras have every codec, tracks that do not fit, too many, and none
that fits. The documents of `job_run` are valid jobs of every protocol and one
change each, with values on both sides of every limit; the legacy ones are
written from them. Buffers of 171 and 267 ms are among the
sizes, where eight AAC frames and eight pictures just fit: the places where a share
rounded the wrong way would exceed the buffer. A channel of one and two items make every task wait for every
other. For the program clock neither period is a whole number of units (2.67 and 2.29), so
both roundings show, and 24 units are enough for either task to be late by all its
periods and to catch up; a G.711 packet of 3 samples may complete two frames, which
then wait for one permit. The theorem covers every rate and any length. Two NVENC surfaces let a failure meet a second one half made, one command
lets the channel be full when the encoder is dropped.

**Named bounds.** `MaxTime`, `MaxGeneration`, `MaxTimeline`, `MaxUnit`, `MaxParts`,
`MaxHold`, `MaxBurst`, `MaxSession`, `MaxAttempts`, `MaxItems`, `MaxFailures` limit what the environment does and are guards of the environment's
actions only. `lost < CounterModulus - 1` in StreamDemuxer is the assumption that
fewer than 16 packets of a PID are lost in a row: no counter reveals 16.

## 4. Fairness

* *Tasks.* tokio polls every task that can go on: weak fairness per task.
  A task that waits for a slot of the shared queue gets one again and again
  but another sender may take it: tokio's semaphore is fair, hence strong
  fairness of `Enqueue`.
* *Network.* Backoff is bounded and attempts are repeated as long as there are packets, so an
  attempt eventually succeeds if the peer is back (SF of `Reconnect`, of
  `TaskEnds` with "ok"), and a lost peer is eventually reported (SF of
  `SendError`). `OutputResumes` assumes in addition that links stop breaking.
* *`SkipLoopEnds`* in TransportOutput: the encoders are paced by tickers (a
  frame lasts 20 ms or more), a turn of the skip loop takes microseconds, so the
  loop sees the queue empty. Without it the model has a behaviour in which the encoders always
  refill the queue in time.
* *The NVDEC worker* polls every 5 ms: weak fairness of its loop; and a command
  that is there is served even if timeouts come first (SF of `Call`).
* *The peer* goes on sending keyframes (SF of `Deliver("key", {})`), which is
  what `VideoResumes` depends on.
* *The NVENC thread* runs (WF of `NvencStep`), and a task that has failed, or a
  refused picture, ends the run (WF of `Abort` then): that is `join_next` in
  `SinglePipeline::run`. A user who aborts a healthy run is not forced.
* *Inputs.* The task of the input runs and time passes (WF); attempts do not fail for
  ever (SF of the steps of a dial), and a publisher calls while the listener
  waits. Nothing else is assumed of a peer: it may break at any moment.
* *Tasks of a run.* WF of each task and of the supervisor; nothing of a receive from the
  network. InputHealth assumes its tasks and the passing of time, nothing of the network.
* *Director.* Time passes and the controller ticks (WF of `Pass` and `Tick`).
* *ProgramClock* states no fairness: its properties are safety properties.

## 5. Theorems

All are proved for arbitrary constants under the named ASSUMEs of the modules
(`CapacityAssumption`, `SurfacesAssumption`, `StageAssumption`, `JobAssumption`,
`DirectorAssumption`: positive sizes; the NVENC theorems need none; and for the director that a candidate's
time does not exceed the minimum shot, which configuration validation demands).
`DocumentsAssumption` says what the parser guarantees of a document before any rule is
checked: the types of the fields that are read again after it (`Parsed` in JobConfig).
JobRunProofs therefore speaks of every document, with every number in its place. The bound of the queues by the buffer rests on
`ShareOfBuffer`, the arithmetic of one share, and on `RoutesShareBuffer`, that the
queues of a route together then fit in the buffer or have five slots, the least there can be.
`ClockAssumption` asks for positive rates, of any resolution and size.
`DemuxerAssumption` says that a counter's range is less than half of PTS's (16 against
2^33 in the code): a loss that goes unnoticed then never looks like a wrap.

| module | theorems | inductive invariant |
|---|---|---|
| OutputProofs | of the SRT output: `TypeCorrect`, `KeyframeAlwaysPromised`, `TablesAlwaysFirst`; of the RTMP output (`Rtmp`, an instance of PacketOutput): `RtmpTyped`, `AlwaysStartsDecodable`, `RtmpKeyframePromised`; that each implements LiveOutput: `TransportIsLive`, `PublisherIsLive` (`LiveStep`, `RtmpLiveStep`: which step is which); of their stamps: `StampsStayInStep`, `AudioCadenceKept`, `ClockTyped` | of the encoders both outputs share, `HandHolds`: an encoder holds a packet exactly while it sends, with lemmas on what appending, taking and an encoder's step keep (`EncodersKeep`, `SameEncoders`). SRT: `Remembered`: without a connection `output_failed` and the fresh muxer remember the failure, so the skip loop, which may drop anything, is passed before the next send; `AskedAgain`: after that loop a keyframe is promised before a reconnect; `TablesComing`: a viewer without tables meets a fresh muxer. RTMP: `GateMatches`, `NobodyThere`: the gate and the header flags tell what the current peer has. Stamps, `ClockInv`: the next deadline of each ticker, the counter it drives and the last stamp belong to the same index (`VideoKeeps`, `AudioKeeps`), because only whole frames wait anywhere (`blocks`, `decoded`) and the encoder holds nothing (`AudioCadence`) |
| NvdecSurfacesProofs | `SurfacesCounted`, `DecoderSafe`, `ExitSafe` | `CountsExact` with `NativeBooked` (which decoders exist), `CurrentSound`, `RetiredSound` (a retired generation is older and has surfaces), `ShutdownSound` |
| VideoPathProofs | `LargePoolSuffices`, `LeasesBounded` of the stage; `NestedAlways` of the NVENC thread; `PathUsesEncoder`: `PathSpec => Nvenc!Spec`, by which step of the path is which step of the encoder; `PathNested`, `PathPoolSuffices` of the whole | of the stage, `StageInv`: `SurfacesExact` and `PermitsExact` (where each surface and permit is), `HandBound`, `WaitingBound` (what releases can wait while a call is made); of the encoder, `NativeNested` with the stages in which the context is current and the session open |
| InputRecoveryProofs | `AudioAlwaysRestarts`, `ReferencesStayIntact` | `Counted`, `GatesAgree`, `StreamsKept`, and four parts that follow the flag of a break down the pipeline: `PeerFollows`, `ChunkFollows`, `HandFollows`, `QueueFollows`: between a packet of an older timeline and the next of a newer one there is always a flag, or a gate that is still closed |
| PacketSourcesProofs | `SocketsAlwaysOwned`, `SrtReturnsCounted`, `RtmpAlwaysStartsAtKey`, `MarksAlwaysJustified`, and the refinement `SourcesAreMarked` (`MarkedInit`, `MarkedGive`, `MarkedStep`) | by protocol: `SrtInv` (handle, dial stage and sockets agree, and what the task owns is what is open; what a stale sample may show), `RtmpInv`, `RtmpMarks`, `RtmpKeys` (each pending packet is marked exactly if it starts its stream in its session, and then is a keyframe), `RtspInv` (`plain` and the marks agree) |
| DirectorProofs | `CandidateSound`, `AlwaysServesEligible`, `ManualAlwaysStands`, `AlwaysSpaced`, `LeadAlwaysHeld` | `CandidateInv`: a candidate is the other camera, made when the director was quiet, and no longer than it has been unopposed |
| JobRunProofs | `AcceptedJobsAlwaysRun`, `ConversionAlwaysFaithful`, `PlansAlwaysKeepTheirClaims`, `AlwaysEndsHonestly`, `ReturnedAlwaysShowsNothing`, `LastSampleAlwaysStands` | `TasksInv`: a taker that has ended well left an empty channel without senders (`Emptied`), so that a closed channel comes of a failure (`CausesKept`), which the verdict of the run knows (`Verdict`); `LastStands`; `JobInv`: the document is one of the user's or what conversion wrote for one (`Origin`), and its configuration is accepted from the stage "loaded" on |
| StreamDemuxerProofs | `UnflaggedAlwaysWhole`, `TimestampsAlwaysFollow`, `LossesAlwaysAnnounced` | `Working`, until the flush: `Order` (how far the sender's counter is ahead of the last one seen), `Assembly` and `InAssembly` (without a mark, the PES in assembly is a unit from its start and the next packet goes on with it), `Near` (the units between the one given out or in assembly and the next packet are blind, and few), `Clock` (the unwrapper stands at the unit given out last), `Linked`. A packet is processed in three steps; `Processed` says the same of the moment between two of them |

`LargePoolSuffices` holds if `OutputSurfaces >= VideoFrames + 1 + 2 * MaxBurst`;
the deployed 4 >= 1 + 1 + 2 just meets it, so a larger queue, or inputs
with reordered pictures (bursts of more than one), need a larger pool.

Each proof has the same shape: `Init => IInv`, one step per action for
`IInv /\ [Next]_vars => IInv'`, and PTL for the temporal conclusion. The
properties themselves are not inductive: `KeyframePromised`, for example, says
nothing while there is no connection, and a reconnect must find the request.

`StampsInStep` follows from `ClockInv` by arithmetic alone: `Rounded` bounds a rounded period, `StampError`
a stamp against the deadline of its index, and `InStep` adds the two streams up, whose
deadlines are both within a period of the same `now`.

`Order` is why `LossesAnnounced` needs both the bound on `lost` and the ghost `blind`:
after `reset_pid` there is no counter, and the proof has to carry how many packets
passed unseen up to the next one that has a counter to be compared with.

**Only model-checked:** all liveness (outside TLAPS's reach). Every safety property that
a passing run checks is proved, the refinements included; the RTMP output is
proved of the instance `Rtmp`. The type invariants are proved as parts of the inductive ones and are not
repeated in the runs.

## 6. Findings

* `surface_plan`: docs/architecture.md:89-90 computes the pool as queue plus
  two; the run needs one more, because releases are drained between commands only.
* `input_restart`: the mark of a reconnect is dropped with a packet that is no
  keyframe (single.rs:913), so NVDEC keeps its generation, against README.md:43
  and docs/rfcs/0004-hevc-bridge.md:61; with a new format the run then fails.
* `director_take`: a Take that is the first request is accepted and not obeyed by the
  decision that answers it, against docs/user-stories.md:85.

Differences that were met and need no run of their own, each visible in a definition:

* Validation accepts jobs that the native run then refuses (`Odd`, `OddProfile` and
  `SecretRef` "half" in JobRun): RTSP over UDP, a `%` in an RTMP path, an SRT
  URI without host or port, a secret reference with one part set and the other empty, odd
  dimensions, a bitrate of 0 or too large for 32 bits, audio other than
  128 kbit/s, two inputs.
* docs/glossary.md:29 and docs/architecture.md:62 use the input's timestamps to synchronise or
  to map, docs/glossary.md:47 corrects drift; `encode_video` and `encode_audio` overwrite them and
  nothing reads them (single.rs:1101, 1181). Video's clock starts with the first
  decoded picture, audio's with its task: sound that is decoded before the first picture is so much
  ahead for the rest of the run. `StampsInStep` shows the other half: the offset does
  not grow.
* With reconnects disabled a lost RTMP connection is fatal (rtmp/src/sink.rs:111), while the SRT
  output reports a retryable error for ever and drops all that is encoded.
* A director's candidate survives an outage of both inputs (core/src/director.rs:289): nothing is
  compared meanwhile and its time goes on, so the outage counts as time in the lead.
* The section `failurePolicy` is parsed and read by nothing.
* "bufferMs is an upper bound for the whole in-engine path" (graph/src/lib.rs:186) holds of the
  queues of a plan (`BufferShared`), except for small buffers, whose shares are rounded up to
  one slot each: five pictures are 167 ms at 30 a second, where 100 ms may be asked for.
* The first error joined may be `ChannelClosed` of a neighbour and not the cause
  (single.rs:598).
* A monitor sample on its way may be applied after the last one (single.rs:529-552),
  and an SRT input, which has no last sample, may end shown as healthy; after ctrl-c the
  published state stays "running".
* An RTMP accept error ends the input even with reconnects enabled, and its
  reconnects count peers that never published.

## 7. Plan

Written, in this order: the two outputs on their shared encoders (what a viewer
sees), the NVDEC worker and the video stage (what can wedge or exhaust the GPU),
input recovery and its demultiplexer (what a break does), the director; then the three
inputs with their abstract specification, the job from its document to its end, and the NVENC
thread with the abort of a run; the proofs of all of these; LiveOutput with its
two refinements; and the program clock with its tickers and the audio codecs in front of it. Next:

1. The RTMP session (`rtmp/src/lib.rs`) on both sides: connect, createStream, publish
   or refuse, acknowledgements.
2. `TimelineMapper`, `DriftCorrector` and `BoundedTimeline`, once a run uses them.

## 8. Not modelled

* libsrt, retina, shiguredo_rtmp, libxaac, the NVIDIA driver: external; each appears as the
  outcomes its caller distinguishes.
* Byte layouts (TS, PES, PSI, FLV, ADTS, NAL units) and their parsers' bounds
  checks, which fuzz targets cover.
* Loudness and image scores: floating-point arithmetic.
* YAML itself, unknown fields, and the sections nothing reads back (hints, names of backends).
* The RTMP handshake, message parsing and the byte-wise inspector `ingress.rs`; argument
  parsing, `probe`, the Unix-socket server and its permissions; the state file's format.
* `TimelineMapper`, `BoundedTimeline`, `align_pair`, `DriftCorrector`: no run calls them. The
  saturation of the clock's 64-bit counters.
* Metrics and logs, except `in_use`, which is a resource count.
* False sync bytes in garbage: the demuxer may parse a bogus packet; here
  resynchronisation only loses packets.
