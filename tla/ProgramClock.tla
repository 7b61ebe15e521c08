---------------------------- MODULE ProgramClock ----------------------------
(***************************************************************************)
(* The time of a program: what stamps its packets get.  encode_video and    *)
(* encode_audio of crates/runtime/src/single.rs each wait on a ticker and    *)
(* stamp what they encode from the shared ProgramClock of                    *)
(* crates/runtime/src/lib.rs, which counts pictures and samples.  The wall   *)
(* clock is in it only through the tickers, so whether the stamps keep time, *)
(* and audio with video, hangs on several parts: no tick is skipped however   *)
(* late a task runs, the decoders hand over complete AAC frames only (the     *)
(* codecs of crates/aac and the G.711 bridge of crates/rtsp), silence has the *)
(* length of a frame, and the AAC encoder holds nothing back.                 *)
(*                                                                         *)
(* Time 0 is when encode_audio makes its ticker.  Samples are per channel.   *)
(* A task may run later than its deadline by any time: the queues, the        *)
(* codecs and the scheduler may hold it up.  Payloads are left out, and the   *)
(* saturation of the u64 counters, which no run lives to see.                 *)
(***************************************************************************)
EXTENDS Integers, Sequences

CONSTANTS
  Second,        \* units of the wall clock in a second (nanoseconds: 10^9)
  Ticks,         \* ticks of the program clock in a second, 90 000
  Fps,           \* processing.video.fps; the clock's fps_denominator is 1
  SampleRate,    \* 48 000, the only rate the configuration and the codecs accept
  FrameSamples,  \* SAMPLES_PER_CHANNEL, 1 024
  AudioFrames,   \* permits of audio_decode_gate, SingleQueuePlan.audio_frames
  MaxDecoded,    \* most samples a G.711 packet decodes to
  MaxTime        \* bound: the wall clock stops there

ASSUME ClockAssumption ==
  /\ Second \in Nat \ {0} /\ Ticks \in Nat \ {0}
  /\ Fps \in Nat \ {0} /\ SampleRate \in Nat \ {0}
  /\ FrameSamples \in Nat \ {0} /\ AudioFrames \in Nat \ {0}
  /\ MaxDecoded \in Nat /\ MaxTime \in Nat

VARIABLES
  now,           \* the wall clock
  videoTask,     \* encode_video: "first" (in recv), "tick" or "done"
  videoStart,    \* when it made its ticker
  videoDue,      \* the ticker's next deadline
  videoIndex,    \* ProgramClock.video_index
  videoStamp,    \* the stamp of the last picture
  codec,         \* which decoder the input has
  decoding,      \* decode_audio has input
  pcm,           \* samples in the decoder, AacDecoder.pending_pcm or G711Decoder.buffered
  decoded,       \* lengths of the blocks decode_audio has still to send
  blocks,        \* and of those in the queue to encode_audio
  audioTask,     \* encode_audio: "tick" or "done"
  audioDue,
  audioSamples,  \* ProgramClock.audio_samples
  pending,       \* samples in the encoder, AacEncoder.pending
  audioPackets,  \* AAC packets made, SampleTimeline.emitted_samples in frames
  audioStamp     \* the stamp of the last one

videoVars == <<videoTask, videoStart, videoDue, videoIndex, videoStamp>>
decoderVars == <<codec, decoding, pcm, decoded, blocks>>
audioVars == <<audioTask, audioDue, audioSamples, pending, audioPackets, audioStamp>>
clockVars == <<now, videoVars, decoderVars, audioVars>>

ClockTypeOK ==
  /\ now \in 0 .. MaxTime
  /\ videoTask \in {"first", "tick", "done"}
  /\ videoStart \in Nat /\ videoDue \in Nat /\ videoIndex \in Nat /\ videoStamp \in Nat
  /\ codec \in {"aac", "g711"}
  /\ decoding \in BOOLEAN
  /\ pcm \in 0 .. FrameSamples - 1
  /\ decoded \in Seq(Nat) /\ blocks \in Seq(Nat)
  /\ audioTask \in {"tick", "done"}
  /\ audioDue \in Nat /\ audioSamples \in Nat /\ pending \in Nat
  /\ audioPackets \in Nat /\ audioStamp \in Nat

-----------------------------------------------------------------------------
\* Duration::from_secs_f64 of a / b seconds: the nearest whole unit.
Nearest(a, b) == (2 * a + b) \div (2 * b)

VideoPeriod == Nearest(Second, Fps)
AudioPeriod == Nearest(FrameSamples * Second, SampleRate)

\* A plausible bug: the ticker counts from the moment the task got to run
\* (MissedTickBehavior::Delay).
DueFromNow(due, period) == now + period

\* A plausible bug: deadlines that have passed are skipped (MissedTickBehavior::Skip).
DueSkipping(due, period) == due + period * (1 + (now - due) \div period)

\* MissedTickBehavior::Burst: deadlines stay one period apart.
NextDue(due, period) == due + period

\* next_video_pts_90khz and next_audio_pts_90khz.
VideoPts(index) == (index * Ticks) \div Fps
AudioPts(samples) == (samples * Ticks) \div SampleRate

ClockInit ==
  /\ now = 0
  /\ videoTask = "first" /\ videoStart = 0 /\ videoDue = 0 /\ videoIndex = 0 /\ videoStamp = 0
  /\ codec \in {"aac", "g711"}
  /\ decoding = TRUE /\ pcm = 0 /\ decoded = <<>> /\ blocks = <<>>
  /\ audioTask = "tick" /\ audioDue = 0 /\ audioSamples = 0
  /\ pending = 0 /\ audioPackets = 0 /\ audioStamp = 0

TimePasses ==
  /\ now < MaxTime
  /\ now' = now + 1
  /\ UNCHANGED <<videoVars, decoderVars, audioVars>>

-----------------------------------------------------------------------------
(* The video task.                                                         *)

(* recv() gives the first picture; the ticker starts now.                  *)
FirstDecoded ==
  /\ videoTask = "first"
  /\ videoTask' = "tick"
  /\ videoStart' = now
  /\ videoDue' = now
  /\ UNCHANGED <<now, videoIndex, videoStamp, decoderVars, audioVars>>

(* A deadline has passed: stamp a new picture, or the last one again.      *)
StampPicture ==
  /\ videoTask = "tick"
  /\ now >= videoDue
  /\ videoDue' = NextDue(videoDue, VideoPeriod)
  /\ videoStamp' = VideoPts(videoIndex)
  /\ videoIndex' = videoIndex + 1
  /\ UNCHANGED <<now, videoTask, videoStart, decoderVars, audioVars>>

(* The decoder has gone: before the first picture, or at a later tick.     *)
VideoEnds ==
  /\ \/ videoTask = "first"
     \/ videoTask = "tick" /\ videoIndex > 0 /\ now >= videoDue
  /\ videoTask' = "done"
  /\ UNCHANGED <<now, videoStart, videoDue, videoIndex, videoStamp, decoderVars, audioVars>>

-----------------------------------------------------------------------------
(* The audio decoder.                                                      *)

Complete(k) == [i \in 1 .. k |-> FrameSamples]

\* A plausible bug: the decoder hands over what it has.
DeliverAll(total, k) ==
  /\ decoded' = IF total > 0 THEN <<total>> ELSE <<>>
  /\ pcm' = 0

\* take_complete_frame and take_complete_frames: k complete frames of `total` samples.
Deliver(total, k) ==
  /\ decoded' = Complete(k)
  /\ pcm' = total - k * FrameSamples

\* A packet marked as a discontinuity starts the decoder anew.
Kept(discontinuity) == IF discontinuity THEN 0 ELSE pcm

(* Each block in the queue holds a permit until encode_audio takes it; the  *)
(* task has one before it decodes.                                           *)
Permit == Len(blocks) < AudioFrames

MayDecode == decoding /\ decoded = <<>> /\ Permit

(* libxaac gives n samples for a packet, at most a frame and none while it  *)
(* wants more input; decode_adts takes at most one frame.                    *)
DecodeAac(n, discontinuity) ==
  /\ codec = "aac"
  /\ MayDecode
  /\ n \in 0 .. FrameSamples
  /\ LET total == Kept(discontinuity) + n
     IN  Deliver(total, IF total >= FrameSamples THEN 1 ELSE 0)
  /\ UNCHANGED <<now, videoVars, codec, decoding, blocks, audioVars>>

(* A G.711 packet gives six samples a byte, n in all; every complete frame *)
(* is taken.                                                                *)
DecodeG711(n, discontinuity) ==
  /\ codec = "g711"
  /\ MayDecode
  /\ n \in 0 .. MaxDecoded
  /\ LET total == Kept(discontinuity) + n
     IN  Deliver(total, total \div FrameSamples)
  /\ UNCHANGED <<now, videoVars, codec, decoding, blocks, audioVars>>

(* The input has ended: libxaac may give up to a frame more, and what is    *)
(* left is padded to a frame.                                               *)
FlushDecoder(n) ==
  /\ MayDecode
  /\ n \in 0 .. (IF codec = "aac" THEN FrameSamples ELSE 0)
  /\ decoded' = Complete((pcm + n + FrameSamples - 1) \div FrameSamples)
  /\ pcm' = 0
  /\ decoding' = FALSE
  /\ UNCHANGED <<now, videoVars, codec, blocks, audioVars>>

(* A decoded block goes to the queue, with the permit the task has or with  *)
(* the next that is free.                                                    *)
SendBlock ==
  /\ decoded # <<>>
  /\ Permit
  /\ blocks' = Append(blocks, Head(decoded))
  /\ decoded' = Tail(decoded)
  /\ UNCHANGED <<now, videoVars, codec, decoding, pcm, audioVars>>

\* decode_audio has returned and its sender is gone.
Decoded == ~decoding /\ decoded = <<>>

-----------------------------------------------------------------------------
(* The audio task.                                                         *)

\* encode_interleaved: every complete frame becomes a packet, all with the
\* stamp of the block that completed it.
EncodeSamples(samples, stamp) ==
  LET total == pending + samples
  IN  /\ pending' = total % FrameSamples
      /\ audioPackets' = audioPackets + total \div FrameSamples
      /\ audioStamp' = IF total >= FrameSamples THEN stamp ELSE audioStamp

\* A plausible bug: silence does not advance the program clock.
TakenWithoutSilence(found) == IF found THEN Head(blocks) ELSE 0

\* A decoded block, or a frame of silence.
Taken(found) == IF found THEN Head(blocks) ELSE FrameSamples

(* A deadline has passed: encode the oldest block of the queue; while there *)
(* is none and the decoder is still there, silence.                         *)
StampSound ==
  /\ audioTask = "tick"
  /\ now >= audioDue
  /\ blocks # <<>> \/ ~Decoded
  /\ audioDue' = NextDue(audioDue, AudioPeriod)
  /\ audioSamples' = audioSamples + Taken(blocks # <<>>)
  /\ EncodeSamples(Taken(blocks # <<>>), AudioPts(audioSamples))
  /\ blocks' = IF blocks # <<>> THEN Tail(blocks) ELSE blocks
  /\ UNCHANGED <<now, videoVars, codec, decoding, pcm, decoded, audioTask>>

(* The decoder has gone: encoder.flush pads what it holds to one last      *)
(* packet, which keeps the stamp of the encoder's own SampleTimeline.       *)
AudioEnds ==
  /\ audioTask = "tick"
  /\ now >= audioDue
  /\ blocks = <<>> /\ Decoded
  /\ audioTask' = "done"
  /\ audioPackets' = IF pending = 0 THEN audioPackets ELSE audioPackets + 1
  /\ audioStamp' = IF pending = 0 THEN audioStamp ELSE AudioPts(audioPackets * FrameSamples)
  /\ pending' = 0
  /\ UNCHANGED <<now, videoVars, decoderVars, audioDue, audioSamples>>

-----------------------------------------------------------------------------
Decode ==
  \/ \E n \in 0 .. FrameSamples, d \in BOOLEAN : DecodeAac(n, d)
  \/ \E n \in 0 .. MaxDecoded, d \in BOOLEAN : DecodeG711(n, d)
  \/ \E n \in 0 .. FrameSamples : FlushDecoder(n)
  \/ SendBlock

ClockNext ==
  \/ TimePasses
  \/ FirstDecoded \/ StampPicture \/ VideoEnds
  \/ Decode
  \/ StampSound \/ AudioEnds

ClockSpec == ClockInit /\ [][ClockNext]_clockVars

-----------------------------------------------------------------------------
\* The AAC encoder never holds a part of a frame, and its n-th packet carries
\* the stamp of its own first sample: the stamps are a frame apart, whatever
\* the decoder was fed, with silence in between or none, up to the last packet.
AudioCadence ==
  /\ pending = 0
  /\ audioPackets > 0 => audioStamp = AudioPts((audioPackets - 1) * FrameSamples)

\* Both tasks have stamped something and neither is behind its ticker.
OnTime ==
  /\ videoTask = "tick" /\ audioTask = "tick"
  /\ videoIndex > 0 /\ audioPackets > 0
  /\ now < videoDue /\ now < audioDue

Abs(x) == IF x >= 0 THEN x ELSE -x
Larger(a, b) == IF a >= b THEN a ELSE b

\* How far the video stamp, placed on the wall clock by when video began, is from
\* the audio stamp, in units of one tick times one second.
Apart == videoStamp * Second + videoStart * Ticks - audioStamp * Second

\* Audio and video do not drift apart.  However late the tasks have run and
\* whatever the input did, once neither is behind, the last stamps differ from
\* the moment video began by no more than a period and a tick, and half a unit of
\* the wall clock for each picture and packet: what rounding the periods costs.
StampsInStep ==
  OnTime => 2 * Abs(Apart) <= 2 * Ticks * Larger(VideoPeriod, AudioPeriod) + 2 * Second
                              + Ticks * (videoIndex + audioPackets - 2)
=============================================================================
