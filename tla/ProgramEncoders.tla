--------------------------- MODULE ProgramEncoders ---------------------------
(***************************************************************************)
(* The two encoder tasks of a single pipeline and the bounded queue they   *)
(* share: encode_video and encode_audio of crates/runtime/src/single.rs.   *)
(* Both run on the program clock.  Every tick yields output, from a fresh  *)
(* decoded frame or from a substitute (the last picture, or silence), until *)
(* the decoder side hangs up.  The consumer of the queue asks for a         *)
(* keyframe through the shared flag request_idr, which the video encoder    *)
(* takes with an atomic swap.                                               *)
(*                                                                         *)
(* A packet is one of "key" (a picture that starts a decodable sequence),  *)
(* "delta" (a picture that needs earlier ones) and "audio".  Timestamps     *)
(* and payloads are left out.  A fresh frame and its substitute give the    *)
(* same packet, so the frame queue appears only through `ended`.            *)
(***************************************************************************)
EXTENDS Naturals, Sequences

CONSTANT Capacity   \* slots of the encoded queue, SingleQueuePlan.encoded_messages

ASSUME CapacityAssumption == Capacity \in Nat \ {0}

VARIABLES
  requestIdr,   \* the AtomicBool request_idr
  ended,        \* streams whose frame queue is empty and whose decoder has gone
  encoder,      \* where each encoder task stands
  hand,         \* the packet an encoder task is sending, or "none"
  queue         \* the encoded queue, oldest first

encoderVars == <<requestIdr, ended, encoder, hand, queue>>

Streams == {"video", "audio"}
Packet == {"key", "delta", "audio"}

\* "first": waiting for the first picture; "opening": at the first tick, which
\* does not poll; "tick": at the ticker; "send": in send_observed; "flush":
\* sending what encoder.flush returned.
EncoderStep == {"first", "opening", "tick", "send", "flush", "done"}

EncodersTypeOK ==
  /\ requestIdr \in BOOLEAN
  /\ ended \in SUBSET Streams
  /\ encoder \in [Streams -> EncoderStep]
  /\ hand \in [Streams -> Packet \cup {"none"}]
  /\ queue \in Seq(Packet)
  /\ Len(queue) <= Capacity

EncodersInit ==
  /\ requestIdr = TRUE
  /\ ended = {}
  /\ encoder = [s \in Streams |-> IF s = "video" THEN "first" ELSE "tick"]
  /\ hand = [s \in Streams |-> "none"]
  /\ queue = <<>>

\* All senders of the encoded queue are dropped: recv() gives None once it is empty.
EncodersGone == \A s \in Streams : encoder[s] = "done"

InQueue(p) == \E i \in 1 .. Len(queue) : queue[i] = p

\* A keyframe is on its way to the consumer of the queue.
KeyUnderway == hand["video"] = "key" \/ InQueue("key")

-----------------------------------------------------------------------------
(* The decoder of s has finished and its last frame has been taken.        *)
InputEnds(s) ==
  /\ s \notin ended
  /\ ended' = ended \cup {s}
  /\ UNCHANGED <<requestIdr, encoder, hand, queue>>

\* A plausible bug: the wait for a first picture misses the hang-up.
FirstPictureOnly ==
  /\ encoder["video"] = "first"
  /\ "video" \notin ended
  /\ encoder' = [encoder EXCEPT !["video"] = "opening"]
  /\ UNCHANGED <<requestIdr, ended, hand, queue>>

(* encode_video blocks in recv() until it has a picture to repeat.  With   *)
(* no picture at all it ends at once.                                       *)
FirstPicture ==
  /\ encoder["video"] = "first"
  /\ encoder' = [encoder EXCEPT !["video"] =
                   IF "video" \in ended THEN "done" ELSE "opening"]
  /\ UNCHANGED <<requestIdr, ended, hand, queue>>

VideoTick == encoder["video"] = "opening" \/ (encoder["video"] = "tick" /\ "video" \notin ended)

\* A plausible bug: the request is taken but not passed to the encoder.
EncodeVideoUnforced ==
  /\ VideoTick
  /\ requestIdr' = FALSE
  /\ \E p \in {"key", "delta"} : hand' = [hand EXCEPT !["video"] = p]
  /\ encoder' = [encoder EXCEPT !["video"] = "send"]
  /\ UNCHANGED <<ended, queue>>

(* NVENC works without reordering, so each picture gives its one packet at  *)
(* once.  It may place a keyframe that nobody asked for (the GOP length).    *)
Encoded(force) == {"key"} \cup (IF force THEN {} ELSE {"delta"})

(* One video tick: take the request, encode.                                *)
EncodeVideo ==
  /\ VideoTick
  /\ requestIdr' = FALSE
  /\ \E p \in Encoded(requestIdr) : hand' = [hand EXCEPT !["video"] = p]
  /\ encoder' = [encoder EXCEPT !["video"] = "send"]
  /\ UNCHANGED <<ended, queue>>

(* One audio tick: a decoded block or silence goes to the encoder, which   *)
(* may keep it until it has a full frame.                                   *)
EncodeAudio ==
  /\ encoder["audio"] = "tick"
  /\ "audio" \notin ended
  /\ hand' = [hand EXCEPT !["audio"] = "audio"]
  /\ encoder' = [encoder EXCEPT !["audio"] = "send"]
  /\ UNCHANGED <<requestIdr, ended, queue>>

(* try_recv() reports Disconnected at a tick: leave the loop and flush.    *)
(* The video encoder holds nothing back; the audio encoder may pad and      *)
(* return one last frame.                                                   *)
FlushEncoder(s) ==
  /\ encoder[s] = "tick"
  /\ s \in ended
  /\ \/ /\ encoder' = [encoder EXCEPT ![s] = "done"]
        /\ UNCHANGED hand
     \/ /\ s = "audio"
        /\ encoder' = [encoder EXCEPT ![s] = "flush"]
        /\ hand' = [hand EXCEPT ![s] = "audio"]
  /\ UNCHANGED <<requestIdr, ended, queue>>

(* send_observed: wait for a free slot.                                    *)
Enqueue(s) ==
  /\ encoder[s] \in {"send", "flush"}
  /\ Len(queue) < Capacity
  /\ queue' = Append(queue, hand[s])
  /\ hand' = [hand EXCEPT ![s] = "none"]
  /\ encoder' = [encoder EXCEPT ![s] = IF @ = "send" THEN "tick" ELSE "done"]
  /\ UNCHANGED <<requestIdr, ended>>

\* What the encoder tasks do while the queue has a consumer.
EncodersStep ==
  \/ FirstPicture
  \/ EncodeVideo
  \/ EncodeAudio
  \/ \E s \in Streams : FlushEncoder(s) \/ Enqueue(s)
=============================================================================
