----------------------------- MODULE VideoStage -----------------------------
(***************************************************************************)
(* How many NVDEC surfaces a single pipeline has mapped at once: the        *)
(* decode_video and encode_video tasks with the decode gate and the frame   *)
(* queue between them (crates/runtime/src/single.rs), and the NVDEC worker  *)
(* that maps surfaces and unmaps the released ones                           *)
(* (crates/nvidia/src/decoder.rs, here one generation; see NvdecSurfaces).   *)
(*                                                                         *)
(* The gate gives one permit per slot of the frame queue.  A permit is       *)
(* taken before a packet is decoded and goes with the frame until           *)
(* encode_video takes it, but a decode call can map several frames with its *)
(* one permit.  encode_video keeps the latest frame, and for a moment the    *)
(* one before it.  A dropped frame stays mapped until the worker, which      *)
(* drains its release channel only between two commands, has seen it.       *)
(***************************************************************************)
EXTENDS Integers

CONSTANTS
  VideoFrames,     \* SingleQueuePlan.video_frames: slots of the queue, permits of the gate
  OutputSurfaces,  \* NvdecConfig.output_surfaces
  MaxBurst         \* the most frames that one decode or flush call displays

ASSUME StageAssumption ==
  /\ VideoFrames \in Nat \ {0}
  /\ OutputSurfaces \in Nat
  /\ MaxBurst \in Nat \ {0}

VARIABLES
  decoding,   \* where decode_video stands
  flushing,   \* it has left its loop: the last call is decoder.flush
  hand,       \* frames of the last call that it has not sent yet
  permit,     \* 1 while it holds first_permit
  permits,    \* permits free in the gate
  slots,      \* frames in the frame queue, each with its permit
  encoding,   \* where encode_video stands
  last,       \* frames in last_frame: 1 from the first frame on
  replaced,   \* 1 while the frame it replaces is not dropped yet
  worker,     \* the NVDEC worker: at the head of its loop or waiting for a command
  released,   \* releases in its channel
  mapped      \* surfaces mapped, SurfaceMetrics.in_use

decodeVars == <<decoding, flushing, hand, permit>>
encodeVars == <<encoding, last, replaced>>
vars == <<decodeVars, permits, slots, encodeVars, worker, released, mapped>>

TypeOK ==
  /\ decoding \in {"recv", "gate", "call", "emit", "done", "failed"}
  /\ flushing \in BOOLEAN
  /\ hand \in 0 .. MaxBurst
  /\ permit \in 0 .. 1
  /\ permits \in 0 .. VideoFrames
  /\ slots \in 0 .. VideoFrames
  /\ encoding \in {"first", "tick", "swap", "done"}
  /\ last \in 0 .. 1
  /\ replaced \in 0 .. 1
  /\ worker \in {"drain", "recv"}
  /\ released \in Nat
  /\ mapped \in Nat

Init ==
  /\ decoding = "recv"
  /\ flushing = FALSE
  /\ hand = 0
  /\ permit = 0
  /\ permits = VideoFrames
  /\ slots = 0
  /\ encoding = "first"
  /\ last = 0
  /\ replaced = 0
  /\ worker = "drain"
  /\ released = 0
  /\ mapped = 0

-----------------------------------------------------------------------------
(* decode_video: a packet that passes its keyframe gate, or the end of the  *)
(* packet queue.                                                            *)
NextPacket ==
  /\ decoding = "recv"
  /\ decoding' = "gate"
  /\ flushing' \in BOOLEAN
  /\ UNCHANGED <<hand, permit, permits, slots, encodeVars, worker, released, mapped>>

Acquire ==
  /\ decoding = "gate"
  /\ permits > 0
  /\ permits' = permits - 1
  /\ permit' = 1
  /\ decoding' = "call"
  /\ UNCHANGED <<flushing, hand, slots, encodeVars, worker, released, mapped>>

\* After the last frame of a call: an unused first permit is dropped.
CallOver ==
  /\ decoding' = IF flushing THEN "done" ELSE "recv"
  /\ permit' = 0
  /\ permits' = permits + permit

(* Send the next frame with its permit: the first one, or one acquired now. *)
Emit ==
  /\ decoding = "emit"
  /\ hand > 0
  /\ permit = 1 \/ permits > 0
  /\ slots < VideoFrames
  /\ hand' = hand - 1
  /\ slots' = slots + 1
  /\ permit' = 0
  /\ permits' = IF permit = 1 THEN permits ELSE permits - 1
  /\ UNCHANGED <<decoding, flushing, encodeVars, worker, released, mapped>>

Emitted ==
  /\ decoding = "emit"
  /\ hand = 0
  /\ CallOver
  /\ UNCHANGED <<flushing, hand, slots, encodeVars, worker, released, mapped>>

-----------------------------------------------------------------------------
(* encode_video: the first recv, or a tick that finds a frame.  into_timed  *)
(* frees the permit before last_frame drops the frame it replaces.          *)
TakeFrame ==
  /\ encoding \in {"first", "tick"}
  /\ slots > 0
  /\ slots' = slots - 1
  /\ permits' = permits + 1
  /\ replaced' = last
  /\ last' = 1
  /\ encoding' = "swap"
  /\ UNCHANGED <<decodeVars, worker, released, mapped>>

(* The old frame is dropped and the new one encoded.  The encoder gets a    *)
(* clone of last_frame, which shares its surface and is gone before the     *)
(* next tick.                                                               *)
DropReplaced ==
  /\ encoding = "swap"
  /\ released' = released + replaced
  /\ replaced' = 0
  /\ encoding' = "tick"
  /\ UNCHANGED <<decodeVars, permits, slots, last, worker, mapped>>

(* No frame and no decoder any more: the task ends and drops its frame.     *)
EncodeEnds ==
  /\ encoding \in {"first", "tick"}
  /\ slots = 0
  /\ decoding = "done"
  /\ encoding' = "done"
  /\ released' = released + last
  /\ last' = 0
  /\ UNCHANGED <<decodeVars, permits, slots, replaced, worker, mapped>>

-----------------------------------------------------------------------------
(* The NVDEC worker: one release is unmapped.                               *)
Drain ==
  /\ worker = "drain"
  /\ released > 0
  /\ released' = released - 1
  /\ mapped' = mapped - 1
  /\ UNCHANGED <<decodeVars, permits, slots, encodeVars, worker>>

\* A plausible bug: one release is unmapped per command.
DrainedEarly ==
  /\ worker = "drain"
  /\ worker' = "recv"
  /\ UNCHANGED <<decodeVars, permits, slots, encodeVars, released, mapped>>

Drained ==
  /\ worker = "drain"
  /\ released = 0
  /\ worker' = "recv"
  /\ UNCHANGED <<decodeVars, permits, slots, encodeVars, released, mapped>>

Timeout ==
  /\ worker = "recv"
  /\ worker' = "drain"
  /\ UNCHANGED <<decodeVars, permits, slots, encodeVars, released, mapped>>

(* The command of decode_video is served: n frames are displayed and mapped. *)
(* If there is no surface left for one of them the map fails, the ones       *)
(* mapped before it are released, and the error of decode_video ends the run. *)
Call ==
  /\ worker = "recv"
  /\ decoding = "call"
  /\ \E n \in 0 .. MaxBurst :
       IF mapped + n <= OutputSurfaces
       THEN mapped' = mapped + n /\ hand' = n /\ decoding' = "emit" /\ UNCHANGED released
       ELSE mapped' = OutputSurfaces /\ released' = released + OutputSurfaces - mapped
              /\ decoding' = "failed" /\ UNCHANGED hand
  /\ worker' = "drain"
  /\ UNCHANGED <<flushing, permit, permits, slots, encodeVars>>

Decode == NextPacket \/ Acquire \/ Emit \/ Emitted
Encode == TakeFrame \/ DropReplaced \/ EncodeEnds
Worker == Drain \/ Drained \/ Timeout \/ Call

Running == decoding # "failed"
Next == Running /\ (Decode \/ Encode \/ Worker)

Spec == Init /\ [][Next]_vars

-----------------------------------------------------------------------------
\* Frames that exist, wherever they are.
Leased == hand + slots + last + replaced

(* However late the releases are drained, no call finds fewer surfaces than *)
(* it needs, so the run never ends on a failed map.                          *)
PoolSuffices == decoding # "failed"

(* The gate bounds the frames that are alive at once: the queue and two more *)
(* when a call displays one frame, which is what the supported inputs do.    *)
LeasedBounded == Leased <= VideoFrames + MaxBurst + 1

(* architecture.md: the surfaces that NVDEC has out at once are as many as   *)
(* the queue has slots, plus two in flight.                                  *)
MappedWithinPlan == mapped <= VideoFrames + 2
=============================================================================
