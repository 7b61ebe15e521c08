----------------------------- MODULE VideoPath -----------------------------
(***************************************************************************)
(* The video of a pipeline between its two GPU threads: the NVDEC worker and *)
(* the tasks of VideoStage, and the NVENC thread that encode_video asks for  *)
(* each picture (NvencWorker).  A request carries a clone of the frame, so    *)
(* its surface stays mapped as long as the frame or the clone is alive: that  *)
(* matters when the run is aborted while NVENC still works.  The packets that *)
(* come out are left to ProgramEncoders.                                      *)
(***************************************************************************)
EXTENDS VideoStage, Sequences

CONSTANTS SurfaceCount, CommandCapacity   \* see NvencWorker

ASSUME PathAssumption ==
  /\ SurfaceCount \in Nat \ {0}
  /\ CommandCapacity \in Nat \ {0}

VARIABLES
  stage, context, session, slots_, surface, flushed, commands, handle, request, answer,
  aborted,     \* the tasks were aborted
  abandoned,   \* a decode command of the aborted task that the NVDEC worker has still to serve
  orphan       \* 1 while only the clone of an abandoned request holds a surface

nvenc == <<stage, context, session, slots_, surface, flushed, commands, handle, request, answer>>
endVars == <<aborted, abandoned, orphan>>
pathVars == <<vars, nvenc, endVars>>

Nvenc == INSTANCE NvencWorker WITH slots <- slots_

PathTypeOK == TypeOK /\ Nvenc!TypeOK /\ aborted \in BOOLEAN /\ abandoned \in BOOLEAN /\ orphan \in 0 .. 1

PathInit == Init /\ Nvenc!Init /\ aborted = FALSE /\ abandoned = FALSE /\ orphan = 0

-----------------------------------------------------------------------------
\* The run starts when the encoder is built, and has not been aborted.
Alive == handle /\ ~aborted

DecodeStep == Alive /\ (NextPacket \/ Acquire \/ Emit \/ Emitted \/ Call) /\ UNCHANGED <<nvenc, endVars>>

Waiting == request # "none"

Take == Alive /\ ~Waiting /\ TakeFrame /\ UNCHANGED <<nvenc, endVars>>

\* The new frame replaces the old one and is encoded.
EncodeFrame == Alive /\ ~Waiting /\ DropReplaced /\ Nvenc!Ask("encode") /\ UNCHANGED endVars

\* A tick without a new frame.
RepeatFrame ==
  /\ Alive /\ ~Waiting
  /\ encoding = "tick" /\ slots = 0 /\ decoding # "done"
  /\ Nvenc!Ask("encode")
  /\ UNCHANGED <<vars, endVars>>

FlushEncoder ==
  /\ Alive /\ ~Waiting
  /\ encoding = "tick" /\ slots = 0 /\ decoding = "done"
  /\ Nvenc!Ask("flush")
  /\ UNCHANGED <<vars, endVars>>

Goes == Alive /\ request = "encode" /\ Nvenc!Answered /\ UNCHANGED <<vars, endVars>>

\* The task ends after the flush, or without a frame, and drops the encoder.
Ends ==
  /\ Alive
  /\ IF encoding = "first" THEN ~Waiting ELSE request = "flush" /\ answer = "ok"
  /\ EncodeEnds
  /\ Nvenc!DropHandle
  /\ UNCHANGED endVars

-----------------------------------------------------------------------------
\* A request that NVENC has not answered holds the frame too.
Shared == request = "encode" /\ answer = "none" /\ last = 1

\* A plausible bug: the clone of an abandoned request is never dropped.
ClonesLost == UNCHANGED <<orphan, released>>

\* When encode returns the clone is dropped, before the answer is sent.
CloneGoes == orphan' = 0 /\ released' = released + orphan

(* The run is aborted: a task has failed, or the user stops it.  All tasks  *)
(* are dropped with their frames and the encoder.                            *)
Abort ==
  /\ Alive
  /\ aborted' = TRUE
  /\ abandoned' = (decoding = "call")
  /\ orphan' = IF Shared THEN 1 ELSE 0
  /\ released' = released + Leased - orphan'
  /\ decoding' = IF decoding = "failed" THEN "failed" ELSE "done"
  /\ encoding' = "done"
  /\ hand' = 0 /\ slots' = 0 /\ last' = 0 /\ replaced' = 0 /\ permit' = 0
  /\ permits' = VideoFrames
  /\ Nvenc!DropHandle
  /\ UNCHANGED <<flushing, worker, mapped>>

(* The frames of a decode call that nobody waits for are dropped at once.   *)
AbandonedCall ==
  /\ worker = "recv" /\ abandoned
  /\ \E n \in 0 .. MaxBurst :
       LET more == IF mapped + n <= OutputSurfaces THEN n ELSE OutputSurfaces - mapped
       IN  mapped' = mapped + more /\ released' = released + more
  /\ abandoned' = FALSE
  /\ worker' = "drain"
  /\ UNCHANGED <<decodeVars, permits, slots, encodeVars, nvenc, aborted, orphan>>

NvdecStep == (Drain \/ Drained \/ Timeout) /\ UNCHANGED <<nvenc, endVars>>

\* The NVENC thread.  A picture that is over drops its frame.
NvencStep ==
  /\ Nvenc!Build \/ Nvenc!Serve \/ Nvenc!GoDown
  /\ IF (Nvenc!Served("encode") \/ stage \in {"copied", "mapped"}) /\ stage' = "idle"
     THEN CloneGoes ELSE UNCHANGED <<orphan, released>>
  /\ UNCHANGED <<decodeVars, permits, slots, encodeVars, worker, mapped, aborted, abandoned>>

PathNext ==
  \/ DecodeStep \/ Take \/ EncodeFrame \/ RepeatFrame \/ FlushEncoder \/ Goes \/ Ends
  \/ Abort \/ AbandonedCall \/ NvdecStep \/ NvencStep

PathSpec == PathInit /\ [][PathNext]_pathVars

(* The tasks and the two GPU threads go on when they can; a command that is   *)
(* there is served although the NVDEC worker may time out just before it       *)
(* arrives; and a task that has failed, or an encoder that refuses a picture,  *)
(* ends the run.                                                              *)
PathFairSpec ==
  /\ PathSpec
  /\ WF_pathVars(Alive /\ (Acquire \/ Emit \/ Emitted) /\ UNCHANGED <<nvenc, endVars>>)
  /\ SF_pathVars(Alive /\ Call /\ UNCHANGED <<nvenc, endVars>>)
  /\ WF_pathVars(Take \/ EncodeFrame \/ FlushEncoder \/ Goes \/ Ends)
  /\ WF_pathVars((Drain \/ Drained) /\ UNCHANGED <<nvenc, endVars>>)
  /\ WF_pathVars(Timeout /\ UNCHANGED <<nvenc, endVars>>)
  /\ SF_pathVars(AbandonedCall)
  /\ WF_pathVars(NvencStep)
  /\ WF_pathVars((answer = "error" \/ decoding = "failed") /\ Abort)

-----------------------------------------------------------------------------
NativeNested == Nvenc!NativeNested

(* When the packets end or the run is aborted, even while both GPU threads    *)
(* work for tasks that are no longer there, every surface is given back and   *)
(* the NVENC thread ends.                                                     *)
PathDrains == (flushing \/ aborted) ~> (mapped = 0 /\ stage = "gone")
=============================================================================
