-------------------------- MODULE VideoPathProofs --------------------------
(***************************************************************************)
(* The video of a pipeline, for any queue, burst, pool, number of NVENC     *)
(* surfaces and capacity of its channel.  First VideoStage by itself: the    *)
(* invariant counts every surface (SurfacesExact) and every permit           *)
(* (PermitsExact); while the worker waits for a command nothing is mapped,   *)
(* so what it had mapped when it last drained its channel (WaitingBound) and *)
(* one burst more is all there can be.  Then the NVENC thread by itself.      *)
(* Last the path that joins them: until it is aborted it takes steps of the  *)
(* stage and of the encoder, and an abort loses no surface.                  *)
(***************************************************************************)
EXTENDS VideoPath, SequenceTheorems, TLAPS

\* What VideoStage needs of the pool; NvdecConfig::default just meets it.
LargePool == OutputSurfaces >= VideoFrames + 1 + 2 * MaxBurst

SurfacesExact == mapped = Leased + released

PermitsExact == permits + permit + slots = VideoFrames

HandBound ==
  /\ permit = 1 => decoding \in {"call", "emit"}
  /\ decoding # "emit" => hand = 0
  /\ decoding = "call" => permit = 1
  /\ (decoding = "emit" /\ permit = 0) => hand <= MaxBurst - 1
  /\ replaced = 1 => encoding = "swap"

WaitingBound == worker = "recv" => mapped <= VideoFrames + 1 + MaxBurst

StageInv ==
  /\ TypeOK
  /\ SurfacesExact
  /\ PermitsExact
  /\ HandBound
  /\ WaitingBound
  /\ PoolSuffices

LEMMA InitStage == Init => StageInv
<1> SUFFICES ASSUME Init PROVE StageInv
  OBVIOUS
<1> USE StageAssumption DEF StageAssumption, Init
<1>0. flushing \in BOOLEAN
  BY Zenon
<1>1. TypeOK
  BY <1>0 DEF TypeOK
<1>2. SurfacesExact /\ PermitsExact
  BY DEF SurfacesExact, PermitsExact, Leased
<1>3. HandBound /\ WaitingBound /\ PoolSuffices
  BY DEF HandBound, WaitingBound, PoolSuffices
<1> QED
  BY <1>1, <1>2, <1>3 DEF StageInv

\* The frames alive at once, from the permits and the burst.
LEMMA LeasedIsBounded == StageInv => LeasedBounded
<1> SUFFICES ASSUME StageInv PROVE LeasedBounded
  OBVIOUS
<1>1. hand + slots <= VideoFrames + MaxBurst - 1
  BY StageAssumption DEF StageAssumption, StageInv, TypeOK, PermitsExact, HandBound
<1> QED
  BY <1>1, StageAssumption DEF StageAssumption, StageInv, TypeOK, LeasedBounded, Leased

LEMMA StepStage == ASSUME LargePool PROVE StageInv /\ [Next]_vars => StageInv'
<1> SUFFICES ASSUME StageInv, [Next]_vars PROVE StageInv'
  OBVIOUS
<1> USE StageAssumption DEF StageAssumption, StageInv, TypeOK, SurfacesExact, PermitsExact, HandBound,
                            WaitingBound, PoolSuffices, Leased
<1>1. CASE NextPacket
  BY <1>1 DEF NextPacket, encodeVars
<1>2. CASE Acquire
  BY <1>2 DEF Acquire, encodeVars
<1>3. CASE Emit
  BY <1>3 DEF Emit, encodeVars
<1>4. CASE Emitted
  BY <1>4 DEF Emitted, CallOver, encodeVars
<1>5. CASE TakeFrame
  BY <1>5 DEF TakeFrame, decodeVars
<1>6. CASE DropReplaced
  BY <1>6 DEF DropReplaced, decodeVars
<1>7. CASE EncodeEnds
  BY <1>7 DEF EncodeEnds, decodeVars
<1>8. CASE Drain
  BY <1>8 DEF Drain, decodeVars, encodeVars
<1>9. CASE Drained
  BY <1>9, LeasedIsBounded DEF Drained, decodeVars, encodeVars, LeasedBounded
<1>10. CASE Timeout
  BY <1>10 DEF Timeout, decodeVars, encodeVars
<1>11. CASE Call
  BY <1>11, LargePool DEF Call, LargePool, encodeVars
<1>12. CASE UNCHANGED vars
  BY <1>12 DEF vars, decodeVars, encodeVars
<1> QED
  BY <1>1, <1>2, <1>3, <1>4, <1>5, <1>6, <1>7, <1>8, <1>9, <1>10, <1>11, <1>12
     DEF Next, Decode, Encode, Worker

-----------------------------------------------------------------------------
(* A pool of VideoFrames + 1 + 2 * MaxBurst surfaces is enough for any queue *)
(* and any burst: no map ever fails for want of a surface.                   *)
THEOREM LargePoolSuffices == ASSUME LargePool PROVE Spec => []PoolSuffices
<1>1. StageInv => PoolSuffices
  BY DEF StageInv
<1>2. StageInv /\ [Next]_vars => StageInv'
  BY StepStage
<1> QED
  BY InitStage, <1>1, <1>2, PTL DEF Spec

(* The gate bounds the frames alive at once by the queue and the burst.     *)
THEOREM LeasesBounded == ASSUME LargePool PROVE Spec => []LeasedBounded
<1>1. StageInv /\ [Next]_vars => StageInv'
  BY StepStage
<1> QED
  BY InitStage, LeasedIsBounded, <1>1, PTL DEF Spec

-----------------------------------------------------------------------------
\* From Push on, until the thread is gone, its context is current.
UnderContext == {"session", "surfaces", "idle", "copied", "mapped", "drop"}

\* Between create_surfaces and Drop the session is open.
UnderSession == {"surfaces", "idle", "copied", "mapped"}

(* NativeNested alone does not say that a thread which builds or serves has *)
(* the context and the session that its next step uses.                     *)
NestInv ==
  /\ stage \in {"context", "gone"} \cup UnderContext
  /\ slots_ \in Seq(SUBSET Nvenc!Resource)
  /\ session \in BOOLEAN
  /\ stage \in UnderContext => context = "current"
  /\ stage \in UnderSession => session
  /\ stage \in {"context", "session", "gone"} => ~session
  /\ stage = "gone" => context = "none"
  /\ slots_ # <<>> => session
  /\ \A k \in DOMAIN slots_ : "mapped" \in slots_[k] => (stage = "mapped" /\ k = surface)

encoderVars == Nvenc!nvencVars

workerOf == <<stage, context, session, slots_, surface>>

\* A thread whose surfaces are unmapped has no picture in work.
NoneMapped(s) == \A k \in DOMAIN s : "mapped" \notin s[k]

LEMMA SlotSet ==
  ASSUME NEW s \in Seq(SUBSET Nvenc!Resource), NEW k, NEW t \in SUBSET Nvenc!Resource
  PROVE  [s EXCEPT ![k] = t] \in Seq(SUBSET Nvenc!Resource)
<1>1. CASE k \in 1 .. Len(s)
  BY <1>1, ExceptSeq
<1>2. CASE k \notin 1 .. Len(s)
  <2>1. DOMAIN s = 1 .. Len(s) /\ s = [i \in DOMAIN s |-> s[i]]
    OBVIOUS
  <2>2. [s EXCEPT ![k] = t] = s
    BY <1>2, <2>1
  <2>. QED
    BY <2>2
<1>. QED
  BY <1>1, <1>2

LEMMA NestedInit == Nvenc!Init => NestInv
<1> SUFFICES ASSUME Nvenc!Init PROVE NestInv
  OBVIOUS
<1>1. slots_ \in Seq(SUBSET Nvenc!Resource) /\ Len(slots_) = 0
  BY EmptySeq DEF Nvenc!Init
<1>2. DOMAIN slots_ = {}
  BY <1>1
<1>. QED
  BY <1>1, <1>2 DEF Nvenc!Init, NestInv, UnderContext, UnderSession

LEMMA SurfacesGrow ==
  ASSUME NestInv, NEW ok \in BOOLEAN, Nvenc!CreateSurface(ok)
  PROVE  slots_' \in Seq(SUBSET Nvenc!Resource) /\ NoneMapped(slots_')
<1> USE DEF NestInv
<1>0. stage = "surfaces" /\ NoneMapped(slots_)
  BY DEF Nvenc!CreateSurface, NoneMapped
<1>1. CASE slots_' = slots_
  BY <1>0, <1>1
<1>2. CASE ok /\ Nvenc!Missing = "memory"
  <2>1. slots_' = Append(slots_, {"memory"})
    BY <1>2 DEF Nvenc!CreateSurface
  <2>2. {"memory"} \in SUBSET Nvenc!Resource
    BY DEF Nvenc!Resource
  <2>. QED
    BY <1>0, <2>1, <2>2, AppendProperties DEF NoneMapped
<1>3. CASE ok /\ Nvenc!Missing # "memory"
  <2>1. slots_' = [slots_ EXCEPT ![Len(slots_)] = @ \cup {Nvenc!Missing}]
    BY <1>3 DEF Nvenc!CreateSurface
  <2>2. Nvenc!Missing \in Nvenc!Resource \ {"mapped"}
    BY DEF Nvenc!Missing, Nvenc!Resource
  <2>3. slots_[Len(slots_)] \in SUBSET Nvenc!Resource
    BY <1>3, LenProperties, EmptySeq DEF Nvenc!Missing
  <2>4. slots_' \in Seq(SUBSET Nvenc!Resource)
    BY <2>1, <2>2, <2>3, SlotSet
  <2>5. NoneMapped(slots_')
    BY <1>0, <2>1, <2>2 DEF NoneMapped
  <2>. QED
    BY <2>4, <2>5
<1>. QED
  BY <1>1, <1>2, <1>3 DEF Nvenc!CreateSurface

LEMMA NestedBuild == NestInv /\ Nvenc!Build => NestInv'
<1> SUFFICES ASSUME NestInv, Nvenc!Build PROVE NestInv'
  OBVIOUS
<1> USE DEF UnderContext, UnderSession
<1>1. ASSUME NEW ok \in BOOLEAN, Nvenc!Retain(ok) PROVE NestInv'
  BY <1>1 DEF NestInv, Nvenc!Retain
<1>2. ASSUME NEW ok \in BOOLEAN, Nvenc!Push(ok) PROVE NestInv'
  BY <1>2 DEF NestInv, Nvenc!Push
<1>3. ASSUME NEW opened \in BOOLEAN, NEW ok \in BOOLEAN, Nvenc!OpenEncoder(opened, ok) PROVE NestInv'
  BY <1>3 DEF NestInv, Nvenc!OpenEncoder
<1>4. ASSUME NEW ok \in BOOLEAN, Nvenc!CreateSurface(ok) PROVE NestInv'
  <2>1. slots_' \in Seq(SUBSET Nvenc!Resource) /\ NoneMapped(slots_')
    BY <1>4, SurfacesGrow
  <2>. QED
    BY <1>4, <2>1 DEF NestInv, Nvenc!CreateSurface, NoneMapped
<1>5. CASE Nvenc!Ready
  BY <1>5 DEF NestInv, Nvenc!Ready
<1>. QED
  BY <1>1, <1>2, <1>3, <1>4, <1>5 DEF Nvenc!Build

LEMMA NestedServe == NestInv /\ Nvenc!Serve => NestInv'
<1> SUFFICES ASSUME NestInv, NEW ok \in BOOLEAN,
                    Nvenc!Encode(ok) \/ Nvenc!Map(ok) \/ Nvenc!Picture(ok) \/ Nvenc!Flush(ok) \/ Nvenc!Shutdown(ok)
             PROVE  NestInv'
  BY DEF Nvenc!Serve
<1> USE DEF UnderContext, UnderSession, NestInv
<1>1. CASE Nvenc!Encode(ok)
  BY <1>1 DEF Nvenc!Encode, Nvenc!Served
<1>2. CASE Nvenc!Map(ok)
  <2>1. CASE slots_' = slots_
    BY <1>2, <2>1 DEF Nvenc!Map
  <2>2. CASE ok
    <3>1. slots_' \in Seq(SUBSET Nvenc!Resource)
      BY <1>2, <2>2, SlotSet, {"mapped"} \subseteq Nvenc!Resource DEF Nvenc!Map, Nvenc!Resource
    <3>. QED
      BY <1>2, <2>2, <3>1 DEF Nvenc!Map
  <2>. QED
    BY <1>2, <2>1, <2>2 DEF Nvenc!Map
<1>3. CASE Nvenc!Picture(ok)
  <2>1. slots_' \in Seq(SUBSET Nvenc!Resource)
    BY <1>3, SlotSet, Nvenc!Whole \subseteq Nvenc!Resource DEF Nvenc!Picture, Nvenc!Whole
  <2>2. NoneMapped(slots_')
    BY <1>3 DEF Nvenc!Picture, Nvenc!Whole, NoneMapped
  <2>. QED
    BY <1>3, <2>1, <2>2 DEF Nvenc!Picture, NoneMapped
<1>4. CASE Nvenc!Flush(ok)
  BY <1>4 DEF Nvenc!Flush
<1>5. CASE Nvenc!Shutdown(ok)
  BY <1>5 DEF Nvenc!Shutdown, Nvenc!Served
<1>. QED
  BY <1>1, <1>2, <1>3, <1>4, <1>5

LEMMA NestedDown == NestInv /\ Nvenc!GoDown => NestInv'
<1> SUFFICES ASSUME NestInv, Nvenc!GoDown PROVE NestInv'
  OBVIOUS
<1> USE DEF UnderContext, UnderSession, NestInv
<1>1. CASE Nvenc!DropSurface
  BY <1>1, HeadTailProperties DEF Nvenc!DropSurface
<1>2. CASE Nvenc!DestroyEncoder
  BY <1>2 DEF Nvenc!DestroyEncoder
<1>3. CASE Nvenc!ReleaseContext
  BY <1>3 DEF Nvenc!ReleaseContext
<1>. QED
  BY <1>1, <1>2, <1>3 DEF Nvenc!GoDown

LEMMA NestedStep == NestInv /\ [Nvenc!Step]_encoderVars => NestInv'
<1> SUFFICES ASSUME NestInv, [Nvenc!Step]_encoderVars PROVE NestInv'
  OBVIOUS
<1>1. CASE Nvenc!Build
  BY <1>1, NestedBuild
<1>2. CASE Nvenc!Serve
  BY <1>2, NestedServe
<1>3. CASE Nvenc!GoDown
  BY <1>3, NestedDown
<1>4. CASE Nvenc!Use \/ UNCHANGED encoderVars
  <2>1. UNCHANGED workerOf
    BY <1>4 DEF Nvenc!Use, Nvenc!Ask, Nvenc!Answered, Nvenc!DropHandle, Nvenc!workerVars, encoderVars, Nvenc!nvencVars, workerOf
  <2>. QED
    BY <2>1 DEF NestInv, workerOf
<1>. QED
  BY <1>1, <1>2, <1>3, <1>4 DEF Nvenc!Step

(* Whatever fails, while the thread is made, works or goes down: NVENC and   *)
(* CUDA objects are nested, and a thread that is gone has left none.         *)
THEOREM NestedAlways == Nvenc!Spec => []Nvenc!NativeNested
<1>1. NestInv => Nvenc!NativeNested
  BY DEF NestInv, Nvenc!NativeNested, UnderContext, UnderSession
<1>. QED
  BY <1>1, NestedInit, NestedStep, PTL DEF Nvenc!Spec, encoderVars

-----------------------------------------------------------------------------
(* The tasks use the encoder as one owner does that asks for one thing at a *)
(* time.                                                                     *)
LEMMA PathStepsEncoder == [PathNext]_pathVars => [Nvenc!Step]_encoderVars
<1> SUFFICES ASSUME [PathNext]_pathVars PROVE [Nvenc!Step]_encoderVars
  OBVIOUS
<1>1. CASE DecodeStep \/ Take \/ AbandonedCall \/ NvdecStep \/ UNCHANGED pathVars
  BY <1>1 DEF DecodeStep, Take, AbandonedCall, NvdecStep, pathVars, nvenc, encoderVars, Nvenc!nvencVars,
              Nvenc!workerVars, Nvenc!ownerVars
<1>2. CASE EncodeFrame \/ RepeatFrame \/ FlushEncoder
  BY <1>2 DEF EncodeFrame, RepeatFrame, FlushEncoder, Nvenc!Step, Nvenc!Use
<1>3. CASE Goes \/ Ends \/ Abort
  BY <1>3 DEF Goes, Ends, Abort, Nvenc!Step, Nvenc!Use
<1>4. CASE NvencStep
  BY <1>4 DEF NvencStep, Nvenc!Step
<1>. QED
  BY <1>1, <1>2, <1>3, <1>4 DEF PathNext

(* Every run of the path, with its aborts, is a behaviour of the encoder as  *)
(* NvencWorker has it.                                                       *)
THEOREM PathUsesEncoder == PathSpec => Nvenc!Spec
<1>1. PathInit => Nvenc!Init
  BY DEF PathInit
<1>. QED
  BY <1>1, PathStepsEncoder, PTL DEF PathSpec, Nvenc!Spec, encoderVars

(* So the native objects of the encoder are nested in every run, also when   *)
(* the tasks are dropped while a picture is encoded.                         *)
THEOREM PathNested == PathSpec => []NativeNested
  BY PathUsesEncoder, NestedAlways, PTL DEF NativeNested

-----------------------------------------------------------------------------
(* The count of VideoStage, with the surface that the clone of an abandoned *)
(* request holds.                                                            *)
EverySurface == mapped = Leased + released + orphan /\ mapped <= OutputSurfaces

\* An aborted task has dropped its frames; before that nothing is abandoned.
AbortDrops ==
  IF aborted THEN hand = 0 /\ slots = 0 /\ last = 0 /\ replaced = 0
             ELSE orphan = 0 /\ ~abandoned

(* A pool that is large enough for VideoStage is so for the path.           *)
PathInv ==
  /\ aborted \in BOOLEAN /\ orphan \in 0 .. 1 /\ mapped \in Nat /\ released \in Nat
  /\ EverySurface
  /\ AbortDrops
  /\ PoolSuffices
  /\ ~aborted => StageInv

\* Until it is aborted, a step of the path is one of the stage or leaves it alone.
LEMMA PathStepsStage ==
  ASSUME PathInv, [PathNext]_pathVars, ~aborted'
  PROVE  aborted' = aborted /\ orphan' = 0 /\ ~abandoned' /\ [Next]_vars
<1> USE DEF Next, Running, Decode, Encode, Worker, PathInv, PoolSuffices, AbortDrops
<1>1. CASE DecodeStep \/ Take \/ NvdecStep
  BY <1>1 DEF DecodeStep, Take, NvdecStep, endVars
<1>2. CASE EncodeFrame \/ RepeatFrame \/ FlushEncoder \/ Goes \/ Ends
  BY <1>2 DEF EncodeFrame, RepeatFrame, FlushEncoder, Goes, Ends, endVars
<1>3. CASE Abort \/ AbandonedCall
  BY <1>3 DEF Abort, AbandonedCall
<1>4. CASE NvencStep
  BY <1>4 DEF NvencStep, CloneGoes, vars, decodeVars, encodeVars
<1>5. CASE UNCHANGED pathVars
  BY <1>5 DEF pathVars, endVars
<1>. QED
  BY <1>1, <1>2, <1>3, <1>4, <1>5 DEF PathNext

\* What the steps after an abort leave: the GPU threads alone go on.
LEMMA AbortedKeeps ==
  ASSUME PathInv, [PathNext]_pathVars, aborted'
  PROVE  PathInv'
<1> USE StageAssumption DEF StageAssumption, PathInv, EverySurface, AbortDrops, PoolSuffices, Leased
<1>1. CASE Abort
  <2>1. ~aborted /\ decoding # "failed" /\ StageInv
    BY <1>1 DEF Abort, Alive
  <2>2. hand \in Nat /\ slots \in Nat /\ last \in Nat /\ replaced \in Nat
    BY <2>1 DEF StageInv, TypeOK
  <2>3. orphan' \in 0 .. 1 /\ (orphan' = 1 => last = 1)
    BY <1>1 DEF Abort, Shared
  <2>. QED
    BY <1>1, <2>1, <2>2, <2>3 DEF Abort
<1>2. CASE AbandonedCall
  BY <1>2 DEF AbandonedCall, decodeVars, encodeVars
<1>3. CASE NvdecStep
  BY <1>3 DEF NvdecStep, Drain, Drained, Timeout, decodeVars, encodeVars, endVars
<1>4. CASE NvencStep
  BY <1>4 DEF NvencStep, CloneGoes, decodeVars, encodeVars
<1>5. CASE UNCHANGED pathVars
  BY <1>5 DEF pathVars, vars, decodeVars, encodeVars, endVars
<1>6. aborted \/ Abort
  BY DEF PathNext, DecodeStep, Take, EncodeFrame, RepeatFrame, FlushEncoder, Goes, Ends,
         AbandonedCall, NvdecStep, NvencStep, pathVars, endVars
<1>7. aborted => ~(DecodeStep \/ Take \/ EncodeFrame \/ RepeatFrame \/ FlushEncoder \/ Goes \/ Ends)
  BY DEF DecodeStep, Take, EncodeFrame, RepeatFrame, FlushEncoder, Goes, Ends, Alive
<1>. QED
  BY <1>1, <1>2, <1>3, <1>4, <1>5, <1>6, <1>7 DEF PathNext

LEMMA FourNaturals ==
  ASSUME NEW a \in Nat, NEW b \in Nat, NEW c \in Nat, NEW d \in Nat
  PROVE  a + b + c + d \in Nat
OBVIOUS

\* Before an abort the stage keeps its own invariant.
LEMMA RunningKeeps ==
  ASSUME LargePool, PathInv, [PathNext]_pathVars, ~aborted'
  PROVE  PathInv'
<1>1. aborted' = aborted /\ orphan' = 0 /\ ~abandoned' /\ [Next]_vars
  BY PathStepsStage
<1>2. StageInv'
  BY <1>1, StepStage, Zenon DEF PathInv
<1>3. mapped' <= OutputSurfaces
  BY <1>1, StageAssumption DEF StageAssumption, PathInv, EverySurface, StageInv, TypeOK, Next, Decode,
     Encode, Worker, NextPacket, Acquire, Emit, Emitted, TakeFrame, DropReplaced, EncodeEnds, Drain,
     Drained, Timeout, Call, vars
<1>4. mapped' \in Nat /\ released' \in Nat /\ Leased' \in Nat
  <2>1. TypeOK'
    BY <1>2, Zenon DEF StageInv
  <2>2. hand' \in Nat /\ slots' \in Nat /\ last' \in Nat /\ replaced' \in Nat
    BY <2>1, StageAssumption DEF StageAssumption, TypeOK
  <2>3. mapped' \in Nat /\ released' \in Nat
    BY <2>1 DEF TypeOK
  <2>4. Leased' = hand' + slots' + last' + replaced'
    BY Zenon DEF Leased
  <2>5. hand' + slots' + last' + replaced' \in Nat
    BY <2>2, FourNaturals, Zenon
  <2>. QED
    BY <2>3, <2>4, <2>5, Zenon
<1>5. mapped' = Leased' + released'
  BY <1>2 DEF StageInv, SurfacesExact
<1>6. EverySurface' /\ orphan' \in 0 .. 1
  BY <1>1, <1>3, <1>4, <1>5 DEF EverySurface
<1>7. PoolSuffices'
  BY <1>2 DEF StageInv
<1>8. aborted' \in BOOLEAN /\ AbortDrops'
  BY <1>1, Zenon DEF PathInv, AbortDrops
<1>. QED
  BY <1>2, <1>4, <1>6, <1>7, <1>8, Zenon DEF PathInv

(* The bound of VideoStage is enough for the path too: whatever the NVENC    *)
(* thread does and whenever the run is aborted, no map fails for want of a    *)
(* surface; and an abort loses none: each mapped one is held or released.     *)
THEOREM PathPoolSuffices == ASSUME LargePool PROVE PathSpec => [](PoolSuffices /\ EverySurface)
<1>1. PathInit => PathInv
  <2> SUFFICES ASSUME PathInit PROVE PathInv
    OBVIOUS
  <2>1. StageInv
    BY InitStage DEF PathInit
  <2>2. EverySurface /\ mapped \in Nat /\ released \in Nat
    BY StageAssumption DEF StageAssumption, PathInit, Init, EverySurface, Leased
  <2>3. aborted \in BOOLEAN /\ ~aborted /\ ~abandoned /\ orphan = 0
    BY Zenon DEF PathInit
  <2>4. orphan \in 0 .. 1 /\ PoolSuffices
    BY <2>1, <2>3 DEF StageInv
  <2>. QED
    BY <2>1, <2>2, <2>3, <2>4, Zenon DEF PathInv, AbortDrops
<1>2. PathInv /\ [PathNext]_pathVars => PathInv'
  <2> SUFFICES ASSUME PathInv, [PathNext]_pathVars PROVE PathInv'
    OBVIOUS
  <2>. QED
    BY AbortedKeeps, RunningKeeps
<1>3. PathInv => PoolSuffices /\ EverySurface
  BY DEF PathInv
<1>. QED
  BY <1>1, <1>2, <1>3, PTL DEF PathSpec
=============================================================================
