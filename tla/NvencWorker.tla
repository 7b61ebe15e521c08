---------------------------- MODULE NvencWorker ----------------------------
(***************************************************************************)
(* The NVENC encoder (crates/nvidia/src/encoder.rs): a thread that makes the *)
(* native objects, serves one command after the other and gives everything   *)
(* back when it ends, and the NvencEncoder through which a task asks it.      *)
(* Each native call may fail.  The pictures are not modelled.                *)
(***************************************************************************)
EXTENDS Naturals, Sequences

CONSTANTS
  SurfaceCount,      \* NvencConfig.surface_count, at least 1
  CommandCapacity    \* NvencConfig.command_capacity, at least 1

VARIABLES
  stage,      \* where the thread is: making the "context", the "session", the
              \* "surfaces"; waiting ("idle"); in encode ("copied", "mapped");
              \* in Drop ("drop"), or "gone"
  context,    \* the primary context: "none", "retained", "current"
  session,    \* Worker.encoder is not null
  slots,      \* Worker.surfaces: what each SurfaceSlot holds
  surface,    \* the slot that encode uses; the one after it is next_surface
  flushed,    \* Worker.flushed
  commands,   \* the command channel
  handle,     \* the NvencEncoder is there
  request,    \* the command that its owner waits for
  answer      \* the response, "none" before it is there

workerVars == <<stage, context, session, slots, surface, flushed>>
ownerVars == <<handle, request>>
nvencVars == <<workerVars, commands, ownerVars, answer>>

Resource == {"memory", "registered", "bitstream", "mapped"}
Whole == Resource \ {"mapped"}

TypeOK ==
  /\ stage \in {"context", "session", "surfaces", "idle", "copied", "mapped", "drop", "gone"}
  /\ context \in {"none", "retained", "current"}
  /\ session \in BOOLEAN
  /\ slots \in Seq(SUBSET Resource) /\ Len(slots) <= SurfaceCount
  /\ surface \in 1 .. SurfaceCount
  /\ flushed \in BOOLEAN
  /\ commands \in Seq({"encode", "flush", "shutdown"}) /\ Len(commands) <= CommandCapacity
  /\ handle \in BOOLEAN
  /\ request \in {"none", "encode", "flush"}
  /\ answer \in {"none", "ok", "error"}

Init ==
  /\ stage = "context"
  /\ context = "none"
  /\ session = FALSE
  /\ slots = <<>>
  /\ surface = SurfaceCount
  /\ flushed = FALSE
  /\ commands = <<>>
  /\ handle = FALSE
  /\ request = "none"
  /\ answer = "none"

-----------------------------------------------------------------------------
(* Worker::new.  Before there is a Worker an error has nothing to drop but   *)
(* the context; from then on Drop gives back what there is.                  *)
Retain(ok) ==
  /\ stage = "context" /\ context = "none"
  /\ IF ok THEN context' = "retained" /\ UNCHANGED stage ELSE stage' = "gone" /\ UNCHANGED context
  /\ UNCHANGED <<session, slots, surface, flushed, commands, ownerVars, answer>>

Push(ok) ==
  /\ stage = "context" /\ context = "retained"
  /\ IF ok THEN context' = "current" /\ stage' = "session"
           ELSE context' = "none" /\ stage' = "gone"
  /\ UNCHANGED <<session, slots, surface, flushed, commands, ownerVars, answer>>

\* open_encoder may fail with the session open: no preset, or not initialized.
OpenEncoder(opened, ok) ==
  /\ stage = "session"
  /\ ok => opened
  /\ session' = opened
  /\ stage' = IF ok THEN "surfaces" ELSE "drop"
  /\ UNCHANGED <<context, slots, surface, flushed, commands, ownerVars, answer>>

\* create_surfaces: memory, its registration and a bitstream for each surface.
Missing ==
  IF slots = <<>> \/ slots[Len(slots)] = Whole THEN "memory"
  ELSE IF "registered" \notin slots[Len(slots)] THEN "registered" ELSE "bitstream"

CreateSurface(ok) ==
  /\ stage = "surfaces"
  /\ slots # [k \in 1 .. SurfaceCount |-> Whole]
  /\ IF ~ok THEN stage' = "drop" /\ UNCHANGED slots
     ELSE /\ slots' = IF Missing = "memory" THEN Append(slots, {"memory"})
                      ELSE [slots EXCEPT ![Len(slots)] = @ \cup {Missing}]
          /\ UNCHANGED stage
  /\ UNCHANGED <<context, session, surface, flushed, commands, ownerVars, answer>>

\* NvencEncoder::new returns when the thread is ready.
Ready ==
  /\ stage = "surfaces"
  /\ slots = [k \in 1 .. SurfaceCount |-> Whole]
  /\ stage' = "idle"
  /\ handle' = TRUE
  /\ UNCHANGED <<context, session, slots, surface, flushed, commands, request, answer>>

-----------------------------------------------------------------------------
(* The NvencEncoder.  Its owner asks for one thing at a time.               *)
Ask(command) ==
  /\ handle /\ request = "none"
  /\ Len(commands) < CommandCapacity
  /\ commands' = Append(commands, command)
  /\ request' = command
  /\ UNCHANGED <<workerVars, handle, answer>>

Answered ==
  /\ answer = "ok"
  /\ answer' = "none" /\ request' = "none"
  /\ UNCHANGED <<workerVars, commands, handle>>

\* Drop: try_send, so a full channel gets no command; a request is abandoned.
DropHandle ==
  /\ handle
  /\ handle' = FALSE
  /\ request' = "none" /\ answer' = "none"
  /\ commands' = IF Len(commands) < CommandCapacity THEN Append(commands, "shutdown") ELSE commands
  /\ UNCHANGED workerVars

-----------------------------------------------------------------------------
(* Worker::run.  The answer goes to whoever still waits for it.             *)
Respond(ok) == answer' = IF request = "none" THEN "none" ELSE IF ok THEN "ok" ELSE "error"

Served(command) == stage = "idle" /\ commands # <<>> /\ Head(commands) = command

\* The frame is refused, or cannot be copied; only the copy comes after next_surface.
Encode(copied) ==
  /\ Served("encode")
  /\ commands' = Tail(commands)
  /\ IF copied /\ ~flushed
     THEN /\ surface' = (surface % SurfaceCount) + 1
          /\ stage' = "copied"
          /\ UNCHANGED answer
     ELSE /\ surface' \in IF flushed THEN {surface} ELSE {surface, (surface % SurfaceCount) + 1}
          /\ Respond(FALSE)
          /\ UNCHANGED stage
  /\ UNCHANGED <<context, session, slots, flushed, ownerVars>>

Map(ok) ==
  /\ stage = "copied"
  /\ IF ok
     THEN slots' = [slots EXCEPT ![surface] = @ \cup {"mapped"}] /\ stage' = "mapped" /\ UNCHANGED answer
     ELSE stage' = "idle" /\ Respond(FALSE) /\ UNCHANGED slots
  /\ UNCHANGED <<context, session, surface, flushed, commands, ownerVars>>

\* A plausible bug: a picture that NVENC refuses stays mapped.
PictureStaysMapped(ok) ==
  /\ stage = "mapped"
  /\ slots' = IF ok THEN [slots EXCEPT ![surface] = Whole] ELSE slots
  /\ stage' = "idle"
  /\ Respond(ok)
  /\ UNCHANGED <<context, session, surface, flushed, commands, ownerVars>>

\* The picture is encoded, and its bitstream locked, copied and unlocked; any may fail.
Picture(ok) ==
  /\ stage = "mapped"
  /\ slots' = [slots EXCEPT ![surface] = Whole]
  /\ stage' = "idle"
  /\ Respond(ok)
  /\ UNCHANGED <<context, session, surface, flushed, commands, ownerVars>>

Flush(ok) ==
  /\ Served("flush")
  /\ commands' = Tail(commands)
  /\ flushed' = (flushed \/ ok)
  /\ Respond(flushed')
  /\ UNCHANGED <<stage, context, session, slots, surface, ownerVars>>

(* A command or the end of the channel: the loop flushes and ends, and what *)
(* is left in the channel goes with it.                                      *)
Shutdown(ok) ==
  /\ Served("shutdown") \/ (stage = "idle" /\ commands = <<>> /\ ~handle)
  /\ commands' = <<>>
  /\ flushed' = (flushed \/ ok)
  /\ stage' = "drop"
  /\ UNCHANGED <<context, session, slots, surface, ownerVars, answer>>

-----------------------------------------------------------------------------
(* Drop of the Worker, after one more flush: the surfaces, the session, the  *)
(* context.                                                                  *)
DropSurface ==
  /\ stage = "drop" /\ slots # <<>>
  /\ slots' = Tail(slots)
  /\ UNCHANGED <<stage, context, session, surface, flushed, commands, ownerVars, answer>>

DestroyEncoder ==
  /\ stage = "drop" /\ slots = <<>> /\ session
  /\ session' = FALSE
  /\ UNCHANGED <<stage, context, slots, surface, flushed, commands, ownerVars, answer>>

ReleaseContext ==
  /\ stage = "drop" /\ slots = <<>> /\ ~session
  /\ context' = "none"
  /\ stage' = "gone"
  /\ UNCHANGED <<session, slots, surface, flushed, commands, ownerVars, answer>>

Build ==
  \/ \E ok \in BOOLEAN : Retain(ok) \/ Push(ok) \/ CreateSurface(ok)
  \/ \E opened, ok \in BOOLEAN : OpenEncoder(opened, ok)
  \/ Ready

Serve == \E ok \in BOOLEAN : Encode(ok) \/ Map(ok) \/ Picture(ok) \/ Flush(ok) \/ Shutdown(ok)

GoDown == DropSurface \/ DestroyEncoder \/ ReleaseContext

Use == (\E command \in {"encode", "flush"} : Ask(command)) \/ Answered \/ DropHandle

Step == Build \/ Serve \/ GoDown \/ Use

Spec == Init /\ [][Step]_nvencVars

-----------------------------------------------------------------------------
(* Wherever a native call fails, what NVENC and CUDA hold stays nested: a    *)
(* surface is mapped only while a picture is encoded, registered only with a  *)
(* session, the session needs the context of the thread, and a thread that is *)
(* gone has left nothing behind.                                              *)
NativeNested ==
  /\ \A k \in DOMAIN slots :
       /\ "mapped" \in slots[k] => (stage = "mapped" /\ k = surface)
       /\ slots[k] # {} => session
  /\ session => context = "current"
  /\ stage = "gone" => (context = "none" /\ ~session /\ slots = <<>>)
=============================================================================
