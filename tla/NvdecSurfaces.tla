--------------------------- MODULE NvdecSurfaces ---------------------------
(***************************************************************************)
(* The surface leases of the NVDEC decoder (crates/nvidia/src/decoder.rs). *)
(* A worker thread owns the native decoders.  Each frame it returns is a    *)
(* lease on a surface that stays mapped until the lease is dropped, by any  *)
(* thread and at any later time; the drop only posts a release to an        *)
(* unbounded channel, which the worker drains between two commands.  An     *)
(* input discontinuity starts a new generation with a new native decoder    *)
(* while leases of the old one are still out, so a decoder that still has   *)
(* mapped surfaces is retired, and destroyed with its last release.         *)
(*                                                                         *)
(* The client is any user of NvdecDecoder: it may give up waiting for a     *)
(* response, which drops the frames in it, and drop the decoder while       *)
(* leases are out.  The surfaces of one generation are interchangeable, so   *)
(* leases and releases are counted per generation.                          *)
(***************************************************************************)
EXTENDS Integers, Sequences, Functions

CONSTANTS
  OutputSurfaces,    \* ulNumOutputSurfaces, the surfaces one native decoder can map
  CommandCapacity,   \* slots of the command channel
  MaxGeneration      \* bound of the model: no generation beyond it is asked for

ASSUME SurfacesAssumption ==
  /\ OutputSurfaces \in Nat \ {0}
  /\ CommandCapacity \in Nat \ {0}
  /\ MaxGeneration \in Nat \ {0}

VARIABLES
  client,        \* "open" while the NvdecDecoder exists, then "gone"
  commands,      \* the command channel
  worker,        \* "drain" at the head of its loop, "recv" at the channel, "exited"
  shuttingDown,
  next,          \* next_generation
  current,       \* the current Generation, or NoGeneration
  retired,       \* mapped_surfaces of each retired generation
  inUse,         \* SurfaceMetrics.in_use
  leases,        \* leases not yet dropped, per generation
  releases,      \* the release channel, per generation
  native         \* generations whose native decoder exists

vars == <<client, commands, worker, shuttingDown, next, current, retired, inUse, leases,
          releases, native>>

Generation == 1 .. MaxGeneration

\* "parse": decode without a discontinuity, or flush; "reset": decode with one.
Command == {"parse", "reset", "shutdown"}

\* decoder: the sequence callback has created the native decoder.
NoGeneration == [id |-> 0, decoder |-> FALSE, mapped |-> 0]

TypeOK ==
  /\ client \in {"open", "gone"}
  /\ commands \in Seq(Command)
  /\ Len(commands) <= CommandCapacity
  /\ worker \in {"drain", "recv", "exited"}
  /\ shuttingDown \in BOOLEAN
  /\ next \in 1 .. MaxGeneration + 1
  /\ current \in [id : 0 .. MaxGeneration, decoder : BOOLEAN, mapped : Nat]
  /\ DOMAIN retired \subseteq Generation
  /\ retired \in [DOMAIN retired -> Nat]
  /\ inUse \in Int
  /\ leases \in [Generation -> Nat]
  /\ releases \in [Generation -> Nat]
  /\ native \in SUBSET Generation

\* Worker::new has started the first generation.
Init ==
  /\ client = "open"
  /\ commands = <<>>
  /\ worker = "drain"
  /\ shuttingDown = FALSE
  /\ next = 2
  /\ current = [id |-> 1, decoder |-> FALSE, mapped |-> 0]
  /\ retired = [g \in {} |-> 0]
  /\ inUse = 0
  /\ leases = [g \in Generation |-> 0]
  /\ releases = [g \in Generation |-> 0]
  /\ native = {}

-----------------------------------------------------------------------------
(* request: blocks until the channel has room.  The client may stop waiting *)
(* for the response at any time, so several requests can be queued.          *)
Request(c) ==
  /\ client = "open"
  /\ c = "reset" => next + Len(commands) <= MaxGeneration
  /\ Len(commands) < CommandCapacity
  /\ commands' = Append(commands, c)
  /\ UNCHANGED <<client, worker, shuttingDown, next, current, retired, inUse, leases, releases,
                 native>>

(* shutdown() sends the command; drop only tries to, and leaves it to the   *)
(* closed channel when there is no room.                                     *)
DropDecoder ==
  /\ client = "open"
  /\ client' = "gone"
  /\ commands' = IF Len(commands) < CommandCapacity
                 THEN Append(commands, "shutdown") ELSE commands
  /\ UNCHANGED <<worker, shuttingDown, next, current, retired, inUse, leases, releases, native>>

(* NvdecSurfaceLease::drop.                                                 *)
DropLease(g) ==
  /\ leases[g] > 0
  /\ leases' = [leases EXCEPT ![g] = @ - 1]
  /\ releases' = [releases EXCEPT ![g] = @ + 1]
  /\ UNCHANGED <<client, commands, worker, shuttingDown, next, current, retired, inUse, native>>

-----------------------------------------------------------------------------
Without(f, g) == [h \in DOMAIN f \ {g} |-> f[h]]

ReleaseCurrent(g) ==
  /\ g = current.id
  /\ current' = [current EXCEPT !.mapped = IF @ = 0 THEN 0 ELSE @ - 1]
  /\ inUse' = inUse - 1
  /\ UNCHANGED <<retired, native>>

ReleaseRetired(g) ==
  /\ g # current.id
  /\ g \in DOMAIN retired
  /\ inUse' = inUse - 1
  /\ IF retired[g] <= 1
     THEN retired' = Without(retired, g) /\ native' = native \ {g}
     ELSE retired' = [retired EXCEPT ![g] = @ - 1] /\ UNCHANGED native
  /\ UNCHANGED current

\* "unknown NVDEC surface release" is logged and nothing is unmapped.
ReleaseUnknown(g) ==
  /\ g # current.id
  /\ g \notin DOMAIN retired
  /\ UNCHANGED <<current, retired, inUse, native>>

(* One turn of drain_releases.                                              *)
Drain(g) ==
  /\ worker = "drain"
  /\ releases[g] > 0
  /\ releases' = [releases EXCEPT ![g] = @ - 1]
  /\ ReleaseCurrent(g) \/ ReleaseRetired(g) \/ ReleaseUnknown(g)
  /\ UNCHANGED <<client, commands, worker, shuttingDown, next, leases>>

\* A plausible bug: shutdown does not wait for the leases that are out.
DrainedEager ==
  /\ worker = "drain"
  /\ \A g \in Generation : releases[g] = 0
  /\ worker' = IF shuttingDown THEN "exited" ELSE "recv"
  /\ IF shuttingDown
     THEN commands' = <<>> /\ native' = {}
     ELSE UNCHANGED <<commands, native>>
  /\ UNCHANGED <<client, shuttingDown, next, current, retired, inUse, leases, releases>>

(* The release channel is empty: leave if nothing is mapped any more, else  *)
(* wait for a command.  Commands still queued at exit get no answer.        *)
Drained ==
  /\ worker = "drain"
  /\ \A g \in Generation : releases[g] = 0
  /\ IF shuttingDown /\ DOMAIN retired = {}
     THEN worker' = "exited" /\ commands' = <<>>
     ELSE worker' = "recv" /\ UNCHANGED commands
  /\ UNCHANGED <<client, shuttingDown, next, current, retired, inUse, leases, releases, native>>

(* retire_current, in a formula for what the generation, the retired ones   *)
(* and the native decoders are afterwards.                                   *)
RetiredAfter ==
  IF current.decoder /\ current.mapped > 0
  THEN [g \in DOMAIN retired \cup {current.id} |->
          IF g = current.id THEN current.mapped ELSE retired[g]]
  ELSE retired

\* A plausible bug: the decoder is destroyed although surfaces are mapped.
NativeAfterAlways == native \ {current.id}

NativeAfter ==
  IF current.decoder /\ current.mapped = 0 THEN native \ {current.id} ELSE native

\* The commands that the worker has taken from the channel.
Taken(c) ==
  /\ worker = "recv"
  /\ commands # <<>>
  /\ Head(commands) = c
  /\ commands' = Tail(commands)
  /\ worker' = "drain"
  /\ UNCHANGED <<client, releases>>

\* A plausible bug: only the global counter sees the new surfaces.
RespondUncounted(g, n) ==
  /\ g.mapped + n <= OutputSurfaces
  /\ n > 0 => g.decoder
  /\ current' = g
  /\ inUse' = inUse + n
  /\ leases' = [leases EXCEPT ![g.id] = @ + n]

(* map_display_queue maps n frames of generation g.  If a later map fails,  *)
(* or nobody waits for the response, the frames are dropped at once: that   *)
(* is DropLease, and the worker finds the releases at the head of its loop.  *)
Respond(g, n) ==
  /\ g.mapped + n <= OutputSurfaces
  /\ n > 0 => g.decoder
  /\ current' = [g EXCEPT !.mapped = @ + n]
  /\ inUse' = inUse + n
  /\ leases' = [leases EXCEPT ![g.id] = @ + n]

(* decode without a discontinuity, and flush: nothing without a generation. *)
(* The parser creates the native decoder when it first sees a format.  The  *)
(* worker also refuses commands while shuttingDown, but Drop sends Shutdown  *)
(* last, so it never finds one then: ~shuttingDown disables nothing.         *)
Parse ==
  /\ Taken("parse")
  /\ ~shuttingDown
  /\ IF current = NoGeneration
     THEN UNCHANGED <<current, native, inUse, leases>>
     ELSE \E created \in {TRUE, current.decoder}, n \in 0 .. OutputSurfaces :
            /\ Respond([current EXCEPT !.decoder = created], n)
            /\ native' = IF created THEN native \cup {current.id} ELSE native
  /\ UNCHANGED <<shuttingDown, next, retired>>

(* decode with a discontinuity: retire the generation and start the next    *)
(* one.  If the parser cannot be created there is none until the next        *)
(* discontinuity.  Then the packet is parsed.                                *)
Reset ==
  /\ Taken("reset")
  /\ next <= MaxGeneration   \* the bound: Request keeps to it
  /\ ~shuttingDown
  /\ retired' = RetiredAfter
  /\ next' = next + 1
  /\ \/ /\ current' = NoGeneration
        /\ native' = NativeAfter
        /\ UNCHANGED <<inUse, leases>>
     \/ \E created \in BOOLEAN, n \in 0 .. OutputSurfaces :
          /\ Respond([id |-> next, decoder |-> created, mapped |-> 0], n)
          /\ native' = NativeAfter \cup (IF created THEN {next} ELSE {})
  /\ UNCHANGED shuttingDown

StartShutdown ==
  /\ shuttingDown' = TRUE
  /\ IF shuttingDown
     THEN UNCHANGED <<current, retired, native>>
     ELSE current' = NoGeneration /\ retired' = RetiredAfter /\ native' = NativeAfter

Shutdown ==
  /\ Taken("shutdown")
  /\ StartShutdown
  /\ UNCHANGED <<next, inUse, leases>>

\* A plausible bug: the closed channel is taken for a timeout.
IdleDeaf ==
  /\ worker = "recv"
  /\ commands = <<>>
  /\ worker' = "drain"
  /\ UNCHANGED <<client, commands, shuttingDown, next, current, retired, inUse, leases, releases,
                 native>>

(* recv_timeout: 5 ms without a command, or the sender is gone.             *)
Idle ==
  /\ worker = "recv"
  /\ commands = <<>>
  /\ worker' = "drain"
  /\ IF client = "gone"
     THEN StartShutdown
     ELSE UNCHANGED <<shuttingDown, current, retired, native>>
  /\ UNCHANGED <<client, commands, next, inUse, leases, releases>>

-----------------------------------------------------------------------------
Holders == \E g \in Generation : DropLease(g)

Worker ==
  \/ \E g \in Generation : Drain(g)
  \/ Drained \/ Parse \/ Reset \/ Shutdown \/ Idle

Finished == worker = "exited" /\ UNCHANGED vars

Next ==
  \/ Request("parse") \/ Request("reset") \/ DropDecoder
  \/ Holders \/ Worker \/ Finished

Spec == Init /\ [][Next]_vars

\* The worker is a thread of its own and polls every 5 ms.
FairSpec == Spec /\ WF_vars(Worker)

-----------------------------------------------------------------------------
\* Surfaces of g that are mapped in its native decoder.
Mapped(g) == leases[g] + releases[g]

(* A native decoder is never destroyed while one of its surfaces is mapped, *)
(* however late and from wherever its lease is dropped.                      *)
DecoderOutlivesSurfaces == \A g \in Generation : Mapped(g) > 0 => g \in native

(* Each generation, current or retired, counts exactly its own mapped        *)
(* surfaces, so no release is ever unknown and none is counted twice.        *)
CountsExact ==
  \A g \in Generation :
    Mapped(g) = IF g = current.id THEN current.mapped
                ELSE IF g \in DOMAIN retired THEN retired[g] ELSE 0

(* The worker never leaves a mapped surface or a native decoder behind.     *)
ExitsClean == worker = "exited" => (native = {} /\ \A g \in Generation : Mapped(g) = 0)

(* Once the decoder is dropped the worker thread ends, provided all leases  *)
(* are dropped in the end, even if the shutdown command found no room.      *)
WorkerExits ==
  []<>(\A g \in Generation : leases[g] = 0) => ((client = "gone") ~> (worker = "exited"))
=============================================================================
