--------------------------- MODULE ExecutionPlan ----------------------------
(***************************************************************************)
(* The graph compiler (crates/graph/src/lib.rs) and the three readers of its *)
(* plan: validate_runtime_plan and controller_queue_states of                *)
(* crates/runtime/src/lib.rs, and SingleQueuePlan of single.rs.  A node is a  *)
(* kind and the index of its input, 0 for a node of the program.  The media,  *)
(* memory and clock of an edge are left out: nothing reads them.              *)
(***************************************************************************)
EXTENDS Integers, Sequences

CeilDiv(value, divisor) == (value + divisor - 1) \div divisor

Clamp(value, low, high) == IF value < low THEN low ELSE IF value > high THEN high ELSE value

\* QueueCapacities::from_config: eight places share the buffer of a job.
VideoBudget(c) == CeilDiv(c.timing.bufferMs * c.video.fps, 1000)
AudioBudget(c) == CeilDiv(c.timing.bufferMs * c.audio.sampleRate, 1024 * 1000)

\* A plausible bug, and an early version of it: the buffer is what each queue may hold.
VideoFramesUnshared(c) == Clamp(VideoBudget(c), 1, 32)

VideoFrames(c) == Clamp(CeilDiv(VideoBudget(c), 8), 1, 32)

AudioBlocks(c) == Clamp(CeilDiv(AudioBudget(c), 8), 1, 64)

Mode(c) == IF Len(c.inputs) = 1 THEN "single" ELSE "switching"

PacketInput(scheme) == scheme \in {"rtsp", "rtmp", "rtmps"}

AnalyzersRequested(c) == c.analyzers # {} \/ c.advisor.mode # "disabled"

-----------------------------------------------------------------------------
(* The nodes.                                                               *)
ProgramKinds == {"video.timeline", "audio.timeline", "video.encode", "audio.encode",
                 "mux.program", "output.program"}

InputKinds(scheme) ==
  {"input", "video.decode", "audio.decode"} \cup (IF PacketInput(scheme) THEN {} ELSE {"demux"})

Director == <<"policy.director", 0>>
Tap == <<"analysis.tap", 0>>

CriticalNodes(c) ==
  (ProgramKinds \X {0})
    \cup UNION {InputKinds(c.inputs[k].scheme) \X {k} : k \in DOMAIN c.inputs}

OptionalNodes(c) ==
  {n \in {Director, Tap} : IF n = Director THEN Mode(c) = "switching" ELSE AnalyzersRequested(c)}

Nodes(c) == CriticalNodes(c) \cup OptionalNodes(c)

-----------------------------------------------------------------------------
(* The edges.                                                               *)
Edge(from, to, capacity, policy) ==
  [from |-> from, to |-> to, capacity |-> capacity, policy |-> policy]

\* The node that gives the packets of input k.
PacketsFrom(c, k) == IF PacketInput(c.inputs[k].scheme) THEN <<"input", k>> ELSE <<"demux", k>>

\* From the input to the two decoders, and to the timelines.
InputEdges(c, k) ==
  LET source == PacketsFrom(c, k)
      video == <<"video.decode", k>>
      audio == <<"audio.decode", k>>
  IN (IF PacketInput(c.inputs[k].scheme) THEN {}
      ELSE {Edge(<<"input", k>>, <<"demux", k>>, VideoFrames(c), "backpressure")})
     \cup {Edge(source, video, VideoFrames(c), "backpressure"),
           Edge(source, audio, AudioBlocks(c), "backpressure"),
           Edge(video, <<"video.timeline", 0>>, 1, "backpressure"),
           Edge(audio, <<"audio.timeline", 0>>, AudioBlocks(c), "backpressure")}

ProgramEdges(c) ==
  {Edge(<<"video.timeline", 0>>, <<"video.encode", 0>>, 1, "keepLatest"),
   Edge(<<"audio.timeline", 0>>, <<"audio.encode", 0>>, AudioBlocks(c), "backpressure"),
   Edge(<<"video.encode", 0>>, <<"mux.program", 0>>, VideoFrames(c), "backpressure"),
   Edge(<<"audio.encode", 0>>, <<"mux.program", 0>>, VideoFrames(c), "backpressure"),
   Edge(<<"mux.program", 0>>, <<"output.program", 0>>, VideoFrames(c), "dropOldest")}

DirectorEdges(c) ==
  IF Mode(c) = "switching"
  THEN {Edge(Director, <<"video.timeline", 0>>, 1, "keepLatest"),
        Edge(Director, <<"audio.timeline", 0>>, 1, "keepLatest")}
  ELSE {}

TapEdges(c) ==
  IF AnalyzersRequested(c)
  THEN {Edge(<<"video.decode", k>>, Tap, 2, "keepLatest") : k \in DOMAIN c.inputs}
       \cup {Edge(<<"audio.decode", k>>, Tap, 4, "dropOldest") : k \in DOMAIN c.inputs}
       \cup (IF Mode(c) = "switching" THEN {Edge(Tap, Director, 8, "dropOldest")} ELSE {})
  ELSE {}

Edges(c) ==
  ProgramEdges(c) \cup DirectorEdges(c) \cup TapEdges(c)
    \cup UNION {InputEdges(c, k) : k \in DOMAIN c.inputs}

\* compile, after its own validation.
Plan(c) ==
  [job |-> c.name, mode |-> Mode(c), bufferMs |-> c.timing.bufferMs, edges |-> Edges(c),
   decodeSessions |-> Len(c.inputs), encodeSessions |-> 1, independentClock |-> TRUE,
   allQueuesBounded |-> TRUE, aiOnHotPath |-> FALSE]

-----------------------------------------------------------------------------
\* validate_runtime_plan.
RuntimePlanOk(c, plan) ==
  /\ plan.job = c.name
  /\ plan.mode = Mode(c)
  /\ plan.bufferMs = c.timing.bufferMs
  /\ plan.decodeSessions = Len(c.inputs) /\ plan.encodeSessions = 1
  /\ plan.independentClock /\ plan.allQueuesBounded /\ ~plan.aiOnHotPath

\* plan_queue_capacity succeeds.
QueueOk(plan, from, to, policy) ==
  \E e \in plan.edges : e.from = from /\ e.to = to /\ e.capacity > 0 /\ e.policy = policy

SameCapacity(plan, e1, e2) ==
  \A a, b \in plan.edges :
    (<<a.from[1], a.to[1]>> = e1 /\ <<b.from[1], b.to[1]>> = e2) => a.capacity = b.capacity

VideoToMux == <<"video.encode", "mux.program">>
AudioToMux == <<"audio.encode", "mux.program">>
MuxToOutput == <<"mux.program", "output.program">>

\* controller_queue_states.
ControllerQueuesOk(c, plan) ==
  /\ \A k \in DOMAIN c.inputs :
       LET source == IF c.inputs[k].scheme \in {"rtsp", "rtmp"} THEN <<"input", k>>
                                                               ELSE <<"demux", k>>
       IN /\ source[1] = "demux" => QueueOk(plan, <<"input", k>>, source, "backpressure")
          /\ QueueOk(plan, source, <<"video.decode", k>>, "backpressure")
          /\ QueueOk(plan, source, <<"audio.decode", k>>, "backpressure")
          /\ QueueOk(plan, <<"audio.decode", k>>, <<"audio.timeline", 0>>, "backpressure")
          /\ QueueOk(plan, <<"video.decode", k>>, <<"video.timeline", 0>>, "backpressure")
  /\ QueueOk(plan, <<"video.timeline", 0>>, <<"video.encode", 0>>, "keepLatest")
  /\ QueueOk(plan, <<"audio.timeline", 0>>, <<"audio.encode", 0>>, "backpressure")
  /\ QueueOk(plan, <<"video.encode", 0>>, <<"mux.program", 0>>, "backpressure")
  /\ QueueOk(plan, <<"audio.encode", 0>>, <<"mux.program", 0>>, "backpressure")
  /\ QueueOk(plan, <<"mux.program", 0>>, <<"output.program", 0>>, "dropOldest")
  /\ Len(c.inputs) = 1 =>
       /\ SameCapacity(plan, <<"video.decode", "video.timeline">>, <<"video.timeline", "video.encode">>)
       /\ SameCapacity(plan, <<"audio.decode", "audio.timeline">>, <<"audio.timeline", "audio.encode">>)
       /\ SameCapacity(plan, VideoToMux, AudioToMux)
       /\ SameCapacity(plan, VideoToMux, MuxToOutput)

\* SingleQueuePlan::from_plan: the source is told by the plan, not by the URI.
SingleQueuesOk(plan) ==
  LET demux == \E e \in plan.edges : e.from = <<"input", 1>> /\ e.to = <<"demux", 1>>
      source == IF demux THEN <<"demux", 1>> ELSE <<"input", 1>>
  IN /\ demux => QueueOk(plan, <<"input", 1>>, <<"demux", 1>>, "backpressure")
     /\ QueueOk(plan, <<"video.encode", 0>>, <<"mux.program", 0>>, "backpressure")
     /\ QueueOk(plan, <<"audio.encode", 0>>, <<"mux.program", 0>>, "backpressure")
     /\ SameCapacity(plan, VideoToMux, AudioToMux)
     /\ QueueOk(plan, <<"video.decode", 1>>, <<"video.timeline", 0>>, "backpressure")
     /\ \A e \in plan.edges : (e.from[1] = "video.decode" /\ e.to[1] = "video.timeline")
                                => e.capacity = 1
     /\ QueueOk(plan, source, <<"video.decode", 1>>, "backpressure")
     /\ QueueOk(plan, source, <<"audio.decode", 1>>, "backpressure")
     /\ QueueOk(plan, <<"audio.decode", 1>>, <<"audio.timeline", 0>>, "backpressure")

-----------------------------------------------------------------------------
(* What the fields all_queues_bounded and ai_on_hot_path, constants of the   *)
(* compiler on which validate_runtime_plan relies, claim of the edges: every  *)
(* queue is bounded and joins two nodes of the plan, and no critical node     *)
(* ever waits for one that is not.                                            *)
ClaimsHold(c, plan) ==
  \A e \in plan.edges :
    /\ e.capacity > 0
    /\ e.from \in Nodes(c) /\ e.to \in Nodes(c)
    /\ e.policy = "backpressure" => {e.from, e.to} \subseteq CriticalNodes(c)

\* Where the pictures and the sound of input k go through, with a queue between any two.
VideoRoute(c, k) ==
  <<PacketsFrom(c, k), <<"video.decode", k>>, <<"video.timeline", 0>>, <<"video.encode", 0>>,
    <<"mux.program", 0>>, <<"output.program", 0>>>>
AudioRoute(c, k) ==
  <<PacketsFrom(c, k), <<"audio.decode", k>>, <<"audio.timeline", 0>>, <<"audio.encode", 0>>,
    <<"mux.program", 0>>, <<"output.program", 0>>>>

\* ExecutionPlan::queue.
SlotsOf(plan, from, to) == (CHOOSE e \in plan.edges : e.from = from /\ e.to = to).capacity

Slots(plan, route) ==
  SlotsOf(plan, route[1], route[2]) + SlotsOf(plan, route[2], route[3])
    + SlotsOf(plan, route[3], route[4]) + SlotsOf(plan, route[4], route[5])
    + SlotsOf(plan, route[5], route[6])

\* A slot for each of the queues of a route: what is left when the buffer is small.
Least == 5

(* The comment of from_config: bufferMs is an upper bound for the whole path *)
(* in the engine, which the queues of the path share, and at small sizes      *)
(* backpressure has to do with what there is.  A slot holds a picture, or     *)
(* 1024 samples; the messages before the demuxer have no length in time.      *)
BufferShared(c, plan) ==
  \A k \in DOMAIN c.inputs :
    LET pictures == Slots(plan, VideoRoute(c, k))
        blocks == Slots(plan, AudioRoute(c, k))
    IN /\ pictures = Least \/ pictures * 1000 <= c.timing.bufferMs * c.video.fps
       /\ blocks = Least \/ blocks * 1024 * 1000 <= c.timing.bufferMs * c.audio.sampleRate
=============================================================================
