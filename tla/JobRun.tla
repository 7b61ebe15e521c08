------------------------------- MODULE JobRun -------------------------------
(***************************************************************************)
(* `aimedia run` (crates/cli/src/main.rs and native.rs): from the text of a  *)
(* job to a running pipeline.  The configuration is loaded, compiled to a     *)
(* plan, and the plan is read by three parts of the program; the backends are *)
(* built one by one; then the pipeline runs until it ends or the user stops   *)
(* it.                                                                        *)
(*                                                                          *)
(* A run is looked at in one of two ways: as its tasks (SinglePipeline) or as *)
(* what it shows of its input (InputHealth).  Neither reads a variable of the *)
(* other.                                                                     *)
(***************************************************************************)
EXTENDS JobConfig, ExecutionPlan

CONSTANTS
  Documents,    \* the documents that a user runs
  Capacity, MaxFailures, MaxItems   \* see the modules

ASSUME DocumentsAssumption == \A d \in Documents : Parsed(d)

ASSUME JobAssumption == Capacity \in Nat \ {0} /\ MaxFailures \in Nat /\ MaxItems \in Nat \ {0}

VARIABLES
  doc,        \* the document, NoDocument once the pipeline runs
  legacy,     \* what the legacy document says from which `config convert` wrote it: <<>>, <<c>>
  stage,      \* "document", "loaded", "compiled", "opening", "encoders", "opened", "decoder", "built",
              \* "checked", or an end:
              \* "refused", "dryRun", "mock", "running", "interrupted"
  refusal,    \* by what it was refused
  input, task, queue, permit, held, started, control, supervisor, failure,
  protocol, up, had, marks, chunks, video, waiting, healthy, shown, sample, phase

jobVars == <<doc, legacy, stage, refusal>>
taskVars == <<input, task, queue, permit, held, started, control, supervisor, failure>>
healthVars ==
  <<protocol, up, had, marks, chunks, video, waiting, healthy, shown, sample, phase>>
vars == <<jobVars, taskVars, healthVars>>

Tasks == INSTANCE SinglePipeline
Health == INSTANCE InputHealth

NoDocument == [inputs |-> <<>>, outputs |-> <<>>]

TypeOK ==
  /\ \/ doc \in Documents \cup {NoDocument}
     \/ (legacy # <<>> /\ doc = Converted(legacy[1]))
  /\ Tasks!TypeOK /\ Health!TypeOK

Init ==
  /\ doc \in Documents
  /\ legacy = <<>>
  /\ stage = "document"
  /\ refusal = "none"
  /\ Tasks!Init
  /\ Health!Init

-----------------------------------------------------------------------------
Config == ToConfig(doc)

\* The command goes on to the next stage, or ends with an error.
Step(from, ok, next, by) ==
  /\ stage = from
  /\ IF ok THEN stage' = next /\ UNCHANGED refusal ELSE stage' = "refused" /\ refusal' = by
  /\ UNCHANGED <<doc, legacy, taskVars, healthVars>>

\* `config convert` writes a new document, which the user runs.
Convert ==
  /\ stage = "document" /\ Converts(doc)
  /\ doc' = Converted(FromLegacy(doc))
  /\ legacy' = <<FromLegacy(doc)>>
  /\ UNCHANGED <<stage, refusal, taskVars, healthVars>>

\* load_config, of a document that is not converted first.
Load ==
  Step("document", Loads(doc), "loaded", IF IsLegacy(doc) THEN "legacy" ELSE "config")

\* compile validates the configuration once more.
Compile == Step("loaded", Validates(Config), "compiled", "plan")

DryRun == Step("compiled", TRUE, "dryRun", "none")

\* run_mock_pipeline: the Controller of one or two inputs.
Mock ==
  LET plan == Plan(Config)
  IN Step("compiled", RuntimePlanOk(Config, plan) /\ ControllerQueuesOk(Config, plan), "mock", "plan")

Native == Step("compiled", Len(Config.inputs) = 1, "opening", "twoInputs")

(* build_backends, one by one: what a codec or an endpoint refuses for its   *)
(* configuration, or because a library, the device or the peer is not there.  *)
CreateEncoders ==
  LET ok == AacProfileOk(Config.audio) /\ NvencOk(Config.video)
  IN Step("opening", ok, "encoders", "profile")

OpenInput ==
  LET i == Config.inputs[1]
      udp == i.scheme = "rtsp" /\ i.rtsp.transport = "udp"
  IN Step("encoders", ~udp /\ InputEndpointOk(i), "opened", IF udp THEN "udp" ELSE "endpoint")

CreateDecoder == Step("opened", NvdecOk(Config.video), "decoder", "decoder")

OpenOutput == Step("decoder", OutputEndpointOk(Config.output), "built", "endpoint")

BackendMissing ==
  stage \in {"opening", "encoders", "opened", "decoder", "checked"} /\ Step(stage, FALSE, "", "environment")

(* SinglePipeline::new.                                                     *)
Preflight ==
  LET plan == Plan(Config)
  IN Step("built",
          /\ RuntimePlanOk(Config, plan) /\ plan.mode = "single"
          /\ SingleQueuesOk(plan) /\ ControllerQueuesOk(Config, plan),
          "checked", "plan")

\* ControlServer::start, and the run is spawned.
Start ==
  /\ stage = "checked"
  /\ stage' = "running"
  /\ LET scheme == Config.inputs[1].scheme
     IN \/ /\ Tasks!Start(IF PacketInput(scheme) THEN "packets" ELSE "transport")
           /\ UNCHANGED healthVars
        \/ (Health!Start(scheme) /\ UNCHANGED taskVars)
  /\ doc' = NoDocument
  /\ legacy' = <<>>
  /\ UNCHANGED refusal

TaskStep == stage = "running" /\ Tasks!Next /\ UNCHANGED <<jobVars, healthVars>>
HealthStep == stage = "running" /\ Health!Next /\ UNCHANGED <<jobVars, taskVars>>

\* ctrl_c: the task of the run is aborted, then the socket is removed.
Interrupt ==
  /\ stage = "running"
  /\ stage' = "interrupted"
  /\ (Tasks!Drop /\ UNCHANGED healthVars) \/ (Health!Drop /\ UNCHANGED taskVars)
  /\ UNCHANGED <<doc, legacy, refusal>>

Over ==
  /\ \/ stage \in {"refused", "dryRun", "mock", "interrupted"}
     \/ supervisor = "returned" \/ phase = "over"
  /\ UNCHANGED vars

Next ==
  \/ Convert \/ Load \/ Compile \/ DryRun \/ Mock \/ Native
  \/ CreateEncoders \/ OpenInput \/ CreateDecoder \/ OpenOutput \/ BackendMissing \/ Preflight \/ Start
  \/ TaskStep \/ HealthStep \/ Interrupt \/ Over

Spec == Init /\ [][Next]_vars

FairSpec == Spec /\ Tasks!Fairness /\ Health!Fairness

-----------------------------------------------------------------------------
(* Forms that validate does not know and a backend refuses: an odd URI, an  *)
(* SRT URI without a host, a secret with an empty part.                      *)
Odd(e) ==
  \/ e.form = "odd" \/ (e.scheme = "srt" /\ e.form = "nohost")
  \/ e.secretRef = "half" \/ e.srt.streamIdRef = "half"
  \/ e.rtmp.streamNameRef = "half" \/ e.rtmp.publishQueryRef = "half"

\* Programs that validate lets pass although the codecs have one profile only.
OddProfile(c) ==
  \/ c.video.width % 2 = 1 \/ c.video.height % 2 = 1
  \/ c.video.bitrateKbps = 0 \/ c.video.bitrateKbps > 4294967
  \/ c.audio.bitrateKbps # 128

(* The rules of validate are repeated, in other words, by the compiler, by   *)
(* three readers of its plan and by every backend.  A job that is accepted,    *)
(* directly or after `config convert`, meets none that it breaks: it starts,   *)
(* is refused as what this version does not do, or misses something outside.   *)
AcceptedJobsRun ==
  /\ refusal \notin {"plan", "decoder"}
  /\ legacy # <<>> => refusal \notin {"legacy", "config"}
  /\ refusal = "profile" => OddProfile(Config)
  /\ refusal = "endpoint" =>
       \/ Odd(Config.inputs[1]) \/ Odd(Config.output)
       \/ Config.inputs[1].rtsp.passwordRef = "half"

(* `config convert` keeps the meaning: the document it writes loads as what    *)
(* the legacy one says, although the two leave out and name different parts.    *)
ConversionFaithful == (legacy # <<>> /\ stage # "document") => Config = legacy[1]

(* The compiler claims of every plan that all queues are bounded, that no      *)
(* analysis is on the hot path and that bufferMs bounds what waits in the       *)
(* engine.  The edges of every plan of an accepted job keep the claims: what    *)
(* the queues of a route hold together, as rounded and clamped one by one, is   *)
(* within bufferMs, unless each of them has its one slot.                        *)
PlansKeepTheirClaims ==
  stage = "compiled" =>
    LET plan == Plan(Config)
    IN  ClaimsHold(Config, plan) /\ BufferShared(Config, plan)

(* A run that ends well has left nothing in a channel, and a run that fails    *)
(* because a channel was closed has a task that failed by itself: the          *)
(* shutdown of the pipeline never makes an error of its own.                   *)
EndsHonestly ==
  supervisor = "returned" =>
    IF failure = "none" THEN \A q \in Tasks!Queue : queue[q] = 0
                        ELSE \E t \in Tasks!Task : task[t] = "failed"

(* Once a run has returned, it shows no item in any queue, and nothing that    *)
(* still runs shows one later.                                                 *)
ReturnedShowsNothing ==
  supervisor = "returned" => ~control.running /\ ~control.depths

(* When the source has ended or a task has failed, the run returns, whatever   *)
(* every other task is waiting for at that moment.                             *)
RunReturns ==
  (supervisor = "joining" /\ \E t \in Tasks!Task :
      task[t] \in {"failed", "closed"} \/ (task[t] = "ok" /\ t \in {"receive", "packetSource"}))
    ~> supervisor \in {"returned", "off"}

(* An input that stays away is shown as such in the end, although packets and  *)
(* pictures of its last connection come after it was lost.                      *)
DownShown == <>[](phase = "live" /\ ~up) => <>[](~healthy /\ ~shown)

(* The last sample of a packet source stands: a source that was down at the    *)
(* end is not left shown as healthy by a sample that was on its way.           *)
LastSampleStands == (phase = "over" /\ protocol # "srt" /\ ~up) => ~healthy
=============================================================================
