----------------------------- MODULE JobConfig ------------------------------
(***************************************************************************)
(* The configuration of a job (crates/core/src/config.rs): what a MediaJob   *)
(* or a legacy DirectorPipeline may say, how one becomes the other, and      *)
(* which of them `validate` accepts.  Texts are kept as what the checks tell *)
(* apart: the form of a URI, the kind of a secret reference; a set option    *)
(* that breaks a rule of its own is "bad".                                   *)
(***************************************************************************)
EXTENDS Integers, Sequences, FiniteSets

\* (low..=high).contains(&value)
InRange(value, low, high) == value \in low .. high

\* Option<...>: a text that is left out.
None == "none"

\* half: one of the two is there but empty.
SecretRef == {None, "env", "file", "half", "both", "neither"}

SecretOk(ref) == ref \notin {"both", "neither"}

\* SecretRef::resolve, which takes an empty text for a reference as well.
SecretResolves(ref) == ref \in {None, "env", "file"}

ReconnectOk(r) == 1 <= r.initial /\ r.initial <= r.max /\ r.max <= 60000

\* What serde does with a section that a document leaves out: <<>>, or <<x>>.
Given(section, default) == IF section = <<>> THEN default ELSE section[1]

DefaultReconnect == [enabled |-> TRUE, initial |-> 250, max |-> 5000]

\* A plain URI is one that every part of the program takes.  An "odd" one is
\* refused by the backend alone: no SRT port, an escaped RTMP application, an
\* RTSP option that looks like a credential but has no '='.
UriForm == {"plain", "odd", "userinfo", "credentials", "nohost", "query", "noapp"}

SrtUriOk(form) == form \notin {"userinfo", "credentials"}
RtspUriOk(form) == form \notin {"userinfo", "credentials", "nohost"}
RtmpUriOk(form) == form \in {"plain", "odd"}

-----------------------------------------------------------------------------
(* The sections of an endpoint.                                             *)
DefaultSrt ==
  [mode |-> None, latencyMs |-> 120, connectTimeoutMs |-> 3000, keyLength |-> 16,
   streamId |-> None, streamIdRef |-> None, reconnect |-> DefaultReconnect]

SrtOk(s) ==
  /\ InRange(s.latencyMs, 20, 8000)
  /\ InRange(s.connectTimeoutMs, 100, 60000)
  /\ ReconnectOk(s.reconnect)
  /\ s.keyLength \in {16, 24, 32}
  /\ None \in {s.streamId, s.streamIdRef}
  /\ s.streamId # "bad"   \* it looks like a credential
  /\ SecretOk(s.streamIdRef)

DefaultRtsp ==
  [here |-> TRUE, transport |-> "tcp", username |-> None, passwordRef |-> None,
   connectTimeoutMs |-> 3000, readTimeoutMs |-> 5000, keepaliveMs |-> 15000,
   reconnect |-> DefaultReconnect]

NoRtsp == [DefaultRtsp EXCEPT !.here = FALSE]

RtspOk(r) ==
  /\ InRange(r.connectTimeoutMs, 100, 60000)
  /\ InRange(r.readTimeoutMs, 500, 120000)
  /\ InRange(r.keepaliveMs, 1000, 300000)
  /\ ReconnectOk(r.reconnect)
  /\ SecretOk(r.passwordRef)
  /\ (r.username \in {"plain", "bad"}) = (r.passwordRef # None)
  /\ r.username \notin {"empty", "bad"}

DefaultRtmp(mode) ==
  [here |-> TRUE, mode |-> mode, streamName |-> "plain", streamNameRef |-> None,
   publishQueryRef |-> None, connectTimeoutMs |-> 3000, handshakeTimeoutMs |-> 5000,
   readTimeoutMs |-> 10000, maxMessageBytes |-> 8388608, reconnect |-> DefaultReconnect]

NoRtmp == [DefaultRtmp("listen") EXCEPT !.here = FALSE]

\* resolve_stream_name and resolve_publish_stream_name, for secrets whose text is in order.
StreamNameResolves(r) ==
  /\ (r.streamName = None) # (r.streamNameRef = None)
  /\ SecretResolves(r.streamNameRef)

PublishNameResolves(r) == StreamNameResolves(r) /\ SecretResolves(r.publishQueryRef)

RtmpOk(r, mode) ==
  /\ r.mode = mode
  /\ InRange(r.connectTimeoutMs, 100, 60000)
  /\ InRange(r.handshakeTimeoutMs, 500, 60000)
  /\ InRange(r.readTimeoutMs, 500, 120000)
  /\ InRange(r.maxMessageBytes, 65536, 16777216)
  /\ ReconnectOk(r.reconnect)
  /\ SecretOk(r.streamNameRef) /\ SecretOk(r.publishQueryRef)
  /\ mode # "publish" => r.publishQueryRef = None
  /\ (r.streamName = None) # (r.streamNameRef = None)
  /\ r.streamName # "bad"

-----------------------------------------------------------------------------
(* validate_input_transport and validate_output_transport: a section of     *)
(* another protocol must be left out, SRT's at its defaults.                 *)
InputOk(i) ==
  \/ /\ i.scheme = "srt"
     /\ ~i.rtsp.here /\ ~i.rtmp.here
     /\ SrtUriOk(i.form) /\ SecretOk(i.secretRef) /\ SrtOk(i.srt)
  \/ /\ i.scheme = "rtsp"
     /\ i.secretRef = None /\ i.srt = DefaultSrt /\ ~i.rtmp.here
     /\ RtspUriOk(i.form)
     /\ i.rtsp.here /\ RtspOk(i.rtsp)
  \/ /\ i.scheme = "rtmp"   \* rtmps is for outputs only
     /\ i.secretRef = None /\ i.srt = DefaultSrt /\ ~i.rtsp.here
     /\ RtmpUriOk(i.form)
     /\ i.rtmp.here /\ RtmpOk(i.rtmp, "listen")

OutputOk(o) ==
  \/ /\ o.scheme = "srt"
     /\ ~o.rtmp.here
     /\ SrtUriOk(o.form) /\ SecretOk(o.secretRef) /\ SrtOk(o.srt)
  \/ /\ o.scheme \in {"rtmp", "rtmps"}
     /\ o.secretRef = None /\ o.srt = DefaultSrt
     /\ RtmpUriOk(o.form)
     /\ o.rtmp.here /\ RtmpOk(o.rtmp, "publish")

-----------------------------------------------------------------------------
(* The other sections, as they are when a document leaves them out.         *)
DefaultVideo ==
  [width |-> 1920, height |-> 1080, fps |-> 30, bitrateKbps |-> 6000, gopMs |-> 1000,
   profile |-> "main", bFrames |-> 0]

DefaultAudio == [sampleRate |-> 48000, channels |-> 2, bitrateKbps |-> 128]

DefaultTiming == [master |-> 0, bufferMs |-> 1000, maxSkewMs |-> 80]

DefaultAnalyzers == {"vad", "person", "mouthMotion", "quality"}

DefaultAdvisor ==
  [mode |-> "disabled", weight |-> "ok", validForMs |-> 3000, endpoint |-> None,
   consent |-> FALSE, tokenEnv |-> None]

DefaultPolicy ==
  [fractions |-> "ok", minShotMs |-> 3000, candidateHoldMs |-> 800, cooldownMs |-> 2000]

DefaultSwitch == [crossfadeMs |-> 80, levels |-> "ok"]

\* Nothing reads this section.
DefaultFailurePolicy == {"failoverOnDisconnect", "pauseAutoOnSkew", "ignoreVlmFailure"}

DefaultControl == [socketPath |-> "plain", socketMode |-> 432]   \* 0660

VideoOk(v) ==
  /\ InRange(v.width, 1, 1920) /\ InRange(v.height, 1, 1080)
  /\ InRange(v.fps, 1, 30)
  /\ InRange(v.gopMs, 250, 10000)
  /\ v.profile = "main" /\ v.bFrames = 0

AudioOk(a) == a.sampleRate = 48000 /\ a.channels = 2

TimingOk(t, inputs) ==
  /\ t.master < inputs
  /\ InRange(t.bufferMs, 100, 5000)
  /\ InRange(t.maxSkewMs, 1, t.bufferMs)

\* The scores and weights, which are fractions, are in range or not.
PolicyOk(p) == p.fractions = "ok" /\ p.candidateHoldMs <= p.minShotMs

AdvisorOk(v) ==
  /\ v.weight = "ok" /\ v.validForMs <= 3000
  /\ v.mode # "disabled" => v.endpoint # None
  /\ v.mode = "remote" => v.consent /\ v.tokenEnv # None

SwitchOk(s) == InRange(s.crossfadeMs, 1, 500) /\ s.levels = "ok"

ControlOk(c) == c.socketPath # "empty" /\ InRange(c.socketMode, 0, 511)

Names(s) == {s[k].name : k \in DOMAIN s}

\* Names are there, and differ.
NamesOk(s) == "blank" \notin Names(s) /\ Cardinality(Names(s)) = Len(s)

OffsetOk(i) == InRange(i.offsetMs, -5000, 5000)

\* PipelineConfig::validate.
Validates(c) ==
  /\ c.api = "v1alpha2" /\ c.kind = "MediaJob"
  /\ c.name # "blank"
  /\ InRange(Len(c.inputs), 1, 2)
  /\ NamesOk(c.inputs)
  /\ \A k \in DOMAIN c.inputs : InputOk(c.inputs[k]) /\ OffsetOk(c.inputs[k])
  /\ OutputOk(c.output)
  /\ VideoOk(c.video) /\ AudioOk(c.audio) /\ TimingOk(c.timing, Len(c.inputs))
  /\ PolicyOk(c.policy) /\ AdvisorOk(c.advisor) /\ SwitchOk(c.switch)
  /\ ControlOk(c.control)

-----------------------------------------------------------------------------
(* The header of a document decides how it is read: one that says           *)
(* DirectorPipeline has to be converted, and every other one is parsed as a  *)
(* MediaJob, for into_pipeline_config to refuse.  The parsers refuse a        *)
(* document that has not the fields of its kind.                              *)
IsLegacy(doc) == doc.api = "v1alpha1" /\ doc.kind = "DirectorPipeline"

IsJob(doc) == "outputs" \in DOMAIN doc

(* MediaJob::into_pipeline_config.                                          *)
JobOk(doc) ==
  /\ doc.api = "v1alpha2" /\ doc.kind = "MediaJob"
  /\ Len(doc.outputs) = 1 /\ NamesOk(doc.outputs)
  /\ Len(doc.taps) <= 1 /\ NamesOk(doc.taps)

\* The sections that the two kinds of document have in common.
Defaults ==
  [video |-> DefaultVideo, audio |-> DefaultAudio, timing |-> DefaultTiming,
   policy |-> DefaultPolicy, switch |-> DefaultSwitch, failures |-> DefaultFailurePolicy,
   control |-> DefaultControl]

\* All the fields of both; the two have none in common.
Join(r, s) == [f \in DOMAIN r \cup DOMAIN s |-> IF f \in DOMAIN r THEN r[f] ELSE s[f]]

Settings(doc) ==
  Join([api |-> "v1alpha2", kind |-> "MediaJob", name |-> doc.name, inputs |-> doc.inputs],
      [f \in DOMAIN Defaults |-> Given(doc[f], Defaults[f])])

\* From<JobOutputConfig>: the output without its name.
Unnamed(output) == [f \in DOMAIN output \ {"name"} |-> output[f]]

\* A job without a tap asks for no analysis, one with an empty tap for all of it.
ToConfig(doc) ==
  LET none == doc.taps = <<>>
      tap == doc.taps[1]
  IN Join(Settings(doc),
         [output |-> Unnamed(doc.outputs[1]),
          analyzers |-> IF none THEN {} ELSE Given(tap.analyzers, DefaultAnalyzers),
          advisor |-> IF none THEN DefaultAdvisor ELSE Given(tap.advisor, DefaultAdvisor)])

(* PipelineConfig::from_yaml.                                               *)
Loads(doc) == ~IsLegacy(doc) /\ IsJob(doc) /\ JobOk(doc) /\ Validates(ToConfig(doc))

\* LegacyPipelineConfig::into_pipeline_config.
FromLegacy(doc) ==
  Join(Settings(doc),
      [output |-> doc.output, analyzers |-> Given(doc.analyzers, DefaultAnalyzers),
       advisor |-> Given(doc.advisor, DefaultAdvisor)])

(* convert_legacy_yaml.                                                     *)
Converts(doc) == IsLegacy(doc) /\ ~IsJob(doc) /\ Validates(FromLegacy(doc))

\* The document in full, with a tap.
Written(c, taps) ==
  Join([api |-> c.api, kind |-> c.kind, name |-> c.name, inputs |-> c.inputs,
       outputs |-> <<Join([name |-> "program"], c.output)>>, taps |-> taps],
      [f \in DOMAIN Defaults |-> <<c[f]>>])

TapOf(name, c) == [name |-> name, analyzers |-> <<c.analyzers>>, advisor |-> <<c.advisor>>]

\* A plausible bug: a tap is written only for a configuration with an advisor.
ConvertedQuietly(c) ==
  Written(c, IF c.advisor.mode = "disabled" THEN <<>> ELSE <<TapOf("director-signals", c)>>)

\* A plausible bug: the tap of the converted document is given no name.
ConvertedWithoutName(c) == Written(c, <<TapOf("blank", c)>>)

\* MediaJob::from_pipeline_config.
Converted(c) == Written(c, <<TapOf("director-signals", c)>>)

-----------------------------------------------------------------------------
(* What the parser of a document leaves to `validate`: the types of the      *)
(* fields that are read again after it.                                       *)
Setting == {None, "plain", "empty", "bad"}

ReconnectConfig == [enabled : BOOLEAN, initial : Nat, max : Nat]

SrtConfig ==
  [mode : STRING, latencyMs : Nat, connectTimeoutMs : Nat, keyLength : Nat, streamId : Setting,
   streamIdRef : SecretRef, reconnect : ReconnectConfig]

RtspConfig ==
  [here : BOOLEAN, transport : STRING, username : Setting, passwordRef : SecretRef,
   connectTimeoutMs : Nat, readTimeoutMs : Nat, keepaliveMs : Nat, reconnect : ReconnectConfig]

RtmpConfig ==
  [here : BOOLEAN, mode : STRING, streamName : Setting, streamNameRef : SecretRef,
   publishQueryRef : SecretRef, connectTimeoutMs : Nat, handshakeTimeoutMs : Nat,
   readTimeoutMs : Nat, maxMessageBytes : Nat, reconnect : ReconnectConfig]

InputConfig ==
  [name : STRING, scheme : STRING, form : UriForm, secretRef : SecretRef, srt : SrtConfig,
   rtsp : RtspConfig, rtmp : RtmpConfig, offsetMs : Int]

OutputConfig ==
  [scheme : STRING, form : UriForm, secretRef : SecretRef, srt : SrtConfig, rtmp : RtmpConfig]

JobOutputConfig ==
  [name : STRING, scheme : STRING, form : UriForm, secretRef : SecretRef, srt : SrtConfig,
   rtmp : RtmpConfig]

VideoConfig ==
  [width : Nat, height : Nat, fps : Nat, bitrateKbps : Nat, gopMs : Nat,
   profile : {"main", "other"}, bFrames : Nat]

Parsed(doc) ==
  /\ doc.inputs \in Seq(InputConfig)
  /\ doc.video = <<>> \/ doc.video[1] \in VideoConfig
  /\ IF IsJob(doc) THEN doc.outputs \in Seq(JobOutputConfig) ELSE doc.output \in OutputConfig

-----------------------------------------------------------------------------
(* What the backends check again before they touch the network: Endpoint of *)
(* crates/srt, RtspEndpoint, RtmpPacketSource::bind and RtmpPacketSink.      *)
(* SrtMode, latency and key length go to libsrt as they are.                 *)
RtspEndpointOk(i) ==
  /\ SecretResolves(i.rtsp.passwordRef)
  /\ InRange(i.rtsp.connectTimeoutMs, 100, 60000)
  /\ InRange(i.rtsp.readTimeoutMs, 500, 120000)
  /\ InRange(i.rtsp.keepaliveMs, 1000, 300000)
  /\ ReconnectOk(i.rtsp.reconnect)
  /\ i.rtsp.username \notin {"empty", "bad"}
  /\ i.form \notin {"odd", "userinfo", "credentials", "nohost"}
  /\ (i.rtsp.username # None) = (i.rtsp.passwordRef # None)

MessageLimitOk(bytes) == InRange(bytes, 65536, 16777216)

RtmpEndpointOk(e, mode) ==
  /\ e.rtmp.mode = mode
  /\ e.form = "plain"
  /\ IF mode = "publish" THEN PublishNameResolves(e.rtmp) ELSE StreamNameResolves(e.rtmp)
  /\ MessageLimitOk(e.rtmp.maxMessageBytes)

SrtEndpointOk(e) ==
  /\ e.form \notin {"odd", "userinfo", "nohost"}
  /\ SecretResolves(e.secretRef) /\ SecretResolves(e.srt.streamIdRef)
  /\ None \in {e.srt.streamId, e.srt.streamIdRef}

InputEndpointOk(i) ==
  \/ i.scheme = "srt" /\ SrtEndpointOk(i)
  \/ i.scheme = "rtsp" /\ i.rtsp.here /\ RtspEndpointOk(i)
  \/ i.scheme = "rtmp" /\ i.rtmp.here /\ RtmpEndpointOk(i, "listen")

OutputEndpointOk(o) ==
  \/ o.scheme = "srt" /\ SrtEndpointOk(o)
  \/ o.scheme \in {"rtmp", "rtmps"} /\ o.rtmp.here /\ RtmpEndpointOk(o, "publish")

-----------------------------------------------------------------------------
(* What the codecs check of the program that build_backends asks them for.  *)
AacProfileOk(a) == a.sampleRate = 48000 /\ a.channels = 2 /\ a.bitrateKbps = 128

\* frames_for_duration.
GopFrames(v) == LET frames == (v.gopMs * v.fps + 999) \div 1000
                IN  IF frames = 0 THEN 1 ELSE frames

\* The bitrate is a u32 in bits.
NvencOk(v) ==
  /\ InRange(v.width, 2, 1920) /\ InRange(v.height, 2, 1080)
  /\ v.width % 2 = 0 /\ v.height % 2 = 0
  /\ InRange(v.fps, 1, 30)
  /\ InRange(v.bitrateKbps, 1, 4294967)
  /\ GopFrames(v) # 0

AlignUp(value, alignment) == ((value + alignment - 1) \div alignment) * alignment

NvdecOk(v) ==
  0 \notin {AlignUp(v.width, 16), AlignUp(v.height, 16), v.width, v.height, v.fps}
=============================================================================
