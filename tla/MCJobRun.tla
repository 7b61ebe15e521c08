------------------------------ MODULE MCJobRun ------------------------------
(* Documents: a valid job of each protocol, of one or two inputs, also as a   *)
(* legacy document, and every one that differs from it in one place, with      *)
(* values on both sides of every limit.                                        *)
EXTENDS JobRun, TLC

MCCapacity == 1
MCMaxFailures == 1
MCMaxItems == 2

Plain(name, scheme) ==
  [name |-> name, scheme |-> scheme, form |-> "plain", secretRef |-> None, srt |-> DefaultSrt,
   rtmp |-> NoRtmp]

In(name, scheme) ==
  [Plain(name, scheme) EXCEPT !.rtmp = IF scheme = "rtmp" THEN DefaultRtmp("listen") ELSE NoRtmp]
    @@ [rtsp |-> IF scheme = "rtsp" THEN DefaultRtsp ELSE NoRtsp, offsetMs |-> 0]

Out(scheme) ==
  [Plain("program", scheme) EXCEPT
     !.rtmp = IF scheme = "srt" THEN NoRtmp ELSE DefaultRtmp("publish")]

DirectorTap == [name |-> "director-signals", analyzers |-> <<>>, advisor |-> <<>>]

Job(inputs, output, taps) ==
  [api |-> "v1alpha2", kind |-> "MediaJob", name |-> "demo", inputs |-> inputs,
   outputs |-> <<output>>, taps |-> taps,
   video |-> <<DefaultVideo>>, audio |-> <<DefaultAudio>>, timing |-> <<DefaultTiming>>,
   policy |-> <<DefaultPolicy>>, switch |-> <<DefaultSwitch>>,
   failures |-> <<DefaultFailurePolicy>>, control |-> <<DefaultControl>>]

Ins == {<<In("a", s)>> : s \in {"srt", "rtsp", "rtmp"}}
         \cup {<<In("a", "srt"), In("b", "rtsp")>>}

Whole ==
  {Job(i, Out(o), t) : i \in Ins, o \in {"srt", "rtmp", "rtmps"}, t \in {<<>>, <<DirectorTap>>}}

\* The legacy document that says the same.
Legacy(d) ==
  [f \in DOMAIN d \ {"outputs", "taps"} |-> d[f]] @@
    [output |-> Unnamed(d.outputs[1]), analyzers |-> d.taps[1].analyzers,
     advisor |-> d.taps[1].advisor]

OldHeader(d) == [d EXCEPT !.api = "v1alpha1", !.kind = "DirectorPipeline"]

Reconnects ==
  {[enabled |-> e, initial |-> i, max |-> m] :
     e \in BOOLEAN, i \in {0, 1, 250}, m \in {0, 1, 60000, 60001}}

Secrets == {"env", "file", "half", "both", "neither"}

Srts ==
  {[DefaultSrt EXCEPT !.latencyMs = x] : x \in {19, 20, 8000, 8001}}
    \cup {[DefaultSrt EXCEPT !.connectTimeoutMs = x] : x \in {99, 100, 60000, 60001}}
    \cup {[DefaultSrt EXCEPT !.keyLength = x] : x \in {0, 24, 32}}
    \cup {[DefaultSrt EXCEPT !.mode = "listener"]}
    \cup {[DefaultSrt EXCEPT !.streamId = i, !.streamIdRef = r] :
            i \in {None, "plain", "bad"}, r \in {None} \cup Secrets}
    \cup {[DefaultSrt EXCEPT !.reconnect = r] : r \in Reconnects}

Rtsps ==
  {NoRtsp, [DefaultRtsp EXCEPT !.transport = "udp"]}
    \cup {[DefaultRtsp EXCEPT !.connectTimeoutMs = x] : x \in {99, 100, 60000, 60001}}
    \cup {[DefaultRtsp EXCEPT !.readTimeoutMs = x] : x \in {499, 500, 120000, 120001}}
    \cup {[DefaultRtsp EXCEPT !.keepaliveMs = x] : x \in {999, 1000, 300000, 300001}}
    \cup {[DefaultRtsp EXCEPT !.username = u, !.passwordRef = r] :
            u \in {None, "plain", "empty", "bad"}, r \in {None} \cup Secrets}
    \cup {[DefaultRtsp EXCEPT !.reconnect = r] : r \in Reconnects}

Rtmps(mode) ==
  LET whole == DefaultRtmp(mode)
  IN {NoRtmp, DefaultRtmp("listen"), DefaultRtmp("publish")}
       \cup {[whole EXCEPT !.connectTimeoutMs = x] : x \in {99, 100, 60000, 60001}}
       \cup {[whole EXCEPT !.handshakeTimeoutMs = x] : x \in {499, 500, 60000, 60001}}
       \cup {[whole EXCEPT !.readTimeoutMs = x] : x \in {499, 500, 120000, 120001}}
       \cup {[whole EXCEPT !.maxMessageBytes = x] : x \in {65535, 65536, 16777216, 16777217}}
       \cup {[whole EXCEPT !.streamName = n, !.streamNameRef = r] :
               n \in {None, "plain", "bad"}, r \in {None} \cup Secrets}
       \cup {[whole EXCEPT !.publishQueryRef = r] : r \in Secrets}
       \cup {[whole EXCEPT !.reconnect = r] : r \in Reconnects}

\* An endpoint with one section or its URI changed, into what another protocol may have too.
Endpoints(e, mode) ==
  {[e EXCEPT !.form = f] : f \in UriForm}
    \cup {[e EXCEPT !.scheme = s] : s \in {"srt", "rtsp", "rtmp", "rtmps", "http"}}
    \cup {[e EXCEPT !.secretRef = r] : r \in Secrets}
    \cup {[e EXCEPT !.srt = s] : s \in Srts}
    \cup {[e EXCEPT !.rtmp = s] : s \in Rtmps(mode)}

InputEdits(d) ==
  {[d EXCEPT !.inputs[1] = e] : e \in Endpoints(d.inputs[1], "listen")}
    \cup {[d EXCEPT !.inputs[1].rtsp = s] : s \in Rtsps}
OutputEdits(d) == {[d EXCEPT !.outputs[1] = e] : e \in Endpoints(d.outputs[1], "publish")}

Advisors ==
  {[mode |-> m, weight |-> w, validForMs |-> v, endpoint |-> e, consent |-> c, tokenEnv |-> t] :
     m \in {"disabled", "local", "remote"}, w \in {"ok", "bad"}, v \in {3000, 3001},
     e \in {None, "plain"}, c \in BOOLEAN, t \in {None, "plain"}}

Edits(d) ==
  {[d EXCEPT !.api = a, !.kind = k] : a \in {"v1alpha1", "v1alpha2", "other"},
                                      k \in {"MediaJob", "DirectorPipeline"}}
    \cup {[d EXCEPT !.name = "blank"], [d EXCEPT !.inputs = <<>>],
          [d EXCEPT !.inputs = <<In("a", "srt"), In("a", "srt")>>],
          [d EXCEPT !.inputs = <<In("a", "srt"), In("b", "srt"), In("c", "rtmp")>>],
          [d EXCEPT !.inputs[1].name = "blank"],
          [d EXCEPT !.outputs = <<>>],
          [d EXCEPT !.outputs = <<Out("srt"), Out("srt")>>],
          [d EXCEPT !.outputs[1].name = "blank"],
          [d EXCEPT !.taps = <<DirectorTap, DirectorTap>>],
          [d EXCEPT !.taps = <<[DirectorTap EXCEPT !.analyzers = <<{}>>]>>],
          [d EXCEPT !.taps = <<[DirectorTap EXCEPT !.name = "blank"]>>],
          [d EXCEPT !.video[1].profile = "other"], [d EXCEPT !.video[1].bFrames = 2],
          [d EXCEPT !.audio[1].sampleRate = 44100], [d EXCEPT !.audio[1].channels = 1],
          [d EXCEPT !.policy[1].fractions = "bad"], [d EXCEPT !.switch[1].levels = "bad"],
          [d EXCEPT !.control[1].socketPath = "empty"]}
    \cup {[d EXCEPT !.audio[1].bitrateKbps = 64], [d EXCEPT !.failures = <<{}>>]}
    \cup {[d EXCEPT ![f] = <<>>] : f \in DOMAIN Defaults}
    \cup {[d EXCEPT !.video[1].bitrateKbps = x] : x \in {0, 1, 4294967, 4294968}}
    \cup {[d EXCEPT !.inputs[1].offsetMs = x] : x \in {-5001, -5000, 5000, 5001}}
    \cup {[d EXCEPT !.taps = <<[DirectorTap EXCEPT !.analyzers = x, !.advisor = <<a>>]>>] :
            x \in {<<>>, <<{}>>, <<{"vad"}>>}, a \in Advisors}
    \cup {[d EXCEPT !.video[1].width = x] : x \in {0, 1, 1920, 1921}}
    \cup {[d EXCEPT !.video[1].height = x] : x \in {0, 1, 1080, 1081}}
    \cup {[d EXCEPT !.video[1].gopMs = x] : x \in {249, 250, 10000, 10001}}
    \cup {[d EXCEPT !.video[1].fps = x, !.timing[1].bufferMs = y, !.timing[1].maxSkewMs = z] :
            x \in {0, 1, 12, 30, 31}, y \in {99, 100, 171, 267, 5000, 5001}, z \in {0, 1, 100, 5000}}
    \cup {[d EXCEPT !.timing[1].master = x] : x \in {1, 2}}
    \cup {[d EXCEPT !.policy[1].candidateHoldMs = x] : x \in {3000, 3001}}
    \cup {[d EXCEPT !.switch[1].crossfadeMs = x] : x \in {0, 1, 500, 501}}
    \cup {[d EXCEPT !.control[1].socketMode = x] : x \in {0, 511, 512}}

MCDocuments ==
  LET tapped == {d \in Whole : d.taps # <<>>}
      toSrt == {d \in tapped : d.outputs[1].scheme = "srt"}
      fromSrt == {d \in tapped : d.inputs[1].scheme = "srt" /\ Len(d.inputs) = 1}
  IN Whole
       \cup UNION {Edits(d) : d \in {e \in toSrt : e.inputs[1].scheme = "srt"}}
       \cup UNION {InputEdits(d) : d \in toSrt}
       \cup UNION {OutputEdits(d) : d \in fromSrt}
       \cup {OldHeader(Legacy(d)) : d \in tapped}
       \cup {OldHeader(Legacy(e)) :
               e \in UNION {{x \in Edits(d) : x.taps # <<>> /\ Len(x.outputs) = 1} :
                              d \in {f \in toSrt : f.inputs[1].scheme = "rtsp"}}}
       \cup {Legacy(d) : d \in toSrt} \cup {OldHeader(d) : d \in toSrt}
=============================================================================
