--------------------------- MODULE PacketSources ---------------------------
(***************************************************************************)
(* The input of a pipeline, whatever its protocol: SRT, an RTMP listener or  *)
(* an RTSP camera.  crates/runtime/src/single.rs runs one of them, as a      *)
(* Transport or as a PacketSource, and relies on one promise, MarkedSource:  *)
(* the decoders restart on the marks and on nothing else.  The SRT endpoint  *)
(* may also be the output of the pipeline; then nothing is received.         *)
(***************************************************************************)
EXTENDS Integers, Sequences

CONSTANTS
  Offers, MaxTracks,            \* what a camera may describe, and MAX_TRACKS
  InitialBackoff, MaxBackoff,   \* reconnect.initial_backoff_ms and max_backoff_ms, in ticks
  MaxPending,      \* MAX_PENDING_PACKETS of the RTMP listener
  MaxAttempts,     \* bound of the model: failed attempts in a row
  MaxSession       \* bound of the model: sessions of one run

ASSUME SourcesAssumption ==
  /\ InitialBackoff \in Nat \ {0} /\ MaxBackoff \in Nat /\ InitialBackoff <= MaxBackoff
  /\ MaxPending \in Nat \ {0}
  /\ MaxAttempts \in Nat \ {0}
  /\ MaxSession \in Nat \ {0}

VARIABLES
  protocol,                                       \* of the input
  enabled, session, latest, out, ended,           \* see the modules
  connected, reconnects, marks,                   \* RTMP and RTSP
  attempts, delay,                                \* SRT and RTSP
  mode, waits, handle, native, owned, broken, connecting, backoff, received, task, seen,   \* SRT
  peer, reading, pending,                         \* RTMP
  phase, profile, offered, left, plain            \* RTSP

statsVars == <<connected, reconnects, marks>>
backoffVars == <<attempts, delay>>
srtVars == <<mode, waits, handle, native, owned, broken, connecting, backoff, received, task, seen>>
rtmpVars == <<peer, reading, pending>>
rtspVars == <<phase, profile, offered, left, plain>>
vars == <<protocol, enabled, session, latest, out, ended, statsVars, backoffVars, srtVars,
          rtmpVars, rtspVars>>

Media == {"video", "audio"}
Stream == Media \cup {"chunks"}

\* SRT counts reconnections only inside the transport.
AnyFormat == [codec |-> "any", rate |-> 0, channels |-> 0]

Srt == INSTANCE SrtTransport
Rtmp == INSTANCE RtmpSource WITH Stream <- Media
Rtsp == INSTANCE RtspSource WITH Stream <- Media

NoPacket == [stream |-> "none", session |-> 0, marked |-> FALSE, key |-> FALSE, own |-> FALSE,
             format |-> Rtsp!NoTrack]

TypeOK ==
  /\ protocol \in {"srt", "rtmp", "rtsp"}
  /\ enabled \in BOOLEAN
  /\ session \in 0 .. MaxSession
  /\ latest \in [Stream -> 0 .. MaxSession]
  /\ out.stream \in Stream \cup {"none"} /\ out.session \in 0 .. MaxSession
  /\ out.marked \in BOOLEAN /\ out.key \in BOOLEAN /\ out.own \in BOOLEAN
  /\ ended \in {"no", "eos", "error", "closed"}
  /\ connected \in BOOLEAN /\ reconnects \in Nat /\ marks \in [Media -> BOOLEAN]
  /\ attempts \in 0 .. MaxAttempts /\ delay \in 0 .. MaxBackoff
  /\ Srt!TypeOK /\ Rtmp!TypeOK /\ Rtsp!TypeOK

\* The variables of the protocols that are not used keep these values.
NoSrt ==
  /\ mode = "caller" /\ waits = FALSE /\ handle = FALSE /\ native = {} /\ owned = {} /\ broken = FALSE
  /\ connecting = FALSE
  /\ backoff = InitialBackoff /\ received = 0 /\ task = "check"
  /\ seen = [connected |-> FALSE, reconnects |-> 0]
NoRtmp == peer = Rtmp!NoPeer /\ reading = "no" /\ pending = <<>>
NoRtsp ==
  /\ phase = "down" /\ plain = {} /\ left = 0
  /\ profile = Rtsp!NoProfile /\ offered = Rtsp!NoProfile

Init ==
  /\ enabled \in BOOLEAN
  /\ latest = [s \in Stream |-> 0]
  /\ out = NoPacket
  /\ ended = "no"
  /\ reconnects = 0 /\ marks = [s \in Media |-> FALSE]
  /\ attempts = 0 /\ delay = 0
  /\ \/ protocol = "srt" /\ Srt!Init /\ connected = FALSE /\ NoRtmp /\ NoRtsp
     \/ protocol = "rtmp" /\ Rtmp!Init /\ NoSrt /\ NoRtsp
     \/ protocol = "rtsp" /\ Rtsp!Init /\ NoSrt /\ NoRtmp

SrtOnly == protocol = "srt" /\ UNCHANGED <<protocol, statsVars, rtmpVars, rtspVars>>
RtmpOnly == protocol = "rtmp" /\ UNCHANGED <<protocol, backoffVars, srtVars, rtspVars>>
RtspOnly == protocol = "rtsp" /\ UNCHANGED <<protocol, srtVars, rtmpVars>>

\* A source that could not be built is never closed.
Finished == (ended = "closed" \/ (ended = "error" /\ session = 0)) /\ UNCHANGED vars

Next ==
  \/ SrtOnly /\ Srt!Next
  \/ RtmpOnly /\ Rtmp!Next
  \/ RtspOnly /\ Rtsp!Next
  \/ Finished

Spec == Init /\ [][Next]_vars

(* The task of the input runs whenever it can and time passes.  Of what the *)
(* peer does only this is assumed: attempts do not fail for ever, and a      *)
(* publisher calls while the listener waits for one.                         *)
FairSpec ==
  /\ Spec
  /\ WF_vars(SrtOnly /\ (Srt!Ready \/ Srt!Due))
  /\ WF_vars(SrtOnly /\ Srt!Tick)
  /\ WF_vars(SrtOnly /\ Srt!DialStep)
  /\ SF_vars(SrtOnly /\ Srt!Poll) /\ SF_vars(SrtOnly /\ Srt!Accept) /\ SF_vars(SrtOnly /\ Srt!Dialed)
  /\ WF_vars(RtmpOnly /\ (Rtmp!ReadDone \/ Rtmp!ReadRejected \/ Rtmp!Pop \/ Rtmp!Accept))
  /\ WF_vars(RtspOnly /\ Rtsp!WakeUp)
  /\ WF_vars(RtspOnly /\ Rtsp!DialStep)
  /\ SF_vars(RtspOnly /\ Rtsp!SetUp) /\ SF_vars(RtspOnly /\ Rtsp!Play)

-----------------------------------------------------------------------------
Marked == INSTANCE MarkedSource
            WITH unit <- [stream |-> out.stream, session |-> out.session, marked |-> out.marked,
                          format |-> out.format],
                 format <- [s \in Stream |-> IF protocol # "rtsp" THEN AnyFormat
                                             ELSE IF s \in Media THEN profile[s]
                                             ELSE Rtsp!NoTrack],
                 NoFormat <- Rtsp!NoTrack

(* Whatever fails and however often: packets of a new session come after all *)
(* of the older one, the first of each stream is marked, and all have the      *)
(* format for which the decoders were made.                                    *)
ImplementsMarkedSource == Marked!Spec

(* The first picture of every publisher is an IDR that comes after a sequence *)
(* header, whatever the previous publisher had left in the converter.          *)
RtmpStartsAtKey ==
  [][(protocol = "rtmp" /\ out' # out /\ out'.stream = "video"
        /\ out'.session > latest["video"]) => out'.key]_vars

(* A listener or a camera never marks more than that: RTMP marks the first     *)
(* packet of each stream after a change of publisher, also when the limit of   *)
(* one read cuts a read short; RTSP marks a packet that has a reason of its    *)
(* own, and the first packet without one in a session that replaced another.   *)
MarksJustified ==
  [][(protocol # "srt" /\ out' # out /\ out'.marked /\ ~out'.own)
       => /\ out'.session > 1
          /\ IF protocol = "rtmp" THEN out'.session > latest[out'.stream]
                                  ELSE out'.stream \notin plain]_vars

(* The state file never shows an SRT endpoint back without having counted the  *)
(* reconnection: its samples race the breaks and the task that reconnects.      *)
SrtReturnCounted ==
  [][(~seen.connected /\ seen'.connected) => seen'.reconnects > seen.reconnects]_vars

(* libsrt holds one socket and one epoll for an endpoint that is connected, and *)
(* nothing for one that is not: wherever an attempt has failed, what the half-    *)
(* made handle names, and its drop releases, is all that there is.                *)
SocketsOwned ==
  task \notin Srt!DialStage => native = IF handle THEN Srt!Held ELSE {}

Serving ==
  CASE protocol = "srt" -> handle
    [] protocol = "rtmp" -> peer.here
    [] protocol = "rtsp" -> phase = "play"

(* A lost session is replaced in the end unless the input ends: no flag,        *)
(* deadline or queue keeps the source from its next attempt.                     *)
SessionReturns ==
  (ended = "no" /\ enabled /\ session < MaxSession) ~> (Serving \/ ended # "no")
=============================================================================
