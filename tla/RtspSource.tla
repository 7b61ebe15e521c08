----------------------------- MODULE RtspSource -----------------------------
(***************************************************************************)
(* The RTSP input (RtspPacketSource in crates/rtsp/src/lib.rs): one session  *)
(* with a camera, whose frames become packets one by one, and the loop that  *)
(* replaces the session after a retryable failure.  The protocol library is  *)
(* external: it says what the camera offers, reports lost packets and new     *)
(* parameters with a frame, and turns an answer into a status.                *)
(***************************************************************************)
EXTENDS Integers, SequencesExt

CONSTANTS
  Stream,          \* video is 0 and audio 1 in pending_discontinuity
  Offers,          \* what a camera may describe: sequences of tracks
  MaxTracks,       \* MAX_TRACKS
  InitialBackoff, MaxBackoff,   \* reconnect.initial_backoff_ms and max_backoff_ms
  MaxAttempts,     \* bound of the model: failed attempts in a row
  MaxSession       \* bound of the model: sessions of one run

VARIABLES
  enabled,       \* reconnect.enabled
  session,       \* sessions played so far
  latest, out,   \* the session of the last packet of each stream, and the last packet
  ended,         \* how receive_packet ended the task, if it did
  connected,     \* RtspStatsState.connected
  reconnects,    \* RtspStatsState.reconnects
  marks,         \* pending_discontinuity
  attempts,      \* attempt of reconnect: failures since the session was lost
  delay,         \* the wait that the source is in, 0 when it is in none
  phase,         \* "sleep" (between attempts), "describe", "setup", "start" (an attempt),
                 \* "play", "down" (no session)
  profile,       \* the format of each stream of the session, from its selected tracks
  offered,       \* the same of the session that an attempt builds
  left,          \* selected tracks that SETUP has not reached
  plain          \* not in the code: streams that had a packet without a reason to
                 \* be marked in this session

sharedVars == <<enabled, session, latest, out, ended, connected, reconnects, marks>>
backoffVars == <<attempts, delay>>
dialVars == <<offered, left>>

NoTrack == [codec |-> "none", rate |-> 0, channels |-> 0]
NoProfile == [s \in Stream |-> NoTrack]

Codec == {"h264", "h265", "aac", "alaw", "mulaw"}

\* The status that a request may meet: 0 is a timeout or a network error.
StatusCode == {0, 401, 404, 454, 503}

TypeOK ==
  /\ phase \in {"sleep", "describe", "setup", "start", "play", "down"}
  /\ \A p \in {profile, offered}, s \in Stream : p[s].codec \in Codec \cup {"none"}
  /\ left \in 0 .. 2
  /\ plain \subseteq Stream

\* RtspPacketSource::connect is the first attempt.
Init ==
  /\ session = 0
  /\ connected = FALSE
  /\ phase = "describe"
  /\ profile = NoProfile /\ offered = NoProfile
  /\ left = 0
  /\ plain = {}

-----------------------------------------------------------------------------
\* retry_delay: the initial backoff doubled with each attempt, up to the maximum.
RetryDelay(attempt) ==
  LET doubled == InitialBackoff * 2 ^ attempt
  IN  IF doubled < MaxBackoff THEN doubled ELSE MaxBackoff

\* RtspError::from_retina, and the timeouts.
Retryable(status) == status \notin 400 .. 499 \/ status = 404

\* classify_codec.  No channels are as good as one for G.711.
CodecOf(track) ==
  CASE track.name \in {"h264", "h265"} /\ track.rate = 90000 -> track.name
    [] /\ track.name = "mpeg4-generic" /\ track.lc
       /\ track.rate \in {44100, 48000} /\ track.channels \in {1, 2} -> "aac"
    [] track.name = "pcma" /\ track.rate = 8000 /\ track.channels \in {0, 1} -> "alaw"
    [] track.name = "pcmu" /\ track.rate = 8000 /\ track.channels \in {0, 1} -> "mulaw"
    [] OTHER -> "none"

\* select_primary_tracks: the first track of each kind that has a codec.
Selected(offer, s) ==
  LET fitting == SelectSeq(offer, LAMBDA t : t.media = s /\ CodecOf(t) # "none")
  IN  IF fitting = <<>> THEN NoTrack
      ELSE [codec |-> CodecOf(Head(fitting)), rate |-> Head(fitting).rate,
            channels |-> Head(fitting).channels]

ProfileOf(offer) == [s \in Stream |-> Selected(offer, s)]

\* A plausible bug: two profiles are compared by their codecs alone.
CompatibleByCodec(p, q) == \A s \in Stream : p[s].codec = q[s].codec

\* is_compatible_with: the decoders were made for the formats of the first session.
Compatible(p, q) == p = q

(* build_rtsp_audio_decoder, after the first session has begun: one AAC     *)
(* format only; without audio the decoder stays idle.                        *)
DecoderFor(track) ==
  \/ track.codec \in {"alaw", "mulaw", "none"}
  \/ track.codec = "aac" /\ track.rate = 48000 /\ track.channels = 2

\* annex_b_contains_random_access, of the type of a NAL unit.
RandomAccess(codec, nal) == (codec = "h264" /\ nal = 5) \/ (codec = "h265" /\ nal \in 16 .. 23)

(* next_event: a video frame is a keyframe if that is reported or found in    *)
(* its data; the source takes every audio frame for one.                      *)
Keyframe(s, reported, nal) == s = "audio" \/ reported \/ RandomAccess(profile[s].codec, nal)

Receiving == ended = "no" /\ phase = "play"

(* `own || take(mark)`: the mark is left alone by a frame that has a reason *)
(* of its own, and the next frame of the stream is marked as well.           *)
Taken(s, own) == IF own THEN marks ELSE [marks EXCEPT ![s] = FALSE]

(* next_packet_from_session.  loss: packets were lost before the frame;       *)
(* changed: new parameters, which only a video frame reports.                 *)
Frame(s, loss, changed, reported, nal) ==
  /\ Receiving
  /\ profile[s] # NoTrack
  /\ s = "audio" => ~changed
  /\ LET own == loss \/ changed
     IN  /\ out' = [stream |-> s, session |-> session, marked |-> own \/ marks[s],
                    key |-> Keyframe(s, reported, nal), own |-> own,
                    format |-> profile[s]]
         /\ marks' = Taken(s, own)
         /\ plain' = IF own THEN plain ELSE plain \cup {s}
  /\ latest' = [latest EXCEPT ![s] = session]
  /\ UNCHANGED <<enabled, session, ended, connected, reconnects, backoffVars, phase, profile,
                 dialVars>>

(* receive_packet, when next_event fails: the media ends, a frame belongs to *)
(* no selected track, or there is a timeout or an error status.  A retryable  *)
(* error with reconnect starts the loop of `reconnect`.                       *)
SessionFails(retryable, end) ==
  /\ Receiving
  /\ end => retryable
  /\ connected' = FALSE
  /\ IF retryable /\ enabled
     THEN /\ phase' = "sleep"
          /\ attempts' = 0
          /\ delay' = RetryDelay(0)
          /\ UNCHANGED ended
     ELSE /\ ended' = IF end THEN "eos" ELSE "error"
          /\ UNCHANGED <<backoffVars, phase>>
  /\ UNCHANGED <<enabled, session, latest, out, reconnects, marks, profile, dialVars, plain>>

MediaEnds == SessionFails(TRUE, TRUE)
Unselected == SessionFails(FALSE, FALSE)
ReceiveFails(status) == SessionFails(Retryable(status), FALSE)

-----------------------------------------------------------------------------
(* RtspSession::connect.                                                    *)
Dialing(at) == ended = "no" /\ phase = at

WakeUp ==
  /\ Dialing("sleep")
  /\ phase' = "describe"
  /\ delay' = 0
  /\ UNCHANGED <<sharedVars, attempts, profile, dialVars, plain>>

\* A request is refused for good, or the first session was asked for: the input ends.
GiveUp ==
  /\ ended' = "error"
  /\ phase' = "down"
  /\ connected' = FALSE
  /\ offered' = NoProfile /\ left' = 0
  /\ UNCHANGED <<enabled, session, latest, out, reconnects, marks, backoffVars, profile, plain>>

\* Too many tracks, or none that the program can use.
Describe(offer) ==
  /\ Dialing("describe")
  /\ LET p == ProfileOf(offer)
         n == Cardinality({s \in Stream : p[s] # NoTrack})
     IN  IF Len(offer) > MaxTracks \/ n = 0
         THEN GiveUp
         ELSE /\ offered' = p /\ left' = n
              /\ phase' = "setup"
              /\ UNCHANGED <<sharedVars, backoffVars, profile, plain>>

SetUp ==
  /\ Dialing("setup")
  /\ left' = left - 1
  /\ phase' = IF left = 1 THEN "start" ELSE "setup"
  /\ UNCHANGED <<sharedVars, backoffVars, profile, offered, plain>>

(* PLAY succeeds.  The session is used when it has a video track and fits   *)
(* the decoders; the first one is what they are made for.                    *)
Play ==
  /\ Dialing("start")
  /\ session < MaxSession   \* the bound of the model
  /\ IF \/ offered["video"] = NoTrack
        \/ IF session = 0 THEN ~DecoderFor(offered["audio"]) ELSE ~Compatible(profile, offered)
     THEN GiveUp
     ELSE /\ session' = session + 1
          /\ profile' = offered
          /\ marks' = IF session = 0 THEN marks ELSE [s \in Stream |-> TRUE]
          /\ reconnects' = IF session = 0 THEN reconnects ELSE reconnects + 1
          /\ connected' = TRUE
          /\ phase' = "play"
          /\ offered' = NoProfile
          /\ plain' = {}
          /\ UNCHANGED <<enabled, latest, out, ended, backoffVars, left>>

\* Only `reconnect` tries again.
AttemptFails(status) ==
  /\ \E at \in {"describe", "setup", "start"} : Dialing(at)
  /\ IF session = 0 \/ ~Retryable(status)
     THEN GiveUp
     ELSE /\ attempts < MaxAttempts   \* the bound of the model
          /\ attempts' = attempts + 1
          /\ delay' = RetryDelay(attempts + 1)
          /\ phase' = "sleep"
          /\ offered' = NoProfile /\ left' = 0
          /\ UNCHANGED <<sharedVars, profile, plain>>

DialStep ==
  \/ \E offer \in Offers : Describe(offer)
  \/ SetUp \/ Play
  \/ \E status \in StatusCode : AttemptFails(status)

\* close, which receive_packets calls after the end and after an error.
Close ==
  /\ ended \in {"eos", "error"} /\ session > 0
  /\ ended' = "closed"
  /\ connected' = FALSE
  /\ phase' = "down"
  /\ UNCHANGED <<enabled, session, latest, out, reconnects, marks, backoffVars, profile, dialVars,
                 plain>>

Next ==
  \/ \E s \in Stream, loss, changed, reported \in BOOLEAN, nal \in {1, 5, 19} :
       Frame(s, loss, changed, reported, nal)
  \/ MediaEnds \/ Unselected \/ \E status \in StatusCode : ReceiveFails(status)
  \/ WakeUp \/ DialStep \/ Close
=============================================================================
