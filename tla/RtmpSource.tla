----------------------------- MODULE RtmpSource -----------------------------
(***************************************************************************)
(* The RTMP listener input (crates/rtmp/src/source.rs).  RtmpPacketSource    *)
(* serves one publisher at a time: it reads from the socket, turns the       *)
(* events of the read into packets, hands these out before it reads again,   *)
(* and takes the next publisher when the present one fails.  The protocol    *)
(* engine is external: it decides which events a read produces.              *)
(***************************************************************************)
EXTENDS Naturals, Sequences

CONSTANTS
  Stream,        \* video is 0 and audio 1 in the code
  AnyFormat,     \* of packets whose codecs are fixed: H.264 and AAC-LC
  MaxPending,    \* MAX_PENDING_PACKETS
  MaxSession     \* bound of the model: publishers accepted in one run

VARIABLES
  enabled,       \* reconnect.enabled
  session,       \* publishers accepted so far; had_peer is session > 0
  latest, out,   \* the session of the last packet of each stream, and the last packet
  ended,         \* how receive_packet ended the task, if it did
  connected,     \* RtmpSourceStats.connected
  reconnects,    \* RtmpSourceStats.reconnects
  marks,         \* pending_discontinuity
  peer,          \* the connection with its conversion state, or NoPeer
  reading,       \* pump_peer is handling the events of a read: "no", "events", or
                 \* "rejected" once it has met a request that was rejected
  pending        \* the packets of the last read

sharedVars == <<enabled, session, latest, out, ended, connected, reconnects, marks>>
ownVars == <<peer, reading, pending>>

\* here: Option; config and waiting: AvcIngest; aac: AacIngest.configured.
Peer == [here : BOOLEAN, publishing : BOOLEAN, config : BOOLEAN, waiting : BOOLEAN, aac : BOOLEAN]
NoPeer ==
  [here |-> FALSE, publishing |-> FALSE, config |-> FALSE, waiting |-> FALSE, aac |-> FALSE]
NewPeer == [NoPeer EXCEPT !.here = TRUE]

\* own: the packet is marked for a reason of its own, never so in RTMP.
Packet == [stream : Stream, session : 1 .. MaxSession, marked : BOOLEAN, key : BOOLEAN,
           own : BOOLEAN, format : {AnyFormat}]

TypeOK ==
  /\ peer \in Peer /\ (peer.here \/ peer = NoPeer)
  /\ reading \in {"no", "events", "rejected"}
  /\ pending \in Seq(Packet) /\ Len(pending) <= MaxPending

\* bind: the listener waits for its first publisher.
Init ==
  /\ session = 0
  /\ connected = FALSE
  /\ peer = NoPeer
  /\ reading = "no"
  /\ pending = <<>>

-----------------------------------------------------------------------------
\* receive_packet goes on to the socket only when no packet is left.
Pumping == ended = "no" /\ reading = "no" /\ pending = <<>>

(* accept_peer: a publisher that replaces another one marks both streams,   *)
(* even if the other one never came to publish.                              *)
Accept ==
  /\ Pumping /\ ~peer.here
  /\ session > 0 => enabled
  /\ session < MaxSession   \* the bound of the model
  /\ session' = session + 1
  /\ IF session > 0
     THEN marks' = [s \in Stream |-> TRUE] /\ reconnects' = reconnects + 1
     ELSE UNCHANGED <<marks, reconnects>>
  /\ connected' = FALSE
  /\ peer' = NewPeer
  /\ UNCHANGED <<enabled, latest, out, ended, reading, pending>>

(* An error of accept ends the input, although it is called retryable.      *)
AcceptFails ==
  /\ Pumping /\ ~peer.here
  /\ session > 0 => enabled
  /\ ended' = "error"
  /\ UNCHANGED <<enabled, session, latest, out, connected, reconnects, marks, ownVars>>

(* The error path of pump_peer, and what receive_packet makes of it: the    *)
(* packets that the read had already produced stay in pending.               *)
PumpFails(retryable) ==
  /\ peer' = NoPeer
  /\ reading' = "no"
  /\ connected' = FALSE
  /\ ended' = IF enabled /\ retryable THEN ended ELSE "error"
  /\ UNCHANGED <<enabled, session, latest, out, reconnects>>

(* No data before the deadline, a closed or failed socket (retryable), or   *)
(* bytes that the ingress guard or the protocol engine refuse (not).         *)
ReadFails ==
  /\ Pumping /\ peer.here
  /\ \E retryable \in BOOLEAN : PumpFails(retryable)
  /\ UNCHANGED <<marks, pending>>

Read ==
  /\ Pumping /\ peer.here
  /\ reading' = "events"
  /\ UNCHANGED <<sharedVars, peer, pending>>

-----------------------------------------------------------------------------
(* The events of a read.                                                    *)
PublishAccepted ==
  /\ reading # "no" /\ ~peer.publishing
  /\ peer' = [peer EXCEPT !.publishing = TRUE]
  /\ connected' = TRUE
  /\ UNCHANGED <<enabled, session, latest, out, ended, reconnects, marks, reading, pending>>

(* A wrong name or a play request.  The other events of the read are         *)
(* handled and the answer is flushed before the connection is given up.      *)
RequestRejected ==
  /\ reading # "no" /\ ~peer.publishing
  /\ reading' = "rejected"
  /\ UNCHANGED <<sharedVars, peer, pending>>

\* A plausible bug: the mark is read but not taken.
PushKeepsMark(s, key) ==
  /\ UNCHANGED marks
  /\ IF Len(pending) >= MaxPending
     THEN PumpFails(TRUE) /\ UNCHANGED pending
     ELSE /\ pending' = Append(pending, [stream |-> s, session |-> session,
                                         marked |-> marks[s], key |-> key, own |-> FALSE,
                                         format |-> AnyFormat])
          /\ peer' = IF s = "video" /\ key THEN [peer EXCEPT !.waiting = FALSE] ELSE peer
          /\ UNCHANGED <<enabled, session, latest, out, ended, connected, reconnects, reading>>

(* push_packet takes the mark first, so it is lost with a packet that finds *)
(* no room; the publisher is given up then.                                  *)
Push(s, key) ==
  /\ marks' = [marks EXCEPT ![s] = FALSE]
  /\ IF Len(pending) >= MaxPending
     THEN PumpFails(TRUE) /\ UNCHANGED pending
     ELSE /\ pending' = Append(pending, [stream |-> s, session |-> session,
                                         marked |-> marks[s], key |-> key, own |-> FALSE,
                                         format |-> AnyFormat])
          /\ peer' = IF s = "video" /\ key THEN [peer EXCEPT !.waiting = FALSE] ELSE peer
          /\ UNCHANGED <<enabled, session, latest, out, ended, connected, reconnects, reading>>

\* A plausible bug: the converter does not wait for an IDR after a header.
VideoHeaderEager ==
  /\ reading # "no" /\ peer.publishing
  /\ peer' = [peer EXCEPT !.config = TRUE]
  /\ UNCHANGED <<sharedVars, reading, pending>>

VideoHeader ==
  /\ reading # "no" /\ peer.publishing
  /\ peer' = [peer EXCEPT !.config = TRUE, !.waiting = TRUE]
  /\ UNCHANGED <<sharedVars, reading, pending>>

EndOfSequence ==
  /\ reading # "no" /\ peer.publishing
  /\ peer' = [peer EXCEPT !.waiting = TRUE]
  /\ UNCHANGED <<sharedVars, reading, pending>>

\* AvcIngest.push swallows the pictures before an IDR.
VideoFrame(key) ==
  /\ reading # "no" /\ peer.publishing /\ peer.config
  /\ key \/ ~peer.waiting
  /\ Push("video", key)

AudioHeader ==
  /\ reading # "no" /\ peer.publishing
  /\ peer' = [peer EXCEPT !.aac = TRUE]
  /\ UNCHANGED <<sharedVars, reading, pending>>

AudioFrame ==
  /\ reading # "no" /\ peer.publishing /\ peer.aac
  /\ Push("audio", TRUE)

(* Media before its header or malformed, the protocol engine disconnects,   *)
(* or its answer cannot be written.                                          *)
EventFails ==
  /\ reading # "no"
  /\ PumpFails(TRUE)
  /\ UNCHANGED <<marks, pending>>

ReadRejected ==
  /\ reading = "rejected"
  /\ PumpFails(TRUE)
  /\ UNCHANGED <<marks, pending>>

ReadDone ==
  /\ reading = "events"
  /\ reading' = "no"
  /\ UNCHANGED <<sharedVars, peer, pending>>

-----------------------------------------------------------------------------
(* pop_packet.                                                              *)
Pop ==
  /\ ended = "no" /\ reading = "no" /\ pending # <<>>
  /\ out' = Head(pending)
  /\ latest' = [latest EXCEPT ![Head(pending).stream] = Head(pending).session]
  /\ pending' = Tail(pending)
  /\ UNCHANGED <<enabled, session, ended, connected, reconnects, marks, peer, reading>>

(* close, which receive_packets calls when receive_packet has returned an   *)
(* error.  It is always an error: a publisher that leaves while reconnect is *)
(* disabled is one, and receive_packet, which would return EndOfStream the   *)
(* next time, is not called again.                                           *)
Close ==
  /\ ended = "error"
  /\ ended' = "closed"
  /\ connected' = FALSE
  /\ peer' = NoPeer
  /\ pending' = <<>>
  /\ UNCHANGED <<enabled, session, latest, out, reconnects, marks, reading>>

Next ==
  \/ Accept \/ AcceptFails \/ ReadFails \/ Read
  \/ PublishAccepted \/ RequestRejected \/ VideoHeader \/ EndOfSequence
  \/ VideoFrame(TRUE) \/ VideoFrame(FALSE) \/ AudioHeader \/ AudioFrame
  \/ EventFails \/ ReadRejected \/ ReadDone \/ Pop \/ Close
=============================================================================
