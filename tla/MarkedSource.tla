---------------------------- MODULE MarkedSource ----------------------------
(***************************************************************************)
(* What a live input promises to the decoders, whatever its protocol: units  *)
(* of a new session never come mixed with units of an older one, and the     *)
(* first unit of each stream in a session after the first one is marked as a *)
(* discontinuity (MediaPacket.discontinuity and TransportChunk.discontinuity *)
(* in crates/core/src/backend.rs).  A source may mark more than it has to.    *)
(***************************************************************************)
EXTENDS Naturals

CONSTANTS
  Stream,       \* the streams with a mark of their own
  NoFormat,     \* that of a source which is not open yet
  MaxSession    \* bound of the model: sessions of one run

VARIABLES
  format,       \* of each stream, NoFormat before the source is open
  latest,       \* the session of the last unit of each stream, 0 before the first
  unit          \* the last unit given to the pipeline

Session == 1 .. MaxSession

NoUnit == [stream |-> "none", session |-> 0, marked |-> FALSE, format |-> NoFormat]

Unopened == [s \in Stream |-> NoFormat]

Init ==
  /\ DOMAIN format = Stream
  /\ latest = [s \in Stream |-> 0]
  /\ unit = NoUnit

\* The decoders are made for the formats that the source then has.
Open ==
  /\ format = Unopened
  /\ DOMAIN format' = Stream
  /\ UNCHANGED <<latest, unit>>

Give(s) ==
  /\ \A t \in Stream : latest[t] <= unit'.session
  /\ unit'.stream = s /\ unit'.session \in Session
  /\ unit'.format = format[s] /\ format[s] # NoFormat
  /\ (unit'.session > 1 /\ unit'.session > latest[s]) => unit'.marked
  /\ latest' = [latest EXCEPT ![s] = unit'.session]
  /\ UNCHANGED format

Next == Open \/ \E s \in Stream : Give(s)

Spec == Init /\ [][Next]_<<format, latest, unit>>
=============================================================================
