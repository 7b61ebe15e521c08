--------------------------- MODULE StreamDemuxer ---------------------------
(***************************************************************************)
(* The MPEG-TS demuxer of an input (crates/mpegts/src/stream.rs), and the   *)
(* task that routes its packets (demux_transport in                         *)
(* crates/runtime/src/single.rs), for the TS packets of the video PID.      *)
(*                                                                         *)
(* The sender splits each access unit into the TS packets of one PES, which *)
(* may declare its length.  Packets are lost or arrive damaged, and the     *)
(* transport may reconnect, which starts a new demuxer.  Downstream relies  *)
(* on the discontinuity flag of a packet: without it, the packet is taken   *)
(* for the whole access unit that follows the previous one.                 *)
(*                                                                         *)
(* A TS packet is known by its unit and its place in it; timestamps count   *)
(* in units, one per unit.  Packets on other PIDs share no state with       *)
(* these, but for the tables, which are one event here.                     *)
(***************************************************************************)
EXTENDS Integers, Sequences, FiniteSets

CONSTANTS
  CounterModulus,   \* of the continuity counter: 16
  PtsModulus,       \* of PTS on the wire: 2^33
  FirstPts,         \* of the first unit
  PesLimit,         \* MAX_PES_BYTES, in TS packets
  MaxParts,         \* bound of the model: TS packets of the largest unit
  MaxUnit           \* bound of the model: units the sender has

ASSUME DemuxerAssumption ==
  /\ CounterModulus \in Nat /\ CounterModulus > 1
  /\ PtsModulus \in Nat /\ CounterModulus < PtsModulus \div 2
  /\ FirstPts \in 0 .. PtsModulus - 1
  /\ PesLimit \in Nat \ {0}
  /\ MaxParts \in Nat \ {0}
  /\ MaxUnit \in Nat \ {0}

VARIABLES
  packet,      \* the next TS packet of the sender
  counter,     \* its continuity counter
  lost,        \* packets lost in a row
  demuxer,     \* StreamDemuxer: the entries of its maps for the PID
  announce,    \* pending_discontinuity of demux_transport
  routed,      \* the packets it has sent to the decoder
  ended,       \* the input has ended and the demuxer is flushed
  blind        \* ghost: units that lost a packet which no counter could reveal

vars == <<packet, counter, lost, demuxer, announce, routed, ended, blind>>

None == -1
Unit == 1 .. MaxUnit
Counter == 0 .. CounterModulus - 1
Raw(unit) == (FirstPts + unit - 1) % PtsModulus

TsPacket ==
  {p \in [unit : 1 .. MaxUnit + 1, part : 1 .. MaxParts, parts : 1 .. MaxParts,
          declared : BOOLEAN] : p.part <= p.parts}

\* What is left of the bytes after a declared length: not a PES.
Junk == [unit |-> 0, part |-> 0, parts |-> 0, declared |-> FALSE]

ElementaryPacket == [unit : Unit, whole : BOOLEAN, pts : Nat, discontinuity : BOOLEAN]

\* continuity: None, or the last counter; pes: the PES in assembly; pending:
\* pending_discontinuity; mapped: the tables name the PID; previous and epoch:
\* the TimestampUnwrapper; events: the packets of this call.
NewDemuxer ==
  [continuity |-> None, pes |-> <<>>, pending |-> FALSE, mapped |-> FALSE,
   previous |-> None, epoch |-> 0, events |-> <<>>]

TypeOK ==
  /\ packet \in TsPacket
  /\ counter \in Counter
  /\ lost \in 0 .. CounterModulus - 1
  /\ demuxer \in [continuity : Counter \cup {None}, pes : Seq(TsPacket \cup {Junk}),
                  pending : BOOLEAN, mapped : BOOLEAN,
                  previous : (0 .. PtsModulus - 1) \cup {None}, epoch : Nat, events : {<<>>}]
  /\ announce \in BOOLEAN
  /\ routed \in Seq(ElementaryPacket)
  /\ ended \in BOOLEAN
  /\ blind \subseteq Unit

Init ==
  /\ packet \in TsPacket /\ packet.unit = 1 /\ packet.part = 1
  /\ counter = 0
  /\ lost = 0
  /\ demuxer = NewDemuxer
  /\ announce = FALSE
  /\ routed = <<>>
  /\ ended = FALSE
  /\ blind = {}

-----------------------------------------------------------------------------
ResetPid(d) == [d EXCEPT !.continuity = None, !.pes = <<>>, !.previous = None, !.epoch = 0]

\* reset_pid, and the mark that every caller but flush leaves behind.
Discontinue(d) == [ResetPid(d) EXCEPT !.pending = TRUE]

\* A plausible bug: the wrap is seen but not kept.
UnwrappedOnce(d, raw) ==
  IF d.previous # None /\ raw + PtsModulus \div 2 < d.previous THEN PtsModulus ELSE 0

\* The epoch of the timestamp: a step back of over half the range is a wrap.
Unwrapped(d, raw) ==
  IF d.previous # None /\ raw + PtsModulus \div 2 < d.previous
  THEN d.epoch + PtsModulus ELSE d.epoch

Whole(pes) ==
  /\ Len(pes) = pes[1].parts
  /\ \A i \in DOMAIN pes : pes[i].unit = pes[1].unit /\ pes[i].part = i

\* emit_pes.  What is not a PES does not parse, and process_packet fails.
EmitPes(d, pes) ==
  IF pes[1] = Junk THEN Discontinue(d)
  ELSE LET raw == Raw(pes[1].unit)
           epoch == Unwrapped(d, raw)
       IN [d EXCEPT !.pending = FALSE, !.previous = raw, !.epoch = epoch,
                    !.events = Append(@, [unit |-> pes[1].unit, whole |-> Whole(pes),
                                          pts |-> epoch + raw, discontinuity |-> d.pending])]

\* Bytes, in half TS packets: the last packet of a unit is not full.
Size(pes) == 2 * Len(pes) - Cardinality({i \in DOMAIN pes : pes[i].part = pes[i].parts})
Expected(pes) == 2 * pes[1].parts - 1

\* A packet that starts a unit ends the one before, complete or not.
StartPes(d, p) ==
  IF d.pes = <<>> THEN [d EXCEPT !.pes = <<p>>]
  ELSE EmitPes([d EXCEPT !.pes = <<p>>], d.pes)

\* Another one is appended, if there is something to append to.
PushPes(d, p) ==
  IF d.pes = <<>> THEN d
  ELSE IF Len(d.pes) + 1 > PesLimit THEN Discontinue(d)
  ELSE [d EXCEPT !.pes = Append(@, p)]

\* take_complete.  junkEnds: the length that junk happens to declare is reached.
TakeComplete(d, junkEnds) ==
  IF d.pes = <<>> THEN d
  ELSE IF d.pes[1] = Junk THEN IF junkEnds THEN Discontinue(d) ELSE d
  ELSE IF d.pes[1].declared /\ Size(d.pes) >= Expected(d.pes)
  THEN EmitPes([d EXCEPT !.pes = IF Size(d.pes) > Expected(d.pes) THEN <<Junk>> ELSE <<>>],
               d.pes)
  ELSE d

\* A plausible bug: the PES is reset and nobody is told.
CheckContinuityUnmarked(d, c, signalled) ==
  IF \/ signalled
     \/ d.continuity # None /\ c # (d.continuity + 1) % CounterModulus
  THEN ResetPid(d)
  ELSE [d EXCEPT !.continuity = c]

\* The counter is kept first, so that a reset forgets it too: the packet
\* after this one is not checked.
CheckContinuity(d, c, signalled) ==
  IF \/ signalled
     \/ d.continuity # None /\ c # (d.continuity + 1) % CounterModulus
  THEN Discontinue(d)
  ELSE [d EXCEPT !.continuity = c]

\* process_packet for a packet of the PID with a payload.
ProcessPacket(d, p, c, signalled, junkEnds) ==
  LET checked == CheckContinuity(d, c, signalled)
  IN IF ~checked.mapped THEN checked
     ELSE TakeComplete(IF p.part = 1 THEN StartPes(checked, p) ELSE PushPes(checked, p),
                       junkEnds)

-----------------------------------------------------------------------------
\* The sender's next packet, of this unit or the first of the next one.
Advance ==
  /\ counter' = (counter + 1) % CounterModulus
  /\ packet' \in TsPacket
  /\ IF packet.part < packet.parts
     THEN packet' = [packet EXCEPT !.part = @ + 1]
     ELSE packet'.unit = packet.unit + 1 /\ packet'.part = 1

\* The mark of a new session after i packets: one that has its own does not take it.
Announcing(events, i) == announce /\ \A j \in 1 .. i : events[j].discontinuity

\* route_demux_events: the first packet without a mark gets that of the session.
Route(d) ==
  /\ routed' = routed \o [i \in DOMAIN d.events |->
                            [d.events[i] EXCEPT !.discontinuity = @ \/ Announcing(d.events, i - 1)]]
  /\ announce' = Announcing(d.events, Len(d.events))
  /\ demuxer' = [d EXCEPT !.events = <<>>]

(* push: a packet arrives.  Its adaptation field may signal a discontinuity. *)
Receive ==
  /\ ~ended
  /\ packet.unit <= MaxUnit
  /\ \E signalled, junkEnds \in BOOLEAN :
       Route(ProcessPacket(demuxer, packet, counter, signalled, junkEnds))
  /\ lost' = 0
  /\ Advance
  /\ UNCHANGED <<ended, blind>>

(* push: the packet does not parse, or has its transport error flag set.    *)
ReceiveDamaged ==
  /\ ~ended
  /\ packet.unit <= MaxUnit
  /\ demuxer' = Discontinue(demuxer)
  /\ lost' = 0
  /\ Advance
  /\ UNCHANGED <<announce, routed, ended, blind>>

(* The network loses a packet, or push drops it while it looks for the sync *)
(* byte.  The counter reveals fewer than CounterModulus losses in a row.     *)
Lose ==
  /\ ~ended
  /\ packet.unit <= MaxUnit
  /\ lost < CounterModulus - 1
  /\ lost' = lost + 1
  /\ blind' = IF demuxer.continuity = None THEN blind \cup {packet.unit} ELSE blind
  /\ Advance
  /\ UNCHANGED <<demuxer, announce, routed, ended>>

(* The program's tables arrive: its video PID is known from here on.        *)
Tables ==
  /\ ~ended
  /\ ~demuxer.mapped
  /\ demuxer' = [demuxer EXCEPT !.mapped = TRUE]
  /\ UNCHANGED <<packet, counter, lost, announce, routed, ended, blind>>

\* A plausible bug: the new session is not announced.
ReconnectQuietly ==
  /\ ~ended
  /\ packet.unit < MaxUnit
  /\ demuxer' = NewDemuxer
  /\ packet' \in TsPacket /\ packet'.unit = packet.unit + 1
  /\ counter' \in Counter
  /\ lost' = 0
  /\ UNCHANGED <<announce, routed, ended, blind>>

(* demux_transport: the first chunk of a new session of the transport.  It  *)
(* begins anywhere in a later unit.                                          *)
Reconnect ==
  /\ ~ended
  /\ packet.unit < MaxUnit
  /\ demuxer' = NewDemuxer
  /\ announce' = TRUE
  /\ packet' \in TsPacket /\ packet'.unit = packet.unit + 1
  /\ counter' \in Counter
  /\ lost' = 0
  /\ UNCHANGED <<routed, ended, blind>>

(* The input ends: flush emits what is in assembly, complete or not.  An     *)
(* error there leaves no mark, and nothing comes after it to bear one.       *)
Flush ==
  /\ ~ended
  /\ ended' = TRUE
  /\ IF demuxer.mapped /\ demuxer.pes # <<>>
     THEN Route(EmitPes([demuxer EXCEPT !.pes = <<>>], demuxer.pes))
     ELSE UNCHANGED <<demuxer, announce, routed>>
  /\ UNCHANGED <<packet, counter, lost, blind>>

Next ==
  \/ Receive \/ ReceiveDamaged \/ Lose \/ Tables \/ Reconnect \/ Flush
  \/ ended /\ UNCHANGED vars

Spec == Init /\ [][Next]_vars

-----------------------------------------------------------------------------
\* Neighbours in what the decoder gets, where it is not told of a break.
Unbroken == {i \in 2 .. Len(routed) : ~routed[i].discontinuity}

(* A packet without the flag is a whole access unit: what was assembled      *)
(* across a loss is never passed off as one (take_complete, start and push   *)
(* do not look).  Only the flush at the end of the input may cut one short.  *)
UnflaggedWhole ==
  \A i \in DOMAIN routed :
    routed[i].whole \/ routed[i].discontinuity \/ (ended /\ i = Len(routed))

(* Without the flag, the timestamp has advanced exactly as the sender's       *)
(* clock has, across wraps of PTS and resets of the unwrapper (unwrap).      *)
TimestampsFollow ==
  \A i \in Unbroken :
    routed[i].pts - routed[i - 1].pts = routed[i].unit - routed[i - 1].unit

(* Without the flag, no unit is missing between a packet and the one before,  *)
(* except one whose loss began right after a packet that reset the PID: that  *)
(* packet's counter is forgotten (reset_pid), so such a loss goes unnoticed.  *)
LossesAnnounced ==
  \A i \in Unbroken : routed[i - 1].unit + 1 .. routed[i].unit - 1 \subseteq blind
=============================================================================
