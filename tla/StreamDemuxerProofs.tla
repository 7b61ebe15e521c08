------------------------ MODULE StreamDemuxerProofs ------------------------
(***************************************************************************)
(* What the demuxer passes on without a flag, for any modulus of the         *)
(* counter and of PTS, any limit and any units.  The argument follows one     *)
(* unit, the anchor: the one in assembly, or else the one given out last.     *)
(*   Order     counter and losses: the counter of the next packet is as        *)
(*             expected only if nothing was lost;                               *)
(*   Assembly  without a mark, what is in assembly is a unit from its start,   *)
(*             and the next packet goes on with it;                              *)
(*   Near      as long as no loss will be noticed, the units between the anchor *)
(*             and the next packet are blind, and there are few of them;         *)
(*   Clock     the unwrapper stands at the unit given out last;                  *)
(*   Linked    so a unit in assembly may follow that one without a flag.         *)
(* A packet is processed in three steps, and each of them keeps Processed,      *)
(* which says the same of the moment after the packet.                           *)
(***************************************************************************)
EXTENDS StreamDemuxer, FiniteSetTheorems, SequenceTheorems, TLAPS

LastOf(s) == s[Len(s)]

Assembling(d) == d.pes # <<>> /\ d.pes[1] # Junk

Record ==
  [continuity : Counter \cup {None}, pes : Seq(TsPacket \cup {Junk}), pending : BOOLEAN,
   mapped : BOOLEAN, previous : (0 .. PtsModulus - 1) \cup {None}, epoch : Nat,
   events : Seq(ElementaryPacket)]

DemuxerTypes(d) ==
  /\ d \in Record
  /\ Assembling(d) => d.pes[1].unit \in Unit /\ d.pes[1].part = 1
  /\ ~d.mapped => d.pes = <<>> /\ d.previous = None

\* The unwrapper after the packets in out, where the next one may be announced.
Clock(d, out, announced) ==
  /\ d.previous # None =>
       /\ out # <<>>
       /\ d.previous = Raw(LastOf(out).unit)
       /\ d.epoch + d.previous = LastOf(out).pts
  /\ d.previous = None /\ ~d.pending => out = <<>> \/ announced

\* A unit may come after another one without a flag.
MayFollow(unit, last, unseen) ==
  /\ 1 <= unit - last /\ unit - last <= CounterModulus
  /\ last + 1 .. unit - 1 \subseteq unseen

Linked(d, unit, out, unseen) ==
  ~d.pending /\ d.previous # None => MayFollow(unit, LastOf(out).unit, unseen)

\* The start of a unit, without a hole.
Prefix(pes) == \A i \in DOMAIN pes : pes[i] = [pes[1] EXCEPT !.part = i]

Successor(p, q) ==
  IF p.part < p.parts THEN q = [p EXCEPT !.part = @ + 1]
                      ELSE q.unit = p.unit + 1 /\ q.part = 1

Assembly(d) == Assembling(d) /\ ~d.pending => d.continuity # None /\ Prefix(d.pes)

Anchored(d) == Assembling(d) \/ (d.pes = <<>> /\ ~d.pending /\ d.previous # None)
Anchor(d, out) == IF Assembling(d) THEN d.pes[1].unit ELSE LastOf(out).unit

\* The packet, and what was lost before it, may follow the anchor.
Near(anchor, p, missed, unseen) ==
  /\ anchor <= p.unit
  /\ anchor + 1 .. p.unit - 1 \subseteq unseen
  /\ p.part = 1 => anchor < p.unit
  /\ p.part # 1 /\ anchor < p.unit => p.unit \in unseen
  /\ p.unit - anchor <= missed + (IF p.part = 1 THEN 1 ELSE 0)

\* The three promises, of the packets in out.
Told(out, unseen) ==
  \A i \in 2 .. Len(out) : ~out[i].discontinuity =>
    /\ out[i].pts - out[i - 1].pts = out[i].unit - out[i - 1].unit
    /\ out[i - 1].unit + 1 .. out[i].unit - 1 \subseteq unseen
AllWhole(out) == \A i \in 1 .. Len(out) : out[i].whole \/ out[i].discontinuity
WholeButLast(out) == \A i \in 1 .. Len(out) - 1 : out[i].whole \/ out[i].discontinuity

-----------------------------------------------------------------------------
Order ==
  demuxer.continuity # None =>
    \/ counter = demuxer.continuity + 1 + lost
    \/ counter = demuxer.continuity + 1 + lost - CounterModulus

Missed == IF demuxer.continuity = None THEN lost ELSE CounterModulus - 1

InAssembly ==
  /\ Assembly(demuxer)
  /\ Assembling(demuxer) /\ ~demuxer.pending /\ lost = 0 =>
       Successor(LastOf(demuxer.pes), packet)

NearNext ==
  Anchored(demuxer) /\ (demuxer.continuity = None \/ lost = 0) =>
    Near(Anchor(demuxer, routed), packet, Missed, blind)

Working ==
  /\ Order
  /\ DemuxerTypes(demuxer)
  /\ Clock(demuxer, routed, announce)
  /\ Assembling(demuxer) => Linked(demuxer, demuxer.pes[1].unit, routed, blind)
  /\ InAssembly
  /\ NearNext
  /\ AllWhole(routed)

IInv ==
  /\ TypeOK
  /\ Told(routed, blind)
  /\ UnflaggedWhole
  /\ ~ended => Working
-----------------------------------------------------------------------------
(* What Route makes of the packets of a call.                               *)
Shown(events) ==
  [i \in DOMAIN events |->
     [events[i] EXCEPT !.discontinuity = @ \/ Announcing(events, i - 1)]]
Out(d) == routed \o Shown(d.events)
Ann(d) == Announcing(d.events, Len(d.events))

\* The demuxer after the packet p, as the state is before it.
Processed(d, p) ==
  /\ DemuxerTypes(d)
  /\ d.continuity \in {None, counter}
  /\ Clock(d, Out(d), Ann(d))
  /\ Assembling(d) => Linked(d, d.pes[1].unit, Out(d), blind)
  /\ Assembly(d)
  /\ Assembling(d) /\ ~d.pending => LastOf(d.pes) = p
  /\ Anchored(d) =>
       /\ Anchor(d, Out(d)) <= p.unit
       /\ Anchor(d, Out(d)) + 1 .. p.unit \subseteq blind
       /\ p.unit - Anchor(d, Out(d)) <= IF d.continuity = None THEN 0 ELSE CounterModulus - 1
  /\ Out(d) \in Seq(ElementaryPacket)
  /\ AllWhole(Out(d))
  /\ Told(Out(d), blind)

\* A packet whose counter is in order, before it is pushed.
Accepted(d, p) ==
  /\ DemuxerTypes(d)
  /\ d.events = <<>>
  /\ d.continuity = counter
  /\ Clock(d, routed, announce)
  /\ Assembling(d) => Linked(d, d.pes[1].unit, routed, blind)
  /\ Assembly(d)
  /\ Assembling(d) /\ ~d.pending => Successor(LastOf(d.pes), p)
  /\ Anchored(d) => Near(Anchor(d, routed), p, CounterModulus - 1, blind)
  /\ AllWhole(routed)
  /\ Told(routed, blind)

LEMMA Remainder ==
  ASSUME NEW m \in Nat \ {0}, NEW a \in Nat, NEW r \in 0 .. m - 1, NEW q \in Int, a = m * q + r
  PROVE  a % m = r
<1>1. /\ a % m \in 0 .. m - 1 /\ a \div m \in Int
      /\ a = m * (a \div m) + (a % m)
  BY SMT
<1>2. (a \div m) - q \in Int
  BY <1>1
<1>3. PICK d \in Int : d = (a \div m) - q
  BY <1>2
<1>4. m * d = r - (a % m)
  BY <1>1, <1>3
<1>5. d >= 1 => m * d >= m
  BY SMT
<1>6. d <= -1 => m * d <= -m
  BY SMT
<1>7. d = 0
  BY <1>1, <1>4, <1>5, <1>6
<1> QED
  BY <1>1, <1>4, <1>7

LEMMA NextCounter ==
  ASSUME NEW c \in Counter
  PROVE  /\ (c + 1) % CounterModulus = IF c + 1 = CounterModulus THEN 0 ELSE c + 1
         /\ (c + 1) % CounterModulus \in Counter
<1>1. CASE c + 1 = CounterModulus
  <2>1. (c + 1) % CounterModulus = 0
    BY <1>1, DemuxerAssumption, Remainder, c + 1 = CounterModulus * 1 + 0 DEF Counter
  <2> QED
    BY <1>1, <2>1, DemuxerAssumption DEF Counter
<1>2. CASE c + 1 # CounterModulus
  <2>1. (c + 1) % CounterModulus = c + 1
    BY <1>2, DemuxerAssumption, Remainder, c + 1 = CounterModulus * 0 + (c + 1) DEF Counter
  <2> QED
    BY <1>2, <2>1, DemuxerAssumption DEF Counter
<1> QED
  BY <1>1, <1>2

LEMMA RawAdvances ==
  ASSUME NEW u \in Nat \ {0}, NEW v \in Nat, 1 <= v - u, v - u <= CounterModulus
  PROVE  /\ Raw(u) \in 0 .. PtsModulus - 1
         /\ Raw(v) \in 0 .. PtsModulus - 1
         /\ Raw(v) = Raw(u) + (v - u) \/ Raw(v) = Raw(u) + (v - u) - PtsModulus
<1>1. /\ PtsModulus \in Nat \ {0} /\ FirstPts \in Nat
      /\ CounterModulus \in Nat /\ CounterModulus < PtsModulus
  BY DemuxerAssumption
<1>2. PICK a \in Nat : a = FirstPts + u - 1
  BY <1>1
<1>3. PICK b \in Nat : b = FirstPts + v - 1
  BY <1>1
<1>4. /\ a % PtsModulus \in 0 .. PtsModulus - 1 /\ a \div PtsModulus \in Int
      /\ a = PtsModulus * (a \div PtsModulus) + (a % PtsModulus)
  BY <1>1
<1>5. PICK k \in Nat : k = v - u
  OBVIOUS
<1>6. CASE (a % PtsModulus) + k < PtsModulus
  <2>1. (a % PtsModulus) + k \in 0 .. PtsModulus - 1
    BY <1>4, <1>6, <1>1
  <2>2. b = PtsModulus * (a \div PtsModulus) + ((a % PtsModulus) + k)
    BY <1>1, <1>2, <1>3, <1>4, <1>5
  <2>3. b % PtsModulus = (a % PtsModulus) + k
    BY <1>1, <1>4, <2>1, <2>2, Remainder
  <2> QED
    BY <1>1, <1>2, <1>3, <1>4, <1>5, <2>1, <2>3 DEF Raw
<1>7. CASE ~ ((a % PtsModulus) + k < PtsModulus)
  <2>1. (a % PtsModulus) + k - PtsModulus \in 0 .. PtsModulus - 1
    BY <1>1, <1>4, <1>5, <1>7
  <2>2. b = PtsModulus * ((a \div PtsModulus) + 1) + ((a % PtsModulus) + k - PtsModulus)
    BY <1>1, <1>2, <1>3, <1>4, <1>5
  <2>3. PICK q \in Int, r \in 0 .. PtsModulus - 1 :
          q = (a \div PtsModulus) + 1 /\ r = (a % PtsModulus) + k - PtsModulus
    BY <1>4, <2>1
  <2>4. b % PtsModulus = r
    BY <1>1, <2>2, <2>3, Remainder
  <2> QED
    BY <1>1, <1>2, <1>3, <1>4, <1>5, <2>1, <2>3, <2>4 DEF Raw
<1> QED
  BY <1>6, <1>7

-----------------------------------------------------------------------------
LEMMA ShownIsSeq ==
  ASSUME announce \in BOOLEAN, NEW events \in Seq(ElementaryPacket)
  PROVE  Shown(events) \in Seq(ElementaryPacket) /\ Len(Shown(events)) = Len(events)
<1>1. \A i \in 1 .. Len(events) :
        [events[i] EXCEPT !.discontinuity = @ \/ Announcing(events, i - 1)] \in ElementaryPacket
  <2> SUFFICES ASSUME NEW b, NEW e \in ElementaryPacket
               PROVE  [e EXCEPT !.discontinuity = @ \/ b] \in ElementaryPacket
    BY ElementOfSeq
  <2>1. (e.discontinuity \/ b) \in BOOLEAN
    OBVIOUS
  <2> QED
    BY <2>1 DEF ElementaryPacket
<1>2. Len(events) \in Nat /\ DOMAIN events = 1 .. Len(events)
  BY LenProperties
<1>3. Shown(events) \in [1 .. Len(events) -> ElementaryPacket]
  BY <1>1, <1>2 DEF Shown
<1> QED
  BY <1>2, <1>3, SeqDef, LenProperties

LEMMA OutAppends ==
  ASSUME announce \in BOOLEAN, routed \in Seq(ElementaryPacket),
         NEW events \in Seq(ElementaryPacket), NEW e \in ElementaryPacket
  PROVE  /\ [e EXCEPT !.discontinuity = @ \/ Announcing(events, Len(events))] \in ElementaryPacket
         /\ routed \o Shown(events) \in Seq(ElementaryPacket)
         /\ routed \o Shown(Append(events, e))
              = Append(routed \o Shown(events),
                       [e EXCEPT !.discontinuity = @ \/ Announcing(events, Len(events))])
<1>1. PICK x : x = [e EXCEPT !.discontinuity = @ \/ Announcing(events, Len(events))]
  OBVIOUS
<1>2. x \in ElementaryPacket
  <2>1. (e.discontinuity \/ Announcing(events, Len(events))) \in BOOLEAN
    OBVIOUS
  <2> QED
    BY <1>1, <2>1 DEF ElementaryPacket
<1>3. /\ Append(events, e) \in Seq(ElementaryPacket)
      /\ Len(Append(events, e)) = Len(events) + 1
      /\ \A i \in 1 .. Len(events) : Append(events, e)[i] = events[i]
      /\ Append(events, e)[Len(events) + 1] = e
  BY AppendProperties
<1>4. Len(events) \in Nat /\ (events = <<>> <=> Len(events) = 0)
  BY LenProperties, EmptySeq
<1>5. PICK s, t : s = Shown(events) /\ t = Shown(Append(events, e))
  OBVIOUS
<1>6. /\ s \in Seq(ElementaryPacket) /\ Len(s) = Len(events)
      /\ t \in Seq(ElementaryPacket) /\ Len(t) = Len(events) + 1
  BY <1>3, <1>5, ShownIsSeq
<1>7. /\ DOMAIN events = 1 .. Len(events)
      /\ DOMAIN Append(events, e) = 1 .. Len(events) + 1
  BY <1>3, <1>4, LenProperties
<1>8. ASSUME NEW i \in 0 .. Len(events)
      PROVE  Announcing(Append(events, e), i) = Announcing(events, i)
  BY <1>3, <1>4 DEF Announcing
<1>9. \A i \in 1 .. Len(events) : t[i] = s[i]
  <2> SUFFICES ASSUME NEW i \in 1 .. Len(events) PROVE t[i] = s[i]
    OBVIOUS
  <2>1. Announcing(Append(events, e), i - 1) = Announcing(events, i - 1)
    BY <1>4, <1>8
  <2> QED
    BY <1>3, <1>4, <1>5, <1>7, <2>1 DEF Shown
<1>10. t[Len(events) + 1] = x
  <2>1. t[Len(events) + 1]
          = [e EXCEPT !.discontinuity = @ \/ Announcing(Append(events, e), Len(events) + 1 - 1)]
    BY <1>3, <1>4, <1>5, <1>7 DEF Shown
  <2>2. Announcing(Append(events, e), Len(events) + 1 - 1) = Announcing(events, Len(events))
    BY <1>4, <1>8
  <2> QED
    BY <1>1, <2>1, <2>2
<1>11. /\ Append(s, x) \in Seq(ElementaryPacket)
       /\ Len(Append(s, x)) = Len(s) + 1
       /\ \A i \in 1 .. Len(s) : Append(s, x)[i] = s[i]
       /\ Append(s, x)[Len(s) + 1] = x
  BY <1>2, <1>6, AppendProperties
<1>12. t = Append(s, x)
  <2>1. \A i \in 1 .. Len(t) : t[i] = Append(s, x)[i]
    BY <1>4, <1>6, <1>9, <1>10, <1>11
  <2> QED
    BY <1>6, <1>11, <2>1, SeqEqual
<1>13. routed \o s \in Seq(ElementaryPacket)
  BY <1>6, ConcatProperties
<1>14. routed \o Append(s, x) = Append(routed \o s, x)
  <2>1. <<x>> \in Seq(ElementaryPacket)
    BY <1>2
  <2>2. Append(s, x) = s \o <<x>>
    BY <1>2, <1>6, AppendIsConcat
  <2>3. Append(routed \o s, x) = (routed \o s) \o <<x>>
    BY <1>2, <1>13, AppendIsConcat
  <2> QED
    BY <1>6, <2>1, <2>2, <2>3, ConcatAssociative
<1> QED
  BY <1>1, <1>2, <1>5, <1>12, <1>13, <1>14

\* One more packet keeps what has been told.
LEMMA ToldAppends ==
  ASSUME NEW out \in Seq(ElementaryPacket), NEW x \in ElementaryPacket,
         NEW unseen, Told(out, unseen),
         out # <<>> /\ ~x.discontinuity =>
           /\ x.pts - LastOf(out).pts = x.unit - LastOf(out).unit
           /\ LastOf(out).unit + 1 .. x.unit - 1 \subseteq unseen
  PROVE  /\ Append(out, x) \in Seq(ElementaryPacket)
         /\ Append(out, x) # <<>>
         /\ LastOf(Append(out, x)) = x
         /\ Told(Append(out, x), unseen)
         /\ AllWhole(out) => WholeButLast(Append(out, x))
         /\ AllWhole(out) /\ (x.whole \/ x.discontinuity) => AllWhole(Append(out, x))
<1>1. /\ Append(out, x) \in Seq(ElementaryPacket) /\ Append(out, x) # <<>>
      /\ Len(Append(out, x)) = Len(out) + 1
      /\ \A i \in 1 .. Len(out) : Append(out, x)[i] = out[i]
      /\ Append(out, x)[Len(out) + 1] = x
  BY AppendProperties
<1>2. Len(out) \in Nat /\ (out = <<>> <=> Len(out) = 0)
  BY LenProperties, EmptySeq
<1>3. PICK o : o = Append(out, x)
  OBVIOUS
<1>4. Told(o, unseen)
  <2> SUFFICES ASSUME NEW i \in 2 .. Len(o), ~o[i].discontinuity
               PROVE  /\ o[i].pts - o[i - 1].pts = o[i].unit - o[i - 1].unit
                      /\ o[i - 1].unit + 1 .. o[i].unit - 1 \subseteq unseen
    BY DEF Told
  <2>1. CASE i = Len(out) + 1
    <3>1. o[i] = x /\ o[i - 1] = LastOf(out) /\ out # <<>>
      BY <1>1, <1>2, <1>3, <2>1 DEF LastOf
    <3> QED
      BY <3>1
  <2>2. CASE i # Len(out) + 1
    <3>1. i \in 2 .. Len(out) /\ o[i] = out[i] /\ o[i - 1] = out[i - 1]
      BY <1>1, <1>2, <1>3, <2>2
    <3> QED
      BY <3>1 DEF Told
  <2> QED
    BY <2>1, <2>2
<1>5. AllWhole(out) /\ (x.whole \/ x.discontinuity) => AllWhole(o)
  BY <1>1, <1>2, <1>3 DEF AllWhole
<1>6. AllWhole(out) => WholeButLast(o)
  BY <1>1, <1>2, <1>3 DEF AllWhole, WholeButLast
<1> QED
  BY <1>1, <1>3, <1>4, <1>5, <1>6 DEF LastOf

-----------------------------------------------------------------------------
\* The timestamp of a unit that follows without a flag has advanced as the units have.
LEMMA UnwrapFollows ==
  ASSUME NEW d \in Record, NEW u \in Nat \ {0}, NEW v \in Unit, d.previous = Raw(u),
         1 <= v - u, v - u <= CounterModulus
  PROVE  Unwrapped(d, Raw(v)) + Raw(v) = d.epoch + d.previous + (v - u)
<1>1. /\ PtsModulus \in Nat /\ CounterModulus \in Nat /\ PtsModulus \div 2 \in Nat
      /\ 2 * (PtsModulus \div 2) <= PtsModulus /\ CounterModulus < PtsModulus \div 2
  BY DemuxerAssumption
<1>2. v \in Nat /\ d.epoch \in Nat
  BY DemuxerAssumption DEF Record, Unit
<1>3. PICK r \in 0 .. PtsModulus - 1, s \in 0 .. PtsModulus - 1 :
        r = Raw(u) /\ s = Raw(v) /\ (s = r + (v - u) \/ s = r + (v - u) - PtsModulus)
  BY <1>2, RawAdvances
<1>4. d.previous = r /\ d.previous # None
  BY <1>3 DEF None
<1>5. CASE s = r + (v - u)
  BY <1>1, <1>2, <1>3, <1>5, <1>4 DEF Unwrapped
<1>6. CASE s = r + (v - u) - PtsModulus
  BY <1>1, <1>2, <1>3, <1>6, <1>4 DEF Unwrapped
<1> QED
  BY <1>3, <1>5, <1>6

LEMMA RawInRange ==
  ASSUME NEW u \in Unit
  PROVE  Raw(u) \in 0 .. PtsModulus - 1
  BY DemuxerAssumption DEF Raw, Unit

LEMMA EmitKeeps ==
  ASSUME announce \in BOOLEAN, routed \in Seq(ElementaryPacket),
         NEW d \in Record, NEW pes, pes[1] # Junk, pes[1].unit \in Unit,
         Clock(d, Out(d), Ann(d)), Linked(d, pes[1].unit, Out(d), blind), Told(Out(d), blind),
         NEW e, e = EmitPes(d, pes)
  PROVE  /\ e \in Record
         /\ e.continuity = d.continuity /\ e.pes = d.pes /\ e.mapped = d.mapped
         /\ ~e.pending /\ e.previous # None
         /\ Out(e) \in Seq(ElementaryPacket)
         /\ LastOf(Out(e)).unit = pes[1].unit
         /\ Clock(e, Out(e), Ann(e)) /\ Told(Out(e), blind)
         /\ AllWhole(Out(d)) => WholeButLast(Out(e))
         /\ AllWhole(Out(d)) /\ (d.pending \/ Whole(pes)) => AllWhole(Out(e))
<1>1. PICK v \in Unit : v = pes[1].unit
  OBVIOUS
<1>2. PICK raw \in 0 .. PtsModulus - 1 : raw = Raw(v)
  BY RawInRange
<1>3. PICK epoch \in Nat : epoch = Unwrapped(d, raw)
  BY DemuxerAssumption DEF Unwrapped, Record
<1>4. PICK w \in BOOLEAN : w = Whole(pes)
  BY DEF Whole
<1>5. PICK x : x = [unit |-> v, whole |-> w, pts |-> epoch + raw, discontinuity |-> d.pending]
  OBVIOUS
<1>6. x \in ElementaryPacket
  BY <1>5, DemuxerAssumption DEF ElementaryPacket, Record
<1>7. e = [d EXCEPT !.pending = FALSE, !.previous = raw, !.epoch = epoch, !.events = Append(@, x)]
  BY <1>1, <1>2, <1>3, <1>4, <1>5 DEF EmitPes
<1>8. /\ e.continuity = d.continuity /\ e.pes = d.pes /\ e.mapped = d.mapped
      /\ ~e.pending /\ e.previous = raw /\ e.epoch = epoch
      /\ e.events = Append(d.events, x)
  BY <1>7 DEF Record
<1>9. e \in Record
  <2>1. Append(d.events, x) \in Seq(ElementaryPacket)
    BY <1>6, AppendProperties DEF Record
  <2> QED
    BY <1>7, <2>1 DEF Record
<1>10. PICK y \in ElementaryPacket : y = [x EXCEPT !.discontinuity = @ \/ Ann(d)]
  BY <1>6, OutAppends DEF Ann, Record
<1>11. Out(e) = Append(Out(d), y) /\ Out(d) \in Seq(ElementaryPacket)
  BY <1>6, <1>8, <1>10, OutAppends DEF Out, Ann, Record
<1>12. /\ y.unit = v /\ y.whole = w /\ y.pts = epoch + raw
       /\ y.discontinuity <=> d.pending \/ Ann(d)
  BY <1>5, <1>10
<1>13. Out(d) # <<>> /\ ~y.discontinuity =>
         /\ y.pts - LastOf(Out(d)).pts = y.unit - LastOf(Out(d)).unit
         /\ LastOf(Out(d)).unit + 1 .. y.unit - 1 \subseteq blind
  <2> SUFFICES ASSUME Out(d) # <<>>, ~y.discontinuity
               PROVE  /\ y.pts - LastOf(Out(d)).pts = y.unit - LastOf(Out(d)).unit
                      /\ LastOf(Out(d)).unit + 1 .. y.unit - 1 \subseteq blind
    OBVIOUS
  <2>1. ~d.pending /\ ~Ann(d)
    BY <1>12
  <2>2. d.previous # None
    BY <2>1 DEF Clock
  <2>3. PICK l \in ElementaryPacket : l = LastOf(Out(d))
    <3>1. Len(Out(d)) \in 1 .. Len(Out(d))
      BY <1>11, LenProperties, EmptySeq
    <3> QED
      BY <1>11, <3>1, ElementOfSeq DEF LastOf
  <2>4. d.previous = Raw(l.unit) /\ d.epoch + d.previous = l.pts
    BY <2>2, <2>3 DEF Clock
  <2>5. MayFollow(v, l.unit, blind)
    BY <1>1, <2>1, <2>2, <2>3 DEF Linked
  <2>6. l.unit \in Nat \ {0} /\ l.pts \in Nat
    BY DEF ElementaryPacket, Unit
  <2>7. epoch + raw = l.pts + (v - l.unit)
    BY <1>2, <1>3, <2>4, <2>5, <2>6, UnwrapFollows DEF MayFollow
  <2> QED
    BY <1>12, <2>3, <2>5, <2>6, <2>7, DemuxerAssumption DEF MayFollow, Unit
<1>14. /\ LastOf(Out(e)) = y /\ Out(e) \in Seq(ElementaryPacket) /\ Out(e) # <<>>
       /\ Told(Out(e), blind)
       /\ AllWhole(Out(d)) => WholeButLast(Out(e))
       /\ AllWhole(Out(d)) /\ (y.whole \/ y.discontinuity) => AllWhole(Out(e))
  BY <1>11, <1>13, ToldAppends
<1>15. Clock(e, Out(e), Ann(e))
  BY <1>2, <1>8, <1>12, <1>14, DemuxerAssumption DEF Clock, None
<1>16. e.previous # None
  BY <1>8, DemuxerAssumption DEF None
<1>17. AllWhole(Out(d)) /\ (d.pending \/ Whole(pes)) => AllWhole(Out(e))
  BY <1>4, <1>12, <1>14
<1> QED
  BY <1>1, <1>8, <1>9, <1>12, <1>14, <1>15, <1>16, <1>17

-----------------------------------------------------------------------------
(* The steps of a packet.                                                   *)
LEMMA Packets ==
  ASSUME NEW p \in TsPacket
  PROVE  /\ p # Junk
         /\ p.unit \in Nat \ {0} /\ p.part \in Nat \ {0} /\ p.parts \in Nat /\ p.part <= p.parts
  BY DemuxerAssumption DEF TsPacket, Junk

LEMMA Singleton ==
  ASSUME NEW p \in TsPacket, p.part = 1
  PROVE  /\ <<p>> \in Seq(TsPacket \cup {Junk}) /\ <<p>>[1] = p /\ <<p>> # <<>>
         /\ Prefix(<<p>>) /\ LastOf(<<p>>) = p
<1>1. p = [p EXCEPT !.part = 1]
  BY DEF TsPacket
<1>2. DOMAIN <<p>> = {1} /\ <<p>>[1] = p /\ Len(<<p>>) = 1
  OBVIOUS
<1> QED
  BY <1>1, <1>2 DEF Prefix, LastOf

LEMMA PrefixParts ==
  ASSUME NEW pes \in Seq(TsPacket \cup {Junk}), pes # <<>>, pes[1] # Junk, Prefix(pes)
  PROVE  /\ pes[1] \in TsPacket /\ LastOf(pes) \in TsPacket
         /\ Len(pes) \in Nat \ {0} /\ DOMAIN pes = 1 .. Len(pes)
         /\ LastOf(pes) = [pes[1] EXCEPT !.part = Len(pes)]
         /\ LastOf(pes).part = Len(pes) /\ LastOf(pes).parts = pes[1].parts
         /\ Len(pes) <= pes[1].parts
         /\ \A i \in 1 .. Len(pes) : pes[i].part = i /\ pes[i].parts = pes[1].parts
         /\ Len(pes) = pes[1].parts => Whole(pes)
<1>1. DOMAIN pes = 1 .. Len(pes) /\ Len(pes) \in Nat \ {0}
  BY LenProperties, EmptySeq
<1>2. PICK q \in TsPacket : q = pes[1]
  BY <1>1, ElementOfSeq
<1>3. \A i \in 1 .. Len(pes) : pes[i] = [q EXCEPT !.part = i]
  BY <1>1, <1>2 DEF Prefix
<1>4. \A i \in 1 .. Len(pes) : pes[i].part = i /\ pes[i].unit = q.unit /\ pes[i].parts = q.parts
  BY <1>3 DEF TsPacket
<1>5. LastOf(pes) \in TsPacket
  <2>1. LastOf(pes) \in TsPacket \cup {Junk}
    BY <1>1, ElementOfSeq DEF LastOf
  <2> QED
    BY <1>1, <1>4, <2>1 DEF LastOf, Junk
<1>6. LastOf(pes).part = Len(pes) /\ LastOf(pes).parts = q.parts
  BY <1>1, <1>4 DEF LastOf
<1>7. LastOf(pes) = [q EXCEPT !.part = Len(pes)]
  BY <1>1, <1>3 DEF LastOf
<1>8. Len(pes) <= q.parts
  BY <1>5, <1>6, Packets
<1>9. Len(pes) = q.parts => Whole(pes)
  BY <1>1, <1>2, <1>4 DEF Whole
<1> QED
  BY <1>1, <1>2, <1>4, <1>5, <1>6, <1>7, <1>8, <1>9

\* A declared length is reached by a whole unit only, if there is no hole.
LEMMA SizeOfPrefix ==
  ASSUME NEW pes \in Seq(TsPacket \cup {Junk}), pes # <<>>, pes[1] # Junk, Prefix(pes),
         Size(pes) >= Expected(pes)
  PROVE  Whole(pes)
<1>1. PICK n \in Nat, m \in Nat : n = Len(pes) /\ m = pes[1].parts
  BY PrefixParts, Packets
<1>2. n <= m /\ (n = m => Whole(pes)) /\ DOMAIN pes = 1 .. n
      /\ \A i \in 1 .. n : pes[i].part = i /\ pes[i].parts = m
  BY <1>1, PrefixParts
<1>3. n < m => {i \in DOMAIN pes : pes[i].part = pes[i].parts} = {}
  BY <1>2
<1>4. n < m => Size(pes) = 2 * n
  <2>1. n < m => Cardinality({i \in DOMAIN pes : pes[i].part = pes[i].parts}) = 0
    BY <1>3, FS_EmptySet, Zenon
  <2>2. PICK k : k = Cardinality({i \in DOMAIN pes : pes[i].part = pes[i].parts})
    OBVIOUS
  <2>3. Size(pes) = 2 * n - k
    BY <1>1, <2>2, Zenon DEF Size
  <2> QED
    BY <2>1, <2>2, <2>3
<1>5. Expected(pes) = 2 * m - 1
  BY <1>1 DEF Expected
<1> QED
  BY <1>2, <1>4, <1>5

LEMMA NothingShown ==
  ASSUME routed \in Seq(ElementaryPacket)
  PROVE  \A d : d.events = <<>> => Out(d) = routed /\ (Ann(d) <=> announce)
<1>1. Shown(<<>>) = <<>>
  BY DEF Shown
<1>2. Announcing(<<>>, Len(<<>>)) <=> announce
  BY DEF Announcing
<1> QED
  BY <1>1, <1>2, ConcatEmptySeq DEF Out, Ann

LEMMA BreakProcessed ==
  ASSUME NEW d \in Record, NEW p, NEW e, e = Discontinue(d),
         Out(d) \in Seq(ElementaryPacket), AllWhole(Out(d)), Told(Out(d), blind)
  PROVE  Processed(e, p) /\ e.pes = <<>> /\ e.pending /\ e.mapped = d.mapped /\ e.events = d.events
<1>1. e = [d EXCEPT !.continuity = None, !.pes = <<>>, !.previous = None, !.epoch = 0,
                    !.pending = TRUE]
  BY DEF Discontinue, ResetPid, Record
<1>2. /\ e.continuity = None /\ e.pes = <<>> /\ e.previous = None /\ e.pending
      /\ e.mapped = d.mapped /\ e.events = d.events
  BY <1>1 DEF Record
<1>3. e \in Record
  <2>1. <<>> \in Seq(TsPacket \cup {Junk})
    BY EmptySeq
  <2>2. /\ None \in Counter \cup {None} /\ None \in (0 .. PtsModulus - 1) \cup {None}
        /\ 0 \in Nat /\ TRUE \in BOOLEAN
    OBVIOUS
  <2> QED
    BY <1>1, <2>1, <2>2, Zenon DEF Record
<1>4. Out(e) = Out(d)
  BY <1>2 DEF Out
<1> QED
  BY <1>2, <1>3, <1>4
  DEF Processed, DemuxerTypes, Clock, Linked, Assembly, Assembling, Anchored

LEMMA AnchorTyped ==
  ASSUME NEW d, NEW out \in Seq(ElementaryPacket), NEW announced,
         DemuxerTypes(d), Clock(d, out, announced), Anchored(d)
  PROVE  Anchor(d, out) \in Nat
<1>1. CASE Assembling(d)
  BY <1>1 DEF DemuxerTypes, Anchor, Unit
<1>2. CASE ~Assembling(d)
  <2>1. out # <<>>
    BY <1>2 DEF Anchored, Clock
  <2>2. Len(out) \in 1 .. Len(out)
    BY <2>1, LenProperties, EmptySeq
  <2>3. LastOf(out) \in ElementaryPacket
    BY <2>2, ElementOfSeq DEF LastOf
  <2> QED
    BY <1>2, <2>3 DEF Anchor, ElementaryPacket, Unit
<1> QED
  BY <1>1, <1>2

\* A unit that starts right after a break bears its mark.
LEMMA StartAfterBreak ==
  ASSUME NEW d, NEW p \in TsPacket, Processed(d, p), d.pes = <<>>, d.pending, d.mapped,
         p.unit \in Unit, p.part = 1, d.continuity = None
  PROVE  Processed(StartPes(d, p), p)
<1>1. PICK e : e = [d EXCEPT !.pes = <<p>>]
  OBVIOUS
<1>2. StartPes(d, p) = e
  BY <1>1 DEF StartPes
<1>3. /\ e.continuity = None /\ e.pes = <<p>> /\ e.pending /\ e.mapped
      /\ e.previous = d.previous /\ e.epoch = d.epoch /\ e.events = d.events
  BY <1>1 DEF Processed, DemuxerTypes, Record
<1>4. e \in Record
  <2>1. d \in Record
    BY DEF Processed, DemuxerTypes
  <2> QED
    BY <1>1, <2>1, Singleton DEF Record
<1>5. Assembling(e) /\ e.pes[1] = p
  BY <1>3, Packets DEF Assembling
<1>6. Out(e) = Out(d) /\ (Ann(e) <=> Ann(d))
  BY <1>3 DEF Out, Ann
<1>7. Anchor(e, Out(e)) = p.unit
  BY <1>5 DEF Anchor
<1>8. DemuxerTypes(e)
  BY <1>3, <1>4, <1>5 DEF DemuxerTypes
<1>9. Clock(e, Out(e), Ann(e))
  BY <1>3, <1>6 DEF Clock, Processed
<1>10. p.unit + 1 .. p.unit = {} /\ p.unit - p.unit = 0 /\ p.unit <= p.unit
  BY Packets
<1> QED
  BY <1>2, <1>3, <1>5, <1>6, <1>7, <1>8, <1>9, <1>10 DEF Processed, Linked, Assembly

LEMMA StartAccepted ==
  ASSUME TypeOK, NEW d, NEW p \in TsPacket, Accepted(d, p), d.mapped,
         p.unit \in Unit, p.part = 1
  PROVE  Processed(StartPes(d, p), p)
<1>1. PICK f : f = [d EXCEPT !.pes = <<p>>]
  OBVIOUS
<1>2. /\ f.continuity = counter /\ f.pes = <<p>> /\ f.pending = d.pending /\ f.mapped
      /\ f.previous = d.previous /\ f.epoch = d.epoch /\ f.events = <<>>
  BY <1>1 DEF Accepted, DemuxerTypes, Record
<1>3. d \in Record /\ f \in Record
  BY <1>1, Singleton DEF Accepted, DemuxerTypes, Record
<1>4. Assembling(f) /\ f.pes[1] = p
  BY <1>2, Packets DEF Assembling
<1>5. DemuxerTypes(f)
  BY <1>2, <1>3, <1>4 DEF DemuxerTypes
<1>6. Out(d) = routed /\ (Ann(d) <=> announce) /\ Out(f) = routed /\ (Ann(f) <=> announce)
  BY <1>2, NothingShown DEF Accepted, TypeOK
<1>7. Clock(f, routed, announce)
  BY <1>2 DEF Accepted, Clock
<1>8. counter # None
  BY DEF TypeOK, Counter, None
\* It is enough that p may follow what has been given out.
<1>9. ASSUME NEW e, DemuxerTypes(e), e.continuity = counter, e.pes = <<p>>,
             Clock(e, Out(e), Ann(e)), Linked(e, p.unit, Out(e), blind),
             Out(e) \in Seq(ElementaryPacket), AllWhole(Out(e)), Told(Out(e), blind)
      PROVE  Processed(e, p)
  <2>1. Assembling(e) /\ e.pes[1] = p /\ Prefix(e.pes) /\ LastOf(e.pes) = p
    BY <1>9, Packets, Singleton DEF Assembling
  <2>2. Anchor(e, Out(e)) = p.unit
    BY <2>1 DEF Anchor
  <2>3. p.unit <= p.unit /\ p.unit + 1 .. p.unit = {} /\ p.unit - p.unit <= CounterModulus - 1
    BY Packets, DemuxerAssumption
  <2> QED
    BY <1>8, <1>9, <2>1, <2>2, <2>3 DEF Processed, Assembly
\* The units of an anchor that is near may be followed by p.
<1>10. ASSUME NEW anchor \in Nat, Near(anchor, p, CounterModulus - 1, blind)
       PROVE  MayFollow(p.unit, anchor, blind)
  BY <1>10, Packets, DemuxerAssumption DEF Near, MayFollow
<1>11. CASE d.pes = <<>>
  <2>1. StartPes(d, p) = f
    BY <1>1, <1>11 DEF StartPes
  <2>2. Linked(f, p.unit, routed, blind)
    <3> SUFFICES ASSUME ~f.pending, f.previous # None
                 PROVE  MayFollow(p.unit, LastOf(routed).unit, blind)
      BY DEF Linked
    <3>1. Anchored(d) /\ Anchor(d, routed) = LastOf(routed).unit
      BY <1>2, <1>11 DEF Anchored, Anchor, Assembling
    <3>2. Anchor(d, routed) \in Nat
      BY <3>1, AnchorTyped DEF Accepted, TypeOK
    <3> QED
      BY <1>10, <3>1, <3>2 DEF Accepted
  <2>3. /\ Clock(f, Out(f), Ann(f)) /\ Linked(f, p.unit, Out(f), blind)
        /\ Out(f) \in Seq(ElementaryPacket) /\ AllWhole(Out(f)) /\ Told(Out(f), blind)
    BY <1>6, <1>7, <2>2 DEF Accepted, Clock, TypeOK
  <2> QED
    BY <1>2, <1>5, <1>9, <2>1, <2>3
<1>12. CASE d.pes # <<>> /\ d.pes[1] = Junk
  <2>1. StartPes(d, p) = Discontinue(f)
    BY <1>1, <1>12 DEF StartPes, EmitPes
  <2> QED
    BY <1>3, <1>6, <2>1, BreakProcessed DEF Accepted, TypeOK
<1>13. CASE Assembling(d)
  <2>1. PICK e : e = EmitPes(f, d.pes)
    OBVIOUS
  <2>2. StartPes(d, p) = e
    BY <1>1, <1>13, <2>1 DEF StartPes, Assembling
  <2>3. /\ d.pes[1] # Junk /\ d.pes[1].unit \in Unit
        /\ Linked(f, d.pes[1].unit, routed, blind)
    BY <1>2, <1>13 DEF Accepted, DemuxerTypes, Assembling, Linked
  <2>4. Told(routed, blind) /\ AllWhole(routed)
    BY DEF Accepted
  <2>5. /\ e \in Record
        /\ e.continuity = f.continuity /\ e.pes = f.pes /\ e.mapped = f.mapped
        /\ ~e.pending /\ e.previous # None
        /\ Out(e) \in Seq(ElementaryPacket)
        /\ LastOf(Out(e)).unit = d.pes[1].unit
        /\ Clock(e, Out(e), Ann(e)) /\ Told(Out(e), blind)
        /\ AllWhole(Out(f)) /\ (f.pending \/ Whole(d.pes)) => AllWhole(Out(e))
    <3>1. Clock(f, Out(f), Ann(f))
      BY <1>6, <1>7 DEF Clock
    <3>2. Linked(f, d.pes[1].unit, Out(f), blind) /\ Told(Out(f), blind)
      BY <1>6, <2>3, <2>4
    <3>3. announce \in BOOLEAN /\ routed \in Seq(ElementaryPacket)
      BY DEF TypeOK
    <3> QED
      BY <1>3, <2>1, <2>3, <3>1, <3>2, <3>3, EmitKeeps
  <2>6. ~d.pending => Whole(d.pes)
    <3> SUFFICES ASSUME ~d.pending
                 PROVE  Whole(d.pes)
      OBVIOUS
    <3>1. Prefix(d.pes) /\ Successor(LastOf(d.pes), p)
      BY <1>13 DEF Accepted, Assembly
    <3>2. d.pes \in Seq(TsPacket \cup {Junk}) /\ d.pes # <<>> /\ d.pes[1] # Junk
      BY <1>3, <1>13 DEF Assembling, Record
    <3>3. PICK last \in TsPacket : last = LastOf(d.pes)
      BY <3>1, <3>2, PrefixParts
    <3>4. last.part = last.parts
      <4> SUFFICES ASSUME last.part < last.parts
                   PROVE  FALSE
        BY Packets
      <4>1. p = [last EXCEPT !.part = @ + 1]
        BY <3>1, <3>3 DEF Successor
      <4>2. p.part = last.part + 1
        BY <4>1 DEF TsPacket
      <4> QED
        BY <4>2, Packets
    <3> QED
      BY <3>1, <3>2, <3>3, <3>4, PrefixParts
  <2>7. AllWhole(Out(e))
    BY <1>2, <1>6, <2>4, <2>5, <2>6
  <2>8. Assembling(e) /\ e.pes[1] = p
    BY <1>2, <1>4, <2>5 DEF Assembling
  <2>9. Linked(e, p.unit, Out(e), blind)
    <3>1. Anchored(d) /\ Anchor(d, routed) = d.pes[1].unit
      BY <1>13 DEF Anchored, Anchor
    <3>2. MayFollow(p.unit, d.pes[1].unit, blind)
      BY <1>10, <2>3, <3>1 DEF Accepted, Unit
    <3> QED
      BY <2>5, <3>2 DEF Linked
  <2>10. DemuxerTypes(e)
    BY <1>2, <2>5, <2>8 DEF DemuxerTypes
  <2> QED
    BY <1>2, <1>9, <2>2, <2>5, <2>7, <2>9, <2>10
<1> QED
  BY <1>11, <1>12, <1>13 DEF Assembling

LEMMA PushAccepted ==
  ASSUME TypeOK, NEW d, NEW p \in TsPacket, Accepted(d, p), d.mapped, p.part # 1
  PROVE  Processed(PushPes(d, p), p)
<1>1. d \in Record /\ DemuxerTypes(d) /\ d.events = <<>> /\ d.continuity = counter
  BY DEF Accepted, DemuxerTypes
<1>2. /\ Out(d) = routed /\ (Ann(d) <=> announce) /\ routed \in Seq(ElementaryPacket)
      /\ Told(routed, blind) /\ AllWhole(routed)
  BY <1>1, NothingShown DEF Accepted, TypeOK
<1>3. counter # None
  BY DEF TypeOK, Counter, None
\* What was near the anchor still is.
<1>4. ASSUME NEW anchor \in Nat, Near(anchor, p, CounterModulus - 1, blind)
      PROVE  /\ anchor <= p.unit /\ anchor + 1 .. p.unit \subseteq blind
             /\ p.unit - anchor <= CounterModulus - 1
  BY <1>4, Packets, DemuxerAssumption DEF Near
<1>5. Anchored(d) => Anchor(d, routed) \in Nat
  BY <1>1, <1>2, AnchorTyped DEF Accepted
<1>6. Anchored(d) =>
        /\ Anchor(d, routed) <= p.unit /\ Anchor(d, routed) + 1 .. p.unit \subseteq blind
        /\ p.unit - Anchor(d, routed) <= CounterModulus - 1
  BY <1>4, <1>5 DEF Accepted
<1>7. CASE d.pes = <<>>
  <2>1. PushPes(d, p) = d /\ ~Assembling(d)
    BY <1>7 DEF PushPes, Assembling
  <2> QED
    BY <1>1, <1>2, <1>3, <1>6, <2>1 DEF Processed, Accepted, Clock, Assembly
<1>8. CASE d.pes # <<>> /\ Len(d.pes) + 1 > PesLimit
  <2>1. PushPes(d, p) = Discontinue(d)
    BY <1>8 DEF PushPes
  <2> QED
    BY <1>1, <1>2, <2>1, BreakProcessed
<1>9. CASE d.pes # <<>> /\ ~(Len(d.pes) + 1 > PesLimit)
  <2>1. PICK e : e = PushPes(d, p)
    OBVIOUS
  <2>2. e = [d EXCEPT !.pes = Append(d.pes, p)]
    BY <1>9, <2>1 DEF PushPes
  <2>3. /\ e.continuity = counter /\ e.pes = Append(d.pes, p) /\ e.pending = d.pending
        /\ e.mapped /\ e.previous = d.previous /\ e.epoch = d.epoch /\ e.events = <<>>
    BY <1>1, <2>2 DEF Record
  <2>4. d.pes \in Seq(TsPacket \cup {Junk}) /\ Len(d.pes) \in Nat \ {0}
    BY <1>1, <1>9, EmptySeq DEF Record
  <2>5. /\ e.pes \in Seq(TsPacket \cup {Junk}) /\ e.pes # <<>> /\ Len(e.pes) = Len(d.pes) + 1
        /\ \A i \in 1 .. Len(d.pes) : e.pes[i] = d.pes[i]
        /\ e.pes[Len(d.pes) + 1] = p
    BY <2>3, <2>4, AppendProperties
  <2>6. e \in Record
    BY <1>1, <2>2, <2>3, <2>5 DEF Record
  <2>7. e.pes[1] = d.pes[1] /\ (Assembling(e) <=> Assembling(d))
    BY <1>9, <2>4, <2>5 DEF Assembling
  <2>8. LastOf(e.pes) = p
    BY <2>5 DEF LastOf
  <2>9. Out(e) = routed /\ (Ann(e) <=> announce)
    BY <1>2, <2>3, NothingShown
  <2>10. Assembling(d) /\ ~d.pending => Prefix(e.pes)
    <3> SUFFICES ASSUME Assembling(d), ~d.pending
                 PROVE  Prefix(e.pes)
      OBVIOUS
    <3>1. Prefix(d.pes) /\ Successor(LastOf(d.pes), p) /\ d.pes # <<>> /\ d.pes[1] # Junk
      BY DEF Accepted, Assembly, Assembling
    <3>2. PICK q \in TsPacket, n \in Nat \ {0} : q = d.pes[1] /\ n = Len(d.pes)
      BY <2>4, <3>1, PrefixParts
    <3>3. /\ LastOf(d.pes) = [q EXCEPT !.part = n] /\ DOMAIN d.pes = 1 .. n
          /\ LastOf(d.pes) \in TsPacket /\ LastOf(d.pes).part = n
      BY <2>4, <3>1, <3>2, PrefixParts
    <3>4. p = [LastOf(d.pes) EXCEPT !.part = n + 1]
      BY <3>1, <3>3 DEF Successor
    <3>5. p = [q EXCEPT !.part = n + 1]
      BY <3>3, <3>4 DEF TsPacket
    <3>6. \A i \in 1 .. n : d.pes[i] = [q EXCEPT !.part = i]
      BY <3>1, <3>2, <3>3 DEF Prefix
    <3>7. DOMAIN e.pes = 1 .. n + 1
      BY <2>5, <3>2, LenProperties
    <3> QED
      BY <2>5, <2>7, <3>2, <3>5, <3>6, <3>7 DEF Prefix
  <2>11. DemuxerTypes(e)
    BY <1>1, <2>3, <2>6, <2>7 DEF DemuxerTypes
  <2>12. Assembling(e) => Linked(e, e.pes[1].unit, routed, blind)
    BY <2>3, <2>7 DEF Accepted, Linked
  <2>13. Clock(e, routed, announce)
    BY <2>3 DEF Accepted, Clock
  <2>14. Anchored(e) => Anchored(d) /\ Anchor(e, routed) = Anchor(d, routed)
    BY <2>5, <2>7 DEF Anchored, Anchor
  <2>15. Clock(e, Out(e), Ann(e))
    BY <2>9, <2>13 DEF Clock
  <2> QED
    BY <1>2, <1>3, <1>6, <2>1, <2>3, <2>7, <2>8, <2>9, <2>10, <2>11, <2>12, <2>14, <2>15
    DEF Processed, Assembly
<1> QED
  BY <1>7, <1>8, <1>9

LEMMA TakeProcessed ==
  ASSUME TypeOK, NEW d, NEW p \in TsPacket, Processed(d, p), NEW junkEnds \in BOOLEAN
  PROVE  Processed(TakeComplete(d, junkEnds), p)
<1>1. d \in Record /\ DemuxerTypes(d) /\ announce \in BOOLEAN /\ routed \in Seq(ElementaryPacket)
  BY DEF Processed, DemuxerTypes, TypeOK
<1>2. CASE TakeComplete(d, junkEnds) = d
  BY <1>2
<1>3. CASE d.pes # <<>> /\ d.pes[1] = Junk /\ TakeComplete(d, junkEnds) = Discontinue(d)
  BY <1>1, <1>3, BreakProcessed DEF Processed
<1>4. CASE Assembling(d) /\ d.pes[1].declared /\ Size(d.pes) >= Expected(d.pes)
  <2>1. PICK rest \in {<<Junk>>, <<>>} :
          rest = IF Size(d.pes) > Expected(d.pes) THEN <<Junk>> ELSE <<>>
    OBVIOUS
  <2>2. PICK f : f = [d EXCEPT !.pes = rest]
    OBVIOUS
  <2>3. PICK e : e = EmitPes(f, d.pes)
    OBVIOUS
  <2>4. TakeComplete(d, junkEnds) = e
    BY <1>4, <2>1, <2>2, <2>3 DEF TakeComplete, Assembling
  <2>5. /\ f.continuity = d.continuity /\ f.pes = rest /\ f.pending = d.pending
        /\ f.mapped = d.mapped /\ f.previous = d.previous /\ f.epoch = d.epoch
        /\ f.events = d.events
    BY <1>1, <2>2 DEF Record
  <2>6. f \in Record
    <3>1. <<Junk>> \in Seq(TsPacket \cup {Junk}) /\ <<>> \in Seq(TsPacket \cup {Junk})
      OBVIOUS
    <3> QED
      BY <1>1, <2>2, <3>1 DEF Record
  <2>7. Out(f) = Out(d) /\ (Ann(f) <=> Ann(d))
    BY <2>5 DEF Out, Ann
  <2>8. d.pes # <<>> /\ d.pes[1] # Junk /\ d.pes[1].unit \in Unit
    BY <1>1, <1>4 DEF Assembling, DemuxerTypes
  <2>9. Clock(f, Out(f), Ann(f))
    BY <2>5, <2>7 DEF Processed, Clock
  <2>10. Linked(f, d.pes[1].unit, Out(f), blind)
    BY <1>4, <2>5, <2>7 DEF Processed, Linked
  <2>11. Told(Out(f), blind) /\ AllWhole(Out(f))
    BY <2>7 DEF Processed
  <2>12. /\ e \in Record
         /\ e.continuity = d.continuity /\ e.pes = rest /\ e.mapped = d.mapped
         /\ ~e.pending /\ e.previous # None
         /\ Out(e) \in Seq(ElementaryPacket)
         /\ LastOf(Out(e)).unit = d.pes[1].unit
         /\ Clock(e, Out(e), Ann(e)) /\ Told(Out(e), blind)
         /\ AllWhole(Out(f)) /\ (f.pending \/ Whole(d.pes)) => AllWhole(Out(e))
    <3>1. e.continuity = f.continuity /\ e.pes = f.pes /\ e.mapped = f.mapped
      BY <1>1, <2>3, <2>6, <2>8, <2>9, <2>10, <2>11, EmitKeeps
    <3> QED
      BY <1>1, <2>3, <2>5, <2>6, <2>8, <2>9, <2>10, <2>11, <3>1, EmitKeeps
  <2>13. ~d.pending => Whole(d.pes)
    BY <1>1, <1>4, <2>8, SizeOfPrefix DEF Processed, Assembly, Record
  <2>14. AllWhole(Out(e))
    BY <2>5, <2>11, <2>12, <2>13
  <2>15. ~Assembling(e) /\ e.mapped
    <3>1. <<Junk>>[1] = Junk
      OBVIOUS
    <3> QED
      BY <1>1, <2>8, <2>12, <3>1 DEF Assembling, DemuxerTypes
  <2>16. Anchor(e, Out(e)) = Anchor(d, Out(d)) /\ Anchored(d)
    BY <1>4, <2>12, <2>15 DEF Anchor, Anchored
  <2>17. DemuxerTypes(e)
    BY <2>12, <2>15 DEF DemuxerTypes
  <2>18. /\ Anchor(e, Out(e)) <= p.unit /\ Anchor(e, Out(e)) + 1 .. p.unit \subseteq blind
         /\ p.unit - Anchor(e, Out(e)) <= IF e.continuity = None THEN 0 ELSE CounterModulus - 1
    BY <2>12, <2>16 DEF Processed
  <2>19. e.continuity \in {None, counter}
    BY <2>12 DEF Processed
  <2> QED
    BY <2>4, <2>12, <2>14, <2>15, <2>17, <2>18, <2>19 DEF Processed, Assembly
<1> QED
  BY <1>2, <1>3, <1>4 DEF TakeComplete, EmitPes, Assembling

-----------------------------------------------------------------------------
LEMMA Advances ==
  ASSUME TypeOK, Advance
  PROVE  /\ packet' \in TsPacket /\ counter' \in Counter
         /\ counter' = counter + 1 \/ counter' = counter + 1 - CounterModulus
         /\ Successor(packet, packet')
         /\ \/ packet'.unit = packet.unit /\ packet'.part # 1
            \/ packet'.unit = packet.unit + 1 /\ packet'.part = 1
<1>1. /\ counter' \in Counter
      /\ counter' = counter + 1 \/ counter' = counter + 1 - CounterModulus
  <2>1. counter \in Counter /\ counter' = (counter + 1) % CounterModulus
    BY DEF Advance, TypeOK
  <2> QED
    BY <2>1, NextCounter, DemuxerAssumption DEF Counter
<1>2. packet \in TsPacket /\ packet' \in TsPacket
  BY DEF Advance, TypeOK
<1>3. CASE packet.part < packet.parts
  <2>1. packet' = [packet EXCEPT !.part = @ + 1]
    BY <1>3 DEF Advance
  <2>2. packet'.unit = packet.unit /\ packet'.part = packet.part + 1
    BY <1>2, <2>1 DEF TsPacket
  <2> QED
    BY <1>1, <1>2, <1>3, <2>1, <2>2, Packets DEF Successor
<1>4. CASE ~(packet.part < packet.parts)
  BY <1>1, <1>2, <1>4 DEF Advance, Successor
<1> QED
  BY <1>3, <1>4

\* The packets of a call are handed on, and the sender goes on.
LEMMA Settles ==
  ASSUME IInv, ~ended, NEW d, Processed(d, packet), Route(d), Advance, lost' = 0,
         UNCHANGED <<ended, blind>>
  PROVE  IInv'
<1>1. TypeOK /\ d \in Record /\ DemuxerTypes(d)
  BY DEF IInv, Processed, DemuxerTypes
<1>2. PICK o \in Seq(ElementaryPacket), a \in BOOLEAN :
        o = Out(d) /\ (a <=> Ann(d)) /\ routed' = o /\ announce' = a
  BY <1>1 DEF Processed, Route, Out, Shown, Ann, Announcing, TypeOK
<1>3. PICK f : f = [d EXCEPT !.events = <<>>]
  OBVIOUS
<1>4. /\ f.continuity = d.continuity /\ f.pes = d.pes /\ f.pending = d.pending
      /\ f.mapped = d.mapped /\ f.previous = d.previous /\ f.epoch = d.epoch /\ f.events = <<>>
  BY <1>1, <1>3 DEF Record
<1>5. demuxer' = f
  BY <1>3 DEF Route
<1>6. f \in Record
  BY <1>1, <1>3, EmptySeq DEF Record
<1>7. PICK q \in TsPacket : q = packet'
  BY <1>1, Advances
<1>8. PICK p \in TsPacket : p = packet
  BY <1>1 DEF TypeOK
<1>9. /\ Successor(p, q)
      /\ \/ q.unit = p.unit /\ q.part # 1
         \/ q.unit = p.unit + 1 /\ q.part = 1
  BY <1>1, <1>7, <1>8, Advances
<1>10. TypeOK'
  <2>1. f \in [continuity : Counter \cup {None}, pes : Seq(TsPacket \cup {Junk}),
               pending : BOOLEAN, mapped : BOOLEAN,
               previous : (0 .. PtsModulus - 1) \cup {None}, epoch : Nat, events : {<<>>}]
    BY <1>1, <1>3 DEF Record
  <2>2. 0 \in 0 .. CounterModulus - 1
    BY DemuxerAssumption
  <2>3. counter' \in Counter
    BY <1>1, Advances
  <2> QED
    BY <1>1, <1>2, <1>5, <1>7, <2>1, <2>2, <2>3 DEF TypeOK
<1>11. AllWhole(o) /\ Told(o, blind) /\ o \in Seq(ElementaryPacket)
  BY <1>2 DEF Processed
<1>12. Told(routed, blind)'
  BY <1>2, <1>11 DEF Told
<1>13. AllWhole(routed)'
  BY <1>2, <1>11 DEF AllWhole
<1>14. UnflaggedWhole'
  BY <1>2, <1>11, LenProperties DEF UnflaggedWhole, AllWhole
<1>15. Order'
  <2>1. counter \in Int /\ CounterModulus \in Int
    BY <1>1, DemuxerAssumption DEF TypeOK, Counter
  <2>2. counter' = counter + 1 \/ counter' = counter + 1 - CounterModulus
    BY <1>1, Advances
  <2> QED
    BY <1>4, <1>5, <2>1, <2>2 DEF Order, Processed
<1>16. DemuxerTypes(f)
  BY <1>1, <1>4, <1>6 DEF DemuxerTypes, Assembling
<1>17. DemuxerTypes(demuxer)'
  BY <1>5, <1>16
  DEF DemuxerTypes, Assembling, Record, TsPacket, ElementaryPacket, Junk, Counter, Unit, None
<1>18. Clock(f, o, a)
  BY <1>2, <1>4 DEF Processed, Clock
<1>19. Clock(demuxer, routed, announce)'
  BY <1>2, <1>5, <1>18 DEF Clock, LastOf, Raw, None
<1>20. Assembling(f) <=> Assembling(d)
  BY <1>4 DEF Assembling
<1>21. Assembling(f) => Linked(f, f.pes[1].unit, o, blind)
  BY <1>2, <1>4, <1>20 DEF Processed, Linked
<1>22. (Assembling(demuxer) => Linked(demuxer, demuxer.pes[1].unit, routed, blind))'
  BY <1>2, <1>5, <1>21 DEF Assembling, Linked, MayFollow, LastOf, Junk, None
<1>23. Assembly(f) /\ (Assembling(f) /\ ~f.pending => Successor(LastOf(f.pes), q))
  BY <1>4, <1>8, <1>9, <1>20 DEF Processed, Assembly
<1>24. InAssembly'
  BY <1>5, <1>7, <1>23 DEF InAssembly, Assembly, Assembling, Prefix, LastOf, Successor, Junk, None
<1>25. Anchored(f) =>
         Near(Anchor(f, o), q, IF f.continuity = None THEN 0 ELSE CounterModulus - 1, blind)
  <2> SUFFICES ASSUME Anchored(f)
               PROVE  Near(Anchor(f, o), q,
                           IF f.continuity = None THEN 0 ELSE CounterModulus - 1, blind)
    OBVIOUS
  <2>1. Anchored(d) /\ Anchor(f, o) = Anchor(d, o)
    BY <1>4, <1>20 DEF Anchored, Anchor
  <2>2. Anchor(d, o) \in Nat
    BY <1>1, <1>2, <2>1, AnchorTyped DEF Processed
  <2>3. PICK n \in Nat : n = Anchor(d, o)
    BY <2>2
  <2>4. PICK m \in Nat : m = IF f.continuity = None THEN 0 ELSE CounterModulus - 1
    BY DemuxerAssumption
  <2>5. n <= p.unit /\ n + 1 .. p.unit \subseteq blind /\ p.unit - n <= m
    BY <1>2, <1>4, <1>8, <2>1, <2>3, <2>4 DEF Processed
  <2>6. /\ p.unit \in Nat /\ q.unit \in Nat /\ q.part \in Nat
    BY Packets
  <2>7. Near(n, q, m, blind)
    BY <1>9, <2>5, <2>6, SMTT(20) DEF Near
  <2> QED
    BY <2>1, <2>3, <2>4, <2>7
<1>26. NearNext'
  <2>1. /\ Anchored(demuxer)' <=> Anchored(f)
        /\ Anchor(demuxer, routed)' = Anchor(f, o)
    BY <1>2, <1>5 DEF Anchored, Anchor, Assembling, LastOf, Junk, None
  <2>2. Missed' = IF f.continuity = None THEN 0 ELSE CounterModulus - 1
    BY <1>5 DEF Missed, None
  <2> QED
    BY <1>7, <1>25, <2>1, <2>2 DEF NearNext, Near
<1> QED
  BY <1>10, <1>12, <1>13, <1>14, <1>15, <1>17, <1>19, <1>22, <1>24, <1>26 DEF IInv, Working

LEMMA AcceptedInOrder ==
  ASSUME IInv, ~ended, packet.unit <= MaxUnit, NEW d,
         d = [demuxer EXCEPT !.continuity = counter],
         demuxer.continuity = None \/ counter = (demuxer.continuity + 1) % CounterModulus
  PROVE  Accepted(d, packet) /\ d.mapped = demuxer.mapped
<1>1. TypeOK /\ Working /\ Told(routed, blind)
  BY DEF IInv
<1>2. demuxer \in Record /\ DemuxerTypes(demuxer) /\ demuxer.events = <<>>
  BY <1>1 DEF Working, DemuxerTypes, TypeOK
<1>3. /\ d.continuity = counter /\ d.pes = demuxer.pes /\ d.pending = demuxer.pending
      /\ d.mapped = demuxer.mapped /\ d.previous = demuxer.previous
      /\ d.epoch = demuxer.epoch /\ d.events = <<>>
  BY <1>2 DEF Record
<1>4. counter \in Counter /\ counter # None /\ lost \in 0 .. CounterModulus - 1
  BY <1>1 DEF TypeOK, Counter, None
<1>5. d \in Record
  BY <1>2, <1>4 DEF Record
<1>6. (Assembling(d) <=> Assembling(demuxer)) /\ DemuxerTypes(d)
  BY <1>2, <1>3, <1>5 DEF Assembling, DemuxerTypes
<1>7. demuxer.continuity # None => lost = 0
  <2> SUFFICES ASSUME NEW c \in Counter, c = demuxer.continuity
               PROVE  lost = 0
    BY <1>2 DEF Record
  <2>1. counter = IF c + 1 = CounterModulus THEN 0 ELSE c + 1
    BY NextCounter DEF Counter, None
  <2>2. counter = c + 1 + lost \/ counter = c + 1 + lost - CounterModulus
    BY <1>1 DEF Working, Order, Counter, None
  <2>3. CounterModulus \in Nat /\ c \in Nat /\ lost \in Nat /\ lost < CounterModulus
    BY <1>4, DemuxerAssumption DEF Counter
  <2> QED
    BY <2>1, <2>2, <2>3
<1>8. Clock(d, routed, announce) /\ (Assembling(d) => Linked(d, d.pes[1].unit, routed, blind))
  BY <1>1, <1>3, <1>6 DEF Working, Clock, Linked
<1>9. Assembly(d) /\ (Assembling(d) /\ ~d.pending => Successor(LastOf(d.pes), packet))
  BY <1>1, <1>3, <1>4, <1>6, <1>7 DEF Working, InAssembly, Assembly
<1>10. Anchored(d) => Near(Anchor(d, routed), packet, CounterModulus - 1, blind)
  <2> SUFFICES ASSUME Anchored(d)
               PROVE  Near(Anchor(d, routed), packet, CounterModulus - 1, blind)
    OBVIOUS
  <2>1. Anchored(demuxer) /\ Anchor(demuxer, routed) = Anchor(d, routed)
    BY <1>3, <1>6 DEF Anchored, Anchor
  <2>2. Near(Anchor(d, routed), packet, Missed, blind)
    BY <1>1, <1>7, <2>1 DEF Working, NearNext
  <2>3. PICK n \in Nat : n = Anchor(d, routed)
    BY <1>1, <1>6, <1>8, AnchorTyped DEF TypeOK
  <2>4. PICK m \in Nat : m = Missed /\ m <= CounterModulus - 1
    BY <1>4, DemuxerAssumption DEF Missed
  <2>5. packet.unit \in Nat /\ CounterModulus \in Nat
    BY <1>1, Packets, DemuxerAssumption DEF TypeOK
  <2>6. Near(n, packet, CounterModulus - 1, blind)
    BY <2>2, <2>3, <2>4, <2>5 DEF Near
  <2> QED
    BY <2>3, <2>6
<1> QED
  BY <1>1, <1>3, <1>6, <1>8, <1>9, <1>10 DEF Accepted, Working

\* Whatever a packet is, it is processed.
LEMMA Processes ==
  ASSUME IInv, ~ended, packet.unit <= MaxUnit, NEW signalled \in BOOLEAN, NEW junkEnds \in BOOLEAN
  PROVE  Processed(ProcessPacket(demuxer, packet, counter, signalled, junkEnds), packet)
<1>1. PICK p \in TsPacket : p = packet
  BY DEF IInv, TypeOK
<1>2. p.unit \in Unit
  BY <1>1, Packets, DemuxerAssumption DEF Unit
<1>3. PICK d : d = CheckContinuity(demuxer, counter, signalled)
  OBVIOUS
<1>4. TypeOK /\ DemuxerTypes(demuxer) /\ demuxer \in Record /\ demuxer.events = <<>>
  BY DEF IInv, Working, DemuxerTypes, TypeOK
<1>5. PICK e : e = IF p.part = 1 THEN StartPes(d, p) ELSE PushPes(d, p)
  OBVIOUS
<1>6. ProcessPacket(demuxer, packet, counter, signalled, junkEnds) =
        IF ~d.mapped THEN d ELSE TakeComplete(e, junkEnds)
  BY <1>1, <1>3, <1>5 DEF ProcessPacket
<1>7. Processed(e, p) => Processed(TakeComplete(e, junkEnds), p)
  BY <1>4, TakeProcessed
<1>8. CASE d = Discontinue(demuxer)
  <2>1. /\ Out(demuxer) \in Seq(ElementaryPacket) /\ AllWhole(Out(demuxer))
        /\ Told(Out(demuxer), blind)
    BY <1>4, NothingShown DEF IInv, Working, TypeOK
  <2>2. Processed(d, p) /\ d.pes = <<>> /\ d.pending
    BY <1>4, <1>8, <2>1, BreakProcessed
  <2>3. d.continuity = None
    BY <1>4, <1>8 DEF Discontinue, ResetPid, Record
  <2>4. d.mapped => Processed(e, p)
    <3>1. CASE p.part = 1
      BY <1>2, <1>5, <2>2, <2>3, <3>1, StartAfterBreak
    <3>2. CASE p.part # 1
      <4>1. e = d
        BY <1>5, <2>2, <3>2 DEF PushPes
      <4> QED
        BY <2>2, <4>1
    <3> QED
      BY <3>1, <3>2
  <2> QED
    BY <1>1, <1>6, <1>7, <2>2, <2>4
<1>9. CASE d # Discontinue(demuxer)
  <2>1. /\ d = [demuxer EXCEPT !.continuity = counter]
        /\ demuxer.continuity = None \/ counter = (demuxer.continuity + 1) % CounterModulus
    BY <1>3, <1>9 DEF CheckContinuity
  <2>2. Accepted(d, p)
    BY <1>1, <2>1, AcceptedInOrder
  <2>3. CASE d.mapped
    <3>1. Processed(e, p)
      BY <1>2, <1>4, <1>5, <2>2, <2>3, StartAccepted, PushAccepted
    <3> QED
      BY <1>1, <1>6, <1>7, <2>3, <3>1
  <2>4. CASE ~d.mapped
    <3>1. d.pes = <<>> /\ d.previous = None
      BY <2>2, <2>4 DEF Accepted, DemuxerTypes
    <3>2. ~Assembling(d) /\ ~Anchored(d)
      BY <3>1 DEF Assembling, Anchored
    <3>3. Out(d) = routed /\ (Ann(d) <=> announce)
      BY <1>4, <2>2, NothingShown DEF Accepted, TypeOK
    <3>4. Processed(d, p)
      BY <1>4, <2>2, <3>2, <3>3 DEF Accepted, Processed, Assembly, Clock, TypeOK
    <3> QED
      BY <1>1, <1>6, <2>4, <3>4
  <2> QED
    BY <2>3, <2>4
<1> QED
  BY <1>8, <1>9

-----------------------------------------------------------------------------
(* One lemma per action.                                                    *)
LEMMA ReceiveKeeps == IInv /\ Receive => IInv'
<1> SUFFICES ASSUME IInv, Receive
             PROVE  IInv'
  OBVIOUS
<1>1. PICK signalled \in BOOLEAN, junkEnds \in BOOLEAN :
        Route(ProcessPacket(demuxer, packet, counter, signalled, junkEnds))
  BY DEF Receive
<1>2. PICK d : d = ProcessPacket(demuxer, packet, counter, signalled, junkEnds)
  OBVIOUS
<1>3. Processed(d, packet)
  BY <1>2, Processes DEF Receive
<1> QED
  BY <1>1, <1>2, <1>3, Settles DEF Receive

LEMMA DamagedKeeps == IInv /\ ReceiveDamaged => IInv'
<1> SUFFICES ASSUME IInv, ReceiveDamaged
             PROVE  IInv'
  OBVIOUS
<1>1. /\ demuxer \in Record /\ demuxer.events = <<>> /\ announce \in BOOLEAN
      /\ routed \in Seq(ElementaryPacket)
  BY DEF IInv, Working, DemuxerTypes, TypeOK, ReceiveDamaged
<1>2. /\ Out(demuxer) \in Seq(ElementaryPacket) /\ AllWhole(Out(demuxer))
      /\ Told(Out(demuxer), blind)
  BY <1>1, NothingShown DEF IInv, Working, ReceiveDamaged
<1>3. PICK d : d = Discontinue(demuxer)
  OBVIOUS
<1>4. Processed(d, packet) /\ d.events = <<>>
  BY <1>1, <1>2, <1>3, BreakProcessed
<1>5. Route(d)
  <2>1. Out(d) = routed
    BY <1>1, <1>4, NothingShown
  <2>2. routed' = Out(d)
    BY <2>1 DEF ReceiveDamaged
  <2>3. announce' = Announcing(d.events, Len(d.events))
    BY <1>1, <1>4 DEF ReceiveDamaged, Announcing
  <2>4. d \in Record
    BY <1>4 DEF Processed, DemuxerTypes
  <2>5. demuxer' = [d EXCEPT !.events = <<>>]
    BY <1>3, <1>4, <2>4 DEF ReceiveDamaged, Record
  <2> QED
    BY <2>2, <2>3, <2>5 DEF Route, Out, Shown
<1> QED
  BY <1>4, <1>5, Settles DEF ReceiveDamaged

\* A unit that nothing will reveal joins the blind ones.
LEMMA LoseKeeps == IInv /\ Lose => IInv'
<1> SUFFICES ASSUME IInv, Lose
             PROVE  IInv'
  OBVIOUS
<1>1. TypeOK /\ Working /\ Told(routed, blind) /\ UnflaggedWhole
  BY DEF IInv, Lose
<1>2. PICK b \in SUBSET Unit :
        /\ b = blind' /\ blind \subseteq b
        /\ demuxer.continuity = None => b = blind \cup {packet.unit}
  <2>1. packet.unit \in Unit
    BY <1>1, Packets, DemuxerAssumption DEF TypeOK, Lose, Unit
  <2> QED
    BY <1>1, <2>1 DEF Lose, TypeOK
<1>3. PICK q \in TsPacket : q = packet'
  BY <1>1, Advances DEF Lose
<1>4. PICK p \in TsPacket : p = packet
  BY <1>1 DEF TypeOK
<1>5. /\ \/ q.unit = p.unit /\ q.part # 1
         \/ q.unit = p.unit + 1 /\ q.part = 1
      /\ counter' \in Counter
      /\ counter' = counter + 1 \/ counter' = counter + 1 - CounterModulus
  BY <1>1, <1>3, <1>4, Advances DEF Lose
<1>6. /\ lost \in Nat /\ lost' = lost + 1 /\ lost' \in 0 .. CounterModulus - 1
      /\ CounterModulus \in Nat
  BY <1>1, DemuxerAssumption DEF Lose, TypeOK
<1>7. TypeOK'
  BY <1>1, <1>2, <1>3, <1>5, <1>6 DEF TypeOK, Lose
<1>8. Told(routed, blind)' /\ UnflaggedWhole' /\ AllWhole(routed)'
  BY <1>1, <1>2 DEF Told, UnflaggedWhole, AllWhole, Working, Lose
<1>9. Order'
  <2>1. counter \in Int /\ (demuxer.continuity # None => demuxer.continuity \in Int)
    BY <1>1 DEF TypeOK, Counter
  <2>2. CASE demuxer.continuity = None
    BY <2>2 DEF Order, Lose, None
  <2>3. CASE demuxer.continuity # None
    <3>1. PICK c \in 0 .. CounterModulus - 1 : c = demuxer.continuity
      BY <1>1, <2>3 DEF TypeOK, Counter
    <3>2. counter = c + 1 + lost \/ counter = c + 1 + lost - CounterModulus
      BY <1>1, <2>3, <3>1 DEF Working, Order
    <3>3. counter' = c + 1 + lost' \/ counter' = c + 1 + lost' - CounterModulus
      BY <1>5, <1>6, <2>1, <3>1, <3>2 DEF Counter
    <3> QED
      BY <3>1, <3>3 DEF Order, Lose
  <2> QED
    BY <2>2, <2>3
<1>10. DemuxerTypes(demuxer)'
  BY <1>1 DEF Working, DemuxerTypes, Assembling, Record, TsPacket, ElementaryPacket, Junk, Counter,
              Unit, None, Lose
<1>11. Clock(demuxer, routed, announce)'
  BY <1>1 DEF Working, Clock, LastOf, Raw, None, Lose
<1>12. (Assembling(demuxer) => Linked(demuxer, demuxer.pes[1].unit, routed, blind))'
  BY <1>1, <1>2 DEF Working, Assembling, Linked, MayFollow, LastOf, Junk, None, Lose
<1>13. InAssembly'
  <2>1. Assembly(demuxer)'
    BY <1>1 DEF Working, InAssembly, Assembly, Assembling, Prefix, Junk, None, Lose
  <2>2. ~(lost' = 0)
    BY <1>6
  <2> QED
    BY <2>1, <2>2 DEF InAssembly
<1>14. ASSUME Anchored(demuxer), demuxer.continuity = None
       PROVE  Near(Anchor(demuxer, routed), q, lost + 1, b)
  <2>1. Near(Anchor(demuxer, routed), p, lost, blind)
    BY <1>1, <1>4, <1>14 DEF Working, NearNext, Missed
  <2>2. PICK n \in Nat : n = Anchor(demuxer, routed)
    BY <1>1, <1>14, AnchorTyped DEF Working, TypeOK
  <2>3. /\ p.unit \in Nat /\ p.part \in Nat \ {0} /\ q.unit \in Nat /\ q.part \in Nat
        /\ b = blind \cup {p.unit}
    BY <1>2, <1>4, <1>14, Packets
  <2>4. Near(n, q, lost + 1, b)
    <3>1. n <= p.unit /\ n + 1 .. p.unit - 1 \subseteq blind /\ p.unit - n <= lost + 1
      BY <1>6, <2>1, <2>2, <2>3 DEF Near
    <3>2. n + 1 .. p.unit - 1 \subseteq b /\ p.unit \in b
      BY <2>3, <3>1
    <3>3. CASE q.unit = p.unit /\ q.part # 1
      BY <1>6, <2>2, <2>3, <3>1, <3>2, <3>3 DEF Near
    <3>4. CASE q.unit = p.unit + 1 /\ q.part = 1
      <4>1. n + 1 .. q.unit - 1 \subseteq b
        BY <2>2, <2>3, <3>1, <3>2, <3>4
      <4>2. n < q.unit /\ q.unit - n <= lost + 1 + 1
        BY <1>6, <2>2, <2>3, <3>1, <3>4
      <4> QED
        BY <3>4, <4>1, <4>2, <2>2, <2>3 DEF Near
    <3> QED
      BY <1>5, <3>3, <3>4
  <2> QED
    BY <2>2, <2>4
<1>15. NearNext'
  <2>1. lost' # 0
    BY <1>6
  <2> QED
    BY <1>2, <1>3, <1>6, <1>14, <2>1
    DEF NearNext, Near, Anchored, Anchor, Assembling, Missed, LastOf, Junk, None, Lose
<1> QED
  BY <1>7, <1>8, <1>9, <1>10, <1>11, <1>12, <1>13, <1>15 DEF IInv, Working

LEMMA TablesKeep == IInv /\ Tables => IInv'
<1> SUFFICES ASSUME IInv, Tables
             PROVE  IInv'
  OBVIOUS
<1>1. TypeOK /\ Working /\ Told(routed, blind) /\ UnflaggedWhole /\ demuxer \in Record
  BY DEF IInv, Tables, Working, DemuxerTypes
<1>2. PICK f : f = [demuxer EXCEPT !.mapped = TRUE]
  OBVIOUS
<1>3. /\ f.continuity = demuxer.continuity /\ f.pes = demuxer.pes
      /\ f.pending = demuxer.pending /\ f.mapped /\ f.previous = demuxer.previous
      /\ f.epoch = demuxer.epoch /\ f.events = demuxer.events
  BY <1>1, <1>2 DEF Record
<1>4. demuxer' = f /\ f \in Record
  BY <1>1, <1>2 DEF Tables, Record
<1>5. TypeOK'
  BY <1>1 DEF TypeOK, Tables
<1>6. ~demuxer.mapped /\ demuxer.pes = <<>> /\ demuxer.previous = None
  BY <1>1 DEF Working, DemuxerTypes, Tables
<1>7. ~Assembling(f) /\ ~Anchored(f)
  BY <1>3, <1>6 DEF Assembling, Anchored
<1>8. /\ DemuxerTypes(f) /\ Clock(f, routed, announce)
  BY <1>1, <1>3, <1>4, <1>7 DEF Working, DemuxerTypes, Clock
<1>9. /\ DemuxerTypes(demuxer)' /\ Clock(demuxer, routed, announce)'
      /\ ~Assembling(demuxer)' /\ ~Anchored(demuxer)'
  BY <1>4, <1>7, <1>8
  DEF DemuxerTypes, Clock, Assembling, Anchored, Record, TsPacket, ElementaryPacket, Junk, Counter,
      Unit, None, LastOf, Raw, Tables
<1>10. Order' /\ AllWhole(routed)' /\ Told(routed, blind)' /\ UnflaggedWhole'
  BY <1>1, <1>3, <1>4 DEF Working, Order, AllWhole, Told, UnflaggedWhole, None, Tables
<1>11. InAssembly' /\ NearNext'
  BY <1>9 DEF InAssembly, Assembly, NearNext
<1> QED
  BY <1>5, <1>9, <1>10, <1>11 DEF IInv, Working

LEMMA ReconnectKeeps == IInv /\ Reconnect => IInv'
<1> SUFFICES ASSUME IInv, Reconnect
             PROVE  IInv'
  OBVIOUS
<1>1. TypeOK /\ Working /\ Told(routed, blind) /\ UnflaggedWhole
  BY DEF IInv, Reconnect
<1>2. PICK f : f = NewDemuxer
  OBVIOUS
<1>3. /\ f.continuity = None /\ f.pes = <<>> /\ ~f.pending /\ ~f.mapped
      /\ f.previous = None /\ f.epoch = 0 /\ f.events = <<>>
  BY <1>2 DEF NewDemuxer
<1>4. demuxer' = f
  BY <1>2 DEF Reconnect
<1>5. f \in Record /\ f \in [continuity : Counter \cup {None}, pes : Seq(TsPacket \cup {Junk}),
               pending : BOOLEAN, mapped : BOOLEAN,
               previous : (0 .. PtsModulus - 1) \cup {None}, epoch : Nat, events : {<<>>}]
  <2>1. <<>> \in Seq(TsPacket \cup {Junk}) /\ <<>> \in Seq(ElementaryPacket)
    BY EmptySeq
  <2> QED
    BY <1>2, <2>1 DEF NewDemuxer, Record
<1>6. TypeOK'
  BY <1>1, <1>4, <1>5, DemuxerAssumption DEF TypeOK, Reconnect
<1>7. ~Assembling(f) /\ ~Anchored(f)
  BY <1>3 DEF Assembling, Anchored
<1>8. /\ DemuxerTypes(f) /\ Clock(f, routed, TRUE)
  BY <1>3, <1>5, <1>7 DEF DemuxerTypes, Clock
<1>9. /\ DemuxerTypes(demuxer)' /\ Clock(demuxer, routed, announce)'
      /\ ~Assembling(demuxer)' /\ ~Anchored(demuxer)'
  BY <1>4, <1>7, <1>8
  DEF DemuxerTypes, Clock, Assembling, Anchored, Record, TsPacket, ElementaryPacket, Junk, Counter,
      Unit, None, LastOf, Raw, Reconnect
<1>10. Order' /\ AllWhole(routed)' /\ Told(routed, blind)' /\ UnflaggedWhole'
  BY <1>1, <1>3, <1>4 DEF Working, Order, AllWhole, Told, UnflaggedWhole, None, Reconnect
<1>11. InAssembly' /\ NearNext'
  BY <1>9 DEF InAssembly, Assembly, NearNext
<1> QED
  BY <1>6, <1>9, <1>10, <1>11 DEF IInv, Working

\* The last unit may be cut short, but it follows the one before as it is said to.
LEMMA FlushKeeps == IInv /\ Flush => IInv'
<1> SUFFICES ASSUME IInv, Flush
             PROVE  IInv'
  OBVIOUS
<1>1. /\ TypeOK /\ Working /\ Told(routed, blind) /\ demuxer \in Record /\ demuxer.events = <<>>
      /\ announce \in BOOLEAN /\ routed \in Seq(ElementaryPacket)
  BY DEF IInv, Flush, Working, DemuxerTypes, TypeOK
<1>2. ended'
  BY DEF Flush
<1>3. CASE UNCHANGED <<demuxer, announce, routed>>
  <2>1. TypeOK'
    BY <1>1, <1>3 DEF TypeOK, Flush
  <2>2. Told(routed, blind)' /\ UnflaggedWhole'
    BY <1>1, <1>3 DEF Told, UnflaggedWhole, AllWhole, Working, Flush, TypeOK
  <2> QED
    BY <1>2, <2>1, <2>2 DEF IInv
<1>4. CASE /\ demuxer.pes # <<>>
           /\ Route(EmitPes([demuxer EXCEPT !.pes = <<>>], demuxer.pes))
  <2>1. PICK f : f = [demuxer EXCEPT !.pes = <<>>]
    OBVIOUS
  <2>2. PICK e : e = EmitPes(f, demuxer.pes)
    OBVIOUS
  <2>3. /\ f.continuity = demuxer.continuity /\ f.pes = <<>> /\ f.pending = demuxer.pending
        /\ f.mapped = demuxer.mapped /\ f.previous = demuxer.previous
        /\ f.epoch = demuxer.epoch /\ f.events = <<>>
    BY <1>1, <2>1 DEF Record
  <2>4. f \in Record
    <3>1. <<>> \in Seq(TsPacket \cup {Junk})
      BY EmptySeq
    <3> QED
      BY <1>1, <2>1, <3>1 DEF Record
  <2>5. Out(f) = routed /\ (Ann(f) <=> announce)
    BY <1>1, <2>3, NothingShown
  <2>6. AllWhole(routed)
    BY <1>1 DEF Working
  \* All that is left to show is what e has given out.
  <2>7. ASSUME e \in Record, Out(e) \in Seq(ElementaryPacket), Told(Out(e), blind),
               WholeButLast(Out(e))
        PROVE  IInv'
    <3>1. PICK o \in Seq(ElementaryPacket) : o = Out(e) /\ routed' = o
      BY <1>4, <2>1, <2>2, <2>7 DEF Route, Out, Shown
    <3>2. announce' \in BOOLEAN
      BY <1>1, <1>4 DEF Route, Announcing
    <3>3. PICK g : g = [e EXCEPT !.events = <<>>]
      OBVIOUS
    <3>4. demuxer' = g
      BY <1>4, <2>1, <2>2, <3>3 DEF Route
    <3>5. g \in [continuity : Counter \cup {None}, pes : Seq(TsPacket \cup {Junk}),
                 pending : BOOLEAN, mapped : BOOLEAN,
                 previous : (0 .. PtsModulus - 1) \cup {None}, epoch : Nat, events : {<<>>}]
      BY <2>7, <3>3 DEF Record
    <3>6. TypeOK'
      BY <1>1, <1>2, <3>1, <3>2, <3>4, <3>5 DEF TypeOK, Flush
    <3>7. Told(routed, blind)'
      BY <2>7, <3>1 DEF Told, Flush
    <3>8. UnflaggedWhole'
      <4>1. DOMAIN o = 1 .. Len(o) /\ Len(o) \in Nat
        BY LenProperties
      <4> QED
        BY <1>2, <2>7, <3>1, <4>1 DEF UnflaggedWhole, WholeButLast
    <3> QED
      BY <1>2, <3>6, <3>7, <3>8 DEF IInv
  <2>8. CASE demuxer.pes[1] = Junk
    <3>1. e = Discontinue(f)
      BY <2>2, <2>8 DEF EmitPes
    <3>2. Processed(e, packet)
      BY <1>1, <2>4, <2>5, <2>6, <3>1, BreakProcessed
    <3>3. Out(e) \in Seq(ElementaryPacket) /\ Len(Out(e)) \in Nat
      BY <3>2, LenProperties DEF Processed
    <3> QED
      BY <2>7, <3>2, <3>3 DEF Processed, DemuxerTypes, AllWhole, WholeButLast
  <2>9. CASE demuxer.pes[1] # Junk
    <3>1. /\ demuxer.pes[1].unit \in Unit
          /\ Linked(demuxer, demuxer.pes[1].unit, routed, blind)
          /\ Clock(demuxer, routed, announce)
      BY <1>1, <1>4, <2>9 DEF Working, DemuxerTypes, Assembling
    <3>2. Linked(f, demuxer.pes[1].unit, Out(f), blind) /\ Told(Out(f), blind)
      BY <1>1, <2>3, <2>5, <3>1 DEF Linked
    <3>3. Clock(f, Out(f), Ann(f))
      BY <2>3, <2>5, <3>1 DEF Clock
    <3>4. /\ e \in Record /\ Out(e) \in Seq(ElementaryPacket) /\ Told(Out(e), blind)
          /\ AllWhole(Out(f)) => WholeButLast(Out(e))
      BY <1>1, <2>2, <2>4, <2>9, <3>1, <3>2, <3>3, EmitKeeps
    <3> QED
      BY <2>5, <2>6, <2>7, <3>4
  <2> QED
    BY <2>8, <2>9
<1> QED
  BY <1>3, <1>4 DEF Flush

-----------------------------------------------------------------------------
LEMMA InitIInv == Init => IInv
<1> SUFFICES ASSUME Init
             PROVE  IInv
  OBVIOUS
<1>1. /\ demuxer.continuity = None /\ demuxer.pes = <<>> /\ ~demuxer.pending /\ ~demuxer.mapped
      /\ demuxer.previous = None /\ demuxer.epoch = 0 /\ demuxer.events = <<>>
  BY DEF Init, NewDemuxer
<1>2. /\ <<>> \in Seq(TsPacket \cup {Junk}) /\ <<>> \in Seq(ElementaryPacket)
      /\ Len(<<>>) = 0
  BY EmptySeq
<1>3. /\ demuxer \in Record
      /\ demuxer \in [continuity : Counter \cup {None}, pes : Seq(TsPacket \cup {Junk}),
                     pending : BOOLEAN, mapped : BOOLEAN,
                     previous : (0 .. PtsModulus - 1) \cup {None}, epoch : Nat, events : {<<>>}]
  BY <1>2 DEF Init, NewDemuxer, Record
<1>4. TypeOK
  <2>1. 0 \in 0 .. CounterModulus - 1 /\ {} \subseteq Unit
    BY DemuxerAssumption
  <2>2. routed \in Seq(ElementaryPacket)
    BY <1>2 DEF Init
  <2> QED
    BY <1>3, <2>1, <2>2 DEF Init, TypeOK, Counter
<1>5. ~Assembling(demuxer) /\ ~Anchored(demuxer)
  BY <1>1 DEF Assembling, Anchored
<1>6. Told(routed, blind) /\ UnflaggedWhole /\ AllWhole(routed)
  BY <1>2 DEF Init, Told, UnflaggedWhole, AllWhole
<1>7. Working
  BY <1>1, <1>3, <1>5, <1>6
  DEF Init, Working, Order, DemuxerTypes, Clock, InAssembly, Assembly, NearNext
<1> QED
  BY <1>4, <1>6, <1>7 DEF IInv

LEMMA StepIInv == IInv /\ [Next]_vars => IInv'
<1> SUFFICES ASSUME IInv, [Next]_vars
             PROVE  IInv'
  OBVIOUS
<1>1. CASE Receive
  BY <1>1, ReceiveKeeps
<1>2. CASE ReceiveDamaged
  BY <1>2, DamagedKeeps
<1>3. CASE Lose
  BY <1>3, LoseKeeps
<1>4. CASE Tables
  BY <1>4, TablesKeep
<1>5. CASE Reconnect
  BY <1>5, ReconnectKeeps
<1>6. CASE Flush
  BY <1>6, FlushKeeps
<1>7. CASE UNCHANGED vars
  <2>1. TypeOK' /\ Told(routed, blind)' /\ UnflaggedWhole' /\ ended' = ended
    BY <1>7 DEF vars, IInv, TypeOK, Told, UnflaggedWhole
  <2>2. ASSUME ~ended
        PROVE  Working'
    <3>1. Working
      BY <2>2 DEF IInv
    <3>2. Order' /\ DemuxerTypes(demuxer)' /\ Clock(demuxer, routed, announce)'
      BY <1>7, <3>1
      DEF vars, Working, Order, DemuxerTypes, Clock, Assembling, LastOf, Raw, Record, TsPacket,
          ElementaryPacket, Junk, Counter, Unit, None
    <3>3. (Assembling(demuxer) => Linked(demuxer, demuxer.pes[1].unit, routed, blind))'
      BY <1>7, <3>1 DEF vars, Working, Assembling, Linked, MayFollow, LastOf, Junk, None
    <3>4. InAssembly'
      BY <1>7, <3>1
      DEF vars, Working, InAssembly, Assembly, Assembling, Prefix, Successor, LastOf, Junk, None
    <3>5. NearNext'
      BY <1>7, <3>1
      DEF vars, Working, NearNext, Near, Anchored, Anchor, Assembling, Missed, LastOf, Junk, None
    <3>6. AllWhole(routed)'
      BY <1>7, <3>1 DEF vars, Working, AllWhole
    <3> QED
      BY <3>2, <3>3, <3>4, <3>5, <3>6 DEF Working
  <2> QED
    BY <2>1, <2>2 DEF IInv
<1> QED
  BY <1>1, <1>2, <1>3, <1>4, <1>5, <1>6, <1>7 DEF Next

LEMMA Invariant == Spec => []IInv
  BY InitIInv, StepIInv, PTL DEF Spec

-----------------------------------------------------------------------------
(* A packet that the decoder gets without the discontinuity flag is a whole     *)
(* access unit: take_complete, start and push put nothing together across a      *)
(* loss without a mark, whatever is lost, damaged or cut off by a reconnect.     *)
THEOREM UnflaggedAlwaysWhole == Spec => []UnflaggedWhole
<1>1. IInv => UnflaggedWhole
  BY DEF IInv
<1> QED
  BY <1>1, Invariant, PTL

(* Without the flag, the timestamp advances as the sender's clock does: unwrap   *)
(* takes no wrap for a step back and none for two, as long as fewer units than     *)
(* half the range of PTS can be lost unnoticed, and a reset is always announced.   *)
THEOREM TimestampsAlwaysFollow == Spec => []TimestampsFollow
<1>1. IInv => TimestampsFollow
  BY DEF IInv, Told, TimestampsFollow, Unbroken
<1> QED
  BY <1>1, Invariant, PTL

(* Without the flag, no unit is missing but those lost right after a packet that *)
(* reset the PID, whose counter check_continuity forgets.                          *)
THEOREM LossesAlwaysAnnounced == Spec => []LossesAnnounced
<1>1. IInv => LossesAnnounced
  BY DEF IInv, Told, LossesAnnounced, Unbroken
<1> QED
  BY <1>1, Invariant, PTL
=============================================================================
