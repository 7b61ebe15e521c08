------------------------- MODULE PacketSourcesProofs -------------------------
(***************************************************************************)
(* Every protocol keeps the promise of MarkedSource, for any number of       *)
(* sessions and any limit of one read.  One invariant per protocol says      *)
(* where the mark of a new session is until the first packet of each stream   *)
(* takes it: in the count of reconnections that the receiver has yet to read *)
(* (SRT), in the marks or on a packet that waits in the queue (RTMP), or in   *)
(* the marks alone (RTSP).                                                   *)
(***************************************************************************)
EXTENDS PacketSources, SequenceTheorems, TLAPS

Count(n) == IF n = 0 THEN 0 ELSE n - 1

SharedInv ==
  /\ protocol \in {"srt", "rtmp", "rtsp"}
  /\ session \in 0 .. MaxSession
  /\ latest \in [Stream -> Nat]
  /\ \A s \in Stream : latest[s] <= session
  /\ protocol # "srt" => latest["chunks"] = 0
  /\ marks \in [Media -> BOOLEAN]

\* What libsrt holds at each stage of an attempt.
HeldAt ==
  CASE task = "created" -> {"socket"}
    [] task \in {"polled", "listening"} -> {"socket", "epoll"}
    [] task = "accepted" -> {"peer", "epoll"}
    [] OTHER -> {}

(* The sockets.  The owner dials only without a handle, and at every stage   *)
(* the fields of the handle name all that libsrt holds.                      *)
NativeInv ==
  /\ task \in {"check", "io"} \cup Srt!DialStage
  /\ handle \in BOOLEAN
  /\ task \in Srt!DialStage => ~handle
  /\ task \in {"listening", "accepted"} => mode = "listener"
  /\ native = IF handle THEN Srt!Held ELSE HeldAt
  /\ owned = native

(* The monitor: an endpoint that it saw down and that is up has been counted *)
(* in between; and the receiver knows of every reconnection up to the session *)
(* of the last chunk.                                                        *)
SrtInv ==
  /\ session = 0 => ~handle /\ task # "io" /\ seen.connected
  /\ task = "io" => handle
  /\ seen.reconnects \in Nat /\ seen.reconnects <= Count(session)
  /\ (~seen.connected /\ handle /\ ~broken) => seen.reconnects < Count(session)
  /\ received = Count(latest["chunks"])

\* A packet of stream s and session n was given out, or is in the queue before
\* place i.
StartedIn(queue, given, s, n, i) ==
  given[s] = n \/ \E j \in 1 .. i - 1 : queue[j].stream = s /\ queue[j].session = n
Started(s, n, i) == StartedIn(pending, latest, s, n, i)

RtmpInv ==
  /\ pending \in Seq(Rtmp!Packet)
  /\ peer \in Rtmp!Peer
  /\ peer.here => session > 0
  /\ peer = Rtmp!NoPeer \/ peer.here
  /\ reading # "no" => peer.here /\ ended = "no"
  /\ \A i \in 1 .. Len(pending) :
       /\ pending[i].session <= session
       /\ \A s \in Media : latest[s] <= pending[i].session
       /\ \A j \in 1 .. i : pending[j].session <= pending[i].session
       /\ ~pending[i].own

(* Where the mark of the session is.                                         *)
RtmpMarks ==
  /\ \A i \in 1 .. Len(pending) :
       LET p == pending[i]
       IN  p.marked <=> p.session > 1 /\ ~Started(p.stream, p.session, i)
  /\ \A s \in Media :
       /\ marks[s] => session > 1 /\ ~Started(s, session, Len(pending) + 1)
       /\ peer.here /\ session > 1 => marks[s] \/ Started(s, session, Len(pending) + 1)

\* The converter stops waiting only for an IDR of its publisher.
RtmpKeys ==
  /\ \A i \in 1 .. Len(pending) :
       LET p == pending[i]
       IN  p.stream = "video" => p.key \/ Started("video", p.session, i)
  /\ peer.config /\ ~peer.waiting => Started("video", session, Len(pending) + 1)

RtspInv ==
  /\ phase = "play" => session > 0
  /\ session = 0 => profile = Rtsp!NoProfile
  /\ plain \subseteq Media
  /\ \A s \in Media :
       /\ marks[s] => session > 1 /\ s \notin plain
       /\ session > 1 /\ latest[s] < session => marks[s]

IInv ==
  /\ SharedInv
  /\ NativeInv
  /\ protocol = "srt" => SrtInv
  /\ protocol = "rtmp" => RtmpInv /\ RtmpMarks /\ RtmpKeys
  /\ protocol = "rtsp" => RtspInv

-----------------------------------------------------------------------------
LEMMA InitIInv ==
  ASSUME Init
  PROVE  IInv
  <1>1. SharedInv
    BY SourcesAssumption DEF Init, SharedInv, Srt!Init, Rtmp!Init, Rtsp!Init, Stream, Media
  <1>2. NativeInv
    BY DEF Init, NativeInv, Srt!Init, NoSrt, Srt!DialStage, Srt!Held, HeldAt
  <1>3. CASE protocol = "srt"
    BY <1>1, <1>2, <1>3 DEF Init, IInv, Srt!Init, SrtInv, Count, Stream, Media
  <1>4. CASE protocol = "rtmp"
    <2>1. /\ session = 0 /\ peer = Rtmp!NoPeer /\ reading = "no" /\ pending = <<>>
          /\ marks = [s \in Media |-> FALSE]
      BY <1>4 DEF Init, Rtmp!Init
    <2>2. ~peer.here /\ ~peer.config /\ peer \in Rtmp!Peer
      BY <2>1 DEF Rtmp!NoPeer, Rtmp!Peer
    <2>3. RtmpInv /\ RtmpMarks /\ RtmpKeys
      BY <2>1, <2>2 DEF RtmpInv, RtmpMarks, RtmpKeys
    <2> QED BY <1>1, <1>2, <1>4, <2>3 DEF IInv
  <1>5. CASE protocol = "rtsp"
    BY <1>1, <1>2, <1>5 DEF Init, IInv, Rtsp!Init, RtspInv, Media
  <1> QED BY <1>1, <1>3, <1>4, <1>5 DEF SharedInv

-----------------------------------------------------------------------------
(* SRT.                                                                     *)
LEMMA SrtDialKeeps ==
  ASSUME IInv, SrtOnly, Srt!DialStep
  PROVE  IInv' /\ UNCHANGED <<latest, out, seen>>
  <1> USE DEF Srt!linkVars, Srt!configVars, Srt!sharedVars, Srt!backoffVars, Srt!DialStage, Srt!Held
  <1>1. protocol = "srt" /\ UNCHANGED <<protocol, statsVars>>
    BY DEF SrtOnly
  <1>2. SharedInv /\ NativeInv /\ SrtInv
    BY <1>1 DEF IInv
  <1>3. UNCHANGED <<latest, out, seen, received>>
    BY DEF Srt!DialStep, Srt!CreateSocket, Srt!Poll, Srt!Listen, Srt!Accept, Srt!To, Srt!Dialed,
           Srt!DialFails, Srt!DialRefused
  <1>4. SharedInv'
    <2>1. session' = session \/ (session' = session + 1 /\ session < MaxSession)
      BY DEF Srt!DialStep, Srt!CreateSocket, Srt!Poll, Srt!Listen, Srt!Accept, Srt!To, Srt!Dialed,
             Srt!DialFails, Srt!DialRefused
    <2> QED BY <2>1, <1>1, <1>2, <1>3, SourcesAssumption DEF SharedInv, statsVars
  <1>5. NativeInv' /\ SrtInv'
    <2>1. CASE Srt!CreateSocket
      BY <2>1, <1>2, <1>3 DEF Srt!CreateSocket, Srt!Dialing, Srt!To, NativeInv, SrtInv, HeldAt
    <2>2. CASE Srt!Poll
      BY <2>2, <1>2, <1>3 DEF Srt!Poll, Srt!Dialing, Srt!To, NativeInv, SrtInv, HeldAt
    <2>3. CASE Srt!Listen
      BY <2>3, <1>2, <1>3 DEF Srt!Listen, Srt!Dialing, Srt!To, NativeInv, SrtInv, HeldAt
    <2>4. CASE Srt!Accept
      BY <2>4, <1>2, <1>3 DEF Srt!Accept, Srt!Dialing, Srt!To, NativeInv, SrtInv, HeldAt
    <2>5. CASE Srt!Dialed
      <3>1. NativeInv'
        BY <2>5, <1>2, <1>3 DEF Srt!Dialed, Srt!Dialing, NativeInv, HeldAt
      <3>2. SrtInv'
        BY <2>5, <1>2, <1>3 DEF Srt!Dialed, Srt!Dialing, SharedInv, NativeInv, SrtInv, Count
      <3> QED BY <3>1, <3>2
    <2>6. CASE \E error \in Srt!SrtError : Srt!DialFails(error) \/ Srt!DialRefused(error)
      <3>1. task \in Srt!DialStage /\ native' = {} /\ owned' = {} /\ task' = "check"
            /\ handle' = handle /\ UNCHANGED <<session, broken>>
        BY <2>6, <1>2 DEF Srt!DialFails, Srt!DialRefused, Srt!DropHandle, Srt!ErrorsAt, NativeInv
      <3> QED BY <3>1, <1>2, <1>3 DEF NativeInv, SrtInv, HeldAt
    <2> QED BY <2>1, <2>2, <2>3, <2>4, <2>5, <2>6 DEF Srt!DialStep
  <1> QED BY <1>1, <1>3, <1>4, <1>5 DEF IInv

SrtIo ==
  \/ Srt!Ready \/ Srt!Due \/ Srt!Tick \/ Srt!Receive \/ Srt!ReceiveTimesOut \/ Srt!Sent
  \/ Srt!IoFails \/ Srt!SocketBreaks \/ Srt!Close \/ Srt!Sample

LEMMA SrtIoKeeps ==
  ASSUME IInv, SrtOnly, SrtIo
  PROVE  IInv'
  <1> USE DEF Srt!linkVars, Srt!configVars, Srt!sharedVars, Srt!backoffVars, Srt!ownVars,
              Srt!DialStage, Srt!Held, HeldAt
  <1>1. protocol = "srt" /\ UNCHANGED <<protocol, statsVars>>
    BY DEF SrtOnly
  <1>2. SharedInv /\ NativeInv /\ SrtInv
    BY <1>1 DEF IInv
  <1>3. CASE Srt!Receive
    <2>1. /\ task = "io" /\ task' = "check" /\ received' = Count(session)
          /\ latest' = [latest EXCEPT !["chunks"] = session]
          /\ UNCHANGED <<session, mode, handle, native, owned, broken, seen>>
      BY <1>3 DEF Srt!Receive, Srt!reconnects, Count
    <2>2. SharedInv'
      BY <2>1, <1>1, <1>2, SourcesAssumption DEF SharedInv, statsVars, Stream
    <2>3. NativeInv'
      BY <2>1, <1>2 DEF NativeInv
    <2>4. latest'["chunks"] = session
      BY <2>1, <1>2 DEF SharedInv, Stream
    <2>5. SrtInv'
      BY <2>1, <2>4, <1>2 DEF SrtInv, NativeInv
    <2> QED BY <2>2, <2>3, <2>5, <1>1 DEF IInv
  <1>4. CASE Srt!Sample
    <2>1. /\ session > 0 /\ seen' = [connected |-> handle /\ ~broken, reconnects |-> Count(session)]
          /\ UNCHANGED <<session, latest, mode, handle, native, owned, broken, received, task>>
      BY <1>4 DEF Srt!Sample, Srt!reconnects, Count
    <2>2. SharedInv' /\ NativeInv'
      BY <2>1, <1>1, <1>2 DEF SharedInv, NativeInv, statsVars
    <2>3. (seen'.connected <=> handle /\ ~broken) /\ seen'.reconnects = Count(session)
      BY <2>1
    <2>4. Count(session) \in Nat
      BY SourcesAssumption, <1>2 DEF SharedInv, Count
    <2>5. SrtInv'
      BY <2>1, <2>3, <2>4, <1>2 DEF SrtInv
    <2> QED BY <2>2, <2>5, <1>1 DEF IInv
  <1>5. CASE ~Srt!Receive /\ ~Srt!Sample
    <2>1. UNCHANGED <<session, latest, mode, received, seen>>
      BY <1>5 DEF SrtIo, Srt!Ready, Srt!Due, Srt!Tick, Srt!ReceiveTimesOut, Srt!Sent, Srt!IoFails,
                  Srt!SocketBreaks, Srt!Close, Srt!MarkDisconnected, Srt!DropHandle
    <2>2. \/ UNCHANGED <<handle, native, owned>> /\ (handle => broken' = broken \/ broken')
          \/ /\ task \notin Srt!DialStage /\ handle' = FALSE /\ task' = "check"
             /\ native' = {} /\ owned' = {}
      BY <1>2, <1>5 DEF SrtIo, Srt!Ready, Srt!Due, Srt!Tick, Srt!ReceiveTimesOut, Srt!Sent, Srt!IoFails,
                        Srt!SocketBreaks, Srt!Close, Srt!MarkDisconnected, Srt!DropHandle, Srt!Checking, NativeInv
    <2>3. \/ task' = task
          \/ task \in {"check", "io"} /\ task' = "check"
          \/ task = "check" /\ task' = "io" /\ handle /\ handle' = handle
          \/ task = "check" /\ task' = "dial" /\ ~handle /\ handle' = handle
      BY <1>5 DEF SrtIo, Srt!Ready, Srt!Due, Srt!Tick, Srt!ReceiveTimesOut, Srt!Sent, Srt!IoFails,
                  Srt!SocketBreaks, Srt!Close, Srt!MarkDisconnected, Srt!DropHandle, Srt!Checking
    <2>4. SharedInv'
      BY <2>1, <1>1, <1>2 DEF SharedInv, statsVars
    <2>5. NativeInv'
      <3>1. CASE UNCHANGED <<handle, native, owned>>
        BY <2>1, <2>3, <3>1, <1>2 DEF NativeInv
      <3>2. CASE handle' = FALSE /\ task' = "check" /\ native' = {} /\ owned' = {}
        BY <3>2 DEF NativeInv
      <3> QED BY <2>2, <3>1, <3>2
    <2>6. SrtInv'
      BY <2>1, <2>2, <2>3, <1>2 DEF SrtInv, NativeInv
    <2> QED BY <2>4, <2>5, <2>6, <1>1 DEF IInv
  <1> QED BY <1>3, <1>4, <1>5

-----------------------------------------------------------------------------
(* RTMP.                                                                    *)
LEMMA AppendAt ==
  ASSUME NEW S, NEW q \in Seq(S), NEW e \in S
  PROVE  /\ Append(q, e) \in Seq(S)
         /\ Len(Append(q, e)) = Len(q) + 1
         /\ \A i \in 1 .. Len(q) : Append(q, e)[i] = q[i]
         /\ Append(q, e)[Len(q) + 1] = e
  OBVIOUS

LEMMA TailAt ==
  ASSUME NEW S, NEW q \in Seq(S), q # <<>>
  PROVE  /\ Tail(q) \in Seq(S)
         /\ Len(q) \in Nat \ {0}
         /\ Len(Tail(q)) = Len(q) - 1
         /\ \A i \in 1 .. Len(q) - 1 : Tail(q)[i] = q[i + 1]
         /\ Head(q) = q[1] /\ q[1] \in S
  OBVIOUS

LEMMA OthersKeep ==
  ASSUME IInv, RtmpOnly
  PROVE  /\ protocol = "rtmp" /\ protocol' = protocol
         /\ SharedInv /\ RtmpInv /\ RtmpMarks /\ RtmpKeys
         /\ NativeInv'
         /\ SharedInv' /\ RtmpInv' /\ RtmpMarks' /\ RtmpKeys' => IInv'
  BY DEF RtmpOnly, IInv, NativeInv, HeldAt, Srt!Held, srtVars

(* An event that brings no packet, or a failure.                            *)
Quiet ==
  /\ UNCHANGED <<session, latest, marks, pending>>
  /\ reading' # "no" => peer'.here /\ ended' = "no"
  /\ \/ peer' = Rtmp!NoPeer
     \/ /\ peer' \in Rtmp!Peer /\ peer.here /\ peer'.here
        /\ peer'.config /\ ~peer'.waiting => peer.config /\ ~peer.waiting
     \/ peer' = peer

LEMMA QuietKeeps ==
  ASSUME IInv, RtmpOnly, Quiet
  PROVE  IInv'
  <1>1. SharedInv /\ RtmpInv /\ RtmpMarks /\ RtmpKeys /\ protocol' = protocol
    BY OthersKeep
  <1>2. SharedInv'
    BY <1>1 DEF SharedInv, Quiet
  <1>3. Rtmp!NoPeer \in Rtmp!Peer /\ ~Rtmp!NoPeer.here /\ ~Rtmp!NoPeer.config
    BY DEF Rtmp!NoPeer, Rtmp!Peer
  <1>4. RtmpInv'
    BY <1>1, <1>3 DEF RtmpInv, Quiet
  <1>5. RtmpMarks'
    BY <1>1, <1>3 DEF RtmpMarks, Started, StartedIn, Quiet
  <1>6. RtmpKeys'
    BY <1>1, <1>3 DEF RtmpKeys, Started, StartedIn, Quiet
  <1> QED BY <1>2, <1>4, <1>5, <1>6, OthersKeep

LEMMA QuietSteps ==
  ASSUME IInv, RtmpOnly,
         \/ Rtmp!AcceptFails \/ Rtmp!ReadFails \/ Rtmp!Read \/ Rtmp!PublishAccepted
         \/ Rtmp!RequestRejected \/ Rtmp!VideoHeader \/ Rtmp!EndOfSequence \/ Rtmp!AudioHeader
         \/ Rtmp!EventFails \/ Rtmp!ReadRejected \/ Rtmp!ReadDone
  PROVE  Quiet
  <1> USE DEF Rtmp!sharedVars, Rtmp!ownVars
  <1>1. peer \in Rtmp!Peer /\ (reading # "no" => peer.here /\ ended = "no")
    BY OthersKeep DEF RtmpInv
  <1>2. CASE Rtmp!AcceptFails \/ Rtmp!Read \/ Rtmp!RequestRejected \/ Rtmp!ReadDone
    BY <1>1, <1>2 DEF Rtmp!AcceptFails, Rtmp!Read, Rtmp!RequestRejected, Rtmp!ReadDone,
                        Rtmp!Pumping, Quiet
  <1>3. CASE Rtmp!ReadFails \/ Rtmp!EventFails \/ Rtmp!ReadRejected
    BY <1>3 DEF Rtmp!ReadFails, Rtmp!EventFails, Rtmp!ReadRejected, Rtmp!PumpFails, Quiet
  <1>4. CASE \/ Rtmp!PublishAccepted \/ Rtmp!VideoHeader \/ Rtmp!EndOfSequence \/ Rtmp!AudioHeader
    <2>1. /\ UNCHANGED <<session, latest, marks, pending, reading>> /\ reading # "no"
          /\ \/ peer' = [peer EXCEPT !.publishing = TRUE]
             \/ peer' = [peer EXCEPT !.config = TRUE, !.waiting = TRUE]
             \/ peer' = [peer EXCEPT !.waiting = TRUE]
             \/ peer' = [peer EXCEPT !.aac = TRUE]
          /\ ended' = ended
      BY <1>4 DEF Rtmp!PublishAccepted, Rtmp!VideoHeader, Rtmp!EndOfSequence, Rtmp!AudioHeader
    <2>2. /\ peer' \in Rtmp!Peer /\ peer'.here = peer.here
          /\ peer'.config /\ ~peer'.waiting => peer.config /\ ~peer.waiting
      BY <1>1, <2>1 DEF Rtmp!Peer
    <2> QED BY <1>1, <2>1, <2>2 DEF Quiet
  <1> QED BY <1>2, <1>3, <1>4

LEMMA AcceptKeeps ==
  ASSUME IInv, RtmpOnly, Rtmp!Accept
  PROVE  IInv'
  <1>1. SharedInv /\ RtmpInv /\ RtmpMarks /\ RtmpKeys /\ protocol' = protocol
    BY OthersKeep
  <1>2. /\ session' = session + 1 /\ session < MaxSession /\ peer' = Rtmp!NewPeer
        /\ UNCHANGED <<latest, pending, reading>> /\ reading = "no"
        /\ IF session > 0 THEN marks' = [s \in Media |-> TRUE] ELSE marks' = marks
    BY DEF Rtmp!Accept, Rtmp!Pumping
  <1>3. Rtmp!NewPeer \in Rtmp!Peer /\ Rtmp!NewPeer.here /\ ~Rtmp!NewPeer.config
    BY DEF Rtmp!NewPeer, Rtmp!NoPeer, Rtmp!Peer
  <1>4. session \in Nat /\ session' \in 0 .. MaxSession
    BY <1>1, <1>2, SourcesAssumption DEF SharedInv
  <1>5. SharedInv'
    <2>1. marks' \in [Media -> BOOLEAN]
      BY <1>1, <1>2 DEF SharedInv
    <2>2. \A s \in Stream : latest[s] <= session + 1
      BY <1>1, <1>4 DEF SharedInv
    <2> QED BY <2>1, <2>2, <1>1, <1>2, <1>4 DEF SharedInv
  <1>6. /\ pending \in Seq(Rtmp!Packet)
        /\ \A i \in 1 .. Len(pending) : pending[i].session \in Nat
    <2>1. pending \in Seq(Rtmp!Packet)
      BY <1>1 DEF RtmpInv
    <2>2. \A p \in Rtmp!Packet : p.session \in Nat
      BY SourcesAssumption DEF Rtmp!Packet
    <2> QED BY <2>1, <2>2
  <1>7. RtmpInv'
    BY <1>1, <1>2, <1>3, <1>4, <1>6 DEF RtmpInv
  <1>8. RtmpKeys'
    BY <1>1, <1>2, <1>3 DEF RtmpKeys, Started, StartedIn
  <1>9. \A s \in Media : ~Started(s, session + 1, Len(pending) + 1)
    BY <1>1, <1>4, <1>6 DEF SharedInv, RtmpInv, Started, StartedIn, Stream, Media
  <1>10. \A s \in Media : /\ marks'[s] => session' > 1 /\ ~Started(s, session + 1, Len(pending) + 1)
                          /\ session' > 1 => marks'[s]
    BY <1>1, <1>2, <1>4, <1>9 DEF RtmpMarks
  <1>11. RtmpMarks'
    BY <1>1, <1>2, <1>10 DEF RtmpMarks, Started, StartedIn
  <1> QED BY <1>5, <1>7, <1>8, <1>11, OthersKeep

LEMMA PushKeeps ==
  ASSUME IInv, RtmpOnly, NEW s \in Media, NEW key \in BOOLEAN, Rtmp!Push(s, key),
         reading # "no",
         s = "video" => peer.config /\ (key \/ ~peer.waiting)
  PROVE  IInv'
  <1>1. /\ SharedInv /\ RtmpInv /\ RtmpMarks /\ RtmpKeys /\ protocol' = protocol
        /\ session \in Nat
    BY OthersKeep, SourcesAssumption DEF SharedInv
  <1>2. /\ marks' = [marks EXCEPT ![s] = FALSE] /\ UNCHANGED <<session, latest>>
    BY DEF Rtmp!Push, Rtmp!PumpFails
  <1>3. /\ marks' \in [Media -> BOOLEAN] /\ ~marks'[s]
        /\ \A t \in Media : marks'[t] => marks[t] /\ t # s
        /\ \A t \in Media \ {s} : marks'[t] = marks[t]
    BY <1>1, <1>2 DEF SharedInv
  <1>4. SharedInv'
    BY <1>1, <1>2, <1>3 DEF SharedInv
  <1>5. peer.here /\ peer \in Rtmp!Peer
    BY <1>1 DEF RtmpInv
  <1>6. CASE Len(pending) >= MaxPending
    <2>1. pending' = pending /\ peer' = Rtmp!NoPeer /\ reading' = "no"
      BY <1>6 DEF Rtmp!Push, Rtmp!PumpFails
    <2>2. Rtmp!NoPeer \in Rtmp!Peer /\ ~Rtmp!NoPeer.here /\ ~Rtmp!NoPeer.config
      BY DEF Rtmp!NoPeer, Rtmp!Peer
    <2>3. RtmpInv' /\ RtmpKeys'
      BY <2>1, <2>2, <1>1, <1>2 DEF RtmpInv, RtmpKeys, Started
    <2>4. RtmpMarks'
      BY <2>1, <2>2, <1>1, <1>2, <1>3 DEF RtmpMarks, Started
    <2> QED BY <2>3, <2>4, <1>4, OthersKeep
  <1>7. CASE ~(Len(pending) >= MaxPending)
    <2> DEFINE e == [stream |-> s, session |-> session, marked |-> marks[s], key |-> key,
                     own |-> FALSE, format |-> AnyFormat]
    <2>1. /\ pending' = Append(pending, e) /\ UNCHANGED <<reading, ended>>
          /\ peer' = IF s = "video" /\ key THEN [peer EXCEPT !.waiting = FALSE] ELSE peer
      BY <1>7 DEF Rtmp!Push
    <2>2. e \in Rtmp!Packet
      <3>1. session \in 1 .. MaxSession /\ marks[s] \in BOOLEAN
        BY <1>1, <1>5, SourcesAssumption DEF SharedInv, RtmpInv
      <3> QED BY <3>1 DEF Rtmp!Packet
    <2>3. PICK p \in Rtmp!Packet :
            /\ p = e /\ p.stream = s /\ p.session = session /\ p.marked = marks[s] /\ p.key = key
            /\ p.own = FALSE
      BY <2>2
    <2> HIDE DEF e
    <2>4. PICK n \in Nat : n = Len(pending)
      BY <1>1 DEF RtmpInv
    <2>5. /\ pending \in Seq(Rtmp!Packet)
          /\ pending' \in Seq(Rtmp!Packet) /\ Len(pending') = n + 1
          /\ \A i \in 1 .. n : pending'[i] = pending[i]
          /\ pending'[n + 1] = p
      BY <2>1, <2>3, <2>4, <1>1, AppendAt DEF RtmpInv
    <2>6. /\ peer' \in Rtmp!Peer /\ peer'.here /\ peer'.config = peer.config
          /\ s = "video" \/ peer' = peer
          /\ ended' = "no"
      BY <2>1, <1>1, <1>5 DEF Rtmp!Peer, RtmpInv
    <2>7. RtmpInv'
      <3> SUFFICES ASSUME NEW i \in 1 .. n + 1
                   PROVE  /\ pending'[i].session <= session
                          /\ \A t \in Media : latest[t] <= pending'[i].session
                          /\ \A j \in 1 .. i : pending'[j].session <= pending'[i].session
                          /\ ~pending'[i].own
        BY <2>5, <2>6, <1>1, <1>2 DEF RtmpInv
      <3>1. CASE i \in 1 .. n
        BY <3>1, <2>4, <2>5, <1>1 DEF RtmpInv
      <3>2. CASE i = n + 1
        <4>1. \A j \in 1 .. n : pending'[j].session <= session
          BY <2>4, <2>5, <1>1 DEF RtmpInv
        <4>2. \A t \in Media : latest[t] <= session
          BY <1>1 DEF SharedInv, Stream
        <4> QED BY <3>2, <4>1, <4>2, <2>3, <2>5, <1>1
      <3> QED BY <3>1, <3>2
    <2> DEFINE After(t, k, i) == StartedIn(pending', latest, t, k, i)
    <2>8. \A t \in Media, k \in Nat : \A i \in 1 .. n + 1 : After(t, k, i) <=> Started(t, k, i)
      BY <2>5 DEF Started, StartedIn
    <2>9. \A t \in Media : After(t, session, n + 2) <=> t = s \/ Started(t, session, n + 1)
      <3> SUFFICES ASSUME NEW t \in Media
                   PROVE  After(t, session, n + 2) <=> t = s \/ Started(t, session, n + 1)
        OBVIOUS
      <3>1. (n + 2) - 1 = n + 1 /\ (n + 1) - 1 = n
        OBVIOUS
      <3>2. (\E j \in 1 .. n + 1 : pending'[j].stream = t /\ pending'[j].session = session)
              <=> t = s \/ \E j \in 1 .. n : pending[j].stream = t /\ pending[j].session = session
        <4>1. pending'[n + 1].stream = t /\ pending'[n + 1].session = session <=> t = s
          BY <2>3, <2>5
        <4>2. \A j \in 1 .. n + 1 : j \in 1 .. n \/ j = n + 1
          OBVIOUS
        <4> QED BY <4>1, <4>2, <2>5
      <3> QED BY <3>1, <3>2 DEF Started, StartedIn
    <2>10. \A i \in 1 .. n + 1 : pending'[i].stream \in Media /\ pending'[i].session \in Nat
      <3>1. \A q \in Rtmp!Packet : q.stream \in Media /\ q.session \in Nat
        BY SourcesAssumption DEF Rtmp!Packet
      <3>2. \A i \in 1 .. n + 1 : pending'[i] \in Rtmp!Packet
        BY <2>5
      <3> QED BY <3>1, <3>2
    <2> HIDE DEF After
    <2>11. RtmpMarks'
      <3>1. ASSUME NEW i \in 1 .. n + 1
            PROVE  pending'[i].marked <=>
                     pending'[i].session > 1 /\ ~After(pending'[i].stream, pending'[i].session, i)
        <4>1. CASE i \in 1 .. n
          <5>1. pending[i].marked <=>
                  pending[i].session > 1 /\ ~Started(pending[i].stream, pending[i].session, i)
            BY <4>1, <2>4, <1>1 DEF RtmpMarks
          <5> QED BY <4>1, <5>1, <2>5, <2>8, <2>10
        <4>2. CASE i = n + 1
          <5>1. marks[s] <=> session > 1 /\ ~Started(s, session, n + 1)
            BY <2>4, <1>1, <1>5 DEF RtmpMarks
          <5>2. After(s, session, n + 1) <=> Started(s, session, n + 1)
            BY <2>8, <1>1
          <5> QED BY <4>2, <5>1, <5>2, <2>3, <2>5
        <4> QED BY <4>1, <4>2
      <3>2. ASSUME NEW t \in Media
            PROVE  /\ marks'[t] => session > 1 /\ ~After(t, session, n + 2)
                   /\ session > 1 => marks'[t] \/ After(t, session, n + 2)
        <4>1. /\ marks[t] => session > 1 /\ ~Started(t, session, n + 1)
              /\ session > 1 => marks[t] \/ Started(t, session, n + 1)
          BY <2>4, <1>1, <1>5 DEF RtmpMarks
        <4> QED BY <4>1, <2>9, <1>3
      <3>3. Len(pending') + 1 = n + 2
        BY <2>5
      <3> QED BY <3>1, <3>2, <3>3, <2>5, <1>2 DEF RtmpMarks, Started, After
    <2>12. RtmpKeys'
      <3>1. ASSUME NEW i \in 1 .. n + 1, pending'[i].stream = "video"
            PROVE  pending'[i].key \/ After("video", pending'[i].session, i)
        <4>1. CASE i \in 1 .. n
          <5>1. pending[i].key \/ Started("video", pending[i].session, i)
            BY <3>1, <4>1, <2>4, <2>5, <1>1 DEF RtmpKeys
          <5> QED BY <4>1, <5>1, <2>5, <2>8, <2>10 DEF Media
        <4>2. CASE i = n + 1
          <5>1. s = "video"
            BY <3>1, <4>2, <2>3, <2>5
          <5>2. key \/ Started("video", session, n + 1)
            BY <5>1, <2>4, <1>1 DEF RtmpKeys
          <5>3. After("video", session, n + 1) <=> Started("video", session, n + 1)
            BY <2>8, <1>1 DEF Media
          <5> QED BY <4>2, <5>1, <5>2, <5>3, <2>3, <2>5
        <4> QED BY <4>1, <4>2
      <3>2. peer'.config /\ ~peer'.waiting => After("video", session, n + 2)
        BY <2>4, <2>6, <2>9, <1>1 DEF RtmpKeys, Media
      <3>3. Len(pending') + 1 = n + 2
        BY <2>5
      <3> QED BY <3>1, <3>2, <3>3, <2>5, <1>2 DEF RtmpKeys, Started, After
    <2> QED BY <2>7, <2>11, <2>12, <1>4, OthersKeep
  <1> QED BY <1>6, <1>7

LEMMA PopKeeps ==
  ASSUME IInv, RtmpOnly, Rtmp!Pop
  PROVE  IInv'
  <1>1. /\ SharedInv /\ RtmpInv /\ RtmpMarks /\ RtmpKeys /\ protocol' = protocol
        /\ session \in Nat /\ pending \in Seq(Rtmp!Packet) /\ pending # <<>>
    BY OthersKeep, SourcesAssumption DEF SharedInv, RtmpInv, Rtmp!Pop
  <1>2. PICK n \in Nat \ {0}, h \in Rtmp!Packet :
          n = Len(pending) /\ h = Head(pending) /\ h = pending[1]
    BY <1>1, TailAt
  <1>3. /\ pending' \in Seq(Rtmp!Packet) /\ Len(pending') = n - 1
        /\ \A i \in 1 .. n - 1 : pending'[i] = pending[i + 1]
    BY <1>1, <1>2, TailAt DEF Rtmp!Pop
  <1>4. /\ latest' = [latest EXCEPT ![h.stream] = h.session]
        /\ UNCHANGED <<session, marks, peer, reading, ended>>
    BY <1>2 DEF Rtmp!Pop
  <1>5. h.stream \in Media /\ h.stream \in Stream /\ h.session \in Nat
    BY SourcesAssumption DEF Rtmp!Packet, Stream
  <1>6. /\ h.session <= session
        /\ \A s \in Media : latest[s] <= h.session
        /\ \A i \in 1 .. n : h.session <= pending[i].session
    BY <1>1, <1>2 DEF RtmpInv
  <1>7. /\ latest' \in [Stream -> Nat] /\ latest'[h.stream] = h.session
        /\ \A s \in Stream \ {h.stream} : latest'[s] = latest[s]
    BY <1>1, <1>4, <1>5 DEF SharedInv
  <1>8. SharedInv'
    <2>1. protocol # "srt" => latest'["chunks"] = latest["chunks"]
      BY <1>5, <1>7 DEF Stream, Media
    <2> QED BY <2>1, <1>1, <1>4, <1>6, <1>7 DEF SharedInv
  <1>9. RtmpInv'
    <2> SUFFICES ASSUME NEW i \in 1 .. n - 1
                 PROVE  /\ pending'[i].session <= session
                        /\ \A s \in Media : latest'[s] <= pending'[i].session
                        /\ \A j \in 1 .. i : pending'[j].session <= pending'[i].session
                        /\ ~pending'[i].own
      BY <1>1, <1>3, <1>4 DEF RtmpInv
    <2>1. i + 1 \in 1 .. n /\ pending'[i] = pending[i + 1]
      BY <1>3
    <2>2. \A j \in 1 .. i : j + 1 \in 1 .. i + 1 /\ pending'[j] = pending[j + 1]
      BY <1>3
    <2>3. /\ pending[i + 1].session <= session /\ ~pending[i + 1].own
          /\ \A j \in 1 .. i + 1 : pending[j].session <= pending[i + 1].session
          /\ \A s \in Media : latest[s] <= pending[i + 1].session
      BY <2>1, <1>1, <1>2 DEF RtmpInv
    <2>4. \A s \in Media : latest'[s] <= pending'[i].session
      BY <2>1, <2>3, <1>6, <1>7 DEF Stream
    <2> QED BY <2>1, <2>2, <2>3, <2>4
  <1> DEFINE After(s, k, i) == StartedIn(pending', latest', s, k, i)
  <1>10. ASSUME NEW s \in Media, NEW k \in Nat, h.session <= k, NEW i \in 1 .. n
         PROVE  After(s, k, i) <=> Started(s, k, i + 1)
    <2>1. (i + 1) - 1 = i
      OBVIOUS
    <2>2. (\E j \in 1 .. i : pending[j].stream = s /\ pending[j].session = k) <=>
            \/ h.stream = s /\ h.session = k
            \/ \E j \in 1 .. i - 1 : pending'[j].stream = s /\ pending'[j].session = k
      <3>1. ASSUME NEW j \in 1 .. i, pending[j].stream = s, pending[j].session = k
            PROVE  \/ h.stream = s /\ h.session = k
                   \/ \E m \in 1 .. i - 1 : pending'[m].stream = s /\ pending'[m].session = k
        <4>1. CASE j = 1
          BY <3>1, <4>1, <1>2
        <4>2. CASE j # 1
          <5>1. j - 1 \in 1 .. i - 1 /\ pending'[j - 1] = pending[j]
            BY <4>2, <1>3
          <5> QED BY <3>1, <5>1
        <4> QED BY <4>1, <4>2
      <3>2. ASSUME NEW j \in 1 .. i - 1, pending'[j].stream = s, pending'[j].session = k
            PROVE  \E m \in 1 .. i : pending[m].stream = s /\ pending[m].session = k
        <4>1. j + 1 \in 1 .. i /\ pending'[j] = pending[j + 1]
          BY <1>3
        <4> QED BY <3>2, <4>1
      <3>3. h.stream = s /\ h.session = k =>
              \E m \in 1 .. i : pending[m].stream = s /\ pending[m].session = k
        BY <1>2
      <3> QED BY <3>1, <3>2, <3>3
    <2>3. (latest'[s] = k) <=> (h.stream = s /\ h.session = k) \/ (h.stream # s /\ latest[s] = k)
      BY <1>7 DEF Stream
    <2>4. latest[s] = k /\ h.stream = s => h.session = k
      BY <1>1, <1>5, <1>6, <1>10 DEF SharedInv, Stream
    <2> QED BY <2>1, <2>2, <2>3, <2>4 DEF Started, StartedIn
  <1> HIDE DEF After
  <1>11. \A i \in 1 .. n - 1 : /\ i \in 1 .. n /\ i + 1 \in 1 .. n
                              /\ pending'[i] = pending[i + 1]
                              /\ pending[i + 1].stream \in Media /\ pending[i + 1].session \in Nat
                              /\ h.session <= pending[i + 1].session
    <2>1. \A p \in Rtmp!Packet : p.stream \in Media /\ p.session \in Nat
      BY SourcesAssumption DEF Rtmp!Packet
    <2>2. \A i \in 1 .. n - 1 : i \in 1 .. n /\ i + 1 \in 1 .. n
      OBVIOUS
    <2>3. \A i \in 1 .. n : pending[i] \in Rtmp!Packet
      BY <1>1, <1>2
    <2> QED BY <2>1, <2>2, <2>3, <1>3, <1>6
  <1>12. Len(pending') + 1 = n /\ Len(pending) + 1 = n + 1 /\ n \in 1 .. n
    BY <1>2, <1>3
  <1>13. RtmpMarks'
    <2>1. ASSUME NEW i \in 1 .. n - 1
          PROVE  pending'[i].marked <=>
                   pending'[i].session > 1 /\ ~After(pending'[i].stream, pending'[i].session, i)
      <3>1. pending[i + 1].marked <=>
              pending[i + 1].session > 1 /\ ~Started(pending[i + 1].stream, pending[i + 1].session, i + 1)
        BY <1>1, <1>2, <1>11 DEF RtmpMarks
      <3> QED BY <3>1, <1>10, <1>11
    <2>2. ASSUME NEW s \in Media
          PROVE  /\ marks[s] => session > 1 /\ ~After(s, session, n)
                 /\ peer.here /\ session > 1 => marks[s] \/ After(s, session, n)
      <3>1. After(s, session, n) <=> Started(s, session, n + 1)
        BY <1>1, <1>6, <1>10, <1>12
      <3> QED BY <3>1, <1>1, <1>12 DEF RtmpMarks
    <2> QED BY <2>1, <2>2, <1>3, <1>4, <1>12 DEF RtmpMarks, Started, After
  <1>14. RtmpKeys'
    <2>1. ASSUME NEW i \in 1 .. n - 1, pending'[i].stream = "video"
          PROVE  pending'[i].key \/ After("video", pending'[i].session, i)
      <3>1. pending[i + 1].key \/ Started("video", pending[i + 1].session, i + 1)
        BY <2>1, <1>1, <1>2, <1>11 DEF RtmpKeys
      <3> QED BY <3>1, <1>10, <1>11 DEF Media
    <2>2. peer.config /\ ~peer.waiting => After("video", session, n)
      <3>1. After("video", session, n) <=> Started("video", session, n + 1)
        BY <1>1, <1>6, <1>10, <1>12 DEF Media
      <3> QED BY <3>1, <1>1, <1>12 DEF RtmpKeys
    <2> QED BY <2>1, <2>2, <1>3, <1>4, <1>12 DEF RtmpKeys, Started, After
  <1> QED BY <1>8, <1>9, <1>13, <1>14, OthersKeep

\* close drops what is left in the queue, with the marks in it: nothing is given
\* out any more.
LEMMA CloseKeeps ==
  ASSUME IInv, RtmpOnly, Rtmp!Close
  PROVE  IInv'
  <1>1. /\ SharedInv /\ RtmpInv /\ RtmpMarks /\ RtmpKeys /\ protocol' = protocol
        /\ session \in Nat /\ Len(pending) \in Nat
    BY OthersKeep, SourcesAssumption DEF SharedInv, RtmpInv
  <1>2. /\ pending' = <<>> /\ peer' = Rtmp!NoPeer /\ reading = "no"
        /\ UNCHANGED <<session, latest, marks, reading>>
    BY <1>1 DEF Rtmp!Close, RtmpInv
  <1>3. Rtmp!NoPeer \in Rtmp!Peer /\ ~Rtmp!NoPeer.here /\ ~Rtmp!NoPeer.config
    BY DEF Rtmp!NoPeer, Rtmp!Peer
  <1>4. SharedInv' /\ RtmpInv' /\ RtmpKeys'
    BY <1>1, <1>2, <1>3 DEF SharedInv, RtmpInv, RtmpKeys
  <1>5. Len(pending') = 0
    BY <1>2
  <1>6. RtmpMarks'
    BY <1>1, <1>2, <1>3, <1>5 DEF RtmpMarks, Started, StartedIn
  <1> QED BY <1>4, <1>6, OthersKeep

LEMMA RtmpKeeps ==
  ASSUME IInv, RtmpOnly, Rtmp!Next
  PROVE  IInv'
  <1>1. CASE Rtmp!VideoFrame(TRUE) \/ Rtmp!VideoFrame(FALSE)
    <2>1. PICK key \in BOOLEAN : Rtmp!VideoFrame(key)
      BY <1>1
    <2>2. Rtmp!Push("video", key) /\ reading # "no" /\ peer.config /\ (key \/ ~peer.waiting)
      BY <2>1 DEF Rtmp!VideoFrame
    <2> QED BY <2>2, PushKeeps DEF Media
  <1>2. CASE Rtmp!AudioFrame
    <2>1. Rtmp!Push("audio", TRUE) /\ reading # "no"
      BY <1>2 DEF Rtmp!AudioFrame
    <2> QED BY <2>1, PushKeeps DEF Media
  <1>3. CASE Rtmp!Accept \/ Rtmp!Pop \/ Rtmp!Close
    BY <1>3, AcceptKeeps, PopKeeps, CloseKeeps
  <1>4. CASE \/ Rtmp!AcceptFails \/ Rtmp!ReadFails \/ Rtmp!Read \/ Rtmp!PublishAccepted
             \/ Rtmp!RequestRejected \/ Rtmp!VideoHeader \/ Rtmp!EndOfSequence \/ Rtmp!AudioHeader
             \/ Rtmp!EventFails \/ Rtmp!ReadRejected \/ Rtmp!ReadDone
    BY <1>4, QuietSteps, QuietKeeps
  <1> QED BY <1>1, <1>2, <1>3, <1>4 DEF Rtmp!Next

-----------------------------------------------------------------------------
(* RTSP.                                                                    *)
LEMMA FrameKeeps ==
  ASSUME IInv, RtspOnly, NEW s \in Media, NEW loss, NEW changed, NEW reported, NEW nal,
         Rtsp!Frame(s, loss, changed, reported, nal)
  PROVE  IInv'
  <1>1. protocol = "rtsp" /\ protocol' = protocol /\ SharedInv /\ RtspInv
    BY DEF RtspOnly, IInv
  <1>2. /\ session \in Nat /\ session > 0
        /\ latest' = [latest EXCEPT ![s] = session]
        /\ UNCHANGED <<session, phase, profile>>
        /\ \/ marks' = marks /\ plain' = plain
           \/ marks' = [marks EXCEPT ![s] = FALSE] /\ plain' = plain \cup {s}
    BY <1>1, SourcesAssumption DEF Rtsp!Frame, Rtsp!Taken, Rtsp!Receiving, SharedInv, RtspInv
  <1>3. SharedInv'
    <2>1. marks' \in [Media -> BOOLEAN]
      BY <1>1, <1>2 DEF SharedInv
    <2>2. latest' \in [Stream -> Nat] /\ latest'[s] = session
      BY <1>1, <1>2 DEF SharedInv, Stream
    <2>3. \A t \in Stream : latest'[t] <= session
      BY <1>1, <1>2, <2>2 DEF SharedInv
    <2>4. latest'["chunks"] = latest["chunks"]
      BY <1>1, <1>2 DEF SharedInv, Stream, Media
    <2> QED BY <2>1, <2>2, <2>3, <2>4, <1>1, <1>2 DEF SharedInv
  <1>4. latest'[s] = session /\ \A t \in Media \ {s} : latest'[t] = latest[t]
    BY <1>1, <1>2 DEF SharedInv, Stream
  <1>5. RtspInv'
    BY <1>1, <1>2, <1>4 DEF RtspInv, SharedInv
  <1>6. NativeInv'
    BY DEF IInv, RtspOnly, srtVars, NativeInv, HeldAt, Srt!Held
  <1> QED BY <1>1, <1>3, <1>5, <1>6 DEF IInv

RtspQuiet ==
  \/ Rtsp!MediaEnds \/ Rtsp!Unselected \/ \E status \in Rtsp!StatusCode : Rtsp!ReceiveFails(status)
  \/ Rtsp!WakeUp \/ \E offer \in Offers : Rtsp!Describe(offer)
  \/ Rtsp!SetUp \/ \E status \in Rtsp!StatusCode : Rtsp!AttemptFails(status)
  \/ Rtsp!Close

LEMMA RtspQuietFrame ==
  ASSUME RtspQuiet
  PROVE  /\ UNCHANGED <<session, latest, out, marks, profile, plain>>
         /\ phase' = "play" => phase = "play"
  <1> USE DEF Rtsp!sharedVars, Rtsp!backoffVars, Rtsp!dialVars
  <1>1. CASE Rtsp!MediaEnds \/ Rtsp!Unselected \/ \E status \in Rtsp!StatusCode : Rtsp!ReceiveFails(status)
    BY <1>1 DEF Rtsp!MediaEnds, Rtsp!Unselected, Rtsp!ReceiveFails, Rtsp!SessionFails
  <1>2. CASE Rtsp!WakeUp \/ Rtsp!SetUp \/ Rtsp!Close
    BY <1>2 DEF Rtsp!WakeUp, Rtsp!SetUp, Rtsp!Close
  <1>3. CASE \E offer \in Offers : Rtsp!Describe(offer)
    BY <1>3 DEF Rtsp!Describe, Rtsp!GiveUp
  <1>4. CASE \E status \in Rtsp!StatusCode : Rtsp!AttemptFails(status)
    BY <1>4 DEF Rtsp!AttemptFails, Rtsp!GiveUp
  <1> QED BY <1>1, <1>2, <1>3, <1>4 DEF RtspQuiet

LEMMA PlayKeeps ==
  ASSUME IInv, RtspOnly, Rtsp!Play
  PROVE  /\ IInv' /\ UNCHANGED <<latest, out>>
         /\ session > 0 => profile' = profile
  <1>1. protocol = "rtsp" /\ protocol' = protocol /\ SharedInv /\ RtspInv /\ session \in Nat
    BY SourcesAssumption DEF RtspOnly, IInv, SharedInv
  <1>2. NativeInv'
    BY DEF IInv, RtspOnly, srtVars, NativeInv, HeldAt, Srt!Held
  <1>3. CASE Rtsp!GiveUp
    <2>1. UNCHANGED <<session, latest, out, marks, profile, plain>> /\ phase' = "down"
      BY <1>3 DEF Rtsp!GiveUp
    <2> QED BY <2>1, <1>1, <1>2 DEF IInv, SharedInv, RtspInv
  <1>4. CASE ~Rtsp!GiveUp
    <2>1. /\ session < MaxSession /\ session' = session + 1 /\ profile' = offered
          /\ marks' = IF session = 0 THEN marks ELSE [s \in Media |-> TRUE]
          /\ plain' = {} /\ UNCHANGED <<latest, out>>
          /\ session # 0 => profile = offered
      BY <1>4 DEF Rtsp!Play, Rtsp!Compatible
    <2>2. session' \in 0 .. MaxSession /\ session' > 0
      BY <2>1, <1>1, SourcesAssumption
    <2>3. SharedInv'
      <3>1. marks' \in [Media -> BOOLEAN]
        BY <2>1, <1>1 DEF SharedInv
      <3>2. \A s \in Stream : latest[s] <= session + 1
        BY <1>1 DEF SharedInv
      <3> QED BY <2>1, <2>2, <3>1, <3>2, <1>1 DEF SharedInv
    <2>4. RtspInv'
      BY <2>1, <2>2, <1>1 DEF RtspInv
    <2> QED BY <2>1, <2>3, <2>4, <1>1, <1>2 DEF IInv
  <1> QED BY <1>3, <1>4

LEMMA RtspKeeps ==
  ASSUME IInv, RtspOnly, Rtsp!Next
  PROVE  IInv'
  <1>1. CASE \E s \in Media, loss, changed, reported \in BOOLEAN, nal \in {1, 5, 19} :
               Rtsp!Frame(s, loss, changed, reported, nal)
    BY <1>1, FrameKeeps
  <1>2. CASE Rtsp!Play
    BY <1>2, PlayKeeps
  <1>3. CASE RtspQuiet
    <2>1. protocol = "rtsp" /\ protocol' = protocol /\ SharedInv /\ RtspInv
      BY DEF RtspOnly, IInv
    <2>2. NativeInv'
      BY DEF IInv, RtspOnly, srtVars, NativeInv, HeldAt, Srt!Held
    <2>3. SharedInv' /\ RtspInv'
      BY <1>3, <2>1, RtspQuietFrame DEF SharedInv, RtspInv
    <2> QED BY <2>1, <2>2, <2>3 DEF IInv
  <1> QED BY <1>1, <1>2, <1>3 DEF Rtsp!Next, Rtsp!DialStep, RtspQuiet

-----------------------------------------------------------------------------
LEMMA StepIInv ==
  ASSUME IInv, [Next]_vars
  PROVE  IInv'
  <1>1. CASE SrtOnly /\ Srt!Next
    BY <1>1, SrtDialKeeps, SrtIoKeeps DEF Srt!Next, SrtIo
  <1>2. CASE RtmpOnly /\ Rtmp!Next
    BY <1>2, RtmpKeeps
  <1>3. CASE RtspOnly /\ Rtsp!Next
    BY <1>3, RtspKeeps
  <1>4. CASE UNCHANGED vars
    BY <1>4 DEF vars, statsVars, backoffVars, srtVars, rtmpVars, rtspVars, IInv, SharedInv, NativeInv,
                HeldAt, Srt!Held, SrtInv, RtmpInv, RtmpMarks, RtmpKeys, Started, StartedIn, RtspInv
  <1> QED BY <1>1, <1>2, <1>3, <1>4 DEF Next, Finished

LEMMA IInvAlways == Spec => []IInv
  BY InitIInv, StepIInv, PTL DEF Spec

(* libsrt holds a socket and an epoll for an endpoint that is connected, and  *)
(* nothing for one that is not, wherever SocketHandle::connect has failed.    *)
THEOREM SocketsAlwaysOwned == Spec => []SocketsOwned
  <1>1. IInv => SocketsOwned
    BY DEF IInv, NativeInv, SocketsOwned, HeldAt, Srt!DialStage
  <1> QED BY <1>1, IInvAlways, PTL

(* The monitor of an SRT endpoint never finds it back without a reconnection  *)
(* that it has not seen yet.                                                  *)
THEOREM SrtReturnsCounted == Spec => SrtReturnCounted
  <1>1. ASSUME IInv, IInv', [Next]_vars
        PROVE  [(~seen.connected /\ seen'.connected) => seen'.reconnects > seen.reconnects]_vars
    <2>1. CASE SrtOnly /\ Srt!Sample
      <3>1. /\ session > 0 /\ seen' = [connected |-> handle /\ ~broken, reconnects |-> Count(session)]
        BY <2>1 DEF Srt!Sample, Srt!reconnects, Count
      <3>2. seen'.connected <=> handle /\ ~broken
        BY <3>1
      <3>3. seen'.reconnects = Count(session)
        BY <3>1
      <3>4. SrtInv /\ SharedInv
        BY <1>1, <2>1 DEF SrtOnly, IInv
      <3>5. Count(session) \in Nat
        BY <3>4, SourcesAssumption DEF SharedInv, Count
      <3> QED BY <3>2, <3>3, <3>4, <3>5 DEF SrtInv
    <2>2. CASE seen' = seen
      BY <2>2
    <2>3. SrtOnly /\ Srt!Next => seen' = seen \/ Srt!Sample
      BY <1>1, SrtDialKeeps
         DEF Srt!Next, Srt!Ready, Srt!Due, Srt!Tick, Srt!Receive, Srt!ReceiveTimesOut, Srt!Sent,
             Srt!IoFails, Srt!SocketBreaks, Srt!Close, Srt!ownVars
    <2>4. RtmpOnly \/ RtspOnly \/ Finished \/ UNCHANGED vars => seen' = seen
      BY DEF RtmpOnly, RtspOnly, Finished, vars, srtVars
    <2> QED BY <1>1, <2>1, <2>2, <2>3, <2>4 DEF Next
  <1> QED BY <1>1, IInvAlways, PTL DEF Spec, SrtReturnCounted

-----------------------------------------------------------------------------
(* What a step gives out, for the three properties of the units.            *)
LEMMA PopGives ==
  ASSUME IInv, RtmpOnly, Rtmp!Pop
  PROVE  /\ out' \in Rtmp!Packet
         /\ out'.session > 0 /\ out'.session <= MaxSession
         /\ \A s \in Media : latest[s] <= out'.session
         /\ latest' = [latest EXCEPT ![out'.stream] = out'.session]
         /\ ~out'.own
         /\ out'.marked <=> out'.session > 1 /\ latest[out'.stream] # out'.session
         /\ out'.stream = "video" => out'.key \/ latest["video"] = out'.session
  <1>1. /\ SharedInv /\ RtmpInv /\ RtmpMarks /\ RtmpKeys
        /\ pending \in Seq(Rtmp!Packet) /\ pending # <<>>
    BY OthersKeep DEF RtmpInv, Rtmp!Pop
  <1>2. PICK h \in Rtmp!Packet : h = pending[1] /\ h = Head(pending) /\ 1 \in 1 .. Len(pending)
    BY <1>1, TailAt
  <1>3. out' = h /\ latest' = [latest EXCEPT ![h.stream] = h.session]
    BY <1>2 DEF Rtmp!Pop
  <1>4. \A s \in Media : latest[s] <= h.session
    BY <1>1, <1>2 DEF RtmpInv
  <1>5. ~h.own
    BY <1>1, <1>2 DEF RtmpInv
  <1>6. \A s, k : Started(s, k, 1) <=> latest[s] = k
    BY DEF Started, StartedIn
  <1>7. h.marked <=> h.session > 1 /\ latest[h.stream] # h.session
    BY <1>1, <1>2, <1>6 DEF RtmpMarks
  <1>8. h.stream = "video" => h.key \/ latest["video"] = h.session
    BY <1>1, <1>2, <1>6 DEF RtmpKeys
  <1>9. h.session > 0 /\ h.session <= MaxSession
    BY SourcesAssumption DEF Rtmp!Packet
  <1> QED BY <1>3, <1>4, <1>5, <1>7, <1>8, <1>9

\* Every other step of the listener leaves the output alone.
LEMMA RtmpFrame ==
  ASSUME RtmpOnly, Rtmp!Next
  PROVE  Rtmp!Pop \/ UNCHANGED <<latest, out>>
  BY DEF Rtmp!Next, Rtmp!Accept, Rtmp!AcceptFails, Rtmp!ReadFails, Rtmp!Read, Rtmp!PublishAccepted,
         Rtmp!RequestRejected, Rtmp!VideoHeader, Rtmp!EndOfSequence, Rtmp!VideoFrame, Rtmp!AudioHeader,
         Rtmp!AudioFrame, Rtmp!EventFails, Rtmp!ReadRejected, Rtmp!ReadDone, Rtmp!Close, Rtmp!Push,
         Rtmp!PumpFails, Rtmp!sharedVars, Rtmp!ownVars

\* What a camera gives out.
LEMMA FrameGives ==
  ASSUME IInv, RtspOnly, NEW s \in Media, NEW loss, NEW changed, NEW reported, NEW nal,
         Rtsp!Frame(s, loss, changed, reported, nal)
  PROVE  /\ out'.stream = s /\ out'.session = session /\ session > 0
         /\ out'.format = profile[s] /\ profile[s] # Rtsp!NoTrack
         /\ latest' = [latest EXCEPT ![s] = session] /\ profile' = profile
         /\ session > 1 /\ latest[s] < session => out'.marked
         /\ out'.marked /\ ~out'.own => session > 1 /\ s \notin plain
  <1>1. RtspInv
    BY DEF RtspOnly, IInv
  <1>2. /\ out'.stream = s /\ out'.session = session /\ phase = "play"
        /\ out'.format = profile[s] /\ profile[s] # Rtsp!NoTrack
        /\ latest' = [latest EXCEPT ![s] = session] /\ profile' = profile
        /\ out'.own = (loss \/ changed) /\ out'.marked = (loss \/ changed \/ marks[s])
    BY DEF Rtsp!Frame, Rtsp!Receiving
  <1>3. /\ marks[s] => session > 1 /\ s \notin plain
        /\ session > 1 /\ latest[s] < session => marks[s]
        /\ session > 0
    BY <1>1, <1>2 DEF RtspInv
  <1> QED BY <1>2, <1>3

\* Every other step of a camera leaves the output alone, and the formats as the
\* first session has set them.
LEMMA RtspFrame ==
  ASSUME IInv, RtspOnly, Rtsp!Next
  PROVE  \/ \E s \in Media, loss, changed, reported \in BOOLEAN, nal \in {1, 5, 19} :
              Rtsp!Frame(s, loss, changed, reported, nal)
         \/ UNCHANGED <<latest, out>> /\ (session > 0 => profile' = profile)
  BY RtspQuietFrame, PlayKeeps DEF Rtsp!Next, Rtsp!DialStep, RtspQuiet

\* And every step of an SRT endpoint but one.
LEMMA SrtFrame ==
  ASSUME IInv, SrtOnly, Srt!Next
  PROVE  Srt!Receive \/ UNCHANGED <<latest, out>>
  BY SrtDialKeeps
     DEF Srt!Next, Srt!Ready, Srt!Due, Srt!Tick, Srt!ReceiveTimesOut, Srt!Sent, Srt!IoFails,
         Srt!SocketBreaks, Srt!Close, Srt!Sample, Srt!sharedVars

LEMMA QuietOtherwise ==
  ASSUME Finished \/ UNCHANGED vars
  PROVE  UNCHANGED <<latest, out, protocol, profile>>
  BY DEF Finished, vars, rtspVars

(* The first picture of a publisher is an IDR, whatever pictures and marks of *)
(* the publisher before it are still in the queue.                            *)
THEOREM RtmpAlwaysStartsAtKey == Spec => RtmpStartsAtKey
  <1>1. ASSUME IInv, [Next]_vars
        PROVE  [(protocol = "rtmp" /\ out' # out /\ out'.stream = "video"
                   /\ out'.session > latest["video"]) => out'.key]_vars
    <2>1. CASE RtmpOnly /\ Rtmp!Next
      <3>1. CASE Rtmp!Pop
        <4>1. latest["video"] \in Nat
          BY <1>1 DEF IInv, SharedInv, Stream, Media
        <4> QED BY <4>1, <1>1, <2>1, <3>1, PopGives
      <3> QED BY <2>1, <3>1, RtmpFrame
    <2>2. SrtOnly \/ RtspOnly => protocol # "rtmp"
      BY DEF SrtOnly, RtspOnly
    <2> QED BY <1>1, <2>1, <2>2, QuietOtherwise DEF Next
  <1> QED BY <1>1, IInvAlways, PTL DEF Spec, RtmpStartsAtKey

(* A mark that has no reason of its own is the first of its stream after a    *)
(* publisher or a session was replaced.                                       *)
THEOREM MarksAlwaysJustified == Spec => MarksJustified
  <1>1. ASSUME IInv, [Next]_vars
        PROVE  [(protocol # "srt" /\ out' # out /\ out'.marked /\ ~out'.own)
                  => /\ out'.session > 1
                     /\ IF protocol = "rtmp" THEN out'.session > latest[out'.stream]
                                             ELSE out'.stream \notin plain]_vars
    <2>1. CASE RtmpOnly /\ Rtmp!Next
      <3>1. CASE Rtmp!Pop
        <4>1. out'.stream \in Media /\ out'.session \in Nat
          BY <1>1, <2>1, <3>1, PopGives, SourcesAssumption DEF Rtmp!Packet
        <4>2. latest[out'.stream] \in Nat /\ latest[out'.stream] <= out'.session
          BY <4>1, <1>1, <2>1, <3>1, PopGives DEF IInv, SharedInv, Stream
        <4> QED BY <4>1, <4>2, <1>1, <2>1, <3>1, PopGives DEF RtmpOnly
      <3> QED BY <2>1, <3>1, RtmpFrame
    <2>2. CASE RtspOnly /\ Rtsp!Next
      <3>1. CASE \E s \in Media, loss, changed, reported \in BOOLEAN, nal \in {1, 5, 19} :
                   Rtsp!Frame(s, loss, changed, reported, nal)
        BY <1>1, <2>2, <3>1, FrameGives DEF RtspOnly
      <3> QED BY <1>1, <2>2, <3>1, RtspFrame
    <2>3. SrtOnly => protocol = "srt"
      BY DEF SrtOnly
    <2> QED BY <1>1, <2>1, <2>2, <2>3, QuietOtherwise DEF Next
  <1> QED BY <1>1, IInvAlways, PTL DEF Spec, MarksJustified

-----------------------------------------------------------------------------
(* The abstract source: its variables, as PacketSources gives them.         *)
unitOf == [stream |-> out.stream, session |-> out.session, marked |-> out.marked, format |-> out.format]

formatOf == [s \in Stream |-> IF protocol # "rtsp" THEN AnyFormat
                              ELSE IF s \in Media THEN profile[s]
                              ELSE Rtsp!NoTrack]

LEMMA MarkedInit ==
  ASSUME Init
  PROVE  Marked!Init
  <1>1. latest = [s \in Stream |-> 0]
    BY DEF Init
  <1>2. unitOf = Marked!NoUnit
    BY DEF Init, unitOf, NoPacket, Marked!NoUnit
  <1>3. DOMAIN formatOf = Stream
    BY DEF formatOf
  <1> QED BY <1>1, <1>2, <1>3 DEF Marked!Init, unitOf, formatOf

LEMMA MarkedGive ==
  ASSUME NEW s \in Stream,
         \A t \in Stream : latest[t] <= out'.session,
         out'.stream = s, out'.session \in 1 .. MaxSession,
         out'.format = formatOf[s], formatOf[s] # Rtsp!NoTrack,
         out'.session > 1 /\ out'.session > latest[s] => out'.marked,
         latest' = [latest EXCEPT ![s] = out'.session],
         formatOf' = formatOf
  PROVE  Marked!Next
  <1>1. Marked!Give(s)
    BY DEF Marked!Give, Marked!Session, formatOf
  <1> QED BY <1>1 DEF Marked!Next

LEMMA MarkedStep ==
  ASSUME IInv, [Next]_vars
  PROVE  Marked!Next \/ UNCHANGED <<formatOf, latest, unitOf>>
  <1>1. SharedInv
    BY DEF IInv
  <1>2. CASE SrtOnly /\ Srt!Next
    <2>1. protocol = "srt" /\ protocol' = protocol /\ NativeInv /\ SrtInv /\ formatOf' = formatOf
      BY <1>2 DEF SrtOnly, IInv, formatOf
    <2>2. CASE Srt!Receive
      <3>1. /\ out'.stream = "chunks" /\ out'.session = session /\ out'.format = AnyFormat
            /\ out'.marked <=> Count(session) # received
            /\ latest' = [latest EXCEPT !["chunks"] = session] /\ task = "io"
        BY <2>2 DEF Srt!Receive, Srt!reconnects, Count
      <3>2. session \in 1 .. MaxSession /\ latest["chunks"] \in Nat
        BY <3>1, <2>1, <1>1, SourcesAssumption DEF SrtInv, SharedInv, Stream
      <3>3. session > 1 /\ session > latest["chunks"] => out'.marked
        <4>1. received = Count(latest["chunks"])
          BY <2>1 DEF SrtInv
        <4>2. session > 1 /\ session > latest["chunks"] => Count(session) # Count(latest["chunks"])
          BY <3>2 DEF Count
        <4> QED BY <3>1, <4>1, <4>2
      <3>4. formatOf["chunks"] = AnyFormat /\ AnyFormat # Rtsp!NoTrack
        BY <2>1 DEF formatOf, Stream, AnyFormat, Rtsp!NoTrack
      <3>5. \A t \in Stream : latest[t] <= out'.session
        BY <3>1, <1>1 DEF SharedInv
      <3> QED BY <3>1, <3>2, <3>3, <3>4, <3>5, <2>1, MarkedGive DEF Stream
    <2>3. CASE UNCHANGED <<latest, out>>
      BY <2>1, <2>3 DEF unitOf
    <2> QED BY <1>2, <2>2, <2>3, SrtFrame
  <1>3. CASE RtmpOnly /\ Rtmp!Next
    <2>1. protocol = "rtmp" /\ protocol' = protocol /\ formatOf' = formatOf
      BY <1>3 DEF RtmpOnly, formatOf
    <2>2. CASE Rtmp!Pop
      <3>1. /\ out' \in Rtmp!Packet /\ out'.session > 0 /\ out'.session <= MaxSession
            /\ \A t \in Media : latest[t] <= out'.session
            /\ latest' = [latest EXCEPT ![out'.stream] = out'.session]
            /\ out'.session > 1 /\ latest[out'.stream] # out'.session => out'.marked
        BY <1>3, <2>2, PopGives
      <3>2. PICK s \in Media, k \in Nat : s = out'.stream /\ k = out'.session
        BY <3>1, SourcesAssumption DEF Rtmp!Packet
      <3>3. s \in Stream /\ out'.format = AnyFormat /\ formatOf[s] = AnyFormat /\ AnyFormat # Rtsp!NoTrack
        BY <3>1, <2>1 DEF Rtmp!Packet, formatOf, Stream, AnyFormat, Rtsp!NoTrack
      <3>4. \A t \in Stream : latest[t] <= out'.session
        BY <3>1, <3>2, <2>1, <1>1 DEF SharedInv, Stream
      <3>5. out'.session \in 1 .. MaxSession /\ out'.format = formatOf[s] /\ out'.stream = s
        BY <3>1, <3>2, <3>3, SourcesAssumption
      <3>6. out'.session > 1 /\ out'.session > latest[s] => out'.marked
        BY <3>1, <3>2, <3>3, <1>1 DEF SharedInv
      <3> QED BY <3>1, <3>2, <3>3, <3>4, <3>5, <3>6, <2>1, MarkedGive
    <2>3. CASE UNCHANGED <<latest, out>>
      BY <2>1, <2>3 DEF unitOf
    <2> QED BY <1>3, <2>2, <2>3, RtmpFrame
  <1>4. CASE RtspOnly /\ Rtsp!Next
    <2>1. protocol = "rtsp" /\ protocol' = protocol /\ RtspInv
      BY <1>4 DEF RtspOnly, IInv
    <2>2. CASE \E s \in Media, loss, changed, reported \in BOOLEAN, nal \in {1, 5, 19} :
                 Rtsp!Frame(s, loss, changed, reported, nal)
      <3>1. PICK s \in Media, loss \in BOOLEAN, changed \in BOOLEAN, reported \in BOOLEAN, nal \in {1, 5, 19} :
              Rtsp!Frame(s, loss, changed, reported, nal)
        BY <2>2
      <3>2. /\ out'.stream = s /\ out'.session = session /\ session > 0
            /\ out'.format = profile[s] /\ profile[s] # Rtsp!NoTrack
            /\ latest' = [latest EXCEPT ![s] = session] /\ profile' = profile
            /\ session > 1 /\ latest[s] < session => out'.marked
        BY <1>4, <3>1, FrameGives
      <3>3. s \in Stream /\ formatOf[s] = profile[s] /\ formatOf' = formatOf
        BY <2>1, <3>2 DEF formatOf, Stream
      <3>4. session \in 1 .. MaxSession /\ latest[s] \in Nat
        BY <1>1, <3>2, <3>3, SourcesAssumption DEF SharedInv
      <3>5. \A t \in Stream : latest[t] <= out'.session
        BY <3>2, <1>1 DEF SharedInv
      <3> QED BY <3>2, <3>3, <3>4, <3>5, MarkedGive
    <2>3. CASE UNCHANGED <<latest, out>> /\ (session > 0 => profile' = profile)
      <3>1. CASE session > 0
        BY <2>1, <2>3, <3>1 DEF unitOf, formatOf
      <3>2. CASE ~(session > 0)
        <4>1. session = 0
          BY <3>2, <1>1, SourcesAssumption DEF SharedInv
        <4>2. profile = Rtsp!NoProfile
          BY <4>1, <2>1 DEF RtspInv
        <4>3. \A t \in Media : profile[t] = Rtsp!NoTrack
          BY <4>2 DEF Rtsp!NoProfile
        <4>4. formatOf = Marked!Unopened /\ DOMAIN formatOf' = Stream
          BY <4>3, <2>1 DEF formatOf, Marked!Unopened
        <4>5. Marked!Open
          BY <4>4, <2>3 DEF Marked!Open, formatOf, unitOf
        <4> QED BY <4>5 DEF Marked!Next
      <3> QED BY <3>1, <3>2
    <2> QED BY <1>4, <2>2, <2>3, RtspFrame
  <1>5. CASE Finished \/ UNCHANGED vars
    BY <1>5, QuietOtherwise DEF formatOf, unitOf
  <1> QED BY <1>2, <1>3, <1>4, <1>5 DEF Next

(* Whatever the protocol and whatever fails, the input is a marked source:    *)
(* no unit of an older session after one of a newer, the first one of each     *)
(* stream marked, and all in the formats the decoders were made for.           *)
THEOREM SourcesAreMarked == Spec => ImplementsMarkedSource
  <1>1. Init => Marked!Init
    BY MarkedInit
  <1>2. IInv /\ [Next]_vars => Marked!Next \/ UNCHANGED <<formatOf, latest, unitOf>>
    BY MarkedStep
  <1> QED BY <1>1, <1>2, IInvAlways, PTL DEF Spec, ImplementsMarkedSource, Marked!Spec, formatOf, unitOf
=============================================================================
