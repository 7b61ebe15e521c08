---------------------------- MODULE OutputProofs ----------------------------
(***************************************************************************)
(* Safety of the two outputs, TransportOutput (MPEG-TS over SRT) and, as     *)
(* Rtmp, PacketOutput, for a queue of any capacity.  Both consume the queue   *)
(* of the same encoder tasks, so the argument begins with what those tasks    *)
(* keep, whoever consumes it: a keyframe that has been asked for stays asked   *)
(* for or is on its way (EncodersKeep), until the consumer takes it            *)
(* (TakeKeeps).  Both implement LiveOutput.  Last, the time both outputs are   *)
(* stamped with, ProgramClock.                                                 *)
(***************************************************************************)
EXTENDS TransportOutput, ProgramClock, TLAPS

\* The state of PacketOutput, which has step, held and viewer in common with
\* TransportOutput, and the encoder tasks.
VARIABLES reconnects, connection, task, due, waitingForIdr, headerSent

Rtmp == INSTANCE PacketOutput

publisherVars == <<step, held, reconnects, connection, task, due, waitingForIdr, headerSent,
   viewer>>
rtmpVars == <<encoderVars, publisherVars>>

HandHolds == \A s \in Streams : hand[s] = "none" <=> encoder[s] \notin {"send", "flush"}

-----------------------------------------------------------------------------
\* Appending keeps every element and adds the new one.
LEMMA AppendKeeps ==
  ASSUME NEW S, NEW q \in Seq(S), NEW x \in S, NEW p
  PROVE  /\ Append(q, x) \in Seq(S)
         /\ Len(Append(q, x)) = Len(q) + 1
         /\ (\E i \in 1 .. Len(Append(q, x)) : Append(q, x)[i] = p)
              <=> (x = p \/ \E i \in 1 .. Len(q) : q[i] = p)
<1>1. /\ Append(q, x) \in Seq(S)
      /\ Len(Append(q, x)) = Len(q) + 1
      /\ Append(q, x)[Len(q) + 1] = x
      /\ \A i \in 1 .. Len(q) : Append(q, x)[i] = q[i]
  OBVIOUS
<1>2. Len(q) \in Nat
  OBVIOUS
<1> QED
  BY <1>1, <1>2

\* Taking the oldest element loses no other.
LEMMA TailKeeps ==
  ASSUME NEW S, NEW q \in Seq(S), q # <<>>, NEW p,
         \E i \in 1 .. Len(q) : q[i] = p
  PROVE  Head(q) = p \/ \E i \in 1 .. Len(Tail(q)) : Tail(q)[i] = p
<1>1. PICK i \in 1 .. Len(q) : q[i] = p
  OBVIOUS
<1>2. CASE i = 1
  BY <1>1, <1>2
<1>3. CASE i # 1
  <2>1. i - 1 \in 1 .. Len(Tail(q)) /\ Tail(q)[i - 1] = q[i]
    BY <1>3
  <2> QED
    BY <2>1, <1>1
<1> QED
  BY <1>2, <1>3

LEMMA TailTyped ==
  ASSUME NEW S, NEW q \in Seq(S), q # <<>>
  PROVE  Head(q) \in S /\ Tail(q) \in Seq(S) /\ Len(Tail(q)) = Len(q) - 1
OBVIOUS

-----------------------------------------------------------------------------
\* What a step of the encoder tasks keeps: types, the meaning of `hand`, and
\* a keyframe once it has been asked for or is on its way.
LEMMA EncodersKeep ==
  ASSUME EncodersTypeOK, HandHolds, EncodersStep \/ \E s \in Streams : InputEnds(s)
  PROVE  /\ EncodersTypeOK'
         /\ HandHolds'
         /\ (requestIdr \/ KeyUnderway) => (requestIdr' \/ KeyUnderway')
<1> USE DEF EncodersTypeOK, HandHolds, KeyUnderway, InQueue, Streams, Packet, EncoderStep
<1>1. ASSUME NEW s \in Streams, InputEnds(s)
      PROVE  /\ EncodersTypeOK' /\ HandHolds'
             /\ (requestIdr \/ KeyUnderway) => (requestIdr' \/ KeyUnderway')
  BY <1>1 DEF InputEnds
<1>2. CASE FirstPicture
  BY <1>2 DEF FirstPicture
<1>3. CASE EncodeVideo
  BY <1>3 DEF EncodeVideo, Encoded, VideoTick
<1>4. CASE EncodeAudio
  BY <1>4 DEF EncodeAudio
<1>5. ASSUME NEW s \in Streams, FlushEncoder(s)
      PROVE  /\ EncodersTypeOK' /\ HandHolds'
             /\ (requestIdr \/ KeyUnderway) => (requestIdr' \/ KeyUnderway')
  BY <1>5 DEF FlushEncoder
<1>6. ASSUME NEW s \in Streams, Enqueue(s)
      PROVE  /\ EncodersTypeOK' /\ HandHolds'
             /\ (requestIdr \/ KeyUnderway) => (requestIdr' \/ KeyUnderway')
  <2>1. hand[s] \in Packet /\ queue \in Seq(Packet) /\ Len(queue) < Capacity
    BY <1>6 DEF Enqueue
  <2>2. /\ queue' \in Seq(Packet)
        /\ Len(queue') = Len(queue) + 1
        /\ InQueue("key")' <=> (hand[s] = "key" \/ InQueue("key"))
    BY <1>6, <2>1, AppendKeeps DEF Enqueue
  <2>3. EncodersTypeOK' /\ HandHolds'
    <3>1. Len(queue') <= Capacity
      BY <2>1, <2>2, CapacityAssumption DEF CapacityAssumption
    <3> QED
      BY <1>6, <2>2, <3>1 DEF Enqueue
  <2>4. KeyUnderway => KeyUnderway'
    <3>1. CASE InQueue("key")
      BY <3>1, <2>2
    <3>2. CASE hand["video"] = "key" /\ s = "video"
      BY <3>2, <2>2
    <3>3. CASE hand["video"] = "key" /\ s # "video"
      BY <3>3, <1>6 DEF Enqueue
    <3> QED
      BY <3>1, <3>2, <3>3
  <2> QED
    BY <2>3, <2>4, <1>6 DEF Enqueue
<1> QED
  BY <1>1, <1>2, <1>3, <1>4, <1>5, <1>6 DEF EncodersStep

\* The initial state of the two encoder tasks.
LEMMA EncodersInitKeep == EncodersInit => EncodersTypeOK /\ HandHolds
<1> SUFFICES ASSUME EncodersInit PROVE EncodersTypeOK /\ HandHolds
  OBVIOUS
<1> USE DEF EncodersInit, Streams, Packet, EncoderStep
<1>1. queue \in Seq(Packet) /\ Len(queue) <= Capacity
  BY CapacityAssumption DEF CapacityAssumption
<1>2. EncodersTypeOK
  BY <1>1 DEF EncodersTypeOK
<1>3. HandHolds
  BY DEF HandHolds
<1> QED
  BY <1>2, <1>3

\* What the consumer of the queue keeps when it takes the oldest packet.
LEMMA TakeKeeps ==
  ASSUME EncodersTypeOK, queue # <<>>, queue' = Tail(queue),
         UNCHANGED <<requestIdr, ended, encoder, hand>>
  PROVE  /\ EncodersTypeOK'
         /\ Head(queue) \in Packet
         /\ KeyUnderway => (KeyUnderway' \/ Head(queue) = "key")
<1>1. /\ queue' \in Seq(Packet)
      /\ Head(queue) \in Packet
      /\ Len(queue') = Len(queue) - 1
  BY TailTyped DEF EncodersTypeOK
<1>2. InQueue("key") => (InQueue("key")' \/ Head(queue) = "key")
  <2>1. SUFFICES ASSUME \E i \in 1 .. Len(queue) : queue[i] = "key"
        PROVE  Head(queue) = "key" \/ \E i \in 1 .. Len(Tail(queue)) : Tail(queue)[i] = "key"
    BY DEF InQueue
  <2>2. queue \in Seq(Packet)
    BY DEF EncodersTypeOK
  <2> QED
    BY <2>1, <2>2, TailKeeps
<1>3. EncodersTypeOK'
  BY <1>1, CapacityAssumption DEF CapacityAssumption, EncodersTypeOK
<1> QED
  BY <1>1, <1>2, <1>3 DEF KeyUnderway
-----------------------------------------------------------------------------
(* TransportOutput.  The inductive invariant adds to the two safety           *)
(* properties what makes them survive a step: a lost connection is always      *)
(* remembered by output_failed and by a fresh muxer (Remembered), and a send    *)
(* after a failure always has a keyframe coming (Promise), although the skip    *)
(* loop before it may have dropped the one asked for earlier.                   *)
Promise == requestIdr \/ KeyUnderway \/ held = "key"

HeldInHand == step \in {"recv", "closed"} => held = "none"

Remembered ==
  /\ handle = "none" => (step = "closed" \/ (outputFailed /\ freshMuxer))
  /\ outputFailed /\ handle # "none" => step \in {"send", "failed"}
  /\ step = "drain" => (outputFailed /\ handle = "none")

AskedAgain == (step = "send" /\ outputFailed) => Promise

TablesComing == handle = "live" => (viewer.tables \/ freshMuxer)

IInv ==
  /\ TypeOK
  /\ HandHolds
  /\ HeldInHand
  /\ Remembered
  /\ AskedAgain
  /\ KeyframePromised
  /\ TablesComing
  /\ TablesBeforeMedia

-----------------------------------------------------------------------------
LEMMA InitIInv == Init => IInv
<1> SUFFICES ASSUME Init PROVE IInv
  OBVIOUS
<1> USE DEF Init, EncodersInit, OutputStep, Streams, Packet
<1>1. EncodersTypeOK /\ HandHolds
  BY EncodersInitKeep
<1>2. viewer \in [tables : BOOLEAN, media : BOOLEAN, picture : BOOLEAN] /\ ~viewer.media
  BY DEF NewViewer
<1>3. TypeOK
  BY <1>1, <1>2 DEF TypeOK
<1>4. /\ HeldInHand /\ Remembered /\ AskedAgain /\ KeyframePromised
      /\ TablesComing /\ TablesBeforeMedia
  BY <1>2 DEF HeldInHand, Remembered, AskedAgain, KeyframePromised, TablesComing, TablesBeforeMedia
<1> QED
  BY <1>1, <1>3, <1>4 DEF IInv

LEMMA StepIInv == IInv /\ [Next]_vars => IInv'
<1> SUFFICES ASSUME IInv, [Next]_vars PROVE IInv'
  OBVIOUS
<1> USE DEF IInv, TypeOK, OutputStep, Over, Promise
<1>1. ASSUME EncodersStep \/ \E s \in Streams : InputEnds(s), UNCHANGED outputVars
      PROVE  IInv'
  <2>1. EncodersTypeOK' /\ HandHolds' /\ (Promise => Promise')
    BY <1>1, EncodersKeep DEF outputVars
  <2> QED
    BY <1>1, <2>1
       DEF outputVars, HeldInHand, Remembered, AskedAgain, KeyframePromised, TablesComing,
           TablesBeforeMedia
<1>2. CASE Receive
  <2>1. EncodersTypeOK' /\ held' \in Packet /\ (KeyUnderway => (KeyUnderway' \/ held' = "key"))
    BY <1>2, TakeKeeps DEF Receive
  <2>2. TypeOK' /\ HandHolds'
    BY <1>2, <2>1 DEF Receive, HandHolds
  <2>3. Remembered' /\ TablesComing' /\ TablesBeforeMedia'
    BY <1>2 DEF Receive, Remembered, TablesComing, TablesBeforeMedia
  <2>4. AskedAgain'
    BY <1>2 DEF Receive, AskedAgain
  <2>5. KeyframePromised'
    <3>1. held # "key"
      BY <1>2 DEF Receive, HeldInHand
    <3> QED
      BY <1>2, <2>1, <3>1 DEF Receive, KeyframePromised
  <2> QED
    BY <2>2, <2>3, <2>4, <2>5, <1>2 DEF HeldInHand, Receive
<1>3. CASE DrainOne
  <2>1. EncodersTypeOK' /\ held' \in Packet
    BY <1>3, TakeKeeps DEF DrainOne
  <2> QED
    BY <1>3, <2>1
       DEF DrainOne, HandHolds, HeldInHand, Remembered, AskedAgain, KeyframePromised,
           TablesComing, TablesBeforeMedia
<1>4. CASE DrainEnds
  BY <1>4 DEF DrainEnds, EncodersTypeOK, HandHolds, HeldInHand, Remembered, AskedAgain,
              KeyframePromised, TablesComing, TablesBeforeMedia
<1>5. ASSUME DropPacket PROVE IInv'
  BY <1>5 DEF DropPacket, EncodersTypeOK, HandHolds, HeldInHand, Remembered, AskedAgain,
              KeyframePromised, TablesComing, TablesBeforeMedia
<1>6. CASE Reconnect
  <2>1. TypeOK' /\ HandHolds' /\ HeldInHand'
    BY <1>6 DEF Reconnect, NewViewer, encoderVars, EncodersTypeOK, HandHolds, HeldInHand
  <2>2. outputFailed /\ freshMuxer
    BY <1>6 DEF Reconnect, Remembered
  <2>3. Promise'
    BY <1>6, <2>2 DEF Reconnect, AskedAgain, KeyUnderway, InQueue, encoderVars
  <2> QED
    BY <1>6, <2>1, <2>2, <2>3
       DEF Reconnect, NewViewer, Remembered, AskedAgain, KeyframePromised, TablesComing,
           TablesBeforeMedia
<1>7. CASE SendOk
  <2>1. PICK tables \in BOOLEAN :
          /\ (freshMuxer => tables)
          /\ viewer' = IF handle = "broken" THEN viewer
                       ELSE [tables  |-> viewer.tables \/ tables,
                             media   |-> TRUE,
                             picture |-> viewer.picture \/ held = "key"]
    BY <1>7 DEF SendOk, TablesWritten
  <2>2. /\ viewer' \in [tables : BOOLEAN, media : BOOLEAN, picture : BOOLEAN]
        /\ handle = "live" =>
             /\ viewer'.tables <=> (viewer.tables \/ tables)
             /\ viewer'.picture <=> (viewer.picture \/ held = "key")
        /\ handle # "live" => viewer' = viewer
    BY <1>7, <2>1 DEF SendOk
  <2>3. TypeOK' /\ HandHolds' /\ HeldInHand'
    BY <1>7, <2>2 DEF SendOk, encoderVars, EncodersTypeOK, HandHolds, HeldInHand
  <2>4. Remembered' /\ AskedAgain'
    BY <1>7 DEF SendOk, Remembered, AskedAgain
  <2>5. KeyframePromised'
    BY <1>7, <2>2 DEF SendOk, KeyframePromised, KeyUnderway, InQueue, encoderVars
  <2>6. TablesComing' /\ TablesBeforeMedia'
    BY <1>7, <2>1, <2>2 DEF SendOk, TablesComing, TablesBeforeMedia
  <2> QED
    BY <2>3, <2>4, <2>5, <2>6
<1>8. CASE Fail
  BY <1>8 DEF Fail, encoderVars, EncodersTypeOK, HandHolds, HeldInHand, Remembered, AskedAgain,
              KeyframePromised, TablesComing, TablesBeforeMedia
<1>9. CASE Close
  BY <1>9 DEF Close, encoderVars, EncodersTypeOK, HandHolds, HeldInHand, Remembered, AskedAgain,
              KeyframePromised, TablesComing, TablesBeforeMedia
<1>10. CASE LinkBreaks
  BY <1>10 DEF LinkBreaks, encoderVars, EncodersTypeOK, HandHolds, HeldInHand, Remembered,
               AskedAgain, KeyframePromised, TablesComing, TablesBeforeMedia, KeyUnderway, InQueue
<1>11. CASE UNCHANGED vars
  BY <1>11 DEF vars, outputVars, encoderVars, EncodersTypeOK, HandHolds, HeldInHand, Remembered,
               AskedAgain, KeyframePromised, TablesComing, TablesBeforeMedia, KeyUnderway, InQueue
<1> QED
  BY <1>1, <1>2, <1>3, <1>4, <1>5, <1>6, <1>7, <1>8, <1>9, <1>10, <1>11
     DEF Next, Encoders, InputEnd, Mux, ReconnectPending, SendError, Finished

-----------------------------------------------------------------------------
(* Every variable keeps its type and the queue never holds more than its   *)
(* capacity, whatever the encoders and the output do.                       *)
THEOREM TypeCorrect == Spec => []TypeOK
<1>1. IInv => TypeOK
  BY DEF IInv
<1> QED
  BY InitIInv, StepIInv, <1>1, PTL DEF Spec

(* Whatever is skipped or dropped, a viewer that waits for a keyframe has  *)
(* one coming, for every queue capacity.                                    *)
THEOREM KeyframeAlwaysPromised == Spec => []KeyframePromised
<1>1. IInv => KeyframePromised
  BY DEF IInv
<1> QED
  BY InitIInv, StepIInv, <1>1, PTL DEF Spec

(* No connection ever carries media before the program tables.             *)
THEOREM TablesAlwaysFirst == Spec => []TablesBeforeMedia
<1>1. IInv => TablesBeforeMedia
  BY DEF IInv
<1> QED
  BY InitIInv, StepIInv, <1>1, PTL DEF Spec
-----------------------------------------------------------------------------
(* Which step of the SRT output is which step of a live output.              *)
LEMMA LiveInit == Init => Live!Init
<1> SUFFICES ASSUME Init
             PROVE  Live!Init
  OBVIOUS
<1>1. Phase = "on" /\ Given = {}
  BY DEF Init, Phase, Over, Given, NewViewer
<1>2. Coming = TRUE
  BY DEF Init, EncodersInit, Coming
<1> QED
  BY <1>1, <1>2 DEF Live!Init

LEMMA ViewerGiven ==
  ASSUME TypeOK
  PROVE  Phase = "on" => /\ \A i \in {"tables", "media", "picture"} : i \in Given <=> viewer[i]
                         /\ Given \subseteq {"tables", "media", "picture"}
  BY DEF TypeOK, Given

LEMMA LiveStep ==
  IInv /\ IInv' /\ [Next]_vars => [Live!Next]_<<Phase, Given, Coming>>
<1> SUFFICES ASSUME IInv, IInv', [Next]_vars, <<Phase, Given, Coming>>' # <<Phase, Given, Coming>>
             PROVE  Live!Next
  OBVIOUS
<1> USE DEF Over
<1>1. Live!Owed'
  <2> SUFFICES ASSUME Phase' = "on"
               PROVE  "picture" \in Given' \/ Coming'
    BY DEF Live!Owed
  <2>1. viewer.picture' \/ Coming'
    BY DEF IInv, KeyframePromised, Phase, Coming
  <2> QED
    BY <2>1, ViewerGiven DEF IInv, TypeOK, Given
<1>2. ASSUME Phase # "over", UNCHANGED <<step, handle, viewer>>
      PROVE  Live!Next
  BY <1>1, <1>2 DEF Live!Next, Live!Work, Phase, Given
<1>3. ASSUME step \in {"recv", "drain", "send"}, step' \in {"recv", "drain", "send"},
             UNCHANGED <<handle, viewer>>
      PROVE  Live!Next
  BY <1>1, <1>3 DEF Live!Next, Live!Work, Phase, Given
<1>4. CASE Encoders \/ InputEnd
  BY <1>2, <1>4 DEF Encoders, InputEnd, outputVars, Phase
<1>5. CASE Receive \/ DrainOne \/ DrainEnds
  BY <1>3, <1>5 DEF Receive, DrainOne, DrainEnds
<1>6. CASE ReconnectPending \/ SendError
  <2>1. Phase = "off" /\ Phase' = "off"
    BY <1>6 DEF ReconnectPending, SendError, DropPacket, Phase
  <2> QED
    BY <1>1, <2>1 DEF Live!Next, Live!Work, Given
<1>7. CASE Reconnect
  <2>1. Phase = "off" /\ Phase' = "on" /\ Given' = {}
    BY <1>7 DEF Reconnect, Phase, Given, NewViewer
  <2> QED
    BY <1>1, <2>1 DEF Live!Next, Live!Join
<1>8. CASE SendOk
  <2>1. CASE handle = "live"
    <3>1. Phase = "on" /\ Phase' = "on"
      BY <1>8, <2>1 DEF SendOk, Phase
    <3>2. TypeOK /\ TypeOK' /\ TablesBeforeMedia'
      BY DEF IInv
    <3>3. viewer'.media /\ \A i \in {"tables", "media", "picture"} : viewer[i] => viewer'[i]
      BY <1>8, <2>1, <3>2 DEF SendOk, TypeOK
    <3>4. /\ \A i \in {"tables", "media", "picture"} :
               (i \in Given <=> viewer[i]) /\ (i \in Given' <=> viewer'[i])
          /\ Given \subseteq {"tables", "media", "picture"}
          /\ Given' \subseteq {"tables", "media", "picture"}
      BY <3>1, <3>2 DEF TypeOK, Given
    <3>5. Given \subseteq Given' /\ {"tables", "media"} \subseteq Given'
      BY <3>2, <3>3, <3>4 DEF TablesBeforeMedia
    <3> QED
      BY <1>1, <3>1, <3>4, <3>5 DEF Live!Next, Live!Give, Live!Usable
  <2>2. CASE handle # "live"
    <3>1. Phase = "off" /\ Phase' = "off"
      BY <1>8, <2>2 DEF SendOk, Phase
    <3> QED
      BY <1>1, <3>1 DEF Live!Next, Live!Work, Given
  <2> QED
    BY <2>1, <2>2
<1>9. CASE Fail \/ Close
  <2>1. Phase # "over" /\ Phase' = "over"
    BY <1>9 DEF Fail, Close, Phase
  <2> QED
    BY <1>1, <2>1 DEF Live!Next, Live!End, Given
<1>10. CASE LinkBreaks
  <2>1. Coming' = Coming
    BY <1>10 DEF LinkBreaks, Coming, KeyUnderway, InQueue, encoderVars
  <2>2. ~Over
    BY <1>10, <2>1 DEF LinkBreaks, Phase, Given
  <2>3. Phase = "on" /\ Phase' = "off"
    BY <1>10, <2>2 DEF LinkBreaks, Phase
  <2> QED
    BY <1>1, <2>3 DEF Live!Next, Live!Leave, Given
<1>11. CASE UNCHANGED vars
  BY <1>11
  DEF vars, outputVars, encoderVars, Phase, Given, Coming, KeyUnderway, InQueue
<1> QED
  BY <1>4, <1>5, <1>6, <1>7, <1>8, <1>9, <1>10, <1>11 DEF Next, Mux, Finished

(* Refinement: the SRT output is a live output for every queue capacity.       *)
(* mux_and_send and the transport give each viewer the tables first, take       *)
(* nothing back, and leave none without a keyframe to come.                     *)
THEOREM TransportIsLive == Spec => ImplementsLiveOutput
<1>1. Spec => []IInv
  BY InitIInv, StepIInv, PTL DEF Spec
<1> QED
  BY <1>1, LiveInit, LiveStep, PTL DEF Spec, ImplementsLiveOutput, Live!Spec

-----------------------------------------------------------------------------
(* PacketOutput.  The inductive invariant relates the media gate and the       *)
(* header flags, which outlive a connection, to what the peer of the present    *)
(* connection has received (GateMatches); a peer that is not there has          *)
(* received nothing.                                                            *)
\* Both outputs mean the same by the encoder tasks.
LEMMA SameEncoders ==
  /\ Rtmp!EncodersInit => EncodersInit
  /\ Rtmp!EncodersStep => EncodersStep
  /\ (\E s \in Rtmp!Streams : Rtmp!InputEnds(s)) => \E s \in Streams : InputEnds(s)
  /\ (Rtmp!EncodersTypeOK <=> EncodersTypeOK) /\ (Rtmp!EncodersTypeOK' <=> EncodersTypeOK')
  /\ (Rtmp!KeyUnderway <=> KeyUnderway) /\ (Rtmp!KeyUnderway' <=> KeyUnderway')
<1> USE DEF Rtmp!Streams, Streams, Rtmp!Packet, Packet
<1>1. Rtmp!EncodersInit => EncodersInit
  BY DEF Rtmp!EncodersInit, EncodersInit
<1>2. Rtmp!EncodersStep => EncodersStep
  BY DEF Rtmp!EncodersStep, EncodersStep, Rtmp!FirstPicture, FirstPicture, Rtmp!EncodeVideo,
         EncodeVideo,
         Rtmp!VideoTick, VideoTick, Rtmp!Encoded, Encoded, Rtmp!EncodeAudio, EncodeAudio,
         Rtmp!FlushEncoder, FlushEncoder, Rtmp!Enqueue, Enqueue
<1>3. (\E s \in Rtmp!Streams : Rtmp!InputEnds(s)) => \E s \in Streams : InputEnds(s)
  BY DEF Rtmp!InputEnds, InputEnds
<1>4. (Rtmp!EncodersTypeOK <=> EncodersTypeOK) /\ (Rtmp!EncodersTypeOK' <=> EncodersTypeOK')
  BY DEF Rtmp!EncodersTypeOK, EncodersTypeOK, Rtmp!EncoderStep, EncoderStep
<1>5. (Rtmp!KeyUnderway <=> KeyUnderway) /\ (Rtmp!KeyUnderway' <=> KeyUnderway')
  BY DEF Rtmp!KeyUnderway, KeyUnderway, Rtmp!InQueue, InQueue
<1> QED
  BY <1>1, <1>2, <1>3, <1>4, <1>5

PublishHolds == step = "publish" => held # "none"

NobodyThere == connection # "live" => viewer = {}

GateMatches ==
  connection = "live" =>
    /\ waitingForIdr => (headerSent = {} /\ viewer = {})
    /\ ~waitingForIdr => "key" \in viewer
    /\ "key" \in viewer => "avcHeader" \in viewer
    /\ "audio" \in headerSent => "aacHeader" \in viewer
    /\ "video" \in headerSent => "avcHeader" \in viewer

RtmpInv ==
  /\ Rtmp!TypeOK
  /\ HandHolds
  /\ PublishHolds
  /\ NobodyThere
  /\ GateMatches
  /\ Rtmp!StartsDecodable
  /\ Rtmp!KeyframePromised

-----------------------------------------------------------------------------
LEMMA RtmpInit == Rtmp!Init => RtmpInv
<1> SUFFICES ASSUME Rtmp!Init PROVE RtmpInv
  OBVIOUS
<1> USE SameEncoders DEF Rtmp!Streams, Streams, Rtmp!Packet, Packet
<1>1. EncodersTypeOK /\ HandHolds
  BY EncodersInitKeep DEF Rtmp!Init
<1>2. Rtmp!TypeOK
  <2>1. due \in BOOLEAN /\ waitingForIdr \in BOOLEAN
    BY Zenon DEF Rtmp!Init
  <2> QED
    BY <1>1, <2>1 DEF Rtmp!Init, Rtmp!TypeOK, Rtmp!SinkStep, Rtmp!Received
<1>3. PublishHolds /\ NobodyThere /\ GateMatches /\ Rtmp!StartsDecodable /\ Rtmp!KeyframePromised
  BY DEF Rtmp!Init, EncodersInit, PublishHolds, NobodyThere, GateMatches, Rtmp!StartsDecodable,
         Rtmp!KeyframePromised
<1> QED
  BY <1>1, <1>2, <1>3 DEF RtmpInv

\* Steps that leave the encoder tasks and their queue alone keep what is said
\* of them.
LEMMA EncodersUntouched ==
  ASSUME EncodersTypeOK, HandHolds, UNCHANGED <<ended, encoder, hand, queue>>,
         requestIdr' \in {TRUE, requestIdr}
  PROVE  EncodersTypeOK' /\ HandHolds' /\ KeyUnderway' = KeyUnderway
<1>1. requestIdr' \in BOOLEAN
  BY DEF EncodersTypeOK
<1> QED
  BY <1>1 DEF EncodersTypeOK, HandHolds, KeyUnderway, InQueue

LEMMA RtmpStep == RtmpInv /\ [Rtmp!Next]_rtmpVars => RtmpInv'
<1> SUFFICES ASSUME RtmpInv, [Rtmp!Next]_rtmpVars PROVE RtmpInv'
  OBVIOUS
<1> USE SameEncoders
    DEF RtmpInv, Rtmp!TypeOK, Rtmp!SinkStep, Rtmp!Over, Rtmp!Streams, Streams, Rtmp!Packet, Packet,
        Rtmp!encoderVars
<1>1. ASSUME EncodersStep \/ \E s \in Streams : InputEnds(s), UNCHANGED Rtmp!sinkVars
      PROVE  RtmpInv'
  <2>1. /\ EncodersTypeOK' /\ HandHolds'
        /\ (requestIdr \/ KeyUnderway) => (requestIdr' \/ KeyUnderway')
    BY <1>1, EncodersKeep DEF Rtmp!sinkVars
  <2> QED
    BY <1>1, <2>1
       DEF Rtmp!sinkVars, PublishHolds, NobodyThere, GateMatches, Rtmp!StartsDecodable,
           Rtmp!KeyframePromised
<1>2. CASE Rtmp!Receive
  <2>1. EncodersTypeOK' /\ held' \in Packet
    BY <1>2, TakeKeeps DEF Rtmp!Receive
  <2>2. Rtmp!TypeOK' /\ HandHolds' /\ PublishHolds'
    BY <1>2, <2>1 DEF Rtmp!Receive, HandHolds, PublishHolds, Packet
  <2> QED
    BY <1>2, <2>2 DEF Rtmp!Receive, NobodyThere, GateMatches, Rtmp!StartsDecodable,
                      Rtmp!KeyframePromised
\* What every dropped packet leaves behind.
<1>3. ASSUME Rtmp!DropPacket
      PROVE  /\ EncodersTypeOK' /\ HandHolds' /\ PublishHolds' /\ Rtmp!KeyframePromised'
             /\ step' = "recv" /\ held' = "none" /\ reconnects' \in BOOLEAN
  <2>1. EncodersTypeOK' /\ HandHolds'
    BY <1>3, EncodersUntouched DEF Rtmp!DropPacket
  <2> QED
    BY <1>3, <2>1 DEF Rtmp!DropPacket, PublishHolds, Rtmp!KeyframePromised
<1>4. ASSUME Rtmp!DropPacket, task' \in {"none", "running"} \cup Rtmp!TaskEnd, due' \in BOOLEAN,
             UNCHANGED <<connection, waitingForIdr, headerSent, viewer>>
      PROVE  RtmpInv'
  <2>1. Rtmp!TypeOK'
    BY <1>3, <1>4
  <2> QED
    BY <1>3, <1>4, <2>1 DEF NobodyThere, GateMatches, Rtmp!StartsDecodable
<1>5. CASE Rtmp!NotYet \/ Rtmp!StartTask \/ Rtmp!DropAwaitingKeyframe
  <2>1. task' \in {"none", "running"} \cup Rtmp!TaskEnd /\ due' \in BOOLEAN
    BY <1>5 DEF Rtmp!NotYet, Rtmp!StartTask, Rtmp!DropAwaitingKeyframe
  <2> QED
    BY <1>4, <1>5, <2>1 DEF Rtmp!NotYet, Rtmp!StartTask, Rtmp!DropAwaitingKeyframe
<1>6. CASE Rtmp!TaskError
  <2>1. due' \in BOOLEAN
    BY <1>6, Zenon DEF Rtmp!TaskError
  <2> QED
    BY <1>4, <1>6, <2>1 DEF Rtmp!TaskError
<1>7. ASSUME NEW t \in {"none", "running"} \cup Rtmp!TaskEnd, Rtmp!FailWith(t)
      PROVE  RtmpInv'
  <2>1. EncodersTypeOK' /\ HandHolds'
    BY <1>7, EncodersUntouched DEF Rtmp!FailWith, encoderVars
  <2> QED
    BY <1>7, <2>1 DEF Rtmp!FailWith, PublishHolds, NobodyThere, GateMatches,
                      Rtmp!StartsDecodable, Rtmp!KeyframePromised
<1>8. CASE Rtmp!ReconnectDisabled \/ Rtmp!TaskRefused \/ Rtmp!SendRejected
  BY <1>7, <1>8 DEF Rtmp!ReconnectDisabled, Rtmp!TaskRefused, Rtmp!SendRejected
<1>9. CASE Rtmp!Adopt
  <2>1. EncodersTypeOK' /\ HandHolds'
    BY <1>9, EncodersUntouched DEF Rtmp!Adopt, encoderVars
  <2>2. waitingForIdr' = TRUE /\ headerSent' = {} /\ viewer' = {} /\ step' = "publish"
    BY <1>9 DEF Rtmp!Adopt, Rtmp!ResetMediaGate
  <2>3. Rtmp!TypeOK'
    BY <1>9, <2>1, <2>2 DEF Rtmp!Adopt
  <2> QED
    BY <1>9, <2>1, <2>2, <2>3
       DEF Rtmp!Adopt, PublishHolds, NobodyThere, GateMatches, Rtmp!StartsDecodable,
           Rtmp!KeyframePromised
<1>10. CASE Rtmp!SendOk
  <2>1. EncodersTypeOK' /\ HandHolds'
    BY <1>10, EncodersUntouched DEF Rtmp!SendOk, encoderVars
  <2>2. held \in Packet /\ Rtmp!StreamOf(held) \in Streams /\ Rtmp!HeaderOf(held) \in Rtmp!Received
    BY <1>10 DEF Rtmp!SendOk, PublishHolds, Rtmp!StreamOf, Rtmp!HeaderOf, Streams, Rtmp!Received
  <2>3. waitingForIdr' \in BOOLEAN /\ (waitingForIdr' <=> waitingForIdr /\ held # "key")
    BY <1>10, Zenon DEF Rtmp!SendOk
  <2>4. viewer' \in SUBSET Rtmp!Received /\ headerSent' \in SUBSET Streams
    BY <1>10, <2>2 DEF Rtmp!SendOk, Rtmp!Received
  <2>5. Rtmp!TypeOK' /\ PublishHolds'
    BY <1>10, <2>1, <2>3, <2>4 DEF Rtmp!SendOk, PublishHolds
  <2>6. CASE connection = "broken"
    BY <1>10, <2>1, <2>5, <2>6
       DEF Rtmp!SendOk, NobodyThere, GateMatches, Rtmp!StartsDecodable, Rtmp!KeyframePromised
  <2>7. CASE connection = "live"
    <3>1. /\ ~waitingForIdr'
          /\ viewer' = viewer \cup {held}
               \cup (IF Rtmp!StreamOf(held) \in headerSent THEN {} ELSE {Rtmp!HeaderOf(held)})
          /\ headerSent' = headerSent \cup {Rtmp!StreamOf(held)}
      BY <1>10, <2>3, <2>7 DEF Rtmp!SendOk, Rtmp!GateOpen
    <3>2. "key" \in viewer'
      BY <1>10, <2>7, <3>1 DEF Rtmp!SendOk, Rtmp!GateOpen, GateMatches
    <3>3. /\ "avcHeader" \in viewer'
          /\ "audio" \in headerSent' \/ "audio" \in viewer' => "aacHeader" \in viewer'
      BY <1>10, <2>2, <2>7, <3>1
         DEF Rtmp!SendOk, Rtmp!GateOpen, GateMatches, Rtmp!StartsDecodable, Rtmp!StreamOf,
             Rtmp!HeaderOf, Packet
    <3> QED
      BY <1>10, <2>1, <2>5, <2>7, <3>1, <3>2, <3>3
         DEF Rtmp!SendOk, NobodyThere, GateMatches, Rtmp!StartsDecodable, Rtmp!KeyframePromised
  <2> QED
    BY <1>10, <2>6, <2>7 DEF Rtmp!SendOk
<1>11. CASE Rtmp!SendError
  <2>1. waitingForIdr' = TRUE /\ headerSent' = {} /\ viewer' = {} /\ connection' = "none"
    BY <1>11 DEF Rtmp!SendError, Rtmp!ResetMediaGate, NobodyThere
  <2>2. Rtmp!TypeOK'
    BY <1>3, <1>11, <2>1 DEF Rtmp!SendError
  <2> QED
    BY <1>3, <1>11, <2>1, <2>2 DEF Rtmp!SendError, NobodyThere, GateMatches, Rtmp!StartsDecodable
<1>12. CASE Rtmp!Close
  <2>1. EncodersTypeOK' /\ HandHolds'
    BY <1>12, EncodersUntouched DEF Rtmp!Close, encoderVars
  <2> QED
    BY <1>12, <2>1 DEF Rtmp!Close, PublishHolds, NobodyThere, GateMatches, Rtmp!StartsDecodable,
                       Rtmp!KeyframePromised
<1>13. CASE Rtmp!TaskEnds \/ Rtmp!BackoffExpires \/ Rtmp!LinkBreaks
  <2>1. EncodersTypeOK' /\ HandHolds' /\ KeyUnderway' = KeyUnderway
    BY <1>13, EncodersUntouched DEF Rtmp!TaskEnds, Rtmp!BackoffExpires, Rtmp!LinkBreaks, encoderVars
  <2>2. Rtmp!TypeOK'
    BY <1>13, <2>1 DEF Rtmp!TaskEnds, Rtmp!BackoffExpires, Rtmp!LinkBreaks
  <2> QED
    BY <1>13, <2>1, <2>2
       DEF Rtmp!TaskEnds, Rtmp!BackoffExpires, Rtmp!LinkBreaks, encoderVars, PublishHolds,
           NobodyThere, GateMatches,
           Rtmp!StartsDecodable, Rtmp!KeyframePromised
<1>14. CASE UNCHANGED rtmpVars
  <2>1. EncodersTypeOK' /\ HandHolds' /\ KeyUnderway' = KeyUnderway
    BY <1>14, EncodersUntouched DEF rtmpVars, encoderVars
  <2> QED
    BY <1>14, <2>1
       DEF rtmpVars, publisherVars, encoderVars, PublishHolds, NobodyThere, GateMatches,
           Rtmp!StartsDecodable,
           Rtmp!KeyframePromised
<1> QED
  BY <1>1, <1>2, <1>5, <1>6, <1>8, <1>9, <1>10, <1>11, <1>12, <1>13, <1>14
     DEF Rtmp!Next, Rtmp!Encoders, Rtmp!InputEnd, Rtmp!Sink, Rtmp!Finished,
         Rtmp!vars, rtmpVars, Rtmp!sinkVars, publisherVars, encoderVars

LEMMA RtmpInvariant == Rtmp!Spec => []RtmpInv
  BY RtmpInit, RtmpStep, PTL
     DEF Rtmp!Spec, rtmpVars, publisherVars, encoderVars, Rtmp!vars, Rtmp!encoderVars, Rtmp!sinkVars

-----------------------------------------------------------------------------
(* Every variable keeps its type and the queue never exceeds its capacity.  *)
THEOREM RtmpTyped == Rtmp!Spec => []Rtmp!TypeOK
<1>1. RtmpInv => Rtmp!TypeOK
  BY DEF RtmpInv
<1> QED
  BY RtmpInvariant, <1>1, PTL

(* On every connection, decoder configuration and keyframe come before any   *)
(* other media, for every queue capacity and any number of reconnections.    *)
THEOREM AlwaysStartsDecodable == Rtmp!Spec => []Rtmp!StartsDecodable
<1>1. RtmpInv => Rtmp!StartsDecodable
  BY DEF RtmpInv
<1> QED
  BY RtmpInvariant, <1>1, PTL

(* A peer without a keyframe always has one coming.                          *)
THEOREM RtmpKeyframePromised == Rtmp!Spec => []Rtmp!KeyframePromised
<1>1. RtmpInv => Rtmp!KeyframePromised
  BY DEF RtmpInv
<1> QED
  BY RtmpInvariant, <1>1, PTL

-----------------------------------------------------------------------------
(* Which step of the RTMP output is which step of a live output.             *)
LEMMA RtmpLiveInit == Rtmp!Init => Rtmp!Live!Init
<1> SUFFICES ASSUME Rtmp!Init
             PROVE  Rtmp!Live!Init
  OBVIOUS
<1>1. Rtmp!Phase = "on" /\ Rtmp!Given = {}
  BY DEF Rtmp!Init, Rtmp!Phase, Rtmp!Over, Rtmp!Given
<1>2. Rtmp!Coming = TRUE
  BY DEF Rtmp!Init, Rtmp!EncodersInit, Rtmp!Coming
<1> QED
  BY <1>1, <1>2 DEF Rtmp!Live!Init

\* A live connection without a keyframe: the gate is closed and one is coming.
LEMMA RtmpOwed == RtmpInv => Rtmp!Live!Owed
<1> SUFFICES ASSUME RtmpInv, Rtmp!Phase = "on"
             PROVE  "key" \in Rtmp!Given \/ Rtmp!Coming
  BY DEF Rtmp!Live!Owed
<1>1. connection = "live" /\ step \in {"recv", "publish"} /\ Rtmp!Given = viewer
  BY DEF RtmpInv, Rtmp!TypeOK, Rtmp!SinkStep, Rtmp!Phase, Rtmp!Over, Rtmp!Given
<1>2. CASE step = "recv"
  BY <1>1, <1>2 DEF RtmpInv, Rtmp!KeyframePromised, Rtmp!Coming
<1>3. CASE step = "publish"
  <2>1. waitingForIdr \/ "key" \in viewer
    BY <1>1 DEF RtmpInv, GateMatches
  <2> QED
    BY <1>1, <1>3, <2>1 DEF Rtmp!Coming
<1> QED
  BY <1>1, <1>2, <1>3

\* What a peer has been given is complete in itself.
LEMMA RtmpUsable == Rtmp!TypeOK /\ Rtmp!StartsDecodable => Rtmp!Live!Usable(viewer)
  BY DEF Rtmp!TypeOK, Rtmp!StartsDecodable, Rtmp!Live!Usable

LEMMA RtmpLiveStep ==
  RtmpInv /\ RtmpInv' /\ [Rtmp!Next]_rtmpVars
    => [Rtmp!Live!Next]_<<Rtmp!Phase, Rtmp!Given, Rtmp!Coming>>
<1> SUFFICES ASSUME RtmpInv, RtmpInv', [Rtmp!Next]_rtmpVars,
                    <<Rtmp!Phase, Rtmp!Given, Rtmp!Coming>>'
                      # <<Rtmp!Phase, Rtmp!Given, Rtmp!Coming>>
             PROVE  Rtmp!Live!Next
  OBVIOUS
<1> USE DEF Rtmp!Over
<1>1. Rtmp!Live!Owed'
  BY RtmpOwed, PTL
<1>2. ASSUME step \in {"recv", "publish"}, step' \in {"recv", "publish"},
             UNCHANGED <<connection, viewer>>
      PROVE  Rtmp!Live!Next
  BY <1>1, <1>2 DEF Rtmp!Live!Next, Rtmp!Live!Work, Rtmp!Phase, Rtmp!Given
<1>3. CASE Rtmp!Encoders \/ Rtmp!InputEnd
  <2>1. step \in {"recv", "publish"}
    BY <1>3 DEF Rtmp!Encoders, Rtmp!InputEnd, RtmpInv, Rtmp!TypeOK, Rtmp!SinkStep
  <2> QED
    BY <1>2, <1>3, <2>1 DEF Rtmp!Encoders, Rtmp!InputEnd, Rtmp!sinkVars
<1>4. CASE \/ Rtmp!Receive \/ Rtmp!NotYet \/ Rtmp!StartTask \/ Rtmp!TaskError
           \/ Rtmp!DropAwaitingKeyframe
  BY <1>2, <1>4
  DEF Rtmp!Receive, Rtmp!NotYet, Rtmp!StartTask, Rtmp!TaskError, Rtmp!DropAwaitingKeyframe,
      Rtmp!DropPacket
<1>5. CASE ~Rtmp!Over /\ (Rtmp!TaskEnds \/ Rtmp!BackoffExpires)
  <2>1. step \in {"recv", "publish"}
    BY <1>5 DEF RtmpInv, Rtmp!TypeOK, Rtmp!SinkStep
  <2> QED
    BY <1>2, <1>5, <2>1 DEF Rtmp!TaskEnds, Rtmp!BackoffExpires
<1>6. CASE Rtmp!ReconnectDisabled \/ Rtmp!TaskRefused \/ Rtmp!SendRejected \/ Rtmp!Close
  <2>1. Rtmp!Phase # "over" /\ Rtmp!Phase' = "over"
    BY <1>6
    DEF Rtmp!ReconnectDisabled, Rtmp!TaskRefused, Rtmp!SendRejected, Rtmp!Close, Rtmp!FailWith,
        Rtmp!Phase
  <2> QED
    BY <1>1, <2>1 DEF Rtmp!Live!Next, Rtmp!Live!End, Rtmp!Given
<1>7. CASE Rtmp!Adopt
  <2>1. Rtmp!Phase = "off" /\ Rtmp!Phase' = "on" /\ Rtmp!Given' = {}
    BY <1>7 DEF Rtmp!Adopt, Rtmp!Phase, Rtmp!Given
  <2> QED
    BY <1>1, <2>1 DEF Rtmp!Live!Next, Rtmp!Live!Join
<1>8. CASE Rtmp!SendOk
  <2>1. CASE connection = "live"
    <3>1. Rtmp!Phase = "on" /\ Rtmp!Phase' = "on"
      BY <1>8, <2>1 DEF Rtmp!SendOk, Rtmp!Phase
    <3>2. viewer \subseteq viewer'
      BY <1>8, <2>1 DEF Rtmp!SendOk
    <3>3. Rtmp!Live!Usable(viewer)'
      BY RtmpUsable, PTL DEF RtmpInv
    <3>4. Rtmp!Given = viewer /\ Rtmp!Given' = viewer'
      BY <3>1 DEF Rtmp!Given
    <3> QED
      BY <1>1, <3>1, <3>2, <3>3, <3>4 DEF Rtmp!Live!Next, Rtmp!Live!Give, Rtmp!Live!Usable
  <2>2. CASE connection # "live"
    <3>1. Rtmp!Phase = "off" /\ Rtmp!Phase' = "off"
      BY <1>8, <2>2 DEF Rtmp!SendOk, Rtmp!Phase
    <3> QED
      BY <1>1, <3>1 DEF Rtmp!Live!Next, Rtmp!Live!Work, Rtmp!Given
  <2> QED
    BY <2>1, <2>2
<1>9. CASE Rtmp!SendError
  <2>1. Rtmp!Phase = "off" /\ Rtmp!Phase' = "off"
    BY <1>9 DEF Rtmp!SendError, Rtmp!DropPacket, Rtmp!Phase
  <2> QED
    BY <1>1, <2>1 DEF Rtmp!Live!Next, Rtmp!Live!Work, Rtmp!Given
<1>10. CASE ~Rtmp!Over /\ Rtmp!LinkBreaks
  <2>1. Rtmp!Phase = "on" /\ Rtmp!Phase' = "off"
    BY <1>10 DEF Rtmp!LinkBreaks, Rtmp!Phase
  <2> QED
    BY <1>1, <2>1 DEF Rtmp!Live!Next, Rtmp!Live!Leave, Rtmp!Given
<1>11. CASE UNCHANGED rtmpVars
  BY <1>11
  DEF rtmpVars, publisherVars, encoderVars, Rtmp!Phase, Rtmp!Given, Rtmp!Coming, Rtmp!KeyUnderway,
      Rtmp!InQueue
<1> QED
  BY <1>3, <1>4, <1>5, <1>6, <1>7, <1>8, <1>9, <1>10, <1>11
  DEF Rtmp!Next, Rtmp!Sink, Rtmp!Finished, Rtmp!vars, Rtmp!encoderVars, Rtmp!sinkVars,
      rtmpVars, publisherVars, encoderVars

(* Refinement: the RTMP output is a live output too, also when a connection    *)
(* made in the reconnect task is taken over in the middle of publish: the gate  *)
(* and the headers start again before anything is sent on it.                   *)
THEOREM PublisherIsLive == Rtmp!Spec => Rtmp!ImplementsLiveOutput
  BY RtmpInvariant, RtmpLiveInit, RtmpLiveStep, PTL
     DEF Rtmp!Spec, Rtmp!ImplementsLiveOutput, Rtmp!Live!Spec, rtmpVars, publisherVars, encoderVars,
         Rtmp!vars, Rtmp!encoderVars, Rtmp!sinkVars

-----------------------------------------------------------------------------
(* The time of the program: ProgramClock.  What holds the two tickers and   *)
(* the two counters together is ClockInv; the rest is arithmetic: a stamp     *)
(* against the wall clock (StampError) and one stamp against the other        *)
(* (InStep).                                                                 *)

\* Both sides of an inequality may be multiplied by a natural number, and a
\* positive factor may be taken away.
LEMMA Multiply ==
  ASSUME NEW a \in Int, NEW b \in Int, NEW c \in Nat, a <= b
  PROVE  c * a <= c * b
<1>1. c * (b - a) >= 0
  BY SMT
<1>2. c * (b - a) = c * b - c * a
  BY SMT
<1> QED
  BY <1>1, <1>2, SMT

LEMMA Divide ==
  ASSUME NEW a \in Int, NEW b \in Int, NEW c \in Nat \ {0}, c * a <= c * b
  PROVE  a <= b
<1> SUFFICES ASSUME a > b PROVE FALSE
  BY SMT
<1>1. c * (a - b) >= c
  BY SMT
<1>2. c * (a - b) = c * a - c * b
  BY SMT
<1> QED
  BY <1>1, <1>2, SMT

LEMMA Quotient ==
  ASSUME NEW a \in Nat, NEW b \in Nat \ {0}
  PROVE  /\ a \div b \in Nat /\ a % b \in 0 .. b - 1
         /\ a = b * (a \div b) + (a % b)
BY SMT

\* The nearest whole number is at most half a unit off.
LEMMA Rounded ==
  ASSUME NEW a \in Nat, NEW b \in Nat \ {0}
  PROVE  /\ Nearest(a, b) \in Nat
         /\ 2 * b * Nearest(a, b) <= 2 * a + b
         /\ 2 * a - b <= 2 * b * Nearest(a, b)
<1>1. PICK x \in Nat : x = 2 * a + b
  OBVIOUS
<1>2. PICK y \in Nat \ {0} : y = 2 * b
  OBVIOUS
<1>3. /\ x \div y \in Nat /\ x % y \in 0 .. y - 1
      /\ x = y * (x \div y) + (x % y)
  BY Quotient
<1>4. Nearest(a, b) = x \div y
  BY <1>1, <1>2 DEF Nearest
<1> QED
  BY <1>1, <1>2, <1>3, <1>4

\* n steps of `part` samples at `rate` a second, stamped in whole ticks: how far
\* the stamp is from the wall clock's n rounded periods.
LEMMA StampError ==
  ASSUME NEW s \in Nat, NEW t \in Nat, NEW d \in Nat \ {0}, NEW part \in Nat,
         NEW n \in Nat, NEW period \in Nat, NEW stamp \in Nat,
         period = Nearest(part * s, d), stamp = (n * part * t) \div d
  PROVE  /\ 2 * (stamp * s) <= 2 * (t * (n * period)) + t * n
         /\ 2 * (t * (n * period)) - t * n - 2 * s <= 2 * (stamp * s)
<1>1. PICK a \in Nat : a = part * s
  BY SMT
<1>2. 2 * d * period <= 2 * a + d /\ 2 * a - d <= 2 * d * period
  BY <1>1, Rounded
<1>3. PICK x \in Nat : x = n * part * t
  BY SMT
<1>4. d * stamp <= x /\ x <= d * stamp + d
  <2>1. /\ x \div d \in Nat /\ x % d \in 0 .. d - 1
        /\ x = d * (x \div d) + (x % d)
    BY Quotient
  <2> QED
    BY <2>1, <1>3
<1>5. PICK k \in Nat : k = n * t
  BY SMT
<1>6. PICK xs \in Nat : xs = x * s
  BY SMT
<1>7. xs = k * a
  BY <1>1, <1>3, <1>5, <1>6, SMT
<1>8. PICK ds \in Nat : ds = d * stamp
  BY SMT
<1>9. s * ds <= xs /\ xs <= s * (ds + d)
  <2>1. s * ds <= s * x
    BY <1>4, <1>8, Multiply
  <2>2. s * x <= s * (ds + d)
    BY <1>4, <1>8, Multiply
  <2> QED
    BY <2>1, <2>2, <1>6, SMT
<1>10. PICK dp \in Nat : dp = d * period
  BY SMT
<1>11. 2 * dp <= 2 * a + d /\ 2 * a - d <= 2 * dp
  BY <1>2, <1>10, SMT
<1>12. /\ k * (2 * dp) <= k * (2 * a + d)
       /\ k * (2 * a - d) <= k * (2 * dp)
       /\ k * (2 * a) <= k * (2 * dp + d)
       /\ k * (2 * dp - d) <= k * (2 * a)
  <2>1. k * (2 * a) <= k * (2 * dp + d)
    BY <1>11, Multiply
  <2>2. k * (2 * dp - d) <= k * (2 * a)
    BY <1>11, Multiply
  <2>3. k * (2 * dp) <= k * (2 * a + d)
    BY <1>11, Multiply
  <2>4. k * (2 * a - d) <= k * (2 * dp)
    BY <1>11, Multiply
  <2> QED
    BY <2>1, <2>2, <2>3, <2>4
<1>13. 2 * (stamp * s) <= 2 * (t * (n * period)) + t * n
  <2>1. d * (2 * (stamp * s)) = 2 * (s * ds)
    BY <1>8, SMT
  <2>2. 2 * (s * ds) <= k * (2 * a)
    BY <1>9, <1>7, SMT
  <2>3. k * (2 * dp + d) = d * (2 * (t * (n * period)) + t * n)
    BY <1>5, <1>10, SMT
  <2>4. d * (2 * (stamp * s)) <= d * (2 * (t * (n * period)) + t * n)
    <3>1. PICK l \in Int : l = d * (2 * (stamp * s))
      BY SMT
    <3>2. PICK r \in Int : r = d * (2 * (t * (n * period)) + t * n)
      BY SMT
    <3>3. PICK m \in Int : m = k * (2 * a)
      BY SMT
    <3>4. l <= m
      BY <3>1, <3>3, <2>1, <2>2
    <3>5. m <= r
      BY <3>2, <3>3, <2>3, <1>12
    <3>6. l <= r
      BY <3>4, <3>5
    <3> QED
      BY <3>1, <3>2, <3>6
  <2> QED
    BY <2>4, Divide, SMT
<1>14. 2 * (t * (n * period)) - t * n - 2 * s <= 2 * (stamp * s)
  <2>1. d * (2 * (stamp * s) + 2 * s) = 2 * (s * (ds + d))
    BY <1>8, SMT
  <2>2. k * (2 * a) <= 2 * (s * (ds + d))
    BY <1>9, <1>7, SMT
  <2>3. k * (2 * dp - d) = d * (2 * (t * (n * period)) - t * n)
    BY <1>5, <1>10, SMT
  <2>4. d * (2 * (t * (n * period)) - t * n) <= d * (2 * (stamp * s) + 2 * s)
    BY <2>1, <2>2, <2>3, <1>12, SMT
  <2>5. 2 * (t * (n * period)) - t * n <= 2 * (stamp * s) + 2 * s
    BY <2>4, Divide, SMT
  <2> QED
    BY <2>5, SMT
<1> QED
  BY <1>13, <1>14

-----------------------------------------------------------------------------
\* encode_video's ticker and the clock's index go together.
VideoKeeps ==
  videoTask = "tick" =>
    /\ videoDue = videoStart + videoIndex * VideoPeriod
    /\ videoIndex > 0 => /\ videoStart + (videoIndex - 1) * VideoPeriod <= now
                         /\ videoStamp = VideoPts(videoIndex - 1)

VideoStarts == videoTask = "first" => videoIndex = 0

\* So do encode_audio's ticker, the clock's samples and the encoder's packets,
\* because only whole frames reach the encoder.
AudioKeeps ==
  /\ decoded \in Seq({FrameSamples}) /\ blocks \in Seq({FrameSamples})
  /\ audioSamples = audioPackets * FrameSamples
  /\ audioDue = audioPackets * AudioPeriod
  /\ audioPackets > 0 => (audioPackets - 1) * AudioPeriod <= now

ClockInv == ClockTypeOK /\ VideoStarts /\ VideoKeeps /\ AudioKeeps /\ AudioCadence

LEMMA PeriodsTyped == VideoPeriod \in Nat /\ AudioPeriod \in Nat
<1>1. PICK a \in Nat : a = FrameSamples * Second
  BY ClockAssumption
<1>2. Nearest(Second, Fps) \in Nat
  BY ClockAssumption, Rounded
<1>3. Nearest(a, SampleRate) \in Nat
  BY ClockAssumption, Rounded
<1> QED
  BY <1>1, <1>2, <1>3 DEF VideoPeriod, AudioPeriod

LEMMA StampsTyped ==
  ASSUME NEW i \in Nat
  PROVE  VideoPts(i) \in Nat /\ AudioPts(i) \in Nat
<1>1. PICK x \in Nat : x = i * Ticks
  BY ClockAssumption
<1>2. x \div Fps \in Nat /\ x \div SampleRate \in Nat
  BY ClockAssumption, Quotient
<1> QED
  BY <1>1, <1>2 DEF VideoPts, AudioPts

LEMMA InitClockInv == ClockInit => ClockInv
<1> SUFFICES ASSUME ClockInit PROVE ClockInv
  OBVIOUS
<1> USE ClockAssumption DEF ClockInit
<1>1. ClockTypeOK
  BY DEF ClockTypeOK
<1>2. VideoStarts /\ VideoKeeps
  BY DEF VideoStarts, VideoKeeps
<1>3. AudioKeeps
  <2>1. <<>> \in Seq({FrameSamples})
    OBVIOUS
  <2>2. 0 * FrameSamples = 0 /\ 0 * AudioPeriod = 0
    BY PeriodsTyped
  <2> QED
    BY <2>1, <2>2 DEF AudioKeeps
<1>4. AudioCadence
  BY DEF AudioCadence
<1> QED
  BY <1>1, <1>2, <1>3, <1>4 DEF ClockInv

\* Complete frames are all that a decoder adds.
LEMMA CompleteFrames ==
  ASSUME NEW k \in Nat PROVE Complete(k) \in Seq({FrameSamples})
<1> QED
  BY DEF Complete

LEMMA VideoStepKeeps ==
  ASSUME ClockInv, StampPicture PROVE VideoStarts' /\ VideoKeeps'
<1> USE DEF ClockInv, ClockTypeOK, StampPicture
<1>1. VideoStarts'
  BY DEF VideoStarts
<1>2. PICK p \in Nat : p = VideoPeriod
  BY PeriodsTyped
<1>3. videoDue = videoStart + videoIndex * p
  BY <1>2 DEF VideoKeeps
<1>4. videoDue' = videoStart' + videoIndex' * p
  <2>1. videoDue' = videoDue + p
    BY <1>2 DEF NextDue
  <2>2. PICK x \in Nat : x = videoIndex * p
    BY SMT
  <2>3. (videoIndex + 1) * p = x + p
    BY <2>2, SMT
  <2>4. videoStart' = videoStart /\ videoIndex' = videoIndex + 1
    OBVIOUS
  <2>5. videoIndex' * p = x + p
    BY <2>3, <2>4
  <2>6. videoDue = videoStart + x
    BY <2>2, <1>3
  <2> QED
    BY <2>1, <2>4, <2>5, <2>6
<1>5. videoStart' + (videoIndex' - 1) * p <= now' /\ videoStamp' = VideoPts(videoIndex' - 1)
  <2>1. videoIndex' - 1 = videoIndex
    BY SMT
  <2>2. videoStart + videoIndex * p <= now
    BY <1>3
  <2> QED
    BY <2>1, <2>2
<1> QED
  BY <1>1, <1>2, <1>4, <1>5 DEF VideoKeeps, VideoPeriod

LEMMA SoundStepKeeps ==
  ASSUME ClockInv, StampSound
  PROVE  /\ decoded' \in Seq({FrameSamples}) /\ blocks' \in Seq({FrameSamples})
         /\ audioPackets' = audioPackets + 1 /\ audioDue' = audioDue + AudioPeriod
         /\ audioSamples' = audioSamples + FrameSamples
         /\ pending' = 0 /\ audioStamp' = AudioPts(audioSamples)
<1> USE DEF ClockInv, ClockTypeOK, StampSound
<1>1. PICK f \in Nat \ {0} : f = FrameSamples
  BY ClockAssumption
<1>2. Taken(blocks # <<>>) = f
  BY <1>1 DEF Taken, AudioKeeps
<1>3. decoded' \in Seq({FrameSamples}) /\ blocks' \in Seq({FrameSamples})
  BY DEF AudioKeeps
<1>4. f % f = 0 /\ f \div f = 1
  <2>1. f = f * (f \div f) + (f % f) /\ f % f \in 0 .. f - 1 /\ f \div f \in Nat
    BY Quotient
  <2>2. CASE f \div f = 0
    BY <2>1, <2>2, SMT
  <2>3. CASE f \div f >= 2
    <3>1. f * 2 <= f * (f \div f)
      BY <2>1, <2>3, Multiply
    <3> QED
      BY <2>1, <3>1, SMT
  <2>4. CASE f \div f = 1
    BY <2>1, <2>4, SMT
  <2> QED
    BY <2>1, <2>2, <2>3, <2>4
<1>5. pending + f = f
  BY DEF AudioCadence
<1>6. EncodeSamples(f, AudioPts(audioSamples))
  BY <1>2
<1>7. /\ pending' = 0 /\ audioPackets' = audioPackets + 1 /\ audioStamp' = AudioPts(audioSamples)
  BY <1>1, <1>4, <1>5, <1>6 DEF EncodeSamples
<1> QED
  BY <1>1, <1>2, <1>3, <1>7 DEF NextDue

LEMMA SoundKeepsTime ==
  ASSUME ClockInv, StampSound PROVE AudioKeeps' /\ AudioCadence'
<1> USE DEF ClockInv, ClockTypeOK
<1>1. PICK p \in Nat : p = AudioPeriod
  BY PeriodsTyped
<1>2. PICK f \in Nat \ {0} : f = FrameSamples
  BY ClockAssumption
<1>3. (audioPackets + 1) * p = audioPackets * p + p /\ (audioPackets + 1) * f = audioPackets * f + f
  BY SMT
<1>4. audioPackets' - 1 = audioPackets
  BY SoundStepKeeps, SMT
<1>5. audioSamples' = audioPackets' * f /\ audioDue' = audioPackets' * p
  BY <1>1, <1>2, <1>3, SoundStepKeeps DEF AudioKeeps
<1>6. (audioPackets' - 1) * p <= now'
  BY <1>1, <1>4 DEF AudioKeeps, StampSound
<1>7. audioStamp' = AudioPts((audioPackets' - 1) * FrameSamples)
  BY <1>4, SoundStepKeeps DEF AudioKeeps
<1>8. AudioKeeps'
  BY <1>1, <1>2, <1>5, <1>6, SoundStepKeeps DEF AudioKeeps, AudioPeriod
<1> QED
  BY <1>7, <1>8, SoundStepKeeps DEF AudioCadence, AudioPts

\* A step of the decoder leaves whole frames only.
LEMMA DecodeKeeps ==
  ASSUME ClockInv, Decode
  PROVE  /\ pcm' \in 0 .. FrameSamples - 1
         /\ decoded' \in Seq({FrameSamples}) /\ blocks' \in Seq({FrameSamples})
         /\ codec' = codec /\ decoding' \in BOOLEAN
         /\ UNCHANGED <<now, videoVars, audioVars>>
<1> USE ClockAssumption DEF ClockInv, ClockTypeOK, AudioKeeps
<1>0. 0 \in 0 .. FrameSamples - 1
  BY SMT
<1>1. ASSUME NEW n \in 0 .. FrameSamples, NEW d \in BOOLEAN, DecodeAac(n, d)
      PROVE  pcm' \in 0 .. FrameSamples - 1 /\ decoded' \in Seq({FrameSamples})
  <2>1. PICK total \in 0 .. 2 * FrameSamples - 1 : total = Kept(d) + n
    BY <1>1 DEF Kept
  <2>2. Deliver(total, IF total >= FrameSamples THEN 1 ELSE 0)
    BY <1>1, <2>1 DEF DecodeAac
  <2>3. CASE total >= FrameSamples
    <3>1. Deliver(total, 1)
      BY <2>2, <2>3
    <3>2. pcm' = total - FrameSamples
      BY <3>1 DEF Deliver
    <3>3. decoded' \in Seq({FrameSamples})
      BY <3>1, CompleteFrames DEF Deliver
    <3>4. pcm' \in 0 .. FrameSamples - 1
      BY <2>1, <2>3, <3>2
    <3> QED
      BY <3>3, <3>4
  <2>4. CASE total < FrameSamples
    <3>1. Deliver(total, 0)
      BY <2>2, <2>4, <2>1
    <3>2. pcm' = total
      BY <3>1 DEF Deliver
    <3>3. decoded' \in Seq({FrameSamples})
      BY <3>1, CompleteFrames DEF Deliver
    <3>4. pcm' \in 0 .. FrameSamples - 1
      BY <2>1, <2>4, <3>2
    <3> QED
      BY <3>3, <3>4
  <2> QED
    BY <2>1, <2>3, <2>4
<1>2. ASSUME NEW n \in 0 .. MaxDecoded, NEW d \in BOOLEAN, DecodeG711(n, d)
      PROVE  pcm' \in 0 .. FrameSamples - 1 /\ decoded' \in Seq({FrameSamples})
  <2>1. PICK total \in Nat : total = Kept(d) + n
    BY <1>2 DEF Kept
  <2>2. PICK k \in Nat : k = total \div FrameSamples
    BY Quotient
  <2>3. Deliver(total, k)
    BY <1>2, <2>1, <2>2 DEF DecodeG711
  <2>4. PICK f \in Nat \ {0} : f = FrameSamples
    OBVIOUS
  <2>5. total % f \in 0 .. f - 1 /\ total = f * k + (total % f)
    BY <2>2, <2>4, Quotient
  <2>6. pcm' = total - k * f
    BY <2>3, <2>4 DEF Deliver
  <2>7. pcm' = total % f
    <3>1. PICK x \in Nat : x = f * k /\ x = k * f
      BY SMT
    <3>2. PICK y \in Nat : y = total % f
      BY <2>5
    <3> QED
      BY <2>5, <2>6, <3>1, <3>2, SMT
  <2> QED
    BY <2>3, <2>4, <2>5, <2>7, CompleteFrames DEF Deliver
<1>3. ASSUME NEW n \in 0 .. FrameSamples, FlushDecoder(n)
      PROVE  pcm' \in 0 .. FrameSamples - 1 /\ decoded' \in Seq({FrameSamples})
  <2>1. PICK x \in Nat : x = pcm + n + FrameSamples - 1
    BY SMT
  <2>2. x \div FrameSamples \in Nat
    BY Quotient
  <2>3. decoded' = Complete(x \div FrameSamples) /\ pcm' = 0
    BY <1>3, <2>1 DEF FlushDecoder
  <2> QED
    BY <1>0, <2>2, <2>3, CompleteFrames
<1>4. ASSUME SendBlock
      PROVE  pcm' = pcm /\ decoded' \in Seq({FrameSamples}) /\ blocks' \in Seq({FrameSamples})
  <2>1. Head(decoded) = FrameSamples
    BY <1>4 DEF SendBlock
  <2> QED
    BY <1>4, <2>1 DEF SendBlock
<1>5. SendBlock \/ blocks' = blocks
  BY DEF Decode, DecodeAac, DecodeG711, FlushDecoder
<1>6. pcm' \in 0 .. FrameSamples - 1 /\ decoded' \in Seq({FrameSamples})
  BY <1>1, <1>2, <1>3, <1>4 DEF Decode
<1>7. codec' = codec /\ decoding' \in BOOLEAN /\ UNCHANGED <<now, videoVars, audioVars>>
  BY DEF Decode, DecodeAac, DecodeG711, FlushDecoder, SendBlock
<1> QED
  BY <1>4, <1>5, <1>6, <1>7

LEMMA FramesTyped == Seq({FrameSamples}) \subseteq Seq(Nat)
<1>1. {FrameSamples} \subseteq Nat
  BY ClockAssumption
<1> QED
  BY <1>1

LEMMA StepClockInv == ClockInv /\ [ClockNext]_clockVars => ClockInv'
<1> SUFFICES ASSUME ClockInv, [ClockNext]_clockVars PROVE ClockInv'
  OBVIOUS
<1> USE DEF ClockInv
<1>1. CASE TimePasses
  <2>1. ClockTypeOK' /\ now' >= now
    BY <1>1, ClockAssumption DEF TimePasses, ClockTypeOK, videoVars, decoderVars, audioVars
  <2>2. UNCHANGED <<videoVars, decoderVars, audioVars>>
    BY <1>1 DEF TimePasses
  <2>3. VideoStarts' /\ AudioCadence'
    BY <2>2 DEF VideoStarts, AudioCadence, videoVars, audioVars, AudioPts
  <2>4. VideoKeeps'
    <3>1. PICK x \in Int : x = videoStart + (videoIndex - 1) * VideoPeriod
      BY PeriodsTyped DEF ClockTypeOK
    <3> QED
      BY <2>1, <2>2, <3>1 DEF VideoKeeps, videoVars, VideoPts, VideoPeriod, ClockTypeOK
  <2>5. AudioKeeps'
    <3>1. PICK x \in Int : x = (audioPackets - 1) * AudioPeriod
      BY PeriodsTyped DEF ClockTypeOK
    <3> QED
      BY <2>1, <2>2, <3>1 DEF AudioKeeps, audioVars, decoderVars, AudioPeriod, ClockTypeOK
  <2> QED
    BY <2>1, <2>3, <2>4, <2>5
<1>2. CASE FirstDecoded
  <2>1. ClockTypeOK'
    BY <1>2 DEF FirstDecoded, ClockTypeOK, decoderVars, audioVars
  <2>2. VideoStarts' /\ VideoKeeps'
    <3>1. videoIndex' = 0 /\ videoDue' = videoStart' /\ videoStart' \in Nat
      BY <1>2 DEF FirstDecoded, VideoStarts, ClockTypeOK
    <3>2. 0 * VideoPeriod = 0
      BY PeriodsTyped
    <3> QED
      BY <3>1, <3>2 DEF VideoStarts, VideoKeeps, VideoPeriod
  <2>3. AudioKeeps' /\ AudioCadence'
    BY <1>2 DEF FirstDecoded, AudioKeeps, AudioCadence, decoderVars, audioVars, AudioPts,
       AudioPeriod
  <2> QED
    BY <2>1, <2>2, <2>3
<1>3. CASE StampPicture
  <2>1. ClockTypeOK'
    <3>1. videoDue' \in Nat
      BY <1>3, PeriodsTyped DEF StampPicture, NextDue, ClockTypeOK
    <3>2. videoStamp' \in Nat
      BY <1>3, StampsTyped DEF StampPicture, ClockTypeOK
    <3> QED
      BY <1>3, <3>1, <3>2 DEF StampPicture, ClockTypeOK, decoderVars, audioVars
  <2>2. AudioKeeps' /\ AudioCadence'
    BY <1>3 DEF StampPicture, AudioKeeps, AudioCadence, decoderVars, audioVars, AudioPts,
       AudioPeriod
  <2> QED
    BY <1>3, <2>1, <2>2, VideoStepKeeps
<1>4. CASE VideoEnds
  <2>1. ClockTypeOK' /\ VideoStarts' /\ VideoKeeps'
    BY <1>4 DEF VideoEnds, ClockTypeOK, VideoStarts, VideoKeeps, decoderVars, audioVars
  <2>2. AudioKeeps' /\ AudioCadence'
    BY <1>4 DEF VideoEnds, AudioKeeps, AudioCadence, decoderVars, audioVars, AudioPts, AudioPeriod
  <2> QED
    BY <2>1, <2>2
<1>5. CASE Decode
  <2>1. ClockTypeOK'
    BY <1>5, DecodeKeeps, FramesTyped DEF ClockTypeOK, videoVars, audioVars
  <2>2. VideoStarts' /\ VideoKeeps' /\ AudioCadence'
    BY <1>5, DecodeKeeps DEF VideoStarts, VideoKeeps, AudioCadence, videoVars, audioVars,
       VideoPts, AudioPts, VideoPeriod
  <2>3. AudioKeeps'
    BY <1>5, DecodeKeeps DEF AudioKeeps, audioVars, AudioPeriod
  <2> QED
    BY <2>1, <2>2, <2>3
<1>6. CASE StampSound
  <2>1. /\ audioDue' \in Nat /\ audioSamples' \in Nat /\ pending' \in Nat
        /\ audioPackets' \in Nat /\ audioStamp' \in Nat /\ blocks' \in Seq(Nat)
    <3>1. PICK p \in Nat : p = AudioPeriod
      BY PeriodsTyped
    <3>2. audioDue' \in Nat
      BY <1>6, <3>1, SoundStepKeeps DEF ClockTypeOK
    <3>3. audioSamples' \in Nat /\ pending' \in Nat /\ audioPackets' \in Nat
      BY <1>6, SoundStepKeeps, ClockAssumption DEF ClockTypeOK
    <3>4. audioStamp' \in Nat
      BY <1>6, SoundStepKeeps, StampsTyped DEF ClockTypeOK
    <3>5. blocks' \in Seq(Nat)
      BY <1>6, SoundStepKeeps, FramesTyped
    <3> QED
      BY <3>2, <3>3, <3>4, <3>5
  <2>2. ClockTypeOK'
    BY <1>6, <2>1 DEF StampSound, ClockTypeOK, videoVars
  <2>3. VideoStarts' /\ VideoKeeps'
    BY <1>6 DEF StampSound, VideoStarts, VideoKeeps, videoVars, VideoPts, VideoPeriod
  <2> QED
    BY <1>6, <2>2, <2>3, SoundKeepsTime
<1>7. CASE AudioEnds
  <2>1. UNCHANGED <<now, videoVars, decoderVars, audioDue, audioSamples, audioPackets, audioStamp,
                    pending>>
    BY <1>7 DEF AudioEnds, AudioCadence
  <2>2. audioTask' = "done"
    BY <1>7 DEF AudioEnds
  <2>3. ClockTypeOK'
    BY <2>1, <2>2 DEF ClockTypeOK, videoVars, decoderVars
  <2>4. VideoStarts' /\ VideoKeeps'
    BY <2>1 DEF VideoStarts, VideoKeeps, videoVars, VideoPts, VideoPeriod
  <2>5. AudioKeeps' /\ AudioCadence'
    BY <2>1 DEF AudioKeeps, AudioCadence, decoderVars, AudioPts, AudioPeriod
  <2> QED
    BY <2>3, <2>4, <2>5
<1>8. CASE UNCHANGED clockVars
  <2>1. ClockTypeOK' /\ VideoStarts' /\ AudioCadence'
    BY <1>8 DEF clockVars, ClockTypeOK, VideoStarts, AudioCadence, videoVars, decoderVars,
       audioVars, AudioPts
  <2>2. VideoKeeps' /\ AudioKeeps'
    BY <1>8 DEF clockVars, VideoKeeps, AudioKeeps, videoVars, decoderVars, audioVars,
       VideoPts, VideoPeriod, AudioPeriod
  <2> QED
    BY <2>1, <2>2
<1> QED
  BY <1>1, <1>2, <1>3, <1>4, <1>5, <1>6, <1>7, <1>8 DEF ClockNext

LEMMA ClockAlways == ClockSpec => []ClockInv
<1> QED
  BY InitClockInv, StepClockInv, PTL DEF ClockSpec

\* The n-th packet of either stream, wherever the run stands, carries the time its
\* deadline passed, but for a tick and half a unit a period.
LEMMA OnTimeStamps ==
  ASSUME ClockInv, OnTime,
         NEW i \in Nat, i = videoIndex - 1, NEW k \in Nat, k = audioPackets - 1,
         NEW v \in Nat, v = i * VideoPeriod, NEW a \in Nat, a = k * AudioPeriod
  PROVE  /\ videoStart + v <= now /\ now < videoStart + v + VideoPeriod
         /\ a <= now /\ now < a + AudioPeriod
         /\ 2 * (videoStamp * Second) <= 2 * (Ticks * v) + Ticks * i
         /\ 2 * (Ticks * v) - Ticks * i - 2 * Second <= 2 * (videoStamp * Second)
         /\ 2 * (audioStamp * Second) <= 2 * (Ticks * a) + Ticks * k
         /\ 2 * (Ticks * a) - Ticks * k - 2 * Second <= 2 * (audioStamp * Second)
<1> USE DEF ClockInv, ClockTypeOK, OnTime
<1>1. PICK p \in Nat : p = VideoPeriod
  BY PeriodsTyped
<1>2. PICK r \in Nat : r = AudioPeriod
  BY PeriodsTyped
<1>3. videoStart + v <= now /\ now < videoStart + v + p
  <2>1. videoIndex = i + 1
    OBVIOUS
  <2>2. (i + 1) * p = v + p
    BY <1>1, SMT
  <2>3. videoDue = videoStart + videoIndex * p /\ videoStart + v <= now
    BY <1>1 DEF VideoKeeps
  <2>4. videoDue = videoStart + (v + p)
    BY <2>1, <2>2, <2>3
  <2> QED
    BY <2>3, <2>4
<1>4. a <= now /\ now < a + r
  <2>1. audioPackets = k + 1
    OBVIOUS
  <2>2. (k + 1) * r = a + r
    BY <1>2, SMT
  <2>3. audioDue = audioPackets * r /\ a <= now
    BY <1>2 DEF AudioKeeps
  <2>4. audioDue = a + r
    BY <2>1, <2>2, <2>3
  <2> QED
    BY <2>3, <2>4
<1>5. /\ 2 * (videoStamp * Second) <= 2 * (Ticks * v) + Ticks * i
      /\ 2 * (Ticks * v) - Ticks * i - 2 * Second <= 2 * (videoStamp * Second)
  <2>1. PICK s \in Nat \ {0} : s = Second
    BY ClockAssumption
  <2>2. PICK t \in Nat \ {0} : t = Ticks
    BY ClockAssumption
  <2>3. 1 * s = s /\ i * 1 * t = i * t
    BY SMT
  <2>4. p = Nearest(1 * s, Fps)
    BY <1>1, <2>1, <2>3 DEF VideoPeriod
  <2>5. videoStamp = VideoPts(i)
    BY DEF VideoKeeps
  <2>6. videoStamp = (i * 1 * t) \div Fps
    BY <2>2, <2>3, <2>5 DEF VideoPts
  <2> QED
    BY <2>1, <2>2, <2>4, <2>6, <1>1, StampError, ClockAssumption
<1>6. /\ 2 * (audioStamp * Second) <= 2 * (Ticks * a) + Ticks * k
      /\ 2 * (Ticks * a) - Ticks * k - 2 * Second <= 2 * (audioStamp * Second)
  <2>1. PICK s \in Nat \ {0} : s = Second
    BY ClockAssumption
  <2>2. PICK t \in Nat \ {0} : t = Ticks
    BY ClockAssumption
  <2>3. r = Nearest(FrameSamples * s, SampleRate)
    BY <1>2, <2>1 DEF AudioPeriod
  <2>4. audioStamp = AudioPts(k * FrameSamples)
    BY DEF AudioCadence
  <2>5. audioStamp = (k * FrameSamples * t) \div SampleRate
    BY <2>2, <2>4 DEF AudioPts
  <2> QED
    BY <2>1, <2>2, <2>3, <2>5, <1>2, StampError, ClockAssumption
<1> QED
  BY <1>1, <1>2, <1>3, <1>4, <1>5, <1>6

LEMMA InStep == ClockInv => StampsInStep
<1> SUFFICES ASSUME ClockInv, OnTime
             PROVE  2 * Abs(Apart) <= 2 * Ticks * Larger(VideoPeriod, AudioPeriod) + 2 * Second
                                      + Ticks * (videoIndex + audioPackets - 2)
  BY DEF StampsInStep
<1>1. PICK i \in Nat : i = videoIndex - 1
  BY DEF ClockInv, ClockTypeOK, OnTime
<1>2. PICK k \in Nat : k = audioPackets - 1
  BY DEF ClockInv, ClockTypeOK, OnTime
<1>3. PICK p \in Nat : p = VideoPeriod
  BY PeriodsTyped
<1>4. PICK r \in Nat : r = AudioPeriod
  BY PeriodsTyped
<1>5. PICK v \in Nat : v = i * p
  BY SMT
<1>6. PICK a \in Nat : a = k * r
  BY SMT
<1>7. PICK t \in Nat : t = Ticks
  BY ClockAssumption
<1>8. PICK s \in Nat : s = Second
  BY ClockAssumption
<1>9. PICK vs \in Nat : vs = videoStamp * s
  BY DEF ClockInv, ClockTypeOK
<1>10. PICK ys \in Nat : ys = audioStamp * s
  BY DEF ClockInv, ClockTypeOK
<1>11. PICK w \in Nat : w = videoStart
  BY DEF ClockInv, ClockTypeOK
<1>12. PICK n \in Nat : n = now
  BY DEF ClockInv, ClockTypeOK
<1>13. /\ w + v <= n /\ n < w + v + p /\ a <= n /\ n < a + r
       /\ 2 * vs <= 2 * (t * v) + t * i /\ 2 * (t * v) - t * i - 2 * s <= 2 * vs
       /\ 2 * ys <= 2 * (t * a) + t * k /\ 2 * (t * a) - t * k - 2 * s <= 2 * ys
  BY <1>1, <1>2, <1>3, <1>4, <1>5, <1>6, <1>7, <1>8, <1>9, <1>10, <1>11, <1>12, OnTimeStamps
<1>14. PICK l \in Nat : l = Larger(p, r)
  BY DEF Larger
<1>15. (w + v) - a <= l /\ a - (w + v) <= l
  BY <1>13, <1>14 DEF Larger
<1>16. t * ((w + v) - a) <= t * l /\ t * (a - (w + v)) <= t * l
  <2>1. t * ((w + v) - a) <= t * l
    BY <1>15, Multiply
  <2>2. t * (a - (w + v)) <= t * l
    BY <1>15, Multiply
  <2> QED
    BY <2>1, <2>2
<1>17. /\ t * ((w + v) - a) = t * w + t * v - t * a
       /\ t * (a - (w + v)) = t * a - t * w - t * v
       /\ t * (i + k) = t * i + t * k
       /\ 2 * t * l = 2 * (t * l)
  BY SMT
<1>18. PICK x \in Int : x = vs + t * w - ys
  <2>1. PICK tw \in Nat : tw = t * w
    BY SMT
  <2>2. vs + tw - ys \in Int
    OBVIOUS
  <2> QED
    BY <2>1, <2>2
<1>19. 2 * x <= 2 * (t * l) + 2 * s + t * (i + k) /\ -(2 * x) <= 2 * (t * l) + 2 * s + t * (i + k)
  <2>1. PICK tw \in Nat : tw = t * w
    BY SMT
  <2>2. PICK tv \in Nat : tv = t * v
    BY SMT
  <2>3. PICK ta \in Nat : ta = t * a
    BY SMT
  <2>4. PICK ti \in Nat : ti = t * i
    BY SMT
  <2>5. PICK tk \in Nat : tk = t * k
    BY SMT
  <2>6. PICK tl \in Nat : tl = t * l
    BY SMT
  <2>7. tw + tv - ta <= tl /\ ta - tw - tv <= tl
    BY <1>16, <1>17, <2>1, <2>2, <2>3, <2>6
  <2>8. /\ 2 * vs <= 2 * tv + ti /\ 2 * tv - ti - 2 * s <= 2 * vs
        /\ 2 * ys <= 2 * ta + tk /\ 2 * ta - tk - 2 * s <= 2 * ys
    BY <1>13, <2>2, <2>3, <2>4, <2>5
  <2>9. x = vs + tw - ys /\ t * (i + k) = ti + tk
    BY <1>17, <1>18, <2>1, <2>4, <2>5
  <2>10. 2 * x <= 2 * tl + 2 * s + (ti + tk)
    <3>1. 2 * vs + 2 * tw - 2 * ys <= 2 * tv + ti + 2 * tw - (2 * ta - tk - 2 * s)
      BY <2>8
    <3>2. 2 * tv + 2 * tw - 2 * ta <= 2 * tl
      BY <2>7
    <3>3. 2 * x = 2 * vs + 2 * tw - 2 * ys
      BY <2>9
    <3> QED
      BY <3>1, <3>2, <3>3
  <2>11. -(2 * x) <= 2 * tl + 2 * s + (ti + tk)
    <3>1. 2 * ys - 2 * vs - 2 * tw <= 2 * ta + tk - (2 * tv - ti - 2 * s) - 2 * tw
      BY <2>8
    <3>2. 2 * ta - 2 * tw - 2 * tv <= 2 * tl
      BY <2>7
    <3>3. -(2 * x) = 2 * ys - 2 * vs - 2 * tw
      BY <2>9
    <3> QED
      BY <3>1, <3>2, <3>3
  <2> QED
    BY <2>6, <2>9, <2>10, <2>11
<1>20. 2 * Abs(x) <= 2 * (t * l) + 2 * s + t * (i + k)
  BY <1>19 DEF Abs
<1>21. x = Apart
  <2>1. t * w = videoStart * Ticks
    BY <1>7, <1>11, SMT
  <2> QED
    BY <1>8, <1>9, <1>10, <1>18, <2>1 DEF Apart
<1>22. i + k = videoIndex + audioPackets - 2
  BY <1>1, <1>2 DEF ClockInv, ClockTypeOK
<1> QED
  BY <1>3, <1>4, <1>7, <1>8, <1>14, <1>17, <1>20, <1>21, <1>22

\* Audio and video do not drift apart, at any frame rate and for any run: late
\* tasks, bursts, silence and discontinuities included.
THEOREM StampsStayInStep == ClockSpec => []StampsInStep
<1> QED
  BY ClockAlways, InStep, PTL

\* Every AAC packet of a run carries the stamp of its own first sample.
THEOREM AudioCadenceKept == ClockSpec => []AudioCadence
<1>1. ClockInv => AudioCadence
  BY DEF ClockInv
<1> QED
  BY <1>1, ClockAlways, PTL

\* Samples wait in less than a frame, and every counter stays a natural number.
THEOREM ClockTyped == ClockSpec => []ClockTypeOK
<1>1. ClockInv => ClockTypeOK
  BY DEF ClockInv
<1> QED
  BY <1>1, ClockAlways, PTL
=============================================================================
