--------------------------- MODULE TransportOutput ---------------------------
(***************************************************************************)
(* The output half of a pipeline that leaves through MPEG-TS over SRT:     *)
(* mux_and_send (crates/runtime/src/single.rs), the program tables of      *)
(* StreamMuxer (crates/mpegts/src/stream.rs) and the connection that       *)
(* SrtTransport::send keeps (crates/srt/src/lib.rs).  The task never waits *)
(* for a lost peer: it drops live packets, starts a fresh muxer and asks    *)
(* the video encoder for a keyframe.  What must never happen is that a      *)
(* viewer is left for good without tables or without a keyframe because     *)
(* the request, the keyframe itself or the table reset got lost between     *)
(* the three tasks.                                                         *)
(***************************************************************************)
EXTENDS ProgramEncoders

VARIABLES
  step,          \* where mux_and_send stands
  held,          \* the packet it works on, or "none"
  outputFailed,  \* its local output_failed
  freshMuxer,    \* the muxer has not written tables yet (last_psi_pts = None)
  handle,        \* TransportInner.handle: "none", "live", or "broken" (peer lost, not yet noticed)
  viewer         \* what has reached the peer of this connection

outputVars == <<step, held, outputFailed, freshMuxer, handle, viewer>>
vars == <<encoderVars, outputVars>>

OutputStep == {"recv", "drain", "send", "closed", "failed"}
Over == step \in {"closed", "failed"}

\* tables: PAT and PMT; media: any elementary stream data; picture: a keyframe.
NewViewer == [tables |-> FALSE, media |-> FALSE, picture |-> FALSE]

TypeOK ==
  /\ EncodersTypeOK
  /\ step \in OutputStep
  /\ held \in Packet \cup {"none"}
  /\ outputFailed \in BOOLEAN
  /\ freshMuxer \in BOOLEAN
  /\ handle \in {"none", "live", "broken"}
  /\ viewer \in [tables : BOOLEAN, media : BOOLEAN, picture : BOOLEAN]

\* The run starts with a connected transport.
Init ==
  /\ EncodersInit
  /\ step = "recv"
  /\ held = "none"
  /\ outputFailed = FALSE
  /\ freshMuxer = TRUE
  /\ handle = "live"
  /\ viewer = NewViewer

-----------------------------------------------------------------------------
(* receiver.recv() gives the oldest packet.  After a failure the backlog is *)
(* skipped first.                                                           *)
Receive ==
  /\ step = "recv"
  /\ queue # <<>>
  /\ held' = Head(queue)
  /\ queue' = Tail(queue)
  /\ step' = IF outputFailed THEN "drain" ELSE "send"
  /\ UNCHANGED <<requestIdr, ended, encoder, hand, outputFailed, freshMuxer, handle, viewer>>

(* The skip loop: each try_recv() that finds a packet drops the older one.  *)
(* The drop counter is updated under an await, so the encoders run between. *)
DrainOne ==
  /\ step = "drain"
  /\ queue # <<>>
  /\ held' = Head(queue)
  /\ queue' = Tail(queue)
  /\ UNCHANGED <<requestIdr, ended, encoder, hand, step, outputFailed, freshMuxer, handle, viewer>>

\* A plausible bug: the skip loop ends without asking again.
DrainEndsNoRequest ==
  /\ step = "drain"
  /\ queue = <<>>
  /\ step' = "send"
  /\ UNCHANGED <<encoderVars, held, outputFailed, freshMuxer, handle, viewer>>

(* The queue is empty: ask for a keyframe, then try to send what is held.   *)
DrainEnds ==
  /\ step = "drain"
  /\ queue = <<>>
  /\ requestIdr' = TRUE
  /\ step' = "send"
  /\ UNCHANGED <<ended, encoder, hand, queue, held, outputFailed, freshMuxer, handle, viewer>>

\* A plausible bug: the muxer survives the failure.
DropPacketKeepMuxer ==
  /\ handle' = "none"
  /\ held' = "none"
  /\ requestIdr' = TRUE
  /\ outputFailed' = TRUE
  /\ step' = "recv"
  /\ UNCHANGED <<ended, encoder, hand, queue, freshMuxer, viewer>>

(* What a failed send leaves behind, whatever failed: no connection, a new *)
(* muxer, a keyframe request, and the packet in hand is gone.               *)
DropPacket ==
  /\ handle' = "none"
  /\ held' = "none"
  /\ requestIdr' = TRUE
  /\ freshMuxer' = TRUE
  /\ outputFailed' = TRUE
  /\ step' = "recv"
  /\ UNCHANGED <<ended, encoder, hand, queue, viewer>>

(* reconnect_if_due(false) with no connection: the backoff has not expired *)
(* or the attempt fails.  send reports Io either way.                       *)
ReconnectPending ==
  /\ step = "send"
  /\ handle = "none"
  /\ DropPacket

(* reconnect_if_due(false) gets a connection, inside the same send call.    *)
Reconnect ==
  /\ step = "send"
  /\ handle = "none"
  /\ handle' = "live"
  /\ viewer' = NewViewer
  /\ UNCHANGED <<encoderVars, step, held, outputFailed, freshMuxer>>

(* StreamMuxer::push writes the tables if it is fresh or they are due again. *)
TablesWritten == IF freshMuxer THEN {TRUE} ELSE BOOLEAN

(* muxer.push, and the transport takes the bytes.  They reach the peer only *)
(* if it is there.                                                          *)
SendOk ==
  /\ step = "send"
  /\ handle # "none"
  /\ \E tables \in TablesWritten :
       viewer' = IF handle = "broken" THEN viewer
                 ELSE [tables  |-> viewer.tables \/ tables,
                       media   |-> TRUE,
                       picture |-> viewer.picture \/ held = "key"]
  /\ freshMuxer' = FALSE
  /\ outputFailed' = FALSE
  /\ held' = "none"
  /\ step' = "recv"
  /\ UNCHANGED <<encoderVars, handle>>

(* The transport notices the lost peer (or a send timeout, which it treats *)
(* alike): mark_disconnected, and send reports Io.                          *)
SendError ==
  /\ step = "send"
  /\ handle = "broken"
  /\ DropPacket

(* Any other error of the muxer or the transport ends the task.             *)
Fail ==
  /\ step = "send"
  /\ step' = "failed"
  /\ held' = "none"
  /\ UNCHANGED <<encoderVars, outputFailed, freshMuxer, handle, viewer>>

(* recv() gives None: every sender is gone and the queue is empty.          *)
Close ==
  /\ step = "recv"
  /\ queue = <<>>
  /\ EncodersGone
  /\ step' = "closed"
  /\ handle' = "none"
  /\ UNCHANGED <<encoderVars, held, outputFailed, freshMuxer, viewer>>

(* The network: the peer of a connection disappears.                        *)
LinkBreaks ==
  /\ handle = "live"
  /\ handle' = "broken"
  /\ UNCHANGED <<encoderVars, step, held, outputFailed, freshMuxer, viewer>>

\* A task that fails ends the run: SinglePipeline::run aborts all the others.
Encoders == ~Over /\ EncodersStep /\ UNCHANGED outputVars
InputEnd == ~Over /\ (\E s \in Streams : InputEnds(s)) /\ UNCHANGED outputVars
Finished == Over /\ UNCHANGED vars

Mux == Receive \/ DrainOne \/ DrainEnds \/ ReconnectPending \/ Reconnect
         \/ SendOk \/ SendError \/ Close

Next == Encoders \/ InputEnd \/ Mux \/ Fail \/ LinkBreaks \/ Finished

Spec == Init /\ [][Next]_vars

(* The runtime polls every task that can go on, so each one is weakly fair. *)
(* A retry eventually finds the peer again (the backoff is bounded) and     *)
(* libsrt eventually reports a lost peer: the two are enabled only while a  *)
(* send is under way, hence strong fairness, like a slot of the shared      *)
(* queue that the other encoder may take.  The encoders are paced by        *)
(* tickers and a turn of the skip loop takes far less than a frame, so the  *)
(* loop does see the queue empty: SkipLoopEnds.                              *)
SkipLoopEnds == []<>(step # "drain")

Fairness ==
  /\ WF_vars(~Over /\ (FirstPicture \/ EncodeVideo) /\ UNCHANGED outputVars)
  /\ WF_vars(~Over /\ EncodeAudio /\ UNCHANGED outputVars)
  /\ \A s \in Streams :
       /\ WF_vars(~Over /\ FlushEncoder(s) /\ UNCHANGED outputVars)
       /\ SF_vars(~Over /\ Enqueue(s) /\ UNCHANGED outputVars)
  /\ WF_vars(Mux)
  /\ SF_vars(Reconnect)
  /\ SF_vars(SendError)

FairSpec == Spec /\ Fairness /\ SkipLoopEnds

-----------------------------------------------------------------------------
(* A viewer that has not had its keyframe will be given one: the request is *)
(* still pending, or the keyframe is in the encoder's hands, in the queue or *)
(* being sent.  (mux_and_send may drop a keyframe at two places, the skip    *)
(* loop and a failed send, and the encoder clears the flag before it knows   *)
(* that its keyframe will arrive.)                                           *)
KeyframePromised ==
  (handle = "live" /\ ~viewer.picture /\ ~Over)
    => (requestIdr \/ KeyUnderway \/ held = "key")

(* On every connection the program tables come before any media, so a       *)
(* viewer that joins after an outage can parse what it gets.                 *)
TablesBeforeMedia == viewer.media => viewer.tables

Phase == IF Over THEN "over" ELSE IF handle = "live" THEN "on" ELSE "off"
Given == IF Phase = "on" THEN {i \in DOMAIN viewer : viewer[i]} ELSE {}
Coming == requestIdr \/ KeyUnderway \/ held = "key"

Live == INSTANCE LiveOutput
  WITH Needs <- [tables |-> {}, media |-> {"tables"}, picture |-> {"tables", "media"}],
       Key <- "picture",
       phase <- Phase,
       given <- Given,
       coming <- Coming

(* The SRT output is a live output: across any order of backlog, failures    *)
(* and reconnections, every viewer starts with the tables, loses nothing it   *)
(* had, and has a keyframe coming until it gets one.                         *)
ImplementsLiveOutput == Live!Spec

(* Output resumes: if the network stops failing, a viewer without a picture *)
(* gets a keyframe, unless the video has ended or never began.               *)
OutputResumes ==
  (<>[][~LinkBreaks]_vars)
    => ((~viewer.picture) ~> (viewer.picture \/ Over \/ encoder["video"] \in {"first", "done"}))

(* The backlog and an outage never keep the run from ending: once both      *)
(* inputs have ended, the output is closed.                                  *)
EndsAfterInput == (ended = Streams) ~> Over
=============================================================================
