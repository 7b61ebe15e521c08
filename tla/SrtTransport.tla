---------------------------- MODULE SrtTransport ----------------------------
(***************************************************************************)
(* One SRT endpoint (SrtTransport in crates/srt/src/lib.rs).  A task owns it *)
(* and either receives or sends; a monitor samples its statistics through a  *)
(* clone.  Both take the one lock: the socket calls run in blocking threads, *)
(* which hold it for as long as they wait for the socket, while a connection *)
(* is made without it and is told to others by `connecting`.                 *)
(* The chunks of a session are one stream, here "chunks".                    *)
(***************************************************************************)
EXTENDS Naturals

CONSTANTS
  AnyFormat,       \* of chunks, which are MPEG-TS
  InitialBackoff, MaxBackoff,   \* reconnect.initial_backoff_ms and max_backoff_ms, in ticks
  MaxAttempts,     \* bound of the model: failed attempts in a row
  MaxSession       \* bound of the model: connections of one run

VARIABLES
  enabled,       \* reconnect.enabled
  session,       \* connections made; the code counts from the second: reconnects
  latest, out,   \* the session of the last chunk received, and that chunk
  ended,         \* how the task of the endpoint ended, if it did
  attempts,      \* not in the code: failures recorded since the last connection
  delay,         \* the time until not_before
  waits,         \* the endpoint receives: reconnect_if_due(true)
  mode,          \* Endpoint.mode
  handle,        \* TransportInner.handle.is_some()
  native,        \* what libsrt holds: the socket that was created, the peer's, an epoll
  owned,         \* of these, what the fields of the SocketHandle name, also of a half-made one
  broken,        \* libsrt no longer calls the socket connected
  connecting,    \* TransportInner.connecting
  backoff,       \* ReconnectSchedule.next_backoff_ms
  received,      \* SrtTransport.received_reconnects
  task,          \* "check" (reconnect_if_due), "io" (holds the lock), or where
                 \* SocketHandle::connect is
  seen           \* the last sample of the monitor

sharedVars == <<enabled, session, latest, out, ended>>
backoffVars == <<attempts, delay>>
linkVars == <<handle, native, owned, broken, connecting, backoff>>
configVars == <<mode, waits>>
ownVars == <<configVars, linkVars, received, task, seen>>

reconnects == IF session = 0 THEN 0 ELSE session - 1

DialStage == {"dial", "created", "polled", "listening", "accepted"}

Objects == {"socket", "peer", "epoll"}

\* A listener goes on with the socket of its peer.
Held == {"epoll", IF mode = "listener" THEN "peer" ELSE "socket"}

TypeOK ==
  /\ mode \in {"caller", "listener"} /\ native \subseteq Objects /\ owned \subseteq Objects
  /\ waits \in BOOLEAN /\ handle \in BOOLEAN /\ broken \in BOOLEAN /\ connecting \in BOOLEAN
  /\ backoff \in InitialBackoff .. MaxBackoff
  /\ received \in 0 .. MaxSession
  /\ task \in {"check", "io"} \cup DialStage
  /\ seen \in [connected : BOOLEAN, reconnects : 0 .. MaxSession]

\* connect: the first connection has to stand before the run starts.
Init ==
  /\ session = 0
  /\ mode \in {"caller", "listener"} /\ waits \in BOOLEAN
  /\ handle = FALSE
  /\ native = {} /\ owned = {}
  /\ broken = FALSE
  /\ connecting = FALSE
  /\ backoff = InitialBackoff
  /\ received = 0
  /\ task = "dial"
  /\ seen = [connected |-> TRUE, reconnects |-> 0]

-----------------------------------------------------------------------------
Doubled == IF backoff * 2 < MaxBackoff THEN backoff * 2 ELSE MaxBackoff

\* record_failure: nothing if reconnect is disabled.
RecordFailure ==
  IF enabled
  THEN /\ attempts < MaxAttempts   \* the bound of the model
       /\ attempts' = attempts + 1
       /\ delay' = backoff
       /\ backoff' = Doubled
  ELSE UNCHANGED <<backoffVars, backoff>>

\* Drop of the SocketHandle: it releases what its fields name, and nothing else.
DropHandle == native' = native \ owned /\ owned' = {}

\* mark_disconnected.
MarkDisconnected == handle' = FALSE /\ DropHandle /\ broken' = FALSE /\ RecordFailure

Checking == ended = "no" /\ task = "check"

(* reconnect_if_due finds a connection: the call goes on to the socket.     *)
Ready ==
  /\ Checking /\ handle
  /\ task' = "io"
  /\ UNCHANGED <<sharedVars, backoffVars, configVars, linkVars, received, seen>>

(* An attempt is due.  The other outcomes of the check change nothing: a    *)
(* receiver sleeps and checks again, a sender returns ReconnectPending; with *)
(* reconnects disabled a sender reports every packet as a failed one, and a   *)
(* receiver has ended when it lost the connection.                            *)
Due ==
  /\ Checking /\ ~handle /\ enabled /\ ~connecting /\ delay = 0
  /\ connecting' = TRUE
  /\ task' = "dial"
  /\ UNCHANGED <<sharedVars, backoffVars, configVars, handle, native, owned, broken, backoff, received,
                 seen>>

Tick ==
  /\ delay > 0
  /\ delay' = delay - 1
  /\ UNCHANGED <<sharedVars, attempts, ownVars>>

-----------------------------------------------------------------------------
(* SocketHandle::connect, in a blocking thread and without the lock.  What a *)
(* step has opened belongs to the half-made handle, and a failure drops it.  *)
Dialing(at) == ended = "no" /\ task = at

To(next) ==
  /\ task' = next
  /\ UNCHANGED <<sharedVars, backoffVars, configVars, handle, broken, connecting, backoff, received,
                 seen>>

CreateSocket ==
  /\ Dialing("dial")
  /\ native' = native \cup {"socket"} /\ owned' = {"socket"}
  /\ To("created")

\* A plausible bug: the field keeps SRT_ERROR until the connection stands.
PollUnowned ==
  /\ Dialing("created")
  /\ native' = native \cup {"epoll"} /\ UNCHANGED owned
  /\ To("polled")

\* configure, then the epoll; that it takes the socket is the next thing to fail.
Poll ==
  /\ Dialing("created")
  /\ native' = native \cup {"epoll"} /\ owned' = owned \cup {"epoll"}
  /\ To("polled")

Listen == Dialing("polled") /\ mode = "listener" /\ UNCHANGED <<native, owned>> /\ To("listening")

(* The peer's socket takes the place of the one that listened, which is      *)
(* closed: nobody else names it now.                                         *)
Accept ==
  /\ Dialing("listening")
  /\ native' = (native \ {"socket"}) \cup {"peer"}
  /\ owned' = (owned \ {"socket"}) \cup {"peer"}
  /\ To("accepted")

\* A plausible bug: the monitor is not told of the new connection.
DialedUncounted ==
  /\ \/ Dialing("polled") /\ mode = "caller"
     \/ Dialing("accepted")
  /\ session < MaxSession
  /\ session' = IF session = 0 THEN 1 ELSE session
  /\ connecting' = FALSE /\ handle' = TRUE /\ broken' = FALSE
  /\ backoff' = InitialBackoff /\ attempts' = 0 /\ delay' = 0
  /\ task' = "check"
  /\ UNCHANGED <<enabled, latest, out, ended, configVars, native, owned, received, seen>>

(* The connection stands; reconnect.reset.  The owner is the only one that  *)
(* closes the endpoint, so it is not closed here.                            *)
Dialed ==
  /\ \/ Dialing("polled") /\ mode = "caller"
     \/ Dialing("accepted")
  /\ session < MaxSession   \* the bound of the model
  /\ session' = session + 1
  /\ connecting' = FALSE /\ handle' = TRUE /\ broken' = FALSE
  /\ backoff' = InitialBackoff /\ attempts' = 0 /\ delay' = 0
  /\ task' = IF session = 0 THEN "check" ELSE "io"
  /\ UNCHANGED <<enabled, latest, out, ended, configVars, native, owned, received, seen>>

SrtError == {"library", "uri", "resolve", "operation", "timeout"}

IsRetryable(error) == error \notin {"library", "uri"}

\* What each step can meet; an option with a NUL is taken for a bad URI.
ErrorsAt(at) ==
  CASE at = "dial" -> {"library", "uri", "resolve", "operation"}
    [] at = "created" -> {"operation", "uri"}
    [] at \in {"polled", "listening"} -> {"operation", "timeout"}
    [] at = "accepted" -> {"operation"}
    [] OTHER -> {}

\* A plausible bug: a failed attempt leaves the flag of the connection attempt set.
DialFailsStuck(error) ==
  /\ ended = "no" /\ session > 0 /\ IsRetryable(error) /\ error \in ErrorsAt(task)
  /\ DropHandle
  /\ UNCHANGED connecting
  /\ RecordFailure
  /\ task' = "check"
  /\ UNCHANGED <<sharedVars, configVars, handle, broken, received, seen>>

\* A retryable failure: the receiver checks again, the sender returns it.
DialFails(error) ==
  /\ ended = "no" /\ session > 0 /\ IsRetryable(error) /\ error \in ErrorsAt(task)
  /\ DropHandle
  /\ connecting' = FALSE
  /\ RecordFailure
  /\ task' = "check"
  /\ UNCHANGED <<sharedVars, configVars, handle, broken, received, seen>>

(* A failure of the first attempt ends the start; one that is not retryable *)
(* ends either task, for it is Unavailable or Unsupported.                   *)
DialRefused(error) ==
  /\ ended = "no" /\ error \in ErrorsAt(task)
  /\ session = 0 \/ ~IsRetryable(error)
  /\ DropHandle
  /\ connecting' = FALSE
  /\ ended' = "error"
  /\ task' = "check"
  /\ UNCHANGED <<enabled, session, latest, out, backoffVars, configVars, handle, broken, backoff,
                 received, seen>>

DialStep ==
  \/ CreateSocket \/ Poll \/ Listen \/ Accept \/ Dialed
  \/ \E error \in SrtError : DialFails(error) \/ DialRefused(error)

-----------------------------------------------------------------------------
(* A broken socket may still hold chunks that arrived before.               *)
Receive ==
  /\ ended = "no" /\ task = "io" /\ waits
  /\ out' = [stream |-> "chunks", session |-> session, marked |-> reconnects # received,
             key |-> TRUE, own |-> FALSE, format |-> AnyFormat]
  /\ latest' = [latest EXCEPT !["chunks"] = session]
  /\ received' = reconnects
  /\ task' = "check"
  /\ UNCHANGED <<enabled, session, ended, backoffVars, configVars, linkVars, seen>>

(* No chunk for a second: the connection stays, but a receiver that may not *)
(* reconnect ends.                                                           *)
ReceiveTimesOut ==
  /\ ended = "no" /\ task = "io" /\ waits
  /\ task' = "check"
  /\ ended' = IF enabled THEN ended ELSE "error"
  /\ UNCHANGED <<enabled, session, latest, out, backoffVars, configVars, linkVars, received, seen>>

Sent ==
  /\ ended = "no" /\ task = "io" /\ ~waits /\ ~broken
  /\ task' = "check"
  /\ UNCHANGED <<sharedVars, backoffVars, configVars, linkVars, received, seen>>

(* The socket fails; for a sender that is a full one, too.                  *)
IoFails ==
  /\ ended = "no" /\ task = "io"
  /\ MarkDisconnected
  /\ task' = "check"
  /\ ended' = IF waits /\ ~enabled THEN "error" ELSE ended
  /\ UNCHANGED <<enabled, session, latest, out, configVars, connecting, received, seen>>

SocketBreaks ==
  /\ handle /\ ~broken
  /\ broken' = TRUE
  /\ UNCHANGED <<sharedVars, backoffVars, configVars, handle, native, owned, connecting, backoff, received,
                 task, seen>>

(* close: a sender does when its input has ended.                           *)
Close ==
  /\ Checking /\ ~waits
  /\ ended' = "closed"
  /\ handle' = FALSE /\ DropHandle /\ broken' = FALSE
  /\ UNCHANGED <<enabled, session, latest, out, backoffVars, configVars, connecting, backoff, received,
                 task, seen>>

(* stats of the monitor's clone.  It waits for the lock, and is refused by  *)
(* a closed endpoint.                                                        *)
Sample ==
  /\ session > 0 /\ task # "io" /\ ended # "closed"
  /\ seen' = [connected |-> handle /\ ~broken, reconnects |-> reconnects]
  /\ UNCHANGED <<sharedVars, backoffVars, configVars, linkVars, received, task>>

Next ==
  \/ Ready \/ Due \/ Tick
  \/ DialStep
  \/ Receive \/ ReceiveTimesOut \/ Sent \/ IoFails \/ SocketBreaks \/ Close
  \/ Sample
=============================================================================
