----------------------------- MODULE LiveOutput -----------------------------
(***************************************************************************)
(* What a live output promises its viewers, whatever its protocol           *)
(* (README.md:37 and 44): each one starts from nothing and is given every    *)
(* item together with, or after, what that item needs, and one without a     *)
(* keyframe is never left with none coming.  A viewer may go at any moment,  *)
(* and the output never waits for one.                                       *)
(***************************************************************************)
CONSTANTS
  Needs,   \* of every item that is sent, the items it is of no use without
  Key      \* the item that starts a decodable picture sequence

VARIABLES
  phase,    \* "on": a viewer is connected; "off": none is; "over"
  given,    \* what the viewer has been given, {} without one
  coming    \* a keyframe is asked for or on its way

Init ==
  /\ phase = "on"
  /\ given = {}
  /\ coming = TRUE

Usable(items) == items \subseteq DOMAIN Needs /\ \A x \in items : Needs[x] \subseteq items

Owed == phase = "on" => Key \in given \/ coming

Join == phase = "off" /\ phase' = "on" /\ given' = {}

Give == phase = "on" /\ given \subseteq given' /\ Usable(given') /\ UNCHANGED phase

Leave == phase = "on" /\ phase' = "off" /\ given' = {}

\* Encoding, skipping, dialing: what no viewer sees.
Work == phase # "over" /\ UNCHANGED <<phase, given>>

End == phase # "over" /\ phase' = "over" /\ given' = {}

Next == (Join \/ Give \/ Leave \/ Work \/ End) /\ Owed'

Spec == Init /\ [][Next]_<<phase, given, coming>>
=============================================================================
