------------------------------ MODULE Director ------------------------------
(***************************************************************************)
(* The two-camera director (crates/core/src/director.rs) and its callers:  *)
(* the controller (crates/runtime/src/lib.rs), which evaluates it at every *)
(* tick and after every command, and the replay of the command line         *)
(* (crates/cli/src/main.rs), which does so for every record.                *)
(*                                                                         *)
(* Only differences of times are ever compared, with thresholds that are    *)
(* fixed, so a time is kept as its age, up to the largest threshold it is   *)
(* compared with.  Scores appear as the set of inputs that are ahead of the *)
(* other one by score_margin; what the analyzers and the advisor put into    *)
(* them is left open.                                                       *)
(***************************************************************************)
EXTENDS Integers

CONSTANTS
  MinShot, Cooldown, CandidateHold,   \* min_shot_ms, cooldown_ms, candidate_hold_ms
  MaxHold                             \* bound of the model: the longest timed hold

ASSUME DirectorAssumption ==
  /\ MinShot \in Nat /\ Cooldown \in Nat /\ CandidateHold \in Nat
  /\ MinShot >= CandidateHold
  /\ MaxHold \in Nat

VARIABLES
  eligible,      \* cameras that are healthy, synchronized and not frozen
  leading,       \* cameras whose score is ahead of the other's by the margin
  active,        \* active_input
  activeFor,     \* now - last_switch_ms
  candidate,     \* the candidate's input and how long it has been one
  hold,          \* the manual hold: its input and what is left of it
  autoEnabled,
  initialized,
  reason,        \* the reason of the last decision
  unopposed      \* not in the code: how long no evaluation has favoured the active input

cameraVars == <<eligible, leading>>
vars == <<cameraVars, active, activeFor, candidate, hold, autoEnabled, initialized, reason,
          unopposed>>

Inputs == {0, 1}
Other(i) == 1 - i

NoInput == 2
NoCandidate == [input |-> NoInput, held |-> 0]
Forever == MaxHold + 1
NoHold == [input |-> NoInput, left |-> 0]

\* An automatic switch needs both to be over.
Quiet == IF MinShot >= Cooldown THEN MinShot ELSE Cooldown

TypeOK ==
  /\ eligible \in SUBSET Inputs
  /\ leading \in SUBSET Inputs
  /\ active \in Inputs
  /\ activeFor \in 0 .. Quiet + CandidateHold
  /\ candidate \in [input : Inputs \cup {NoInput}, held : 0 .. CandidateHold]
  /\ hold \in [input : Inputs \cup {NoInput}, left : 0 .. Forever]
  /\ autoEnabled \in BOOLEAN
  /\ initialized \in BOOLEAN
  /\ reason \in {"Initial", "NoChange", "Manual", "Failover", "Automatic", "AutoPaused",
                 "BothInputsUnavailable", "CandidateBuilding", "MinimumShot", "Cooldown"}
  /\ unopposed \in 0 .. CandidateHold

Init ==
  /\ eligible \in SUBSET Inputs
  /\ leading \in SUBSET Inputs
  /\ active \in Inputs
  /\ activeFor = 0
  /\ candidate = NoCandidate
  /\ hold = NoHold
  /\ autoEnabled = TRUE
  /\ initialized = FALSE
  /\ reason = "Initial"
  /\ unopposed = 0

-----------------------------------------------------------------------------
(* decision without a switch; c is the candidate afterwards.                *)
Stay(why, c) ==
  /\ reason' = why
  /\ candidate' = c
  /\ UNCHANGED <<active, activeFor>>

(* switch_or_hold.                                                          *)
SwitchTo(i, why) ==
  /\ active' = i
  /\ activeFor' = IF i = active THEN activeFor ELSE 0
  /\ candidate' = NoCandidate
  /\ reason' = IF i = active THEN "NoChange" ELSE why

\* A plausible bug: a hold without a limit is taken for one that is over.
InForceTimed(h) == h.input # NoInput /\ h.left \in 1 .. MaxHold

\* The manual hold has not run out.
InForce(h) == h.input # NoInput /\ h.left > 0

Ahead == Other(active) \in eligible /\ Other(active) \in leading

(* The first evaluation only looks for an input that works.                 *)
First(h, c) ==
  /\ active' = IF active \notin eligible /\ Other(active) \in eligible
               THEN Other(active) ELSE active
  /\ reason' = "Initial"
  /\ candidate' = c
  /\ hold' = h
  /\ UNCHANGED activeFor

(* A hold is in force: its input, else what is active, else what works.     *)
Held(h, c) ==
  /\ InForce(h)
  /\ hold' = h
  /\ \/ h.input \in eligible /\ SwitchTo(h.input, "Manual")
     \/ h.input \notin eligible /\ active \in eligible /\ Stay("AutoPaused", c)

\* A plausible bug: a director that is paused does not fail over.
FailoverUnlessPaused(h, c) ==
  /\ active \notin eligible
  /\ InForce(h) => h.input \notin eligible
  /\ hold' = IF InForce(h) THEN h ELSE NoHold
  /\ IF autoEnabled /\ Other(active) \in eligible
     THEN SwitchTo(Other(active), "Failover")
     ELSE Stay("BothInputsUnavailable", c)

(* failover, paused or not, within a hold or not.  An outage of both inputs *)
(* leaves the candidate as it is.                                           *)
Failover(h, c) ==
  /\ active \notin eligible
  /\ InForce(h) => h.input \notin eligible
  /\ hold' = IF InForce(h) THEN h ELSE NoHold
  /\ IF Other(active) \in eligible
     THEN SwitchTo(Other(active), "Failover")
     ELSE Stay("BothInputsUnavailable", c)

\* A plausible bug: a candidate survives the moment in which it is not ahead.
NotAheadKeeps(c) == ~Ahead /\ Stay("NoChange", c)

NotAhead(c) == ~Ahead /\ Stay("NoChange", NoCandidate)

\* A plausible bug: a candidate is timed while it may not be switched to yet.
TooSoonBuilds(c) ==
  /\ Ahead
  /\ activeFor < Quiet
  /\ Stay(IF activeFor < MinShot THEN "MinimumShot" ELSE "Cooldown",
          IF c.input = Other(active) THEN c ELSE [input |-> Other(active), held |-> 0])

TooSoon(c) ==
  /\ Ahead
  /\ activeFor < Quiet
  /\ Stay(IF activeFor < MinShot THEN "MinimumShot" ELSE "Cooldown", NoCandidate)

\* A plausible bug: every evaluation starts the candidate's time again.
CandidateAfterRestarts(c) == [input |-> Other(active), held |-> 0]

CandidateAfter(c) ==
  IF c.input = Other(active) THEN c ELSE [input |-> Other(active), held |-> 0]

Settled(c) ==
  /\ Ahead
  /\ activeFor >= Quiet
  /\ IF CandidateAfter(c).held < CandidateHold
     THEN Stay("CandidateBuilding", CandidateAfter(c))
     ELSE SwitchTo(Other(active), "Automatic")

(* evaluate, with the manual hold, auto_enabled and the candidate that a    *)
(* command just before it has left.                                         *)
Evaluate(h, auto, c) ==
  /\ initialized' = TRUE
  /\ \/ ~initialized /\ First(h, c)
     \/ initialized /\ Held(h, c)
     \/ initialized /\ Failover(h, c)
     \/ /\ initialized
        /\ ~InForce(h)
        /\ active \in eligible
        /\ hold' = NoHold
        /\ \/ ~auto /\ Stay("AutoPaused", c)
           \/ auto /\ (NotAhead(c) \/ TooSoon(c) \/ Settled(c))
  /\ UNCHANGED cameraVars

\* The record of `unopposed`: a decision for the active input, or any switch.
Opposed == reason' = "NoChange" \/ active' # active

(* Controller::tick, and a replay record without a command.                 *)
Tick ==
  /\ Evaluate(hold, autoEnabled, candidate)
  /\ unopposed' = IF Opposed THEN 0 ELSE unopposed
  /\ UNCHANGED autoEnabled

(* Director::take and the evaluation after it.  The controller refuses a    *)
(* camera that is not eligible; the replay does not.                        *)
Take(i, left) ==
  /\ Evaluate([input |-> i, left |-> left], autoEnabled, NoCandidate)
  /\ unopposed' = 0
  /\ UNCHANGED autoEnabled

(* resume_auto and the evaluation after it.                                 *)
ResumeAuto ==
  /\ Evaluate(NoHold, TRUE, NoCandidate)
  /\ unopposed' = 0
  /\ autoEnabled' = TRUE

(* pause_auto, of the replay only, and the evaluation after it.             *)
PauseAuto ==
  /\ Evaluate(hold, FALSE, NoCandidate)
  /\ unopposed' = 0
  /\ autoEnabled' = FALSE

(* The cameras change: set_input_srt, mark_input_discontinuity and          *)
(* record_decoded do not evaluate, and the replay brings any change.        *)
Observe ==
  /\ eligible' \in SUBSET Inputs
  /\ leading' \in SUBSET Inputs
  /\ UNCHANGED <<active, activeFor, candidate, hold, autoEnabled, initialized, reason, unopposed>>

UpTo(bound, n) == IF n > bound THEN bound ELSE n

(* A unit of time.                                                          *)
Pass ==
  /\ activeFor' = UpTo(Quiet + CandidateHold, activeFor + 1)
  /\ candidate' = [candidate EXCEPT !.held = IF candidate.input = NoInput THEN 0
                                             ELSE UpTo(CandidateHold, @ + 1)]
  /\ hold' = [hold EXCEPT !.left = IF @ \in 1 .. MaxHold THEN @ - 1 ELSE @]
  /\ unopposed' = UpTo(CandidateHold, unopposed + 1)
  /\ UNCHANGED <<cameraVars, active, autoEnabled, initialized, reason>>

Command ==
  \/ \E i \in Inputs, left \in 1 .. Forever : Take(i, left)
  \/ ResumeAuto \/ PauseAuto

Next == Tick \/ Command \/ Observe \/ Pass

Spec == Init /\ [][Next]_vars

\* Time passes, and run_mock_pipeline ticks the controller once per frame.
FairSpec == Spec /\ WF_vars(Tick) /\ WF_vars(Pass)

-----------------------------------------------------------------------------
(* No evaluation leaves an input on the program that does not work while    *)
(* the other one does: paused, held, building a candidate or at the start.  *)
ServesEligible ==
  [][(Tick \/ Command) => (active' \in eligible \/ eligible = {})]_vars

(* After the first evaluation a hold stands: as long as it lasts and its    *)
(* input works, no evaluation leaves the other one on the program, not even *)
(* after a failover in between.                                             *)
ManualStands ==
  [][initialized =>
       /\ (Tick \/ PauseAuto) /\ hold.left > 0 /\ hold.input \in eligible => active' = hold.input
       /\ \A i \in eligible, left \in 1 .. Forever : Take(i, left) => active' = i]_vars

(* An automatic switch comes a minimum shot and a cooldown after the last   *)
(* switch, manual, automatic or a failover (the first evaluation's choice    *)
(* of an input does not count as one), and the candidate's time only starts  *)
(* after them.                                                              *)
AutomaticSpaced ==
  [][(Tick \/ Command) /\ active' # active /\ reason' = "Automatic"
       => activeFor = Quiet + CandidateHold]_vars

(* An automatic switch goes to an input that no evaluation and no command   *)
(* has spoken against for as long as a candidate must hold.                 *)
LeadHeld ==
  [][(Tick \/ Command) /\ active' # active /\ reason' = "Automatic"
       => unopposed = CandidateHold]_vars

(* When nothing changes any more the director settles: on the input that is *)
(* held without a limit, else on one that works, else, automatic, on the one *)
(* that leads.                                                              *)
Settles ==
  \A i \in Inputs :
    <>[](/\ i \in eligible
         /\ \/ hold.input = i /\ hold.left = Forever
            \/ Other(i) \notin eligible
            \/ autoEnabled /\ hold.left # Forever /\ leading = {i})
     /\ <>[][~Command]_vars
      => <>[](active = i)

(* docs/user-stories.md: a manual Take has priority.  It is on the program  *)
(* with the decision that answers it.                                       *)
TakeObeyed ==
  [][\A i \in eligible, left \in 1 .. Forever : Take(i, left) => active' = i]_vars
=============================================================================
