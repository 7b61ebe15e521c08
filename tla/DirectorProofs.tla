--------------------------- MODULE DirectorProofs ---------------------------
(***************************************************************************)
(* The director's timing and its priorities, for any thresholds.  The        *)
(* invariant is about the candidate (CandidateInv): it is always the camera  *)
(* that is not on the program, it was made after the minimum shot and the    *)
(* cooldown were over, and nothing has opposed it since.                     *)
(***************************************************************************)
EXTENDS Director, TLAPS

CandidateInv ==
  /\ candidate.input = NoInput => candidate = NoCandidate
  /\ candidate.input # NoInput =>
       /\ initialized
       /\ candidate.input = Other(active)
       /\ activeFor >= Quiet + candidate.held
       /\ candidate.held <= unopposed

IInv == TypeOK /\ CandidateInv

\* A hold, and what a command leaves of the candidate.
Holds == [input : Inputs \cup {NoInput}, left : 0 .. Forever]

LEMMA QuietBounds == Quiet \in Nat /\ Quiet >= MinShot /\ Quiet >= Cooldown
BY DirectorAssumption DEF DirectorAssumption, Quiet

LEMMA InitIInv == Init => IInv
<1> SUFFICES ASSUME Init PROVE IInv
  OBVIOUS
<1> USE DirectorAssumption, QuietBounds
    DEF DirectorAssumption, Init, Inputs, NoInput, NoCandidate, NoHold, Forever
<1>1. autoEnabled \in BOOLEAN /\ initialized \in BOOLEAN
  BY Zenon
<1>2. TypeOK
  BY <1>1 DEF TypeOK
<1>3. CandidateInv
  BY DEF CandidateInv
<1> QED
  BY <1>2, <1>3 DEF IInv

-----------------------------------------------------------------------------
\* What an evaluation can do to the candidate: drop it, keep it, or make one
\* when a switch is allowed.
Kept(c) == candidate' = c /\ active' = active /\ activeFor' = activeFor /\ reason' # "NoChange"

Made ==
  /\ candidate' = [input |-> Other(active), held |-> 0]
  /\ active' = active /\ activeFor' = activeFor
  /\ initialized
  /\ activeFor >= Quiet

\* An evaluation keeps the types, treats the candidate in one of these ways,
\* and switches by itself only when a candidate is ripe.
LEMMA EvaluateStep ==
  ASSUME IInv, NEW h \in Holds, NEW auto \in BOOLEAN, NEW c,
         c = candidate \/ c = NoCandidate,
         Evaluate(h, auto, c)
  PROVE  /\ active' \in Inputs
         /\ activeFor' \in 0 .. Quiet + CandidateHold
         /\ hold' \in Holds
         /\ initialized' \in BOOLEAN
         /\ reason' \in {"Initial", "NoChange", "Manual", "Failover", "Automatic", "AutoPaused",
                         "BothInputsUnavailable", "CandidateBuilding", "MinimumShot", "Cooldown"}
         /\ candidate' = NoCandidate \/ Kept(c) \/ Made
         /\ active' # active /\ reason' = "Automatic" =>
              /\ activeFor >= Quiet
              /\ \/ CandidateHold = 0
                 \/ c = candidate /\ c.input = Other(active) /\ c.held >= CandidateHold
<1> USE DirectorAssumption, QuietBounds DEF DirectorAssumption
<1>0. /\ active \in Inputs
      /\ activeFor \in 0 .. Quiet + CandidateHold
      /\ Other(active) \in Inputs
      /\ candidate \in [input : Inputs \cup {NoInput}, held : 0 .. CandidateHold]
      /\ NoHold \in Holds
      /\ Other(active) # active
  BY DEF IInv, TypeOK, Inputs, Other, NoHold, Holds, NoInput, Forever
<1>i. initialized' \in BOOLEAN
  BY Zenon DEF Evaluate
<1>1. CASE ~initialized /\ First(h, c)
  <2>1. c = NoCandidate
    BY <1>1 DEF IInv, CandidateInv
  <2> QED
    BY <1>0, <1>i, <1>1, <2>1 DEF First
<1>s. ASSUME NEW i \in Inputs, NEW why, SwitchTo(i, why)
      PROVE  /\ active' \in Inputs
             /\ activeFor' \in 0 .. Quiet + CandidateHold
             /\ candidate' = NoCandidate
             /\ reason' \in {why, "NoChange"}
  BY <1>0, <1>s DEF SwitchTo
<1>2. CASE initialized /\ Held(h, c)
  <2>1. CASE h.input \in eligible /\ SwitchTo(h.input, "Manual")
    <3>1. h.input \in Inputs
      BY <2>1 DEF IInv, TypeOK
    <3> QED
      BY <1>0, <1>i, <1>s, <1>2, <2>1, <3>1 DEF Held
  <2>2. CASE Stay("AutoPaused", c)
    BY <1>0, <1>i, <1>2, <2>2 DEF Held, Stay, Kept
  <2> QED
    BY <1>2, <2>1, <2>2 DEF Held
<1>3. CASE initialized /\ Failover(h, c)
  <2>1. hold' \in Holds
    BY <1>0, <1>3 DEF Failover
  <2>2. CASE SwitchTo(Other(active), "Failover")
    BY <1>0, <1>i, <1>s, <2>1, <2>2
  <2>3. CASE Stay("BothInputsUnavailable", c)
    BY <1>0, <1>i, <2>1, <2>3 DEF Stay, Kept
  <2> QED
    BY <1>3, <2>2, <2>3 DEF Failover
<1>4. CASE initialized /\ hold' = NoHold /\ Stay("AutoPaused", c)
  BY <1>0, <1>i, <1>4 DEF Stay, Kept
<1>5. CASE initialized /\ hold' = NoHold /\ NotAhead(c)
  BY <1>0, <1>i, <1>5 DEF NotAhead, Stay
<1>6. CASE initialized /\ hold' = NoHold /\ TooSoon(c)
  BY <1>0, <1>i, <1>6 DEF TooSoon, Stay
<1>7. CASE initialized /\ hold' = NoHold /\ Settled(c)
  <2>1. CASE Stay("CandidateBuilding", CandidateAfter(c))
    <3>1. CandidateAfter(c) = c \/ CandidateAfter(c) = [input |-> Other(active), held |-> 0]
      BY DEF CandidateAfter
    <3>2. Kept(c) \/ Made
      BY <1>7, <2>1, <3>1 DEF Settled, Stay, Kept, Made
    <3> QED
      BY <1>0, <1>i, <1>7, <2>1, <3>2 DEF Stay
  <2>2. CASE /\ SwitchTo(Other(active), "Automatic")
             /\ ~(CandidateAfter(c).held < CandidateHold)
    <3>1. CASE c.input = Other(active)
      <4>1. c = candidate /\ c.held >= CandidateHold
        BY <1>0, <2>2, <3>1 DEF CandidateAfter, NoCandidate, NoInput, Inputs
      <4> QED
        BY <1>0, <1>i, <1>s, <1>7, <2>2, <3>1, <4>1 DEF Settled
    <3>2. CASE c.input # Other(active)
      <4>1. CandidateHold = 0
        BY <2>2, <3>2 DEF CandidateAfter
      <4> QED
        BY <1>0, <1>i, <1>s, <1>7, <2>2, <4>1 DEF Settled
    <3> QED
      BY <3>1, <3>2
  <2> QED
    BY <1>7, <2>1, <2>2 DEF Settled
<1> QED
  BY <1>1, <1>2, <1>3, <1>4, <1>5, <1>6, <1>7 DEF Evaluate

-----------------------------------------------------------------------------
\* A step that evaluates, whatever it does to the record of who was opposed.
LEMMA EvaluateKeepsIInv ==
  ASSUME IInv, NEW h \in Holds, NEW auto \in BOOLEAN, NEW c,
         c = candidate \/ c = NoCandidate,
         Evaluate(h, auto, c),
         autoEnabled' \in BOOLEAN,
         unopposed' \in 0 .. CandidateHold,
         c = NoCandidate \/ Opposed \/ unopposed' = unopposed
  PROVE  IInv'
<1> USE DirectorAssumption, QuietBounds DEF DirectorAssumption
<1>1. /\ active' \in Inputs
      /\ activeFor' \in 0 .. Quiet + CandidateHold
      /\ hold' \in Holds
      /\ initialized' \in BOOLEAN
      /\ reason' \in {"Initial", "NoChange", "Manual", "Failover", "Automatic", "AutoPaused",
                      "BothInputsUnavailable", "CandidateBuilding", "MinimumShot", "Cooldown"}
      /\ candidate' = NoCandidate \/ Kept(c) \/ Made
  BY EvaluateStep
<1>2. /\ active \in Inputs /\ Other(active) \in Inputs /\ activeFor \in Nat
      /\ NoInput \notin Inputs
  BY DEF IInv, TypeOK, Inputs, NoInput, Other
<1>3. candidate' \in [input : Inputs \cup {NoInput}, held : 0 .. CandidateHold]
  <2>1. NoCandidate \in [input : Inputs \cup {NoInput}, held : 0 .. CandidateHold]
    BY DEF NoCandidate
  <2>2. candidate \in [input : Inputs \cup {NoInput}, held : 0 .. CandidateHold]
    BY DEF IInv, TypeOK
  <2> QED
    BY <1>1, <1>2, <2>1, <2>2 DEF Kept, Made
<1>4. TypeOK'
  <2>1. eligible' \in SUBSET Inputs /\ leading' \in SUBSET Inputs
    BY DEF Evaluate, cameraVars, IInv, TypeOK
  <2> QED
    BY <1>1, <1>3, <2>1 DEF TypeOK, Holds
<1>5. initialized'
  BY DEF Evaluate
<1>6. CandidateInv'
  <2>1. CASE candidate' = NoCandidate
    BY <2>1 DEF CandidateInv, NoCandidate
  <2>2. CASE Made
    BY <1>2, <1>5, <2>2 DEF Made, CandidateInv, Other
  <2>3. CASE Kept(c)
    <3>1. CASE c = NoCandidate
      BY <2>1, <2>3, <3>1 DEF Kept
    <3>2. CASE c = candidate /\ c # NoCandidate
      <4>1. ~Opposed
        BY <2>3 DEF Kept, Opposed
      <4>2. candidate' = candidate /\ active' = active /\ activeFor' = activeFor
            /\ unopposed' = unopposed
        BY <2>3, <3>2, <4>1 DEF Kept
      <4> QED
        BY <1>5, <4>2 DEF IInv, CandidateInv, Other
    <3> QED
      BY <3>1, <3>2
  <2> QED
    BY <1>1, <2>1, <2>2, <2>3
<1> QED
  BY <1>4, <1>6 DEF IInv

\* What each command gives to the evaluation after it.
LEMMA CommandHolds ==
  /\ \A i \in Inputs, left \in 1 .. Forever : [input |-> i, left |-> left] \in Holds
  /\ NoHold \in Holds
  /\ TypeOK => hold \in Holds /\ autoEnabled \in BOOLEAN
BY DirectorAssumption DEF DirectorAssumption, Holds, NoHold, Forever, TypeOK

LEMMA StepIInv == IInv /\ [Next]_vars => IInv'
<1> SUFFICES ASSUME IInv, [Next]_vars PROVE IInv'
  OBVIOUS
<1> USE DirectorAssumption, QuietBounds DEF DirectorAssumption
<1>0. /\ TypeOK
      /\ unopposed \in 0 .. CandidateHold /\ 0 \in 0 .. CandidateHold
      /\ hold \in Holds /\ autoEnabled \in BOOLEAN
  BY CommandHolds DEF IInv, TypeOK
<1>1. CASE Tick
  <2>1. Evaluate(hold, autoEnabled, candidate) /\ autoEnabled' \in BOOLEAN
    BY <1>0, <1>1 DEF Tick
  <2>2. unopposed' \in 0 .. CandidateHold /\ (Opposed \/ unopposed' = unopposed)
    BY <1>0, <1>1 DEF Tick
  <2> QED
    BY <1>0, <2>1, <2>2, EvaluateKeepsIInv
<1>2. ASSUME NEW i \in Inputs, NEW left \in 1 .. Forever, Take(i, left)
      PROVE IInv'
  <2>1. Evaluate([input |-> i, left |-> left], autoEnabled, NoCandidate)
        /\ autoEnabled' \in BOOLEAN /\ unopposed' \in 0 .. CandidateHold
    BY <1>0, <1>2 DEF Take
  <2> QED
    BY <1>0, <2>1, CommandHolds, EvaluateKeepsIInv
<1>3. CASE ResumeAuto
  <2>1. Evaluate(NoHold, TRUE, NoCandidate)
        /\ autoEnabled' \in BOOLEAN /\ unopposed' \in 0 .. CandidateHold
    BY <1>0, <1>3 DEF ResumeAuto
  <2> QED
    BY <2>1, CommandHolds, EvaluateKeepsIInv
<1>4. CASE PauseAuto
  <2>1. Evaluate(hold, FALSE, NoCandidate)
        /\ autoEnabled' \in BOOLEAN /\ unopposed' \in 0 .. CandidateHold
    BY <1>0, <1>4 DEF PauseAuto
  <2> QED
    BY <1>0, <2>1, EvaluateKeepsIInv
<1>5. CASE Observe
  BY <1>5 DEF Observe, IInv, TypeOK, CandidateInv, Other
<1>6. CASE Pass
  <2>1. /\ activeFor' \in 0 .. Quiet + CandidateHold
        /\ activeFor' >= activeFor
        /\ activeFor' >= activeFor + 1 \/ activeFor' = Quiet + CandidateHold
    BY <1>6 DEF Pass, UpTo, IInv, TypeOK
  <2>2. /\ unopposed' \in 0 .. CandidateHold
        /\ unopposed' >= unopposed + 1 \/ unopposed' = CandidateHold
    BY <1>6 DEF Pass, UpTo, IInv, TypeOK
  <2>3. /\ candidate' \in [input : Inputs \cup {NoInput}, held : 0 .. CandidateHold]
        /\ candidate'.input = candidate.input
        /\ candidate.input = NoInput => candidate'.held = 0
        /\ candidate'.held <= candidate.held + 1
    <3> DEFINE n == IF candidate.input = NoInput THEN 0 ELSE UpTo(CandidateHold, candidate.held + 1)
    <3>1. candidate \in [input : Inputs \cup {NoInput}, held : 0 .. CandidateHold]
      BY <1>0 DEF TypeOK
    <3>2. n \in 0 .. CandidateHold /\ n <= candidate.held + 1
      BY <3>1 DEF UpTo
    <3>3. candidate' = [candidate EXCEPT !.held = n]
      BY <1>6 DEF Pass
    <3>4. candidate.input = NoInput => n = 0
      OBVIOUS
    <3> HIDE DEF n
    <3> QED
      BY <3>1, <3>2, <3>3, <3>4
  <2>4. hold' \in [input : Inputs \cup {NoInput}, left : 0 .. Forever]
    BY <1>6 DEF Pass, IInv, TypeOK, Forever
  <2>5. UNCHANGED <<eligible, leading, active, autoEnabled, initialized, reason>>
    BY <1>6 DEF Pass, cameraVars
  <2>6. TypeOK'
    BY <1>0, <2>1, <2>2, <2>3, <2>4, <2>5 DEF TypeOK
  <2>7. CandidateInv'
    <3>1. CASE candidate.input = NoInput
      BY <2>3, <3>1 DEF CandidateInv, NoCandidate
    <3>2. CASE candidate.input # NoInput
      <4>1. /\ initialized /\ candidate.input = Other(active)
            /\ activeFor >= Quiet + candidate.held /\ candidate.held <= unopposed
        BY <3>2 DEF IInv, CandidateInv
      <4>2. /\ candidate.held \in Nat /\ candidate'.held \in Nat
            /\ candidate'.held <= CandidateHold
            /\ activeFor \in Nat /\ activeFor' \in Nat /\ unopposed \in Nat /\ unopposed' \in Nat
        BY <1>0, <2>1, <2>2, <2>3 DEF TypeOK
      <4>3. activeFor' >= Quiet + candidate'.held /\ candidate'.held <= unopposed'
        BY <2>1, <2>2, <2>3, <4>1, <4>2
      <4> QED
        BY <2>3, <2>5, <3>2, <4>1, <4>3 DEF CandidateInv, Other
    <3> QED
      BY <3>1, <3>2
  <2> QED
    BY <2>6, <2>7 DEF IInv
<1>7. CASE UNCHANGED vars
  BY <1>7 DEF vars, cameraVars, IInv, TypeOK, CandidateInv, Other
<1> QED
  BY <1>1, <1>2, <1>3, <1>4, <1>5, <1>6, <1>7 DEF Next, Command

(* TypeOK and CandidateInv hold in every state: what is timed as a candidate *)
(* is always the camera off the program, and nothing has opposed it since.   *)
THEOREM CandidateSound == Spec => [](TypeOK /\ CandidateInv)
<1>1. Init => IInv
  BY InitIInv
<1>2. IInv /\ [Next]_vars => IInv'
  BY StepIInv
<1>3. IInv => TypeOK /\ CandidateInv
  BY DEF IInv
<1> QED
  BY <1>1, <1>2, <1>3, PTL DEF Spec
-----------------------------------------------------------------------------
\* Every step that evaluates, as one evaluation.
LEMMA Evaluations ==
  ASSUME IInv, Tick \/ Command
  PROVE  \E h \in Holds, auto \in BOOLEAN, c \in {candidate, NoCandidate} : Evaluate(h, auto, c)
<1>0. hold \in Holds /\ autoEnabled \in BOOLEAN
  BY CommandHolds DEF IInv
<1>1. CASE Tick
  <2>1. Evaluate(hold, autoEnabled, candidate)
    BY <1>1 DEF Tick
  <2> QED
    BY <1>0, <2>1
<1>2. ASSUME NEW i \in Inputs, NEW left \in 1 .. Forever, Take(i, left)
      PROVE \E h \in Holds, auto \in BOOLEAN, c \in {candidate, NoCandidate} : Evaluate(h, auto, c)
  <2>1. Evaluate([input |-> i, left |-> left], autoEnabled, NoCandidate)
    BY <1>2 DEF Take
  <2>2. [input |-> i, left |-> left] \in Holds
    BY CommandHolds
  <2> QED
    BY <1>0, <2>1, <2>2
<1>3. CASE ResumeAuto
  <2>1. Evaluate(NoHold, TRUE, NoCandidate)
    BY <1>3 DEF ResumeAuto
  <2> QED
    BY CommandHolds, <2>1
<1>4. CASE PauseAuto
  <2>1. Evaluate(hold, FALSE, NoCandidate)
    BY <1>4 DEF PauseAuto
  <2> QED
    BY <1>0, <2>1
<1> QED
  BY <1>1, <1>2, <1>3, <1>4 DEF Command

LEMMA EvaluateServes ==
  ASSUME IInv, NEW h \in Holds, NEW auto \in BOOLEAN, NEW c, Evaluate(h, auto, c)
  PROVE  active' \in eligible \/ eligible = {}
<1>1. /\ active \in Inputs /\ eligible \subseteq Inputs
      /\ \A i \in Inputs : i = active \/ i = Other(active)
  BY DEF IInv, TypeOK, Inputs, Other
<1>2. CASE First(h, c)
  BY <1>1, <1>2 DEF First
<1>3. CASE Held(h, c)
  BY <1>1, <1>3 DEF Held, SwitchTo, Stay
<1>4. CASE Failover(h, c)
  BY <1>1, <1>4 DEF Failover, SwitchTo, Stay
<1>5. CASE active \in eligible /\ Stay("AutoPaused", c)
  BY <1>5 DEF Stay
<1>6. CASE active \in eligible /\ (NotAhead(c) \/ TooSoon(c))
  BY <1>6 DEF NotAhead, TooSoon, Stay
<1>7. CASE active \in eligible /\ Settled(c)
  BY <1>7 DEF Settled, Ahead, Stay, SwitchTo
<1> QED
  BY <1>2, <1>3, <1>4, <1>5, <1>6, <1>7 DEF Evaluate

LEMMA EvaluateObeys ==
  ASSUME IInv, initialized, NEW h \in Holds, NEW auto, NEW c, Evaluate(h, auto, c),
         h.left > 0, h.input \in eligible
  PROVE  active' = h.input
<1>1. InForce(h)
  BY DEF InForce, IInv, TypeOK, Inputs, NoInput
<1>2. CASE Held(h, c)
  BY <1>2 DEF Held, SwitchTo
<1>3. CASE Failover(h, c)
  BY <1>1, <1>3 DEF Failover
<1> QED
  BY <1>1, <1>2, <1>3 DEF Evaluate

LEMMA AutomaticRipe ==
  ASSUME IInv, Tick \/ Command, active' # active, reason' = "Automatic"
  PROVE  activeFor = Quiet + CandidateHold /\ unopposed = CandidateHold
<1> USE DirectorAssumption, QuietBounds DEF DirectorAssumption
<1>1. PICK h \in Holds, auto \in BOOLEAN, c \in {candidate, NoCandidate} : Evaluate(h, auto, c)
  BY Evaluations
<1>2. /\ activeFor >= Quiet
      /\ \/ CandidateHold = 0
         \/ c = candidate /\ c.input = Other(active) /\ c.held >= CandidateHold
  BY <1>1, EvaluateStep
<1>3. activeFor \in 0 .. Quiet + CandidateHold /\ unopposed \in 0 .. CandidateHold
  BY DEF IInv, TypeOK
<1>4. CASE CandidateHold = 0
  BY <1>2, <1>3, <1>4
<1>5. CASE candidate.input = Other(active) /\ candidate.held >= CandidateHold
  <2>1. candidate.input # NoInput
    BY <1>5 DEF IInv, TypeOK, Inputs, Other, NoInput
  <2>2. activeFor >= Quiet + candidate.held /\ candidate.held <= unopposed
    BY <2>1 DEF IInv, CandidateInv
  <2>3. candidate.held \in Nat
    BY DEF IInv, TypeOK
  <2> QED
    BY <1>3, <1>5, <2>2, <2>3
<1> QED
  BY <1>2, <1>4, <1>5

(* For any thresholds: no evaluation leaves a camera on the program that     *)
(* does not work while the other one does.                                  *)
THEOREM AlwaysServesEligible == Spec => ServesEligible
<1>1. Init => IInv
  BY InitIInv
<1>2. IInv /\ [Next]_vars => IInv'
  BY StepIInv
<1>3. IInv => [(Tick \/ Command) => (active' \in eligible \/ eligible = {})]_vars
  BY Evaluations, EvaluateServes
<1> QED
  BY <1>1, <1>2, <1>3, PTL DEF Spec, ServesEligible

(* For any thresholds: a hold stands while it lasts and its camera works.    *)
THEOREM ManualAlwaysStands == Spec => ManualStands
<1> DEFINE Stands ==
      initialized =>
        /\ (Tick \/ PauseAuto) /\ hold.left > 0 /\ hold.input \in eligible => active' = hold.input
        /\ \A i \in eligible, left \in 1 .. Forever : Take(i, left) => active' = i
<1>1. Init => IInv
  BY InitIInv
<1>2. IInv /\ [Next]_vars => IInv'
  BY StepIInv
<1>3. IInv => Stands
  <2> SUFFICES ASSUME IInv, initialized PROVE Stands
    OBVIOUS
  <2>0. hold \in Holds /\ eligible \subseteq Inputs
    BY CommandHolds DEF IInv, TypeOK
  <2>1. ASSUME Tick \/ PauseAuto, hold.left > 0, hold.input \in eligible
        PROVE active' = hold.input
    <3>1. CASE Tick
      <4>1. Evaluate(hold, autoEnabled, candidate)
        BY <3>1 DEF Tick
      <4> QED
        BY <2>0, <2>1, <4>1, EvaluateObeys
    <3>2. CASE PauseAuto
      <4>1. Evaluate(hold, FALSE, NoCandidate)
        BY <3>2 DEF PauseAuto
      <4> QED
        BY <2>0, <2>1, <4>1, EvaluateObeys
    <3> QED
      BY <2>1, <3>1, <3>2
  <2>2. ASSUME NEW i \in eligible, NEW left \in 1 .. Forever, Take(i, left)
        PROVE active' = i
    <3> DEFINE h == [input |-> i, left |-> left]
    <3>1. Evaluate(h, autoEnabled, NoCandidate)
      BY <2>2 DEF Take
    <3>2. h \in Holds /\ h.left > 0 /\ h.input = i
      BY <2>0, CommandHolds
    <3> HIDE DEF h
    <3> QED
      BY <3>1, <3>2, EvaluateObeys
  <2> QED
    BY <2>1, <2>2
<1> QED
  BY <1>1, <1>2, <1>3, PTL DEF Spec, ManualStands

(* For any thresholds: an automatic switch comes a minimum shot, a cooldown  *)
(* and a candidate's time after the last switch of any kind.                *)
THEOREM AlwaysSpaced == Spec => AutomaticSpaced
<1>1. Init => IInv
  BY InitIInv
<1>2. IInv /\ [Next]_vars => IInv'
  BY StepIInv
<1>3. IInv => [(Tick \/ Command) /\ active' # active /\ reason' = "Automatic"
                 => activeFor = Quiet + CandidateHold]_vars
  BY AutomaticRipe
<1> QED
  BY <1>1, <1>2, <1>3, PTL DEF Spec, AutomaticSpaced

(* For any thresholds: an automatic switch goes to a camera that nothing has *)
(* spoken against for a candidate's time.                                   *)
THEOREM LeadAlwaysHeld == Spec => LeadHeld
<1>1. Init => IInv
  BY InitIInv
<1>2. IInv /\ [Next]_vars => IInv'
  BY StepIInv
<1>3. IInv => [(Tick \/ Command) /\ active' # active /\ reason' = "Automatic"
                 => unopposed = CandidateHold]_vars
  BY AutomaticRipe
<1> QED
  BY <1>1, <1>2, <1>3, PTL DEF Spec, LeadHeld
=============================================================================
