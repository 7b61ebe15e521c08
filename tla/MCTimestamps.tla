---------------------------- MODULE MCTimestamps ----------------------------
(* The two places at which timestamps are made, one at a time, since they    *)
(* share no variable: the demultiplexer reads those of the input, the         *)
(* program clock makes those of the output.                                  *)
(*                                                                         *)
(* The demultiplexer takes two TS packets of a unit, and four units of up to  *)
(* three are sent across a wrap of PTS.  The clock has seconds of 8 units, 3   *)
(* pictures and 3.5 AAC frames a second: neither period is a whole number of  *)
(* units, so the rounding of both shows.  A G.711 packet can complete two      *)
(* frames at once.                                                           *)
EXTENDS StreamDemuxer, ProgramClock

VARIABLE side   \* the side that is run

AtInput ==
  /\ side = "input"
  /\ Init
  /\ ClockInit /\ codec = "aac"

AtOutput ==
  /\ side = "output"
  /\ ClockInit
  /\ Init /\ packet = [unit |-> 1, part |-> 1, parts |-> 1, declared |-> FALSE]

InputStep == side = "input" /\ Next /\ UNCHANGED <<clockVars, side>>

OutputStep == side = "output" /\ ClockNext /\ UNCHANGED <<vars, side>>

\* The bounded clock has stopped.
OutOfTime == side = "output" /\ now = MaxTime /\ UNCHANGED <<clockVars, vars, side>>

SidesSpec ==
  /\ AtInput \/ AtOutput
  /\ [][InputStep \/ OutputStep \/ OutOfTime]_<<clockVars, vars, side>>
=============================================================================
