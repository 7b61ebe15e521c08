---------------------------- MODULE JobRunProofs ----------------------------
(***************************************************************************)
(* Safety of a run, from its document to its end, for any documents a parser *)
(* lets pass and channels of any capacity.  The inductive invariant has a      *)
(* part for each of the three things JobRun composes:                           *)
(*   TasksInv    whose channels a task's end may close: a taker that has ended   *)
(*               well left an empty channel without senders (Emptied), so a      *)
(*               task finds its channel closed only after another has failed      *)
(*               (CausesKept);                                                    *)
(*   LastStands  what the last sample of a packet source leaves shown;            *)
(*   JobInv      where the document comes from: one the user has, or what          *)
(*               `config convert` wrote for one (Origin), so that Config is        *)
(*               accepted from the stage "loaded" on.                              *)
(* Between them stand the lemmas about the operators of JobConfig and              *)
(* ExecutionPlan: conversion keeps the meaning, the plan of an accepted job        *)
(* keeps its claims and passes its three readers, and a backend refuses only       *)
(* what validate does not know.                                                    *)
(***************************************************************************)
EXTENDS JobRun, FiniteSetTheorems, TLAPS

-----------------------------------------------------------------------------
(* The tasks of a run.                                                      *)
TaskTypes ==
  /\ task \in [Tasks!Task -> Tasks!Status]
  /\ queue \in [Tasks!Queue -> Nat]
  /\ held \in Tasks!Media \cup {"none"}
  /\ control \in [running : BOOLEAN, depths : BOOLEAN]
  /\ supervisor \in {"off", "joining", "aborting", "stopping", "returned"}

Failed == \E t \in Tasks!Task : task[t] = "failed"

\* Only the tasks before the decoders depend on the input.
Crew ==
  /\ supervisor = "off" => \A t \in Tasks!Task : task[t] = "off"
  /\ supervisor # "off" =>
       \A t \in Tasks!Task \ {"receive", "demux", "packetSource"} : task[t] # "off"
  /\ task["receive"] = "off" <=> task["demux"] = "off"

\* A channel whose taker has ended well, or is not there, is empty, and stays
\* so: nobody sends to a channel that is closed.
Emptied ==
  \A q \in Tasks!Queue :
    /\ task[Tasks!Taker(q)] \in {"off", "ok"} => queue[q] = 0
    /\ task[Tasks!Taker(q)] = "ok" => \A t \in Tasks!Senders(q) : task[t] # "run"

\* A closed channel comes of a failure: its taker has not ended well before
\* its senders.
CausesKept ==
  /\ (\E t \in Tasks!Task : task[t] = "closed") => Failed
  /\ (\E t \in Tasks!Task : task[t] = "aborted") => \A t \in Tasks!Task : task[t] # "run"

Verdict ==
  /\ supervisor \in {"off", "joining"} => failure = "none"
  /\ supervisor = "aborting" => failure # "none"
  /\ failure # "none" => Failed
  /\ supervisor \in {"stopping", "returned"} =>
       /\ \A t \in Tasks!Task : task[t] # "run"
       /\ failure = "none" => \A t \in Tasks!Task : task[t] \in {"off", "ok"}

TasksInv ==
  /\ TaskTypes
  /\ Crew
  /\ Emptied
  /\ CausesKept
  /\ Verdict
  /\ ReturnedShowsNothing

\* What a step of one task may do, whichever task it is.
TaskActs(t) ==
  /\ task[t] = "run"
  /\ UNCHANGED <<supervisor, failure>>
  /\ held' \in Tasks!Media \cup {"none"}
  /\ control' \in {control, [control EXCEPT !.depths = TRUE]}
  /\ queue' \in [Tasks!Queue -> Nat]
  /\ \A q \in Tasks!Queue : queue'[q] > queue[q] => task[Tasks!Taker(q)] = "run" /\ Tasks!Taker(q) # t
  /\ \/ task' = task
     \/ task' = [task EXCEPT ![t] = "ok"] /\ \A q \in Tasks!Queue :
          Tasks!Taker(q) = t => queue[q] = 0 /\ \A u \in Tasks!Senders(q) : task[u] # "run"
     \/ task' = [task EXCEPT ![t] = "closed"] /\ \E q \in Tasks!Queue :
          t \in Tasks!Senders(q) /\ task[Tasks!Taker(q)] # "run"
     \/ task' = [task EXCEPT ![t] = "failed"] /\ supervisor = "joining"

LEMMA Channels ==
  /\ \A q \in Tasks!Queue : Tasks!Taker(q) \in Tasks!Task /\ Tasks!Senders(q) \subseteq Tasks!Task
  /\ \A q \in Tasks!Queue : Tasks!Taker(q) \notin Tasks!Senders(q)
  /\ Tasks!Taker("transport") = "demux" /\ Tasks!Taker("video") = "videoDecode"
  /\ Tasks!Taker("audio") = "audioDecode" /\ Tasks!Taker("videoFrames") = "videoEncode"
  /\ Tasks!Taker("audioFrames") = "audioEncode" /\ Tasks!Taker("encoded") = "output"
  /\ Tasks!Senders("transport") = {"receive"} /\ Tasks!Senders("encoded") = {"videoEncode",
     "audioEncode"}
  /\ Tasks!Senders("video") = {"demux", "packetSource"}
  /\ Tasks!Senders("audio") = {"demux", "packetSource"}
  /\ Tasks!Senders("videoFrames") = {"videoDecode"} /\ Tasks!Senders("audioFrames") = {"audioDecode"}
  BY DEF Tasks!Taker, Tasks!Senders, Tasks!Queue, Tasks!Media, Tasks!Task

LEMMA TaskActsKeep ==
  ASSUME TasksInv, NEW t \in Tasks!Task, TaskActs(t)
  PROVE  TasksInv'
<1> USE DEF TasksInv
<1>1. TaskTypes'
  BY DEF TaskTypes, TaskActs, Tasks!Status
<1>2. Crew'
  BY DEF TaskTypes, TaskActs, Crew, Tasks!Task
<1>3. Emptied'
  <2> SUFFICES ASSUME NEW q \in Tasks!Queue
               PROVE  /\ task'[Tasks!Taker(q)] \in {"off", "ok"} => queue'[q] = 0
                      /\ task'[Tasks!Taker(q)] = "ok" => \A u \in Tasks!Senders(q) : task'[u] # "run"
    BY DEF Emptied, Tasks!Taker, Tasks!Senders
  <2>1. Tasks!Taker(q) \in Tasks!Task /\ Tasks!Senders(q) \subseteq Tasks!Task
    BY Channels
  <2>2. task'[Tasks!Taker(q)] \in {"off", "ok"} => queue[q] = 0 /\ ~(queue'[q] > queue[q])
    BY <2>1 DEF TaskActs, TaskTypes, Emptied
  <2>3. task'[Tasks!Taker(q)] \in {"off", "ok"} => queue'[q] = 0
    BY <2>2 DEF TaskTypes, TaskActs
  <2>4. task'[Tasks!Taker(q)] = "ok" => \A u \in Tasks!Senders(q) : task'[u] # "run"
    BY <2>1 DEF TaskActs, TaskTypes, Emptied
  <2> QED
    BY <2>3, <2>4
<1>4. CausesKept'
  <2>1. CASE \E q \in Tasks!Queue : t \in Tasks!Senders(q) /\ task[Tasks!Taker(q)] # "run"
    <3>1. PICK q \in Tasks!Queue : t \in Tasks!Senders(q) /\ task[Tasks!Taker(q)] # "run"
      BY <2>1
    <3>2. Tasks!Taker(q) \in Tasks!Task
      BY Channels
    <3>3. task[Tasks!Taker(q)] # "ok"
      BY <3>1 DEF Emptied, TaskActs
    <3>4. task[Tasks!Taker(q)] # "aborted"
      BY <3>2 DEF CausesKept, TaskActs
    <3>5. task[Tasks!Taker(q)] # "off"
      BY <3>1, Channels DEF Crew, TaskActs, Tasks!Queue, Tasks!Media, Tasks!Task
    <3>6. Failed
      BY <3>1, <3>2, <3>3, <3>4, <3>5 DEF CausesKept, Failed, TaskTypes, Tasks!Status
    <3>7. Failed'
      BY <3>6 DEF Failed, TaskActs, TaskTypes
    <3>8. (\E u \in Tasks!Task : task'[u] = "aborted") => FALSE
      BY DEF CausesKept, TaskActs, TaskTypes
    <3> QED
      BY <3>7, <3>8 DEF CausesKept, Failed
  <2>2. CASE ~ \E q \in Tasks!Queue : t \in Tasks!Senders(q) /\ task[Tasks!Taker(q)] # "run"
    BY <2>2 DEF CausesKept, Failed, TaskActs, TaskTypes
  <2> QED
    BY <2>1, <2>2
<1>5. Verdict'
  BY DEF Verdict, Failed, TaskActs, TaskTypes
<1>6. ReturnedShowsNothing'
  BY DEF ReturnedShowsNothing, Verdict, TaskActs
<1> QED
  BY <1>1, <1>2, <1>3, <1>4, <1>5, <1>6

LEMMA SuperviseKeeps ==
  ASSUME TasksInv, Tasks!Supervise
  PROVE  TasksInv'
<1> USE DEF TasksInv, Failed, Tasks!sourceVars
<1>1. ASSUME task' = task, queue' = queue PROVE Emptied'
  BY <1>1 DEF Emptied, Tasks!Taker, Tasks!Senders
<1>2. CASE Tasks!JoinFailure
  <2>1. TaskTypes' /\ Crew' /\ Emptied' /\ CausesKept' /\ ReturnedShowsNothing'
    BY <1>1, <1>2 DEF Tasks!JoinFailure, TaskTypes, Crew, CausesKept, ReturnedShowsNothing
  <2>2. Verdict'
    BY <1>2 DEF Tasks!JoinFailure, CausesKept, Verdict
  <2> QED
    BY <2>1, <2>2
<1>3. CASE Tasks!JoinAll
  <2>1. \A t \in Tasks!Task : task[t] \in {"off", "ok"}
    BY <1>3 DEF Tasks!JoinAll, Tasks!Spawned
  <2>2. TaskTypes' /\ Crew' /\ Emptied' /\ CausesKept' /\ ReturnedShowsNothing'
    BY <1>1, <1>3 DEF Tasks!JoinAll, TaskTypes, Crew, CausesKept, ReturnedShowsNothing
  <2>3. Verdict'
    BY <1>3, <2>1 DEF Tasks!JoinAll, Verdict
  <2> QED
    BY <2>2, <2>3
<1>4. CASE Tasks!Abort
  <2>1. \A t \in Tasks!Task : task'[t] = IF task[t] = "run" THEN "aborted" ELSE task[t]
    BY <1>4 DEF Tasks!Abort, Tasks!Runs
  <2>2. TaskTypes'
    BY <1>4 DEF Tasks!Abort, Tasks!Runs, TaskTypes, Tasks!Status
  <2>3. Crew' /\ CausesKept'
    BY <1>4, <2>1 DEF Tasks!Abort, Crew, CausesKept, Tasks!Task
  <2>4. Emptied'
    <3> SUFFICES ASSUME NEW q \in Tasks!Queue
                 PROVE  /\ task'[Tasks!Taker(q)] \in {"off", "ok"} => queue'[q] = 0
                        /\ task'[Tasks!Taker(q)] = "ok" => \A u \in Tasks!Senders(q) : task'[u] # "run"
      BY DEF Emptied, Tasks!Taker, Tasks!Senders
    <3> QED
      BY <1>4, <2>1, Channels DEF Tasks!Abort, Emptied
  <2>5. Verdict' /\ ReturnedShowsNothing'
    BY <1>4, <2>1 DEF Tasks!Abort, Verdict, ReturnedShowsNothing
  <2> QED
    BY <2>2, <2>3, <2>4, <2>5
<1>5. CASE Tasks!Finish
  <2>1. TaskTypes' /\ Crew' /\ Emptied' /\ CausesKept'
    BY <1>1, <1>5 DEF Tasks!Finish, TaskTypes, Crew, CausesKept
  <2>2. ReturnedShowsNothing'
    BY <1>5 DEF Tasks!Finish, TaskTypes, ReturnedShowsNothing
  <2>3. Verdict'
    BY <1>5 DEF Tasks!Finish, Verdict
  <2> QED
    BY <2>1, <2>2, <2>3
<1> QED
  BY <1>2, <1>3, <1>4, <1>5 DEF Tasks!Supervise

LEMMA EachTaskActs ==
  ASSUME TasksInv, Tasks!Next
  PROVE  Tasks!Supervise \/ \E t \in Tasks!Task : TaskActs(t)
<1> SUFFICES ASSUME ~Tasks!Supervise PROVE \E t \in Tasks!Task : TaskActs(t)
  OBVIOUS
<1> USE Channels
    DEF TasksInv, TaskTypes, TaskActs, Tasks!Runs, Tasks!Closed, Tasks!HasRoom, Tasks!Drained,
        Tasks!Observed,
        Tasks!Ends, Tasks!Task, Tasks!Queue, Tasks!Media, Tasks!sourceVars, Tasks!endVars
<1>1. CASE Tasks!Reserve \/ Tasks!ReserveClosed
  <2>1. TaskActs("receive")
    BY <1>1 DEF Tasks!Reserve, Tasks!ReserveClosed
  <2> QED
    BY <2>1
<1>2. CASE Tasks!ReceiveChunk \/ Tasks!ReceiveEnds
  <2>1. TaskActs("receive")
    BY <1>2 DEF Tasks!ReceiveChunk, Tasks!ReceiveEnds
  <2> QED
    BY <2>1
<1>3. CASE Tasks!DemuxChunk
  <2>1. TaskActs("demux")
    BY <1>3 DEF Tasks!DemuxChunk
  <2> QED
    BY <2>1
<1>4. CASE Tasks!DemuxEnds
  <2>1. TaskActs("demux")
    BY <1>4 DEF Tasks!DemuxEnds, Tasks!Move
  <2> QED
    BY <2>1
<1>5. CASE Tasks!ReceivePacket \/ Tasks!SourceEnds
  <2>1. TaskActs("packetSource")
    BY <1>5 DEF Tasks!ReceivePacket, Tasks!SourceEnds
  <2> QED
    BY <2>1
<1>6. ASSUME NEW t \in Tasks!Router, Tasks!Route(t) PROVE TaskActs(t) /\ t \in Tasks!Task
  BY <1>6 DEF Tasks!Router, Tasks!Route
<1>7. ASSUME NEW t \in Tasks!Router, Tasks!RouteClosed(t) PROVE TaskActs(t) /\ t \in Tasks!Task
  BY <1>7 DEF Tasks!Router, Tasks!RouteClosed
<1>8. ASSUME NEW q \in Tasks!Media, NEW n \in 0 .. 1, Tasks!Decode(q, n) \/ Tasks!DecodeEnds(q, n)
      PROVE TaskActs(Tasks!Taker(q))
  <2>1. CASE q = "video"
    BY <1>8, <2>1 DEF Tasks!Decode, Tasks!DecodeEnds, Tasks!Frames, Tasks!Move
  <2>2. CASE q = "audio"
    BY <1>8, <2>2 DEF Tasks!Decode, Tasks!DecodeEnds, Tasks!Frames, Tasks!Move
  <2> QED
    BY <2>1, <2>2
<1>9. ASSUME NEW q \in Tasks!Media \cup Tasks!Encoded, Tasks!SendClosed(q) PROVE TaskActs(Tasks!Taker(q))
  BY <1>9 DEF Tasks!SendClosed, Tasks!Frames, Tasks!Encoded
<1>10. CASE Tasks!FirstFrame
  <2>1. TaskActs("videoEncode")
    BY <1>10 DEF Tasks!FirstFrame
  <2> QED
    BY <2>1
<1>11. ASSUME NEW q \in Tasks!Encoded, NEW n \in 0 .. 1, Tasks!Encode(q, n)
      PROVE TaskActs(Tasks!Taker(q))
  BY <1>11 DEF Tasks!Encode, Tasks!Ticking, Tasks!Move, Tasks!Encoded
<1>12. ASSUME NEW q \in Tasks!Encoded, NEW n \in 0 .. 1, Tasks!EncodeEnds(q, n)
      PROVE TaskActs(Tasks!Taker(q))
  BY <1>12 DEF Tasks!EncodeEnds, Tasks!Ticking, Tasks!Move, Tasks!Encoded
<1>13. CASE Tasks!Send \/ Tasks!SendEnds
  <2>1. TaskActs("output")
    BY <1>13 DEF Tasks!Send, Tasks!SendEnds
  <2> QED
    BY <2>1
<1>14. ASSUME NEW t \in Tasks!Task, Tasks!Fail(t) PROVE TaskActs(t)
  BY <1>14 DEF Tasks!Fail
<1>15. ASSUME NEW q \in Tasks!Queue PROVE Tasks!Taker(q) \in Tasks!Task
  OBVIOUS
<1> HIDE DEF TaskActs, TasksInv, TaskTypes, Tasks!Task
<1> QED
  BY <1>15, <1>1, <1>2, <1>3, <1>4, <1>5, <1>6, <1>7, <1>8, <1>9, <1>10, <1>11, <1>12, <1>13, <1>14
     DEF Tasks!Next, Tasks!Source, Tasks!Decoder, Tasks!Encoder, Tasks!Encoded

LEMMA TasksStart ==
  ASSUME TasksInv, NEW kind \in {"transport", "packets"}, Tasks!Start(kind)
  PROVE  TasksInv'
<1> USE DEF Tasks!Start, Tasks!sourceVars
<1>1. TaskTypes' /\ Crew'
  BY DEF TasksInv, TaskTypes, Crew, Tasks!Task, Tasks!Status
<1>2. Emptied'
  <2> SUFFICES ASSUME NEW q \in Tasks!Queue
               PROVE  /\ task'[Tasks!Taker(q)] \in {"off", "ok"} => queue'[q] = 0
                      /\ task'[Tasks!Taker(q)] = "ok" => \A u \in Tasks!Senders(q) : task'[u] # "run"
    BY DEF Emptied, Tasks!Taker, Tasks!Senders
  <2> QED
    BY Channels DEF TasksInv, Crew, Emptied
<1>3. CausesKept' /\ Verdict' /\ ReturnedShowsNothing'
  BY DEF TasksInv, Verdict, CausesKept, ReturnedShowsNothing
<1> QED
  BY <1>1, <1>2, <1>3 DEF TasksInv

LEMMA TasksDrop ==
  ASSUME TasksInv, Tasks!Drop
  PROVE  TasksInv'
<1> USE DEF Tasks!Drop
<1>1. TaskTypes' /\ Crew'
  BY DEF TasksInv, TaskTypes, Crew, Tasks!Task, Tasks!Status
<1>2. Emptied'
  <2> SUFFICES ASSUME NEW q \in Tasks!Queue
               PROVE  /\ task'[Tasks!Taker(q)] \in {"off", "ok"} => queue'[q] = 0
                      /\ task'[Tasks!Taker(q)] = "ok" => \A u \in Tasks!Senders(q) : task'[u] # "run"
    BY DEF Emptied, Tasks!Taker, Tasks!Senders
  <2> QED
    BY Channels
<1>3. CausesKept' /\ Verdict' /\ ReturnedShowsNothing'
  BY DEF Verdict, CausesKept, ReturnedShowsNothing
<1> QED
  BY <1>1, <1>2, <1>3 DEF TasksInv

LEMMA TasksInit ==
  ASSUME Tasks!Init
  PROVE  TasksInv
<1> USE DEF Tasks!Init
<1>1. TaskTypes /\ Crew
  BY DEF TaskTypes, Crew, Tasks!Task, Tasks!Status
<1>2. Emptied
  BY Channels DEF Emptied
<1>3. CausesKept /\ Verdict /\ ReturnedShowsNothing
  BY DEF Verdict, CausesKept, ReturnedShowsNothing
<1> QED
  BY <1>1, <1>2, <1>3 DEF TasksInv

\* A run that returns has no reason of its own to fail, and leaves nothing behind.
LEMMA TasksEndHonestly == TasksInv => EndsHonestly
<1>1. \A q \in Tasks!Queue : Tasks!Taker(q) \in Tasks!Task
  BY Channels
<1> QED
  BY <1>1 DEF TasksInv, EndsHonestly, Verdict, Emptied, Failed

-----------------------------------------------------------------------------
(* What is shown of the input.                                              *)
LastStands == (phase \in {"stopping", "over"} /\ protocol # "srt" /\ ~up) => ~healthy

LEMMA HealthKeeps ==
  ASSUME LastStands, NEW scheme, Health!Next \/ Health!Drop \/ Health!Start(scheme)
  PROVE  LastStands'
  BY DEF LastStands, Health!Next, Health!Drop, Health!Start, Health!Packet, Health!Chunk,
         Health!Demux, Health!Decode, Health!Lose, Health!Reconnect, Health!Sample, Health!Apply,
         Health!TasksEnd, Health!LastSample, Health!MonitorEnds, Health!Live, Health!linkVars,
         Health!flowVars

-----------------------------------------------------------------------------
(* `config convert`: the document that is written loads as what was read.    *)
LEMMA DefaultFields ==
  DOMAIN Defaults = {"video", "audio", "timing", "policy", "switch", "failures", "control"}
  BY DEF Defaults

LEMMA LegacyFields ==
  ASSUME NEW d, NEW c, c = FromLegacy(d)
  PROVE  /\ DOMAIN c = {"api", "kind", "name", "inputs", "output", "analyzers", "advisor"}
                         \cup DOMAIN Defaults
         /\ c = [f \in DOMAIN c |-> c[f]]
         /\ c.api = "v1alpha2" /\ c.kind = "MediaJob"
         /\ c.inputs = d.inputs /\ c.output = d.output
         /\ c.video = Given(d.video, DefaultVideo)
  BY DefaultFields DEF FromLegacy, Settings, Join, Defaults

LEMMA WrittenFields ==
  ASSUME NEW c, NEW taps, NEW w, w = Written(c, taps)
  PROVE  /\ DOMAIN w = {"api", "kind", "name", "inputs", "outputs", "taps"} \cup DOMAIN Defaults
         /\ w.api = c.api /\ w.kind = c.kind /\ w.inputs = c.inputs /\ w.name = c.name
         /\ w.outputs = <<Join([name |-> "program"], c.output)>> /\ w.taps = taps
         /\ \A f \in DOMAIN Defaults : w[f] = <<c[f]>>
  BY DefaultFields DEF Written, Join

LEMMA ConfigFields ==
  ASSUME NEW w, NEW c, c = ToConfig(w)
  PROVE  /\ DOMAIN c = {"api", "kind", "name", "inputs", "output", "analyzers", "advisor"}
                         \cup DOMAIN Defaults
         /\ c = [f \in DOMAIN c |-> c[f]]
         /\ c.api = "v1alpha2" /\ c.kind = "MediaJob" /\ c.name = w.name
         /\ c.inputs = w.inputs /\ c.output = Unnamed(w.outputs[1])
         /\ c.analyzers = IF w.taps = <<>> THEN {} ELSE Given(w.taps[1].analyzers, DefaultAnalyzers)
         /\ c.advisor = IF w.taps = <<>> THEN DefaultAdvisor ELSE Given(w.taps[1].advisor,
            DefaultAdvisor)
         /\ \A f \in DOMAIN Defaults : c[f] = Given(w[f], Defaults[f])
  BY DefaultFields DEF ToConfig, Settings, Join

LEMMA GivenWhole == ASSUME NEW x, NEW default PROVE Given(<<x>>, default) = x
  BY DEF Given

LEMMA NameComesOff ==
  ASSUME NEW o \in OutputConfig
  PROVE  Unnamed(Join([name |-> "program"], o)) = o
  BY DEF Unnamed, Join, OutputConfig

LEMMA ConvertsFaithfully ==
  ASSUME NEW d, d.output \in OutputConfig
  PROVE  ToConfig(Converted(FromLegacy(d))) = FromLegacy(d)
<1>1. PICK c : c = FromLegacy(d)
  OBVIOUS
<1>2. PICK w : w = Converted(c)
  OBVIOUS
<1>3. PICK r : r = ToConfig(w)
  OBVIOUS
<1>4. w = Written(c, <<TapOf("director-signals", c)>>)
  BY <1>2 DEF Converted
<1>5. DOMAIN r = DOMAIN c
  BY <1>1, <1>3, LegacyFields, ConfigFields
<1>6. r.api = c.api /\ r.kind = c.kind /\ r.name = c.name /\ r.inputs = c.inputs
  BY <1>1, <1>3, <1>4, LegacyFields, ConfigFields, WrittenFields
<1>7. r.output = c.output
  <2>1. w.outputs[1] = Join([name |-> "program"], c.output)
    BY <1>4, WrittenFields
  <2> QED
    BY <2>1, <1>1, <1>3, LegacyFields, ConfigFields, NameComesOff
<1>8. r.analyzers = c.analyzers /\ r.advisor = c.advisor
  <2>1. w.taps = <<TapOf("director-signals", c)>>
    BY <1>4, WrittenFields
  <2>2. /\ w.taps # <<>>
        /\ w.taps[1].analyzers = <<c.analyzers>> /\ w.taps[1].advisor = <<c.advisor>>
    BY <2>1 DEF TapOf
  <2>3. /\ r.analyzers = Given(w.taps[1].analyzers, DefaultAnalyzers)
        /\ r.advisor = Given(w.taps[1].advisor, DefaultAdvisor)
    BY <2>2, <1>3, ConfigFields
  <2> QED
    BY <2>2, <2>3, GivenWhole
<1>9. \A f \in DOMAIN Defaults : r[f] = c[f]
  <2> SUFFICES ASSUME NEW f \in DOMAIN Defaults PROVE r[f] = c[f]
    OBVIOUS
  <2>1. r[f] = Given(w[f], Defaults[f]) /\ w[f] = <<c[f]>>
    BY <1>3, <1>4, ConfigFields, WrittenFields
  <2> QED
    BY <2>1, GivenWhole
<1>10. r = [f \in DOMAIN r |-> r[f]] /\ c = [f \in DOMAIN c |-> c[f]]
  BY <1>1, <1>3, LegacyFields, ConfigFields
<1>11. \A f \in DOMAIN c : r[f] = c[f]
  BY <1>1, <1>6, <1>7, <1>8, <1>9, LegacyFields
<1> QED
  BY <1>1, <1>2, <1>3, <1>5, <1>10, <1>11

LEMMA ConvertedLoads ==
  ASSUME NEW d, Converts(d), d.output \in OutputConfig
  PROVE  /\ Loads(Converted(FromLegacy(d)))
         /\ ~Converts(Converted(FromLegacy(d)))
<1>1. PICK c : c = FromLegacy(d)
  OBVIOUS
<1>2. PICK w : w = Converted(c)
  OBVIOUS
<1>3. w = Written(c, <<TapOf("director-signals", c)>>)
  BY <1>2 DEF Converted
<1>4. w.api = "v1alpha2" /\ w.kind = "MediaJob" /\ "outputs" \in DOMAIN w
  BY <1>1, <1>3, LegacyFields, WrittenFields
<1>5. ~IsLegacy(w) /\ IsJob(w)
  BY <1>4 DEF IsLegacy, IsJob
<1>6. ASSUME NEW e, e.name # "blank" PROVE Len(<<e>>) = 1 /\ NamesOk(<<e>>)
  <2>1. Names(<<e>>) = {e.name}
    BY DEF Names
  <2>2. Cardinality({e.name}) = 1
    BY FS_Singleton
  <2> QED
    BY <1>6, <2>1, <2>2 DEF NamesOk
<1>7. JobOk(w)
  <2>1. PICK o : o = Join([name |-> "program"], c.output)
    OBVIOUS
  <2>2. w.outputs = <<o>> /\ o.name = "program"
    BY <2>1, <1>3, WrittenFields DEF Join
  <2>3. PICK tap : tap = TapOf("director-signals", c)
    OBVIOUS
  <2>4. w.taps = <<tap>> /\ tap.name = "director-signals"
    BY <2>3, <1>3, WrittenFields DEF TapOf
  <2>5. Len(w.outputs) = 1 /\ NamesOk(w.outputs)
    BY <1>6, <2>2
  <2>6. Len(w.taps) = 1 /\ NamesOk(w.taps)
    BY <1>6, <2>4
  <2> QED
    BY <1>4, <2>5, <2>6 DEF JobOk
<1>8. Validates(ToConfig(w))
  BY <1>1, <1>2, ConvertsFaithfully DEF Converts
<1> QED
  BY <1>1, <1>2, <1>5, <1>7, <1>8 DEF Loads, Converts

-----------------------------------------------------------------------------
(* The plan of an accepted configuration.                                   *)
LEMMA RangesAreInt ==
  ASSUME NEW value, NEW low \in Int, NEW high, InRange(value, low, high)
  PROVE  value \in Int
  BY DEF InRange

LEMMA RangesAreNat ==
  ASSUME NEW value, NEW low \in Nat, NEW high \in Nat, InRange(value, low, high)
  PROVE  value \in Nat /\ value <= high
  BY DEF InRange

LEMMA CapacitiesBounded ==
  ASSUME NEW c, Validates(c)
  PROVE  VideoFrames(c) \in 1 .. 32 /\ AudioBlocks(c) \in 1 .. 64
<1>1. ASSUME NEW v \in Int, NEW n \in Nat \ {0} PROVE CeilDiv(v, n) \in Int
  BY <1>1 DEF CeilDiv
<1>3. c.timing.bufferMs \in Int /\ c.video.fps \in Int /\ c.audio.sampleRate \in Int
  <2>1. TimingOk(c.timing, Len(c.inputs)) /\ VideoOk(c.video) /\ AudioOk(c.audio)
    BY DEF Validates
  <2>2. c.timing.bufferMs \in Int
    <3>1. InRange(c.timing.bufferMs, 100, 5000)
      BY <2>1 DEF TimingOk
    <3> QED
      BY <3>1, RangesAreInt
  <2>3. c.video.fps \in Int
    BY <2>1, RangesAreInt DEF VideoOk
  <2>4. c.audio.sampleRate \in Int
    BY <2>1 DEF AudioOk
  <2> QED
    BY <2>1, <2>2, <2>3, <2>4
<1>4. ASSUME NEW x \in Int, NEW y \in Int PROVE x * y \in Int
  BY <1>4
<1>5. VideoBudget(c) \in Int
  BY <1>1, <1>3, <1>4 DEF VideoBudget
<1>6. AudioBudget(c) \in Int
  BY <1>1, <1>3, <1>4 DEF AudioBudget
<1>7. VideoFrames(c) \in 1 .. 32
  <2>1. PICK v \in Int : v = CeilDiv(VideoBudget(c), 8)
    BY <1>1, <1>5
  <2>2. Clamp(v, 1, 32) \in 1 .. 32
    BY DEF Clamp
  <2> QED
    BY <2>1, <2>2 DEF VideoFrames
<1>8. AudioBlocks(c) \in 1 .. 64
  <2>1. PICK v \in Int : v = CeilDiv(AudioBudget(c), 8)
    BY <1>1, <1>6
  <2>2. Clamp(v, 1, 64) \in 1 .. 64
    BY DEF Clamp
  <2> QED
    BY <2>1, <2>2 DEF AudioBlocks
<1> QED
  BY <1>7, <1>8

LEMMA InputsAccepted ==
  ASSUME NEW c, Validates(c)
  PROVE  \A k \in DOMAIN c.inputs : c.inputs[k].scheme \in {"srt", "rtsp", "rtmp"}
<1>1. ASSUME NEW i, InputOk(i) PROVE i.scheme \in {"srt", "rtsp", "rtmp"}
  BY <1>1 DEF InputOk
<1>2. \A k \in DOMAIN c.inputs : InputOk(c.inputs[k])
  BY DEF Validates
<1> QED
  BY <1>1, <1>2

\* All queues are bounded, and no critical node waits for an optional one.
LEMMA PlanKeepsClaims ==
  ASSUME NEW c, Validates(c)
  PROVE  ClaimsHold(c, Plan(c))
<1>1. PICK V \in 1 .. 32 : V = VideoFrames(c)
  BY CapacitiesBounded
<1>2. PICK A \in 1 .. 64 : A = AudioBlocks(c)
  BY CapacitiesBounded
<1>3. SUFFICES ASSUME NEW e \in Edges(c)
               PROVE  /\ e.capacity > 0
                      /\ e.from \in Nodes(c) /\ e.to \in Nodes(c)
                      /\ e.policy = "backpressure" => {e.from, e.to} \subseteq CriticalNodes(c)
  BY DEF ClaimsHold, Plan
<1>4. CASE e \in ProgramEdges(c)
  BY <1>1, <1>2, <1>4 DEF ProgramEdges, Edge, Nodes, CriticalNodes, ProgramKinds
<1>5. CASE e \in DirectorEdges(c)
  BY <1>5 DEF DirectorEdges, Edge, Nodes, CriticalNodes, ProgramKinds, OptionalNodes, Director, Tap
<1>6. ASSUME NEW k \in DOMAIN c.inputs, e \in InputEdges(c, k)
      PROVE  e.capacity > 0 /\ e.from \in CriticalNodes(c) /\ e.to \in CriticalNodes(c)
  <2>1. \A kind \in InputKinds(c.inputs[k].scheme) : <<kind, k>> \in CriticalNodes(c)
    BY DEF CriticalNodes
  <2>2. <<"video.timeline", 0>> \in CriticalNodes(c) /\ <<"audio.timeline", 0>> \in CriticalNodes(c)
    BY DEF CriticalNodes, ProgramKinds
  <2> QED
    BY <1>1, <1>2, <1>6, <2>1, <2>2 DEF InputEdges, PacketsFrom, Edge, InputKinds
<1>7. CASE e \in TapEdges(c)
  <2>1. \A k \in DOMAIN c.inputs :
          <<"video.decode", k>> \in CriticalNodes(c) /\ <<"audio.decode", k>> \in CriticalNodes(c)
    BY DEF CriticalNodes, InputKinds
  <2>2. AnalyzersRequested(c) /\ Tap \in OptionalNodes(c)
    BY <1>7 DEF TapEdges, OptionalNodes, Director, Tap
  <2>3. ASSUME NEW k \in DOMAIN c.inputs, NEW kind, NEW capacity \in Nat \ {0}, NEW policy,
               <<kind, k>> \in CriticalNodes(c), e = Edge(<<kind, k>>, Tap, capacity, policy)
        PROVE  e.capacity > 0 /\ e.from \in Nodes(c) /\ e.to \in Nodes(c) /\ e.policy = policy
    BY <2>2, <2>3 DEF Edge, Nodes
  <2>4. CASE \E k \in DOMAIN c.inputs : \/ e = Edge(<<"video.decode", k>>, Tap, 2, "keepLatest")
                                       \/ e = Edge(<<"audio.decode", k>>, Tap, 4, "dropOldest")
    BY <2>1, <2>3, <2>4
  <2>5. CASE Mode(c) = "switching" /\ e = Edge(Tap, Director, 8, "dropOldest")
    <3>1. Director \in OptionalNodes(c)
      BY <2>5 DEF OptionalNodes
    <3> QED
      BY <2>2, <2>5, <3>1 DEF Edge, Nodes
  <2> QED
    BY <1>7, <2>4, <2>5 DEF TapEdges
<1> QED
  BY <1>4, <1>5, <1>6, <1>7 DEF Edges, Nodes

\* Whom an edge joins tells its capacity.
LEMMA EdgeCapacities ==
  ASSUME NEW c, NEW e \in Edges(c), NEW from, NEW to, e.from[1] = from, e.to[1] = to
  PROVE  /\ (from = "video.decode" /\ to = "video.timeline") => e.capacity = 1
         /\ (from = "video.timeline" /\ to = "video.encode") => e.capacity = 1
         /\ (from = "audio.decode" /\ to = "audio.timeline") => e.capacity = AudioBlocks(c)
         /\ (from = "audio.timeline" /\ to = "audio.encode") => e.capacity = AudioBlocks(c)
         /\ (from = "video.encode" /\ to = "mux.program") => e.capacity = VideoFrames(c)
         /\ (from = "audio.encode" /\ to = "mux.program") => e.capacity = VideoFrames(c)
         /\ (from = "mux.program" /\ to = "output.program") => e.capacity = VideoFrames(c)
         /\ to = "video.decode" => e.capacity = VideoFrames(c)
         /\ to = "audio.decode" => e.capacity = AudioBlocks(c)
<1>1. CASE e \in ProgramEdges(c)
  BY <1>1 DEF ProgramEdges, Edge
<1>2. CASE e \in DirectorEdges(c)
  BY <1>2 DEF DirectorEdges, Edge, Director
<1>3. CASE e \in TapEdges(c)
  BY <1>3 DEF TapEdges, Edge, Director, Tap
<1>4. ASSUME NEW k \in DOMAIN c.inputs, e \in InputEdges(c, k)
      PROVE  /\ from \in {"input", "demux", "video.decode", "audio.decode"}
             /\ (from = "video.decode" /\ to = "video.timeline") => e.capacity = 1
             /\ (from = "audio.decode" /\ to = "audio.timeline") => e.capacity = AudioBlocks(c)
             /\ to = "video.decode" => e.capacity = VideoFrames(c)
             /\ to = "audio.decode" => e.capacity = AudioBlocks(c)
  BY <1>4 DEF InputEdges, PacketsFrom, Edge
<1> QED
  BY <1>1, <1>2, <1>3, <1>4 DEF Edges

(* How the slots of a queue, and so those of a route, compare with the buffer: *)
(* the clamps and the division by eight never round up past it, but for the     *)
(* one slot that is always there.                                               *)
LEMMA ShareOfBuffer ==
  ASSUME NEW p \in Nat, NEW unit \in Nat \ {0}, NEW high \in Nat \ {0},
         NEW n, n = Clamp(CeilDiv(CeilDiv(p, unit), 8), 1, high)
  PROVE  /\ n \in Nat \ {0}
         /\ n = 1 \/ 8 * (unit * (n - 1)) < p
         /\ n = 1 /\ high > 1 => p <= 8 * unit
<1>1. PICK q \in Int : q = CeilDiv(p, unit) /\ unit * q < p + unit /\ p <= unit * q
  BY DEF CeilDiv
<1>2. PICK m \in Int : m = CeilDiv(q, 8) /\ 8 * m <= q + 7 /\ q <= 8 * m
  BY DEF CeilDiv
<1>3. n = Clamp(m, 1, high)
  BY <1>1, <1>2
<1>4. n \in Nat \ {0} /\ (n = 1 \/ n <= m)
  BY <1>3 DEF Clamp
<1>5. ASSUME n # 1 PROVE 8 * (unit * (n - 1)) < p
  <2>1. 8 * (n - 1) <= q - 1
    BY <1>2, <1>4, <1>5
  <2>2. PICK d \in Int : d = (q - 1) - 8 * (n - 1) /\ d >= 0
    BY <2>1, <1>4
  <2>3. unit * d >= 0
    BY <2>2
  <2>4. unit * (q - 1) = unit * q - unit
    OBVIOUS
  <2>5. unit * (8 * (n - 1) + d) = 8 * (unit * (n - 1)) + unit * d
    BY <2>2, <1>4
  <2> QED
    BY <1>1, <1>4, <2>2, <2>3, <2>4, <2>5
<1>6. ASSUME n = 1, high > 1 PROVE p <= 8 * unit
  <2>1. m <= 1
    BY <1>3, <1>6 DEF Clamp
  <2>2. q <= 8
    BY <1>2, <2>1
  <2>3. unit * q <= unit * 8
    BY <2>2
  <2> QED
    BY <1>1, <2>3
<1> QED
  BY <1>4, <1>5, <1>6

LEMMA RoutesShareBuffer ==
  ASSUME NEW c, Validates(c)
  PROVE  LET V == VideoFrames(c)
             A == AudioBlocks(c)
         IN /\ 3 * V + 2 = Least \/ (3 * V + 2) * 1000 <= c.timing.bufferMs * c.video.fps
            /\ \/ 3 * A + 2 * V = Least
               \/ (3 * A + 2 * V) * 1024 * 1000 <= c.timing.bufferMs * c.audio.sampleRate
<1>1. TimingOk(c.timing, Len(c.inputs)) /\ VideoOk(c.video) /\ AudioOk(c.audio)
  BY DEF Validates
<1>2. PICK b \in Nat : b = c.timing.bufferMs
  <2>1. InRange(c.timing.bufferMs, 100, 5000)
    BY <1>1 DEF TimingOk
  <2> QED
    BY <2>1, RangesAreNat
<1>3. PICK f \in Nat : f = c.video.fps /\ f <= 30
  <2>1. InRange(c.video.fps, 1, 30)
    BY <1>1 DEF VideoOk
  <2> QED
    BY <2>1, RangesAreNat
<1>4. c.audio.sampleRate = 48000
  BY <1>1 DEF AudioOk
<1>5. PICK p \in Nat : p = b * f /\ p <= 30 * b
  <2>1. PICK rest \in Nat : rest = 30 - f
    BY <1>3
  <2>2. b * rest \in Nat /\ b * f \in Nat
    OBVIOUS
  <2>3. b * rest = 30 * b - b * f
    BY <2>1
  <2> QED
    BY <2>2, <2>3
<1>6. PICK V : V = VideoFrames(c)
  OBVIOUS
<1>7. PICK A : A = AudioBlocks(c)
  OBVIOUS
<1>8. V \in Nat \ {0} /\ (V = 1 \/ 8000 * (V - 1) < p)
  <2>1. V = Clamp(CeilDiv(CeilDiv(p, 1000), 8), 1, 32)
    BY <1>2, <1>3, <1>5, <1>6 DEF VideoFrames, VideoBudget
  <2>2. V \in Nat \ {0} /\ (V = 1 \/ 8 * (1000 * (V - 1)) < p)
    BY <2>1, ShareOfBuffer
  <2> QED
    BY <2>2
<1>9. /\ A \in Nat \ {0} /\ (A = 1 \/ 8192 * (A - 1) < 48 * b)
      /\ A = 1 => 48 * b <= 8192
  <2>1. PICK q \in Nat : q = b * 48000
    OBVIOUS
  <2>2. PICK unit \in Nat \ {0} : unit = 1024 * 1000
    OBVIOUS
  <2>3. A = Clamp(CeilDiv(CeilDiv(q, unit), 8), 1, 64)
    BY <1>2, <1>4, <1>7, <2>1, <2>2 DEF AudioBlocks, AudioBudget
  <2>4. A \in Nat \ {0} /\ (A = 1 \/ 8 * (unit * (A - 1)) < q)
    BY <2>3, ShareOfBuffer
  <2>5. A = 1 => q <= 8 * unit
    BY <2>3, ShareOfBuffer
  <2>6. A = 1 \/ 1024 * 8000 * (A - 1) < q
    BY <2>2, <2>4
  <2> QED
    BY <2>1, <2>2, <2>4, <2>5, <2>6
<1>10. 3 * V + 2 = 5 \/ (3 * V + 2) * 1000 <= p
  BY <1>8
<1>11. 3 * A + 2 * V = 5 \/ (3 * A + 2 * V) * 1024 <= 48 * b
  <2>1. V = 1 \/ 12800 * (V - 1) < 48 * b
    BY <1>5, <1>8
  <2>2. CASE A = 1
    <3>1. V = 1
      BY <1>5, <1>8, <1>9, <2>2
    <3> QED
      BY <2>2, <3>1
  <2>3. CASE A = 2
    BY <1>8, <1>9, <2>1, <2>3
  <2>4. CASE A > 2
    <3>1. 8192 * (A - 1) < 48 * b
      BY <1>9, <2>4
    <3> QED
      BY <1>8, <1>9, <2>1, <2>4, <3>1
  <2> QED
    BY <1>9, <2>2, <2>3, <2>4
<1>12. 3 * A + 2 * V = 5 \/ (3 * A + 2 * V) * 1024 * 1000 <= b * 48000
  BY <1>8, <1>9, <1>11
<1> QED
  BY <1>2, <1>3, <1>4, <1>5, <1>6, <1>7, <1>10, <1>12 DEF Least

\* The queues of a route, each found by the nodes it joins.
LEMMA PlanSharesBuffer ==
  ASSUME NEW c, Validates(c)
  PROVE  BufferShared(c, Plan(c))
<1>1. PICK V \in 1 .. 32 : V = VideoFrames(c)
  BY CapacitiesBounded
<1>2. PICK A \in 1 .. 64 : A = AudioBlocks(c)
  BY CapacitiesBounded
<1>3. PICK plan : plan = Plan(c)
  OBVIOUS
<1>4. plan.edges = Edges(c)
  BY <1>3 DEF Plan
<1>5. ASSUME NEW from, NEW to, NEW capacity, NEW policy,
             Edge(from, to, capacity, policy) \in Edges(c),
             \A e \in Edges(c) : e.from[1] = from[1] /\ e.to[1] = to[1] => e.capacity = capacity
      PROVE  SlotsOf(plan, from, to) = capacity
  <2>1. \E e \in plan.edges : e.from = from /\ e.to = to
    BY <1>4, <1>5 DEF Edge
  <2>2. \A e \in plan.edges : e.from = from /\ e.to = to => e.capacity = capacity
    BY <1>4, <1>5
  <2> QED
    BY <2>1, <2>2 DEF SlotsOf
<1>6. /\ SlotsOf(plan, <<"video.timeline", 0>>, <<"video.encode", 0>>) = 1
      /\ SlotsOf(plan, <<"audio.timeline", 0>>, <<"audio.encode", 0>>) = A
      /\ SlotsOf(plan, <<"video.encode", 0>>, <<"mux.program", 0>>) = V
      /\ SlotsOf(plan, <<"audio.encode", 0>>, <<"mux.program", 0>>) = V
      /\ SlotsOf(plan, <<"mux.program", 0>>, <<"output.program", 0>>) = V
  <2>1. /\ Edge(<<"video.timeline", 0>>, <<"video.encode", 0>>, 1, "keepLatest") \in Edges(c)
        /\ Edge(<<"audio.timeline", 0>>, <<"audio.encode", 0>>, A, "backpressure") \in Edges(c)
        /\ Edge(<<"video.encode", 0>>, <<"mux.program", 0>>, V, "backpressure") \in Edges(c)
        /\ Edge(<<"audio.encode", 0>>, <<"mux.program", 0>>, V, "backpressure") \in Edges(c)
        /\ Edge(<<"mux.program", 0>>, <<"output.program", 0>>, V, "dropOldest") \in Edges(c)
    BY <1>1, <1>2 DEF Edges, ProgramEdges
  <2>2. \A e \in Edges(c) :
          /\ e.from[1] = "video.timeline" /\ e.to[1] = "video.encode" => e.capacity = 1
          /\ e.from[1] = "audio.timeline" /\ e.to[1] = "audio.encode" => e.capacity = A
          /\ e.from[1] = "video.encode" /\ e.to[1] = "mux.program" => e.capacity = V
          /\ e.from[1] = "audio.encode" /\ e.to[1] = "mux.program" => e.capacity = V
          /\ e.from[1] = "mux.program" /\ e.to[1] = "output.program" => e.capacity = V
    BY <1>1, <1>2, EdgeCapacities
  <2> QED
    BY <1>5, <2>1, <2>2
<1>7. ASSUME NEW k \in DOMAIN c.inputs
      PROVE  /\ Slots(plan, VideoRoute(c, k)) = 3 * V + 2
             /\ Slots(plan, AudioRoute(c, k)) = 3 * A + 2 * V
  <2>1. PICK source : source = PacketsFrom(c, k)
    OBVIOUS
  <2>2. /\ Edge(source, <<"video.decode", k>>, V, "backpressure") \in Edges(c)
        /\ Edge(source, <<"audio.decode", k>>, A, "backpressure") \in Edges(c)
        /\ Edge(<<"video.decode", k>>, <<"video.timeline", 0>>, 1, "backpressure") \in Edges(c)
        /\ Edge(<<"audio.decode", k>>, <<"audio.timeline", 0>>, A, "backpressure") \in Edges(c)
    <3>1. InputEdges(c, k) \subseteq Edges(c)
      BY DEF Edges
    <3> QED
      BY <1>1, <1>2, <2>1, <3>1 DEF InputEdges
  <2>3. \A e \in Edges(c) :
          /\ e.to[1] = "video.decode" => e.capacity = V
          /\ e.to[1] = "audio.decode" => e.capacity = A
          /\ e.from[1] = "video.decode" /\ e.to[1] = "video.timeline" => e.capacity = 1
          /\ e.from[1] = "audio.decode" /\ e.to[1] = "audio.timeline" => e.capacity = A
    BY <1>1, <1>2, EdgeCapacities
  <2>4. /\ SlotsOf(plan, source, <<"video.decode", k>>) = V
        /\ SlotsOf(plan, source, <<"audio.decode", k>>) = A
        /\ SlotsOf(plan, <<"video.decode", k>>, <<"video.timeline", 0>>) = 1
        /\ SlotsOf(plan, <<"audio.decode", k>>, <<"audio.timeline", 0>>) = A
    BY <1>5, <2>2, <2>3
  <2>5. /\ Slots(plan, VideoRoute(c, k)) = V + 1 + 1 + V + V
        /\ Slots(plan, AudioRoute(c, k)) = A + A + A + V + V
    BY <1>6, <2>1, <2>4 DEF Slots, VideoRoute, AudioRoute
  <2> QED
    BY <2>5
<1> QED
  BY <1>1, <1>2, <1>3, <1>7, RoutesShareBuffer DEF BufferShared

LEMMA PlanRuns ==
  ASSUME NEW c, Validates(c)
  PROVE  /\ RuntimePlanOk(c, Plan(c))
         /\ ControllerQueuesOk(c, Plan(c))
         /\ Len(c.inputs) = 1 /\ c.inputs \in Seq(InputConfig) => SingleQueuesOk(Plan(c))
<1>1. RuntimePlanOk(c, Plan(c))
  BY DEF RuntimePlanOk, Plan
<1>2. PICK V \in 1 .. 32 : V = VideoFrames(c)
  BY CapacitiesBounded
<1>3. PICK A \in 1 .. 64 : A = AudioBlocks(c)
  BY CapacitiesBounded
<1>4. PICK plan : plan = Plan(c)
  OBVIOUS
<1>5. plan.edges = Edges(c)
  BY <1>4 DEF Plan
<1>6. ASSUME NEW from, NEW to, NEW capacity \in Nat \ {0}, NEW policy,
             Edge(from, to, capacity, policy) \in Edges(c)
      PROVE  QueueOk(plan, from, to, policy)
  BY <1>5, <1>6 DEF QueueOk, Edge
<1>7. /\ QueueOk(plan, <<"video.timeline", 0>>, <<"video.encode", 0>>, "keepLatest")
      /\ QueueOk(plan, <<"audio.timeline", 0>>, <<"audio.encode", 0>>, "backpressure")
      /\ QueueOk(plan, <<"video.encode", 0>>, <<"mux.program", 0>>, "backpressure")
      /\ QueueOk(plan, <<"audio.encode", 0>>, <<"mux.program", 0>>, "backpressure")
      /\ QueueOk(plan, <<"mux.program", 0>>, <<"output.program", 0>>, "dropOldest")
  BY <1>2, <1>3, <1>6 DEF Edges, ProgramEdges
<1>8. ASSUME NEW k \in DOMAIN c.inputs,
             NEW source, source = IF PacketInput(c.inputs[k].scheme) THEN <<"input",
                k>> ELSE <<"demux", k>>
      PROVE  /\ ~PacketInput(c.inputs[k].scheme)
                  => QueueOk(plan, <<"input", k>>, <<"demux", k>>, "backpressure")
             /\ QueueOk(plan, source, <<"video.decode", k>>, "backpressure")
             /\ QueueOk(plan, source, <<"audio.decode", k>>, "backpressure")
             /\ QueueOk(plan, <<"video.decode", k>>, <<"video.timeline", 0>>, "backpressure")
             /\ QueueOk(plan, <<"audio.decode", k>>, <<"audio.timeline", 0>>, "backpressure")
  <2>1. InputEdges(c, k) \subseteq Edges(c)
    BY DEF Edges
  <2>2. /\ ~PacketInput(c.inputs[k].scheme)
             => Edge(<<"input", k>>, <<"demux", k>>, V, "backpressure") \in InputEdges(c, k)
        /\ Edge(source, <<"video.decode", k>>, V, "backpressure") \in InputEdges(c, k)
        /\ Edge(source, <<"audio.decode", k>>, A, "backpressure") \in InputEdges(c, k)
        /\ Edge(<<"video.decode", k>>, <<"video.timeline", 0>>, 1,
           "backpressure") \in InputEdges(c, k)
        /\ Edge(<<"audio.decode", k>>, <<"audio.timeline", 0>>, A,
           "backpressure") \in InputEdges(c, k)
    BY <1>2, <1>3, <1>8 DEF InputEdges, PacketsFrom
  <2> QED
    BY <1>6, <2>1, <2>2
<1>9. /\ SameCapacity(plan, <<"video.decode", "video.timeline">>,
                            <<"video.timeline", "video.encode">>)
      /\ SameCapacity(plan, <<"audio.decode", "audio.timeline">>,
                            <<"audio.timeline", "audio.encode">>)
      /\ SameCapacity(plan, VideoToMux, AudioToMux)
      /\ SameCapacity(plan, VideoToMux, MuxToOutput)
  <2>1. ASSUME NEW a \in Edges(c), NEW from, NEW to, <<a.from[1], a.to[1]>> = <<from, to>>
        PROVE  a.from[1] = from /\ a.to[1] = to
    BY <2>1
  <2> QED
    BY <1>5, <2>1, EdgeCapacities DEF SameCapacity, VideoToMux, AudioToMux, MuxToOutput
<1>10. ControllerQueuesOk(c, plan)
  <2>1. ASSUME NEW k \in DOMAIN c.inputs
        PROVE  PacketInput(c.inputs[k].scheme) <=> c.inputs[k].scheme \in {"rtsp", "rtmp"}
    BY InputsAccepted DEF PacketInput
  <2> QED
    BY <1>7, <1>8, <1>9, <2>1 DEF ControllerQueuesOk
<1>11. ASSUME Len(c.inputs) = 1, c.inputs \in Seq(InputConfig) PROVE SingleQueuesOk(plan)
  <2>1. 1 \in DOMAIN c.inputs /\ \A k \in DOMAIN c.inputs : k = 1
    BY <1>11
  <2>2. (\E e \in plan.edges : e.from = <<"input", 1>> /\ e.to = <<"demux", 1>>)
          <=> ~PacketInput(c.inputs[1].scheme)
    <3>1. ASSUME NEW e \in Edges(c), e.from = <<"input", 1>>, e.to = <<"demux", 1>>
          PROVE  ~PacketInput(c.inputs[1].scheme)
      <4>1. PICK k \in DOMAIN c.inputs : e \in InputEdges(c, k)
        BY <3>1 DEF Edges, ProgramEdges, DirectorEdges, TapEdges, Edge, Director, Tap
      <4> QED
        BY <2>1, <3>1, <4>1 DEF InputEdges, PacketsFrom, Edge
    <3>2. ASSUME ~PacketInput(c.inputs[1].scheme)
          PROVE  QueueOk(plan, <<"input", 1>>, <<"demux", 1>>, "backpressure")
      BY <1>8, <2>1, <3>2
    <3>3. ~PacketInput(c.inputs[1].scheme)
             => \E e \in plan.edges : e.from = <<"input", 1>> /\ e.to = <<"demux", 1>>
      BY <3>2 DEF QueueOk
    <3> QED
      BY <1>5, <3>1, <3>3
  <2>3. \A e \in plan.edges : (e.from[1] = "video.decode" /\ e.to[1] = "video.timeline") => e.capacity = 1
    BY <1>5, EdgeCapacities
  <2> QED
    BY <1>7, <1>8, <1>9, <2>1, <2>2, <2>3 DEF SingleQueuesOk
<1> QED
  BY <1>1, <1>4, <1>10, <1>11

-----------------------------------------------------------------------------
(* What the backends refuse of an accepted configuration.                   *)
ConfigTyped(c) ==
  /\ c.inputs \in Seq(InputConfig)
  /\ c.output \in OutputConfig
  /\ c.video \in VideoConfig

LEMMA SecretsResolve ==
  ASSUME NEW ref \in SecretRef, SecretOk(ref), ref # "half"
  PROVE  SecretResolves(ref)
  BY DEF SecretRef, SecretOk, SecretResolves

LEMMA ProfileRefused ==
  ASSUME NEW c, Validates(c), ConfigTyped(c), ~(AacProfileOk(c.audio) /\ NvencOk(c.video))
  PROVE  OddProfile(c)
<1>1. PICK v \in VideoConfig : v = c.video
  BY DEF ConfigTyped
<1>2. PICK a : a = c.audio
  OBVIOUS
<1>3. VideoOk(v) /\ AudioOk(a)
  BY <1>1, <1>2 DEF Validates
<1>4. CASE ~AacProfileOk(a)
  BY <1>2, <1>3, <1>4 DEF AacProfileOk, AudioOk, OddProfile
<1>5. CASE ~NvencOk(v)
  <2>1. v.width \in Nat /\ v.height \in Nat /\ v.bitrateKbps \in Nat
    BY DEF VideoConfig
  <2>2. GopFrames(v) # 0
    BY DEF GopFrames
  <2>3. \/ ~InRange(v.width, 2, 1920) \/ ~InRange(v.height, 2, 1080)
        \/ v.width % 2 # 0 \/ v.height % 2 # 0 \/ ~InRange(v.bitrateKbps, 1, 4294967)
    BY <1>3, <1>5, <2>2 DEF NvencOk, VideoOk
  <2>4. ASSUME NEW x \in Nat, NEW high \in Nat, InRange(x, 1, high), ~InRange(x, 2,
     high) \/ x % 2 # 0
        PROVE  x % 2 = 1
    BY <2>4 DEF InRange
  <2>5. ASSUME NEW x \in Nat, NEW high \in Nat, ~InRange(x, 1, high)
        PROVE  x = 0 \/ x > high
    BY <2>5 DEF InRange
  <2> QED
    BY <1>1, <1>3, <2>1, <2>3, <2>4, <2>5 DEF VideoOk, OddProfile
<1> QED
  BY <1>1, <1>2, <1>4, <1>5

LEMMA InputRefused ==
  ASSUME NEW i \in InputConfig, InputOk(i), ~InputEndpointOk(i)
  PROVE  Odd(i) \/ i.rtsp.passwordRef = "half"
<1>1. /\ i.form \in UriForm /\ i.secretRef \in SecretRef
      /\ i.srt \in SrtConfig /\ i.rtsp \in RtspConfig /\ i.rtmp \in RtmpConfig
  BY DEF InputConfig
<1>2. /\ i.srt.streamIdRef \in SecretRef /\ i.rtsp.passwordRef \in SecretRef
      /\ i.rtsp.username \in Setting /\ i.rtmp.streamNameRef \in SecretRef
  BY <1>1 DEF SrtConfig, RtspConfig, RtmpConfig
<1>3. CASE i.scheme = "srt"
  <2>1. SrtUriOk(i.form) /\ SecretOk(i.secretRef) /\ SrtOk(i.srt) /\ ~SrtEndpointOk(i)
    BY <1>3 DEF InputOk, InputEndpointOk
  <2>2. SecretOk(i.srt.streamIdRef) /\ None \in {i.srt.streamId, i.srt.streamIdRef}
    BY <2>1 DEF SrtOk
  <2> QED
    BY <1>1, <1>2, <1>3, <2>1, <2>2, SecretsResolve DEF SrtEndpointOk, Odd, SrtUriOk
<1>4. CASE i.scheme = "rtsp"
  <2>1. RtspUriOk(i.form) /\ i.rtsp.here /\ RtspOk(i.rtsp) /\ ~RtspEndpointOk(i)
    BY <1>4 DEF InputOk, InputEndpointOk
  <2>2. (i.rtsp.username # None) = (i.rtsp.passwordRef # None)
    BY <1>2, <2>1 DEF RtspOk, Setting, None
  <2> QED
    BY <1>2, <2>1, <2>2, SecretsResolve DEF RtspOk, RtspEndpointOk, RtspUriOk, Odd
<1>5. CASE i.scheme = "rtmp"
  <2>1. RtmpUriOk(i.form) /\ i.rtmp.here /\ RtmpOk(i.rtmp, "listen") /\ ~RtmpEndpointOk(i, "listen")
    BY <1>5 DEF InputOk, InputEndpointOk
  <2> QED
    BY <1>2, <2>1, SecretsResolve
       DEF RtmpOk, RtmpEndpointOk, RtmpUriOk, StreamNameResolves, MessageLimitOk, Odd
<1> QED
  BY <1>3, <1>4, <1>5 DEF InputOk

LEMMA OutputRefused ==
  ASSUME NEW o \in OutputConfig, OutputOk(o), ~OutputEndpointOk(o)
  PROVE  Odd(o)
<1>1. /\ o.form \in UriForm /\ o.secretRef \in SecretRef
      /\ o.srt \in SrtConfig /\ o.rtmp \in RtmpConfig
  BY DEF OutputConfig
<1>2. /\ o.srt.streamIdRef \in SecretRef
      /\ o.rtmp.streamNameRef \in SecretRef /\ o.rtmp.publishQueryRef \in SecretRef
  BY <1>1 DEF SrtConfig, RtmpConfig
<1>3. CASE o.scheme = "srt"
  <2>1. SrtUriOk(o.form) /\ SecretOk(o.secretRef) /\ SrtOk(o.srt) /\ ~SrtEndpointOk(o)
    BY <1>3 DEF OutputOk, OutputEndpointOk
  <2>2. SecretOk(o.srt.streamIdRef) /\ None \in {o.srt.streamId, o.srt.streamIdRef}
    BY <2>1 DEF SrtOk
  <2> QED
    BY <1>1, <1>2, <1>3, <2>1, <2>2, SecretsResolve DEF SrtEndpointOk, Odd, SrtUriOk
<1>4. CASE o.scheme \in {"rtmp", "rtmps"}
  <2>1. RtmpUriOk(o.form) /\ o.rtmp.here /\ RtmpOk(o.rtmp, "publish") /\ ~RtmpEndpointOk(o,
     "publish")
    BY <1>4 DEF OutputOk, OutputEndpointOk
  <2> QED
    BY <1>2, <2>1, SecretsResolve
       DEF RtmpOk, RtmpEndpointOk, RtmpUriOk, StreamNameResolves, PublishNameResolves,
           MessageLimitOk, Odd
<1> QED
  BY <1>3, <1>4 DEF OutputOk

LEMMA DecoderTakes ==
  ASSUME NEW c, Validates(c), ConfigTyped(c)
  PROVE  NvdecOk(c.video)
<1>1. PICK v \in VideoConfig : v = c.video
  BY DEF ConfigTyped
<1>2. VideoOk(v)
  BY <1>1 DEF Validates
<1>3. ASSUME NEW x \in Nat, NEW high, InRange(x, 1, high)
      PROVE  x # 0 /\ AlignUp(x, 16) # 0
  BY <1>3 DEF InRange, AlignUp
<1>4. v.width \in Nat /\ v.height \in Nat /\ v.fps \in Nat
  BY DEF VideoConfig
<1> QED
  BY <1>1, <1>2, <1>3, <1>4 DEF VideoOk, NvdecOk

-----------------------------------------------------------------------------
(* The command.                                                             *)
\* The document is one the user has, or what `config convert` wrote for one.
Origin ==
  IF legacy = <<>> THEN doc \in Documents
  ELSE \E d \in Documents :
         Converts(d) /\ legacy = <<FromLegacy(d)>> /\ doc = Converted(FromLegacy(d))

Running == stage \in {"running", "interrupted"}

JobInv ==
  /\ Running => legacy = <<>>
  /\ ~Running => Origin
  /\ stage \in {"loaded", "compiled", "opening", "encoders", "opened", "decoder", "built",
     "checked"}
       => Loads(doc)
  /\ stage \in {"opening", "encoders", "opened", "decoder", "built", "checked"}
       => Len(Config.inputs) = 1
  /\ stage # "refused" => refusal = "none"
  /\ AcceptedJobsRun

LEMMA LoadedConfig ==
  ASSUME NEW d, Loads(d), Parsed(d)
  PROVE  ConfigTyped(ToConfig(d)) /\ Validates(ToConfig(d))
<1>1. PICK c : c = ToConfig(d)
  OBVIOUS
<1>2. IsJob(d) /\ Len(d.outputs) = 1
  BY DEF Loads, JobOk
<1>3. PICK o \in JobOutputConfig : o = d.outputs[1]
  BY <1>2 DEF Parsed
<1>4. Unnamed(o) \in OutputConfig
  BY DEF Unnamed, JobOutputConfig, OutputConfig
<1>5. c.video \in VideoConfig
  <2>1. c.video = Given(d.video, DefaultVideo)
    BY <1>1, ConfigFields, DefaultFields DEF Defaults
  <2>2. DefaultVideo \in VideoConfig
    BY DEF DefaultVideo, VideoConfig
  <2> QED
    BY <2>1, <2>2 DEF Given, Parsed
<1>6. c.inputs \in Seq(InputConfig) /\ c.output \in OutputConfig
  BY <1>1, <1>3, <1>4, ConfigFields DEF Parsed
<1> QED
  BY <1>1, <1>5, <1>6 DEF ConfigTyped, Loads

LEMMA AcceptedConfig ==
  ASSUME Origin, Loads(doc)
  PROVE  ConfigTyped(Config) /\ Validates(Config)
<1>1. CASE legacy = <<>>
  BY <1>1, LoadedConfig, DocumentsAssumption DEF Origin, Config
<1>2. CASE legacy # <<>>
  <2>1. PICK d \in Documents :
          Converts(d) /\ legacy = <<FromLegacy(d)>> /\ doc = Converted(FromLegacy(d))
    BY <1>2 DEF Origin
  <2>2. PICK c : c = FromLegacy(d)
    OBVIOUS
  <2>3. Parsed(d) /\ ~IsJob(d)
    BY <2>1, DocumentsAssumption DEF Converts
  <2>4. Config = c
    BY <2>1, <2>2, <2>3, ConvertsFaithfully DEF Config, Parsed
  <2>5. c.inputs = d.inputs /\ c.output = d.output /\ c.video = Given(d.video, DefaultVideo)
    BY <2>2, LegacyFields
  <2>6. c.video \in VideoConfig
    <3>1. DefaultVideo \in VideoConfig
      BY DEF DefaultVideo, VideoConfig
    <3> QED
      BY <2>3, <2>5, <3>1 DEF Given, Parsed
  <2> QED
    BY <2>1, <2>2, <2>3, <2>4, <2>5, <2>6 DEF ConfigTyped, Parsed, Converts
<1> QED
  BY <1>1, <1>2

LEMMA Faithful == JobInv => ConversionFaithful
<1> SUFFICES ASSUME JobInv, legacy # <<>> PROVE Config = legacy[1]
  BY DEF ConversionFaithful
<1>1. Origin
  BY DEF JobInv
<1>2. PICK d \in Documents :
        Converts(d) /\ legacy = <<FromLegacy(d)>> /\ doc = Converted(FromLegacy(d))
  BY <1>1 DEF Origin
<1>3. d.output \in OutputConfig
  BY <1>2, DocumentsAssumption DEF Converts, Parsed
<1> QED
  BY <1>2, <1>3, ConvertsFaithfully DEF Config

LEMMA ClaimsKept == JobInv => PlansKeepTheirClaims
  BY AcceptedConfig, PlanKeepsClaims, PlanSharesBuffer DEF JobInv, PlansKeepTheirClaims, Running

Compiling == {"loaded", "compiled"}
Building == {"opening", "encoders", "opened", "decoder", "built", "checked"}
Ends == {"refused", "dryRun", "mock"}

\* What a stage may refuse.
Excused ==
  /\ refusal' \notin {"plan", "decoder"}
  /\ legacy # <<>> => refusal' \notin {"legacy", "config"}
  /\ refusal' = "profile" => OddProfile(Config)
  /\ refusal' = "endpoint" =>
       Odd(Config.inputs[1]) \/ Odd(Config.output) \/ Config.inputs[1].rtsp.passwordRef = "half"

LEMMA PassKeeps ==
  ASSUME JobInv, stage \in {"document"} \cup Compiling \cup Building,
         stage' \in Compiling \cup Building \cup (Ends \ {"refused"}),
         stage' \in Compiling \cup Building => Loads(doc),
         stage' \in Building => Len(Config.inputs) = 1,
         UNCHANGED <<doc, legacy, refusal>>
  PROVE  JobInv'
  BY DEF JobInv, Running, Origin, Config, AcceptedJobsRun, Compiling, Building, Ends

LEMMA RefusalKeeps ==
  ASSUME JobInv, stage \in {"document"} \cup Compiling \cup Building, stage' = "refused",
         Excused, UNCHANGED <<doc, legacy>>
  PROVE  JobInv'
  BY DEF JobInv, Running, Origin, Config, AcceptedJobsRun, Compiling, Building, Excused

\* The stages before the pipeline runs.
LEMMA StagesKeep ==
  ASSUME JobInv,
         \/ Convert \/ Load \/ Compile \/ DryRun \/ Mock \/ Native \/ CreateEncoders
         \/ OpenInput \/ CreateDecoder \/ OpenOutput \/ BackendMissing \/ Preflight
  PROVE  JobInv'
<1>1. ~Running => Origin
  BY DEF JobInv
<1>2. CASE Convert
  <2>1. legacy = <<>> /\ doc \in Documents /\ Converts(doc)
    <3>1. CASE legacy = <<>>
      BY <1>1, <1>2, <3>1 DEF Convert, Running, Origin
    <3>2. CASE legacy # <<>>
      <4>1. PICK d \in Documents : Converts(d) /\ doc = Converted(FromLegacy(d))
        BY <1>1, <1>2, <3>2 DEF Convert, Running, Origin
      <4>2. d.output \in OutputConfig
        BY <4>1, DocumentsAssumption DEF Converts, Parsed
      <4>3. ~Converts(doc)
        BY <4>1, <4>2, ConvertedLoads
      <4> QED
        BY <1>2, <4>3 DEF Convert
    <3> QED
      BY <3>1, <3>2
  <2>2. Origin'
    BY <1>2, <2>1 DEF Convert, Origin
  <2>3. refusal' = "none" /\ stage' = "document"
    BY <1>2 DEF Convert, JobInv
  <2> QED
    BY <2>2, <2>3 DEF JobInv, Running, AcceptedJobsRun
<1>3. CASE Load
  <2>1. legacy # <<>> => Loads(doc)
    <3>1. SUFFICES ASSUME legacy # <<>> PROVE Loads(doc)
      OBVIOUS
    <3>2. PICK d \in Documents : Converts(d) /\ doc = Converted(FromLegacy(d))
      BY <1>1, <1>3, <3>1 DEF Load, Step, Running, Origin
    <3>3. d.output \in OutputConfig
      BY <3>2, DocumentsAssumption DEF Converts, Parsed
    <3> QED
      BY <3>2, <3>3, ConvertedLoads
  <2>2. PICK by \in {"legacy", "config"} : Step("document", Loads(doc), "loaded", by)
    BY <1>3 DEF Load
  <2> QED
    BY <2>1, <2>2, PassKeeps, RefusalKeeps DEF Step, Excused, Compiling, Building
<1>4. ASSUME stage \in {"loaded", "compiled", "opening", "encoders", "opened", "decoder",
   "built", "checked"}
      PROVE  ConfigTyped(Config) /\ Validates(Config)
  BY <1>1, <1>4, AcceptedConfig DEF JobInv, Running
<1>5. CASE Compile
  <2>1. Validates(Config)
    BY <1>4, <1>5 DEF Compile, Step
  <2> QED
    BY <1>5, <2>1, PassKeeps, RefusalKeeps
       DEF Compile, Step, Excused, Compiling, Building, Ends, JobInv
<1>6. CASE DryRun
  BY <1>6, PassKeeps, RefusalKeeps DEF DryRun, Step, Excused, Compiling, Building, Ends, JobInv
<1>7. CASE Mock
  <2>1. RuntimePlanOk(Config, Plan(Config)) /\ ControllerQueuesOk(Config, Plan(Config))
    BY <1>4, <1>7, PlanRuns DEF Mock, Step
  <2> QED
    BY <1>7, <2>1, PassKeeps, RefusalKeeps
       DEF Mock, Step, Excused, Compiling, Building, Ends, JobInv
<1>8. CASE Native
  BY <1>8, PassKeeps, RefusalKeeps DEF Native, Step, Excused, Compiling, Building, Ends, JobInv
<1>9. CASE CreateEncoders
  <2>1. ~(AacProfileOk(Config.audio) /\ NvencOk(Config.video)) => OddProfile(Config)
    BY <1>4, <1>9, ProfileRefused DEF CreateEncoders, Step
  <2> QED
    BY <1>9, <2>1, PassKeeps, RefusalKeeps
       DEF CreateEncoders, Step, Excused, Compiling, Building, Ends, JobInv
<1>10. CASE OpenInput
  <2>1. PICK i : i = Config.inputs[1]
    OBVIOUS
  <2>2. Len(Config.inputs) = 1
    BY <1>10 DEF OpenInput, Step, JobInv
  <2>3. i \in InputConfig /\ InputOk(i)
    BY <1>4, <1>10, <2>1, <2>2 DEF OpenInput, Step, ConfigTyped, Validates
  <2>4. ~InputEndpointOk(i) => Odd(i) \/ i.rtsp.passwordRef = "half"
    BY <2>3, InputRefused
  <2>5. PICK udp : udp = (i.scheme = "rtsp" /\ i.rtsp.transport = "udp")
    OBVIOUS
  <2>6. PICK by : /\ Step("encoders", ~udp /\ InputEndpointOk(i), "opened", by)
                  /\ by = IF udp THEN "udp" ELSE "endpoint"
    BY <1>10, <2>1, <2>5 DEF OpenInput
  <2> QED
    BY <2>1, <2>2, <2>4, <2>6, PassKeeps, RefusalKeeps
       DEF Step, Excused, Compiling, Building, JobInv
<1>11. CASE CreateDecoder
  <2>1. NvdecOk(Config.video)
    BY <1>4, <1>11, DecoderTakes DEF CreateDecoder, Step
  <2> QED
    BY <1>11, <2>1, PassKeeps, RefusalKeeps
       DEF CreateDecoder, Step, Excused, Compiling, Building, Ends, JobInv
<1>12. CASE OpenOutput
  <2>1. PICK o : o = Config.output
    OBVIOUS
  <2>2. o \in OutputConfig /\ OutputOk(o)
    BY <1>4, <1>12, <2>1 DEF OpenOutput, Step, ConfigTyped, Validates
  <2>3. ~OutputEndpointOk(o) => Odd(o)
    BY <2>2, OutputRefused
  <2> QED
    BY <1>12, <2>1, <2>3, PassKeeps, RefusalKeeps
       DEF OpenOutput, Step, Excused, Compiling, Building, Ends, JobInv
<1>13. CASE BackendMissing
  BY <1>13, PassKeeps, RefusalKeeps
     DEF BackendMissing, Step, Excused, Compiling, Building, Ends, JobInv
<1>14. CASE Preflight
  <2>1. Len(Config.inputs) = 1 /\ Config.inputs \in Seq(InputConfig)
    BY <1>4, <1>14 DEF Preflight, Step, JobInv, ConfigTyped
  <2>2. /\ RuntimePlanOk(Config, Plan(Config)) /\ ControllerQueuesOk(Config, Plan(Config))
        /\ SingleQueuesOk(Plan(Config))
    BY <1>4, <1>14, <2>1, PlanRuns DEF Preflight, Step
  <2>3. Plan(Config).mode = "single"
    BY <2>1 DEF Plan, Mode
  <2> QED
    BY <1>14, <2>2, <2>3, PassKeeps, RefusalKeeps
       DEF Preflight, Step, Excused, Compiling, Building, Ends, JobInv
<1> QED
  BY <1>2, <1>3, <1>5, <1>6, <1>7, <1>8, <1>9, <1>10, <1>11, <1>12, <1>13, <1>14

IInv == TasksInv /\ LastStands /\ JobInv

LEMMA InitIInv == Init => IInv
<1> SUFFICES ASSUME Init PROVE IInv
  OBVIOUS
<1>1. TasksInv
  BY TasksInit DEF Init
<1>2. LastStands
  BY DEF Init, Health!Init, LastStands
<1>3. JobInv
  BY DEF Init, JobInv, Running, Origin, AcceptedJobsRun
<1> QED
  BY <1>1, <1>2, <1>3 DEF IInv

LEMMA TasksStand ==
  ASSUME TasksInv, UNCHANGED taskVars
  PROVE  TasksInv'
<1> USE DEF taskVars
<1>1. TaskTypes' /\ Crew' /\ CausesKept'
  BY DEF TasksInv, TaskTypes, Crew, CausesKept, Failed
<1>2. Emptied'
  BY DEF TasksInv, Emptied, Tasks!Taker, Tasks!Senders
<1>3. Verdict' /\ ReturnedShowsNothing'
  BY DEF TasksInv, Verdict, Failed, ReturnedShowsNothing
<1> QED
  BY <1>1, <1>2, <1>3 DEF TasksInv

LEMMA HealthStands ==
  ASSUME LastStands, UNCHANGED healthVars
  PROVE  LastStands'
  BY DEF LastStands, healthVars

LEMMA JobStands ==
  ASSUME JobInv, UNCHANGED jobVars
  PROVE  JobInv'
  BY DEF JobInv, jobVars, Running, Origin, Config, AcceptedJobsRun

LEMMA StepIInv == IInv /\ [Next]_vars => IInv'
<1> SUFFICES ASSUME IInv, [Next]_vars PROVE IInv'
  OBVIOUS
<1> USE DEF IInv
<1>1. CASE \/ Convert \/ Load \/ Compile \/ DryRun \/ Mock \/ Native \/ CreateEncoders
           \/ OpenInput \/ CreateDecoder \/ OpenOutput \/ BackendMissing \/ Preflight
  <2>1. UNCHANGED taskVars /\ UNCHANGED healthVars
    BY <1>1 DEF Convert, Load, Compile, DryRun, Mock, Native, CreateEncoders, OpenInput,
                CreateDecoder,
               OpenOutput, BackendMissing, Preflight, Step
  <2> QED
    BY <1>1, <2>1, TasksStand, HealthStands, StagesKeep
<1>2. CASE Start
  <2>1. JobInv'
    BY <1>2 DEF Start, JobInv, Running, AcceptedJobsRun
  <2>2. PICK scheme : scheme = Config.inputs[1].scheme
    OBVIOUS
  <2>3. PICK kind \in {"transport", "packets"} :
          (Tasks!Start(kind) /\ UNCHANGED healthVars) \/ (Health!Start(scheme) /\ UNCHANGED taskVars)
    BY <1>2, <2>2 DEF Start
  <2> QED
    BY <2>1, <2>3, TasksStart, TasksStand, HealthKeeps, HealthStands
<1>3. CASE TaskStep
  BY <1>3, EachTaskActs, TaskActsKeep, SuperviseKeeps, HealthStands, JobStands DEF TaskStep
<1>4. CASE HealthStep
  BY <1>4, HealthKeeps, TasksStand, JobStands DEF HealthStep
<1>5. CASE Interrupt
  <2>1. JobInv'
    BY <1>5 DEF Interrupt, JobInv, Running, AcceptedJobsRun
  <2> QED
    BY <1>5, <2>1, TasksDrop, TasksStand, HealthKeeps, HealthStands DEF Interrupt
<1>6. CASE Over \/ UNCHANGED vars
  BY <1>6, TasksStand, HealthStands, JobStands DEF Over, vars
<1> QED
  BY <1>1, <1>2, <1>3, <1>4, <1>5, <1>6 DEF Next

LEMMA RunInvariant == Spec => []IInv
  BY InitIInv, StepIInv, PTL DEF Spec

-----------------------------------------------------------------------------
(* Whatever a user runs, directly or after `config convert`: what validate has *)
(* accepted is refused by no reader of the plan and by no decoder, and by a     *)
(* codec or an endpoint only for what validate does not look at.                *)
THEOREM AcceptedJobsAlwaysRun == Spec => []AcceptedJobsRun
<1>1. IInv => AcceptedJobsRun
  BY DEF IInv, JobInv
<1> QED
  BY <1>1, RunInvariant, PTL

(* The document that `config convert` writes always loads as what the legacy   *)
(* document says.                                                               *)
THEOREM ConversionAlwaysFaithful == Spec => []ConversionFaithful
<1>1. IInv => ConversionFaithful
  BY Faithful DEF IInv
<1> QED
  BY <1>1, RunInvariant, PTL

(* The plan of every accepted job, at any bufferMs, frame rate and number of    *)
(* inputs: its edges are bounded and keep analysis off the hot path, as its      *)
(* constant fields claim, and what the five queues of a route hold together is   *)
(* within bufferMs, or one slot each.                                            *)
THEOREM PlansAlwaysKeepTheirClaims == Spec => []PlansKeepTheirClaims
<1>1. IInv => PlansKeepTheirClaims
  BY ClaimsKept DEF IInv
<1> QED
  BY <1>1, RunInvariant, PTL

(* For channels of any capacity and any interleaving of the tasks: a run that  *)
(* ends well has emptied its channels, one that does not has a task that failed *)
(* by itself.                                                                   *)
THEOREM AlwaysEndsHonestly == Spec => []EndsHonestly
<1>1. IInv => EndsHonestly
  BY TasksEndHonestly DEF IInv
<1> QED
  BY <1>1, RunInvariant, PTL

(* A run that has returned shows no queue and is not shown as running.         *)
THEOREM ReturnedAlwaysShowsNothing == Spec => []ReturnedShowsNothing
<1>1. IInv => ReturnedShowsNothing
  BY DEF IInv, TasksInv
<1> QED
  BY <1>1, RunInvariant, PTL

(* Whatever sample was on its way when the tasks ended: a packet source that   *)
(* was down then is not left shown as healthy.                                  *)
THEOREM LastSampleAlwaysStands == Spec => []LastSampleStands
<1>1. IInv => LastSampleStands
  BY DEF IInv, LastStands, LastSampleStands
<1> QED
  BY <1>1, RunInvariant, PTL
=============================================================================
