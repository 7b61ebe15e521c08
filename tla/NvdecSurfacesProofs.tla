------------------------ MODULE NvdecSurfacesProofs ------------------------
(***************************************************************************)
(* Safety of NvdecSurfaces for any number of surfaces, commands and         *)
(* generations.  The inductive invariant ties three views of a generation    *)
(* together: what the worker has booked (current and retired), which native *)
(* decoders exist, and which surfaces are mapped.                            *)
(***************************************************************************)
EXTENDS NvdecSurfaces, TLAPS

\* A native decoder exists for the current generation, once it has seen a
\* format, and for the retired ones.
NativeBooked ==
  native = {g \in Generation : (g = current.id /\ current.decoder) \/ g \in DOMAIN retired}

CurrentSound ==
  /\ current.id < next
  /\ current.id = 0 => current = NoGeneration
  /\ current.mapped > 0 => current.decoder
  /\ current.id \notin DOMAIN retired

RetiredSound == \A g \in DOMAIN retired : g < next /\ retired[g] > 0

ShutdownSound ==
  /\ shuttingDown => current = NoGeneration
  /\ worker = "exited" => (shuttingDown /\ DOMAIN retired = {})

IInv ==
  /\ TypeOK
  /\ CountsExact
  /\ NativeBooked
  /\ CurrentSound
  /\ RetiredSound
  /\ ShutdownSound

-----------------------------------------------------------------------------
LEMMA CommandsKeep ==
  ASSUME TypeOK, NEW c \in Command, Len(commands) < CommandCapacity
  PROVE  Append(commands, c) \in Seq(Command) /\ Len(Append(commands, c)) <= CommandCapacity
BY SurfacesAssumption DEF SurfacesAssumption, TypeOK

LEMMA TakenKeeps ==
  ASSUME TypeOK, NEW c \in Command, Taken(c)
  PROVE  /\ commands' \in Seq(Command) /\ Len(commands') <= CommandCapacity
         /\ worker' = "drain" /\ UNCHANGED <<client, releases>>
BY SurfacesAssumption DEF SurfacesAssumption, TypeOK, Taken

LEMMA InitIInv == Init => IInv
<1> SUFFICES ASSUME Init PROVE IInv
  OBVIOUS
<1> USE SurfacesAssumption DEF SurfacesAssumption, Init, Generation
<1>1. retired \in [DOMAIN retired -> Nat] /\ DOMAIN retired = {}
  OBVIOUS
<1>2. commands \in Seq(Command) /\ Len(commands) <= CommandCapacity
  OBVIOUS
<1>3. TypeOK
  <2>1. current \in [id : 0 .. MaxGeneration, decoder : BOOLEAN, mapped : Nat] /\ next \in 1 .. MaxGeneration + 1
    OBVIOUS
  <2>2. leases \in [Generation -> Nat] /\ releases \in [Generation -> Nat]
    OBVIOUS
  <2>4. DOMAIN retired \subseteq Generation /\ native \in SUBSET Generation
    BY <1>1
  <2>5. /\ client \in {"open", "gone"}
        /\ worker \in {"drain", "recv", "exited"}
        /\ inUse \in Int
    OBVIOUS
  <2>6. shuttingDown \in BOOLEAN
    BY Zenon
  <2> HIDE DEF Init, Generation
  <2> QED
    BY <1>1, <1>2, <2>1, <2>2, <2>4, <2>5, <2>6 DEF TypeOK
<1>4. CountsExact
  BY <1>1 DEF CountsExact, Mapped
<1>5. NativeBooked /\ CurrentSound /\ RetiredSound /\ ShutdownSound
  BY <1>1 DEF NativeBooked, CurrentSound, RetiredSound, ShutdownSound
<1> QED
  BY <1>3, <1>4, <1>5 DEF IInv

\* retire_current keeps every mapped surface booked and its decoder alive.
LEMMA RetireKeeps ==
  ASSUME IInv
  PROVE  /\ DOMAIN RetiredAfter = DOMAIN retired \cup
                                  (IF current.mapped > 0 THEN {current.id} ELSE {})
         /\ RetiredAfter \in [DOMAIN RetiredAfter -> Nat]
         /\ DOMAIN RetiredAfter \subseteq Generation
         /\ \A g \in DOMAIN RetiredAfter : g < next /\ RetiredAfter[g] > 0
         /\ \A g \in Generation :
              Mapped(g) = IF g \in DOMAIN RetiredAfter THEN RetiredAfter[g] ELSE 0
         /\ NativeAfter = {g \in Generation : g \in DOMAIN RetiredAfter}
<1> USE DEF IInv, TypeOK, Generation
<1>1. CASE current.mapped > 0
  <2>1. current.decoder /\ current.id \in Generation
    BY <1>1 DEF CurrentSound, NoGeneration
  <2>2. /\ RetiredAfter = [g \in DOMAIN retired \cup {current.id} |->
                             IF g = current.id THEN current.mapped ELSE retired[g]]
        /\ NativeAfter = native
    BY <1>1, <2>1 DEF RetiredAfter, NativeAfter
  <2>3. DOMAIN RetiredAfter = DOMAIN retired \cup {current.id}
    BY <2>2
  <2>4. \A g \in DOMAIN RetiredAfter : RetiredAfter[g] \in Nat /\ g < next /\ RetiredAfter[g] > 0
    BY <1>1, <2>2, <2>3 DEF RetiredSound, CurrentSound
  <2>5. \A g \in Generation :
          Mapped(g) = IF g \in DOMAIN RetiredAfter THEN RetiredAfter[g] ELSE 0
    BY <1>1, <2>2, <2>3 DEF CountsExact
  <2>6. NativeAfter = {g \in Generation : g \in DOMAIN RetiredAfter}
    BY <2>1, <2>2, <2>3 DEF NativeBooked
  <2> QED
    BY <1>1, <2>1, <2>2, <2>3, <2>4, <2>5, <2>6
<1>2. CASE ~(current.mapped > 0)
  <2>1. RetiredAfter = retired /\ current.mapped = 0
    BY <1>2 DEF RetiredAfter
  <2>2. \A g \in Generation :
          Mapped(g) = IF g \in DOMAIN RetiredAfter THEN RetiredAfter[g] ELSE 0
    BY <2>1 DEF CountsExact, CurrentSound
  <2>3. NativeAfter = {g \in Generation : g \in DOMAIN RetiredAfter}
    BY <2>1 DEF NativeAfter, NativeBooked, CurrentSound
  <2> QED
    BY <1>2, <2>1, <2>2, <2>3 DEF RetiredSound
<1> QED
  BY <1>1, <1>2

LEMMA RespondKeeps ==
  ASSUME leases \in [Generation -> Nat], inUse \in Int, OutputSurfaces \in Nat,
         NEW g \in [id : Generation, decoder : BOOLEAN, mapped : Nat], NEW n \in 0 .. OutputSurfaces,
         Respond(g, n), UNCHANGED releases, releases \in [Generation -> Nat]
  PROVE  /\ current' \in [id : Generation, decoder : BOOLEAN, mapped : Nat]
         /\ current'.id = g.id /\ current'.decoder = g.decoder
         /\ current'.mapped = g.mapped + n
         /\ leases' \in [Generation -> Nat]
         /\ inUse' \in Int
         /\ Mapped(g.id)' = Mapped(g.id) + n
         /\ \A h \in Generation \ {g.id} : Mapped(h)' = Mapped(h)
<1>1. /\ current' = [g EXCEPT !.mapped = g.mapped + n]
      /\ inUse' = inUse + n
      /\ leases' = [leases EXCEPT ![g.id] = leases[g.id] + n]
  BY DEF Respond
<1>2. /\ current' \in [id : Generation, decoder : BOOLEAN, mapped : Nat]
      /\ current'.id = g.id /\ current'.decoder = g.decoder
      /\ current'.mapped = g.mapped + n
  BY <1>1
<1>3. /\ leases' \in [Generation -> Nat]
      /\ leases'[g.id] = leases[g.id] + n
      /\ \A h \in Generation \ {g.id} : leases'[h] = leases[h]
  BY <1>1
<1>4. Mapped(g.id)' = Mapped(g.id) + n
  BY <1>3 DEF Mapped
<1>5. \A h \in Generation \ {g.id} : Mapped(h)' = Mapped(h)
  BY <1>3 DEF Mapped
<1> QED
  BY <1>1, <1>2, <1>3, <1>4, <1>5

\* A step that leaves the client, the commands and the phase of the worker
\* alone keeps the types if the books stay well typed.
LEMMA UnchangedTyped ==
  ASSUME TypeOK, client' = client, commands' = commands, worker' = worker,
         shuttingDown' = shuttingDown, next' = next,
         current' \in [id : 0 .. MaxGeneration, decoder : BOOLEAN, mapped : Nat],
         DOMAIN retired' \subseteq Generation, retired' \in [DOMAIN retired' -> Nat],
         inUse' \in Int, leases' \in [Generation -> Nat], releases' \in [Generation -> Nat],
         native' \in SUBSET Generation
  PROVE  TypeOK'
<1>1. client' \in {"open", "gone"} /\ worker' \in {"drain", "recv", "exited"}
      /\ shuttingDown' \in BOOLEAN
  BY DEF TypeOK
<1>2. commands' \in Seq(Command) /\ Len(commands') <= CommandCapacity
  BY DEF TypeOK
<1>3. next' \in 1 .. MaxGeneration + 1
  BY DEF TypeOK
<1> QED
  BY <1>1, <1>2, <1>3 DEF TypeOK

\* Dropping a lease only moves its surface to the release channel.
LEMMA DropLeaseKeeps ==
  ASSUME leases \in [Generation -> Nat], releases \in [Generation -> Nat],
         NEW g \in Generation, DropLease(g)
  PROVE  /\ leases' \in [Generation -> Nat]
         /\ releases' \in [Generation -> Nat]
         /\ \A h \in Generation : Mapped(h)' = Mapped(h)
<1>1. /\ leases' \in [Generation -> Nat]
      /\ leases'[g] = leases[g] - 1
      /\ \A h \in Generation \ {g} : leases'[h] = leases[h]
  BY DEF DropLease
<1>2. /\ releases' \in [Generation -> Nat]
      /\ releases'[g] = releases[g] + 1
      /\ \A h \in Generation \ {g} : releases'[h] = releases[h]
  BY DEF DropLease
<1>3. leases[g] \in Nat /\ releases[g] \in Nat
  OBVIOUS
<1>4. \A h \in Generation : Mapped(h)' = Mapped(h)
  BY <1>1, <1>2, <1>3 DEF Mapped
<1> QED
  BY <1>1, <1>2, <1>4

LEMMA StepIInv == IInv /\ [Next]_vars => IInv'
<1> SUFFICES ASSUME IInv, [Next]_vars PROVE IInv'
  OBVIOUS
<1> USE SurfacesAssumption DEF SurfacesAssumption
<1>0. TypeOK /\ OutputSurfaces \in Nat
  BY DEF IInv
<1>1. ASSUME NEW c \in {"parse", "reset"}, Request(c) PROVE IInv'
  BY <1>1, <1>0, CommandsKeep
     DEF Request, IInv, TypeOK, Command, CountsExact, Mapped, NativeBooked, CurrentSound,
         RetiredSound, ShutdownSound
<1>2. CASE DropDecoder
  BY <1>2, <1>0, CommandsKeep
     DEF DropDecoder, IInv, TypeOK, Command, CountsExact, Mapped, NativeBooked, CurrentSound,
         RetiredSound, ShutdownSound
<1>3. ASSUME NEW g \in Generation, DropLease(g) PROVE IInv'
  <2>1. /\ leases' \in [Generation -> Nat]
        /\ releases' \in [Generation -> Nat]
        /\ \A h \in Generation : Mapped(h)' = Mapped(h)
    BY <1>3, <1>0, DropLeaseKeeps DEF TypeOK
  <2> QED
    BY <1>3, <2>1
       DEF DropLease, IInv, TypeOK, CountsExact, NativeBooked, CurrentSound, RetiredSound,
           ShutdownSound
<1>4. ASSUME NEW g \in Generation, Drain(g) PROVE IInv'
  <2>1. /\ releases' \in [Generation -> Nat]
        /\ leases' = leases
        /\ Mapped(g)' = Mapped(g) - 1
        /\ Mapped(g) > 0 /\ Mapped(g) \in Nat
        /\ \A h \in Generation \ {g} : Mapped(h)' = Mapped(h)
    <3>1. leases \in [Generation -> Nat] /\ releases \in [Generation -> Nat]
      BY <1>0 DEF TypeOK
    <3>2. releases[g] > 0 /\ releases' = [releases EXCEPT ![g] = @ - 1] /\ leases' = leases
      BY <1>4 DEF Drain
    <3>3. /\ releases' \in [Generation -> Nat] /\ releases'[g] = releases[g] - 1
          /\ \A h \in Generation \ {g} : releases'[h] = releases[h]
      BY <3>1, <3>2
    <3> QED
      BY <3>1, <3>2, <3>3 DEF Mapped
  <2>2. CASE g = current.id
    <3>1. /\ current' = [current EXCEPT !.mapped = IF @ = 0 THEN 0 ELSE @ - 1]
          /\ inUse' = inUse - 1
          /\ UNCHANGED <<retired, native>>
      BY <1>4, <2>2 DEF Drain, ReleaseCurrent, ReleaseRetired, ReleaseUnknown, IInv, CurrentSound
    <3>2. current.mapped = Mapped(g)
      BY <2>2 DEF IInv, CountsExact
    <3>3. /\ current' \in [id : 0 .. MaxGeneration, decoder : BOOLEAN, mapped : Nat]
          /\ current'.id = current.id /\ current'.decoder = current.decoder
          /\ current'.mapped = current.mapped - 1
      <4>1. current.mapped \in Nat /\ current.mapped > 0
        BY <2>1, <3>2
      <4>2. current' = [current EXCEPT !.mapped = current.mapped - 1]
        BY <3>1, <4>1
      <4>3. current \in [id : 0 .. MaxGeneration, decoder : BOOLEAN, mapped : Nat]
        BY <1>0 DEF TypeOK
      <4> QED
        BY <4>1, <4>2, <4>3
    <3>4. TypeOK'
      <4>1. /\ client' = client /\ commands' = commands /\ worker' = worker
            /\ shuttingDown' = shuttingDown /\ next' = next
        BY <1>4 DEF Drain
      <4>2. /\ DOMAIN retired' \subseteq Generation /\ retired' \in [DOMAIN retired' -> Nat]
            /\ native' \in SUBSET Generation /\ inUse' \in Int
            /\ leases' \in [Generation -> Nat]
        BY <1>0, <2>1, <3>1, SMTT(20) DEF TypeOK
      <4> QED
        BY <1>0, <2>1, <3>3, <4>1, <4>2, UnchangedTyped
    <3>5. CountsExact'
      BY <2>1, <2>2, <3>1, <3>2, <3>3 DEF IInv, CountsExact
    <3>6. NativeBooked' /\ RetiredSound' /\ CurrentSound'
      BY <1>4, <1>0, <2>1, <2>2, <3>1, <3>2, <3>3
         DEF Drain, IInv, NativeBooked, RetiredSound, CurrentSound, NoGeneration, Generation
    <3>7. ShutdownSound'
      BY <1>4, <2>2 DEF Drain, IInv, ShutdownSound, NoGeneration, Generation
    <3> QED
      BY <3>4, <3>5, <3>6, <3>7 DEF IInv
  <2>3. CASE g # current.id
    <3>1. g \in DOMAIN retired /\ retired[g] = Mapped(g)
      BY <2>1, <2>3 DEF IInv, CountsExact
    <3>2. /\ inUse' = inUse - 1 /\ current' = current
          /\ IF retired[g] <= 1
             THEN retired' = Without(retired, g) /\ native' = native \ {g}
             ELSE retired' = [retired EXCEPT ![g] = @ - 1] /\ native' = native
      BY <1>4, <2>3, <3>1 DEF Drain, ReleaseCurrent, ReleaseRetired, ReleaseUnknown
    <3>3. /\ DOMAIN retired' = IF retired[g] <= 1 THEN DOMAIN retired \ {g} ELSE DOMAIN retired
          /\ \A h \in DOMAIN retired' : retired'[h] = IF h = g THEN retired[h] - 1 ELSE retired[h]
          /\ retired' \in [DOMAIN retired' -> Nat]
      <4>1. /\ retired \in [DOMAIN retired -> Nat] /\ DOMAIN retired \subseteq Generation
            /\ retired[g] \in Nat /\ retired[g] > 0
        BY <1>0, <2>1, <3>1 DEF TypeOK
      <4>2. CASE retired[g] <= 1
        BY <3>2, <4>1, <4>2 DEF Without
      <4>3. CASE ~(retired[g] <= 1)
        BY <3>1, <3>2, <4>1, <4>3
      <4> QED
        BY <4>2, <4>3
    <3>4. TypeOK'
      <4>1. /\ client' = client /\ commands' = commands /\ worker' = worker
            /\ shuttingDown' = shuttingDown /\ next' = next
        BY <1>4 DEF Drain
      <4>2. native' \in SUBSET Generation /\ DOMAIN retired' \subseteq Generation
        BY <1>0, <3>2, <3>3 DEF TypeOK
      <4>3. /\ current' \in [id : 0 .. MaxGeneration, decoder : BOOLEAN, mapped : Nat]
            /\ inUse' \in Int /\ leases' \in [Generation -> Nat]
        BY <1>0, <2>1, <3>2 DEF TypeOK
      <4> QED
        BY <1>0, <2>1, <3>3, <4>1, <4>2, <4>3, UnchangedTyped
    <3>5. CountsExact'
      BY <2>1, <2>3, <3>1, <3>2, <3>3 DEF IInv, CountsExact
    <3>6. NativeBooked'
      BY <2>3, <3>1, <3>2, <3>3 DEF IInv, NativeBooked
    <3>7. RetiredSound' /\ CurrentSound' /\ ShutdownSound'
      <4>1. UNCHANGED <<worker, shuttingDown, next, current>>
        BY <1>4, <3>2 DEF Drain
      <4>2. retired[g] \in Nat /\ g \in DOMAIN retired
        BY <2>1, <3>1
      <4>3. RetiredSound'
        <5>1. SUFFICES ASSUME NEW h \in DOMAIN retired' PROVE h < next /\ retired'[h] > 0
          BY <4>1 DEF RetiredSound
        <5>2. h \in DOMAIN retired /\ h < next /\ retired[h] > 0
          BY <3>3, <5>1 DEF IInv, RetiredSound
        <5>3. CASE h = g
          <6>1. retired[g] > 1
            BY <3>3, <4>2, <5>1, <5>3
          <6> QED
            BY <3>3, <4>2, <5>1, <5>2, <5>3, <6>1
        <5> QED
          BY <3>3, <5>1, <5>2, <5>3
      <4>4. CurrentSound'
        BY <3>3, <4>1 DEF IInv, CurrentSound
      <4>5. ShutdownSound'
        BY <3>3, <4>1 DEF IInv, ShutdownSound
      <4> QED
        BY <4>3, <4>4, <4>5
    <3> QED
      BY <3>4, <3>5, <3>6, <3>7 DEF IInv
  <2> QED
    BY <2>2, <2>3
<1>5. CASE Drained
  <2>1. commands' \in Seq(Command) /\ Len(commands') <= CommandCapacity
    BY <1>5, <1>0 DEF Drained, TypeOK
  <2> QED
    BY <1>5, <2>1
       DEF Drained, IInv, TypeOK, CountsExact, Mapped, NativeBooked, CurrentSound, RetiredSound,
           ShutdownSound
<1>6. CASE Parse
  <2>1. commands' \in Seq(Command) /\ Len(commands') <= CommandCapacity
        /\ worker' = "drain" /\ UNCHANGED <<client, releases>>
    BY <1>6, <1>0, TakenKeeps DEF Parse, Command
  <2>2. CASE current = NoGeneration
    BY <1>6, <2>1, <2>2
       DEF Parse, IInv, TypeOK, CountsExact, Mapped, NativeBooked, CurrentSound, RetiredSound,
           ShutdownSound
  <2>3. CASE current # NoGeneration
    <3>1. PICK created \in {TRUE, current.decoder}, n \in 0 .. OutputSurfaces :
            /\ Respond([current EXCEPT !.decoder = created], n)
            /\ native' = IF created THEN native \cup {current.id} ELSE native
      BY <1>6, <2>3 DEF Parse
    <3> DEFINE g == [current EXCEPT !.decoder = created]
    <3>2. current.id \in Generation
      BY <1>0, <2>3 DEF IInv, TypeOK, CurrentSound, Generation
    <3>3. /\ g \in [id : Generation, decoder : BOOLEAN, mapped : Nat]
          /\ g.id = current.id /\ g.mapped = current.mapped /\ g.decoder = created
          /\ current.decoder => created
      BY <1>0, <3>2 DEF TypeOK
    <3>4. /\ current' \in [id : Generation, decoder : BOOLEAN, mapped : Nat]
          /\ current'.id = current.id /\ current'.decoder = created
          /\ current'.mapped = current.mapped + n
          /\ leases' \in [Generation -> Nat]
          /\ inUse' \in Int
          /\ Mapped(current.id)' = Mapped(current.id) + n
          /\ \A h \in Generation \ {current.id} : Mapped(h)' = Mapped(h)
      BY <1>0, <2>1, <3>1, <3>3, RespondKeeps DEF TypeOK
    <3>5. n > 0 => created
      BY <3>1, <3>3 DEF Respond
    <3>6. UNCHANGED <<shuttingDown, next, retired>> /\ ~shuttingDown
      BY <1>6 DEF Parse
    <3>7. TypeOK'
      BY <1>0, <2>1, <3>1, <3>2, <3>4, <3>6 DEF TypeOK, Generation
    <3>8. CountsExact'
      BY <3>2, <3>4, <3>6 DEF IInv, CountsExact
    <3>9. NativeBooked'
      BY <3>1, <3>2, <3>3, <3>4, <3>6 DEF IInv, NativeBooked
    <3>10. CurrentSound'
      <4>1. current'.id < next' /\ current'.id \notin DOMAIN retired'
        <5>1. current.id < next /\ current.id \notin DOMAIN retired
          BY DEF IInv, CurrentSound
        <5> QED
          BY <5>1, <3>4, <3>6
      <4>2. current'.id # 0
        BY <3>2, <3>4 DEF Generation
      <4>3. current'.mapped > 0 => current'.decoder
        <5>1. current.mapped > 0 => current.decoder
          BY DEF IInv, CurrentSound
        <5>2. current.mapped \in Nat /\ n \in Nat
          BY <1>0, SurfacesAssumption DEF TypeOK, SurfacesAssumption
        <5>3. CASE n > 0
          BY <5>3, <3>4, <3>5
        <5>4. CASE n = 0
          <6>1. current'.mapped = current.mapped
            BY <5>2, <5>4, <3>4
          <6> QED
            BY <5>1, <6>1, <3>3, <3>4
        <5> QED
          BY <5>2, <5>3, <5>4
      <4> QED
        BY <4>1, <4>2, <4>3 DEF CurrentSound
    <3>11. RetiredSound' /\ ShutdownSound'
      BY <2>1, <3>6 DEF IInv, RetiredSound, ShutdownSound
    <3> QED
      BY <3>7, <3>8, <3>9, <3>10, <3>11 DEF IInv
  <2> QED
    BY <2>2, <2>3
<1>7. CASE Reset
  <2>1. commands' \in Seq(Command) /\ Len(commands') <= CommandCapacity
        /\ worker' = "drain" /\ UNCHANGED <<client, releases>>
    BY <1>7, <1>0, TakenKeeps DEF Reset, Command
  <2>2. /\ next \in Generation /\ next' = next + 1 /\ next' \in 1 .. MaxGeneration + 1
        /\ retired' = RetiredAfter /\ ~shuttingDown /\ shuttingDown' = shuttingDown
    BY <1>7, <1>0 DEF Reset, TypeOK, Generation
  <2>3. /\ retired' \in [DOMAIN retired' -> Nat]
        /\ DOMAIN retired' \subseteq Generation
        /\ next \notin DOMAIN retired' /\ 0 \notin DOMAIN retired'
        /\ RetiredSound'
        /\ \A g \in Generation : Mapped(g) = IF g \in DOMAIN retired' THEN retired'[g] ELSE 0
        /\ NativeAfter = {g \in Generation : g \in DOMAIN retired'}
    <3>1. \A g \in DOMAIN RetiredAfter : g \in Generation /\ g < next /\ RetiredAfter[g] > 0
      BY RetireKeeps
    <3>2. RetiredSound'
      BY <2>2, <3>1, <1>0 DEF RetiredSound, TypeOK, Generation
    <3>3. next \notin DOMAIN RetiredAfter /\ 0 \notin DOMAIN RetiredAfter
      BY <1>0, <3>1 DEF TypeOK, Generation
    <3> QED
      BY <2>2, <3>2, <3>3, RetireKeeps
  <2>4. CASE current' = NoGeneration /\ native' = NativeAfter /\ UNCHANGED <<inUse, leases>>
    <3>1. /\ current'.id = 0 /\ current'.mapped = 0 /\ ~current'.decoder
          /\ current' \in [id : 0 .. MaxGeneration, decoder : BOOLEAN, mapped : Nat]
      BY <2>4 DEF NoGeneration
    <3>2. \A g \in Generation : Mapped(g)' = Mapped(g)
      BY <2>1, <2>4 DEF Mapped
    <3>3. TypeOK'
      BY <1>0, <2>1, <2>2, <2>3, <2>4, <3>1 DEF TypeOK
    <3>4. CountsExact' /\ NativeBooked'
      BY <2>3, <2>4, <3>1, <3>2 DEF CountsExact, NativeBooked, Generation
    <3>5. CurrentSound' /\ ShutdownSound'
      BY <1>0, <2>1, <2>2, <2>3, <2>4, <3>1 DEF CurrentSound, ShutdownSound, TypeOK
    <3> QED
      BY <2>3, <3>3, <3>4, <3>5 DEF IInv
  <2>5. ASSUME NEW created \in BOOLEAN, NEW n \in 0 .. OutputSurfaces,
               Respond([id |-> next, decoder |-> created, mapped |-> 0], n),
               native' = NativeAfter \cup (IF created THEN {next} ELSE {})
        PROVE  IInv'
    <3> DEFINE g == [id |-> next, decoder |-> created, mapped |-> 0]
    <3>1. g \in [id : Generation, decoder : BOOLEAN, mapped : Nat]
          /\ g.id = next /\ g.decoder = created /\ g.mapped = 0
      BY <2>2
    <3>2. /\ current' \in [id : Generation, decoder : BOOLEAN, mapped : Nat]
          /\ current'.id = next /\ current'.decoder = created
          /\ current'.mapped = n
          /\ leases' \in [Generation -> Nat]
          /\ inUse' \in Int
          /\ \A h \in Generation : h = next => Mapped(h)' = Mapped(h) + n
          /\ \A h \in Generation \ {next} : Mapped(h)' = Mapped(h)
      <4>1. Respond(g, n) /\ leases \in [Generation -> Nat] /\ releases \in [Generation -> Nat]
            /\ inUse \in Int /\ UNCHANGED releases
        BY <1>0, <2>1, <2>5 DEF TypeOK
      <4>2. n \in Nat /\ 0 + n = n
        BY <1>0, <2>5
      <4> HIDE DEF g
      <4> QED
        BY <1>0, <3>1, <4>1, <4>2, RespondKeeps
    <3>3. n > 0 => created
      BY <2>5, <3>1 DEF Respond
    <3>4. TypeOK'
      <4>1. /\ current' \in [id : 0 .. MaxGeneration, decoder : BOOLEAN, mapped : Nat]
            /\ next' \in 1 .. MaxGeneration + 1
        BY <2>2, <3>2 DEF Generation
      <4>2. /\ DOMAIN retired' \subseteq Generation /\ retired' \in [DOMAIN retired' -> Nat]
            /\ NativeAfter \subseteq Generation
        BY <2>3
      <4>3. native' \in SUBSET Generation
        BY <2>2, <2>5, <4>2
      <4>4. client' \in {"open", "gone"} /\ shuttingDown' \in BOOLEAN
            /\ releases' \in [Generation -> Nat]
        BY <1>0, <2>1, <2>2 DEF TypeOK
      <4> QED
        BY <2>1, <3>2, <4>1, <4>2, <4>3, <4>4 DEF TypeOK
    <3>5. CountsExact'
      <4>1. SUFFICES ASSUME NEW h \in Generation
            PROVE  Mapped(h)' = IF h = current'.id THEN current'.mapped
                                ELSE IF h \in DOMAIN retired' THEN retired'[h] ELSE 0
        BY DEF CountsExact
      <4>2. CASE h = next
        <5>1. Mapped(next) = 0
          BY <2>2, <2>3
        <5>2. n \in Nat /\ 0 + n = n
          BY <1>0, <2>5
        <5> QED
          BY <3>2, <4>2, <5>1, <5>2
      <4>3. CASE h # next
        BY <2>3, <3>2, <4>1, <4>3
      <4> QED
        BY <4>2, <4>3
    <3>6. NativeBooked'
      BY <2>2, <2>3, <2>5, <3>2 DEF NativeBooked
    <3>7. CurrentSound'
      <4>1. current'.id = next /\ current'.id # 0 /\ next < next'
        BY <2>2, <3>2 DEF Generation
      <4>2. current'.mapped > 0 => current'.decoder
        BY <3>2, <3>3
      <4> QED
        BY <2>3, <4>1, <4>2 DEF CurrentSound
    <3>8. ShutdownSound'
      BY <2>1, <2>2 DEF ShutdownSound
    <3> QED
      BY <2>3, <3>4, <3>5, <3>6, <3>7, <3>8 DEF IInv
  <2> QED
    BY <1>7, <2>4, <2>5 DEF Reset
<1>9. ASSUME StartShutdown, commands' \in Seq(Command), Len(commands') <= CommandCapacity,
             worker' = "drain", UNCHANGED <<client, releases, next, inUse, leases>>
      PROVE  IInv'
  <2>1. CASE shuttingDown
    BY <1>9, <2>1
       DEF StartShutdown, IInv, TypeOK, CountsExact, Mapped, NativeBooked, CurrentSound,
           RetiredSound, ShutdownSound
  <2>2. CASE ~shuttingDown
    <3>1. current' = NoGeneration /\ retired' = RetiredAfter /\ native' = NativeAfter
          /\ shuttingDown' = TRUE
      BY <1>9, <2>2 DEF StartShutdown
    <3>2. /\ current'.id = 0 /\ current'.mapped = 0 /\ ~current'.decoder
          /\ current' \in [id : 0 .. MaxGeneration, decoder : BOOLEAN, mapped : Nat]
      BY <3>1 DEF NoGeneration
    <3>3. \A g \in Generation : Mapped(g)' = Mapped(g)
      BY <1>9 DEF Mapped
    <3>4. /\ retired' \in [DOMAIN retired' -> Nat]
          /\ DOMAIN retired' \subseteq Generation
          /\ 0 \notin DOMAIN retired'
          /\ \A g \in DOMAIN retired' : g < next /\ retired'[g] > 0
          /\ \A g \in Generation : Mapped(g) = IF g \in DOMAIN retired' THEN retired'[g] ELSE 0
          /\ native' = {g \in Generation : g \in DOMAIN retired'}
      BY <3>1, RetireKeeps DEF Generation
    <3>5. TypeOK'
      BY <1>0, <1>9, <3>1, <3>2, <3>4 DEF TypeOK
    <3>6. CountsExact' /\ NativeBooked'
      BY <3>2, <3>3, <3>4 DEF CountsExact, NativeBooked, Generation
    <3>7. CurrentSound' /\ RetiredSound' /\ ShutdownSound'
      BY <1>0, <1>9, <3>1, <3>2, <3>4 DEF CurrentSound, RetiredSound, ShutdownSound, TypeOK
    <3> QED
      BY <3>5, <3>6, <3>7 DEF IInv
  <2> QED
    BY <2>1, <2>2
<1>10. CASE Shutdown
  <2>1. commands' \in Seq(Command) /\ Len(commands') <= CommandCapacity
        /\ worker' = "drain" /\ UNCHANGED <<client, releases>>
    BY <1>10, <1>0, TakenKeeps DEF Shutdown, Command
  <2> QED
    BY <1>10, <2>1, <1>9 DEF Shutdown
<1>11. CASE Idle
  <2>1. CASE client = "gone"
    BY <1>11, <2>1, <1>9, <1>0 DEF Idle, TypeOK
  <2>2. CASE client # "gone"
    BY <1>11, <2>2
       DEF Idle, IInv, TypeOK, CountsExact, Mapped, NativeBooked, CurrentSound, RetiredSound,
           ShutdownSound
  <2> QED
    BY <2>1, <2>2
<1>12. CASE UNCHANGED vars
  BY <1>12
     DEF vars, IInv, TypeOK, CountsExact, Mapped, NativeBooked, CurrentSound, RetiredSound,
         ShutdownSound
<1> QED
  BY <1>1, <1>2, <1>3, <1>4, <1>5, <1>6, <1>7, <1>10, <1>11, <1>12
     DEF Next, Holders, Worker, Finished

-----------------------------------------------------------------------------
(* The bookkeeping of the worker is exact for every generation: no release  *)
(* is ever unknown and none is counted against another generation.           *)
THEOREM SurfacesCounted == Spec => []CountsExact
<1>1. IInv => CountsExact
  BY DEF IInv
<1> QED
  BY InitIInv, StepIInv, <1>1, PTL DEF Spec

(* No native decoder is destroyed while one of its surfaces is mapped.      *)
THEOREM DecoderSafe == Spec => []DecoderOutlivesSurfaces
<1>1. IInv => DecoderOutlivesSurfaces
  BY DEF IInv, CountsExact, NativeBooked, CurrentSound, DecoderOutlivesSurfaces, Generation
<1> QED
  BY InitIInv, StepIInv, <1>1, PTL DEF Spec

(* The worker thread leaves no mapped surface and no decoder behind.        *)
THEOREM ExitSafe == Spec => []ExitsClean
<1>1. IInv => ExitsClean
  BY DEF IInv, CountsExact, NativeBooked, ShutdownSound, NoGeneration, ExitsClean, Generation
<1> QED
  BY InitIInv, StepIInv, <1>1, PTL DEF Spec
=============================================================================
