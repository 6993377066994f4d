---------------------------- MODULE RestartProofs ----------------------------
(***************************************************************************)
(* Proofs about Restart for any flows, runs and costs and any number of    *)
(* boots: what a stop at any point leaves in the log, and what the next    *)
(* boot makes of it.                                                       *)
(***************************************************************************)
EXTENDS Restart, FiniteTheorems, FiniteSetTheorems, SequenceTheorems, TLAPS

----------------------------------------------------------------------------
(* The probe's first verdict is the one that stays: until it is in, nothing *)
(* is published, and nothing that comes after it is.                       *)

AuthInv ==
  /\ ProbeTypeOK
  /\ probe # "settled" => first = "none" /\ cached = "none"
  /\ probe = "settled" => cached = first
  /\ live # {} \/ prompting # {} \/ lost # {} => first = "ok"

LEMMA InitAuth == Init => AuthInv
BY DEF Init, ProbeInit, AuthInv, ProbeTypeOK

LEMMA ProbeAuth ==
  ASSUME AuthInv, Preflight \/ Probe
  PROVE  AuthInv'
<1> USE DEF AuthInv, ProbeTypeOK, engineVars, runVars
<1>1. CASE Preflight
  BY <1>1 DEF Preflight, StartProbe, Settle
<1>2. ASSUME NEW line \in Lines, Probe, Output(line) PROVE AuthInv'
  BY <1>2 DEF Probe, Output, FoldLine
<1>3. ASSUME NEW exit \in {"zero", "code", "signal"}, NEW tail \in Lines,
             Probe, Exit(exit, tail)
      PROVE  AuthInv'
  <2>1. Verdict(FoldLine(tail), exit) \in {"ok", "failed"}
    BY DEF Verdict
  <2>. QED BY <1>3, <2>1 DEF Probe, Exit, Settle
<1>4. CASE Probe /\ (ChildError \/ GiveUp)
  BY <1>4 DEF Probe, ChildError, GiveUp, Settle
<1>. QED BY <1>1, <1>2, <1>3, <1>4 DEF Probe, ProbeNext

LEMMA AuthStep ==
  ASSUME AuthInv, [Next]_vars
  PROVE  AuthInv'
<1> USE DEF AuthInv, ProbeTypeOK, probeVars, runVars
<1>1. CASE Flush \/ Build \/ LoadFlows \/ RecoverOrphans \/ Serve \/ DryRun
  BY <1>1 DEF Flush, Build, LoadFlows, RecoverOrphans, Serve, DryRun
<1>2. ASSUME NEW f \in Flows,
             \/ StartCycle(f) \/ Rearm(f) \/ RefuseBarrier(f)
             \/ \E s \in {"ocioso", "aguardando"} : EndCycle(f, s)
      PROVE  AuthInv'
  BY <1>2 DEF StartCycle, Rearm, RefuseBarrier, Reject, EndCycle
<1>3. ASSUME NEW f \in Flows, NEW r \in Runs, NEW c \in 1 .. MaxCycle,
             RequestSpawn(r, f, c)
      PROVE  AuthInv'
  BY <1>3 DEF RequestSpawn, Ready
<1>4. ASSUME NEW l \in prompting, StartRun(l) \/ LoseLease(l) PROVE AuthInv'
  BY <1>4 DEF StartRun, LoseLease, Reject
<1>5. ASSUME NEW r \in Runs, FinishRun(r) PROVE AuthInv'
  BY <1>5 DEF FinishRun
<1>6. CASE DryRunEnds \/ Stop
  BY <1>6 DEF DryRunEnds, Stop, Halt
<1>7. CASE UNCHANGED vars
  BY <1>7 DEF vars, engineVars
<1>. QED BY <1>1, <1>2, <1>3, <1>4, <1>5, <1>6, <1>7, ProbeAuth DEF Next

(* auth.ts: no lease is granted in a boot whose probe failed first, whatever the   *)
(* output, the exit, the timer and the abort signal do to each other.      *)
THEOREM RestartSpawnsAreAuthed == RestartSpec => []SpawnsAreAuthed
<1>1. AuthInv => SpawnsAreAuthed
  BY DEF AuthInv, SpawnsAreAuthed
<1>. QED BY InitAuth, AuthStep, <1>1, PTL DEF RestartSpec

----------------------------------------------------------------------------
(* What the log holds, and what appending to it does. *)

Event ==
  [type : {"flow.upserted"}, flow : Flows, state : {"ocioso"}]
    \cup [type : {"flow.stateChanged"}, flow : Flows,
          state : {"ocioso", "rodando", "aguardando"}]
    \cup [type : {"cycle.started", "cycle.ended"}, flow : Flows, cycle : Nat]
    \cup [type : {"run.started"}, run : Runs, flow : Flows, cycle : Nat]
    \cup [type : {"run.token"}, run : Runs, cost : Nat]
    \cup [type : {"run.finished"}, run : Runs]

LEMMA EventFacts ==
  ASSUME NEW e \in Event
  PROVE  /\ e.type \in FlowEvents => e.flow \in Flows
         /\ e.type \in CycleEvents => e.cycle \in Nat
         /\ e.type \in {"run.started", "run.finished"} => e.run \in Runs
         /\ e.type = "run.started" => e.flow \in Flows
BY DEF Event, FlowEvents, CycleEvents

LEMMA PlaceMax ==
  ASSUME NEW l \in Seq(Event), NEW I \in SUBSET (DOMAIN l), I # {}
  PROVE  Max(I) \in I /\ \A i \in I : Max(I) >= i
BY LargestPlace

LEMMA Concat ==
  ASSUME NEW l \in Seq(Event), NEW o \in Seq(Event)
  PROVE  /\ l \o o \in Seq(Event)
         /\ Len(l) \in Nat /\ DOMAIN l = 1 .. Len(l)
         /\ Len(o) \in Nat /\ DOMAIN o = 1 .. Len(o)
         /\ \A i \in DOMAIN l : i \in DOMAIN (l \o o) /\ (l \o o)[i] = l[i]
         /\ \A k \in DOMAIN o : /\ Len(l) + k \in DOMAIN (l \o o)
                                /\ (l \o o)[Len(l) + k] = o[k]
         /\ \A i \in DOMAIN (l \o o) :
              i \in DOMAIN l \/ \E k \in DOMAIN o : i = Len(l) + k
BY Concatenation

(* Cycle numbers. *)

CyclesRise(l) ==
  \A i, j \in DOMAIN l :
    /\ i < j /\ l[i].type = "cycle.started" /\ l[j].type = "cycle.started"
    /\ l[i].flow = l[j].flow
    => l[i].cycle < l[j].cycle

LEMMA CounterFacts ==
  ASSUME NEW l \in Seq(Event), NEW f
  PROVE  /\ CycleCounter(l, f) \in Nat
         /\ \A i \in DOMAIN l :
              l[i].type \in CycleEvents /\ l[i].flow = f
                => l[i].cycle <= CycleCounter(l, f)
<1> DEFINE I == Places(l, f, CycleEvents)
           C == {l[i].cycle : i \in I}
<1>1. IsFiniteSet(I)
  <2>1. DOMAIN l = 1 .. Len(l) /\ Len(l) \in Nat
    BY LenProperties
  <2>2. IsFiniteSet(1 .. Len(l))
    BY <2>1, FS_Interval
  <2>3. I \in SUBSET (1 .. Len(l))
    BY <2>1 DEF Places
  <2>. QED BY <2>2, <2>3, FS_Subset
<1>2. \A i \in I : l[i] \in Event /\ l[i].type \in CycleEvents
  BY LenProperties DEF Places
<1>3. C \subseteq Nat
  BY <1>2, EventFacts
<1>4. IsFiniteSet(C)
  <2>1. [i \in I |-> l[i].cycle] \in Surjection(I, C)
    BY DEF Surjection
  <2>. QED BY <1>1, <2>1, FS_Surjection
<1>5. IsFiniteSet({0} \cup C)
  BY <1>4, FS_Singleton, FS_Union
<1>6. Max({0} \cup C) \in Nat /\ \A x \in {0} \cup C : Max({0} \cup C) >= x
  <2>1. {0} \cup C \in SUBSET Nat /\ {0} \cup C # {}
    BY <1>3
  <2> HIDE DEF C
  <2>2. Max({0} \cup C) \in {0} \cup C
        /\ \A x \in {0} \cup C : Max({0} \cup C) >= x
    BY <1>5, <2>1, MaxFacts
  <2>. QED BY <2>1, <2>2
<1>7. \A i \in DOMAIN l : l[i].type \in CycleEvents /\ l[i].flow = f
                            => l[i].cycle \in C
  BY DEF Places
<1>8. CycleCounter(l, f) = Max({0} \cup C)
  BY DEF CycleCounter
<1> HIDE DEF C
<1>9. \A x \in C : x <= Max({0} \cup C)
  BY <1>3, <1>6
<1>. QED BY <1>6, <1>7, <1>8, <1>9

(* An append of at most one new cycle, numbered above the counter. *)
LEMMA CyclesConcat ==
  ASSUME NEW l \in Seq(Event), NEW o \in Seq(Event), CyclesRise(l),
         \A k, m \in DOMAIN o :
           o[k].type = "cycle.started" /\ o[m].type = "cycle.started" => k = m,
         \A k \in DOMAIN o :
           o[k].type = "cycle.started" => o[k].cycle > CycleCounter(l, o[k].flow)
  PROVE  CyclesRise(l \o o)
<1> DEFINE L == l \o o
<1> SUFFICES ASSUME NEW i \in DOMAIN L, NEW j \in DOMAIN L, i < j,
                    L[i].type = "cycle.started", L[j].type = "cycle.started",
                    L[i].flow = L[j].flow
             PROVE  L[i].cycle < L[j].cycle
  BY DEF CyclesRise
<1>0. /\ Len(l) \in Nat /\ DOMAIN l = 1 .. Len(l) /\ DOMAIN o = 1 .. Len(o)
      /\ Len(o) \in Nat
  BY Concat
<1>1. \A n \in DOMAIN l : L[n] = l[n]
  BY Concat
<1>2. \A k \in DOMAIN o : L[Len(l) + k] = o[k]
  BY Concat
<1>3. \A n \in DOMAIN L : n \in DOMAIN l \/ \E k \in DOMAIN o : n = Len(l) + k
  BY Concat
<1> HIDE DEF L
<1>4. CASE j \in DOMAIN l
  <2>1. i \in DOMAIN l
    BY <1>0, <1>3, <1>4
  <2>. QED BY <1>1, <1>4, <2>1 DEF CyclesRise
<1>5. ASSUME NEW k \in DOMAIN o, j = Len(l) + k PROVE L[i].cycle < L[j].cycle
  <2>1. L[j] = o[k]
    BY <1>2, <1>5
  <2>2. CASE i \in DOMAIN l
    <3>1. L[i] = l[i] /\ l[i] \in Event
      BY <1>1, <2>2, LenProperties
    <3>2. l[i].cycle \in Nat
      BY <1>1, <2>2, <3>1, EventFacts DEF CycleEvents
    <3>3. l[i].cycle <= CycleCounter(l, o[k].flow)
      BY <2>1, <2>2, <3>1, CounterFacts DEF CycleEvents
    <3>4. o[k].cycle > CycleCounter(l, o[k].flow) /\ o[k] \in Event
      BY <2>1, LenProperties
    <3>5. o[k].cycle \in Nat
      BY <2>1, <3>4, EventFacts DEF CycleEvents
    <3>6. CycleCounter(l, o[k].flow) \in Nat
      BY CounterFacts
    <3>. QED BY <2>1, <3>1, <3>2, <3>3, <3>4, <3>5, <3>6
  <2>3. ASSUME NEW m \in DOMAIN o, i = Len(l) + m PROVE FALSE
    <3>1. L[i] = o[m]
      BY <1>2, <2>3
    <3>2. k = m
      BY <2>1, <3>1
    <3>. QED BY <1>0, <1>5, <2>3, <3>2
  <2>. QED BY <1>3, <2>2, <2>3
<1>. QED BY <1>3, <1>4, <1>5

LEMMA CyclesPrefix ==
  ASSUME NEW l \in Seq(Event), NEW o \in Seq(Event), CyclesRise(l \o o)
  PROVE  CyclesRise(l)
<1>1. \A i \in DOMAIN l : i \in DOMAIN (l \o o) /\ (l \o o)[i] = l[i]
  BY Concat
<1>. QED BY <1>1 DEF CyclesRise

(* Runs: what has no event of the run's in it leaves the run as it is. *)

Open(l) == {r \in Runs : Started(l, r) /\ ~ Finished(l, r)}

LEMMA RunPlacesConcat ==
  ASSUME NEW l \in Seq(Event), NEW o \in Seq(Event), NEW r, NEW type
  PROVE  /\ RunPlaces(l, r, type) \subseteq RunPlaces(l \o o, r, type)
         /\ RunPlaces(l \o o, r, type) \subseteq
              RunPlaces(l, r, type) \cup {Len(l) + k : k \in RunPlaces(o, r, type)}
         /\ \A k \in RunPlaces(o, r, type) : Len(l) + k \in RunPlaces(l \o o, r, type)
         /\ RunPlaces(o, r, type) = {} => RunPlaces(l \o o, r, type) = RunPlaces(l, r, type)
<1>1. \A i \in DOMAIN l : i \in DOMAIN (l \o o) /\ (l \o o)[i] = l[i]
  BY Concat
<1>2. \A k \in DOMAIN o : /\ Len(l) + k \in DOMAIN (l \o o)
                          /\ (l \o o)[Len(l) + k] = o[k]
  BY Concat
<1>3. \A i \in DOMAIN (l \o o) :
        i \in DOMAIN l \/ \E k \in DOMAIN o : i = Len(l) + k
  BY Concat
<1>4. RunPlaces(l, r, type) \subseteq RunPlaces(l \o o, r, type)
  BY <1>1 DEF RunPlaces
<1>5. \A i \in RunPlaces(l \o o, r, type) :
        \/ i \in RunPlaces(l, r, type)
        \/ \E k \in RunPlaces(o, r, type) : i = Len(l) + k
  BY <1>1, <1>2, <1>3 DEF RunPlaces
<1>6. \A k \in RunPlaces(o, r, type) : Len(l) + k \in RunPlaces(l \o o, r, type)
  BY <1>2 DEF RunPlaces
<1>. QED BY <1>4, <1>5, <1>6

LEMMA RunFrame ==
  ASSUME NEW l \in Seq(Event), NEW o \in Seq(Event), NEW r,
         RunPlaces(o, r, "run.started") = {},
         RunPlaces(o, r, "run.finished") = {}
  PROVE  /\ Started(l \o o, r) <=> Started(l, r)
         /\ Finished(l \o o, r) <=> Finished(l, r)
<1>1. /\ RunPlaces(l \o o, r, "run.started") = RunPlaces(l, r, "run.started")
      /\ RunPlaces(l \o o, r, "run.finished") = RunPlaces(l, r, "run.finished")
  BY RunPlacesConcat
<1>. QED BY <1>1 DEF Started, Finished

LEMMA RunOpens ==
  ASSUME NEW l \in Seq(Event), NEW o \in Seq(Event), NEW r, ~ Started(l, r),
         RunPlaces(o, r, "run.started") # {},
         RunPlaces(o, r, "run.finished") = {}
  PROVE  Started(l \o o, r) /\ ~ Finished(l \o o, r)
<1> DEFINE S == RunPlaces(l \o o, r, "run.started")
           F == RunPlaces(l \o o, r, "run.finished")
<1>1. Started(l \o o, r)
  BY RunPlacesConcat DEF Started
<1>2. S \subseteq {Len(l) + k : k \in DOMAIN o} /\ F \subseteq DOMAIN l
  <2>1. F = RunPlaces(l, r, "run.finished")
    BY RunPlacesConcat
  <2>2. S \subseteq {Len(l) + k : k \in RunPlaces(o, r, "run.started")}
    BY RunPlacesConcat DEF Started
  <2> HIDE DEF S, F
  <2>. QED BY <2>1, <2>2 DEF RunPlaces
<1>3. Max(S) \in S
  <2>1. l \o o \in Seq(Event) /\ S # {} /\ S \in SUBSET (DOMAIN (l \o o))
    BY <1>1, Concat DEF Started, RunPlaces
  <2>. QED BY <2>1, PlaceMax
<1>4. \A i \in F : ~ (i > Max(S))
  BY <1>2, <1>3, Concat
<1>. QED BY <1>1, <1>4 DEF Finished

(* The start is in the log: an end that is appended comes after it. *)
LEMMA RunEnds ==
  ASSUME NEW l \in Seq(Event), NEW o \in Seq(Event), NEW r,
         RunPlaces(o, r, "run.started") = {},
         Started(l, r),
         Finished(l, r) \/ RunPlaces(o, r, "run.finished") # {}
  PROVE  Started(l \o o, r) /\ Finished(l \o o, r)
<1> DEFINE S == RunPlaces(l, r, "run.started")
<1>1. RunPlaces(l \o o, r, "run.started") = S
  BY RunPlacesConcat
<1>2. Max(S) \in DOMAIN l
  <2>1. S # {} /\ S \in SUBSET (DOMAIN l)
    BY DEF Started, RunPlaces
  <2>. QED BY <2>1, PlaceMax
<1>3. CASE Finished(l, r)
  <2>1. PICK i \in RunPlaces(l, r, "run.finished") : i > Max(S)
    BY <1>3 DEF Finished
  <2>2. i \in RunPlaces(l \o o, r, "run.finished")
    BY RunPlacesConcat
  <2>. QED BY <1>1, <2>1, <2>2 DEF Started, Finished
<1>4. ASSUME NEW k \in RunPlaces(o, r, "run.finished")
      PROVE  Started(l \o o, r) /\ Finished(l \o o, r)
  <2>1. Len(l) + k \in RunPlaces(l \o o, r, "run.finished")
    BY RunPlacesConcat
  <2>2. Len(l) + k > Max(S)
    BY <1>2, Concat DEF RunPlaces
  <2>. QED BY <1>1, <2>1, <2>2 DEF Started, Finished
<1>. QED BY <1>3, <1>4

(* A flow's state is the last one told of it. *)

Told == {"flow.upserted", "flow.stateChanged"}

LEMMA PlacesConcat ==
  ASSUME NEW l \in Seq(Event), NEW o \in Seq(Event), NEW f, NEW types
  PROVE  /\ Places(l, f, types) \subseteq Places(l \o o, f, types)
         /\ Places(l \o o, f, types) \subseteq
              Places(l, f, types) \cup {Len(l) + k : k \in Places(o, f, types)}
         /\ \A k \in Places(o, f, types) : Len(l) + k \in Places(l \o o, f, types)
         /\ Places(o, f, types) = {} => Places(l \o o, f, types) = Places(l, f, types)
<1>1. \A i \in DOMAIN l : i \in DOMAIN (l \o o) /\ (l \o o)[i] = l[i]
  BY Concat
<1>2. \A k \in DOMAIN o : /\ Len(l) + k \in DOMAIN (l \o o)
                          /\ (l \o o)[Len(l) + k] = o[k]
  BY Concat
<1>3. \A i \in DOMAIN (l \o o) :
        i \in DOMAIN l \/ \E k \in DOMAIN o : i = Len(l) + k
  BY Concat
<1>4. Places(l, f, types) \subseteq Places(l \o o, f, types)
  BY <1>1 DEF Places
<1>5. \A i \in Places(l \o o, f, types) :
        \/ i \in Places(l, f, types)
        \/ \E k \in Places(o, f, types) : i = Len(l) + k
  BY <1>1, <1>2, <1>3 DEF Places
<1>6. \A k \in Places(o, f, types) : Len(l) + k \in Places(l \o o, f, types)
  BY <1>2 DEF Places
<1>. QED BY <1>4, <1>5, <1>6

LEMMA StateFrame ==
  ASSUME NEW l \in Seq(Event), NEW o \in Seq(Event), NEW f, Places(o, f, Told) = {}
  PROVE  FlowState(l \o o, f) = FlowState(l, f)
<1> DEFINE I == Places(l, f, Told)
<1>1. Places(l \o o, f, Told) = I
  BY PlacesConcat
<1>2. I # {} => Max(I) \in DOMAIN l
  BY PlaceMax DEF Places
<1>3. I # {} => (l \o o)[Max(I)] = l[Max(I)]
  BY <1>2, Concat
<1>. QED BY <1>1, <1>3 DEF FlowState, Told

LEMMA StateTold ==
  ASSUME NEW l \in Seq(Event), NEW o \in Seq(Event), NEW f, NEW s,
         Places(o, f, Told) # {}, \A k \in Places(o, f, Told) : o[k].state = s
  PROVE  FlowState(l \o o, f) = s
<1> DEFINE I == Places(l \o o, f, Told)
<1>1. PICK k \in Places(o, f, Told) : TRUE
  OBVIOUS
<1>2. Len(l) + k \in I
  BY PlacesConcat
<1>3. Max(I) \in I /\ Max(I) >= Len(l) + k
  <2>1. l \o o \in Seq(Event) /\ I \in SUBSET (DOMAIN (l \o o))
    BY Concat DEF Places
  <2>. QED BY <1>2, <2>1, PlaceMax
<1>4. Max(I) \notin DOMAIN l
  <2>1. /\ Len(l) \in Nat /\ DOMAIN l = 1 .. Len(l)
        /\ Len(o) \in Nat /\ DOMAIN o = 1 .. Len(o)
    BY Concat
  <2>2. k \in DOMAIN o
    BY DEF Places
  <2> HIDE DEF I
  <2>. QED BY <1>3, <2>1, <2>2
<1>5. PICK m \in Places(o, f, Told) : Max(I) = Len(l) + m
  <2>1. Max(I) \notin Places(l, f, Told)
    BY <1>4 DEF Places
  <2>. QED BY <1>3, <2>1, PlacesConcat
<1>6. (l \o o)[Max(I)] = o[m] /\ o[m].state = s
  <2>1. m \in DOMAIN o
    BY DEF Places
  <2>2. (l \o o)[Len(l) + m] = o[m]
    BY <2>1, Concat
  <2>. QED BY <1>5, <2>2
<1>. QED BY <1>2, <1>6 DEF FlowState, Told

----------------------------------------------------------------------------
(* What each handler appends: to the cycle numbers, to the open runs, and   *)
(* to what the flows are told to be.                                       *)

States == {"ocioso", "rodando", "aguardando"}

LEMMA Tuples ==
  ASSUME NEW a \in Event, NEW b \in Event, NEW c \in Event
  PROVE  /\ <<a>> \in Seq(Event)
         /\ <<a, b>> \in Seq(Event)
         /\ <<a, b, c>> \in Seq(Event)
OBVIOUS

LEMMA Pair ==
  ASSUME NEW a \in Event, NEW b \in Event
  PROVE  <<a>> \o <<b>> = <<a, b>>
<1>1. <<a>> \in Seq(Event) /\ <<b>> \in Seq(Event) /\ <<a, b>> \in Seq(Event)
  BY Tuples
<1>2. Len(<<a>>) = 1 /\ Len(<<b>>) = 1 /\ Len(<<a, b>>) = 2
  OBVIOUS
<1>3. /\ <<a>> \o <<b>> \in Seq(Event) /\ Len(<<a>> \o <<b>>) = 2
      /\ \A i \in 1 .. 2 : (<<a>> \o <<b>>)[i] =
           IF i <= 1 THEN <<a>>[i] ELSE <<b>>[i - 1]
  BY <1>1, <1>2, ConcatProperties
<1>4. \A i \in 1 .. 2 : (<<a>> \o <<b>>)[i] = <<a, b>>[i]
  BY <1>3
<1>. QED BY <1>1, <1>2, <1>3, <1>4, SeqEqual

(* Neither a cycle starts nor a run starts or ends in it. *)
LEMMA OpenFrame ==
  ASSUME NEW l \in Seq(Event), NEW o \in Seq(Event),
         \A k \in DOMAIN o : o[k].type \notin {"run.started", "run.finished"}
  PROVE  Open(l \o o) = Open(l)
<1>1. \A r : /\ RunPlaces(o, r, "run.started") = {}
             /\ RunPlaces(o, r, "run.finished") = {}
  BY DEF RunPlaces
<1>2. \A r : /\ Started(l \o o, r) <=> Started(l, r)
             /\ Finished(l \o o, r) <=> Finished(l, r)
  BY <1>1, RunFrame
<1>. QED BY <1>2 DEF Open

(* The events of a cycle: its start, its end, or both, and then the state.  *)
LEMMA CycleAppend ==
  ASSUME NEW l \in Seq(Event), CyclesRise(l), NEW f \in Flows, NEW s \in States,
         NEW d \in Nat, NEW c \in Nat, c > CycleCounter(l, f),
         NEW o, o \in {<<CycleStarted(f, c), StateChanged(f, s)>>,
                       <<CycleEnded(f, d), StateChanged(f, s)>>,
                       <<CycleEnded(f, d), CycleStarted(f, c), StateChanged(f, s)>>}
  PROVE  /\ o \in Seq(Event)
         /\ CyclesRise(l \o o)
         /\ Open(l \o o) = Open(l)
         /\ FlowState(l \o o, f) = s
         /\ \A g : g # f => FlowState(l \o o, g) = FlowState(l, g)
<1>1. o \in Seq(Event)
  <2>1. /\ CycleStarted(f, c) \in Event /\ CycleEnded(f, d) \in Event
        /\ StateChanged(f, s) \in Event
    BY DEF Event, CycleStarted, CycleEnded, StateChanged, States
  <2>. QED BY <2>1, Tuples
<1>2. \A k \in DOMAIN o : o[k] \in {CycleStarted(f, c), CycleEnded(f, d),
                                    StateChanged(f, s)}
  OBVIOUS
<1>3. \A k, m \in DOMAIN o :
        o[k].type = "cycle.started" /\ o[m].type = "cycle.started" => k = m
  BY DEF CycleStarted, CycleEnded, StateChanged
<1>4. \A k \in DOMAIN o : o[k].type = "cycle.started" =>
                            o[k].flow = f /\ o[k].cycle = c
  BY <1>2 DEF CycleStarted, CycleEnded, StateChanged
<1>5. CyclesRise(l \o o)
  BY <1>1, <1>3, <1>4, CyclesConcat
<1>6. Open(l \o o) = Open(l)
  BY <1>1, <1>2, OpenFrame, SMTT(30) DEF CycleStarted, CycleEnded, StateChanged
<1>7. FlowState(l \o o, f) = s
  <2>1. \E k \in DOMAIN o : o[k] = StateChanged(f, s)
    OBVIOUS
  <2>2. Places(o, f, Told) # {}
    BY <2>1 DEF Places, Told, StateChanged
  <2>3. \A k \in Places(o, f, Told) : o[k].state = s
    BY <1>2 DEF Places, Told, CycleStarted, CycleEnded, StateChanged
  <2>. QED BY <1>1, <2>2, <2>3, StateTold
<1>8. ASSUME NEW g, g # f PROVE FlowState(l \o o, g) = FlowState(l, g)
  <2>1. Places(o, g, Told) = {}
    BY <1>2, <1>8 DEF Places, Told, CycleStarted, CycleEnded, StateChanged
  <2>. QED BY <1>1, <2>1, StateFrame
<1>. QED BY <1>1, <1>5, <1>6, <1>7, <1>8

LEMMA StartAppend ==
  ASSUME NEW l \in Seq(Event), CyclesRise(l), NEW f \in Flows, NEW c \in Nat,
         NEW r \in Runs, ~ Started(l, r),
         NEW o, o \in {<<RunStarted(r, f, c)>>}
  PROVE  /\ o \in Seq(Event)
         /\ CyclesRise(l \o o)
         /\ Open(l \o o) = Open(l) \cup {r}
         /\ \A g : FlowState(l \o o, g) = FlowState(l, g)
<1>1. o \in Seq(Event)
  <2>1. RunStarted(r, f, c) \in Event
    BY DEF Event, RunStarted
  <2>. QED BY <2>1, Tuples
<1>2. \A k \in DOMAIN o : o[k] = RunStarted(r, f, c)
  OBVIOUS
<1>3. CyclesRise(l \o o)
  <2>1. \A k \in DOMAIN o : o[k].type # "cycle.started"
    BY <1>2 DEF RunStarted
  <2>. QED BY <1>1, <2>1, CyclesConcat
<1>4. Started(l \o o, r) /\ ~ Finished(l \o o, r)
  <2>1. 1 \in RunPlaces(o, r, "run.started")
    BY DEF RunPlaces, RunStarted
  <2>2. RunPlaces(o, r, "run.finished") = {}
    BY <1>2 DEF RunPlaces, RunStarted
  <2>. QED BY <1>1, <2>1, <2>2, RunOpens
<1>5. ASSUME NEW x, x # r
      PROVE  /\ Started(l \o o, x) <=> Started(l, x)
             /\ Finished(l \o o, x) <=> Finished(l, x)
  <2>1. /\ RunPlaces(o, x, "run.started") = {}
        /\ RunPlaces(o, x, "run.finished") = {}
    BY <1>2, <1>5 DEF RunPlaces, RunStarted
  <2>. QED BY <1>1, <2>1, RunFrame
<1>6. Open(l \o o) = Open(l) \cup {r}
  BY <1>4, <1>5 DEF Open
<1>7. \A g : Places(o, g, Told) = {}
  BY <1>2 DEF Places, Told, RunStarted
<1>8. \A g : FlowState(l \o o, g) = FlowState(l, g)
  BY <1>1, <1>7, StateFrame
<1>. QED BY <1>1, <1>3, <1>6, <1>8

LEMMA FinishAppend ==
  ASSUME NEW l \in Seq(Event), CyclesRise(l), NEW cost \in Nat,
         NEW r \in Runs, Started(l, r),
         NEW o, o \in {<<RunFinished(r)>>, <<RunToken(r, cost), RunFinished(r)>>}
  PROVE  /\ o \in Seq(Event)
         /\ CyclesRise(l \o o)
         /\ Open(l \o o) = Open(l) \ {r}
         /\ \A g : FlowState(l \o o, g) = FlowState(l, g)
<1>1. o \in Seq(Event)
  <2>1. RunFinished(r) \in Event /\ RunToken(r, cost) \in Event
    BY DEF Event, RunFinished, RunToken
  <2>. QED BY <2>1, Tuples
<1>2. \A k \in DOMAIN o : o[k] \in {RunFinished(r), RunToken(r, cost)}
  OBVIOUS
<1>3. CyclesRise(l \o o)
  <2>1. \A k \in DOMAIN o : o[k].type # "cycle.started"
    BY <1>2 DEF RunFinished, RunToken
  <2>. QED BY <1>1, <2>1, CyclesConcat
<1>4. Finished(l \o o, r)
  <2>1. \E k \in DOMAIN o : o[k] = RunFinished(r)
    OBVIOUS
  <2>2. RunPlaces(o, r, "run.finished") # {}
    BY <2>1 DEF RunPlaces, RunFinished
  <2>3. RunPlaces(o, r, "run.started") = {}
    BY <1>2 DEF RunPlaces, RunFinished, RunToken
  <2>. QED BY <1>1, <2>2, <2>3, RunEnds
<1>5. ASSUME NEW x, x # r
      PROVE  /\ Started(l \o o, x) <=> Started(l, x)
             /\ Finished(l \o o, x) <=> Finished(l, x)
  <2>1. /\ RunPlaces(o, x, "run.started") = {}
        /\ RunPlaces(o, x, "run.finished") = {}
    BY <1>2, <1>5 DEF RunPlaces, RunFinished, RunToken
  <2>. QED BY <1>1, <2>1, RunFrame
<1>6. Open(l \o o) = Open(l) \ {r}
  BY <1>4, <1>5 DEF Open
<1>7. \A g : Places(o, g, Told) = {}
  BY <1>2 DEF Places, Told, RunFinished, RunToken
<1>8. \A g : FlowState(l \o o, g) = FlowState(l, g)
  BY <1>1, <1>7, StateFrame
<1>. QED BY <1>1, <1>3, <1>6, <1>8

LEMMA ListingFacts ==
  ASSUME NEW S, IsFiniteSet(S), NEW s \in Listings(S)
  PROVE  /\ Cardinality(S) \in Nat /\ DOMAIN s = 1 .. Cardinality(S)
         /\ \A i \in DOMAIN s : s[i] \in S
         /\ \A x \in S : \E i \in DOMAIN s : s[i] = x
<1>1. Cardinality(S) \in Nat
  BY FS_CardinalityType
<1>. QED BY <1>1 DEF Listings, Bijection, Surjection

(* Every flow of the listing is told to be idle. *)
LEMMA LoadAppend ==
  ASSUME NEW l \in Seq(Event), CyclesRise(l), NEW S \in SUBSET Flows,
         NEW files \in Listings(S),
         NEW o, o = [i \in DOMAIN files |-> Upserted(files[i])]
  PROVE  /\ o \in Seq(Event)
         /\ CyclesRise(l \o o)
         /\ \A f \in S : FlowState(l \o o, f) = "ocioso"
<1>1. IsFiniteSet(S)
  BY FS_Subset, RestartAssumption
<1>2. /\ Cardinality(S) \in Nat /\ DOMAIN files = 1 .. Cardinality(S)
      /\ \A i \in DOMAIN files : files[i] \in S
      /\ \A x \in S : \E i \in DOMAIN files : files[i] = x
  BY <1>1, ListingFacts
<1>3. \A i \in 1 .. Cardinality(S) : Upserted(files[i]) \in Event
  BY <1>2 DEF Upserted, Event
<1>4. o \in Seq(Event)
  BY <1>2, <1>3
<1>5. \A k \in DOMAIN o : o[k].type = "flow.upserted" /\ o[k].state = "ocioso"
  BY DEF Upserted
<1>6. CyclesRise(l \o o)
  BY <1>4, <1>5, CyclesConcat
<1>7. ASSUME NEW f \in S PROVE FlowState(l \o o, f) = "ocioso"
  <2>1. PICK i \in DOMAIN files : files[i] = f
    BY <1>2
  <2>2. i \in DOMAIN o /\ o[i] = Upserted(f)
    BY <2>1
  <2>3. Places(o, f, Told) # {}
    BY <2>2 DEF Places, Told, Upserted
  <2>4. \A k \in Places(o, f, Told) : o[k].state = "ocioso"
    BY <1>5 DEF Places
  <2>. QED BY <1>4, <2>3, <2>4, StateTold
<1>. QED BY <1>4, <1>6, <1>7

LEMMA OrphanFacts ==
  ASSUME NEW l \in Seq(Event)
  PROVE  /\ IsFiniteSet(Orphans(l)) /\ Orphans(l) \subseteq Runs
         /\ Open(l) \subseteq Orphans(l)
         /\ \A r \in Orphans(l) : Started(l, r) /\ StartOf(l, r).flow \in Flows
<1> DEFINE D == {j \in DOMAIN l : l[j].type = "run.started"}
           R == {l[i].run : i \in D}
<1>1. IsFiniteSet(R)
  <2>1. DOMAIN l = 1 .. Len(l) /\ Len(l) \in Nat
    BY LenProperties
  <2>2. IsFiniteSet(1 .. Len(l))
    BY <2>1, FS_Interval
  <2>3. IsFiniteSet(D)
    BY <2>1, <2>2, FS_Subset
  <2>4. [i \in D |-> l[i].run] \in Surjection(D, R)
    BY DEF Surjection
  <2>. QED BY <2>3, <2>4, FS_Surjection
<1>2. Orphans(l) \subseteq R
  BY DEF Orphans
<1>3. \A i \in D : l[i] \in Event /\ l[i].type = "run.started"
  BY LenProperties
<1>4. R \subseteq Runs
  BY <1>3, EventFacts
<1>5. Open(l) \subseteq Orphans(l)
  BY DEF Open, Orphans, Started, RunPlaces
<1>6. ASSUME NEW r \in Orphans(l)
      PROVE  Started(l, r) /\ StartOf(l, r).flow \in Flows
  <2> DEFINE I == RunPlaces(l, r, "run.started")
  <2>1. I # {}
    BY DEF Orphans, RunPlaces
  <2>2. Max(I) \in I
    BY <2>1, PlaceMax DEF RunPlaces
  <2>3. l[Max(I)] \in Event /\ l[Max(I)].type = "run.started"
    BY <2>2, LenProperties DEF RunPlaces
  <2>. QED BY <2>1, <2>3, EventFacts DEF Started, StartOf
<1>7. IsFiniteSet(Orphans(l))
  BY <1>1, <1>2, FS_Subset
<1>8. Orphans(l) \subseteq Runs
  BY <1>2, <1>4
<1>. QED BY <1>5, <1>6, <1>7, <1>8

(* Whatever order the runs and the flows come in: every open run is ended,  *)
(* no cycle starts, and no flow is told anything but that it is idle.      *)
LEMMA RecoveryEmits ==
  ASSUME log \in Seq(Event), NEW o \in RecoveryEvents
  PROVE  /\ o \in Seq(Event)
         /\ \A k \in DOMAIN o :
              /\ o[k].type \in {"run.finished", "cycle.ended", "flow.stateChanged"}
              /\ o[k].type = "flow.stateChanged" => o[k].state = "ocioso"
         /\ \A r \in Orphans(log) : \E k \in DOMAIN o : o[k] = RunFinished(r)
<1> DEFINE orphans == Orphans(log)
           n == Cardinality(Closing)
<1>1. PICK runs \in Listings(orphans), flows \in Listings(Closing) :
        o = Finishes(runs) \o Closes(flows)
  BY DEF RecoveryEvents
<1> DEFINE fin == Finishes(runs)
           c == Closes(flows)
<1>2. /\ IsFiniteSet(orphans) /\ orphans \subseteq Runs
      /\ \A r \in orphans : StartOf(log, r).flow \in Flows
  BY OrphanFacts
<1>3. IsFiniteSet(Closing) /\ Closing \subseteq Flows
  <2>1. [r \in orphans |-> StartOf(log, r).flow] \in Surjection(orphans, Closing)
    BY DEF Surjection, Closing
  <2>. QED BY <1>2, <2>1, FS_Surjection DEF Closing
<1> HIDE DEF orphans
<1>4. /\ Cardinality(orphans) \in Nat /\ DOMAIN runs = 1 .. Cardinality(orphans)
      /\ \A i \in DOMAIN runs : runs[i] \in orphans
      /\ \A x \in orphans : \E i \in DOMAIN runs : runs[i] = x
  BY <1>2, ListingFacts
<1>5. /\ n \in Nat /\ DOMAIN flows = 1 .. n
      /\ \A i \in DOMAIN flows : flows[i] \in Closing
  BY <1>3, ListingFacts
<1>6. fin \in Seq(Event)
  <2>1. \A i \in 1 .. Cardinality(orphans) : RunFinished(runs[i]) \in Event
    BY <1>2, <1>4 DEF RunFinished, Event
  <2>. QED BY <1>4, <2>1 DEF Finishes
<1> HIDE DEF n
<1>7. ASSUME NEW i \in 1 .. 2 * n
      PROVE  /\ c[i] \in Event
             /\ \/ c[i].type = "cycle.ended"
                \/ c[i].type = "flow.stateChanged" /\ c[i].state = "ocioso"
  <2>1. PICK f : f = flows[(i + 1) \div 2]
    OBVIOUS
  <2>2. (i + 1) \div 2 \in 1 .. n
    BY <1>5
  <2>3. f \in Flows
    BY <1>3, <1>5, <2>1, <2>2
  <2>4. CycleCounter(log, f) \in Nat
    BY CounterFacts
  <2>5. c[i] \in {CycleEnded(f, CycleCounter(log, f)), StateChanged(f, "ocioso")}
    BY <2>1 DEF Closes, n
  <2>. QED BY <2>3, <2>4, <2>5 DEF Event, CycleEnded, StateChanged
<1>8. c \in Seq(Event) /\ DOMAIN c = 1 .. 2 * n
  <2>1. 2 * n \in Nat
    BY <1>5
  <2>2. c = [i \in 1 .. 2 * n |-> c[i]]
    BY DEF Closes, n
  <2> HIDE DEF c
  <2>. QED BY <1>7, <2>1, <2>2
<1>9. \A k \in DOMAIN fin : fin[k] = RunFinished(runs[k])
  BY DEF Finishes
<1> HIDE DEF c, fin
<1>10. o = fin \o c
  BY <1>1 DEF c, fin
<1>11. \A k \in DOMAIN o :
         /\ o[k].type \in {"run.finished", "cycle.ended", "flow.stateChanged"}
         /\ o[k].type = "flow.stateChanged" => o[k].state = "ocioso"
  <2> SUFFICES ASSUME NEW k \in DOMAIN o
               PROVE  \/ o[k].type \in {"run.finished", "cycle.ended"}
                      \/ /\ o[k].type = "flow.stateChanged"
                         /\ o[k].state = "ocioso"
    OBVIOUS
  <2>1. CASE k \in DOMAIN fin
    <3>1. o[k] = fin[k]
      BY <1>6, <1>8, <1>10, <2>1, Concat
    <3>. QED BY <1>9, <2>1, <3>1 DEF RunFinished
  <2>2. ASSUME NEW m \in DOMAIN c, k = Len(fin) + m
        PROVE  \/ o[k].type \in {"run.finished", "cycle.ended"}
               \/ /\ o[k].type = "flow.stateChanged"
                  /\ o[k].state = "ocioso"
    <3>1. o[k] = c[m]
      BY <1>6, <1>8, <1>10, <2>2, Concat
    <3>. QED BY <1>7, <1>8, <2>2, <3>1
  <2>3. k \in DOMAIN fin \/ \E m \in DOMAIN c : k = Len(fin) + m
    <3>1. \A i \in DOMAIN (fin \o c) :
            i \in DOMAIN fin \/ \E m \in DOMAIN c : i = Len(fin) + m
      BY <1>6, <1>8, Concat
    <3>. QED BY <1>10, <3>1
  <2>. QED BY <2>1, <2>2, <2>3
<1>12. ASSUME NEW r \in orphans PROVE \E k \in DOMAIN o : o[k] = RunFinished(r)
  <2>1. PICK i \in DOMAIN runs : runs[i] = r
    BY <1>4
  <2>2. i \in DOMAIN fin /\ fin[i] = RunFinished(r)
    BY <2>1 DEF fin, Finishes
  <2>3. i \in DOMAIN o /\ o[i] = fin[i]
    BY <1>6, <1>8, <1>10, <2>2, Concat
  <2>. QED BY <2>2, <2>3
<1>13. o \in Seq(Event)
  BY <1>6, <1>8, <1>10, Concat
<1>. QED BY <1>11, <1>12, <1>13 DEF orphans

LEMMA RecoveryAppend ==
  ASSUME log \in Seq(Event), CyclesRise(log), NEW o \in RecoveryEvents
  PROVE  /\ o \in Seq(Event)
         /\ CyclesRise(log \o o)
         /\ Open(log \o o) = {}
         /\ \A f : FlowState(log \o o, f) \in {FlowState(log, f), "ocioso"}
<1>1. /\ o \in Seq(Event)
      /\ \A k \in DOMAIN o :
              /\ o[k].type \in {"run.finished", "cycle.ended", "flow.stateChanged"}
              /\ o[k].type = "flow.stateChanged" => o[k].state = "ocioso"
      /\ \A r \in Orphans(log) : \E k \in DOMAIN o : o[k] = RunFinished(r)
  BY RecoveryEmits
<1>2. CyclesRise(log \o o)
  BY <1>1, CyclesConcat
<1>3. ASSUME NEW r \in Runs
      PROVE  Started(log \o o, r) => Finished(log \o o, r)
  <2>1. RunPlaces(o, r, "run.started") = {}
    BY <1>1 DEF RunPlaces
  <2>2. CASE ~ Started(log, r)
    <3>1. RunPlaces(log \o o, r, "run.started") = {}
      BY <1>1, <2>1, <2>2, RunPlacesConcat DEF Started
    <3>. QED BY <3>1 DEF Started
  <2>3. CASE Started(log, r) /\ ~ Finished(log, r)
    <3>1. r \in Orphans(log)
      BY <2>3, OrphanFacts DEF Open
    <3>2. RunPlaces(o, r, "run.finished") # {}
      BY <1>1, <3>1 DEF RunPlaces, RunFinished
    <3>. QED BY <1>1, <2>1, <2>3, <3>2, RunEnds
  <2>4. CASE Started(log, r) /\ Finished(log, r)
    BY <1>1, <2>1, <2>4, RunEnds
  <2>. QED BY <2>2, <2>3, <2>4
<1>4. Open(log \o o) = {}
  BY <1>3 DEF Open
<1>5. ASSUME NEW f
      PROVE  FlowState(log \o o, f) \in {FlowState(log, f), "ocioso"}
  <2>1. \A k \in Places(o, f, Told) : o[k].state = "ocioso"
    BY <1>1 DEF Places, Told
  <2>2. CASE Places(o, f, Told) = {}
    BY <1>1, <2>2, StateFrame
  <2>3. CASE Places(o, f, Told) # {}
    <3>1. FlowState(log \o o, f) = "ocioso"
      BY <1>1, <2>1, <2>3, StateTold
    <3>. QED BY <3>1
  <2>. QED BY <2>2, <2>3
<1>. QED BY <1>1, <1>2, <1>4, <1>5

----------------------------------------------------------------------------
(* The invariant is about the log with the events that are still to be      *)
(* appended: a flush moves one of them over, and a stop drops them.        *)

Full == log \o out

LogTyped ==
  /\ log \in Seq(Event) /\ out \in Seq(Event)
  /\ pc \in {"off", "load", "recover", "preflight", "dry", "serving"}
  /\ cache \subseteq Flows
  /\ running \in [Flows -> Nat]

(* Before the engine serves, no run is live; once recovery is through, the   *)
(* live runs are the open ones.                                            *)
LiveInv ==
  /\ pc \notin {"dry", "serving"} => live = {}
  /\ pc \in {"preflight", "dry", "serving"} => Open(Full) = live

(* The boot tells every flow it loads that it is idle; from the recovery on *)
(* a flow is told to run or to wait only when it does, or when its last     *)
(* cycle threw.                                                            *)
ToldInv ==
  /\ pc = "recover" => \A f \in cache : FlowState(Full, f) = "ocioso"
  /\ pc \in {"preflight", "dry", "serving"} =>
       \A f \in cache :
         /\ FlowState(Full, f) = "rodando" => running[f] > 0 \/ f \in thrown
         /\ FlowState(Full, f) = "aguardando" => f \in awaiting

(* The probe is started when the boot's events are all in the log. *)
ProbeWaits ==
  /\ pc \in {"off", "load", "recover"} => probe = "none"
  /\ pc = "preflight" /\ probe # "none" => Quiet

(* A run whose prompt is not assembled is not in the log yet. *)
PromptInv ==
  /\ prompting \subseteq Lease
  /\ pc \notin {"dry", "serving"} => prompting = {}
  /\ \A l \in prompting : ~ Started(Full, l.run)
  /\ \A l, m \in prompting : l.run = m.run => l = m

LogInv == LogTyped /\ ProbeWaits /\ CyclesRise(Full) /\ LiveInv /\ ToldInv

LEMMA QuietFull ==
  ASSUME LogTyped, Quiet
  PROVE  Full = log
BY ConcatEmptySeq DEF LogTyped, Quiet, Full

LEMMA InitLog == Init => LogInv
<1> SUFFICES ASSUME Init PROVE LogInv
  OBVIOUS
<1>1. LogTyped
  BY DEF Init, Zero, LogTyped
<1>2. Full = <<>>
  BY ConcatEmptySeq DEF Init, LogTyped, Full
<1>3. DOMAIN Full = {}
  BY <1>2
<1>4. ProbeWaits
  BY DEF Init, ProbeInit, ProbeWaits
<1>. QED BY <1>1, <1>3, <1>4 DEF Init, LogInv, CyclesRise, LiveInv, ToldInv

(* A flush moves an event from the pending ones to the log. *)
LEMMA FlushFull ==
  ASSUME LogTyped, Flush
  PROVE  /\ Full' = Full
         /\ log' \in Seq(Event) /\ out' \in Seq(Event)
<1> USE DEF LogTyped
<1>1. Head(out) \in Event /\ Tail(out) \in Seq(Event)
  BY HeadTailProperties DEF Flush
<1>2. /\ log' = log \o <<Head(out)>> /\ <<Head(out)>> \in Seq(Event)
      /\ log' \in Seq(Event)
  BY <1>1, AppendIsConcat, AppendProperties DEF Flush, Appended
<1>3. <<Head(out)>> \o Tail(out) = out
  <2>1. /\ Len(out) \in Nat \ {0} /\ Len(Tail(out)) = Len(out) - 1
        /\ \A i \in 1 .. Len(Tail(out)) : Tail(out)[i] = out[i + 1]
    BY EmptySeq, HeadTailProperties DEF Flush
  <2>2. /\ <<Head(out)>> \in Seq(Event) /\ Len(<<Head(out)>>) = 1
        /\ <<Head(out)>>[1] = out[1]
    BY <1>1, <1>2 DEF Flush
  <2>3. /\ <<Head(out)>> \o Tail(out) \in Seq(Event)
        /\ Len(<<Head(out)>> \o Tail(out)) = Len(out)
        /\ \A i \in 1 .. Len(out) : (<<Head(out)>> \o Tail(out))[i] =
             IF i <= 1 THEN <<Head(out)>>[i] ELSE Tail(out)[i - 1]
    BY <1>1, <2>1, <2>2, ConcatProperties
  <2>4. \A i \in 1 .. Len(out) : (<<Head(out)>> \o Tail(out))[i] = out[i]
    BY <2>1, <2>2, <2>3
  <2>. QED BY <2>3, <2>4, SeqEqual
<1>4. Full' = Full
  <2>1. Full' = (log \o <<Head(out)>>) \o Tail(out)
    BY <1>2 DEF Full, Flush
  <2>2. (log \o <<Head(out)>>) \o Tail(out) = log \o (<<Head(out)>> \o Tail(out))
    BY <1>1, <1>2, ConcatAssociative
  <2>. QED BY <1>3, <2>1, <2>2 DEF Full
<1>. QED BY <1>1, <1>2, <1>4 DEF Flush

LEMMA FlushLog ==
  ASSUME LogInv, Flush
  PROVE  LogInv'
<1> USE DEF LogInv, LogTyped
<1>1. Full' = Full /\ log' \in Seq(Event) /\ out' \in Seq(Event)
  BY FlushFull
<1>2. ProbeWaits'
  BY DEF Flush, ProbeWaits, probeVars, bootVars, Quiet
<1>. QED BY <1>1, <1>2 DEF Flush, LiveInv, ToldInv, runVars, cycleVars, bootVars

(* Steps that leave the log alone. *)
LEMMA SilentLog ==
  ASSUME LogInv,
         Build \/ Preflight \/ Probe \/ Serve \/ UNCHANGED vars
  PROVE  LogInv'
<1> USE DEF LogInv, LogTyped, LiveInv, ToldInv, ProbeWaits, probeVars, Quiet,
            runVars, cycleVars, bootVars
<1>1. log' = log /\ out' = out
  BY DEF Build, Preflight, Probe, Serve, vars, engineVars
<1>2. Full' = Full
  BY <1>1 DEF Full
<1>3. CASE Build
  BY <1>2, <1>3 DEF Build
<1>4. CASE Preflight
  BY <1>2, <1>4 DEF Preflight, engineVars
<1>6. CASE Probe
  <2>1. probe = "none" => probe' = "none"
    BY <1>6 DEF Probe, ProbeNext, Output, Exit, ChildError, GiveUp
  <2>. QED BY <1>2, <1>6, <2>1 DEF Probe, engineVars
<1>7. CASE UNCHANGED vars
  BY <1>2, <1>7 DEF vars, engineVars
<1>5. CASE Serve
  BY <1>2, <1>5 DEF Serve
<1>. QED BY <1>3, <1>4, <1>5, <1>6, <1>7

LEMMA HaltLog ==
  ASSUME LogInv, Halt
  PROVE  LogInv'
<1> USE DEF LogInv, LogTyped, ProbeWaits
<1>1. log' = log /\ out' = <<>> /\ log \in Seq(Event)
  BY DEF Halt
<1>2. Full' = log
  BY <1>1, ConcatEmptySeq DEF Full
<1>3. CyclesRise(log)
  BY CyclesPrefix DEF Full
<1>4. LogTyped'
  BY <1>1 DEF Halt, Zero
<1>. QED BY <1>2, <1>3, <1>4 DEF Halt, LiveInv, ToldInv

LEMMA LoadLog ==
  ASSUME LogInv, LoadFlows
  PROVE  LogInv'
<1> USE DEF LogInv, LogTyped
<1>1. Quiet /\ log' = log /\ Full = log /\ pc = "load"
  BY QuietFull DEF LoadFlows
<1>2. PICK S \in SUBSET Flows :
        /\ cache' = S
        /\ \E files \in Listings(S) :
             out' = [i \in DOMAIN files |-> Upserted(files[i])]
  BY DEF LoadFlows
<1>3. PICK o : o = out'
  OBVIOUS
<1>6. PICK files \in Listings(S) : o = [i \in DOMAIN files |-> Upserted(files[i])]
  BY <1>2, <1>3
<1>4. /\ o \in Seq(Event) /\ CyclesRise(log \o o)
      /\ \A f \in S : FlowState(log \o o, f) = "ocioso"
  BY <1>1, <1>6, LoadAppend
<1>5. Full' = log \o o
  BY <1>1, <1>3 DEF Full
<1>. QED BY <1>1, <1>2, <1>3, <1>4, <1>5 DEF LoadFlows, LiveInv, ToldInv, ProbeWaits, probeVars, runVars,
                                      cycleVars

LEMMA RecoverLog ==
  ASSUME LogInv, RecoverOrphans
  PROVE  LogInv'
<1> USE DEF LogInv, LogTyped
<1>1. Quiet /\ log' = log /\ Full = log /\ pc = "recover"
  BY QuietFull DEF RecoverOrphans
<1>2. PICK o \in RecoveryEvents : o = out'
  BY DEF RecoverOrphans
<1>3. /\ o \in Seq(Event) /\ CyclesRise(log \o o)
      /\ Open(log \o o) = {}
      /\ \A f : FlowState(log \o o, f) \in {FlowState(log, f), "ocioso"}
  BY <1>1, RecoveryAppend
<1>4. Full' = log \o o
  BY <1>1, <1>2 DEF Full
<1>5. \A f \in cache : FlowState(Full', f) = "ocioso"
  BY <1>1, <1>3, <1>4 DEF ToldInv
<1>. QED BY <1>1, <1>2, <1>3, <1>4, <1>5 DEF RecoverOrphans, LiveInv, ToldInv, ProbeWaits, probeVars,
                                           runVars, cycleVars

(* A cycle's own events: the start, the end, and the re-arm. *)
LEMMA CycleLog ==
  ASSUME LogInv, Quiet, NEW f \in Flows,
         \/ pc = "preflight" /\ DryRun /\ f = dry
         \/ StartCycle(f) \/ Rearm(f)
         \/ \E s \in {"ocioso", "aguardando"} : EndCycle(f, s)
  PROVE  LogInv'
<1> USE DEF LogInv, LogTyped, runVars, bootVars
<1>1. /\ log' = log /\ Full = log /\ cache' = cache
      /\ log \in Seq(Event) /\ CyclesRise(log)
  BY QuietFull DEF DryRun, StartCycle, Rearm, EndCycle
<1>2. PICK c \in Nat : c = CycleCounter(log, f) + 1 /\ c > CycleCounter(log, f)
                       /\ c > 0
  <2>1. CycleCounter(log, f) \in Nat
    BY CounterFacts
  <2>2. /\ CycleCounter(log, f) + 1 \in Nat
        /\ CycleCounter(log, f) + 1 > CycleCounter(log, f)
        /\ CycleCounter(log, f) + 1 > 0
    BY <2>1
  <2>. QED BY <2>2
<1>3. PICK d \in Nat : d = running[f]
  OBVIOUS
<1>4. PICK s \in States, next \in {0, c} :
        /\ out' \in {<<CycleStarted(f, c), StateChanged(f, s)>>,
                     <<CycleEnded(f, d), StateChanged(f, s)>>,
                     <<CycleEnded(f, d), CycleStarted(f, c), StateChanged(f, s)>>}
        /\ running' = [running EXCEPT ![f] = next]
        /\ s = "rodando" => next > 0
        /\ s = "aguardando" => f \in awaiting'
        /\ awaiting \ {f} \subseteq awaiting'
        /\ thrown \ {f} \subseteq thrown'
        /\ live' = live
        /\ pc \in {"preflight", "dry", "serving"}
        /\ pc' \in {"dry", "serving"}
  <2>1. CASE pc = "preflight" /\ DryRun /\ f = dry
    <3>1. /\ out' = <<CycleStarted(f, c), StateChanged(f, "rodando")>>
          /\ running' = [running EXCEPT ![f] = c] /\ thrown' = thrown \ {f}
      BY <1>2, <2>1 DEF DryRun, Begin
    <3>. QED BY <1>2, <2>1, <3>1 DEF DryRun, States
  <2>2. CASE StartCycle(f)
    <3>1. /\ out' = <<CycleStarted(f, c), StateChanged(f, "rodando")>>
          /\ running' = [running EXCEPT ![f] = c] /\ thrown' = thrown \ {f}
      BY <1>2, <2>2 DEF StartCycle, Begin, NextCycle
    <3>. QED BY <1>2, <2>2, <3>1 DEF StartCycle, States
  <2>3. CASE Rearm(f)
    <3>1. /\ out' = <<CycleEnded(f, d), CycleStarted(f, c),
                      StateChanged(f, "rodando")>>
          /\ running' = [running EXCEPT ![f] = c]
      BY <1>2, <1>3, <2>3 DEF Rearm, NextCycle
    <3>. QED BY <1>2, <2>3, <3>1 DEF Rearm, Serving, States
  <2>4. ASSUME NEW s \in {"ocioso", "aguardando"}, EndCycle(f, s)
        PROVE  \E t \in States, next \in {0, c} :
        /\ out' \in {<<CycleStarted(f, c), StateChanged(f, t)>>,
                     <<CycleEnded(f, d), StateChanged(f, t)>>,
                     <<CycleEnded(f, d), CycleStarted(f, c), StateChanged(f, t)>>}
        /\ running' = [running EXCEPT ![f] = next]
        /\ t = "rodando" => next > 0
        /\ t = "aguardando" => f \in awaiting'
        /\ awaiting \ {f} \subseteq awaiting'
        /\ thrown \ {f} \subseteq thrown'
        /\ live' = live
        /\ pc \in {"preflight", "dry", "serving"}
        /\ pc' \in {"dry", "serving"}
    <3>1. s \in States /\ 0 \in {0, c} /\ s # "rodando"
      BY DEF States
    <3>2. out' = <<CycleEnded(f, d), StateChanged(f, s)>>
      BY <1>3, <2>4 DEF EndCycle
    <3>3. /\ running' = [running EXCEPT ![f] = 0] /\ live' = live
          /\ s = "aguardando" => f \in awaiting'
          /\ awaiting \ {f} \subseteq awaiting' /\ thrown' = thrown
          /\ pc \in {"preflight", "dry", "serving"} /\ pc' \in {"dry", "serving"}
      BY <2>4 DEF EndCycle, Serving
    <3>. QED BY <3>1, <3>2, <3>3
  <2>. QED BY <2>1, <2>2, <2>3, <2>4
<1>5. PICK o : o = out'
  OBVIOUS
<1>6. /\ o \in Seq(Event) /\ CyclesRise(log \o o) /\ Open(log \o o) = Open(log)
      /\ FlowState(log \o o, f) = s
      /\ \A g : g # f => FlowState(log \o o, g) = FlowState(log, g)
  BY <1>1, <1>2, <1>4, <1>5, CycleAppend
<1>7. Full' = log \o o
  BY <1>1, <1>5 DEF Full
<1>8. LogTyped'
  BY <1>1, <1>2, <1>4, <1>5, <1>6
<1>9. LiveInv'
  BY <1>1, <1>4, <1>6, <1>7 DEF LiveInv
<1>10. ToldInv'
  <2> SUFFICES ASSUME NEW g \in cache
               PROVE  /\ FlowState(Full', g) = "rodando" =>
                           running'[g] > 0 \/ g \in thrown'
                      /\ FlowState(Full', g) = "aguardando" => g \in awaiting'
    BY <1>1, <1>4 DEF ToldInv
  <2>1. CASE g = f
    BY <1>4, <1>6, <1>7, <2>1
  <2>2. CASE g # f
    <3>1. FlowState(Full', g) = FlowState(Full, g) /\ running'[g] = running[g]
      BY <1>1, <1>4, <1>6, <1>7, <2>2
    <3>. QED BY <1>4, <2>2, <3>1 DEF ToldInv
  <2>. QED BY <2>1, <2>2
<1>11. ProbeWaits'
  BY <1>4 DEF ProbeWaits
<1>. QED BY <1>6, <1>7, <1>8, <1>9, <1>10, <1>11

(* What changes neither the log nor the runs of the runner: a lease granted *)
(* or lost, and a cycle that rejects.                                      *)
LEMMA LeaseLog ==
  ASSUME LogInv,
         \/ \E r \in Runs, f \in Flows, c \in 1 .. MaxCycle : RequestSpawn(r, f, c)
         \/ \E l \in prompting : LoseLease(l)
         \/ \E f \in Flows : RefuseBarrier(f)
  PROVE  LogInv'
<1> USE DEF LogInv, LogTyped, runVars, cycleVars, bootVars
<1>1. /\ log' = log /\ out' = out /\ pc' = pc /\ live' = live /\ cache' = cache
      /\ awaiting' = awaiting /\ probe' = probe
  BY DEF RequestSpawn, LoseLease, RefuseBarrier, Reject, probeVars
<1>2. /\ running' \in [Flows -> Nat] /\ thrown \subseteq thrown'
      /\ \A f \in Flows : running'[f] = running[f] \/ f \in thrown'
  <2>1. CASE running' = running /\ thrown' = thrown
    BY <2>1
  <2>2. ASSUME NEW g, Reject(g)
        PROVE  /\ running' \in [Flows -> Nat] /\ thrown \subseteq thrown'
               /\ \A f \in Flows : running'[f] = running[f] \/ f \in thrown'
    <3>1. running' = [running EXCEPT ![g] = 0] /\ thrown' = thrown \cup {g}
      BY <2>2 DEF Reject
    <3>. QED BY <3>1
  <2>3. \/ running' = running /\ thrown' = thrown
        \/ \E g : Reject(g)
    BY DEF RequestSpawn, LoseLease, RefuseBarrier
  <2>. QED BY <2>1, <2>2, <2>3
<1>3. Full' = Full
  BY <1>1 DEF Full
<1>4. LiveInv' /\ ProbeWaits'
  BY <1>1, <1>3 DEF LiveInv, ProbeWaits, Quiet
<1>5. ToldInv'
  BY <1>1, <1>2, <1>3 DEF ToldInv
<1>6. CyclesRise(Full)'
  BY <1>3
<1>. QED BY <1>1, <1>2, <1>4, <1>5, <1>6

LEMMA RunLog ==
  ASSUME LogInv, PromptInv,
         \/ \E r \in Runs : FinishRun(r)
         \/ \E l \in prompting : StartRun(l)
  PROVE  LogInv'
<1> USE DEF LogInv, LogTyped, runVars, cycleVars, bootVars
<1>1. /\ Quiet /\ log' = log /\ Full = log /\ cache' = cache /\ pc' = pc
      /\ running' = running /\ awaiting' = awaiting /\ thrown' = thrown
      /\ log \in Seq(Event) /\ CyclesRise(log) /\ pc \in {"dry", "serving"}
      /\ Open(log) = live
  BY QuietFull DEF FinishRun, StartRun, Serving, LiveInv
<1>2. PICK o : o = out'
  OBVIOUS
<1>3. Full' = log \o o
  BY <1>1, <1>2 DEF Full
<1>4. ASSUME NEW r \in Runs, FinishRun(r) PROVE LogInv'
  <2>1. r \in live /\ live' = live \ {r} /\ Started(log, r)
    BY <1>1, <1>4 DEF FinishRun, Open
  <2>2. PICK cost \in Costs \cup {0} :
          o = (IF cost = 0 THEN <<>> ELSE <<RunToken(r, cost)>>)
                \o <<RunFinished(r)>>
    BY <1>2, <1>4 DEF FinishRun
  <2>4. cost \in Nat
    BY RestartAssumption
  <2>3. o \in {<<RunFinished(r)>>, <<RunToken(r, cost), RunFinished(r)>>}
    <3>1. RunFinished(r) \in Event /\ RunToken(r, cost) \in Event
      BY <2>4 DEF Event, RunFinished, RunToken
    <3>2. <<>> \o <<RunFinished(r)>> = <<RunFinished(r)>>
      BY <3>1, ConcatEmptySeq, Tuples
    <3>3. <<RunToken(r, cost)>> \o <<RunFinished(r)>>
            = <<RunToken(r, cost), RunFinished(r)>>
      BY <3>1, Pair
    <3>. QED BY <2>2, <3>2, <3>3
  <2>5. /\ o \in Seq(Event) /\ CyclesRise(log \o o)
        /\ Open(log \o o) = Open(log) \ {r}
        /\ \A g : FlowState(log \o o, g) = FlowState(log, g)
    BY <1>1, <2>1, <2>3, <2>4, FinishAppend
  <2>. QED BY <1>1, <1>2, <1>3, <2>1, <2>5 DEF LiveInv, ToldInv, ProbeWaits
<1>5. ASSUME NEW l \in prompting, StartRun(l) PROVE LogInv'
  <2>1. PICK r \in Runs, f \in Flows, c \in Nat :
          r = l.run /\ f = l.flow /\ c = l.cycle
    BY RestartAssumption DEF PromptInv, Lease
  <2>2. live' = live \cup {r} /\ ~ Started(log, r)
    BY <1>1, <1>5, <2>1 DEF StartRun, PromptInv
  <2>3. /\ o \in Seq(Event) /\ CyclesRise(log \o o)
        /\ Open(log \o o) = Open(log) \cup {r}
        /\ \A g : FlowState(log \o o, g) = FlowState(log, g)
    <3>1. o \in {<<RunStarted(r, f, c)>>}
      BY <1>2, <1>5, <2>1 DEF StartRun
    <3>2. log \in Seq(Event) /\ CyclesRise(log) /\ ~ Started(log, r)
      BY <1>1, <2>2
    <3> HIDE DEF LogInv, LogTyped
    <3>. QED BY <3>1, <3>2, StartAppend
  <2>. QED BY <1>1, <1>2, <1>3, <2>2, <2>3 DEF LiveInv, ToldInv, ProbeWaits
<1>. QED BY <1>4, <1>5

(* An append without a run.started of the run. *)
LEMMA StartedFrame ==
  ASSUME NEW l \in Seq(Event), NEW o \in Seq(Event), NEW r,
         \A k \in DOMAIN o : o[k].type = "run.started" => o[k].run # r
  PROVE  Started(l \o o, r) <=> Started(l, r)
<1>1. RunPlaces(o, r, "run.started") = {}
  BY DEF RunPlaces
<1>. QED BY <1>1, RunPlacesConcat DEF Started

LEMMA PromptFrame ==
  ASSUME PromptInv, log \in Seq(Event), NEW o \in Seq(Event),
         Full = log, Full' = log \o o, prompting' \subseteq prompting,
         pc' \in {"dry", "serving"},
         \A l \in prompting' : \A k \in DOMAIN o :
           o[k].type = "run.started" => o[k].run # l.run
  PROVE  PromptInv'
<1>1. ASSUME NEW l \in prompting' PROVE ~ Started(Full', l.run)
  <2>1. ~ Started(log, l.run)
    BY DEF PromptInv
  <2>. QED BY <2>1, StartedFrame
<1>. QED BY <1>1 DEF PromptInv

LEMMA PromptCycle ==
  ASSUME LogInv, PromptInv, (LogTyped)', Quiet, NEW f \in Flows,
         \/ StartCycle(f) \/ Rearm(f)
         \/ \E s \in {"ocioso", "aguardando"} : EndCycle(f, s)
  PROVE  PromptInv'
<1>1. /\ Full = log /\ log' = log /\ log \in Seq(Event)
      /\ prompting' = prompting /\ pc' \in {"dry", "serving"}
  BY QuietFull DEF LogInv, LogTyped, StartCycle, Rearm, EndCycle, Serving,
                   runVars, bootVars
<1>2. PICK o \in Seq(Event) : o = out'
  BY DEF LogTyped
<1>3. \A k \in DOMAIN o : o[k].type # "run.started"
  BY <1>2 DEF StartCycle, Rearm, EndCycle, Begin, CycleStarted, CycleEnded,
              StateChanged
<1>4. Full' = log \o o
  BY <1>1, <1>2 DEF Full
<1>. QED BY <1>1, <1>3, <1>4, PromptFrame

LEMMA PromptRun ==
  ASSUME LogInv, PromptInv, (LogTyped)',
         \/ \E r \in Runs : FinishRun(r)
         \/ \E l \in prompting : StartRun(l)
  PROVE  PromptInv'
<1>1. /\ Full = log /\ log' = log /\ log \in Seq(Event)
      /\ prompting' \subseteq prompting /\ pc' \in {"dry", "serving"}
  BY QuietFull DEF LogInv, LogTyped, FinishRun, StartRun, Serving, bootVars
<1>2. PICK o \in Seq(Event) : o = out'
  BY DEF LogTyped
<1>3. Full' = log \o o
  BY <1>1, <1>2 DEF Full
<1>4. ASSUME NEW r \in Runs, FinishRun(r) PROVE PromptInv'
  <2>1. PICK cost \in Costs \cup {0} :
          out' = (IF cost = 0 THEN <<>> ELSE <<RunToken(r, cost)>>)
                   \o <<RunFinished(r)>>
    BY <1>4 DEF FinishRun
  <2>2. cost \in Nat
    BY RestartAssumption
  <2>3. \A k \in DOMAIN o : o[k].type # "run.started"
    <3>1. RunFinished(r) \in Event /\ RunToken(r, cost) \in Event
      BY <2>2 DEF Event, RunFinished, RunToken
    <3>2. <<>> \o <<RunFinished(r)>> = <<RunFinished(r)>>
      BY <3>1, ConcatEmptySeq, Tuples
    <3>3. <<RunToken(r, cost)>> \o <<RunFinished(r)>>
            = <<RunToken(r, cost), RunFinished(r)>>
      BY <3>1, Pair
    <3>4. o \in {<<RunFinished(r)>>, <<RunToken(r, cost), RunFinished(r)>>}
      BY <1>2, <2>1, <3>2, <3>3
    <3>. QED BY <3>4 DEF RunFinished, RunToken
  <2>. QED BY <1>1, <1>3, <2>3, PromptFrame
<1>5. ASSUME NEW l \in prompting, StartRun(l) PROVE PromptInv'
  <2>1. prompting' = prompting \ {l} /\ o = <<RunStarted(l.run, l.flow, l.cycle)>>
    BY <1>2, <1>5 DEF StartRun
  <2>2. \A k \in DOMAIN o : o[k].type = "run.started" => o[k].run = l.run
    BY <2>1 DEF RunStarted
  <2>3. \A m \in prompting' : m.run # l.run
    BY <2>1 DEF PromptInv
  <2>. QED BY <1>1, <1>3, <2>2, <2>3, PromptFrame
<1>. QED BY <1>4, <1>5

LEMMA PromptSpawn ==
  ASSUME LogInv, PromptInv, NEW r \in Runs, NEW f \in Flows, NEW c \in 1 .. MaxCycle,
         RequestSpawn(r, f, c)
  PROVE  PromptInv'
<1>1. /\ Full' = Full /\ Full = log /\ pc' \in {"dry", "serving"}
  BY QuietFull DEF LogInv, RequestSpawn, Serving, Full, bootVars
<1>2. PICK l : l = [run |-> r, flow |-> f, cycle |-> c]
  OBVIOUS
<1>3. /\ l \in Lease /\ l.run = r /\ prompting' = prompting \cup {l}
      /\ ~ Started(log, r) /\ \A m \in prompting : m.run # r
  BY <1>2 DEF RequestSpawn, Lease
<1>. QED BY <1>1, <1>3 DEF PromptInv

LEMMA PromptStep ==
  ASSUME LogInv, PromptInv, (LogTyped)', [Next]_vars
  PROVE  PromptInv'
<1> USE DEF runVars, bootVars
<1>1. CASE Flush \/ Probe \/ UNCHANGED vars
  <2>1. Full' = Full
    <3>1. CASE Flush
      BY <3>1, FlushFull DEF LogInv
    <3>2. CASE Probe \/ UNCHANGED vars
      BY <3>2 DEF Full, Probe, vars, engineVars
    <3>. QED BY <1>1, <3>1, <3>2
  <2>2. prompting' = prompting /\ pc' = pc
    BY <1>1 DEF Flush, Probe, vars, engineVars
  <2>. QED BY <2>1, <2>2 DEF PromptInv
<1>2. CASE Build \/ LoadFlows \/ RecoverOrphans \/ Preflight \/ Serve \/ DryRun
  <2>1. prompting' = prompting /\ pc \notin {"dry", "serving"}
    BY <1>2 DEF Build, LoadFlows, RecoverOrphans, Preflight, Serve, DryRun,
                engineVars
  <2>2. prompting' = {}
    BY <2>1 DEF PromptInv
  <2>. QED BY <2>2 DEF PromptInv
<1>3. ASSUME NEW f \in Flows,
             \/ StartCycle(f) \/ Rearm(f)
             \/ \E s \in {"ocioso", "aguardando"} : EndCycle(f, s)
      PROVE  PromptInv'
  <2>1. Quiet
    BY <1>3 DEF StartCycle, Rearm, EndCycle
  <2>. QED BY <1>3, <2>1, PromptCycle
<1>4. ASSUME NEW f \in Flows, NEW r \in Runs, NEW c \in 1 .. MaxCycle,
             RequestSpawn(r, f, c)
      PROVE  PromptInv'
  BY <1>4, PromptSpawn
<1>5. ASSUME \/ \E l \in prompting : LoseLease(l)
             \/ \E f \in Flows : RefuseBarrier(f)
      PROVE  PromptInv'
  <2>1. /\ prompting' \subseteq prompting /\ pc' = pc
        /\ pc \in {"dry", "serving"} /\ Full' = Full
    BY <1>5 DEF LoseLease, RefuseBarrier, Reject, Serving, Full
  <2>. QED BY <2>1 DEF PromptInv
<1>6. ASSUME \/ \E r \in Runs : FinishRun(r)
             \/ \E l \in prompting : StartRun(l)
      PROVE  PromptInv'
  BY <1>6, PromptRun
<1>7. CASE DryRunEnds \/ Stop
  BY <1>7 DEF DryRunEnds, Stop, Halt, PromptInv
<1>. QED BY <1>1, <1>2, <1>3, <1>4, <1>5, <1>6, <1>7 DEF Next

BootInv == LogInv /\ PromptInv

LEMMA InitBoot == Init => BootInv
<1>1. Init => PromptInv
  BY DEF Init, PromptInv
<1>. QED BY <1>1, InitLog DEF BootInv

LEMMA LogStep ==
  ASSUME BootInv, [Next]_vars
  PROVE  LogInv'
<1> USE DEF BootInv
<1>1. CASE Flush
  BY <1>1, FlushLog
<1>2. CASE Build \/ Preflight \/ Probe \/ Serve \/ UNCHANGED vars
  BY <1>2, SilentLog
<1>3. CASE LoadFlows
  BY <1>3, LoadLog
<1>4. CASE RecoverOrphans
  BY <1>4, RecoverLog
<1>5. CASE DryRun
  <2>1. dry \in Flows /\ pc = "preflight" /\ Quiet
    BY <1>5 DEF DryRun, LogInv, LogTyped, ProbeWaits
  <2>2. PICK f \in Flows : f = dry
    BY <2>1
  <2>. QED BY <1>5, <2>1, <2>2, CycleLog
<1>6. ASSUME NEW f \in Flows,
             \/ StartCycle(f) \/ Rearm(f)
             \/ \E s \in {"ocioso", "aguardando"} : EndCycle(f, s)
      PROVE  LogInv'
  <2>1. Quiet
    BY <1>6 DEF StartCycle, Rearm, EndCycle
  <2>. QED BY <1>6, <2>1, CycleLog
<1>7. ASSUME \/ \E r \in Runs : FinishRun(r)
             \/ \E l \in prompting : StartRun(l)
      PROVE  LogInv'
  BY <1>7, RunLog
<1>8. ASSUME \/ \E r \in Runs, f \in Flows, c \in 1 .. MaxCycle :
                  RequestSpawn(r, f, c)
             \/ \E l \in prompting : LoseLease(l)
             \/ \E f \in Flows : RefuseBarrier(f)
      PROVE  LogInv'
  BY <1>8, LeaseLog, Zenon
<1>9. CASE DryRunEnds \/ Stop
  BY <1>9, HaltLog DEF DryRunEnds, Stop
<1>. QED BY <1>1, <1>2, <1>3, <1>4, <1>5, <1>6, <1>7, <1>8, <1>9 DEF Next

LEMMA BootStep ==
  ASSUME BootInv, [Next]_vars
  PROVE  BootInv'
<1>1. LogInv' /\ (LogTyped)'
  BY LogStep DEF LogInv
<1>. QED BY <1>1, PromptStep DEF BootInv

(* eventlog.ts, orchestrator.ts: a cycle number is never used twice, however *)
(* often the engine is stopped between two appends.                        *)
THEOREM RestartCycleNumbersRise == RestartSpec => []CycleNumbersRise
<1>1. BootInv => CycleNumbersRise
  <2> SUFFICES ASSUME LogInv PROVE CyclesRise(log)
    BY DEF BootInv, CyclesRise, CycleNumbersRise
  <2>. QED BY CyclesPrefix DEF LogInv, LogTyped, Full
<1>. QED BY InitBoot, BootStep, <1>1, PTL DEF RestartSpec

(* recoverOrphans: once it is through, the log has no run open but those the  *)
(* runner of this boot has in hand, whatever the boots before it were doing *)
(* when they stopped; a lease without a run, or lost with its prompt, is of *)
(* none of them.                                                           *)
THEOREM RestartOnlyLiveRunsOpen == RestartSpec => []OnlyLiveRunsOpen
<1>1. BootInv => OnlyLiveRunsOpen
  <2> SUFFICES ASSUME LogInv, Recovered PROVE Open(log) = live
    BY DEF BootInv, Open, OnlyLiveRunsOpen
  <2>. QED BY QuietFull DEF LogInv, LiveInv, Recovered
<1>. QED BY InitBoot, BootStep, <1>1, PTL DEF RestartSpec

(* loadFlowsIntoLog, recoverOrphans and the cycles: after recovery no flow   *)
(* the engine has loaded is shown as running, or as waiting for approval,  *)
(* unless the engine holds it so or its last cycle threw.                  *)
THEOREM RestartShownIsHeld == RestartSpec => []ShownIsHeld
<1>1. BootInv => ShownIsHeld
  <2> SUFFICES ASSUME LogInv, Recovered, NEW f \in cache
               PROVE  /\ FlowState(log, f) = "rodando" =>
                           running[f] > 0 \/ f \in thrown
                      /\ FlowState(log, f) = "aguardando" => f \in awaiting
    BY DEF BootInv, ShownIsHeld
  <2>. QED BY QuietFull DEF LogInv, ToldInv, Recovered
<1>. QED BY InitBoot, BootStep, <1>1, PTL DEF RestartSpec

----------------------------------------------------------------------------
(* The meter: what the runs of the log have cost, and what appending to the *)
(* log does to it.                                                         *)

LEMMA MaxPlace ==
  ASSUME NEW l \in Seq(Event), NEW r, NEW type, RunPlaces(l, r, type) # {}
  PROVE  /\ Max(RunPlaces(l, r, type)) \in DOMAIN l
         /\ l[Max(RunPlaces(l, r, type))] \in Event
         /\ l[Max(RunPlaces(l, r, type))].type = type
         /\ l[Max(RunPlaces(l, r, type))].run = r
<1> DEFINE I == RunPlaces(l, r, type)
<1>1. Max(I) \in I
  <2>1. I \in SUBSET (DOMAIN l) /\ I # {}
    BY DEF RunPlaces
  <2> HIDE DEF I
  <2>. QED BY <2>1, PlaceMax
<1>. QED BY <1>1, LenProperties DEF RunPlaces

LEMMA CostNat ==
  ASSUME NEW l \in Seq(Event), NEW r
  PROVE  Cost(l, r) \in Nat
<1>1. CASE RunPlaces(l, r, "run.token") = {}
  BY <1>1 DEF Cost
<1>2. CASE RunPlaces(l, r, "run.token") # {}
  <2>1. PICK e \in Event : /\ e = l[Max(RunPlaces(l, r, "run.token"))]
                           /\ e.type = "run.token"
    BY <1>2, MaxPlace
  <2>2. e.cost \in Nat
    BY <2>1 DEF Event
  <2>. QED BY <1>2, <2>1, <2>2 DEF Cost
<1>. QED BY <1>1, <1>2

LEMMA CostFrame ==
  ASSUME NEW l \in Seq(Event), NEW o \in Seq(Event), NEW r,
         RunPlaces(o, r, "run.token") = {}
  PROVE  Cost(l \o o, r) = Cost(l, r)
<1> DEFINE I == RunPlaces(l, r, "run.token")
<1>1. RunPlaces(l \o o, r, "run.token") = I
  BY RunPlacesConcat
<1>2. I # {} => Max(I) \in DOMAIN l
  BY MaxPlace
<1>3. I # {} => (l \o o)[Max(I)] = l[Max(I)]
  BY <1>2, Concat
<1>. QED BY <1>1, <1>3 DEF Cost

LEMMA CostTold ==
  ASSUME NEW l \in Seq(Event), NEW o \in Seq(Event), NEW r, NEW c,
         RunPlaces(o, r, "run.token") # {},
         \A k \in RunPlaces(o, r, "run.token") : o[k].cost = c
  PROVE  Cost(l \o o, r) = c
<1> DEFINE I == RunPlaces(l \o o, r, "run.token")
<1>1. PICK k \in RunPlaces(o, r, "run.token") : TRUE
  OBVIOUS
<1>2. Len(l) + k \in I
  BY RunPlacesConcat
<1>3. Max(I) \in I /\ Max(I) >= Len(l) + k
  <2>1. l \o o \in Seq(Event) /\ I \in SUBSET (DOMAIN (l \o o))
    BY Concat DEF RunPlaces
  <2>. QED BY <1>2, <2>1, PlaceMax
<1>4. Max(I) \notin DOMAIN l
  <2>1. /\ Len(l) \in Nat /\ DOMAIN l = 1 .. Len(l)
        /\ Len(o) \in Nat /\ DOMAIN o = 1 .. Len(o)
    BY Concat
  <2>2. k \in DOMAIN o
    BY DEF RunPlaces
  <2> HIDE DEF I
  <2>. QED BY <1>3, <2>1, <2>2
<1>5. PICK m \in RunPlaces(o, r, "run.token") : Max(I) = Len(l) + m
  <2>1. Max(I) \notin RunPlaces(l, r, "run.token")
    BY <1>4 DEF RunPlaces
  <2>. QED BY <1>3, <2>1, RunPlacesConcat
<1>6. (l \o o)[Max(I)] = o[m] /\ o[m].cost = c
  <2>1. m \in DOMAIN o
    BY DEF RunPlaces
  <2>2. (l \o o)[Len(l) + m] = o[m]
    BY <2>1, Concat
  <2>. QED BY <1>5, <2>2
<1>. QED BY <1>2, <1>6 DEF Cost

LEMMA RunsOfFacts ==
  ASSUME NEW l \in Seq(Event), NEW f
  PROVE  /\ IsFiniteSet(RunsOf(l, f)) /\ IsFiniteSet(SettledRuns(l, f))
         /\ \A r \in RunsOf(l, f) : r \in Runs /\ Started(l, r)
<1> DEFINE D == Places(l, f, {"run.started"})
<1>1. IsFiniteSet(RunsOf(l, f))
  <2>1. DOMAIN l = 1 .. Len(l) /\ Len(l) \in Nat
    BY LenProperties
  <2>2. IsFiniteSet(1 .. Len(l))
    BY <2>1, FS_Interval
  <2>3. IsFiniteSet(D)
    BY <2>1, <2>2, FS_Subset DEF Places
  <2>4. [i \in D |-> l[i].run] \in Surjection(D, RunsOf(l, f))
    BY DEF Surjection, RunsOf
  <2>. QED BY <2>3, <2>4, FS_Surjection
<1>2. IsFiniteSet(SettledRuns(l, f))
  BY <1>1, FS_Subset DEF SettledRuns
<1>3. \A i \in D : l[i] \in Event /\ l[i].type = "run.started" /\ i \in DOMAIN l
  BY LenProperties DEF Places
<1>4. \A r \in RunsOf(l, f) : r \in Runs /\ Started(l, r)
  BY <1>3, EventFacts DEF RunsOf, Started, RunPlaces
<1>. QED BY <1>1, <1>2, <1>4

LEMMA RunsOfConcat ==
  ASSUME NEW l \in Seq(Event), NEW o \in Seq(Event), NEW f
  PROVE  RunsOf(l \o o, f) = RunsOf(l, f) \cup RunsOf(o, f)
<1> DEFINE T == {"run.started"}
<1>1. \A i \in Places(l, f, T) :
        i \in Places(l \o o, f, T) /\ (l \o o)[i] = l[i]
  BY PlacesConcat, Concat DEF Places
<1>2. \A k \in Places(o, f, T) :
        Len(l) + k \in Places(l \o o, f, T) /\ (l \o o)[Len(l) + k] = o[k]
  BY PlacesConcat, Concat DEF Places
<1>3. \A i \in Places(l \o o, f, T) :
        i \in Places(l, f, T) \/ \E k \in Places(o, f, T) : i = Len(l) + k
  BY PlacesConcat
<1>4. RunsOf(l, f) \cup RunsOf(o, f) \subseteq RunsOf(l \o o, f)
  BY <1>1, <1>2 DEF RunsOf
<1>5. ASSUME NEW i \in Places(l \o o, f, T)
      PROVE  (l \o o)[i].run \in RunsOf(l, f) \cup RunsOf(o, f)
  <2>1. CASE i \in Places(l, f, T)
    BY <1>1, <2>1 DEF RunsOf
  <2>2. CASE \E k \in Places(o, f, T) : i = Len(l) + k
    BY <1>2, <2>2 DEF RunsOf
  <2>. QED BY <1>3, <2>1, <2>2
<1>6. RunsOf(l \o o, f) \subseteq RunsOf(l, f) \cup RunsOf(o, f)
  BY <1>5 DEF RunsOf
<1>. QED BY <1>4, <1>6

LEMMA NoneStarts ==
  ASSUME NEW l \in Seq(Event), NEW o \in Seq(Event), NEW f,
         \A k \in DOMAIN o : o[k].type # "run.started"
  PROVE  RunsOf(l \o o, f) = RunsOf(l, f)
<1>1. Places(o, f, {"run.started"}) = {}
  BY DEF Places
<1>2. RunsOf(o, f) = {}
  BY <1>1 DEF RunsOf
<1>3. RunsOf(l \o o, f) = RunsOf(l, f) \cup RunsOf(o, f)
  BY RunsOfConcat
<1>. QED BY <1>2, <1>3

(* The same runs at the same cost. *)
LEMMA SameCost ==
  ASSUME NEW l, NEW m, NEW S, \A r \in S : Cost(m, r) = Cost(l, r)
  PROVE  CostOf(m, S) = CostOf(l, S)
<1>1. [r \in S |-> Cost(m, r)] = [r \in S |-> Cost(l, r)]
  OBVIOUS
<1>. QED BY <1>1 DEF CostOf

LEMMA CostOfNat ==
  ASSUME NEW l \in Seq(Event), NEW S, IsFiniteSet(S)
  PROVE  CostOf(l, S) \in Nat
<1>1. NatOn([r \in S |-> Cost(l, r)], S)
  BY CostNat DEF NatOn
<1>. QED BY <1>1, SumNat DEF CostOf

LEMMA OneMoreCost ==
  ASSUME NEW l \in Seq(Event), NEW S, IsFiniteSet(S), NEW r, r \notin S
  PROVE  CostOf(l, S \cup {r}) = CostOf(l, S) + Cost(l, r)
<1> DEFINE fun == [x \in S \cup {r} |-> Cost(l, x)]
           gun == [x \in S |-> Cost(l, x)]
<1>1. NatOn(fun, S \cup {r})
  BY CostNat DEF NatOn
<1>2. fun[r] = Cost(l, r) /\ \A x \in S : fun[x] = gun[x]
  OBVIOUS
<1> HIDE DEF fun, gun
<1>3. SumFunctionOnSet(fun, S \cup {r}) = SumFunctionOnSet(fun, S) + fun[r]
  BY <1>1, SumAdd
<1>4. SumFunctionOnSet(fun, S) = SumFunctionOnSet(gun, S)
  BY <1>2, SumCongruence
<1>. QED BY <1>2, <1>3, <1>4 DEF CostOf, fun, gun

(* A run starts once, and its tokens come after its start. *)

StartedOnce(l) ==
  \A i, j \in DOMAIN l :
    /\ l[i].type = "run.started" /\ l[j].type = "run.started"
    /\ l[i].run = l[j].run
    => i = j

TokensFollow(l) ==
  \A i \in DOMAIN l : l[i].type = "run.token" =>
    \E j \in DOMAIN l :
      j < i /\ l[j].type = "run.started" /\ l[j].run = l[i].run

LEMMA LedgerPrefix ==
  ASSUME NEW l \in Seq(Event), NEW o \in Seq(Event),
         StartedOnce(l \o o), TokensFollow(l \o o)
  PROVE  StartedOnce(l) /\ TokensFollow(l)
<1>1. /\ Len(l) \in Nat /\ DOMAIN l = 1 .. Len(l)
      /\ Len(o) \in Nat /\ DOMAIN o = 1 .. Len(o)
  BY Concat
<1>2. \A i \in DOMAIN l : i \in DOMAIN (l \o o) /\ (l \o o)[i] = l[i]
  BY Concat
<1>3. \A i \in DOMAIN (l \o o) :
        i \in DOMAIN l \/ \E k \in DOMAIN o : i = Len(l) + k
  BY Concat
<1>4. StartedOnce(l)
  BY <1>2 DEF StartedOnce
<1>5. ASSUME NEW i \in DOMAIN l, l[i].type = "run.token"
      PROVE  \E j \in DOMAIN l :
               j < i /\ l[j].type = "run.started" /\ l[j].run = l[i].run
  <2>1. PICK j \in DOMAIN (l \o o) :
          /\ j < i /\ (l \o o)[j].type = "run.started"
          /\ (l \o o)[j].run = (l \o o)[i].run
    BY <1>2, <1>5 DEF TokensFollow
  <2>2. j \in DOMAIN l
    BY <1>1, <1>3, <2>1
  <2>. QED BY <1>2, <2>1, <2>2
<1>. QED BY <1>4, <1>5 DEF TokensFollow

(* An append: of starts of runs that had none, and of tokens of runs that   *)
(* had one.                                                                *)
LEMMA LedgerConcat ==
  ASSUME NEW l \in Seq(Event), NEW o \in Seq(Event),
         StartedOnce(l), TokensFollow(l),
         \A k \in DOMAIN o : o[k].type = "run.started" => ~ Started(l, o[k].run),
         \A k, m \in DOMAIN o :
           o[k].type = "run.started" /\ o[m].type = "run.started" => k = m,
         \A k \in DOMAIN o : o[k].type = "run.token" => Started(l, o[k].run)
  PROVE  StartedOnce(l \o o) /\ TokensFollow(l \o o)
<1> DEFINE L == l \o o
<1>1. /\ Len(l) \in Nat /\ DOMAIN l = 1 .. Len(l)
      /\ Len(o) \in Nat /\ DOMAIN o = 1 .. Len(o)
  BY Concat
<1>2. \A i \in DOMAIN l : i \in DOMAIN L /\ L[i] = l[i]
  BY Concat
<1>3. \A k \in DOMAIN o : L[Len(l) + k] = o[k]
  BY Concat
<1>4. \A i \in DOMAIN L : i \in DOMAIN l \/ \E k \in DOMAIN o : i = Len(l) + k
  BY Concat
<1> HIDE DEF L
<1>5. ASSUME NEW i \in DOMAIN L, NEW j \in DOMAIN L,
             L[i].type = "run.started", L[j].type = "run.started",
             L[i].run = L[j].run
      PROVE  i = j
  <2>1. ASSUME NEW a \in DOMAIN l, NEW k \in DOMAIN o,
               l[a].type = "run.started", o[k].type = "run.started",
               l[a].run = o[k].run
        PROVE  FALSE
    BY <2>1 DEF Started, RunPlaces
  <2>2. CASE i \in DOMAIN l /\ j \in DOMAIN l
    BY <1>2, <1>5, <2>2 DEF StartedOnce
  <2>3. CASE i \in DOMAIN l /\ \E k \in DOMAIN o : j = Len(l) + k
    BY <1>2, <1>3, <1>5, <2>1, <2>3
  <2>4. CASE j \in DOMAIN l /\ \E k \in DOMAIN o : i = Len(l) + k
    BY <1>2, <1>3, <1>5, <2>1, <2>4
  <2>5. ASSUME NEW k \in DOMAIN o, NEW m \in DOMAIN o,
               i = Len(l) + k, j = Len(l) + m
        PROVE  i = j
    <3>1. k = m
      BY <1>3, <1>5, <2>5
    <3>. QED BY <2>5, <3>1
  <2>. QED BY <1>4, <2>2, <2>3, <2>4, <2>5
<1>6. ASSUME NEW i \in DOMAIN L, L[i].type = "run.token"
      PROVE  \E j \in DOMAIN L :
               j < i /\ L[j].type = "run.started" /\ L[j].run = L[i].run
  <2>1. CASE i \in DOMAIN l
    <3>1. PICK j \in DOMAIN l :
            j < i /\ l[j].type = "run.started" /\ l[j].run = l[i].run
      BY <1>2, <1>6, <2>1 DEF TokensFollow
    <3>. QED BY <1>2, <2>1, <3>1
  <2>2. ASSUME NEW k \in DOMAIN o, i = Len(l) + k
        PROVE  \E j \in DOMAIN L :
                 j < i /\ L[j].type = "run.started" /\ L[j].run = L[i].run
    <3>1. L[i] = o[k]
      BY <1>3, <2>2
    <3>2. Started(l, o[k].run)
      BY <1>6, <3>1
    <3>3. PICK j \in DOMAIN l :
            l[j].type = "run.started" /\ l[j].run = o[k].run
      BY <3>2 DEF Started, RunPlaces
    <3>4. j < i
      BY <1>1, <2>2
    <3>. QED BY <1>2, <3>1, <3>3, <3>4
  <2>. QED BY <1>4, <2>1, <2>2
<1>. QED BY <1>5, <1>6 DEF StartedOnce, TokensFollow, L

(* What the handlers append, to the ledger. *)

LEMMA NoRunNoSpend ==
  ASSUME NEW l \in Seq(Event), NEW o \in Seq(Event),
         StartedOnce(l), TokensFollow(l),
         \A k \in DOMAIN o :
           o[k].type \notin {"run.started", "run.token", "run.finished"}
  PROVE  /\ StartedOnce(l \o o) /\ TokensFollow(l \o o)
         /\ \A r : RunPlaces(l \o o, r, "run.token") = RunPlaces(l, r, "run.token")
         /\ \A f : FlowSpend(l \o o, f) = FlowSpend(l, f)
<1>1. StartedOnce(l \o o) /\ TokensFollow(l \o o)
  BY LedgerConcat
<1>2. \A r : /\ RunPlaces(o, r, "run.token") = {}
             /\ RunPlaces(o, r, "run.started") = {}
             /\ RunPlaces(o, r, "run.finished") = {}
  BY DEF RunPlaces
<1>3. ASSUME NEW f PROVE FlowSpend(l \o o, f) = FlowSpend(l, f)
  <2>2. RunsOf(l \o o, f) = RunsOf(l, f)
    BY NoneStarts
  <2>3. \A r : Finished(l \o o, r) <=> Finished(l, r)
    BY <1>2, RunFrame
  <2>4. SettledRuns(l \o o, f) = SettledRuns(l, f)
    BY <2>2, <2>3 DEF SettledRuns
  <2>5. \A r : Cost(l \o o, r) = Cost(l, r)
    BY <1>2, CostFrame
  <2>. QED BY <2>4, <2>5, SameCost DEF FlowSpend
<1>4. \A r : RunPlaces(l \o o, r, "run.token") = RunPlaces(l, r, "run.token")
  BY <1>2, RunPlacesConcat
<1>. QED BY <1>1, <1>3, <1>4

(* Recovery settles what was open, at what it has cost so far. *)
LEMMA RecoverySpend ==
  ASSUME log \in Seq(Event), CyclesRise(log),
         StartedOnce(log), TokensFollow(log), NEW o \in RecoveryEvents
  PROVE  /\ StartedOnce(log \o o) /\ TokensFollow(log \o o)
         /\ \A f : FlowSpend(log \o o, f) = TotalSpend(log, f)
<1>1. /\ o \in Seq(Event)
      /\ \A k \in DOMAIN o :
           o[k].type \in {"run.finished", "cycle.ended", "flow.stateChanged"}
  BY RecoveryEmits
<1>2. StartedOnce(log \o o) /\ TokensFollow(log \o o)
  BY <1>1, LedgerConcat
<1>3. ASSUME NEW f PROVE FlowSpend(log \o o, f) = TotalSpend(log, f)
  <2>2. RunsOf(log \o o, f) = RunsOf(log, f)
    BY <1>1, NoneStarts
  <2>3. ASSUME NEW r \in RunsOf(log, f) PROVE Finished(log \o o, r)
    <3>1. r \in Runs /\ Started(log \o o, r)
      BY <1>1, <2>2, Concat, RunsOfFacts
    <3>2. Open(log \o o) = {}
      BY RecoveryAppend
    <3>. QED BY <3>1, <3>2 DEF Open
  <2>4. SettledRuns(log \o o, f) = RunsOf(log, f)
    BY <2>2, <2>3 DEF SettledRuns
  <2>5. ASSUME NEW r PROVE Cost(log \o o, r) = Cost(log, r)
    <3>1. RunPlaces(o, r, "run.token") = {}
      BY <1>1 DEF RunPlaces
    <3>. QED BY <1>1, <3>1, CostFrame
  <2>. QED BY <2>4, <2>5, SameCost DEF FlowSpend, TotalSpend
<1>. QED BY <1>2, <1>3

LEMMA StartSpend ==
  ASSUME NEW l \in Seq(Event), StartedOnce(l), TokensFollow(l),
         NEW f \in Flows, NEW c \in Nat, NEW r \in Runs, ~ Started(l, r),
         NEW o, o \in {<<RunStarted(r, f, c)>>}
  PROVE  /\ StartedOnce(l \o o) /\ TokensFollow(l \o o)
         /\ \A x : RunPlaces(l \o o, x, "run.token") = RunPlaces(l, x, "run.token")
         /\ RunPlaces(l, r, "run.token") = {}
         /\ \A g : FlowSpend(l \o o, g) = FlowSpend(l, g)
<1>1. o \in Seq(Event)
  <2>1. RunStarted(r, f, c) \in Event
    BY DEF Event, RunStarted
  <2>. QED BY <2>1, Tuples
<1>2. /\ \A k \in DOMAIN o : o[k] = RunStarted(r, f, c)
      /\ \A k, m \in DOMAIN o : k = m
  OBVIOUS
<1>3. \A k \in DOMAIN o : /\ o[k].type = "run.started" /\ o[k].run = r
                          /\ o[k].flow = f
  BY <1>2 DEF RunStarted
<1>4. StartedOnce(l \o o) /\ TokensFollow(l \o o)
  BY <1>1, <1>2, <1>3, LedgerConcat
<1>5. \A x : RunPlaces(o, x, "run.token") = {} /\ RunPlaces(o, x, "run.finished") = {}
  BY <1>3 DEF RunPlaces
<1>6. \A x : RunPlaces(l \o o, x, "run.token") = RunPlaces(l, x, "run.token")
  BY <1>1, <1>5, RunPlacesConcat
<1>7. RunPlaces(l, r, "run.token") = {}
  BY DEF TokensFollow, RunPlaces, Started
<1>8. ASSUME NEW g PROVE FlowSpend(l \o o, g) = FlowSpend(l, g)
  <2>1. RunsOf(o, g) \subseteq {r}
    BY <1>3 DEF RunsOf, Places
  <2>2. RunsOf(l \o o, g) = RunsOf(l, g) \cup RunsOf(o, g)
    BY <1>1, RunsOfConcat
  <2>3. ~ Finished(l \o o, r) /\ ~ Finished(l, r)
    <3>1. RunPlaces(o, r, "run.started") # {}
      <4>1. 1 \in DOMAIN o
        OBVIOUS
      <4>. QED BY <1>3, <4>1 DEF RunPlaces
    <3>. QED BY <1>1, <1>5, <3>1, RunOpens DEF Finished
  <2>4. ASSUME NEW x, x # r PROVE Finished(l \o o, x) <=> Finished(l, x)
    <3>1. RunPlaces(o, x, "run.started") = {}
      BY <1>3, <2>4 DEF RunPlaces
    <3>. QED BY <1>1, <1>5, <3>1, RunFrame
  <2>5. SettledRuns(l \o o, g) = SettledRuns(l, g)
    BY <2>1, <2>2, <2>3, <2>4 DEF SettledRuns
  <2>6. \A x : Cost(l \o o, x) = Cost(l, x)
    BY <1>1, <1>5, CostFrame
  <2>. QED BY <2>5, <2>6, SameCost DEF FlowSpend
<1>. QED BY <1>4, <1>6, <1>7, <1>8

(* A run's end settles it, for its own flow alone. *)
LEMMA FinishSpend ==
  ASSUME NEW l \in Seq(Event), CyclesRise(l), StartedOnce(l), TokensFollow(l),
         NEW r \in Runs, Started(l, r), ~ Finished(l, r),
         RunPlaces(l, r, "run.token") = {},
         NEW cost \in Nat,
         NEW o, \/ cost = 0 /\ o = <<RunFinished(r)>>
                \/ o = <<RunToken(r, cost), RunFinished(r)>>
  PROVE  /\ StartedOnce(l \o o) /\ TokensFollow(l \o o)
         /\ \A x : x # r => RunPlaces(l \o o, x, "run.token")
                              = RunPlaces(l, x, "run.token")
         /\ StartOf(l, r).flow \in Flows
         /\ \A g : FlowSpend(l \o o, g) = FlowSpend(l, g) +
                     (IF g = StartOf(l, r).flow THEN cost ELSE 0)
<1>1. o \in Seq(Event)
  <2>1. RunFinished(r) \in Event /\ RunToken(r, cost) \in Event
    BY DEF Event, RunFinished, RunToken
  <2>. QED BY <2>1, Tuples
<1>2. \A k \in DOMAIN o : o[k] \in {RunFinished(r), RunToken(r, cost)}
  OBVIOUS
<1>3. \A k \in DOMAIN o :
        /\ o[k].type \in {"run.finished", "run.token"} /\ o[k].run = r
        /\ o[k].type = "run.token" => o[k].cost = cost
  BY <1>2 DEF RunFinished, RunToken
<1>4. StartedOnce(l \o o) /\ TokensFollow(l \o o)
  BY <1>1, <1>3, LedgerConcat
<1>5. \A x : x # r => /\ RunPlaces(o, x, "run.token") = {}
                      /\ RunPlaces(o, x, "run.finished") = {}
  BY <1>3 DEF RunPlaces
<1>6. \A x : x # r => RunPlaces(l \o o, x, "run.token") = RunPlaces(l, x, "run.token")
  BY <1>1, <1>5, RunPlacesConcat
<1>7. \A x : RunPlaces(o, x, "run.started") = {}
  BY <1>3 DEF RunPlaces
<1>8. PICK i \in DOMAIN l :
        /\ i = Max(RunPlaces(l, r, "run.started"))
        /\ l[i] \in Event /\ l[i].type = "run.started" /\ l[i].run = r
  BY MaxPlace DEF Started
<1>9. PICK f \in Flows : f = l[i].flow
  BY <1>8, EventFacts
<1>10. StartOf(l, r).flow = f
  BY <1>8, <1>9 DEF StartOf
<1>11. \A g : r \in RunsOf(l, g) <=> g = f
  <2>1. r \in RunsOf(l, f)
    BY <1>8, <1>9 DEF RunsOf, Places
  <2>2. ASSUME NEW g, r \in RunsOf(l, g) PROVE g = f
    <3>1. PICK j \in DOMAIN l :
            l[j].type = "run.started" /\ l[j].flow = g /\ l[j].run = r
      BY <2>2 DEF RunsOf, Places
    <3>2. j = i
      BY <1>8, <3>1 DEF StartedOnce
    <3>. QED BY <1>9, <3>1, <3>2
  <2>. QED BY <2>1, <2>2
<1>12. Finished(l \o o, r)
  <2>1. \E k \in DOMAIN o : o[k] = RunFinished(r)
    OBVIOUS
  <2>2. RunPlaces(o, r, "run.finished") # {}
    BY <2>1 DEF RunPlaces, RunFinished
  <2>. QED BY <1>1, <1>7, <2>2, RunEnds
<1>13. \A x : x # r => (Finished(l \o o, x) <=> Finished(l, x))
  BY <1>1, <1>5, <1>7, RunFrame
<1>14. \A x : x # r => Cost(l \o o, x) = Cost(l, x)
  BY <1>1, <1>5, CostFrame
<1>15. Cost(l \o o, r) = cost
  <2>1. CASE cost = 0 /\ o = <<RunFinished(r)>>
    <3>1. \A k \in DOMAIN o : o[k] = RunFinished(r)
      BY <2>1
    <3>2. RunPlaces(o, r, "run.token") = {}
      BY <3>1 DEF RunPlaces, RunFinished
    <3>3. Cost(l \o o, r) = Cost(l, r)
      BY <1>1, <3>2, CostFrame
    <3>. QED BY <2>1, <3>3 DEF Cost
  <2>2. CASE o = <<RunToken(r, cost), RunFinished(r)>>
    <3>1. \E k \in DOMAIN o : o[k] = RunToken(r, cost)
      BY <2>2
    <3>2. RunPlaces(o, r, "run.token") # {}
      BY <3>1 DEF RunPlaces, RunToken
    <3>3. \A k \in RunPlaces(o, r, "run.token") : o[k].cost = cost
      BY <1>3 DEF RunPlaces
    <3>. QED BY <1>1, <3>2, <3>3, CostTold
  <2>. QED BY <2>1, <2>2
<1>16. ASSUME NEW g
       PROVE  FlowSpend(l \o o, g) = FlowSpend(l, g) +
                (IF g = f THEN cost ELSE 0)
  <2> DEFINE S == SettledRuns(l, g)
  <2>1. RunsOf(l \o o, g) = RunsOf(l, g)
    BY <1>1, <1>3, NoneStarts
  <2>2. r \notin S /\ IsFiniteSet(S)
    BY RunsOfFacts DEF SettledRuns
  <2>3. CostOf(l \o o, S) = CostOf(l, S)
    <3>1. \A x \in S : Cost(l \o o, x) = Cost(l, x)
      BY <1>14, <2>2
    <3>. QED BY <3>1, SameCost
  <2>4. CASE g = f
    <3>1. SettledRuns(l \o o, g) = S \cup {r}
      <4>1. r \in RunsOf(l, g)
        BY <1>11, <2>4
      <4>. QED BY <1>12, <1>13, <2>1, <4>1 DEF SettledRuns
    <3>2. l \o o \in Seq(Event)
      BY <1>1, Concat
    <3> HIDE DEF S
    <3>3. CostOf(l \o o, S \cup {r}) = CostOf(l \o o, S) + cost
      BY <1>15, <2>2, <3>2, OneMoreCost
    <3>. QED BY <2>3, <2>4, <3>1, <3>3 DEF FlowSpend, S
  <2>5. CASE g # f
    <3>1. SettledRuns(l \o o, g) = S
      <4>1. r \notin RunsOf(l, g)
        BY <1>11, <2>5
      <4>. QED BY <1>13, <2>1, <4>1 DEF SettledRuns
    <3>2. CostOf(l, S) \in Nat
      BY <2>2, CostOfNat
    <3>. QED BY <2>3, <2>5, <3>1, <3>2 DEF FlowSpend
  <2>. QED BY <2>4, <2>5
<1>. QED BY <1>4, <1>6, <1>9, <1>10, <1>16

(* What a flow's runs have cost is at least what the settled ones have. *)
LEMMA SpendBounds ==
  ASSUME NEW l \in Seq(Event), NEW f
  PROVE  /\ FlowSpend(l, f) \in Nat /\ TotalSpend(l, f) \in Nat
         /\ TotalSpend(l, f) - FlowSpend(l, f) \in Nat
<1> DEFINE S == SettledRuns(l, f)
           O == RunsOf(l, f) \ S
           B == {U \in SUBSET O : ~ (CostOf(l, S) <= CostOf(l, S \cup U))}
<1>1. IsFiniteSet(S) /\ IsFiniteSet(O) /\ IsFiniteSet(RunsOf(l, f))
      /\ S \cup O = RunsOf(l, f)
  BY RunsOfFacts, FS_Subset DEF SettledRuns
<1>2. \A U \in SUBSET O : CostOf(l, S \cup U) \in Nat
  <2>1. \A U \in SUBSET O : IsFiniteSet(S \cup U)
    BY <1>1, FS_Subset
  <2>. QED BY <2>1, CostOfNat
<1>3. CostOf(l, S) \in Nat
  BY <1>1, CostOfNat
<1>4. ASSUME B # {} PROVE FALSE
  <2>0. B \in SUBSET (SUBSET O)
    OBVIOUS
  <2>1. PICK U \in B : \A V \in B : V \subseteq U => V = U
    <3> HIDE DEF B, O
    <3>. QED BY <1>1, <1>4, <2>0, MinimalSubset
  <2>2. U # {}
    <3>1. U = {} => S \cup U = S
      OBVIOUS
    <3>2. CostOf(l, S) <= CostOf(l, S)
      BY <1>3
    <3>3. ~ (CostOf(l, S) <= CostOf(l, S \cup U))
      BY <2>1
    <3> HIDE DEF S
    <3>. QED BY <3>1, <3>2, <3>3
  <2>3. PICK u \in U : TRUE
    BY <2>2
  <2> DEFINE V == U \ {u}
  <2>4. V \in SUBSET O /\ V \subseteq U /\ V # U /\ u \in O
        /\ S \cup U = (S \cup V) \cup {u} /\ u \notin S \cup V
    BY <2>1, <2>3
  <2>5. CostOf(l, S) <= CostOf(l, S \cup V)
    BY <2>1, <2>4
  <2>6. CostOf(l, S \cup U) = CostOf(l, S \cup V) + Cost(l, u)
    <3>1. IsFiniteSet(S \cup V)
      BY <1>1, <2>4, FS_Subset
    <3> HIDE DEF S, V
    <3>. QED BY <2>4, <3>1, OneMoreCost
  <2>7. Cost(l, u) \in Nat /\ CostOf(l, S \cup V) \in Nat
    BY <1>2, <2>4, CostNat
  <2>8. ~ (CostOf(l, S) <= CostOf(l, S \cup U))
    BY <2>1
  <2> HIDE DEF S, V
  <2>. QED BY <1>3, <2>5, <2>6, <2>7, <2>8
<1>5. CostOf(l, S) <= CostOf(l, S \cup O) /\ CostOf(l, S \cup O) \in Nat
  BY <1>2, <1>4
<1>6. /\ TotalSpend(l, f) = CostOf(l, S \cup O)
      /\ FlowSpend(l, f) = CostOf(l, S)
  BY <1>1 DEF FlowSpend, TotalSpend
<1> HIDE DEF S, O
<1>. QED BY <1>3, <1>5, <1>6

----------------------------------------------------------------------------
(* The meter against the log with the events still to be appended.  Until   *)
(* recovery the two agree; from then on the meter lacks what recovery      *)
(* settled after it was folded.                                            *)

MeterFits ==
  /\ pc \in {"load", "recover"} =>
       \A f \in Flows : meter[f] = FlowSpend(Full, f)
  /\ pc \in {"preflight", "dry", "serving"} =>
       \A f \in Flows : meter[f] = FlowSpend(Full, f) - missed[f]

LedgerInv ==
  /\ StartedOnce(Full) /\ TokensFollow(Full)
  /\ \A r \in live : RunPlaces(Full, r, "run.token") = {}
  /\ pc = "off" => out = <<>>
  /\ meter \in [Flows -> Nat] /\ missed \in [Flows -> Nat]
  /\ MeterFits

LEMMA InitLedger == Init => LedgerInv
<1> SUFFICES ASSUME Init PROVE LedgerInv
  OBVIOUS
<1>1. Full = <<>>
  BY ConcatEmptySeq DEF Init, Full
<1>2. DOMAIN Full = {}
  BY <1>1
<1>3. StartedOnce(Full) /\ TokensFollow(Full)
  BY <1>2 DEF StartedOnce, TokensFollow
<1>. QED BY <1>3 DEF Init, LedgerInv, MeterFits, Zero

(* Steps that leave the log and the runs alone. *)
LEMMA SilentLedger ==
  ASSUME LogInv, LedgerInv,
         \/ Flush \/ Preflight \/ Probe \/ Serve \/ UNCHANGED vars
         \/ \E r \in Runs, f \in Flows, c \in 1 .. MaxCycle : RequestSpawn(r, f, c)
         \/ \E l \in prompting : LoseLease(l)
         \/ \E f \in Flows : RefuseBarrier(f)
  PROVE  LedgerInv'
<1> USE DEF runVars, bootVars, cycleVars
<1>1. CASE Flush
  <2>1. Full' = Full
    BY <1>1, FlushFull DEF LogInv
  <2>2. live' = live /\ meter' = meter /\ missed' = missed /\ pc' = pc
    BY <1>1 DEF Flush
  <2>3. pc' = "off" => out' = <<>>
    BY <1>1 DEF Flush, LedgerInv
  <2>4. MeterFits'
    BY <2>1, <2>2 DEF LedgerInv, MeterFits
  <2>. QED BY <2>1, <2>2, <2>3, <2>4 DEF LedgerInv
<1>2. ASSUME \/ Preflight \/ Probe \/ Serve \/ UNCHANGED vars
             \/ \E r \in Runs, f \in Flows, c \in 1 .. MaxCycle :
                  RequestSpawn(r, f, c)
             \/ \E l \in prompting : LoseLease(l)
             \/ \E f \in Flows : RefuseBarrier(f)
      PROVE  LedgerInv'
  <2>1. /\ log' = log /\ out' = out /\ live' = live /\ meter' = meter
        /\ missed' = missed
        /\ pc' = pc \/ (pc = "preflight" /\ pc' = "serving")
    BY <1>2 DEF Preflight, Probe, Serve, RequestSpawn, LoseLease, RefuseBarrier,
                Reject, vars, engineVars
  <2>2. Full' = Full
    BY <2>1 DEF Full
  <2>3. MeterFits'
    BY <2>1, <2>2 DEF LedgerInv, MeterFits
  <2>. QED BY <2>1, <2>2, <2>3 DEF LedgerInv
<1>. QED BY <1>1, <1>2

LEMMA BuildLedger ==
  ASSUME LogInv, LedgerInv, Build
  PROVE  LedgerInv'
<1>1. /\ pc = "off" /\ pc' = "load" /\ log' = log /\ out' = out
      /\ live' = live /\ missed' = missed
      /\ meter' = [f \in Flows |-> FlowSpend(log, f)]
  BY DEF Build, runVars
<1>2. Full = log /\ Full' = log /\ log \in Seq(Event)
  BY <1>1, QuietFull DEF LedgerInv, LogInv, LogTyped, Quiet, Full
<1>3. \A f \in Flows : FlowSpend(log, f) \in Nat
  BY <1>2, SpendBounds
<1>4. MeterFits'
  BY <1>1, <1>2 DEF MeterFits
<1>. QED BY <1>1, <1>2, <1>3, <1>4 DEF LedgerInv

LEMMA HaltLedger ==
  ASSUME LogInv, LedgerInv, Halt
  PROVE  LedgerInv'
<1>1. /\ log' = log /\ out' = <<>> /\ pc' = "off" /\ live' = {}
      /\ meter' = Zero /\ missed' = Zero /\ log \in Seq(Event)
  BY DEF Halt, LogInv, LogTyped
<1>2. Full' = log
  BY <1>1, ConcatEmptySeq DEF Full
<1>3. StartedOnce(log) /\ TokensFollow(log)
  BY LedgerPrefix DEF LedgerInv, LogInv, LogTyped, Full
<1>. QED BY <1>1, <1>2, <1>3 DEF LedgerInv, MeterFits, Zero

(* Steps that append no event of a run. *)
LEMMA NoRunLedger ==
  ASSUME LogInv, LedgerInv, Quiet,
         live' = live, meter' = meter, missed' = missed, log' = log,
         \/ pc \in {"load", "recover"} /\ pc' \in {"load", "recover"}
         \/ pc \in {"preflight", "dry", "serving"} /\ pc' \in {"dry", "serving"},
         NEW o \in Seq(Event), out' = o,
         \A k \in DOMAIN o :
           o[k].type \notin {"run.started", "run.token", "run.finished"}
  PROVE  LedgerInv'
<1>1. Full = log /\ log \in Seq(Event) /\ Full' = log \o o
  BY QuietFull DEF LogInv, LogTyped, Full
<1>2. /\ StartedOnce(log \o o) /\ TokensFollow(log \o o)
      /\ \A r : RunPlaces(log \o o, r, "run.token") = RunPlaces(log, r, "run.token")
      /\ \A f : FlowSpend(log \o o, f) = FlowSpend(log, f)
  BY <1>1, NoRunNoSpend DEF LedgerInv
<1>3. MeterFits'
  BY <1>1, <1>2 DEF LedgerInv, MeterFits
<1>. QED BY <1>1, <1>2, <1>3 DEF LedgerInv

LEMMA LoadLedger ==
  ASSUME LogInv, LedgerInv, LoadFlows
  PROVE  LedgerInv'
<1>1. PICK S \in SUBSET Flows :
        \E files \in Listings(S) :
          out' = [i \in DOMAIN files |-> Upserted(files[i])]
  BY DEF LoadFlows
<1>6. PICK o : o = out'
  OBVIOUS
<1>2. PICK files \in Listings(S) :
        o = [i \in DOMAIN files |-> Upserted(files[i])] /\ out' = o
  BY <1>1, <1>6
<1>3. o \in Seq(Event)
  <2>1. log \in Seq(Event) /\ CyclesRise(log)
    BY QuietFull DEF LoadFlows, LogInv, LogTyped
  <2>. QED BY <1>2, <2>1, LoadAppend
<1>4. \A k \in DOMAIN o : o[k].type = "flow.upserted"
  BY <1>2 DEF Upserted
<1>5. /\ Quiet /\ live' = live /\ meter' = meter /\ missed' = missed
      /\ log' = log /\ pc = "load" /\ pc' = "recover"
  BY DEF LoadFlows, runVars
<1>. QED BY <1>2, <1>3, <1>4, <1>5, NoRunLedger

LEMMA CycleLedger ==
  ASSUME LogInv, LedgerInv, Quiet, NEW f \in Flows,
         \/ DryRun /\ f = dry
         \/ StartCycle(f) \/ Rearm(f)
         \/ \E s \in {"ocioso", "aguardando"} : EndCycle(f, s)
  PROVE  LedgerInv'
<1>1. PICK c \in Nat : c = CycleCounter(log, f) + 1
  <2>1. CycleCounter(log, f) \in Nat
    BY CounterFacts DEF LogInv, LogTyped
  <2>. QED BY <2>1
<1>2. PICK d \in Nat : d = running[f]
  BY DEF LogInv, LogTyped
<1>3. PICK s \in States :
        out' \in {<<CycleStarted(f, c), StateChanged(f, s)>>,
                  <<CycleEnded(f, d), StateChanged(f, s)>>,
                  <<CycleEnded(f, d), CycleStarted(f, c), StateChanged(f, s)>>}
  BY <1>1, <1>2 DEF DryRun, StartCycle, Rearm, EndCycle, Begin, NextCycle, States
<1>4. PICK o : o = out'
  OBVIOUS
<1>5. o \in Seq(Event)
  <2>1. /\ CycleStarted(f, c) \in Event /\ CycleEnded(f, d) \in Event
        /\ StateChanged(f, s) \in Event
    BY DEF Event, CycleStarted, CycleEnded, StateChanged, States
  <2>. QED BY <1>3, <1>4, <2>1, Tuples
<1>6. \A k \in DOMAIN o : o[k] \in {CycleStarted(f, c), CycleEnded(f, d),
                                    StateChanged(f, s)}
  BY <1>3, <1>4
<1>7. \A k \in DOMAIN o :
        o[k].type \notin {"run.started", "run.token", "run.finished"}
  BY <1>6 DEF CycleStarted, CycleEnded, StateChanged
<1>8. /\ live' = live /\ meter' = meter /\ missed' = missed /\ log' = log
      /\ pc \in {"preflight", "dry", "serving"} /\ pc' \in {"dry", "serving"}
  BY DEF DryRun, StartCycle, Rearm, EndCycle, Serving, runVars, bootVars
<1>. QED BY <1>4, <1>5, <1>7, <1>8, NoRunLedger

LEMMA RecoverLedger ==
  ASSUME LogInv, LedgerInv, RecoverOrphans
  PROVE  LedgerInv'
<1>1. /\ Quiet /\ log' = log /\ Full = log /\ log \in Seq(Event)
      /\ pc = "recover" /\ pc' = "preflight" /\ live' = live /\ meter' = meter
      /\ missed' = [f \in Flows |-> TotalSpend(log, f) - FlowSpend(log, f)]
      /\ CyclesRise(log)
  BY QuietFull DEF RecoverOrphans, LogInv, LogTyped, runVars
<1>2. PICK o \in RecoveryEvents : o = out'
  BY DEF RecoverOrphans
<1>3. /\ StartedOnce(log \o o) /\ TokensFollow(log \o o)
      /\ \A f : FlowSpend(log \o o, f) = TotalSpend(log, f)
  BY <1>1, RecoverySpend DEF LedgerInv
<1>4. Full' = log \o o
  BY <1>1, <1>2 DEF Full
<1>5. live' = {}
  BY <1>1 DEF LogInv, LiveInv
<1>6. \A f \in Flows : /\ FlowSpend(log, f) \in Nat /\ TotalSpend(log, f) \in Nat
                       /\ TotalSpend(log, f) - FlowSpend(log, f) \in Nat
  BY <1>1, SpendBounds
<1>7. ASSUME NEW f \in Flows
      PROVE  meter'[f] = FlowSpend(Full', f) - missed'[f]
  <2>1. meter'[f] = FlowSpend(log, f)
    BY <1>1 DEF LedgerInv, MeterFits
  <2>2. FlowSpend(Full', f) = TotalSpend(log, f)
    BY <1>3, <1>4
  <2>3. missed'[f] = TotalSpend(log, f) - FlowSpend(log, f)
    BY <1>1
  <2>. QED BY <1>6, <2>1, <2>2, <2>3
<1>8. MeterFits'
  BY <1>1, <1>7 DEF MeterFits
<1>. QED BY <1>1, <1>3, <1>4, <1>5, <1>6, <1>8 DEF LedgerInv

LEMMA RunLedger ==
  ASSUME LogInv, PromptInv, LedgerInv,
         \/ \E r \in Runs : FinishRun(r)
         \/ \E l \in prompting : StartRun(l)
  PROVE  LedgerInv'
<1>1. /\ Quiet /\ log' = log /\ Full = log /\ pc' = pc /\ missed' = missed
      /\ log \in Seq(Event) /\ CyclesRise(log) /\ pc \in {"dry", "serving"}
      /\ Open(log) = live /\ StartedOnce(log) /\ TokensFollow(log)
      /\ \A x \in live : RunPlaces(log, x, "run.token") = {}
      /\ \A f \in Flows : meter[f] = FlowSpend(log, f) - missed[f]
  BY QuietFull DEF FinishRun, StartRun, Serving, LiveInv, LogInv, LogTyped,
                   LedgerInv, MeterFits, bootVars
<1>2. PICK o : o = out'
  OBVIOUS
<1>3. Full' = log \o o
  BY <1>1, <1>2 DEF Full
<1>4. ASSUME NEW r \in Runs, FinishRun(r) PROVE LedgerInv'
  <2>1. /\ r \in live /\ live' = live \ {r} /\ Started(log, r)
        /\ ~ Finished(log, r)
    BY <1>1, <1>4 DEF FinishRun, Open
  <2>2. PICK cost \in Costs \cup {0} :
          /\ o = (IF cost = 0 THEN <<>> ELSE <<RunToken(r, cost)>>)
                   \o <<RunFinished(r)>>
          /\ meter' = [meter EXCEPT ![StartOf(log, r).flow] = @ + cost]
    BY <1>2, <1>4 DEF FinishRun
  <2>3. cost \in Nat
    BY RestartAssumption
  <2>4. \/ cost = 0 /\ o = <<RunFinished(r)>>
        \/ o = <<RunToken(r, cost), RunFinished(r)>>
    <3>1. RunFinished(r) \in Event /\ RunToken(r, cost) \in Event
      BY <2>3 DEF Event, RunFinished, RunToken
    <3>2. <<>> \o <<RunFinished(r)>> = <<RunFinished(r)>>
      BY <3>1, ConcatEmptySeq, Tuples
    <3>3. <<RunToken(r, cost)>> \o <<RunFinished(r)>>
            = <<RunToken(r, cost), RunFinished(r)>>
      BY <3>1, Pair
    <3>. QED BY <2>2, <3>2, <3>3
  <2>5. /\ StartedOnce(log \o o) /\ TokensFollow(log \o o)
        /\ \A x : x # r => RunPlaces(log \o o, x, "run.token")
                             = RunPlaces(log, x, "run.token")
        /\ StartOf(log, r).flow \in Flows
        /\ \A g : FlowSpend(log \o o, g) = FlowSpend(log, g) +
                    (IF g = StartOf(log, r).flow THEN cost ELSE 0)
    BY <1>1, <2>1, <2>3, <2>4, FinishSpend
  <2>6. \A f \in Flows : FlowSpend(log, f) \in Nat
    BY <1>1, SpendBounds
  <2>7. PICK e \in Flows : e = StartOf(log, r).flow
    BY <2>5
  <2>8. meter' \in [Flows -> Nat]
    BY <2>2, <2>3, <2>7 DEF LedgerInv
  <2>9. ASSUME NEW f \in Flows
        PROVE  meter'[f] = FlowSpend(Full', f) - missed'[f]
    <3>1. meter[f] \in Nat /\ missed[f] \in Nat /\ missed'[f] = missed[f]
          /\ meter[f] = FlowSpend(log, f) - missed[f]
      BY <1>1 DEF LedgerInv
    <3>2. FlowSpend(Full', f) = FlowSpend(log, f) + (IF f = e THEN cost ELSE 0)
      BY <1>3, <2>5, <2>7
    <3>3. meter'[f] = meter[f] + (IF f = e THEN cost ELSE 0)
      BY <2>2, <2>3, <2>7, <3>1 DEF LedgerInv
    <3>4. FlowSpend(log, f) \in Nat
      BY <2>6
    <3>. QED BY <2>3, <3>1, <3>2, <3>3, <3>4
  <2>10. MeterFits'
    BY <1>1, <2>9 DEF MeterFits
  <2>11. \A x \in live' : RunPlaces(Full', x, "run.token") = {}
    BY <1>1, <1>3, <2>1, <2>5
  <2>. QED BY <1>1, <1>3, <2>5, <2>8, <2>10, <2>11 DEF LedgerInv
<1>5. ASSUME NEW l \in prompting, StartRun(l) PROVE LedgerInv'
  <2>1. PICK r \in Runs, f \in Flows, c \in Nat :
          r = l.run /\ f = l.flow /\ c = l.cycle
    BY RestartAssumption DEF PromptInv, Lease
  <2>2. live' = live \cup {r} /\ ~ Started(log, r) /\ meter' = meter
    BY <1>1, <1>5, <2>1 DEF StartRun, PromptInv
  <2>3. o \in {<<RunStarted(r, f, c)>>}
    BY <1>2, <1>5, <2>1 DEF StartRun
  <2>4. /\ StartedOnce(log \o o) /\ TokensFollow(log \o o)
        /\ \A x : RunPlaces(log \o o, x, "run.token")
                    = RunPlaces(log, x, "run.token")
        /\ RunPlaces(log, r, "run.token") = {}
        /\ \A g : FlowSpend(log \o o, g) = FlowSpend(log, g)
    BY <1>1, <2>2, <2>3, StartSpend
  <2>5. MeterFits'
    BY <1>1, <1>3, <2>2, <2>4 DEF MeterFits
  <2>. QED BY <1>1, <1>3, <2>2, <2>4, <2>5 DEF LedgerInv
<1>. QED BY <1>4, <1>5

LEMMA LedgerStep ==
  ASSUME LogInv, PromptInv, LedgerInv, [Next]_vars
  PROVE  LedgerInv'
<1>1. CASE Flush \/ Preflight \/ Probe \/ Serve \/ UNCHANGED vars
  BY <1>1, SilentLedger
<1>2. CASE Build
  BY <1>2, BuildLedger
<1>3. CASE LoadFlows
  BY <1>3, LoadLedger
<1>4. CASE RecoverOrphans
  BY <1>4, RecoverLedger
<1>5. CASE DryRun
  <2>1. dry \in Flows /\ Quiet
    BY <1>5 DEF DryRun, LogInv, LogTyped, ProbeWaits
  <2>2. PICK f \in Flows : f = dry
    BY <2>1
  <2>. QED BY <1>5, <2>1, <2>2, CycleLedger
<1>6. ASSUME NEW f \in Flows,
             \/ StartCycle(f) \/ Rearm(f)
             \/ \E s \in {"ocioso", "aguardando"} : EndCycle(f, s)
      PROVE  LedgerInv'
  <2>1. Quiet
    BY <1>6 DEF StartCycle, Rearm, EndCycle
  <2>. QED BY <1>6, <2>1, CycleLedger
<1>7. ASSUME \/ \E r \in Runs : FinishRun(r)
             \/ \E l \in prompting : StartRun(l)
      PROVE  LedgerInv'
  BY <1>7, RunLedger
<1>8. CASE DryRunEnds \/ Stop
  BY <1>8, HaltLedger DEF DryRunEnds, Stop
<1>9. ASSUME \/ \E r \in Runs, f \in Flows, c \in 1 .. MaxCycle :
                  RequestSpawn(r, f, c)
             \/ \E l \in prompting : LoseLease(l)
             \/ \E f \in Flows : RefuseBarrier(f)
      PROVE  LedgerInv'
  BY <1>9, SilentLedger
<1>. QED BY <1>1, <1>2, <1>3, <1>4, <1>5, <1>6, <1>7, <1>8, <1>9 DEF Next

(* guard.ts and eventlog.ts: the meter is what the log has settled of each   *)
(* flow, but for the runs this boot's recovery finished, which it lacks.   *)
THEOREM RestartMeterIsLog == RestartSpec => []MeterIsLog
<1>1. LogInv /\ LedgerInv => MeterIsLog
  <2> SUFFICES ASSUME LogInv, LedgerInv, Quiet, pc # "off", NEW f \in Flows
               PROVE  meter[f] = FlowSpend(log, f) -
                        (IF pc \in {"load", "recover"} THEN 0 ELSE missed[f])
    BY DEF MeterIsLog
  <2>1. Full = log /\ log \in Seq(Event)
    BY QuietFull DEF LogInv, LogTyped
  <2>2. FlowSpend(log, f) \in Nat
    BY <2>1, SpendBounds
  <2>3. CASE pc \in {"load", "recover"}
    BY <2>1, <2>2, <2>3 DEF LedgerInv, MeterFits
  <2>4. CASE pc \in {"preflight", "dry", "serving"}
    BY <2>1, <2>4 DEF LedgerInv, MeterFits
  <2>. QED BY <2>3, <2>4 DEF LogInv, LogTyped
<1>2. BootInv /\ LedgerInv /\ [Next]_vars => (BootInv /\ LedgerInv)'
  BY BootStep, LedgerStep DEF BootInv
<1>3. BootInv => LogInv
  BY DEF BootInv
<1>. QED BY InitBoot, InitLedger, <1>1, <1>2, <1>3, PTL DEF RestartSpec

----------------------------------------------------------------------------
(* What the engine holds is of the flows its store has. *)

HeldInv ==
  /\ running \in [Flows -> 0 .. MaxCycle]
  /\ awaiting \subseteq cache /\ thrown \subseteq cache /\ lost \subseteq Lease
  /\ stray \subseteq [flow : Flows, cycle : 1 .. MaxCycle]
  /\ \A f \in Flows : running[f] > 0 => f \in cache
  /\ pc \in {"off", "load"} => awaiting = {} /\ running = Zero /\ thrown = {}

LEMMA InitHeld == Init => HeldInv
BY RestartAssumption DEF Init, HeldInv, Zero

LEMMA BeginHeld ==
  ASSUME LogInv, HeldInv, NEW f \in Flows, f \in cache,
         NextCycle(f) <= MaxCycle, Begin(f, NextCycle(f)), cache' = cache,
         awaiting' \subseteq awaiting, stray' = stray, lost' = lost,
         pc' \notin {"off", "load"}
  PROVE  HeldInv'
<1>1. PICK c \in Nat : c = NextCycle(f)
  <2>1. CycleCounter(log, f) \in Nat
    BY CounterFacts DEF LogInv, LogTyped
  <2>. QED BY <2>1 DEF NextCycle
<1>2. c \in 0 .. MaxCycle
  BY <1>1, RestartAssumption
<1>3. running' = [running EXCEPT ![f] = c] /\ thrown' = thrown \ {f}
  BY <1>1 DEF Begin
<1>. QED BY <1>2, <1>3 DEF HeldInv

(* A cycle that rejects was one in progress. *)
LEMMA RejectHeld ==
  ASSUME HeldInv, NEW f \in Flows, running[f] > 0, Reject(f),
         pc \notin {"off", "load"}, lost' \subseteq Lease,
         stray' \subseteq [flow : Flows, cycle : 1 .. MaxCycle]
  PROVE  HeldInv'
<1>1. /\ running' = [running EXCEPT ![f] = 0] /\ thrown' = thrown \cup {f}
      /\ awaiting' = awaiting /\ cache' = cache /\ pc' = pc
  BY DEF Reject, bootVars
<1>2. 0 \in 0 .. MaxCycle
  BY RestartAssumption
<1>3. f \in cache
  BY DEF HeldInv
<1>. QED BY <1>1, <1>2, <1>3 DEF HeldInv

LEMMA HeldStep ==
  ASSUME LogInv, PromptInv, HeldInv, [Next]_vars
  PROVE  HeldInv'
<1> USE DEF runVars, cycleVars, bootVars
<1>1. CASE \/ Flush \/ Build \/ RecoverOrphans \/ Preflight \/ Probe \/ Serve
           \/ UNCHANGED vars
  <2>1. UNCHANGED <<cycleVars, lost, cache>>
    BY <1>1 DEF Flush, Build, RecoverOrphans, Preflight, Probe, Serve, vars,
                engineVars
  <2>2. pc' \in {"off", "load"} => pc \in {"off", "load"}
    BY <1>1 DEF Flush, Build, RecoverOrphans, Preflight, Probe, Serve, vars,
                engineVars
  <2>. QED BY <2>1, <2>2 DEF HeldInv
<1>2. CASE LoadFlows
  <2>1. UNCHANGED <<cycleVars, lost>> /\ pc = "load" /\ pc' = "recover"
    BY <1>2 DEF LoadFlows
  <2>2. awaiting = {} /\ thrown = {} /\ \A f \in Flows : running[f] = 0
    BY <2>1 DEF HeldInv, Zero
  <2>. QED BY <2>1, <2>2 DEF HeldInv
<1>3. CASE DryRun
  <2>1. dry \in Flows /\ dry \in cache
    BY <1>3 DEF DryRun, LogInv, LogTyped
  <2>2. PICK f \in Flows : f = dry
    BY <2>1
  <2>3. CycleCounter(log, f) \in Nat
    BY CounterFacts DEF LogInv, LogTyped
  <2>4. NextCycle(f) <= MaxCycle /\ Begin(f, NextCycle(f))
    BY <1>3, <2>2, <2>3, RestartAssumption DEF DryRun, NextCycle
  <2>5. UNCHANGED <<cache, awaiting, stray, lost>> /\ pc' = "dry"
    BY <1>3 DEF DryRun
  <2>. QED BY <2>1, <2>2, <2>4, <2>5, BeginHeld
<1>4. ASSUME NEW f \in Flows, StartCycle(f) PROVE HeldInv'
  BY <1>4, BeginHeld DEF StartCycle
<1>5. ASSUME NEW f \in Flows, Rearm(f) PROVE HeldInv'
  <2>1. PICK c \in Nat : c = NextCycle(f)
    <3>1. CycleCounter(log, f) \in Nat
      BY CounterFacts DEF LogInv, LogTyped
    <3>. QED BY <3>1 DEF NextCycle
  <2>2. c \in 0 .. MaxCycle /\ f \in cache
    BY <1>5, <2>1, RestartAssumption DEF Rearm, Joined, HeldInv
  <2>3. /\ running' = [running EXCEPT ![f] = c] /\ cache' = cache
        /\ UNCHANGED <<awaiting, stray, thrown, lost>>
        /\ pc' = pc /\ pc \notin {"off", "load"}
    BY <1>5, <2>1 DEF Rearm, Serving
  <2>. QED BY <2>2, <2>3 DEF HeldInv
<1>6. ASSUME NEW f \in Flows, NEW s \in {"ocioso", "aguardando"}, EndCycle(f, s)
      PROVE  HeldInv'
  <2>1. /\ running' = [running EXCEPT ![f] = 0] /\ cache' = cache
        /\ awaiting' \subseteq awaiting \cup {f} /\ running[f] > 0
        /\ UNCHANGED <<stray, thrown, lost>>
        /\ pc' = pc /\ pc \notin {"off", "load"}
    BY <1>6 DEF EndCycle, Joined, Serving
  <2>2. 0 \in 0 .. MaxCycle
    BY RestartAssumption
  <2>. QED BY <2>1, <2>2 DEF HeldInv
<1>7. ASSUME \/ \E r \in Runs : FinishRun(r)
             \/ \E l \in prompting : StartRun(l)
             \/ \E r \in Runs, f \in Flows, c \in 1 .. MaxCycle : RequestSpawn(r, f, c)
      PROVE  HeldInv'
  BY <1>7 DEF FinishRun, StartRun, RequestSpawn, HeldInv
<1>8. ASSUME NEW l \in prompting, LoseLease(l) PROVE HeldInv'
  <2>1. /\ l \in Lease /\ pc \notin {"off", "load"}
        /\ l.flow \in Flows /\ l.cycle \in 1 .. MaxCycle
    BY <1>8 DEF PromptInv, Lease, LoseLease, Serving
  <2>2. /\ lost' \subseteq Lease
        /\ stray' \subseteq [flow : Flows, cycle : 1 .. MaxCycle]
    BY <1>8, <2>1 DEF LoseLease, HeldInv
  <2>3. CASE running[l.flow] = l.cycle
    <3>1. running[l.flow] > 0
      BY <2>1, <2>3, RestartAssumption
    <3>2. Reject(l.flow)
      BY <1>8, <2>3 DEF LoseLease
    <3>. QED BY <2>1, <2>2, <3>1, <3>2, RejectHeld
  <2>4. CASE running[l.flow] # l.cycle
    <3>1. UNCHANGED <<running, thrown, awaiting, cache, pc>>
      BY <1>8, <2>4 DEF LoseLease
    <3>. QED BY <2>2, <3>1 DEF HeldInv
  <2>. QED BY <2>3, <2>4
<1>9. ASSUME NEW f \in Flows, RefuseBarrier(f) PROVE HeldInv'
  <2>1. /\ running[f] > 0 /\ Reject(f) /\ pc \notin {"off", "load"}
        /\ UNCHANGED <<stray, lost>>
    BY <1>9 DEF RefuseBarrier, Joined, Serving
  <2>2. lost \subseteq Lease /\ stray \subseteq [flow : Flows, cycle : 1 .. MaxCycle]
    BY DEF HeldInv
  <2>. QED BY <2>1, <2>2, RejectHeld
<1>10. CASE DryRunEnds \/ Stop
  BY <1>10, RestartAssumption DEF DryRunEnds, Stop, Halt, HeldInv, Zero
<1>. QED BY <1>1, <1>2, <1>3, <1>4, <1>5, <1>6, <1>7, <1>8, <1>9, <1>10 DEF Next

(* Type correctness: in every boot the meter and what recovery settles are   *)
(* never negative, and only flows of the store run, wait for approval or   *)
(* have thrown.                                                            *)
THEOREM RestartTypeCorrect == RestartSpec => []RestartTypeOK
<1>1. AuthInv /\ BootInv /\ LedgerInv /\ HeldInv => RestartTypeOK
  <2> SUFFICES ASSUME AuthInv, LogInv, PromptInv, LedgerInv, HeldInv
               PROVE  RestartTypeOK
    BY DEF BootInv
  <2>1. live \subseteq Runs
    BY DEF LogInv, LogTyped, LiveInv, Open
  <2>. QED BY <2>1 DEF AuthInv, LogInv, LogTyped, PromptInv, LedgerInv, HeldInv,
                       RestartTypeOK
<1>2. AuthInv /\ BootInv /\ LedgerInv /\ HeldInv /\ [Next]_vars
        => (AuthInv /\ BootInv /\ LedgerInv /\ HeldInv)'
  BY AuthStep, BootStep, LedgerStep, HeldStep DEF BootInv
<1>. QED BY InitAuth, InitBoot, InitLedger, InitHeld, <1>1, <1>2, PTL DEF RestartSpec

=============================================================================
