--------------------------- MODULE ServicesProofs ---------------------------
(***************************************************************************)
(* Proofs about three services of the engine that know nothing of each     *)
(* other nor of the orchestrator: Scheduler, for every set of flows and    *)
(* triggers; Terminals, whatever the panes, the runs and the bounds; and   *)
(* Blackboard, for any calls on any files.                                 *)
(*                                                                         *)
(* Part 1: ClockInv is inductive: a clock belongs to an awake arm, an arm  *)
(* is only awake in a flow that was played, and no arm is ahead of the     *)
(* latest one of its trigger, so that the arm armFlow makes is new.        *)
(*                                                                         *)
(* Part 2: types, and what the status of a run can be trusted for.         *)
(*                                                                         *)
(* Part 3: the lock lets one call at a time write a path, and what         *)
(* blackboard.write tells of a path is what the path holds.                *)
(***************************************************************************)
EXTENDS Scheduler, Terminals, Blackboard, TLAPS

----------------------------------------------------------------------------
(* Part 1: the scheduler. *)

SchedulerTypes ==
  /\ registered \subseteq Triggers
  /\ latest \in [Triggers -> 0 .. MaxArms]
  /\ kind \in [Triggers -> Kinds]
  /\ awake \subseteq Arms /\ timer \subseteq Arms /\ cron \subseteq Arms
  /\ ticking \subseteq Arms
  /\ waiting \in [Arms -> Nat]

ClocksAreAwake == timer \cup cron \subseteq awake

AwakeWasPlayed == \A a \in awake : flowOf(a) \in played

NoneAhead == \A a \in awake : a[2] <= latest[a[1]]

ClockInv ==
  /\ SchedulerTypes /\ ClocksAreAwake /\ AwakeWasPlayed /\ NoneAhead
  /\ AwakeStaysArmed

----------------------------------------------------------------------------

LEMMA CurrentIsArm ==
  ASSUME SchedulerTypes, NEW t \in Triggers
  PROVE  /\ current(t) \in Arms /\ flowOf(current(t)) = FlowOf[t]
         /\ current(t)[1] = t /\ current(t)[2] = latest[t]
BY DEF SchedulerTypes, current, Arms, flowOf

LEMMA ArmsAreCurrent ==
  ASSUME SchedulerTypes, NEW f \in FlowIds
  PROVE  /\ ArmsOf(f) \subseteq Arms
         /\ \A a \in ArmsOf(f) : flowOf(a) = f /\ a[2] <= latest[a[1]]
         /\ \A t \in Triggers : current(t) \in ArmsOf(f)
                                  <=> t \in registered /\ FlowOf[t] = f
<1>1. \A t \in Triggers : /\ current(t) \in Arms /\ flowOf(current(t)) = FlowOf[t]
                          /\ current(t)[1] = t /\ current(t)[2] = latest[t]
  BY CurrentIsArm
<1>2. \A t \in Triggers : latest[t] \in Nat
  BY SchedulerAssumption DEF SchedulerTypes
<1>. QED BY <1>1, <1>2 DEF ArmsOf, Of

LEMMA InitClock == SchedulerInit => ClockInv
BY SchedulerAssumption DEF SchedulerInit, ClockInv, SchedulerTypes, ClocksAreAwake,
   AwakeWasPlayed, NoneAhead, AwakeStaysArmed, Arms

(* Nothing but the cycle of a flow changes. *)
LEMMA ClockFrame ==
  ASSUME ClockInv,
         UNCHANGED <<registryVars, awake, clockVars, tickVars, played, closed>>
  PROVE  ClockInv'
BY DEF ClockInv, SchedulerTypes, ClocksAreAwake, AwakeWasPlayed, NoneAhead,
   AwakeStaysArmed, registryVars, clockVars, tickVars, current

(* A tick that goes off hands its arm over to the cycle or to the wait. *)
LEMMA TickStep ==
  ASSUME ClockInv, NEW a \in Arms, Tick(a)
  PROVE  ClockInv'
<1>. USE DEF registryVars, clockVars, tickVars
<1>1. SchedulerTypes'
  BY SchedulerAssumption DEF ClockInv, SchedulerTypes, Tick
<1>2. (ClocksAreAwake /\ AwakeWasPlayed /\ NoneAhead)'
  BY DEF ClockInv, ClocksAreAwake, AwakeWasPlayed, NoneAhead, Tick
<1>3. /\ timer \subseteq timer' \cup {a} /\ ticking \subseteq ticking'
      /\ ~closed => a \in timer' \cup ticking' \/ waiting'[a] > 0
      /\ closed' = closed
      /\ \A b \in Arms : waiting'[b] >= waiting[b]
  BY DEF ClockInv, SchedulerTypes, Tick, CanFire
<1>4. AwakeStaysArmed'
  BY <1>3, CurrentIsArm DEF ClockInv, AwakeStaysArmed, SchedulerTypes, Tick, current
<1>. QED BY <1>1, <1>2, <1>4 DEF ClockInv

LEMMA PollStep ==
  ASSUME ClockInv, NEW a \in Arms, Poll(a)
  PROVE  ClockInv'
<1>. USE DEF registryVars, clockVars, tickVars
<1>1. SchedulerTypes'
  BY DEF ClockInv, SchedulerTypes, Poll, Rearmed
<1>2. (ClocksAreAwake /\ AwakeWasPlayed /\ NoneAhead)'
  BY DEF ClockInv, ClocksAreAwake, AwakeWasPlayed, NoneAhead, Poll,
     Rearmed
<1>3. /\ timer \subseteq timer' /\ closed' = closed
      /\ ~closed /\ a \in awake => a \in timer'
      /\ \A b \in Arms : b # a => waiting'[b] = waiting[b]
  BY DEF ClockInv, SchedulerTypes, Poll, Rearmed
<1>4. AwakeStaysArmed'
  BY <1>3, CurrentIsArm DEF ClockInv, AwakeStaysArmed, SchedulerTypes, Poll, current
<1>. QED BY <1>1, <1>2, <1>4 DEF ClockInv

LEMMA CycleEndsStep ==
  ASSUME ClockInv, NEW f \in FlowIds, NEW paused \in BOOLEAN, CycleEnds(f, paused)
  PROVE  ClockInv'
<1>. USE DEF registryVars, clockVars, tickVars
<1>1. SchedulerTypes'
  BY DEF ClockInv, SchedulerTypes, CycleEnds, Rearmed
<1>2. (ClocksAreAwake /\ AwakeWasPlayed /\ NoneAhead)'
  BY DEF ClockInv, ClocksAreAwake, AwakeWasPlayed, NoneAhead, CycleEnds,
     Rearmed
<1>3. /\ timer \subseteq timer' /\ closed' = closed
      /\ ~closed => ticking \cap awake \subseteq timer' \cup ticking'
  BY DEF CycleEnds, Rearmed
<1>4. AwakeStaysArmed'
  BY <1>3 DEF ClockInv, AwakeStaysArmed, CycleEnds, current
<1>. QED BY <1>1, <1>2, <1>4 DEF ClockInv

LEMMA ResumeStep ==
  ASSUME ClockInv, NEW f \in FlowIds, resumeFlow(f)
  PROVE  ClockInv'
<1>. USE DEF registryVars, clockVars, tickVars
<1>0. /\ ArmsOf(f) \subseteq Arms
      /\ armIntervalo(ArmsOf(f), kind) \cup armAgendado(ArmsOf(f), kind) \subseteq ArmsOf(f)
      /\ \A a \in ArmsOf(f) : flowOf(a) = f /\ a[2] <= latest[a[1]]
  BY ArmsAreCurrent DEF ClockInv, armIntervalo, armAgendado
<1>1. SchedulerTypes'
  BY <1>0 DEF ClockInv, SchedulerTypes, armOne, resumeFlow
<1>2. (ClocksAreAwake /\ AwakeWasPlayed /\ NoneAhead)'
  BY <1>0 DEF ClockInv, ClocksAreAwake, AwakeWasPlayed, NoneAhead,
     armOne, resumeFlow
<1>3. ASSUME ~closed, NEW t \in registered, current(t) \in awake'
      PROVE  /\ kind[t] = "Agendado" => current(t) \in cron'
             /\ kind[t] = "Intervalo" =>
                  current(t) \in timer' \cup ticking \/ waiting[current(t)] > 0
  <2>. t \in Triggers
    BY DEF ClockInv, SchedulerTypes
  <2>1. CASE FlowOf[t] = f
    BY <2>1, ArmsAreCurrent, CurrentIsArm
    DEF ClockInv, armOne, armIntervalo, armAgendado, resumeFlow
  <2>2. CASE FlowOf[t] # f
    <3>1. current(t) \in awake
      BY <1>3, <2>2, <1>0, CurrentIsArm DEF ClockInv, resumeFlow
    <3>. QED BY <1>3, <3>1 DEF ClockInv, AwakeStaysArmed, armOne, resumeFlow
  <2>. QED BY <2>1, <2>2
<1>4. AwakeStaysArmed'
  BY <1>3 DEF AwakeStaysArmed, resumeFlow, current
<1>. QED BY <1>1, <1>2, <1>4 DEF ClockInv

LEMMA PauseStep ==
  ASSUME ClockInv, NEW f \in FlowIds, pauseFlow(f)
  PROVE  ClockInv'
<1>. USE DEF registryVars, clockVars, tickVars
<1>1. SchedulerTypes'
  BY DEF ClockInv, SchedulerTypes, pauseFlow, disposeArm
<1>2. (ClocksAreAwake /\ AwakeWasPlayed /\ NoneAhead)'
  BY DEF ClockInv, ClocksAreAwake, AwakeWasPlayed, NoneAhead, pauseFlow,
     disposeArm
<1>3. AwakeStaysArmed'
  BY DEF ClockInv, AwakeStaysArmed, pauseFlow, disposeArm, current
<1>. QED BY <1>1, <1>2, <1>3 DEF ClockInv

(* The arms armFlow makes are new, and those of them that start awake get   *)
(* their clock.                                                            *)
LEMMA ArmStep ==
  ASSUME ClockInv, NEW f \in FlowIds, NEW wanted \in SUBSET Of(f),
         NEW kinds \in [Of(f) -> Kinds], armFlow(f, wanted, kinds)
  PROVE  ClockInv'
<1>. USE DEF registryVars, clockVars, tickVars
<1>. DEFINE up == {t \in wanted \cap registered : current(t) \in awake}
            next == [t \in wanted |-> <<t, latest[t] + 1>>]
            made == {<<t, latest[t] + 1>> : t \in up}
<1>0. wanted \subseteq Triggers /\ \A t \in wanted : FlowOf[t] = f
  BY DEF Of
<1>1. /\ \A t \in wanted : latest[t] < MaxArms
      /\ registered' = (registered \ Of(f)) \cup wanted
      /\ latest' = [t \in Triggers |-> IF t \in wanted THEN latest[t] + 1
                                       ELSE latest[t]]
      /\ kind' = [t \in Triggers |-> IF t \in wanted THEN kinds[t] ELSE kind[t]]
      /\ awake' = awake \cup made
      /\ timer' = (timer \ ArmsOf(f)) \cup armIntervalo(made, kinds)
      /\ cron' = (cron \ ArmsOf(f)) \cup armAgendado(made, kinds)
      /\ UNCHANGED <<ticking, waiting, played, closed>>
  BY DEF armFlow, armOne, Replace
<1>2. \A t \in Triggers : latest[t] \in 0 .. MaxArms
  BY DEF ClockInv, SchedulerTypes
<1>3. \A t \in wanted : /\ next[t] \in Arms /\ flowOf(next[t]) = f
                        /\ next[t][1] = t /\ next[t][2] = latest[t] + 1
  BY <1>0, <1>1, <1>2, SchedulerAssumption DEF Arms, flowOf
<1>. /\ armIntervalo(made, kinds) \cup armAgendado(made, kinds) \subseteq made
     /\ made \subseteq {next[t] : t \in up}
  BY DEF armIntervalo, armAgendado
<1>4. \A t \in Triggers : latest'[t] >= latest[t] /\ latest'[t] \in 0 .. MaxArms
  BY <1>1, <1>2, SchedulerAssumption
<1>5. SchedulerTypes'
  <2>1. registered' \subseteq Triggers /\ latest' \in [Triggers -> 0 .. MaxArms]
    BY <1>0, <1>1, <1>4 DEF ClockInv, SchedulerTypes
  <2>2. kind' \in [Triggers -> Kinds]
    BY <1>0, <1>1 DEF ClockInv, SchedulerTypes
  <2>3. awake' \subseteq Arms /\ timer' \subseteq Arms /\ cron' \subseteq Arms
    BY <1>1, <1>3 DEF ClockInv, SchedulerTypes
  <2>. QED BY <1>1, <2>1, <2>2, <2>3 DEF ClockInv, SchedulerTypes
<1>6. ClocksAreAwake'
  BY <1>1 DEF ClockInv, ClocksAreAwake
<1>7. AwakeWasPlayed'
  <2>1. \A t \in up : f \in played
    BY <1>0, CurrentIsArm DEF ClockInv, AwakeWasPlayed
  <2>. QED BY <1>1, <1>3, <2>1 DEF ClockInv, AwakeWasPlayed
<1>8. NoneAhead'
  <2>1. \A a \in awake : a[2] <= latest'[a[1]]
    BY <1>2, <1>4 DEF ClockInv, NoneAhead, SchedulerTypes, Arms
  <2>2. \A t \in wanted : latest'[t] = latest[t] + 1
    BY <1>0, <1>1
  <2>3. \A a \in made : a[2] <= latest'[a[1]]
    BY <1>0, <1>2, <1>3, <2>2
  <2>. QED BY <1>1, <2>1, <2>3 DEF NoneAhead
<1>9. AwakeStaysArmed'
  <2> SUFFICES ASSUME ~closed, NEW t \in registered', <<t, latest'[t]>> \in awake'
               PROVE  /\ kind'[t] = "Agendado" => <<t, latest'[t]>> \in cron'
                      /\ kind'[t] = "Intervalo" =>
                           \/ <<t, latest'[t]>> \in timer' \cup ticking'
                           \/ waiting'[<<t, latest'[t]>>] > 0
    BY <1>1 DEF AwakeStaysArmed, current
  <2>0. t \in Triggers
    BY <1>5 DEF SchedulerTypes
  <2>1. CASE t \in wanted
    <3>1. <<t, latest'[t]>> = next[t] /\ kind'[t] = kinds[t]
      BY <1>0, <1>1, <2>1
    <3>2. next[t] \notin awake
      BY <1>2, <1>3, <2>0, <2>1 DEF ClockInv, NoneAhead
    <3>3. t \in up
      BY <1>1, <1>3, <2>1, <3>1, <3>2
    <3>4. /\ kinds[t] = "Intervalo" => next[t] \in timer'
          /\ kinds[t] = "Agendado" => next[t] \in cron'
      BY <1>1, <1>3, <2>1, <3>3 DEF armIntervalo, armAgendado
    <3>. HIDE DEF next
    <3>. QED BY <3>1, <3>4
  <2>2. CASE t \notin wanted
    <3>1. t \in registered /\ FlowOf[t] # f
      BY <1>1, <2>0, <2>2 DEF Of
    <3>2. <<t, latest'[t]>> = current(t) /\ kind'[t] = kind[t]
      BY <1>1, <2>0, <2>2 DEF current
    <3>3. current(t) \notin ArmsOf(f) /\ flowOf(current(t)) # f
      BY <2>0, <3>1, ArmsAreCurrent, CurrentIsArm DEF ClockInv
    <3>4. current(t) \in awake
      BY <1>1, <1>3, <3>2, <3>3
    <3>5. /\ kind[t] = "Agendado" => current(t) \in cron
          /\ kind[t] = "Intervalo" =>
               current(t) \in timer \cup ticking \/ waiting[current(t)] > 0
      BY <3>1, <3>4 DEF ClockInv, AwakeStaysArmed
    <3>6. /\ current(t) \in cron => current(t) \in cron'
          /\ current(t) \in timer => current(t) \in timer'
          /\ ticking' = ticking /\ waiting' = waiting
      BY <1>1, <3>3
    <3>. QED BY <3>2, <3>5, <3>6
  <2>. QED BY <2>1, <2>2
<1>. QED BY <1>5, <1>6, <1>7, <1>8, <1>9 DEF ClockInv

(* Stopping only takes arms and clocks away. *)
LEMMA StopStep ==
  ASSUME ClockInv, stop
  PROVE  ClockInv'
BY DEF ClockInv, SchedulerTypes, ClocksAreAwake, AwakeWasPlayed, NoneAhead,
   AwakeStaysArmed, stop, disposeArm, tickVars

----------------------------------------------------------------------------

LEMMA ClockStep == ClockInv /\ [SchedulerNext]_schedVars => ClockInv'
<1> SUFFICES ASSUME ClockInv, [SchedulerNext]_schedVars PROVE ClockInv'
  OBVIOUS
<1>1. ASSUME NEW f \in FlowIds, Begin(f) \/ Continue(f) PROVE ClockInv'
  BY <1>1, ClockFrame DEF Begin, Continue
<1>2. ASSUME NEW a \in Arms, Tick(a) \/ Poll(a) PROVE ClockInv'
  BY <1>2, TickStep, PollStep
<1>3. ASSUME NEW a \in Arms, CronFires(a) PROVE ClockInv'
  BY <1>3, <1>1, SchedulerAssumption DEF CronFires, flowOf, Arms
<1>4. ASSUME NEW t \in Triggers, Webhook(t) PROVE ClockInv'
  BY <1>4, <1>1, SchedulerAssumption DEF Webhook
<1>5. ASSUME NEW f \in FlowIds, RunNow(f) PROVE ClockInv'
  BY <1>5, <1>1 DEF RunNow
<1>6. CASE UNCHANGED schedVars
  BY <1>6, ClockFrame DEF schedVars
<1>. QED BY <1>1, <1>2, <1>3, <1>4, <1>5, <1>6, CycleEndsStep, ResumeStep,
            PauseStep, ArmStep, StopStep DEF SchedulerNext

LEMMA ClockInvariant == SchedulerSpec => []ClockInv
BY InitClock, ClockStep, PTL DEF SchedulerSpec

(* Boot is inert, for every flow, whatever is saved or run by hand. *)
THEOREM SchedulerInertUntilPlayed == SchedulerSpec => []InertUntilPlayed
<1>1. ClockInv => InertUntilPlayed
  BY DEF ClockInv, ClocksAreAwake, AwakeWasPlayed, InertUntilPlayed
<1>. QED BY <1>1, ClockInvariant, PTL

(* The arm the registry holds for a dormant trigger has no clock, whatever  *)
(* ticks of that arm are in flight; a replaced arm is not covered.          *)
THEOREM SchedulerDormantIsSilent == SchedulerSpec => []DormantIsSilent
<1>1. ClockInv => DormantIsSilent
  BY DEF ClockInv, ClocksAreAwake, DormantIsSilent
<1>. QED BY <1>1, ClockInvariant, PTL

(* An awake trigger never loses its clock. *)
THEOREM SchedulerAwakeStaysArmed == SchedulerSpec => []AwakeStaysArmed
<1>1. ClockInv => AwakeStaysArmed
  BY DEF ClockInv
<1>. QED BY <1>1, ClockInvariant, PTL

----------------------------------------------------------------------------
(* Part 2: the terminals. *)

Sent   == {"typed", "waiting", "reading", "recovering"}
Active == {"ensuring", "typing"} \cup Sent
Over   == {"tidying", "returned", "done"}
Stages == {"new"} \cup Active \cup Over

On(s) == {s[i] : i \in DOMAIN s}

(* A line in a pane is a run's of that pane, which has its number; so has a  *)
(* run with an interrupt pending.                                          *)
Lined ==
  /\ \A p \in Panes : \A q \in On(typed[p]) :
       PaneOf[q] = p /\ seq[q] >= 1 /\ call[q] \in Sent \cup Over
  /\ \A r \in Runs : call[r] \in Active \ {"ensuring"} => seq[r] >= 1
  /\ \A e \in grace : seq[e[1]] >= 1 /\ call[e[1]] \in Sent \cup Over

Alone ==
  \A q, r \in Runs :
    PaneOf[q] = PaneOf[r] /\ call[q] \in Active /\ call[r] \in Active => q = r

(* What a call with its entry still the registry's knows of its pane: the   *)
(* entry's number is its own, and the exit code under that number is its    *)
(* own command's.  A call that has lost the entry finds the pane empty.     *)
Knows(r) ==
  LET p == PaneOf[r]
  IN IF r \notin held THEN rc[p] = {} /\ On(typed[p]) = {}
     ELSE /\ seq[r] = runSeq[p]
          /\ call[r] = "typing" =>
               /\ seq[r] \notin rc[p]
               /\ \A q \in On(typed[p]) : seq[q] # seq[r]
          /\ call[r] \in Sent =>
               /\ seq[r] \in rc[p] => r \in earned
               /\ \A q \in On(typed[p]) : seq[q] = seq[r] => q = r

(* The numbers in use in a pane are among those its entry has given out. *)
Given(p) ==
  /\ \A k \in rc[p] : k <= runSeq[p]
  /\ \A q \in On(typed[p]) : seq[q] <= runSeq[p]

Clean ==
  /\ \A p \in Panes \ stray : Given(p)
  /\ \A r \in Runs : call[r] \in Active /\ PaneOf[r] \notin stray => Knows(r)

TypedInv == TerminalsTypeOK /\ Lined
PaneInv  == TypedInv /\ Alone /\ Clean

(* The stages from which an abort must be heard already, or has come late. *)
Heeding == {"waiting", "reading", "recovering"}

AbortsHeard == \A r \in aborted : call[r] \in Heeding => r \in heard \cup late

(* Only a call that is over has a status, and an abort is heard before that. *)
StatusInv ==
  /\ \A r \in Runs : call[r] \notin Over => status[r] = "none"
  /\ AbortsHeard
  /\ AbortedIsKilled

----------------------------------------------------------------------------
(* Lines *)

LEMMA OnAppend ==
  ASSUME NEW S, NEW s \in Seq(S), NEW x \in S
  PROVE  Append(s, x) \in Seq(S) /\ On(Append(s, x)) = On(s) \cup {x}
<1>. DEFINE t == Append(s, x)
<1>1. /\ t \in Seq(S) /\ Len(s) \in Nat /\ DOMAIN s = 1 .. Len(s)
      /\ DOMAIN t = 1 .. Len(s) + 1
      /\ \A i \in 1 .. Len(s) : t[i] = s[i]
      /\ t[Len(s) + 1] = x
  OBVIOUS
<1>. HIDE DEF t
<1>2. ASSUME NEW i \in DOMAIN t PROVE t[i] \in On(s) \cup {x}
  <2>1. i \in DOMAIN s \/ i = Len(s) + 1
    BY <1>1
  <2>. QED BY <1>1, <2>1 DEF On
<1>3. ASSUME NEW i \in DOMAIN s PROVE s[i] \in On(t)
  <2>1. i \in DOMAIN t /\ t[i] = s[i]
    BY <1>1
  <2>. QED BY <2>1 DEF On
<1>4. x \in On(t)
  <2>1. Len(s) + 1 \in DOMAIN t /\ t[Len(s) + 1] = x
    BY <1>1
  <2>. QED BY <2>1 DEF On
<1>5. On(t) = On(s) \cup {x}
  <2>1. On(t) = {t[i] : i \in DOMAIN t} /\ On(s) = {s[i] : i \in DOMAIN s}
    BY DEF On
  <2>. QED BY <1>2, <1>3, <1>4, <2>1
<1>. QED BY <1>1, <1>5 DEF t

LEMMA OnTail ==
  ASSUME NEW S, NEW s \in Seq(S), s # <<>>
  PROVE  /\ Tail(s) \in Seq(S) /\ Head(s) \in S
         /\ On(Tail(s)) \subseteq On(s) /\ Head(s) \in On(s)
<1>1. /\ Tail(s) \in Seq(S) /\ Len(Tail(s)) = Len(s) - 1
      /\ \A i \in 1 .. Len(Tail(s)) : Tail(s)[i] = s[i + 1]
      /\ Len(s) \in Nat \ {0} /\ Head(s) = s[1]
  OBVIOUS
<1>. QED BY <1>1 DEF On

LEMMA OnCut ==
  ASSUME NEW S, NEW s \in Seq(S), NEW n \in 0 .. Len(s)
  PROVE  SubSeq(s, 1, n) \in Seq(S) /\ On(SubSeq(s, 1, n)) \subseteq On(s)
<1>1. /\ SubSeq(s, 1, n) \in Seq(S) /\ Len(SubSeq(s, 1, n)) = n
      /\ \A i \in 1 .. n : SubSeq(s, 1, n)[i] = s[i]
  OBVIOUS
<1>. QED BY <1>1 DEF On

LEMMA OnEmpty == On(<<>>) = {}
  BY DEF On

(* Ctrl-C takes lines from a pane and adds none. *)
LEMMA Interrupted ==
  ASSUME TerminalsTypeOK, NEW p \in Panes, CtrlC(p)
  PROVE  /\ typed' \in [Panes -> Seq(Runs)]
         /\ \A x \in Panes : On(typed'[x]) \subseteq On(typed[x])
<1>1. PICK n \in 0 .. Len(typed[p]) :
        typed' = [typed EXCEPT ![p] = SubSeq(typed[p], 1, n)]
  BY DEF CtrlC
<1>2. typed[p] \in Seq(Runs)
  BY DEF TerminalsTypeOK
<1>3. SubSeq(typed[p], 1, n) \in Seq(Runs)
      /\ On(SubSeq(typed[p], 1, n)) \subseteq On(typed[p])
  BY <1>2, OnCut
<1>. QED BY <1>1, <1>3 DEF TerminalsTypeOK

LEMMA OnRuns ==
  ASSUME TerminalsTypeOK, NEW p \in Panes PROVE On(typed[p]) \subseteq Runs
  BY DEF TerminalsTypeOK, On

LEMMA StageNames ==
  Stages = {"new", "ensuring", "typing", "typed", "waiting", "reading",
            "recovering", "tidying", "returned", "done"}
  BY DEF Stages, Active, Sent, Over

(* A signal moves waiting calls on and changes none of their stages else. *)
LEMMA Signalled ==
  ASSUME TerminalsTypeOK, NEW c \in Seqs, Signal(c)
  PROVE  /\ woken' \in SUBSET Seqs
         /\ call' \in [Runs -> Stages]
         /\ \A r \in Runs : \/ call'[r] = call[r]
                            \/ call[r] = "waiting" /\ call'[r] = "reading"
  BY StageNames DEF Signal, Waiters, TerminalsTypeOK, Seqs

----------------------------------------------------------------------------
(* Types and numbers *)

LEMMA TypedInit == ASSUME TerminalsInit PROVE TypedInv
  BY TerminalsAssumption, OnEmpty
     DEF TerminalsInit, TypedInv, TerminalsTypeOK, Lined, Active, Sent, Seqs,
         Causes, Statuses

(* How a call's stage may change where no number is given out. *)
Moves(was, is) ==
  \/ is = was
  \/ was \in Sent /\ is \in Sent \cup Over
  \/ was \in Over /\ is \in Over
  \/ was \in {"new", "ensuring", "typing"} /\ is \in {"ensuring"} \cup Over

NumberKept(r) == call[r] \in Active \cup Over => seq'[r] = seq[r]

(* A step that leaves the numbers alone and adds no line and no interrupt. *)
LEMMA LinedKept ==
  ASSUME TypedInv, TerminalsTypeOK', grace' \subseteq grace,
         \A p \in Panes : On(typed'[p]) \subseteq On(typed[p]),
         \A r \in Runs : NumberKept(r) /\ Moves(call[r], call'[r])
  PROVE  TypedInv'
<1>1. \A e \in grace : e[1] \in Runs
  BY DEF TypedInv, TerminalsTypeOK
<1>2. \A p \in Panes : On(typed[p]) \subseteq Runs
  BY DEF TypedInv, TerminalsTypeOK, On
<1>3. Lined'
  BY <1>1, <1>2 DEF TypedInv, Lined, TerminalsTypeOK, Active, Sent, Over,
                   NumberKept, Moves
<1>. QED BY <1>3 DEF TypedInv

LEMMA MovesOn ==
  ASSUME TerminalsTypeOK, NEW r \in Runs, NEW s, Moves(call[r], s),
         call' = [call EXCEPT ![r] = s]
  PROVE  \A q \in Runs : Moves(call[q], call'[q])
  BY DEF Moves, TerminalsTypeOK

LEMMA MovesTo ==
  /\ \A s : Moves(s, s)
  /\ Moves("new", "ensuring")
  /\ \A s \in Sent \cup {"ensuring", "typing"}, t \in Over : Moves(s, t)
  /\ \A s, t \in Over : Moves(s, t)
  /\ \A s, t \in Sent : Moves(s, t)
  BY DEF Moves, Sent

(* A call that returns is over, and its run has a status. *)
LEMMA ReturnTypes ==
  ASSUME TerminalsTypeOK, NEW r \in Runs, NEW s \in Statuses, Return(r, s)
  PROVE  /\ call' \in [Runs -> Stages]
         /\ status' \in [Runs -> Statuses \cup {"none"}]
         /\ held' \in SUBSET Runs
         /\ call' = [call EXCEPT ![r] = "returned"] /\ "returned" \in Over
  BY StageNames DEF Return, TerminalsTypeOK, Over

LEMMA TypedStep == ASSUME TypedInv, [TerminalsNext]_termVars PROVE TypedInv'
<1>. TerminalsTypeOK /\ Lined
  BY DEF TypedInv
<1>. USE TerminalsAssumption
<1>1. CASE UNCHANGED termVars
  BY <1>1 DEF TypedInv, TerminalsTypeOK, Lined, termVars, paneVars, callVars,
              stopVars, runVars
<1>2. ASSUME NEW p \in Panes, Open(p) \/ Send(p) PROVE TypedInv'
  <2>1. /\ session' = session \cup {p}
        /\ shown' = [shown EXCEPT ![p] = Entry(p)] /\ Entry(p) \in {"gone", "idle", "busy"}
        /\ UNCHANGED <<runSeq, typed, rc, stray, woken, call, held, seq,
                       aborted, heard, timedOut, late, grace, status, earned>>
    BY <1>2 DEF Open, Send, Ensure, Entry, BringUp, TerminalsTypeOK, callVars,
                stopVars, runVars
  <2>2. TerminalsTypeOK'
    BY <2>1 DEF TerminalsTypeOK
  <2>. QED BY <2>1, <2>2, LinedKept, MovesTo DEF NumberKept
<1>3. ASSUME NEW r \in Runs, Claim(r) PROVE TypedInv'
  <2>1. TerminalsTypeOK'
    BY <1>3 DEF Claim, CanCall, claimTerminals, Owned, TerminalsTypeOK, stopVars,
                    runVars
  <2>2. \A q \in Runs : Moves(call[q], call'[q])
    BY <1>3, MovesOn, MovesTo DEF Claim, CanCall
  <2>3. \A q \in Runs : NumberKept(q)
    BY <1>3 DEF Claim, CanCall, NumberKept, Active, Sent, Over, TerminalsTypeOK
  <2>. QED BY <1>3, <2>1, <2>2, <2>3, LinedKept DEF Claim
<1>4. ASSUME NEW r \in Runs, Start(r) PROVE TypedInv'
  <2>1. seq[r] + 1 \in 1 .. MaxSeq /\ seq[r] \in Nat
    BY <1>4 DEF Start, TerminalsTypeOK
  <2>2. TerminalsTypeOK'
    <3>1. PaneOf[r] \in Panes
      OBVIOUS
    <3>2. session' \subseteq Panes
      BY <1>4, <3>1 DEF Start, BringUp, TerminalsTypeOK
    <3>3. seq' \in [Runs -> 0 .. MaxSeq]
      BY <1>4, <2>1 DEF Start, TerminalsTypeOK
    <3>4. runSeq' \in [Panes -> 0 .. MaxSeq]
      BY <1>4, <2>1, <3>1 DEF Start, TerminalsTypeOK
    <3>5. call' = [call EXCEPT ![r] = "typing"]
      BY <1>4 DEF Start
    <3>6. UNCHANGED <<shown, typed, rc, stray, woken, held, aborted, heard, timedOut,
                      late, grace, status, earned>>
      BY <1>4 DEF Start, stopVars, runVars
    <3>. QED BY <3>2, <3>3, <3>4, <3>5, <3>6 DEF TerminalsTypeOK
  <2>3. \A q \in Runs : call[q] # "ensuring" => seq'[q] = seq[q] /\ call'[q] = call[q]
    BY <1>4 DEF Start, TerminalsTypeOK
  <2>4. call[r] = "ensuring" /\ seq'[r] = seq[r] + 1 /\ call'[r] = "typing"
    BY <1>4 DEF Start, TerminalsTypeOK
  <2>5. \A q \in Runs \ {r} : seq'[q] = seq[q] /\ call'[q] = call[q]
    BY <1>4 DEF Start, TerminalsTypeOK
  <2>6. /\ \A x \in Panes : On(typed[x]) \subseteq Runs
        /\ \A e \in grace : e[1] \in Runs
        /\ typed' = typed /\ grace' = grace
    BY <1>4 DEF Start, TerminalsTypeOK, On
  <2>7. Lined'
    BY <2>1, <2>3, <2>4, <2>5, <2>6 DEF Lined, Active, Sent, Over
  <2>. QED BY <2>2, <2>7 DEF TypedInv
<1>5. ASSUME NEW r \in Runs, StartDegraded(r) PROVE TypedInv'
  <2>1. Return(r, "degraded") /\ "degraded" \in Statuses
    BY <1>5 DEF StartDegraded, Statuses
  <2>2. TerminalsTypeOK'
    BY <1>5, <2>1, ReturnTypes, StageNames, SMTT(30)
       DEF StartDegraded, BringUp, TerminalsTypeOK, stopVars
  <2>3. \A q \in Runs : Moves(call[q], call'[q])
    BY <1>5, <2>1, ReturnTypes, MovesOn, MovesTo DEF StartDegraded
  <2>. QED BY <1>5, <2>2, <2>3, LinedKept DEF StartDegraded, NumberKept
<1>6. ASSUME NEW r \in Runs, Type(r) PROVE TypedInv'
  <2>. DEFINE p == PaneOf[r]
  <2>1. typed[p] \in Seq(Runs) /\ p \in Panes /\ "degraded" \in Statuses
    BY DEF TerminalsTypeOK, Statuses
  <2>2. CASE typed' = [typed EXCEPT ![p] = Append(@, r)]
             /\ call' = [call EXCEPT ![r] = "typed"]
             /\ UNCHANGED <<held, status>>
             /\ stray' = IF r \in held THEN stray ELSE stray \cup {p}
    <3>1. /\ Append(typed[p], r) \in Seq(Runs)
          /\ On(Append(typed[p], r)) = On(typed[p]) \cup {r}
      BY <2>1, OnAppend
    <3>2. TerminalsTypeOK'
      BY <1>6, <2>1, <2>2, <3>1 DEF Type, TerminalsTypeOK, stopVars
    <3>3. /\ \A x \in Panes : On(typed[x]) \subseteq Runs
          /\ \A e \in grace : e[1] \in Runs
          /\ seq' = seq /\ grace' = grace /\ call[r] = "typing"
      BY <1>6 DEF Type, TerminalsTypeOK, On
    <3>4. /\ On(typed'[p]) = On(typed[p]) \cup {r}
          /\ \A x \in Panes \ {p} : typed'[x] = typed[x]
      BY <2>1, <2>2, <3>1 DEF TerminalsTypeOK
    <3>5. call'[r] = "typed" /\ \A q \in Runs \ {r} : call'[q] = call[q]
      BY <2>2 DEF TerminalsTypeOK
    <3>6. Lined'
      BY <2>1, <3>3, <3>4, <3>5 DEF Lined, Active, Sent
    <3>. QED BY <3>2, <3>6 DEF TypedInv
  <2>3. CASE Return(r, "degraded") /\ UNCHANGED <<typed, stray>>
    <3>1. TerminalsTypeOK'
      BY <1>6, <2>1, <2>3, ReturnTypes, StageNames DEF Type, TerminalsTypeOK, stopVars
    <3>2. \A q \in Runs : Moves(call[q], call'[q])
      BY <1>6, <2>1, <2>3, ReturnTypes, MovesOn, MovesTo DEF Type
    <3>. QED BY <1>6, <2>3, <3>1, <3>2, LinedKept DEF Type, NumberKept
  <2>. QED BY <1>6, <2>2, <2>3 DEF Type
<1>7. ASSUME NEW r \in Runs, Block(r) PROVE TypedInv'
  <2>1. /\ typed' \in [Panes -> Seq(Runs)]
        /\ \A x \in Panes : On(typed'[x]) \subseteq On(typed[x])
        /\ grace' \subseteq grace \cup {<<r, "abort">>}
    BY <1>7, Interrupted DEF Block, TerminalsTypeOK
  <2>2. TerminalsTypeOK'
    BY <1>7, <2>1, SMTT(30) DEF Block, TerminalsTypeOK, runVars, Causes
  <2>3. /\ \A x \in Panes : On(typed[x]) \subseteq Runs
        /\ \A e \in grace : e[1] \in Runs
        /\ seq' = seq /\ call[r] = "typed" /\ call'[r] \in Sent
        /\ \A q \in Runs \ {r} : call'[q] = call[q]
        /\ \A e \in grace' : e \in grace \/ e[1] = r
    BY <1>7, <2>1 DEF Block, TerminalsTypeOK, On, Sent
  <2>4. \A q \in Runs : /\ call[q] \in Sent \cup Over => call'[q] \in Sent \cup Over
                        /\ call'[q] \in Active \ {"ensuring"} => call[q] \in Active \ {"ensuring"}
    BY <2>3 DEF Sent, Active
  <2>5. seq[r] >= 1
    BY <2>3 DEF Lined, Active, Sent
  <2>6. \A x \in Panes : \A q \in On(typed'[x]) :
          PaneOf[q] = x /\ seq'[q] >= 1 /\ call'[q] \in Sent \cup Over
    BY <2>1, <2>3, <2>4 DEF Lined
  <2>7. \A e \in grace' : seq'[e[1]] >= 1 /\ call'[e[1]] \in Sent \cup Over
    BY <2>3, <2>4, <2>5 DEF Lined
  <2>8. Lined'
    BY <2>3, <2>4, <2>6, <2>7 DEF Lined
  <2>. QED BY <2>2, <2>8 DEF TypedInv
<1>8. ASSUME NEW r \in Runs, Abort(r) \/ Watchdog(r) PROVE TypedInv'
  <2>1. /\ typed' \in [Panes -> Seq(Runs)]
        /\ \A x \in Panes : On(typed'[x]) \subseteq On(typed[x])
    BY <1>8, Interrupted DEF Abort, Watchdog, Interrupt, TerminalsTypeOK
  <2>2. TerminalsTypeOK'
    <3>1. /\ aborted' \in SUBSET Runs /\ heard' \in SUBSET Runs
          /\ timedOut' \in SUBSET Runs /\ late' \in SUBSET Runs
          /\ grace' \in SUBSET (Runs \X Causes)
      BY <1>8 DEF Abort, Watchdog, Interrupt, TerminalsTypeOK, Causes
    <3>2. UNCHANGED <<session, shown, runSeq, rc, stray, woken, callVars, runVars>>
      BY <1>8 DEF Abort, Watchdog
    <3>. QED BY <2>1, <3>1, <3>2 DEF TerminalsTypeOK, callVars, runVars
  <2>3. \A e \in grace' : e \in grace \/ (e[1] = r /\ call[r] \in Sent)
    BY <1>8 DEF Abort, Watchdog, Interrupt, Sent
  <2>4. /\ \A x \in Panes : On(typed[x]) \subseteq Runs
        /\ \A e \in grace : e[1] \in Runs
        /\ seq' = seq /\ call' = call
    BY <1>8 DEF Abort, Watchdog, TerminalsTypeOK, On, callVars
  <2>5. Lined'
    BY <2>1, <2>3, <2>4 DEF Lined, Active, Sent
  <2>. QED BY <2>2, <2>5 DEF TypedInv
<1>9. ASSUME NEW r \in Runs, NEW cause \in Causes, GraceOver(r, cause)
      PROVE  TypedInv'
  <2>1. seq[r] \in Seqs /\ Signal(seq[r])
    BY <1>9 DEF GraceOver, Lined, TerminalsTypeOK, Seqs
  <2>2. TerminalsTypeOK'
    BY <1>9, <2>1, Signalled, StageNames
       DEF GraceOver, TerminalsTypeOK, paneVars, stopVars, runVars
  <2>3. \A q \in Runs : Moves(call[q], call'[q])
    BY <2>1, Signalled, MovesTo DEF Sent
  <2>. QED BY <1>9, <2>2, <2>3, LinedKept DEF GraceOver, paneVars, NumberKept
<1>10. ASSUME NEW r \in Runs, Unblock(r) \/ Read(r) \/ Settle(r) PROVE TypedInv'
  <2>1. Outcome(r) \in Statuses
    BY DEF Outcome, Statuses
  <2>2. TerminalsTypeOK'
    <3>1. CASE Unblock(r)
      BY <3>1 DEF Unblock, TerminalsTypeOK, paneVars, stopVars, runVars
    <3>2. CASE Read(r)
      <4>1. /\ status' \in [Runs -> Statuses \cup {"none"}]
            /\ call' \in [Runs -> Stages]
        BY <2>1, <3>2, StageNames DEF Read, TerminalsTypeOK
      <4>. QED BY <3>2, <4>1, StageNames DEF Read, TerminalsTypeOK, paneVars, stopVars
    <3>3. CASE Settle(r)
      <4>1. /\ shown' \in [Panes -> {"gone", "idle", "busy"}]
            /\ call' \in [Runs -> Stages]
        BY <3>3, StageNames DEF Settle, releaseTerminals, Owned, TerminalsTypeOK
      <4>. QED BY <3>3, <4>1, StageNames
               DEF Settle, TerminalsTypeOK, stopVars, runVars
    <3>. QED BY <1>10, <3>1, <3>2, <3>3
  <2>3. \A q \in Runs : Moves(call[q], call'[q])
    <3>1. PICK s : call' = [call EXCEPT ![r] = s] /\ Moves(call[r], s)
      BY <1>10, MovesTo DEF Unblock, Read, Settle, Sent, Over
    <3>. QED BY <3>1, MovesOn
  <2>. QED BY <1>10, <2>2, <2>3, LinedKept
           DEF Unblock, Read, Settle, NumberKept, paneVars
<1>13. ASSUME NEW r \in Runs, Tidy(r) PROVE TypedInv'
  <2>1. call[r] = "tidying" /\ status[r] \in Statuses \cup {"none"}
        /\ Return(r, status[r])
    BY <1>13 DEF Tidy, TerminalsTypeOK
  <2>2. call' = [call EXCEPT ![r] = "returned"] /\ "returned" \in Over
        /\ "tidying" \in Over
    BY <2>1 DEF Return, Over
  <2>3. TerminalsTypeOK'
    BY <1>13, <2>1, SMTT(30) DEF Tidy, Return, TerminalsTypeOK, stopVars
  <2>4. \A q \in Runs : Moves(call[q], call'[q])
    BY <2>1, <2>2, MovesOn, MovesTo
  <2>. QED BY <1>13, <2>3, <2>4, LinedKept DEF Tidy, NumberKept
<1>11. ASSUME NEW p \in Panes, NEW zero \in BOOLEAN, CommandEnds(p, zero)
       PROVE  TypedInv'
  <2>. DEFINE r == Head(typed[p])
  <2>1. /\ Tail(typed[p]) \in Seq(Runs) /\ r \in Runs
        /\ On(Tail(typed[p])) \subseteq On(typed[p]) /\ r \in On(typed[p])
    BY <1>11, OnTail DEF CommandEnds, TerminalsTypeOK
  <2>2. seq[r] \in Seqs /\ Signal(seq[r])
    BY <1>11, <2>1 DEF CommandEnds, Lined, TerminalsTypeOK, Seqs
  <2>. HIDE DEF r
  <2>3. /\ typed' = [typed EXCEPT ![p] = Tail(typed[p])]
        /\ rc' \in [Panes -> SUBSET Seqs] /\ earned' \in SUBSET Runs
        /\ UNCHANGED <<session, shown, runSeq, stray, held, seq, aborted,
                       heard, timedOut, late, grace, status>>
    BY <1>11, <2>1, <2>2 DEF CommandEnds, TerminalsTypeOK, stopVars, r
  <2>4. TerminalsTypeOK'
    BY <2>1, <2>2, <2>3, Signalled, StageNames DEF TerminalsTypeOK
  <2>5. \A q \in Runs : Moves(call[q], call'[q])
    BY <2>2, Signalled, MovesTo DEF Sent
  <2>6. \A x \in Panes : On(typed'[x]) \subseteq On(typed[x])
    BY <2>1, <2>3 DEF TerminalsTypeOK
  <2>. QED BY <1>11, <2>4, <2>5, <2>6, LinedKept DEF CommandEnds, NumberKept
<1>12. ASSUME NEW p \in Panes, dispose(p) PROVE TypedInv'
  <2>1. TerminalsTypeOK'
    BY <1>12 DEF dispose, TerminalsTypeOK, stopVars, runVars
  <2>2. \A x \in Panes : On(typed'[x]) \subseteq On(typed[x])
    BY <1>12, OnEmpty DEF dispose, TerminalsTypeOK
  <2>. QED BY <1>12, <2>1, <2>2, LinedKept, MovesTo DEF dispose, NumberKept
<1>. QED BY <1>1, <1>2, <1>3, <1>4, <1>5, <1>6, <1>7, <1>8, <1>9, <1>10, <1>11,
            <1>12, <1>13 DEF TerminalsNext, EngineStep

----------------------------------------------------------------------------
(* The pane and its calls *)

LEMMA PaneInit == ASSUME TerminalsInit PROVE PaneInv
<1>1. TypedInv
  BY TypedInit
<1>2. \A r \in Runs : call[r] \notin Active
  BY DEF TerminalsInit, Active, Sent
<1>3. \A p \in Panes : Given(p)
  BY OnEmpty DEF TerminalsInit, Given
<1>. QED BY <1>1, <1>2, <1>3 DEF PaneInv, Alone, Clean

StillActive(r) ==
  call'[r] \in Active =>
    /\ call[r] \in Active /\ (r \in held' <=> r \in held)
    /\ call'[r] = "typing" => call[r] = "typing"
    /\ call'[r] \in Sent => call[r] \in Sent

(* Calls go on or end, and the pane has no line or code it did not have. *)
LEMMA CleanKept ==
  ASSUME PaneInv, TypedInv', UNCHANGED <<runSeq, stray, seq>>,
         earned \subseteq earned',
         \A p \in Panes : rc'[p] \subseteq rc[p] /\ On(typed'[p]) \subseteq On(typed[p]),
         \A r \in Runs : StillActive(r)
  PROVE  PaneInv'
<1>1. Alone'
  BY DEF PaneInv, Alone, StillActive
<1>2. \A r \in Runs : PaneOf[r] \in Panes
  BY TerminalsAssumption
<1>3. \A p \in Panes \ stray' : Given(p)'
  BY DEF PaneInv, Clean, Given
<1>4. ASSUME NEW r \in Runs, call'[r] \in Active, PaneOf[r] \notin stray'
      PROVE  Knows(r)'
  <2>1. Knows(r)
    BY <1>4 DEF PaneInv, Clean, StillActive
  <2>2. CASE r \notin held
    BY <1>2, <1>4, <2>1, <2>2 DEF Knows, StillActive
  <2>3. CASE r \in held
    BY <1>2, <1>4, <2>1, <2>3 DEF Knows, StillActive
  <2>. QED BY <2>2, <2>3
<1>. QED BY <1>1, <1>3, <1>4 DEF PaneInv, Clean

(* A call returns. *)
LEMMA ReturnedOut ==
  ASSUME TerminalsTypeOK, NEW r \in Runs, NEW s, Return(r, s)
  PROVE  \A q \in Runs : StillActive(q)
  BY DEF Return, StillActive, Active, Sent, TerminalsTypeOK

(* A call begins with the number its entry is at. *)
LEMMA ClaimStep ==
  ASSUME PaneInv, TypedInv', NEW r \in Runs, Claim(r) PROVE PaneInv'
<1>. DEFINE p == PaneOf[r]
<1>1. /\ call' = [call EXCEPT ![r] = "ensuring"] /\ held' = held \cup {r}
      /\ seq' = [seq EXCEPT ![r] = runSeq[p]] /\ call[r] = "new"
      /\ UNCHANGED <<runSeq, typed, rc, stray, earned>>
      /\ \A q \in Runs : PaneOf[q] = p => call[q] \in {"new", "done"}
  BY DEF Claim, CanCall, runVars
<1>2. TerminalsTypeOK /\ Alone /\ Clean /\ Lined
  BY DEF PaneInv, TypedInv
<1>3. Alone'
  <2>1. \A q \in Runs : call'[q] \in Active => q = r \/ (q # r /\ call[q] \in Active)
    BY <1>1, <1>2 DEF TerminalsTypeOK
  <2>2. \A q \in Runs : PaneOf[q] = p => call[q] \notin Active
    BY <1>1 DEF Active, Sent
  <2>. QED BY <1>2, <2>1, <2>2 DEF Alone
<1>4. \A x \in Panes : On(typed[x]) \subseteq Runs \ {r}
  BY <1>1, <1>2, OnRuns DEF Lined, Sent, Over
<1>5. \A q \in Runs \ {r} : /\ call'[q] = call[q] /\ seq'[q] = seq[q]
                          /\ q \in held' <=> q \in held
  BY <1>1, <1>2 DEF TerminalsTypeOK
<1>6. \A x \in Panes \ stray' : Given(x)'
  BY <1>1, <1>2, <1>4, <1>5 DEF Clean, Given
<1>7. Knows(r)'
  BY <1>1, <1>2 DEF Knows, TerminalsTypeOK, Sent
<1>8. \A q \in Runs \ {r} : call'[q] \in Active /\ PaneOf[q] \notin stray' => Knows(q)'
  <2>1. \A q \in Runs : PaneOf[q] \in Panes
    BY TerminalsAssumption
  <2>. QED BY <1>1, <1>2, <1>4, <1>5, <2>1 DEF Clean, Knows
<1>. QED BY <1>3, <1>6, <1>7, <1>8 DEF PaneInv, Clean

(* A number the pane has not had is given out. *)
LEMMA StartStep ==
  ASSUME PaneInv, TypedInv', NEW r \in Runs, Start(r) PROVE PaneInv'
<1>. DEFINE p == PaneOf[r]
<1>1. /\ call' = [call EXCEPT ![r] = "typing"] /\ call[r] = "ensuring"
      /\ seq' = [seq EXCEPT ![r] = seq[r] + 1]
      /\ runSeq' = IF r \in held THEN [runSeq EXCEPT ![p] = seq[r] + 1] ELSE runSeq
      /\ UNCHANGED <<held, typed, rc, stray, earned>>
  BY DEF Start, runVars
<1>2. TerminalsTypeOK /\ Alone /\ Clean /\ Lined
  BY DEF PaneInv, TypedInv
<1>3. Alone'
  BY <1>1, <1>2 DEF Alone, TerminalsTypeOK, Active, Sent
<1>4. \A x \in Panes : On(typed[x]) \subseteq Runs \ {r}
  BY <1>1, <1>2, OnRuns DEF Lined, Sent, Over
<1>5. \A q \in Runs \ {r} : call'[q] = call[q] /\ seq'[q] = seq[q]
  BY <1>1, <1>2 DEF TerminalsTypeOK
<1>6. /\ p \in Panes /\ seq[r] \in Nat /\ \A x \in Panes : runSeq[x] \in Nat
      /\ call'[r] = "typing" /\ seq'[r] = seq[r] + 1
      /\ \A x \in Panes \ {p} : runSeq'[x] = runSeq[x]
      /\ r \in held => runSeq'[p] = seq[r] + 1
      /\ r \notin held => runSeq' = runSeq
      /\ \A q \in Runs : seq[q] \in Nat
      /\ \A x \in Panes : \A k \in rc[x] : k \in Nat
  BY <1>1, <1>2, TerminalsAssumption DEF TerminalsTypeOK, Seqs
<1>7. p \notin stray => Knows(r)
  BY <1>1, <1>2 DEF Clean, Active
<1>8. p \notin stray /\ r \in held => seq[r] = runSeq[p]
  BY <1>7 DEF Knows
<1>9. \A x \in Panes \ stray' : Given(x)'
  <2>. SUFFICES ASSUME NEW x \in Panes \ stray PROVE Given(x)'
    BY <1>1
  <2>1. Given(x)
    BY <1>2 DEF Clean
  <2>2. runSeq'[x] >= runSeq[x]
    BY <1>6, <1>8
  <2>. QED BY <1>1, <1>4, <1>5, <1>6, <2>1, <2>2 DEF Given
<1>10. p \notin stray => Knows(r)'
  <2>. SUFFICES ASSUME p \notin stray PROVE Knows(r)'
    OBVIOUS
  <2>1. CASE r \notin held
    BY <1>1, <1>7, <2>1 DEF Knows
  <2>2. CASE r \in held
    <3>1. Given(p)
      BY <1>2, <1>6 DEF Clean
    <3>2. seq'[r] \notin rc[p] /\ \A q \in On(typed[p]) : seq'[q] # seq'[r]
      BY <1>4, <1>5, <1>6, <1>8, <2>2, <3>1 DEF Given
    <3>. QED BY <1>1, <1>6, <2>2, <3>2 DEF Knows, Sent
  <2>. QED BY <2>1, <2>2
<1>11. ASSUME NEW q \in Runs \ {r}, call'[q] \in Active, PaneOf[q] \notin stray'
       PROVE  Knows(q)'
  <2>1. PaneOf[q] # p /\ PaneOf[q] \in Panes
    BY <1>1, <1>2, <1>5, <1>11, TerminalsAssumption DEF Alone, Active
  <2>2. Knows(q)
    BY <1>1, <1>2, <1>5, <1>11 DEF Clean
  <2>. QED BY <1>1, <1>4, <1>5, <1>6, <2>1, <2>2 DEF Knows
<1>. QED BY <1>1, <1>3, <1>9, <1>10, <1>11 DEF PaneInv, Clean

(* A line goes to the pane: the call's own number is its alone there, unless *)
(* the call has lost its entry and the pane is marked.                     *)
LEMMA TypeStep ==
  ASSUME PaneInv, TypedInv', NEW r \in Runs, Type(r) PROVE PaneInv'
<1>. DEFINE p == PaneOf[r]
<1>1. CASE Return(r, "degraded") /\ UNCHANGED <<typed, stray>>
  <2>1. \A q \in Runs : StillActive(q)
    BY <1>1, ReturnedOut DEF PaneInv, TypedInv, Statuses
  <2>. QED BY <1>1, <2>1, CleanKept DEF Type
<1>2. CASE /\ typed' = [typed EXCEPT ![p] = Append(@, r)]
           /\ stray' = IF r \in held THEN stray ELSE stray \cup {p}
           /\ call' = [call EXCEPT ![r] = "typed"]
           /\ UNCHANGED <<held, status>>
  <2>1. call[r] = "typing" /\ UNCHANGED <<runSeq, rc, seq, earned, held>>
    BY <1>2 DEF Type
  <2>2. TerminalsTypeOK /\ Alone /\ Clean /\ Lined
    BY DEF PaneInv, TypedInv
  <2>3. /\ p \in Panes /\ On(typed'[p]) = On(typed[p]) \cup {r}
        /\ \A x \in Panes \ {p} : typed'[x] = typed[x]
    BY <1>2, <2>2, OnAppend, TerminalsAssumption DEF TerminalsTypeOK
  <2>4. call'[r] = "typed" /\ \A q \in Runs \ {r} : call'[q] = call[q]
    BY <1>2, <2>2 DEF TerminalsTypeOK
  <2>5. Alone'
    BY <2>1, <2>2, <2>4 DEF Alone, Active, Sent
  <2>6. p \notin stray' => r \in held /\ p \notin stray /\ Knows(r) /\ Given(p)
    BY <1>2, <2>1, <2>2, <2>3 DEF Clean, Active
  <2>7. \A x \in Panes \ stray' : Given(x)'
    <3>. SUFFICES ASSUME NEW x \in Panes \ stray' PROVE Given(x)'
      OBVIOUS
    <3>1. Given(x)
      BY <1>2, <2>2 DEF Clean
    <3>2. seq[r] \in Nat /\ runSeq[p] \in Nat
      BY <2>2, <2>3 DEF TerminalsTypeOK
    <3>. QED BY <2>1, <2>3, <2>6, <3>1, <3>2 DEF Given, Knows
  <2>8. p \notin stray' => Knows(r)'
    BY <2>1, <2>3, <2>4, <2>6 DEF Knows, Sent
  <2>9. ASSUME NEW q \in Runs \ {r}, call'[q] \in Active, PaneOf[q] \notin stray'
        PROVE  Knows(q)'
    <3>1. PaneOf[q] # p /\ PaneOf[q] \in Panes
      BY <2>1, <2>2, <2>4, <2>9, TerminalsAssumption DEF Alone, Active
    <3>2. Knows(q)
      BY <1>2, <2>2, <2>4, <2>9 DEF Clean
    <3>. QED BY <2>1, <2>3, <2>4, <3>1, <3>2 DEF Knows
  <2>. QED BY <2>5, <2>7, <2>8, <2>9 DEF PaneInv, Clean
<1>. QED BY <1>1, <1>2 DEF Type

(* A code is set for the run whose line it was. *)
LEMMA EndStep ==
  ASSUME PaneInv, TypedInv', NEW p \in Panes, NEW zero \in BOOLEAN,
         CommandEnds(p, zero)
  PROVE  PaneInv'
<1>. DEFINE r == Head(typed[p])
<1>1. TerminalsTypeOK /\ Alone /\ Clean /\ Lined
  BY DEF PaneInv, TypedInv
<1>2. /\ typed[p] \in Seq(Runs) /\ typed[p] # <<>> /\ rc[p] \in SUBSET Seqs
      /\ \A x \in Panes : runSeq[x] \in Nat
  BY <1>1 DEF CommandEnds, TerminalsTypeOK
<1>3. On(Tail(typed[p])) \subseteq On(typed[p]) /\ r \in On(typed[p]) /\ r \in Runs
  BY <1>2, OnTail
<1>4. PaneOf[r] = p /\ seq[r] \in Seqs /\ Signal(seq[r])
  BY <1>1, <1>3 DEF CommandEnds, Lined, TerminalsTypeOK, Seqs
<1>5. /\ typed' = [typed EXCEPT ![p] = Tail(@)]
      /\ \A k \in rc'[p] : k \in rc[p] \/ (k = seq[r] /\ r \in earned')
      /\ \A x \in Panes \ {p} : rc'[x] = rc[x]
      /\ earned \subseteq earned'
      /\ UNCHANGED <<runSeq, stray, held, seq>>
  BY <1>1 DEF CommandEnds, TerminalsTypeOK
<1>. HIDE DEF r
<1>6. \A x \in Panes : On(typed'[x]) \subseteq On(typed[x])
  BY <1>1, <1>3, <1>5 DEF TerminalsTypeOK
<1>7. \A q \in Runs : StillActive(q)
  BY <1>1, <1>4, <1>5, Signalled DEF StillActive, Active, Sent
<1>8. Alone'
  BY <1>1, <1>7 DEF Alone, StillActive
<1>9. \A x \in Panes \ stray' : Given(x)'
  BY <1>1, <1>3, <1>5, <1>6 DEF Clean, Given
<1>10. ASSUME NEW q \in Runs, call'[q] \in Active, PaneOf[q] \notin stray'
       PROVE  Knows(q)'
  <2>1. Knows(q) /\ PaneOf[q] \in Panes
    BY <1>1, <1>5, <1>7, <1>10, TerminalsAssumption DEF Clean, StillActive
  <2>2. CASE PaneOf[q] # p
    BY <1>5, <1>6, <1>7, <1>10, <2>1, <2>2 DEF Knows, StillActive
  <2>3. CASE PaneOf[q] = p
    <3>1. q \in held /\ q \in held'
      BY <1>3, <1>5, <2>1, <2>3 DEF Knows
    <3>2. seq'[q] = seq[q] /\ seq[q] = runSeq[p] /\ runSeq'[p] = runSeq[p]
      BY <1>5, <2>1, <2>3, <3>1 DEF Knows
    <3>3. CASE call'[q] = "typing"
      <4>1. /\ seq[q] \notin rc[p]
            /\ \A x \in On(typed[p]) : seq[x] # seq[q]
        BY <1>7, <1>10, <2>1, <2>3, <3>1, <3>3 DEF Knows, StillActive
      <4>. QED BY <1>3, <1>5, <1>6, <2>3, <3>1, <3>2, <3>3, <4>1 DEF Knows, Sent
    <3>4. CASE call'[q] \in Sent
      <4>1. /\ seq[q] \in rc[p] => q \in earned
            /\ \A x \in On(typed[p]) : seq[x] = seq[q] => x = q
        BY <1>7, <1>10, <2>1, <2>3, <3>1, <3>4 DEF Knows, StillActive
      <4>2. seq[q] \in rc'[p] => q \in earned'
        BY <1>3, <1>5, <4>1
      <4>3. \A x \in On(typed'[p]) : seq'[x] = seq'[q] => x = q
        BY <1>3, <1>5, <1>6, <4>1
      <4>4. call'[q] # "typing" /\ PaneOf[q] = p
        BY <2>3, <3>4 DEF Sent
      <4>. QED BY <3>1, <3>2, <4>2, <4>3, <4>4 DEF Knows
    <3>5. CASE call'[q] = "ensuring"
      BY <2>3, <3>1, <3>2, <3>5 DEF Knows, Sent
    <3>. QED BY <1>10, <3>3, <3>4, <3>5 DEF Active
  <2>. QED BY <2>2, <2>3
<1>. QED BY <1>8, <1>9, <1>10 DEF PaneInv, Clean

(* A teardown empties the pane and takes the entry from its calls. *)
LEMMA DisposeStep ==
  ASSUME PaneInv, TypedInv', NEW p \in Panes, dispose(p) PROVE PaneInv'
<1>1. TerminalsTypeOK /\ Alone /\ Clean
  BY DEF PaneInv, TypedInv
<1>2. /\ rc'[p] = {} /\ On(typed'[p]) = {}
      /\ \A x \in Panes \ {p} :
           rc'[x] = rc[x] /\ typed'[x] = typed[x] /\ runSeq'[x] = runSeq[x]
      /\ \A q \in Runs : q \in held' <=> q \in held /\ PaneOf[q] # p
      /\ \A x \in Panes \ {p} : x \in stray' <=> x \in stray
      /\ UNCHANGED <<call, seq, earned>>
  BY <1>1, OnEmpty DEF dispose, TerminalsTypeOK, runVars
<1>3. Alone'
  BY <1>1, <1>2 DEF Alone
<1>4. \A x \in Panes \ stray' : Given(x)'
  BY <1>1, <1>2 DEF Clean, Given
<1>5. \A q \in Runs : PaneOf[q] \in Panes
  BY TerminalsAssumption
<1>6. \A q \in Runs : call'[q] \in Active /\ PaneOf[q] \notin stray' => Knows(q)'
  BY <1>1, <1>2, <1>5 DEF Clean, Knows
<1>. QED BY <1>3, <1>4, <1>6 DEF PaneInv, Clean

LEMMA PaneStep == ASSUME PaneInv, [TerminalsNext]_termVars PROVE PaneInv'
<1>. TypedInv /\ TerminalsTypeOK /\ TypedInv' /\ Lined
  BY TypedStep DEF PaneInv, TypedInv
<1>. USE TerminalsAssumption
<1>1. CASE UNCHANGED termVars
  BY <1>1, CleanKept DEF termVars, paneVars, callVars, runVars, StillActive
<1>2. ASSUME NEW p \in Panes, Open(p) \/ Send(p) PROVE PaneInv'
  BY <1>2, CleanKept DEF Open, Send, Ensure, callVars, runVars, StillActive
<1>3. ASSUME NEW r \in Runs, StartDegraded(r) PROVE PaneInv'
  <2>1. \A q \in Runs : StillActive(q)
    BY <1>3, ReturnedOut DEF StartDegraded, Statuses
  <2>. QED BY <1>3, <2>1, CleanKept DEF StartDegraded
<1>4. ASSUME NEW r \in Runs, Block(r) PROVE PaneInv'
  <2>1. \A x \in Panes : On(typed'[x]) \subseteq On(typed[x])
    BY <1>4, Interrupted DEF Block
  <2>2. \A q \in Runs : StillActive(q)
    BY <1>4 DEF Block, StillActive, TerminalsTypeOK, Active, Sent
  <2>. QED BY <1>4, <2>1, <2>2, CleanKept DEF Block, runVars
<1>5. ASSUME NEW r \in Runs, Abort(r) \/ Watchdog(r) PROVE PaneInv'
  <2>1. \A x \in Panes : On(typed'[x]) \subseteq On(typed[x])
    BY <1>5, Interrupted DEF Abort, Watchdog, Interrupt, TerminalsTypeOK
  <2>. QED BY <1>5, <2>1, CleanKept
           DEF Abort, Watchdog, callVars, runVars, StillActive
<1>6. ASSUME NEW r \in Runs, NEW cause \in Causes, GraceOver(r, cause)
      PROVE  PaneInv'
  <2>1. seq[r] \in Seqs /\ Signal(seq[r])
    BY <1>6 DEF GraceOver, Lined, TerminalsTypeOK, Seqs
  <2>2. \A q \in Runs : StillActive(q)
    BY <1>6, <2>1, Signalled DEF GraceOver, StillActive, Active, Sent
  <2>. QED BY <1>6, <2>2, CleanKept DEF GraceOver, paneVars, runVars
<1>7. ASSUME NEW r \in Runs, Unblock(r) \/ Read(r) \/ Settle(r) PROVE PaneInv'
  <2>1. \A q \in Runs : StillActive(q)
    BY <1>7 DEF Unblock, Read, Settle, StillActive, TerminalsTypeOK, Active, Sent
  <2>. QED BY <1>7, <2>1, CleanKept DEF Unblock, Read, Settle, paneVars, runVars
<1>8. ASSUME NEW r \in Runs, Tidy(r) PROVE PaneInv'
  <2>1. \A q \in Runs : StillActive(q)
    BY <1>8, ReturnedOut DEF Tidy
  <2>2. \A p \in Panes : rc'[p] \subseteq rc[p]
    BY <1>8 DEF Tidy, TerminalsTypeOK
  <2>. QED BY <1>8, <2>1, <2>2, CleanKept DEF Tidy
<1>. QED BY <1>1, <1>2, <1>3, <1>4, <1>5, <1>6, <1>7, <1>8, ClaimStep, StartStep,
            TypeStep, EndStep, DisposeStep DEF TerminalsNext, EngineStep

----------------------------------------------------------------------------
(* Statuses *)

(* A step gives at most one run a status: that of its outcome, or that of a  *)
(* call in which nothing was launched.                                     *)
LEMMA OneStatus ==
  ASSUME TypedInv, [TerminalsNext]_termVars, NEW r \in Runs
  PROVE  \/ status'[r] = status[r] /\ (call[r] \in Over <=> call'[r] \in Over)
         \/ status'[r] = "degraded" /\ call'[r] \in Over
         \/ Read(r) /\ status'[r] = Outcome(r) /\ call'[r] \in Over
<1>. TerminalsTypeOK /\ Lined
  BY DEF TypedInv
<1>1. CASE UNCHANGED termVars
  BY <1>1 DEF termVars, callVars, runVars
<1>2. ASSUME NEW p \in Panes, Open(p) \/ Send(p) \/ dispose(p)
      PROVE  UNCHANGED <<status, call>>
  BY <1>2 DEF Open, Send, dispose, callVars, runVars
<1>3. ASSUME NEW q \in Runs,
             Claim(q) \/ Start(q) \/ Block(q) \/ Unblock(q) \/ Settle(q)
      PROVE  /\ UNCHANGED status
             /\ call[r] \in Over <=> call'[r] \in Over
  BY <1>3 DEF Claim, CanCall, Start, Block, Unblock, Settle, runVars,
              TerminalsTypeOK, Over
<1>4. ASSUME NEW q \in Runs, Abort(q) \/ Watchdog(q)
      PROVE  UNCHANGED <<status, call>>
  BY <1>4 DEF Abort, Watchdog, callVars, runVars
<1>5. ASSUME NEW q \in Runs, NEW cause \in Causes, GraceOver(q, cause)
      PROVE  /\ UNCHANGED status
             /\ call[r] \in Over <=> call'[r] \in Over
  <2>1. seq[q] \in Seqs /\ Signal(seq[q])
    BY <1>5 DEF GraceOver, Lined, TerminalsTypeOK, Seqs
  <2>. QED BY <1>5, <2>1, Signalled DEF GraceOver, runVars, Over
<1>6. ASSUME NEW p \in Panes, NEW zero \in BOOLEAN, CommandEnds(p, zero)
      PROVE  /\ UNCHANGED status
             /\ call[r] \in Over <=> call'[r] \in Over
  <2>1. Head(typed[p]) \in On(typed[p]) /\ Head(typed[p]) \in Runs
    BY <1>6, OnTail DEF CommandEnds, TerminalsTypeOK
  <2>2. seq[Head(typed[p])] \in Seqs /\ Signal(seq[Head(typed[p])])
    BY <1>6, <2>1 DEF CommandEnds, Lined, TerminalsTypeOK, Seqs
  <2>. QED BY <1>6, <2>2, Signalled DEF CommandEnds, Over
<1>7. ASSUME NEW q \in Runs, StartDegraded(q) \/ Type(q)
      PROVE  \/ /\ status'[r] = status[r]
                /\ call[r] \in Over <=> call'[r] \in Over
             \/ status'[r] = "degraded" /\ call'[r] \in Over
  BY <1>7 DEF StartDegraded, Type, Return, TerminalsTypeOK, Over
<1>8. ASSUME NEW q \in Runs, Read(q)
      PROVE  /\ q = r => status'[r] = Outcome(r) /\ call'[r] \in Over
             /\ q # r => /\ status'[r] = status[r]
                         /\ call[r] \in Over <=> call'[r] \in Over
  BY <1>8 DEF Read, TerminalsTypeOK, Over
<1>9. ASSUME NEW q \in Runs, Tidy(q)
      PROVE  /\ status'[r] = status[r]
             /\ call[r] \in Over <=> call'[r] \in Over
  BY <1>9 DEF Tidy, Return, TerminalsTypeOK, Over
<1>. QED BY <1>1, <1>2, <1>3, <1>4, <1>5, <1>6, <1>7, <1>8, <1>9
         DEF TerminalsNext, EngineStep

(* An abort is heard when the call blocks or while it is blocked; one that   *)
(* comes later is late.                                                     *)
LEMMA HeardStep ==
  ASSUME TypedInv, AbortsHeard, [TerminalsNext]_termVars
  PROVE  /\ AbortsHeard'
         /\ heard \subseteq heard' /\ late \subseteq late'
         /\ \A r \in Runs : r \in aborted' \ aborted /\ call[r] \in Over => r \in late'
<1>. TerminalsTypeOK /\ Lined
  BY DEF TypedInv
<1>1. CASE UNCHANGED termVars
  BY <1>1 DEF termVars, callVars, stopVars, AbortsHeard
<1>2. ASSUME NEW p \in Panes, Open(p) \/ Send(p) \/ dispose(p)
      PROVE  UNCHANGED <<stopVars, call>>
  BY <1>2 DEF Open, Send, dispose, callVars
<1>3. ASSUME NEW q \in Runs,
             \/ Claim(q) \/ Start(q) \/ Read(q) \/ Tidy(q) \/ Settle(q)
             \/ StartDegraded(q) \/ Type(q) \/ Unblock(q)
      PROVE  /\ UNCHANGED stopVars
             /\ \A r \in Runs : call'[r] \in Heeding => call[r] \in Heeding
  BY <1>3 DEF Claim, Start, Read, Tidy, Settle, StartDegraded, Type, Unblock,
              Return, TerminalsTypeOK, Heeding
<1>4. ASSUME NEW q \in Runs, Block(q)
      PROVE  /\ UNCHANGED <<aborted, late>> /\ heard \subseteq heard'
             /\ \A r \in Runs : r # q => call'[r] = call[r]
             /\ q \in aborted => q \in heard'
  BY <1>4 DEF Block, TerminalsTypeOK
<1>5. ASSUME NEW q \in Runs, Abort(q)
      PROVE  /\ aborted' = aborted \cup {q} /\ call' = call
             /\ heard \subseteq heard' /\ late \subseteq late'
             /\ call[q] \in Heeding => q \in heard' \cup late'
             /\ call[q] \in Over => q \in late'
  <2>1. call[q] \in {"waiting", "reading"} => heard' = heard \cup {q}
    BY <1>5 DEF Abort
  <2>2. call[q] \in Deaf => late' = late \cup {q}
    BY <1>5 DEF Abort
  <2>3. /\ aborted' = aborted \cup {q} /\ call' = call /\ call[q] # "done"
        /\ heard \subseteq heard' /\ late \subseteq late'
    BY <1>5 DEF Abort, callVars
  <2>. QED BY <2>1, <2>2, <2>3 DEF Heeding, Deaf, Over
<1>6. ASSUME NEW q \in Runs, Watchdog(q)
      PROVE  UNCHANGED <<aborted, heard, late, call>>
  BY <1>6 DEF Watchdog, callVars
<1>7. ASSUME NEW q \in Runs, NEW cause \in Causes, GraceOver(q, cause)
      PROVE  /\ UNCHANGED stopVars
             /\ \A r \in Runs : call'[r] \in Heeding => call[r] \in Heeding
  <2>1. seq[q] \in Seqs /\ Signal(seq[q])
    BY <1>7 DEF GraceOver, Lined, TerminalsTypeOK, Seqs
  <2>. QED BY <1>7, <2>1, Signalled DEF GraceOver, Heeding
<1>8. ASSUME NEW p \in Panes, NEW zero \in BOOLEAN, CommandEnds(p, zero)
      PROVE  /\ UNCHANGED stopVars
             /\ \A r \in Runs : call'[r] \in Heeding => call[r] \in Heeding
  <2>1. Head(typed[p]) \in On(typed[p]) /\ Head(typed[p]) \in Runs
    BY <1>8, OnTail DEF CommandEnds, TerminalsTypeOK
  <2>2. seq[Head(typed[p])] \in Seqs /\ Signal(seq[Head(typed[p])])
    BY <1>8, <2>1 DEF CommandEnds, Lined, TerminalsTypeOK, Seqs
  <2>. QED BY <1>8, <2>2, Signalled DEF CommandEnds, Heeding
<1>9. CASE \E q \in Runs : Block(q)
  BY <1>4, <1>9 DEF AbortsHeard, TerminalsTypeOK
<1>10. CASE \E q \in Runs : Abort(q)
  <2>. PICK q \in Runs : Abort(q)
    BY <1>10
  <2>1. \A r \in aborted' : r \in aborted \/ r = q
    BY <1>5
  <2>. QED BY <1>5, <2>1 DEF AbortsHeard
<1>11. CASE /\ UNCHANGED <<aborted, heard, late>>
            /\ \A r \in Runs : call'[r] \in Heeding => call[r] \in Heeding
  BY <1>11 DEF AbortsHeard, TerminalsTypeOK
<1>. QED BY <1>1, <1>2, <1>3, <1>6, <1>7, <1>8, <1>9, <1>10, <1>11
         DEF TerminalsNext, EngineStep, stopVars

LEMMA StatusStep ==
  ASSUME TypedInv, StatusInv, [TerminalsNext]_termVars PROVE StatusInv'
<1>1. AbortsHeard /\ AbortsHeard' /\ heard \subseteq heard' /\ late \subseteq late'
  BY HeardStep DEF StatusInv
<1>2. \A r \in Runs : call'[r] \notin Over => status'[r] = "none"
  BY OneStatus DEF StatusInv, Outcome
<1>3. ASSUME NEW r \in aborted'
      PROVE  status'[r] \in {"none", "killed", "degraded"} \/ r \in late'
  <2>1. r \in Runs
    BY TypedStep DEF TypedInv, TerminalsTypeOK
  <2>2. r \in aborted => status[r] \in {"none", "killed", "degraded"} \/ r \in late
    BY DEF StatusInv, AbortedIsKilled
  <2>3. r \notin aborted =>
          status[r] = "none" \/ r \in late'
    BY <2>1, HeardStep, <1>3 DEF StatusInv
  <2>4. CASE Read(r) /\ status'[r] = Outcome(r)
    <3>1. call[r] = "recovering" /\ aborted' = aborted
      BY <2>4 DEF Read, stopVars
    <3>2. r \in heard \cup late
      BY <1>1, <1>3, <3>1 DEF AbortsHeard, Heeding
    <3>. QED BY <1>1, <2>4, <3>2 DEF Outcome
  <2>. QED BY <1>1, <2>1, <2>2, <2>3, <2>4, OneStatus
<1>. QED BY <1>1, <1>2, <1>3 DEF StatusInv, AbortedIsKilled

LEMMA OkStep ==
  ASSUME PaneInv, [TerminalsNext]_termVars, NEW r \in Runs,
         status'[r] = "ok", status[r] # "ok"
  PROVE  r \in earned \/ PaneOf[r] \in stray
<1>1. Read(r) /\ Outcome(r) = "ok"
  BY OneStatus DEF PaneInv
<1>2. call[r] = "recovering" /\ seq[r] \in rc[PaneOf[r]]
  BY <1>1 DEF Read, Outcome
<1>3. PaneOf[r] \notin stray => Knows(r)
  BY <1>2 DEF PaneInv, Clean, Active, Sent
<1>. QED BY <1>2, <1>3 DEF Knows, Sent

----------------------------------------------------------------------------

LEMMA InvHolds == TerminalsSpec => [](PaneInv /\ StatusInv)
<1>1. TerminalsInit => PaneInv /\ StatusInv
  BY PaneInit DEF TerminalsInit, StatusInv, AbortsHeard, AbortedIsKilled
<1>2. PaneInv /\ StatusInv /\ [TerminalsNext]_termVars => (PaneInv /\ StatusInv)'
  BY PaneStep, StatusStep DEF PaneInv
<1>. QED BY <1>1, <1>2, PTL DEF TerminalsSpec

(* Every variable keeps its type; no number is below one where a line, an    *)
(* exit code or a signal carries it.                                       *)
THEOREM TerminalsTypeCorrect == TerminalsSpec => []TerminalsTypeOK
<1>1. PaneInv => TerminalsTypeOK
  BY DEF PaneInv, TypedInv
<1>. QED BY <1>1, InvHolds, PTL

(* An aborted run comes out as killed, whichever of the abort, the watchdog  *)
(* and the command's own end comes first, unless nothing was launched or    *)
(* the abort came when its call had stopped listening.                      *)
THEOREM KilledIsReported == TerminalsSpec => []AbortedIsKilled
<1>1. StatusInv => AbortedIsKilled
  BY DEF StatusInv
<1>. QED BY <1>1, InvHolds, PTL

(* A run reported as ok ended with exit code zero itself, whoever signalled  *)
(* its channel, except after a call has typed on in a pane torn down.      *)
THEOREM OkWasEarned == TerminalsSpec => OkIsEarned
<1>1. ASSUME PaneInv, [TerminalsNext]_termVars
      PROVE  [\A r \in Runs : status'[r] = "ok" /\ status[r] # "ok" =>
                r \in earned \/ PaneOf[r] \in stray]_termVars
  BY <1>1, OkStep
<1>. QED BY <1>1, InvHolds, PTL DEF TerminalsSpec, OkIsEarned

----------------------------------------------------------------------------
(* Part 3: the blackboard. *)

Begun(c) == pc[c] \in Running \cup Settled

(* The calls of a path have the numbers 1 .. chain of that path, each one   *)
(* once, and a call that has begun has only settled ones before it.        *)
Numbered ==
  \A c \in Calls : abs[c] # None =>
    /\ no[c] \in 1 .. chain[abs[c]]
    /\ \A d \in Calls : abs[d] = abs[c] /\ no[d] = no[c] => d = c

Dense ==
  \A a \in Files : \A k \in 1 .. chain[a] :
    \E c \in Calls : abs[c] = a /\ no[c] = k

InTurn ==
  \A c, d \in Calls :
    abs[c] # None /\ abs[d] = abs[c] /\ Begun(c) /\ no[d] < no[c] =>
      pc[d] \in Settled

(* An idle call has no path yet, a call under way has one. *)
Placed ==
  \A c \in Calls : /\ pc[c] = "idle" => abs[c] = None
                   /\ pc[c] \in {"queued"} \cup Running => abs[c] # None

(* Between the rename and its event the file holds the call's text, unless  *)
(* an agent has changed it.                                                *)
RenamedHolds ==
  \A c \in Calls :
    pc[c] = "renamed" /\ abs[c] \notin foreign => file[abs[c]] = text[c]

LockInv ==
  BlackboardTypeOK /\ Numbered /\ Dense /\ InTurn /\ Placed

FileInv == LockInv /\ RenamedHolds /\ EventsMatchFiles

(* In turn, one call at a time is under way. *)
LEMMA OneRuns ==
  ASSUME LockInv PROVE OneWriter
<1>. SUFFICES ASSUME NEW c \in Calls, NEW d \in Calls,
                     pc[c] \in Running, pc[d] \in Running, abs[c] = abs[d]
              PROVE  c = d
  BY DEF OneWriter
<1>1. abs[c] # None /\ abs[d] # None
  BY DEF LockInv, Placed
<1>2. no[c] \in Nat /\ no[d] \in Nat
  BY DEF LockInv, BlackboardTypeOK
<1>3. Running \cap Settled = {}
  BY DEF Running, Settled
<1>4. ~ (no[c] < no[d]) /\ ~ (no[d] < no[c])
  BY <1>1, <1>3 DEF LockInv, InTurn, Begun
<1>. QED BY <1>1, <1>2, <1>4 DEF LockInv, Numbered

(* The call before the next in turn has settled, and so have those before   *)
(* it.                                                                     *)
LEMMA NextInTurn ==
  ASSUME LockInv, NEW c \in Calls, abs[c] # None, PrevSettled(c),
         NEW d \in Calls, abs[d] = abs[c], no[d] < no[c]
  PROVE  pc[d] \in Settled
<1>1. /\ no[c] \in 1 .. chain[abs[c]] /\ no[d] \in 1 .. chain[abs[c]]
      /\ abs[c] \in Files /\ chain[abs[c]] \in Nat
  BY DEF LockInv, Numbered, BlackboardTypeOK
<1>2. CASE no[d] = no[c] - 1
  BY <1>2 DEF PrevSettled, Before
<1>3. CASE no[d] < no[c] - 1
  <2>1. no[c] - 1 \in 1 .. chain[abs[c]]
    BY <1>1, <1>3
  <2>2. PICK e \in Calls : abs[e] = abs[c] /\ no[e] = no[c] - 1
    BY <1>1, <2>1 DEF LockInv, Dense
  <2>3. pc[e] \in Settled
    BY <2>2 DEF PrevSettled, Before
  <2>. QED BY <1>3, <2>2, <2>3 DEF LockInv, InTurn, Begun
<1>. QED BY <1>1, <1>2, <1>3

----------------------------------------------------------------------------
(* The lock *)

LEMMA BaseDirType ==
  ASSUME BlackboardTypeOK, NEW f \in Flows
  PROVE  BaseDir(f) \in Dirs
BY DEF BlackboardTypeOK, BaseDir, Dirs

(* A call that is under way goes on, or settles. *)
LEMMA GoesOn ==
  ASSUME LockInv, BlackboardTypeOK', NEW c \in Calls,
         NEW to \in Running \cup Settled, pc[c] \in Running,
         pc' = [pc EXCEPT ![c] = to], UNCHANGED <<abs, no, chain>>
  PROVE  LockInv'
<1>1. Running \cap Settled = {} /\ {"idle", "queued"} \cap (Running \cup Settled) = {}
  BY DEF Running, Settled
<1>2. \A d \in Calls : pc'[d] = IF d = c THEN to ELSE pc[d]
  BY DEF LockInv, BlackboardTypeOK
<1>3. (Numbered /\ Dense)'
  BY DEF LockInv, Numbered, Dense
<1>4. InTurn'
  BY <1>1, <1>2 DEF LockInv, InTurn, Begun
<1>5. Placed'
  BY <1>1, <1>2 DEF LockInv, Placed
<1>. QED BY <1>3, <1>4, <1>5 DEF LockInv

(* A call begins when the one before it has settled. *)
LEMMA Begins ==
  ASSUME LockInv, NEW c \in Calls, Acquire(c)
  PROVE  LockInv'
<1>1. /\ pc[c] = "queued" /\ PrevSettled(c)
      /\ pc' = [pc EXCEPT ![c] = "mkdir"]
      /\ UNCHANGED <<dirVars, file, flow, abs, text, no, chain, stops, last, foreign>>
  BY DEF Acquire
<1>2. \A d \in Calls : pc'[d] = IF d = c THEN "mkdir" ELSE pc[d]
  BY <1>1 DEF LockInv, BlackboardTypeOK
<1>3. BlackboardTypeOK'
  BY <1>1 DEF LockInv, BlackboardTypeOK, dirVars, Running
<1>4. (Numbered /\ Dense)'
  BY <1>1 DEF LockInv, Numbered, Dense
<1>5. abs[c] # None
  BY <1>1 DEF LockInv, Placed
<1>6. InTurn'
  <2>. SUFFICES ASSUME NEW b \in Calls, NEW d \in Calls,
                       abs[b] # None, abs[d] = abs[b], Begun(b)', no[d] < no[b]
                PROVE  pc'[d] \in Settled
    BY <1>1 DEF InTurn
  <2>1. pc[d] \in Settled
    <3>1. CASE b = c
      BY <3>1, <1>1, <1>5, NextInTurn
    <3>2. CASE b # c
      BY <3>2, <1>2 DEF LockInv, InTurn, Begun
    <3>. QED BY <3>1, <3>2
  <2>2. d # c
    BY <2>1, <1>1 DEF Settled
  <2>. QED BY <1>2, <2>1, <2>2
<1>7. Placed'
  BY <1>1, <1>2, <1>5 DEF LockInv, Placed, Running
<1>. QED BY <1>3, <1>4, <1>6, <1>7 DEF LockInv

(* A call that joins the chain is its last. *)
LEMMA Joins ==
  ASSUME LockInv, NEW c \in Calls, NEW f \in Flows, NEW path \in Paths,
         NEW t \in Texts, Call(c, f, path, t)
  PROVE  LockInv'
<1>. DEFINE a == AbsFile(f, path)
<1>1. /\ pc[c] = "idle" /\ a # None
      /\ pc' = [pc EXCEPT ![c] = "queued"]
      /\ flow' = [flow EXCEPT ![c] = f]
      /\ abs' = [abs EXCEPT ![c] = a]
      /\ text' = [text EXCEPT ![c] = t]
      /\ no' = [no EXCEPT ![c] = chain[a] + 1]
      /\ chain' = [chain EXCEPT ![a] = chain[a] + 1]
      /\ UNCHANGED <<dirVars, file, stops, last, foreign>>
  BY DEF Call
<1>2. a \in Files
  BY <1>1, BaseDirType DEF LockInv, AbsFile, Files
<1>. HIDE DEF a
<1>3. /\ \A d \in Calls : /\ pc'[d] = IF d = c THEN "queued" ELSE pc[d]
                          /\ abs'[d] = IF d = c THEN a ELSE abs[d]
                          /\ no'[d] = IF d = c THEN chain[a] + 1 ELSE no[d]
      /\ \A b \in Files : chain'[b] = IF b = a THEN chain[a] + 1 ELSE chain[b]
      /\ chain \in [Files -> Nat] /\ no \in [Calls -> Nat]
      /\ abs \in [Calls -> Files \cup {None}]
  BY <1>1, <1>2 DEF LockInv, BlackboardTypeOK
<1>4. BlackboardTypeOK'
  BY <1>1, <1>2, <1>3 DEF LockInv, BlackboardTypeOK, dirVars
<1>5. abs[c] = None
  BY <1>1 DEF LockInv, Placed
<1>6. Numbered'
  <2>. SUFFICES ASSUME NEW b \in Calls, abs'[b] # None
                PROVE  /\ no'[b] \in 1 .. chain'[abs'[b]]
                       /\ \A d \in Calls : abs'[d] = abs'[b] /\ no'[d] = no'[b] => d = b
    BY DEF Numbered
  <2>1. \A d \in Calls : abs[d] = a => no[d] \in 1 .. chain[a]
    BY <1>1 DEF LockInv, Numbered
  <2>2. CASE b = c
    BY <2>1, <2>2, <1>2, <1>3
  <2>3. CASE b # c
    BY <2>1, <2>3, <1>2, <1>3 DEF LockInv, Numbered
  <2>. QED BY <2>2, <2>3
<1>7. Dense'
  <2>. SUFFICES ASSUME NEW b \in Files, NEW k \in 1 .. chain'[b]
                PROVE  \E d \in Calls : abs'[d] = b /\ no'[d] = k
    BY DEF Dense
  <2>1. CASE b = a /\ k = chain[a] + 1
    BY <2>1, <1>3
  <2>2. CASE ~ (b = a /\ k = chain[a] + 1)
    <3>1. k \in 1 .. chain[b]
      BY <2>2, <1>2, <1>3
    <3>2. PICK d \in Calls : abs[d] = b /\ no[d] = k
      BY <3>1 DEF LockInv, Dense
    <3>3. d # c
      BY <3>2, <1>5, BlackboardAssumption
    <3>. QED BY <3>2, <3>3, <1>3
  <2>. QED BY <2>1, <2>2
<1>8. InTurn'
  <2>. SUFFICES ASSUME NEW b \in Calls, NEW d \in Calls,
                       abs'[b] # None, abs'[d] = abs'[b], Begun(b)', no'[d] < no'[b]
                PROVE  pc'[d] \in Settled
    BY DEF InTurn
  <2>1. b # c /\ Begun(b)
    BY <1>3 DEF Begun, Running, Settled
  <2>2. d # c
    <3>. SUFFICES ASSUME d = c PROVE FALSE
      OBVIOUS
    <3>1. abs[b] = a /\ no[b] \in 1 .. chain[a]
      BY <2>1, <1>1, <1>3 DEF LockInv, Numbered
    <3>. QED BY <3>1, <2>1, <1>2, <1>3
  <2>. QED BY <2>1, <2>2, <1>3 DEF LockInv, InTurn
<1>9. Placed'
  BY <1>1, <1>3 DEF LockInv, Placed, Running
<1>. QED BY <1>4, <1>6, <1>7, <1>8, <1>9 DEF LockInv

(* A call that is refused never has a path. *)
LEMMA IsRefused ==
  ASSUME LockInv, NEW c \in Calls, NEW f \in Flows, NEW path \in Paths,
         Refuse(c, f, path)
  PROVE  LockInv'
<1>1. /\ pc[c] = "idle" /\ pc' = [pc EXCEPT ![c] = "failed"]
      /\ UNCHANGED <<dirVars, file, flow, abs, text, no, chain, stops, last, foreign>>
  BY DEF Refuse
<1>2. \A d \in Calls : pc'[d] = IF d = c THEN "failed" ELSE pc[d]
  BY <1>1 DEF LockInv, BlackboardTypeOK
<1>3. abs[c] = None
  BY <1>1 DEF LockInv, Placed
<1>4. BlackboardTypeOK'
  BY <1>1 DEF LockInv, BlackboardTypeOK, dirVars, Settled
<1>5. (Numbered /\ Dense)'
  BY <1>1 DEF LockInv, Numbered, Dense
<1>6. InTurn'
  BY <1>1, <1>2, <1>3 DEF LockInv, InTurn, Begun
<1>7. Placed'
  BY <1>1, <1>2, <1>3 DEF LockInv, Placed, Running
<1>. QED BY <1>4, <1>5, <1>6, <1>7 DEF LockInv

(* A stopped engine has no calls and no chains. *)
LEMMA Stops ==
  ASSUME LockInv, Stop
  PROVE  LockInv'
<1>1. /\ dirByFlow' = [f \in Flows |-> None]
      /\ workDirByFlow' = [f \in Flows |-> None]
      /\ pc' = [c \in Calls |-> IF pc[c] = "idle" THEN "idle" ELSE "failed"]
      /\ abs' = [c \in Calls |-> None] /\ no' = [c \in Calls |-> 0]
      /\ chain' = [a \in Files |-> 0]
      /\ stops' = stops + 1
      /\ foreign' = foreign \cup {abs[c] : c \in {d \in Calls : pc[d] = "renamed"}}
      /\ UNCHANGED <<file, flow, text, last>>
  BY DEF Stop
<1>2. \A c \in Calls : pc[c] = "renamed" => abs[c] \in Files
  BY DEF LockInv, Placed, BlackboardTypeOK, Running
<1>3. foreign' \subseteq Files
  BY <1>1, <1>2 DEF LockInv, BlackboardTypeOK
<1>4. BlackboardTypeOK'
  BY <1>1, <1>3 DEF LockInv, BlackboardTypeOK, Settled
<1>5. (Numbered /\ Dense /\ InTurn /\ Placed)'
  BY <1>1 DEF Numbered, Dense, InTurn, Placed, Running
<1>. QED BY <1>4, <1>5 DEF LockInv

(* The steps of atomicWrite that leave the file and the log alone. *)
Quietly(c) ==
  \/ Mkdir(c) \/ WriteTemp(c) \/ RenameFails(c) \/ Cleanup(c)

LEMMA QuietStep ==
  ASSUME LockInv, NEW c \in Calls, Quietly(c)
  PROVE  LockInv' /\ pc[c] # "renamed" /\ pc'[c] # "renamed"
<1>1. PICK to \in {"temp", "failed", "rename", "cleanup"} :
        /\ pc[c] \in Running \ {"renamed"} /\ pc' = [pc EXCEPT ![c] = to]
        /\ UNCHANGED <<dirVars, file, flow, abs, text, no, chain, stops, last, foreign>>
  BY DEF Quietly, Mkdir, WriteTemp, RenameFails, Cleanup, Move, Running
<1>2. to \in Running \cup Settled
  BY DEF Running, Settled
<1>3. BlackboardTypeOK'
  BY <1>1, <1>2 DEF LockInv, BlackboardTypeOK, dirVars
<1>. QED BY <1>1, <1>2, <1>3, GoesOn DEF LockInv, BlackboardTypeOK

LEMMA RenameStep ==
  ASSUME LockInv, NEW c \in Calls, Rename(c)
  PROVE  LockInv'
<1>1. /\ pc[c] = "rename" /\ pc' = [pc EXCEPT ![c] = "renamed"]
      /\ file' = [file EXCEPT ![abs[c]] = text[c]]
      /\ foreign' = foreign \ {abs[c]}
      /\ UNCHANGED <<dirVars, flow, abs, text, no, chain, stops, last>>
  BY DEF Rename, Move
<1>2. abs[c] \in Files
  BY <1>1 DEF LockInv, Placed, BlackboardTypeOK, Running
<1>3. BlackboardTypeOK'
  BY <1>1, <1>2 DEF LockInv, BlackboardTypeOK, dirVars, Running
<1>. QED BY <1>1, <1>3, GoesOn DEF Running

LEMMA EmitStep ==
  ASSUME LockInv, NEW c \in Calls, EmitWrite(c)
  PROVE  LockInv'
<1>1. /\ pc[c] = "renamed" /\ pc' = [pc EXCEPT ![c] = "ok"]
      /\ last' = [last EXCEPT ![abs[c]] = text[c]]
      /\ UNCHANGED <<dirVars, file, flow, abs, text, no, chain, stops, foreign>>
  BY DEF EmitWrite, Move
<1>2. BlackboardTypeOK'
  BY <1>1 DEF LockInv, BlackboardTypeOK, dirVars, Settled
<1>. QED BY <1>1, <1>2, GoesOn DEF Running, Settled

(* What does not touch a call: resolveDir and the agents. *)
LEMMA Elsewhere ==
  ASSUME LockInv, BlackboardTypeOK', UNCHANGED <<writeVars, chain>>
  PROVE  LockInv'
BY DEF LockInv, Numbered, Dense, InTurn, Placed, Begun, writeVars

LEMMA ResolveStep ==
  ASSUME LockInv, NEW f \in Flows, ResolveDir(f)
  PROVE  LockInv' /\ UNCHANGED <<file, writeVars, chain, last, foreign>>
<1>1. PICK d \in WorkDirs[f] \cup {None} :
        /\ dirByFlow' = [dirByFlow EXCEPT ![f] = Sandbox[f]]
        /\ workDirByFlow' = [workDirByFlow EXCEPT ![f] = d]
        /\ UNCHANGED <<file, writeVars, chain, stops, last, foreign>>
  BY DEF ResolveDir
<1>2. Sandbox[f] \in Dirs /\ d \in Dirs \cup {None}
  BY DEF Dirs
<1>3. BlackboardTypeOK'
  BY <1>1, <1>2 DEF LockInv, BlackboardTypeOK, writeVars
<1>. QED BY <1>1, <1>3, Elsewhere

LEMMA AgentStep ==
  ASSUME LockInv, NEW f \in Flows, NEW path \in Safe, NEW t \in Texts,
         AgentWrites(f, path, t)
  PROVE  LockInv'
<1>1. <<BaseDir(f), path>> \in Files
  BY BaseDirType DEF LockInv, Files
<1>2. BlackboardTypeOK'
  BY <1>1 DEF LockInv, BlackboardTypeOK, AgentWrites, dirVars, writeVars
<1>. QED BY <1>2, Elsewhere DEF AgentWrites

LEMMA LockStep ==
  ASSUME LockInv, [Next]_vars
  PROVE  LockInv'
<1>1. ASSUME NEW f \in Flows, ResolveDir(f) PROVE LockInv'
  BY <1>1, ResolveStep
<1>2. ASSUME NEW c \in Calls, NEW f \in Flows, NEW path \in Paths,
             Refuse(c, f, path)
      PROVE  LockInv'
  BY <1>2, IsRefused
<1>3. ASSUME NEW c \in Calls, NEW f \in Flows, NEW path \in Paths,
             NEW t \in Texts, Call(c, f, path, t)
      PROVE  LockInv'
  BY <1>3, Joins
<1>4. ASSUME NEW c \in Calls, Step(c) PROVE LockInv'
  BY <1>4, Begins, QuietStep, RenameStep, EmitStep DEF Step, Quietly
<1>5. ASSUME NEW f \in Flows, NEW path \in Safe, NEW t \in Texts,
             AgentWrites(f, path, t)
      PROVE  LockInv'
  BY <1>5, AgentStep
<1>6. CASE Stop
  BY <1>6, Stops
<1>7. CASE UNCHANGED vars
  <2>1. BlackboardTypeOK'
    BY <1>7 DEF LockInv, BlackboardTypeOK, vars, dirVars, writeVars
  <2>. QED BY <1>7, <2>1, Elsewhere DEF vars
<1>. QED BY <1>1, <1>2, <1>3, <1>4, <1>5, <1>6, <1>7 DEF Next

LEMMA LockInit ==
  ASSUME Init PROVE LockInv
<1>1. BlackboardTypeOK
  BY BlackboardAssumption DEF Init, BlackboardTypeOK
<1>. QED BY <1>1 DEF Init, LockInv, Numbered, Dense, InTurn, Placed, Running

----------------------------------------------------------------------------
(* Files and events *)

LEMMA FileStep ==
  ASSUME FileInv, [Next]_vars
  PROVE  (RenamedHolds /\ EventsMatchFiles)'
<1>. LockInv /\ OneWriter
  BY OneRuns DEF FileInv
<1>. USE DEF LockInv, FileInv
<1>1. ASSUME NEW f \in Flows, ResolveDir(f)
      PROVE  (RenamedHolds /\ EventsMatchFiles)'
  BY <1>1, ResolveStep DEF RenamedHolds, EventsMatchFiles, writeVars
<1>2. ASSUME NEW c \in Calls, NEW f \in Flows, NEW path \in Paths,
             Refuse(c, f, path)
      PROVE  (RenamedHolds /\ EventsMatchFiles)'
  BY <1>2 DEF RenamedHolds, EventsMatchFiles, Refuse, BlackboardTypeOK
<1>3. ASSUME NEW c \in Calls, NEW f \in Flows, NEW path \in Paths,
             NEW t \in Texts, Call(c, f, path, t)
      PROVE  (RenamedHolds /\ EventsMatchFiles)'
  <2>. DEFINE a == AbsFile(f, path)
  <2>1. /\ pc[c] = "idle" /\ abs[c] = None
        /\ UNCHANGED <<file, last, foreign>>
        /\ \A d \in Calls : d # c => /\ pc'[d] = pc[d] /\ abs'[d] = abs[d]
                                     /\ text'[d] = text[d]
        /\ pc'[c] = "queued"
    BY <1>3 DEF Call, BlackboardTypeOK, Placed
  <2>. QED BY <2>1 DEF RenamedHolds, EventsMatchFiles
<1>4. ASSUME NEW c \in Calls, Step(c)
      PROVE  (RenamedHolds /\ EventsMatchFiles)'
  <2>1. CASE Acquire(c)
    BY <2>1 DEF Acquire, RenamedHolds, EventsMatchFiles, BlackboardTypeOK
  <2>2. CASE Quietly(c)
    <3>1. /\ UNCHANGED <<file, abs, text, last, foreign>>
          /\ pc[c] # "renamed" /\ pc'[c] # "renamed"
          /\ \A d \in Calls : d # c => pc'[d] = pc[d]
      BY <2>2, QuietStep DEF Quietly, Mkdir, WriteTemp, RenameFails, Cleanup, Move,
         BlackboardTypeOK
    <3>. QED BY <3>1 DEF RenamedHolds, EventsMatchFiles
  <2>3. CASE Rename(c)
    <3>1. /\ pc[c] = "rename" /\ pc' = [pc EXCEPT ![c] = "renamed"]
          /\ file' = [file EXCEPT ![abs[c]] = text[c]]
          /\ foreign' = foreign \ {abs[c]}
          /\ UNCHANGED <<abs, text, last>>
      BY <2>3 DEF Rename, Move
    <3>2. abs[c] \in Files
      BY <3>1 DEF Placed, BlackboardTypeOK, Running
    <3>3. \A d \in Calls : d # c /\ abs[d] = abs[c] => pc[d] # "renamed"
      BY <3>1 DEF OneWriter, Running
    <3>4. RenamedHolds'
      BY <3>1, <3>2, <3>3 DEF RenamedHolds, BlackboardTypeOK
    <3>5. EventsMatchFiles'
      BY <3>1, <3>2, <3>3 DEF EventsMatchFiles, BlackboardTypeOK
    <3>. QED BY <3>4, <3>5
  <2>4. CASE EmitWrite(c)
    <3>1. /\ pc[c] = "renamed" /\ pc' = [pc EXCEPT ![c] = "ok"]
          /\ last' = [last EXCEPT ![abs[c]] = text[c]]
          /\ UNCHANGED <<file, abs, text, foreign>>
      BY <2>4 DEF EmitWrite, Move
    <3>2. abs[c] \in Files
      BY <3>1 DEF Placed, BlackboardTypeOK, Running
    <3>3. RenamedHolds'
      BY <3>1 DEF RenamedHolds, BlackboardTypeOK
    <3>4. EventsMatchFiles'
      <4>. SUFFICES ASSUME NEW a \in Files \ foreign,
                           \A d \in Calls : abs[d] = a => pc'[d] # "renamed"
                    PROVE  last'[a] = file[a]
        BY <3>1 DEF EventsMatchFiles
      <4>1. CASE a = abs[c]
        BY <4>1, <3>1, <3>2 DEF RenamedHolds, BlackboardTypeOK
      <4>2. CASE a # abs[c]
        BY <4>2, <3>1, <3>2 DEF EventsMatchFiles, BlackboardTypeOK
      <4>. QED BY <4>1, <4>2
    <3>. QED BY <3>3, <3>4
  <2>. QED BY <1>4, <2>1, <2>2, <2>3, <2>4 DEF Step, Quietly
<1>5. ASSUME NEW f \in Flows, NEW path \in Safe, NEW t \in Texts,
             AgentWrites(f, path, t)
      PROVE  (RenamedHolds /\ EventsMatchFiles)'
  <2>. DEFINE a == <<BaseDir(f), path>>
  <2>1. /\ file' = [file EXCEPT ![a] = t] /\ foreign' = foreign \cup {a}
        /\ UNCHANGED <<pc, abs, text, last>>
    BY <1>5 DEF AgentWrites, writeVars
  <2>. HIDE DEF a
  <2>2. \A b \in Files : b # a => file'[b] = file[b]
    BY <2>1 DEF BlackboardTypeOK
  <2>3. \A c \in Calls : pc[c] = "renamed" => abs[c] \in Files
    BY DEF Placed, BlackboardTypeOK, Running
  <2>. QED BY <2>1, <2>2, <2>3 DEF RenamedHolds, EventsMatchFiles
<1>6. CASE Stop
  <2>1. /\ UNCHANGED <<file, last>>
        /\ foreign' = foreign \cup {abs[c] : c \in {d \in Calls : pc[d] = "renamed"}}
        /\ \A c \in Calls : pc'[c] # "renamed"
    BY <1>6 DEF Stop
  <2>2. \A a \in Files \ foreign' : \A c \in Calls : abs[c] = a => pc[c] # "renamed"
    BY <2>1
  <2>. QED BY <2>1, <2>2 DEF RenamedHolds, EventsMatchFiles
<1>7. CASE UNCHANGED vars
  BY <1>7 DEF RenamedHolds, EventsMatchFiles, vars, writeVars
<1>. QED BY <1>1, <1>2, <1>3, <1>4, <1>5, <1>6, <1>7 DEF Next

----------------------------------------------------------------------------

(* Every variable keeps its type, for any flows, paths and number of calls. *)
THEOREM BlackboardTypeCorrect == BlackboardSpec => []BlackboardTypeOK
<1>. QED BY LockInit, LockStep, PTL DEF BlackboardSpec, LockInv

(* withLock: of the calls that write one file one runs at a time, whichever *)
(* flows they belong to and whatever becomes of the calls before.          *)
THEOREM WritesAreSerial == BlackboardSpec => []OneWriter
<1>1. BlackboardSpec => []LockInv
  BY LockInit, LockStep, PTL DEF BlackboardSpec
<1>. QED BY <1>1, OneRuns, PTL

(* What blackboard.write has last told of a file that nobody else changed   *)
(* is what the file holds.                                                 *)
THEOREM EventsAreTrue == BlackboardSpec => []EventsMatchFiles
<1>1. Init => FileInv
  BY LockInit DEF Init, FileInv, RenamedHolds, EventsMatchFiles
<1>2. FileInv /\ [Next]_vars => FileInv'
  BY LockStep, FileStep DEF FileInv
<1>. QED BY <1>1, <1>2, PTL DEF BlackboardSpec, FileInv

=============================================================================
