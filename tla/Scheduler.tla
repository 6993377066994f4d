----------------------------- MODULE Scheduler -----------------------------
(***************************************************************************)
(* The trigger daemon (packages/engine/src/scheduler.ts): the arm of each   *)
(* trigger node, its cron job or interval timer, and the way an arm that    *)
(* fires starts a cycle of its flow.                                        *)
(*                                                                         *)
(* An arm is an object: armFlow replaces the arm of a trigger by a new one, *)
(* and a tick that still holds the old one goes on with it.  Arm <<t, k>>   *)
(* is the k-th arm made for trigger t; the registry holds the latest.       *)
(* Cycles are run by module Orchestrator; here one is in flight or not.     *)
(* cronPatternFor falls back to a valid pattern, so an Agendado always has  *)
(* its job; an Intervalo that lacks its interval gets no clock, and is a    *)
(* Manual here.                                                            *)
(***************************************************************************)
EXTENDS Integers

CONSTANTS
  FlowIds, Triggers,
  FlowOf,      \* [Triggers -> FlowIds]: the flow a trigger node belongs to
  Kinds,       \* the TriggerKinds in use, of the four the engine knows
  MaxArms,     \* bound: times the arm of a trigger is replaced
  MaxWaits     \* bound: ticks of one arm waiting for its flow at once

ASSUME SchedulerAssumption ==
  /\ FlowOf \in [Triggers -> FlowIds]
  /\ Kinds \subseteq {"Agendado", "Intervalo", "Webhook", "Manual"}
  /\ MaxArms \in Nat /\ MaxWaits \in Nat

Arms == Triggers \X (0 .. MaxArms)

VARIABLES
  registered,  \* the triggers that have an arm in the registry
  latest,      \* ... and which of their arms that is
  kind,        \* ... and the kind it was made with
  awake,       \* arms whose paused flag is off
  timer,       \* arms with an interval timeout pending
  cron,        \* arms with a live cron job
  ticking,     \* arms whose tick awaits the cycle it has started
  waiting,     \* ticks inside waitUntilIdle, per arm
  running,     \* flows with a cycle in flight
  awaiting,    \* flows stopped at a checkpoint
  played,      \* history: flows played since boot
  closed       \* the daemon has been stopped

registryVars == <<registered, latest, kind>>
clockVars    == <<timer, cron>>
tickVars     == <<ticking, waiting>>
cycleVars    == <<running, awaiting>>
schedVars    == <<registryVars, awake, clockVars, tickVars, cycleVars, played, closed>>

Of(f) == {t \in Triggers : FlowOf[t] = f}

flowOf(arm) == FlowOf[arm[1]]

current(t) == <<t, latest[t]>>

(* The arms the registry holds for a flow. *)
ArmsOf(f) == {current(t) : t \in registered \cap Of(f)}

(* Of arms whose triggers are of the given kinds, those that get a timeout   *)
(* and those that get a cron job.                                          *)
armIntervalo(arms, kinds) == {a \in arms : kinds[a[1]] = "Intervalo"}

armAgendado(arms, kinds) == {a \in arms : kinds[a[1]] = "Agendado"}

(* armOne for each of arms, once the clocks of gone are disposed of; the     *)
(* other kinds have no clock.                                              *)
armOne(arms, kinds, gone) ==
  /\ timer' = (timer \ gone) \cup armIntervalo(arms, kinds)
  /\ cron' = (cron \ gone) \cup armAgendado(arms, kinds)

disposeArm(arms) == timer' = timer \ arms /\ cron' = cron \ arms

(* fire drops what comes while a cycle or a checkpoint is open. *)
CanFire(f) == ~closed /\ f \notin running \cup awaiting

(* What ends waitUntilIdle. *)
Idle(f) == closed \/ f \notin running

(* After its cycle or its wait a tick sets its arm again, unless the arm was *)
(* paused or the daemon stopped meanwhile.                                 *)
Rearmed(arms) == IF closed THEN {} ELSE arms \cap awake

----------------------------------------------------------------------------

(* After start: the triggers of the loaded flows, every arm dormant. *)
SchedulerInit ==
  /\ registered \in SUBSET Triggers
  /\ latest = [t \in Triggers |-> 0]
  /\ kind \in [Triggers -> Kinds]
  /\ awake = {} /\ timer = {} /\ cron = {}
  /\ ticking = {} /\ waiting = [a \in Arms |-> 0]
  /\ running = {} /\ awaiting = {} /\ played = {} /\ closed = FALSE

----------------------------------------------------------------------------
(* Firing *)

(* Fault: a tick whose fire is dropped does not wait and re-arm. *)
TickOnce(a) ==
  LET f == flowOf(a)
  IN /\ a \in timer \cap awake
     /\ timer' = timer \ {a}
     /\ IF CanFire(f) THEN ticking' = ticking \cup {a} /\ running' = running \cup {f}
                      ELSE UNCHANGED <<ticking, running>>
     /\ UNCHANGED <<registryVars, awake, cron, waiting, awaiting, played, closed>>

(* An interval elapses.  A tick whose fire is dropped waits for the cycle   *)
(* in flight; at a checkpoint the flow counts as idle and the arm is set    *)
(* again at once.  A stopped daemon lets the tick go.                       *)
Tick(a) ==
  LET f == flowOf(a)
  IN /\ a \in timer \cap awake
     /\ \/ /\ CanFire(f)
           /\ running' = running \cup {f} /\ ticking' = ticking \cup {a}
           /\ timer' = timer \ {a}
           /\ UNCHANGED waiting
        \/ /\ ~closed /\ f \in running /\ waiting[a] < MaxWaits
           /\ waiting' = [waiting EXCEPT ![a] = @ + 1]
           /\ timer' = timer \ {a}
           /\ UNCHANGED <<ticking, running>>
        \/ /\ ~closed /\ f \in awaiting \ running
           /\ UNCHANGED <<tickVars, running, timer>>
        \/ /\ closed
           /\ timer' = timer \ {a}
           /\ UNCHANGED <<tickVars, running>>
     /\ UNCHANGED <<registryVars, awake, cron, awaiting, played, closed>>

(* Fault: the paused flag is not looked at again after the wait. *)
PollBlindly(a) ==
  /\ waiting[a] > 0 /\ Idle(flowOf(a))
  /\ waiting' = [waiting EXCEPT ![a] = @ - 1]
  /\ timer' = timer \cup {a}
  /\ UNCHANGED <<registryVars, awake, cron, ticking, cycleVars, played, closed>>

(* waitUntilIdle finds the flow idle. *)
Poll(a) ==
  /\ waiting[a] > 0 /\ Idle(flowOf(a))
  /\ waiting' = [waiting EXCEPT ![a] = @ - 1]
  /\ timer' = timer \cup Rearmed({a})
  /\ UNCHANGED <<registryVars, awake, cron, ticking, cycleVars, played, closed>>

Begin(f) ==
  /\ CanFire(f)
  /\ running' = running \cup {f}
  /\ UNCHANGED <<registryVars, awake, clockVars, tickVars, awaiting, played, closed>>

CronFires(a) == a \in cron \cap awake /\ Begin(flowOf(a))

Webhook(t) ==
  /\ t \in registered /\ kind[t] = "Webhook" /\ current(t) \in awake
  /\ Begin(FlowOf[t])

(* Forced: the arm may be dormant, or made for this fire alone. *)
RunNow(f) == Begin(f)

(* The cycle ends, held at a checkpoint or not.  A tick that awaited it     *)
(* goes on in the same turn.                                               *)
CycleEnds(f, held) ==
  LET ended == {a \in ticking : flowOf(a) = f}
  IN /\ f \in running
     /\ running' = running \ {f}
     /\ awaiting' = IF held THEN awaiting \cup {f} ELSE awaiting
     /\ ticking' = ticking \ ended
     /\ timer' = timer \cup Rearmed(ended)
     /\ UNCHANGED <<registryVars, awake, cron, waiting, played, closed>>

(* flow.continue runs the next cycle outside any arm. *)
Continue(f) ==
  /\ f \in awaiting \ running
  /\ awaiting' = awaiting \ {f}
  /\ running' = running \cup {f}
  /\ UNCHANGED <<registryVars, awake, clockVars, tickVars, played, closed>>

----------------------------------------------------------------------------
(* Arming *)

resumeFlow(f) ==
  /\ awake' = awake \cup ArmsOf(f)
  /\ armOne(ArmsOf(f), kind, {})
  /\ played' = played \cup {f}
  /\ UNCHANGED <<registryVars, tickVars, cycleVars, closed>>

(* flow.pause, flow.kill and flow.delete also drop the checkpoint. *)
pauseFlow(f) ==
  /\ awake' = awake \ ArmsOf(f)
  /\ disposeArm(ArmsOf(f))
  /\ awaiting' = awaiting \ {f}
  /\ UNCHANGED <<registryVars, tickVars, running, played, closed>>

(* What armFlow does once it is decided which new arms start awake. *)
Replace(f, wanted, kinds, up) ==
  LET made == {<<t, latest[t] + 1>> : t \in up}
  IN /\ \A t \in wanted : latest[t] < MaxArms
     /\ registered' = (registered \ Of(f)) \cup wanted
     /\ latest' = [t \in Triggers |-> IF t \in wanted THEN latest[t] + 1
                                      ELSE latest[t]]
     /\ kind' = [t \in Triggers |-> IF t \in wanted THEN kinds[t] ELSE kind[t]]
     /\ awake' = awake \cup made
     /\ armOne(made, kinds, ArmsOf(f))
     /\ UNCHANGED <<tickVars, cycleVars, played, closed>>

(* Fault: a trigger the registry has not seen starts awake. *)
armFlowAwake(f, wanted, kinds) ==
  Replace(f, wanted, kinds,
          {t \in wanted : t \in registered => current(t) \in awake})

(* armFlow after a save: wanted are now the flow's triggers.  Each gets a   *)
(* new arm that takes over the paused flag of the old one; a trigger the    *)
(* registry did not hold starts dormant.  The arms of triggers that are     *)
(* gone are disposed of, and so are the clocks of those replaced.           *)
armFlow(f, wanted, kinds) ==
  Replace(f, wanted, kinds, {t \in wanted \cap registered : current(t) \in awake})

(* The daemon stops: every registered arm is disposed of and forgotten.     *)
(* Commands already in hand go on and may still arm what nothing will fire. *)
stop ==
  /\ closed' = TRUE
  /\ registered' = {}
  /\ disposeArm({current(t) : t \in registered})
  /\ UNCHANGED <<latest, kind, awake, tickVars, cycleVars, played>>

----------------------------------------------------------------------------

SchedulerNext ==
  \/ stop
  \/ \E a \in Arms : Tick(a) \/ Poll(a) \/ CronFires(a)
  \/ \E t \in Triggers : Webhook(t)
  \/ \E f \in FlowIds :
       \/ RunNow(f) \/ Continue(f) \/ resumeFlow(f) \/ pauseFlow(f)
       \/ \E held \in BOOLEAN : CycleEnds(f, held)
       \/ \E wanted \in SUBSET Of(f), kinds \in [Of(f) -> Kinds] :
            armFlow(f, wanted, kinds)

SchedulerSpec == SchedulerInit /\ [][SchedulerNext]_schedVars

----------------------------------------------------------------------------
(* Properties *)

(* Boot is inert (scheduler.ts start, armFlow): until a flow is played      *)
(* nothing of it can fire by itself, however often it is saved, run by hand *)
(* or given new triggers.                                                  *)
InertUntilPlayed ==
  \A a \in timer \cup cron : flowOf(a) \in played

(* The arm the registry holds for a paused trigger has no timer and no cron *)
(* job (pauseFlow), whatever ticks of that arm were in flight when it was   *)
(* paused.  It says nothing of an arm armFlow has replaced: the tick that   *)
(* was in flight with it sets its timer again, and no pause reaches it.    *)
DormantIsSilent ==
  \A t \in registered : current(t) \notin awake => current(t) \notin timer \cup cron

(* No re-arm is lost (armIntervalo's tick): until the daemon stops, the     *)
(* clock of an awake trigger is running, or a tick of it is in flight that  *)
(* will set it again.                                                      *)
AwakeStaysArmed ==
  ~closed => \A t \in registered : LET a == current(t) IN a \in awake =>
    /\ kind[t] = "Agendado" => a \in cron
    /\ kind[t] = "Intervalo" => a \in timer \cup ticking \/ waiting[a] > 0
=============================================================================
