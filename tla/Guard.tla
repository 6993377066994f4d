------------------------------- MODULE Guard -------------------------------
(***************************************************************************)
(* The spend guard of the loom engine (packages/engine/src/guard.ts): the  *)
(* only place that mints permission to run an agent or to start another    *)
(* feedback cycle.  One action per operation of the Guard interface.  The  *)
(* callers are free here (any flow, any run, any order the interface       *)
(* allows); module Orchestrator composes these actions with the code that  *)
(* calls them.                                                             *)
(*                                                                         *)
(* Money and tokens are the two Metrics; an amount is a function on them.  *)
(* A denied request changes nothing in the guard, so a denial is a         *)
(* stuttering step of this module.                                         *)
(***************************************************************************)
EXTENDS Integers, FiniteSets, FiniteSetsExt, Functions

CONSTANTS
  Flows,              \* flow identifiers
  Runs,               \* run identifiers (a released one may be issued again)
  Models,             \* MODEL_REGISTRY
  Metrics,            \* {"usd", "tokens"}
  WorstCase,          \* [Models -> amount]: worstCaseRunCost / Tokens
  RunCap, FlowCap,    \* [Flows -> amount]: FlowBudget.max*PerRun / PerFlow
  MaxConcurrent,      \* [Flows -> Nat]: FlowBudget.maxConcurrentAgents
  MaxCyclesPerArm,    \* [Flows -> Nat]
  ConvergenceWindow,  \* [Flows -> Nat]
  BootSpend,          \* [Flows -> amount]: eventlog.foldFlowSpend() at boot
  Hashes,             \* artifact contents
  Deltas,             \* usage deltas a runner may report
  MaxExcess,          \* bound: how far a flow's runs overshoot, per metric
  MaxCycleNo          \* bound: cycles per flow

Amount == [Metrics -> Nat]
Zero   == [k \in Metrics |-> 0]
a (+) b == [k \in Metrics |-> a[k] + b[k]]

ASSUME AmountAssumption ==
  /\ WorstCase \in [Models -> Amount]
  /\ RunCap \in [Flows -> Amount] /\ FlowCap \in [Flows -> Amount]
  /\ BootSpend \in [Flows -> Amount]
  /\ Deltas \subseteq Amount
  /\ MaxExcess \in Nat
ASSUME LimitAssumption ==
  /\ MaxConcurrent \in [Flows -> Nat]
  /\ MaxCyclesPerArm \in [Flows -> Nat]
  /\ ConvergenceWindow \in [Flows -> Nat]
  /\ MaxCycleNo \in Nat

VARIABLES
  liveRuns,   \* flowLiveRuns / liveLeases: the runs holding a lease, per flow
  reserved,   \* LiveLease.reservedUsd/Tokens
  spent,      \* LiveLease.spentUsd/Tokens
  aborted,    \* runs whose AbortController has fired
  tripped,    \* LiveLease.runCapTripped
  committed,  \* FlowMeter: spend of settled runs
  paused, armed, killed,  \* pausedFlows, armedFlows, killedFlows
  authReady,  \* auth.isReady()
  seen, barren, lastCycle, fresh,  \* ConvergenceState
  cycleNo,    \* eventlog.cycleCounter(flow)
  cycleOpen,  \* a cycle of the flow has begun and has not reached its end
  (* history, read by no action *)
  excess,     \* what runs spent beyond their reservations since the last admission
  productive, \* the open cycle wrote an artifact never seen before
  streak      \* settled cycles since the last productive one

leaseVars == <<liveRuns, reserved, spent, aborted, tripped, committed, excess>>
flowVars  == <<paused, armed, killed, authReady>>
convVars  == <<seen, barren, lastCycle, fresh, productive, streak>>
cycleVars == <<cycleNo, cycleOpen>>
vars == <<leaseVars, flowVars, convVars, cycleVars>>

AllLive == UNION {liveRuns[f] : f \in Flows}

----------------------------------------------------------------------------
(* Sums over the live runs of a flow *)

LiveSum(f, amount) == [k \in Metrics |->
  SumFunctionOnSet([r \in Runs |-> amount[r][k]], liveRuns[f])]

(* A live run holds the greater of its reservation and what it has spent. *)
Held == [r \in Runs |-> [k \in Metrics |->
  IF spent[r][k] > reserved[r][k] THEN spent[r][k] ELSE reserved[r][k]]]

(* Fault: a run that overshoots frees headroom for its siblings. *)
OutstandingReservations(f) == LiveSum(f, reserved)

Outstanding(f) == LiveSum(f, Held)

Beyond(s, r) == [k \in Metrics |->
  IF s[k] > reserved[r][k] THEN s[k] - reserved[r][k] ELSE 0]

Exceeds(a, b) == \E k \in Metrics : a[k] > b[k]

----------------------------------------------------------------------------

Init ==
  /\ liveRuns = [f \in Flows |-> {}]
  /\ reserved = [r \in Runs |-> Zero]
  /\ spent = [r \in Runs |-> Zero]
  /\ aborted = {} /\ tripped = {}
  /\ committed = BootSpend
  /\ excess = [f \in Flows |-> Zero]
  /\ paused = {} /\ armed = {} /\ killed = {}
  /\ authReady \in BOOLEAN
  /\ seen = [f \in Flows |-> {}]
  /\ barren = [f \in Flows |-> 0]
  /\ lastCycle = [f \in Flows |-> -1]
  /\ fresh = [f \in Flows |-> FALSE]
  /\ cycleNo = [f \in Flows |-> 0]
  /\ cycleOpen = [f \in Flows |-> FALSE]
  /\ productive = [f \in Flows |-> FALSE]
  /\ streak = [f \in Flows |-> 0]

----------------------------------------------------------------------------
(* Admission and leases *)

(* The gates every request passes first: killed, paused, not armed, auth. *)
Startable(f) == f \notin killed /\ f \notin paused /\ f \in armed /\ authReady

Fits(f, wc) ==
  /\ ~ Exceeds(wc, RunCap[f])
  /\ ~ Exceeds(committed[f] (+) Outstanding(f) (+) wc, FlowCap[f])

Admissible(f, m) ==
  /\ Startable(f)
  /\ Cardinality(liveRuns[f]) < MaxConcurrent[f]
  /\ Fits(f, WorstCase[m])

RequestSpawn(f, r, m) ==
  /\ r \notin AllLive
  /\ Admissible(f, m)
  /\ liveRuns' = [liveRuns EXCEPT ![f] = @ \cup {r}]
  /\ reserved' = [reserved EXCEPT ![r] = WorstCase[m]]
  /\ excess' = [excess EXCEPT ![f] = Zero]
  /\ UNCHANGED <<spent, aborted, tripped, committed,
                 flowVars, convVars, cycleVars>>

(* The run's lease record goes away; only what it reports is committed. *)
ReleaseLease(f, r, final) ==
  /\ r \in liveRuns[f]
  /\ liveRuns' = [liveRuns EXCEPT ![f] = @ \ {r}]
  /\ reserved' = [reserved EXCEPT ![r] = Zero]
  /\ spent' = [spent EXCEPT ![r] = Zero]
  /\ aborted' = aborted \ {r}
  /\ tripped' = tripped \ {r}
  /\ committed' = [committed EXCEPT ![f] = @ (+) final]
  /\ UNCHANGED <<excess, flowVars, convVars, cycleVars>>

(* Latch, disarm and abort; the process and pane teardown that killFlow    *)
(* awaits afterwards touches no state of this module.                      *)
KillEffect(f) ==
  /\ killed' = killed \cup {f}
  /\ armed' = armed \ {f}
  /\ aborted' = aborted \cup liveRuns[f]

AddUsage(f, r, d) ==
  /\ r \in liveRuns[f]
  /\ spent' = [spent EXCEPT ![r] = @ (+) d]
  /\ excess' = [excess EXCEPT ![f] = [k \in Metrics |->
       @[k] + Beyond(spent[r] (+) d, r)[k] - Beyond(spent[r], r)[k]]]
  /\ \A k \in Metrics : excess'[f][k] <= MaxExcess
  /\ UNCHANGED <<liveRuns, reserved, committed, paused, authReady,
                 convVars, cycleVars>>

FlowOverCap(f, liveSpend) == Exceeds(committed[f] (+) liveSpend, FlowCap[f])

(* Fault: the run is marked but its controller is left alone. *)
MeterMarksRun(f, r, d) ==
  /\ AddUsage(f, r, d)
  /\ Exceeds(spent[r] (+) d, RunCap[f])
  /\ tripped' = tripped \cup {r}
  /\ UNCHANGED <<armed, killed, aborted>>

(* meterToken's three outcomes: the run crosses its own cap (and the flow   *)
(* is not looked at), the flow crosses its cap, or neither.                *)
MeterTripsRun(f, r, d) ==
  /\ AddUsage(f, r, d)
  /\ Exceeds(spent[r] (+) d, RunCap[f])
  /\ tripped' = tripped \cup {r}
  /\ aborted' = aborted \cup {r}
  /\ UNCHANGED <<armed, killed>>

MeterKillsFlow(f, r, d) ==
  /\ AddUsage(f, r, d)
  /\ ~ Exceeds(spent[r] (+) d, RunCap[f])
  /\ FlowOverCap(f, LiveSum(f, spent'))
  /\ KillEffect(f)
  /\ UNCHANGED tripped

MeterOnly(f, r, d) ==
  /\ AddUsage(f, r, d)
  /\ ~ Exceeds(spent[r] (+) d, RunCap[f])
  /\ ~ FlowOverCap(f, LiveSum(f, spent'))
  /\ UNCHANGED <<armed, killed, aborted, tripped>>

----------------------------------------------------------------------------
(* Flow switches *)

KillFlow(f) ==
  /\ KillEffect(f)
  /\ UNCHANGED <<liveRuns, reserved, spent, tripped, committed, excess, paused,
                 authReady, convVars, cycleVars>>

SetFlowPaused(f, on) ==
  /\ paused' = IF on THEN paused \cup {f} ELSE paused \ {f}
  /\ killed' = IF on THEN killed ELSE killed \ {f}
  /\ UNCHANGED <<leaseVars, armed, authReady, convVars, cycleVars>>

(* Fault: arming leaves the kill latched. *)
ArmWithoutUnlatch(f, on) ==
  /\ armed' = IF on THEN armed \cup {f} ELSE armed \ {f}
  /\ UNCHANGED <<leaseVars, paused, killed, authReady, convVars, cycleVars>>

SetFlowArmed(f, on) ==
  /\ armed' = IF on THEN armed \cup {f} ELSE armed \ {f}
  /\ killed' = IF on THEN killed \ {f} ELSE killed
  /\ UNCHANGED <<leaseVars, paused, authReady, convVars, cycleVars>>

(* flow.play and flow.pause set both switches before anything else runs. *)
PlaySwitches(f) ==
  /\ armed' = armed \cup {f} /\ paused' = paused \ {f}
  /\ killed' = killed \ {f}
  /\ UNCHANGED <<leaseVars, authReady, convVars, cycleVars>>

PauseSwitches(f) ==
  /\ armed' = armed \ {f} /\ paused' = paused \cup {f}
  /\ UNCHANGED <<leaseVars, killed, authReady, convVars, cycleVars>>

AuthVerdict(ready) ==
  /\ authReady' = ready
  /\ UNCHANGED <<leaseVars, paused, armed, killed, convVars, cycleVars>>

----------------------------------------------------------------------------
(* Cycles: the event log's counter, the hash latch and the feedback gate *)

BeginCycle(f) ==
  /\ ~ cycleOpen[f] /\ cycleNo[f] < MaxCycleNo
  /\ cycleNo' = [cycleNo EXCEPT ![f] = @ + 1]
  /\ cycleOpen' = [cycleOpen EXCEPT ![f] = TRUE]
  /\ productive' = [productive EXCEPT ![f] = FALSE]
  /\ UNCHANGED <<leaseVars, flowVars, seen, barren, lastCycle, fresh, streak>>

(* A cycle that ends without asking for another one: killed, no feedback    *)
(* edge, or denied before convergence is settled.                          *)
EndCycleUnsettled(f) ==
  /\ cycleOpen[f]
  /\ cycleOpen' = [cycleOpen EXCEPT ![f] = FALSE]
  /\ UNCHANGED <<leaseVars, flowVars, convVars, cycleNo>>

(* Fault, as the code once had it: a barren cycle is counted when the next  *)
(* one writes, and again at the gate.                                      *)
FoldAndCount(f, h) ==
  /\ lastCycle' = [lastCycle EXCEPT ![f] = cycleNo[f]]
  /\ seen' = [seen EXCEPT ![f] = @ \cup {h}]
  /\ barren' = [barren EXCEPT ![f] =
       IF lastCycle[f] # cycleNo[f] /\ ~ fresh[f] THEN @ + 1 ELSE @]
  /\ LET new == h \notin seen[f]
     IN /\ fresh' = [fresh EXCEPT ![f] =
               new \/ (@ /\ lastCycle[f] = cycleNo[f])]
        /\ productive' = [productive EXCEPT ![f] = @ \/ new]
  /\ UNCHANGED <<leaseVars, flowVars, streak, cycleVars>>

FoldArtifactHash(f, h) ==
  /\ lastCycle' = [lastCycle EXCEPT ![f] = cycleNo[f]]
  /\ seen' = [seen EXCEPT ![f] = @ \cup {h}]
  /\ LET new == h \notin seen[f]
     IN /\ fresh' = [fresh EXCEPT ![f] =
               new \/ (@ /\ lastCycle[f] = cycleNo[f])]
        /\ productive' = [productive EXCEPT ![f] = @ \/ new]
  /\ UNCHANGED <<leaseVars, flowVars, barren, streak, cycleVars>>

(* The two denials that come before the settlement. *)
GateStops(f, arm) == ~ Startable(f) \/ arm + 1 >= MaxCyclesPerArm[f]

(* The barren count once the finished cycle is settled. *)
Settled(f) == IF fresh[f] THEN 0 ELSE barren[f] + 1

(* Fault: the window is counted from zero. *)
ConvergedEarly(f) == Settled(f) + 1 >= ConvergenceWindow[f]

Converged(f) == Settled(f) >= ConvergenceWindow[f]

(* requestNextCycle past its first denials: settle the cycle just finished. *)
(* The answer is granted or "converged"; the caller's side closes the cycle. *)
SettleCycle(f, arm) ==
  /\ cycleOpen[f]
  /\ ~ GateStops(f, arm)
  /\ barren' = [barren EXCEPT ![f] = Settled(f)]
  /\ fresh' = [fresh EXCEPT ![f] = FALSE]
  /\ streak' = [streak EXCEPT ![f] = IF productive[f] THEN 0 ELSE @ + 1]
  /\ cycleOpen' = [cycleOpen EXCEPT ![f] = FALSE]
  /\ UNCHANGED <<leaseVars, flowVars, seen, lastCycle, productive, cycleNo>>

----------------------------------------------------------------------------

(* A runner reports what it metered, or nothing (terminal runs, failures). *)
Leases(f) ==
  \/ \E r \in Runs, m \in Models : RequestSpawn(f, r, m)
  \/ \E r \in Runs, final \in {Zero} : ReleaseLease(f, r, final)
  \/ \E r \in Runs : ReleaseLease(f, r, spent[r])
  \/ \E r \in Runs, d \in Deltas : MeterTripsRun(f, r, d)
  \/ \E r \in Runs, d \in Deltas : MeterKillsFlow(f, r, d)
  \/ \E r \in Runs, d \in Deltas : MeterOnly(f, r, d)

Switches(f) ==
  \/ KillFlow(f)
  \/ \E on \in BOOLEAN : SetFlowPaused(f, on)
  \/ \E on \in BOOLEAN : SetFlowArmed(f, on)
  \/ PlaySwitches(f) \/ PauseSwitches(f)
  \/ \E ready \in BOOLEAN : AuthVerdict(ready)

Cycles(f) ==
  \/ BeginCycle(f)
  \/ EndCycleUnsettled(f)
  \/ \E h \in Hashes : FoldArtifactHash(f, h)
  \/ \E arm \in 0..MaxCyclesPerArm[f] : SettleCycle(f, arm)

Next == \E f \in Flows : Leases(f) \/ Switches(f) \/ Cycles(f)

Spec == Init /\ [][Next]_vars

----------------------------------------------------------------------------
(* Properties *)

TypeOK ==
  /\ liveRuns \in [Flows -> SUBSET Runs]
  /\ reserved \in [Runs -> Amount] /\ spent \in [Runs -> Amount]
  /\ aborted \in SUBSET Runs /\ tripped \in SUBSET Runs
  /\ committed \in [Flows -> Amount] /\ excess \in [Flows -> Amount]
  /\ paused \in SUBSET Flows /\ armed \in SUBSET Flows
  /\ killed \in SUBSET Flows /\ authReady \in BOOLEAN
  /\ seen \in [Flows -> SUBSET Hashes]
  /\ barren \in [Flows -> Nat] /\ streak \in [Flows -> Nat]
  /\ lastCycle \in [Flows -> Nat \cup {-1}]
  /\ fresh \in [Flows -> BOOLEAN] /\ productive \in [Flows -> BOOLEAN]
  /\ cycleNo \in [Flows -> Nat] /\ cycleOpen \in [Flows -> BOOLEAN]

(* A flow never has more leases out than its semaphore allows, whatever the *)
(* order of admissions and (early, late, aborted) releases.                *)
ConcurrencyBound ==
  \A f \in Flows : Cardinality(liveRuns[f]) <= MaxConcurrent[f]

(* While a kill is latched the flow is disarmed and every run it still has  *)
(* out has been told to stop: no admission slipped in after the kill and   *)
(* none of the switches can leave a live run behind the latch.             *)
KilledIsQuiet ==
  \A f \in killed : f \notin armed /\ liveRuns[f] \subseteq aborted

(* A run that has been metered beyond its flow's per-run cap has been       *)
(* aborted, and stays so for as long as it holds its lease.                *)
OverCapIsAborted ==
  \A f \in Flows : \A r \in liveRuns[f] :
    Exceeds(spent[r], RunCap[f]) => r \in aborted /\ r \in tripped

(* spendForFlow: what the flow has spent, settled or live, and what its live *)
(* runs still have in reserve.                                             *)
SpendForFlow(f) ==
  LET Unspent == [r \in Runs |-> [k \in Metrics |-> Held[r][k] - spent[r][k]]]
  IN [spent    |-> committed[f] (+) LiveSum(f, spent),
      reserved |-> LiveSum(f, Unspent)]

(* The rolling ceiling: settled spend plus everything live runs hold stays  *)
(* within the flow's cap (or what the log already showed at boot), except  *)
(* for what runs spent beyond their reservations since the last admission: *)
(* an admission counts every earlier overshoot, settled or live, so a new  *)
(* run is never let in on headroom an overshooting sibling has used up.    *)
FlowCapHeld ==
  \A f \in Flows, k \in Metrics :
    SpendForFlow(f).spent[k] + SpendForFlow(f).reserved[k]
      <= Max({FlowCap[f][k], BootSpend[f][k]}) + excess[f][k]

(* Single settlement: the barren counter never runs ahead of the number of  *)
(* cycles that really were settled without a new artifact since the last   *)
(* productive one, so a productive loop is never stopped as converged.     *)
BarrenNeverOvercounts == \A f \in Flows : barren[f] <= streak[f]
=============================================================================
