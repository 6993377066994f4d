------------------------- MODULE OrchestratorProofs -------------------------
(***************************************************************************)
(* Proofs about Guard and Orchestrator for every set of flows and nodes,    *)
(* every plan and every budget.  Part 1: the guard, whoever calls it; one   *)
(* inductive invariant, GuardInv, carries its theorems.  Part 2: the       *)
(* orchestrator, the runners and the bridge use the guard only as its      *)
(* interface allows, so that part 1 holds of the composition.  Then: no    *)
(* lease leaks, no node starts before its predecessors, a converged cycle   *)
(* wrote nothing new, and the cycles and runs of a firing are those module  *)
(* Firing allows.                                                          *)
(***************************************************************************)
EXTENDS Orchestrator, FiniteTheorems, FiniteSetTheorems, TLAPS

----------------------------------------------------------------------------
(* Part 1: the guard. *)

(* A run holds a lease of at most one flow, lease sets are finite, and a    *)
(* run without a lease has nothing on its meter.                           *)
LeasesWellFormed ==
  /\ \A f, g \in Flows : f # g => liveRuns[f] \cap liveRuns[g] = {}
  /\ \A f \in Flows : IsFiniteSet(liveRuns[f])
  /\ \A r \in Runs : (\A f \in Flows : r \notin liveRuns[f]) => spent[r] = Zero

(* While a cycle that wrote something new is open, the latch shows it.      *)
LatchShowsProductive ==
  \A f \in Flows : cycleOpen[f] /\ productive[f] =>
    fresh[f] /\ lastCycle[f] = cycleNo[f]

GuardInv ==
  /\ TypeOK
  /\ LeasesWellFormed
  /\ ConcurrencyBound
  /\ KilledIsQuiet
  /\ OverCapIsAborted
  /\ LatchShowsProductive
  /\ BarrenNeverOvercounts

----------------------------------------------------------------------------
(* Amounts *)

LEMMA AmountFacts ==
  /\ Zero \in Amount
  /\ \A a, b \in Amount : a (+) b \in Amount
  /\ \A a \in Amount : ~ Exceeds(Zero, a)
BY DEF Amount, Zero, (+), Exceeds

LEMMA InitInv == Init => GuardInv
<1> SUFFICES ASSUME Init PROVE GuardInv
  OBVIOUS
<1>1. TypeOK
  BY AmountFacts, AmountAssumption DEF Init, TypeOK
<1>2. LeasesWellFormed
  BY FS_EmptySet DEF Init, LeasesWellFormed
<1>3. ConcurrencyBound
  BY FS_EmptySet, LimitAssumption DEF Init, ConcurrencyBound
<1>4. KilledIsQuiet /\ OverCapIsAborted
  BY DEF Init, KilledIsQuiet, OverCapIsAborted
<1>5. LatchShowsProductive /\ BarrenNeverOvercounts
  BY DEF Init, LatchShowsProductive, BarrenNeverOvercounts
<1>. QED BY <1>1, <1>2, <1>3, <1>4, <1>5 DEF GuardInv

----------------------------------------------------------------------------
(* Steps on leases.  Each lemma: one action, the invariant after it.        *)

LeaseInv == LeasesWellFormed /\ ConcurrencyBound /\ KilledIsQuiet
              /\ OverCapIsAborted

CycleInv == LatchShowsProductive /\ BarrenNeverOvercounts

LEMMA CycleFrame ==
  ASSUME CycleInv, UNCHANGED <<convVars, cycleVars>>
  PROVE  CycleInv'
BY DEF CycleInv, LatchShowsProductive, BarrenNeverOvercounts, convVars, cycleVars

LEMMA LeaseFrame ==
  ASSUME LeaseInv, UNCHANGED <<leaseVars, killed, armed>>
  PROVE  LeaseInv'
BY DEF LeaseInv, LeasesWellFormed, ConcurrencyBound, KilledIsQuiet,
       OverCapIsAborted, leaseVars

LEMMA SpawnStep ==
  ASSUME GuardInv, NEW f \in Flows, NEW r \in Runs, NEW m \in Models,
         RequestSpawn(f, r, m)
  PROVE  GuardInv'
<1> USE DEF GuardInv
<1>1. /\ liveRuns' = [liveRuns EXCEPT ![f] = @ \cup {r}]
      /\ reserved' = [reserved EXCEPT ![r] = WorstCase[m]]
      /\ excess' = [excess EXCEPT ![f] = Zero]
      /\ UNCHANGED <<spent, aborted, tripped, committed,
                     flowVars, convVars, cycleVars>>
  BY DEF RequestSpawn
<1>2. /\ \A g \in Flows : r \notin liveRuns[g]
      /\ f \notin killed
      /\ Cardinality(liveRuns[f]) < MaxConcurrent[f]
  BY DEF RequestSpawn, AllLive, Admissible, Startable
<1>3. TypeOK'
  BY <1>1, AmountAssumption, AmountFacts
     DEF TypeOK, flowVars, convVars, cycleVars
<1>4. LeasesWellFormed'
  <2>1. IsFiniteSet(liveRuns[f] \cup {r})
    BY FS_AddElement DEF LeasesWellFormed
  <2>2. \A g \in Flows : liveRuns'[g] = IF g = f THEN liveRuns[f] \cup {r}
                                               ELSE liveRuns[g]
    BY <1>1 DEF TypeOK
  <2>3. \A g \in Flows : IsFiniteSet(liveRuns'[g])
    BY <2>1, <2>2 DEF LeasesWellFormed
  <2>4. \A g, h \in Flows : g # h => liveRuns'[g] \cap liveRuns'[h] = {}
    BY <2>2, <1>2 DEF LeasesWellFormed
  <2>5. \A x \in Runs : (\A g \in Flows : x \notin liveRuns'[g])
                            => spent'[x] = Zero
    BY <1>1, <2>2 DEF LeasesWellFormed
  <2>. QED BY <2>3, <2>4, <2>5 DEF LeasesWellFormed
<1>5. ConcurrencyBound'
  <2>1. Cardinality(liveRuns[f] \cup {r}) = Cardinality(liveRuns[f]) + 1
    BY <1>2, FS_AddElement DEF LeasesWellFormed
  <2>2. Cardinality(liveRuns[f]) \in Nat /\ MaxConcurrent[f] \in Nat
    BY FS_CardinalityType, LimitAssumption DEF LeasesWellFormed
  <2>3. Cardinality(liveRuns'[f]) <= MaxConcurrent[f]
    BY <1>1, <1>2, <2>1, <2>2 DEF TypeOK
  <2>. QED BY <1>1, <2>3 DEF ConcurrencyBound, TypeOK
<1>6. KilledIsQuiet'
  BY <1>1, <1>2 DEF KilledIsQuiet, TypeOK, flowVars
<1>7. OverCapIsAborted'
  <2>1. spent[r] = Zero
    BY <1>2 DEF LeasesWellFormed
  <2>2. ~ Exceeds(spent[r], RunCap[f])
    BY <2>1, AmountFacts, AmountAssumption
  <2>. QED BY <1>1, <2>2 DEF OverCapIsAborted, TypeOK
<1>8. CycleInv'
  BY <1>1, CycleFrame DEF CycleInv
<1>. QED BY <1>3, <1>4, <1>5, <1>6, <1>7, <1>8 DEF CycleInv

LEMMA ReleaseStep ==
  ASSUME GuardInv, NEW f \in Flows, NEW r \in Runs, NEW final \in Amount,
         ReleaseLease(f, r, final)
  PROVE  GuardInv'
<1> USE DEF GuardInv
<1>1. /\ r \in liveRuns[f]
      /\ liveRuns' = [liveRuns EXCEPT ![f] = @ \ {r}]
      /\ spent' = [spent EXCEPT ![r] = Zero]
      /\ aborted' = aborted \ {r} /\ tripped' = tripped \ {r}
      /\ UNCHANGED <<flowVars, convVars, cycleVars>>
  BY DEF ReleaseLease
<1>2. \A g \in Flows : g # f => r \notin liveRuns[g]
  BY <1>1 DEF LeasesWellFormed
<1>3. TypeOK'
  BY AmountFacts DEF ReleaseLease, TypeOK, flowVars, convVars, cycleVars
<1>4. LeasesWellFormed'
  <2>1. \A g \in Flows : IsFiniteSet(liveRuns'[g])
    BY <1>1, FS_RemoveElement, SMTT(30) DEF LeasesWellFormed, TypeOK
  <2>. QED BY <1>1, <2>1 DEF LeasesWellFormed, TypeOK
<1>5. ConcurrencyBound'
  <2>1. /\ Cardinality(liveRuns[f] \ {r}) = Cardinality(liveRuns[f]) - 1
        /\ Cardinality(liveRuns[f]) \in Nat /\ MaxConcurrent[f] \in Nat
    BY <1>1, FS_RemoveElement, FS_CardinalityType, LimitAssumption
       DEF LeasesWellFormed
  <2>. QED BY <1>1, <2>1 DEF ConcurrencyBound, TypeOK
<1>6. KilledIsQuiet'
  BY <1>1, <1>2 DEF KilledIsQuiet, TypeOK, flowVars
<1>7. OverCapIsAborted'
  BY <1>1, <1>2 DEF OverCapIsAborted, TypeOK
<1>8. CycleInv'
  BY <1>1, CycleFrame DEF CycleInv
<1>. QED BY <1>3, <1>4, <1>5, <1>6, <1>7, <1>8 DEF CycleInv

LEMMA MeterType ==
  ASSUME TypeOK, NEW f \in Flows, NEW r \in Runs, NEW d \in Deltas,
         AddUsage(f, r, d)
  PROVE  /\ spent' \in [Runs -> Amount] /\ excess' \in [Flows -> Amount]
         /\ spent' = [spent EXCEPT ![r] = @ (+) d]
         /\ r \in liveRuns[f]
         /\ UNCHANGED <<liveRuns, reserved, committed, paused, authReady,
                        convVars, cycleVars>>
<1>1. d \in Amount /\ spent[r] \in Amount /\ excess[f] \in Amount
      /\ reserved[r] \in Amount /\ spent[r] (+) d \in Amount
  BY AmountAssumption, AmountFacts DEF TypeOK
<1>2. spent' \in [Runs -> Amount]
  BY <1>1 DEF AddUsage, TypeOK
<1>3. excess' \in [Flows -> Amount]
  <2> DEFINE more == [k \in Metrics |-> excess[f][k]
                + Beyond(spent[r] (+) d, r)[k] - Beyond(spent[r], r)[k]]
  <2>1. more \in Amount
    BY <1>1 DEF Amount, Beyond, (+)
  <2>2. excess' = [excess EXCEPT ![f] = more]
    BY DEF AddUsage
  <2>. QED BY <2>1, <2>2 DEF TypeOK
<1>. QED BY <1>2, <1>3 DEF AddUsage

LEMMA MeterTripsStep ==
  ASSUME GuardInv, NEW f \in Flows, NEW r \in Runs, NEW d \in Deltas,
         MeterTripsRun(f, r, d)
  PROVE  GuardInv'
<1> USE DEF GuardInv
<1>1. /\ spent' \in [Runs -> Amount] /\ excess' \in [Flows -> Amount]
      /\ spent' = [spent EXCEPT ![r] = @ (+) d]
      /\ r \in liveRuns[f]
      /\ UNCHANGED <<liveRuns, reserved, committed, paused, authReady,
                     convVars, cycleVars>>
  BY MeterType DEF MeterTripsRun
<1>2. /\ tripped' = tripped \cup {r} /\ aborted' = aborted \cup {r}
      /\ UNCHANGED <<armed, killed>>
  BY DEF MeterTripsRun
<1>3. TypeOK'
  BY <1>1, <1>2 DEF TypeOK, convVars, cycleVars
<1>4. LeasesWellFormed' /\ ConcurrencyBound'
  BY <1>1 DEF LeasesWellFormed, ConcurrencyBound, TypeOK
<1>5. KilledIsQuiet'
  BY <1>1, <1>2 DEF KilledIsQuiet
<1>6. OverCapIsAborted'
  BY <1>1, <1>2 DEF OverCapIsAborted, TypeOK
<1>7. CycleInv'
  BY <1>1, CycleFrame DEF CycleInv
<1>. QED BY <1>3, <1>4, <1>5, <1>6, <1>7 DEF CycleInv

LEMMA MeterUnderCapStep ==
  ASSUME GuardInv, NEW f \in Flows, NEW r \in Runs, NEW d \in Deltas,
         AddUsage(f, r, d), ~ Exceeds(spent[r] (+) d, RunCap[f]),
         \/ KillEffect(f) /\ UNCHANGED tripped
         \/ UNCHANGED <<armed, killed, aborted, tripped>>
  PROVE  GuardInv'
<1> USE DEF GuardInv
<1>1. /\ spent' \in [Runs -> Amount] /\ excess' \in [Flows -> Amount]
      /\ spent' = [spent EXCEPT ![r] = @ (+) d]
      /\ r \in liveRuns[f]
      /\ UNCHANGED <<liveRuns, reserved, committed, paused, authReady,
                     convVars, cycleVars>>
  BY MeterType
<1>2. /\ aborted \subseteq aborted' /\ tripped' = tripped
      /\ aborted' \in SUBSET Runs /\ armed' \in SUBSET Flows
      /\ killed' \in SUBSET Flows
  BY DEF KillEffect, TypeOK
<1>3. TypeOK'
  BY <1>1, <1>2 DEF TypeOK, convVars, cycleVars
<1>4. LeasesWellFormed' /\ ConcurrencyBound'
  BY <1>1 DEF LeasesWellFormed, ConcurrencyBound, TypeOK
<1>5. KilledIsQuiet'
  BY <1>1 DEF KilledIsQuiet, KillEffect
<1>6. OverCapIsAborted'
  <2>1. ~ Exceeds(spent'[r], RunCap[f])
    BY <1>1 DEF TypeOK
  <2>2. \A g \in Flows : \A x \in liveRuns[g] : x # r => spent'[x] = spent[x]
    BY <1>1 DEF TypeOK
  <2>3. \A g \in Flows : r \in liveRuns[g] => g = f
    BY <1>1 DEF LeasesWellFormed
  <2>. QED BY <1>1, <1>2, <2>1, <2>2, <2>3 DEF OverCapIsAborted
<1>7. CycleInv'
  BY <1>1, CycleFrame DEF CycleInv
<1>. QED BY <1>3, <1>4, <1>5, <1>6, <1>7 DEF CycleInv

LEMMA LeaseStep ==
  ASSUME GuardInv, NEW f \in Flows, Leases(f)
  PROVE  GuardInv'
<1>1. CASE \E r \in Runs, m \in Models : RequestSpawn(f, r, m)
  BY <1>1, SpawnStep
<1>2. CASE \E r \in Runs, final \in {Zero} : ReleaseLease(f, r, final)
  BY <1>2, ReleaseStep, AmountFacts
<1>3. CASE \E r \in Runs : ReleaseLease(f, r, spent[r])
  BY <1>3, ReleaseStep DEF GuardInv, TypeOK
<1>4. CASE \E r \in Runs, d \in Deltas : MeterTripsRun(f, r, d)
  BY <1>4, MeterTripsStep
<1>5. CASE \E r \in Runs, d \in Deltas : MeterKillsFlow(f, r, d)
  BY <1>5, MeterUnderCapStep DEF MeterKillsFlow
<1>6. CASE \E r \in Runs, d \in Deltas : MeterOnly(f, r, d)
  BY <1>6, MeterUnderCapStep DEF MeterOnly
<1>. QED BY <1>1, <1>2, <1>3, <1>4, <1>5, <1>6 DEF Leases

----------------------------------------------------------------------------
(* Steps on the switches and on cycles *)

LEMMA SwitchStep ==
  ASSUME GuardInv, NEW f \in Flows, Switches(f)
  PROVE  GuardInv'
<1> USE DEF GuardInv
<1>1. /\ UNCHANGED <<liveRuns, reserved, spent, tripped, committed, excess,
                     convVars, cycleVars>>
  BY DEF Switches, KillFlow, SetFlowPaused, SetFlowArmed, PlaySwitches,
         PauseSwitches, AuthVerdict, leaseVars
<1>2. TypeOK'
  BY <1>1 DEF Switches, KillFlow, KillEffect, SetFlowPaused, SetFlowArmed,
              PlaySwitches, PauseSwitches, AuthVerdict, TypeOK, leaseVars, convVars, cycleVars
<1>3. LeasesWellFormed' /\ ConcurrencyBound'
  BY <1>1 DEF LeasesWellFormed, ConcurrencyBound
<1>4. aborted \subseteq aborted'
  BY DEF Switches, KillFlow, KillEffect, SetFlowPaused, SetFlowArmed,
         PlaySwitches, PauseSwitches, AuthVerdict, leaseVars
<1>5. KilledIsQuiet'
  BY <1>1, <1>4 DEF Switches, KillFlow, KillEffect, SetFlowPaused,
                    SetFlowArmed, PlaySwitches,
         PauseSwitches, AuthVerdict, KilledIsQuiet, leaseVars
<1>6. OverCapIsAborted'
  BY <1>1, <1>4 DEF OverCapIsAborted
<1>7. CycleInv'
  BY <1>1, CycleFrame DEF CycleInv
<1>. QED BY <1>2, <1>3, <1>5, <1>6, <1>7 DEF CycleInv

LEMMA CycleStep ==
  ASSUME GuardInv, NEW f \in Flows, Cycles(f)
  PROVE  GuardInv'
<1> USE DEF GuardInv
<1>1. UNCHANGED <<leaseVars, flowVars>>
  BY DEF Cycles, BeginCycle, EndCycleUnsettled, FoldArtifactHash, SettleCycle
<1>2. LeaseInv'
  BY <1>1, LeaseFrame DEF LeaseInv, flowVars
<1>3. CASE BeginCycle(f)
  <2>1. TypeOK'
    BY <1>1, <1>3 DEF BeginCycle, TypeOK, leaseVars, flowVars
  <2>2. CycleInv'
    BY <1>3 DEF BeginCycle, CycleInv, LatchShowsProductive,
                BarrenNeverOvercounts, TypeOK
  <2>. QED BY <1>2, <2>1, <2>2 DEF LeaseInv, CycleInv
<1>4. CASE EndCycleUnsettled(f)
  <2>1. TypeOK'
    BY <1>1, <1>4 DEF EndCycleUnsettled, TypeOK, leaseVars, flowVars, convVars
  <2>2. CycleInv'
    BY <1>4 DEF EndCycleUnsettled, CycleInv, LatchShowsProductive,
                BarrenNeverOvercounts, TypeOK, convVars
  <2>. QED BY <1>2, <2>1, <2>2 DEF LeaseInv, CycleInv
<1>5. ASSUME NEW h \in Hashes, FoldArtifactHash(f, h) PROVE GuardInv'
  <2>1. TypeOK'
    BY <1>1, <1>5 DEF FoldArtifactHash, TypeOK, leaseVars, flowVars, cycleVars
  <2>2. LatchShowsProductive'
    BY <1>5 DEF FoldArtifactHash, LatchShowsProductive, TypeOK, cycleVars
  <2>3. BarrenNeverOvercounts'
    BY <1>5 DEF FoldArtifactHash, BarrenNeverOvercounts, TypeOK
  <2>. QED BY <1>2, <2>1, <2>2, <2>3 DEF LeaseInv
<1>6. ASSUME NEW next \in 0..MaxCyclesPerArm[f], SettleCycle(f, next)
      PROVE  GuardInv'
  <2>1. TypeOK'
    BY <1>1, <1>6 DEF SettleCycle, Settled, TypeOK, leaseVars, flowVars
  <2>2. LatchShowsProductive'
    BY <1>6 DEF SettleCycle, LatchShowsProductive, TypeOK
  <2>3. BarrenNeverOvercounts'
    BY <1>6 DEF SettleCycle, Settled, LatchShowsProductive,
                BarrenNeverOvercounts, TypeOK
  <2>. QED BY <1>2, <2>1, <2>2, <2>3 DEF LeaseInv
<1>. QED BY <1>3, <1>4, <1>5, <1>6 DEF Cycles

LEMMA StutterStep ==
  ASSUME GuardInv, UNCHANGED vars
  PROVE  GuardInv'
<1>1. UNCHANGED <<leaseVars, flowVars, convVars, cycleVars>>
  BY DEF vars
<1>2. TypeOK'
  BY <1>1 DEF GuardInv, TypeOK, leaseVars, flowVars, convVars, cycleVars
<1>. QED BY <1>1, <1>2, LeaseFrame, CycleFrame
         DEF GuardInv, LeaseInv, CycleInv, flowVars

----------------------------------------------------------------------------
(* The rolling ceiling.  CapInv is FlowCapHeld with what a live run has      *)
(* spent and what it has left in reserve taken together.                   *)

HeldOf(k) == [r \in Runs |-> Held[r][k]]
HeldSum(f, k) == SumFunctionOnSet(HeldOf(k), liveRuns[f])
Ceiling(f, k) == Max({FlowCap[f][k], BootSpend[f][k]})

CapInv == \A f \in Flows, k \in Metrics :
  committed[f][k] + HeldSum(f, k) <= Ceiling(f, k) + excess[f][k]

LEMMA CeilingFacts ==
  ASSUME NEW f \in Flows, NEW k \in Metrics
  PROVE  /\ FlowCap[f][k] \in Nat /\ BootSpend[f][k] \in Nat
         /\ Ceiling(f, k) \in Nat
         /\ FlowCap[f][k] <= Ceiling(f, k) /\ BootSpend[f][k] <= Ceiling(f, k)
<1>1. FlowCap[f][k] \in Nat /\ BootSpend[f][k] \in Nat
  BY AmountAssumption DEF Amount
<1> DEFINE S == {FlowCap[f][k], BootSpend[f][k]}
<1>2. \E x \in S : \A y \in S : x >= y
  BY <1>1
<1>3. Max(S) \in S /\ \A y \in S : Max(S) >= y
  BY <1>2 DEF Max
<1>. QED BY <1>1, <1>3 DEF Ceiling

LEMMA HeldFacts ==
  ASSUME TypeOK, NEW k \in Metrics
  PROVE  \A r \in Runs :
           /\ spent[r][k] \in Nat /\ reserved[r][k] \in Nat
           /\ HeldOf(k)[r] \in Nat /\ HeldOf(k)[r] = Held[r][k]
           /\ HeldOf(k)[r] = IF spent[r][k] > reserved[r][k]
                             THEN spent[r][k] ELSE reserved[r][k]
BY DEF TypeOK, Amount, HeldOf, Held

LEMMA HeldSumNat ==
  ASSUME TypeOK, LeasesWellFormed, NEW f \in Flows, NEW k \in Metrics
  PROVE  /\ IsFiniteSet(liveRuns[f]) /\ liveRuns[f] \subseteq Runs
         /\ NatOn(HeldOf(k), liveRuns[f]) /\ HeldSum(f, k) \in Nat
         /\ committed[f][k] \in Nat /\ excess[f][k] \in Nat
<1>1. IsFiniteSet(liveRuns[f]) /\ liveRuns[f] \subseteq Runs
  BY DEF TypeOK, LeasesWellFormed
<1>2. NatOn(HeldOf(k), liveRuns[f])
  BY <1>1, HeldFacts DEF NatOn
<1>3. committed[f][k] \in Nat /\ excess[f][k] \in Nat
  BY DEF TypeOK, Amount
<1>. QED BY <1>1, <1>2, <1>3, SumNat DEF HeldSum

(* A step that touches the meters of run r alone leaves the sum over any set *)
(* of other runs as it was.                                                *)
LEMMA HeldElsewhere ==
  ASSUME TypeOK, TypeOK', NEW r, NEW k \in Metrics,
         \A x \in Runs : x # r => spent'[x] = spent[x] /\ reserved'[x] = reserved[x],
         NEW S \in SUBSET Runs, IsFiniteSet(S), r \notin S
  PROVE  SumFunctionOnSet(HeldOf(k)', S) = SumFunctionOnSet(HeldOf(k), S)
<1>1. \A x \in S : HeldOf(k)'[x] = HeldOf(k)[x]
  BY DEF HeldOf, Held
<1>. QED BY <1>1, SumCongruence

(* Flows the step is not about. *)
LEMMA CapElsewhere ==
  ASSUME GuardInv, GuardInv', CapInv, NEW f \in Flows, NEW r,
         \A x \in Runs : x # r => spent'[x] = spent[x] /\ reserved'[x] = reserved[x],
         NEW g \in Flows, r \notin liveRuns[g], liveRuns'[g] = liveRuns[g],
         committed'[g] = committed[g], excess'[g] = excess[g]
  PROVE  \A k \in Metrics :
           committed'[g][k] + HeldSum(g, k)' <= Ceiling(g, k) + excess'[g][k]
<1> SUFFICES ASSUME NEW k \in Metrics
             PROVE  committed'[g][k] + HeldSum(g, k)'
                      <= Ceiling(g, k) + excess'[g][k]
  OBVIOUS
<1>1. IsFiniteSet(liveRuns[g]) /\ liveRuns[g] \in SUBSET Runs
  BY DEF GuardInv, TypeOK, LeasesWellFormed
<1>2. HeldSum(g, k)' = HeldSum(g, k)
  BY <1>1, HeldElsewhere DEF GuardInv, HeldSum
<1>. QED BY <1>2 DEF CapInv

LEMMA SpawnCap ==
  ASSUME GuardInv, GuardInv', CapInv, NEW f \in Flows, NEW r \in Runs,
         NEW m \in Models, RequestSpawn(f, r, m)
  PROVE  CapInv'
<1>1. /\ \A g \in Flows : r \notin liveRuns[g]
      /\ liveRuns' = [liveRuns EXCEPT ![f] = @ \cup {r}]
      /\ reserved' = [reserved EXCEPT ![r] = WorstCase[m]]
      /\ excess' = [excess EXCEPT ![f] = Zero]
      /\ UNCHANGED <<spent, committed>>
      /\ Fits(f, WorstCase[m])
  BY DEF RequestSpawn, AllLive, Admissible
<1>2. \A x \in Runs : x # r => spent'[x] = spent[x] /\ reserved'[x] = reserved[x]
  BY <1>1 DEF GuardInv, TypeOK
<1>3. /\ \A g \in Flows : g # f => liveRuns'[g] = liveRuns[g]
                                  /\ excess'[g] = excess[g]
      /\ \A k \in Metrics : excess'[f][k] = 0
  BY <1>1 DEF GuardInv, TypeOK, Zero
<1>4. ASSUME NEW k \in Metrics
      PROVE  committed'[f][k] + HeldSum(f, k)' <= Ceiling(f, k) + excess'[f][k]
  <2> DEFINE S == liveRuns[f]
  <2>1. IsFiniteSet(S) /\ S \in SUBSET Runs /\ r \notin S
        /\ liveRuns'[f] = S \cup {r}
    BY <1>1 DEF GuardInv, TypeOK, LeasesWellFormed
  <2>2. SumFunctionOnSet(HeldOf(k)', S) = HeldSum(f, k)
    BY <1>2, <2>1, HeldElsewhere DEF GuardInv, HeldSum
  <2>3. NatOn(HeldOf(k)', S \cup {r})
    BY <2>1, HeldFacts DEF GuardInv, NatOn, HeldOf, Held, TypeOK, Amount
  <2>4. HeldSum(f, k)' = HeldSum(f, k) + HeldOf(k)'[r]
    <3> HIDE DEF S
    <3>1. SumFunctionOnSet(HeldOf(k)', S \cup {r}) =
            SumFunctionOnSet(HeldOf(k)', S) + HeldOf(k)'[r]
      BY <2>1, <2>3, SumAdd
    <3>. QED BY <2>1, <2>2, <3>1 DEF HeldSum
  <2>5. HeldOf(k)'[r] = WorstCase[m][k] /\ WorstCase[m][k] \in Nat
    <3>1. spent[r][k] = 0
      BY <1>1 DEF GuardInv, LeasesWellFormed, Zero
    <3>2. WorstCase[m][k] \in Nat
      BY AmountAssumption DEF Amount
    <3>. QED BY <1>1, <3>1, <3>2 DEF HeldOf, Held, GuardInv, TypeOK
  <2>6. committed[f][k] + HeldSum(f, k) + WorstCase[m][k] <= FlowCap[f][k]
    <3>1. Outstanding(f)[k] = HeldSum(f, k)
      BY DEF Outstanding, LiveSum, HeldSum, HeldOf
    <3>2. ~ (committed[f][k] + Outstanding(f)[k] + WorstCase[m][k] > FlowCap[f][k])
      BY <1>1 DEF Fits, Exceeds, (+)
    <3>. QED BY <2>5, <3>1, <3>2, HeldSumNat, CeilingFacts DEF GuardInv
  <2>7. HeldSum(f, k) \in Nat /\ committed[f][k] \in Nat /\ excess'[f][k] = 0
    BY <1>3, HeldSumNat DEF GuardInv
  <2> HIDE DEF S
  <2>. QED BY <1>1, <2>4, <2>5, <2>6, <2>7, CeilingFacts
<1>5. ASSUME NEW g \in Flows, g # f
      PROVE  \A k \in Metrics :
               committed'[g][k] + HeldSum(g, k)' <= Ceiling(g, k) + excess'[g][k]
  BY <1>1, <1>2, <1>3, <1>5, CapElsewhere
<1>. QED BY <1>4, <1>5 DEF CapInv

LEMMA ReleaseCap ==
  ASSUME GuardInv, GuardInv', CapInv, NEW f \in Flows, NEW r \in Runs,
         NEW final \in Amount, \A k \in Metrics : final[k] <= spent[r][k],
         ReleaseLease(f, r, final)
  PROVE  CapInv'
<1>1. /\ r \in liveRuns[f]
      /\ liveRuns' = [liveRuns EXCEPT ![f] = @ \ {r}]
      /\ reserved' = [reserved EXCEPT ![r] = Zero]
      /\ spent' = [spent EXCEPT ![r] = Zero]
      /\ committed' = [committed EXCEPT ![f] = @ (+) final]
      /\ UNCHANGED excess
  BY DEF ReleaseLease
<1>2. \A x \in Runs : x # r => spent'[x] = spent[x] /\ reserved'[x] = reserved[x]
  BY <1>1 DEF GuardInv, TypeOK
<1>3. \A g \in Flows : g # f => /\ r \notin liveRuns[g]
                               /\ liveRuns'[g] = liveRuns[g]
                               /\ committed'[g] = committed[g]
  BY <1>1 DEF GuardInv, TypeOK, LeasesWellFormed
<1>4. ASSUME NEW k \in Metrics
      PROVE  committed'[f][k] + HeldSum(f, k)' <= Ceiling(f, k) + excess'[f][k]
  <2> DEFINE S == liveRuns[f] \ {r}
  <2>1. /\ IsFiniteSet(liveRuns[f]) /\ liveRuns[f] \subseteq Runs
        /\ NatOn(HeldOf(k), liveRuns[f]) /\ HeldSum(f, k) \in Nat
        /\ committed[f][k] \in Nat /\ excess[f][k] \in Nat
    BY HeldSumNat DEF GuardInv
  <2>2. IsFiniteSet(S) /\ S \in SUBSET Runs /\ r \notin S /\ liveRuns'[f] = S
    BY <1>1, <2>1, FS_RemoveElement DEF GuardInv, TypeOK
  <2>3. HeldSum(f, k)' = SumFunctionOnSet(HeldOf(k), S)
    BY <1>2, <2>2, HeldElsewhere DEF GuardInv, HeldSum
  <2>4. HeldSum(f, k) = SumFunctionOnSet(HeldOf(k), S) + HeldOf(k)[r]
    BY <1>1, <2>1, SumRemove DEF HeldSum
  <2>5. /\ HeldOf(k)[r] \in Nat /\ spent[r][k] <= HeldOf(k)[r]
        /\ final[k] \in Nat /\ final[k] <= spent[r][k] /\ spent[r][k] \in Nat
    BY HeldFacts DEF GuardInv, Amount
  <2>6. committed'[f][k] = committed[f][k] + final[k]
    BY <1>1 DEF GuardInv, TypeOK, (+)
  <2>7. committed[f][k] + HeldSum(f, k) <= Ceiling(f, k) + excess[f][k]
    BY DEF CapInv
  <2>8. SumFunctionOnSet(HeldOf(k), S) \in Nat
    BY <2>1, <2>2, SumNat DEF NatOn
  <2> HIDE DEF S
  <2>. QED BY <1>1, <2>1, <2>3, <2>4, <2>5, <2>6, <2>7, <2>8, CeilingFacts
<1>5. ASSUME NEW g \in Flows, g # f
      PROVE  \A k \in Metrics :
               committed'[g][k] + HeldSum(g, k)' <= Ceiling(g, k) + excess'[g][k]
  BY <1>1, <1>2, <1>3, <1>5, CapElsewhere
<1>. QED BY <1>4, <1>5 DEF CapInv

(* What a delta adds to the sum is what excess books beyond the reservation. *)
LEMMA MeterCap ==
  ASSUME GuardInv, GuardInv', CapInv, NEW f \in Flows, NEW r \in Runs,
         NEW d \in Deltas, AddUsage(f, r, d)
  PROVE  CapInv'
<1>1. /\ r \in liveRuns[f]
      /\ spent' = [spent EXCEPT ![r] = @ (+) d]
      /\ UNCHANGED <<liveRuns, reserved, committed>>
  BY DEF AddUsage
<1>2. \A x \in Runs : x # r => spent'[x] = spent[x] /\ reserved'[x] = reserved[x]
  BY <1>1 DEF GuardInv, TypeOK
<1>3. \A g \in Flows : g # f => r \notin liveRuns[g] /\ excess'[g] = excess[g]
  BY <1>1 DEF GuardInv, TypeOK, LeasesWellFormed, AddUsage
<1>4. ASSUME NEW k \in Metrics
      PROVE  committed'[f][k] + HeldSum(f, k)' <= Ceiling(f, k) + excess'[f][k]
  <2> DEFINE S == liveRuns[f] \ {r}
             old == Beyond(spent[r], r)[k]
             new == Beyond(spent[r] (+) d, r)[k]
  <2>1. /\ IsFiniteSet(liveRuns[f]) /\ liveRuns[f] \subseteq Runs
        /\ NatOn(HeldOf(k), liveRuns[f]) /\ HeldSum(f, k) \in Nat
        /\ committed[f][k] \in Nat /\ excess[f][k] \in Nat
    BY HeldSumNat DEF GuardInv
  <2>2. NatOn(HeldOf(k)', liveRuns[f])
    BY <1>1, <2>1, HeldFacts DEF GuardInv, NatOn, HeldOf, Held, TypeOK, Amount
  <2>3. IsFiniteSet(S) /\ S \in SUBSET Runs /\ r \notin S
    BY <2>1, FS_RemoveElement
  <2>4. SumFunctionOnSet(HeldOf(k)', S) = SumFunctionOnSet(HeldOf(k), S)
    BY <1>2, <2>3, HeldElsewhere DEF GuardInv
  <2>5. HeldSum(f, k)' = SumFunctionOnSet(HeldOf(k), S) + HeldOf(k)'[r]
    BY <1>1, <2>1, <2>2, <2>4, SumRemove DEF HeldSum
  <2>6. HeldSum(f, k) = SumFunctionOnSet(HeldOf(k), S) + HeldOf(k)[r]
    BY <1>1, <2>1, SumRemove DEF HeldSum
  <2>7. SumFunctionOnSet(HeldOf(k), S) \in Nat
    BY <2>1, <2>3, SumNat DEF NatOn
  <2>8. /\ HeldOf(k)[r] \in Nat /\ HeldOf(k)'[r] \in Nat
        /\ HeldOf(k)'[r] - HeldOf(k)[r] = new - old
    <3>1. /\ spent[r][k] \in Nat /\ d[k] \in Nat /\ reserved[r][k] \in Nat
          /\ spent'[r][k] = spent[r][k] + d[k] /\ reserved'[r] = reserved[r]
      BY <1>1, AmountAssumption DEF GuardInv, TypeOK, Amount, (+)
    <3>2. /\ HeldOf(k)[r] = IF spent[r][k] > reserved[r][k]
                            THEN spent[r][k] ELSE reserved[r][k]
          /\ HeldOf(k)'[r] = IF spent'[r][k] > reserved'[r][k]
                             THEN spent'[r][k] ELSE reserved'[r][k]
      BY DEF HeldOf, Held
    <3>3. /\ old = IF spent[r][k] > reserved[r][k]
                   THEN spent[r][k] - reserved[r][k] ELSE 0
          /\ new = IF spent[r][k] + d[k] > reserved[r][k]
                   THEN spent[r][k] + d[k] - reserved[r][k] ELSE 0
      BY <3>1 DEF Beyond, (+)
    <3> HIDE DEF old, new
    <3>. QED BY <3>1, <3>2, <3>3
  <2>9. excess'[f][k] = excess[f][k] + new - old
    BY DEF AddUsage, GuardInv, TypeOK
  <2>10. old \in Int /\ new \in Int
    BY <1>1, AmountAssumption DEF GuardInv, TypeOK, Amount, Beyond, (+)
  <2>11. committed[f][k] + HeldSum(f, k) <= Ceiling(f, k) + excess[f][k]
    BY DEF CapInv
  <2> HIDE DEF S, old, new
  <2>. QED BY <1>1, <2>1, <2>5, <2>6, <2>7, <2>8, <2>9, <2>10, <2>11, CeilingFacts
<1>5. ASSUME NEW g \in Flows, g # f
      PROVE  \A k \in Metrics :
               committed'[g][k] + HeldSum(g, k)' <= Ceiling(g, k) + excess'[g][k]
  BY <1>1, <1>2, <1>3, <1>5, CapElsewhere
<1>. QED BY <1>4, <1>5 DEF CapInv

LEMMA CapFrame ==
  ASSUME CapInv, UNCHANGED <<liveRuns, reserved, spent, committed, excess>>
  PROVE  CapInv'
BY DEF CapInv, HeldSum, HeldOf, Held

LEMMA CapStep ==
  ASSUME GuardInv, GuardInv', CapInv, [Next]_vars
  PROVE  CapInv'
<1>1. ASSUME NEW f \in Flows, Leases(f) PROVE CapInv'
  <2>1. CASE \E r \in Runs, m \in Models : RequestSpawn(f, r, m)
    BY <2>1, SpawnCap
  <2>2. CASE \E r \in Runs, final \in {Zero} : ReleaseLease(f, r, final)
    <3>1. PICK r \in Runs : ReleaseLease(f, r, Zero)
      BY <2>2
    <3>2. \A k \in Metrics : Zero[k] <= spent[r][k]
      BY DEF GuardInv, TypeOK, Amount, Zero
    <3>. QED BY <3>1, <3>2, ReleaseCap, AmountFacts
  <2>3. CASE \E r \in Runs : ReleaseLease(f, r, spent[r])
    <3>1. PICK r \in Runs : ReleaseLease(f, r, spent[r])
      BY <2>3
    <3>2. spent[r] \in Amount /\ \A k \in Metrics : spent[r][k] <= spent[r][k]
      BY DEF GuardInv, TypeOK, Amount
    <3>. QED BY <3>1, <3>2, ReleaseCap
  <2>4. CASE \E r \in Runs, d \in Deltas : AddUsage(f, r, d)
    BY <2>4, MeterCap
  <2>. QED BY <1>1, <2>1, <2>2, <2>3, <2>4
           DEF Leases, MeterTripsRun, MeterKillsFlow, MeterOnly
<1>2. ASSUME NEW f \in Flows, Switches(f) PROVE CapInv'
  BY <1>2, CapFrame DEF Switches, KillFlow, SetFlowPaused, SetFlowArmed,
       PlaySwitches, PauseSwitches, AuthVerdict, leaseVars
<1>3. ASSUME NEW f \in Flows, Cycles(f) PROVE CapInv'
  BY <1>3, CapFrame DEF Cycles, BeginCycle, EndCycleUnsettled,
       FoldArtifactHash, SettleCycle, leaseVars
<1>4. CASE UNCHANGED vars
  BY <1>4, CapFrame DEF vars, leaseVars
<1>. QED BY <1>1, <1>2, <1>3, <1>4 DEF Next

LEMMA InitCap == Init => CapInv
<1> SUFFICES ASSUME Init, NEW f \in Flows, NEW k \in Metrics
             PROVE  committed[f][k] + HeldSum(f, k) <= Ceiling(f, k) + excess[f][k]
  BY DEF CapInv
<1>1. HeldSum(f, k) = 0
  BY SumEmpty DEF Init, HeldSum
<1>2. committed[f][k] = BootSpend[f][k] /\ excess[f][k] = 0
  BY DEF Init, Zero
<1>. QED BY <1>1, <1>2, CeilingFacts

(* What spendForFlow reports, spend and reserve, adds up to what is held.   *)
LEMMA SpendIsHeld ==
  ASSUME TypeOK, LeasesWellFormed, NEW f \in Flows, NEW k \in Metrics
  PROVE  SpendForFlow(f).spent[k] + SpendForFlow(f).reserved[k] =
           committed[f][k] + HeldSum(f, k)
<1> DEFINE S == liveRuns[f]
           used == [r \in Runs |-> spent[r][k]]
           Unspent == [r \in Runs |->
                         [j \in Metrics |-> Held[r][j] - spent[r][j]]]
           left == [r \in Runs |-> Unspent[r][k]]
<1>1. IsFiniteSet(S) /\ S \subseteq Runs /\ committed[f][k] \in Nat
  BY HeldSumNat
<1>2. \A r \in Runs : /\ used[r] \in Nat /\ left[r] \in Nat
                      /\ HeldOf(k)[r] = used[r] + left[r]
  BY HeldFacts DEF Held
<1>3. NatOn(used, S) /\ NatOn(left, S)
  BY <1>1, <1>2 DEF NatOn
<1>4. /\ SpendForFlow(f).spent[k] = committed[f][k] + SumFunctionOnSet(used, S)
      /\ SpendForFlow(f).reserved[k] = SumFunctionOnSet(left, S)
  BY DEF SpendForFlow, LiveSum, (+)
<1> HIDE DEF used, left
<1>5. HeldSum(f, k) = SumFunctionOnSet(used, S) + SumFunctionOnSet(left, S)
  BY <1>1, <1>2, <1>3, SumPlus DEF HeldSum
<1>6. SumFunctionOnSet(used, S) \in Nat /\ SumFunctionOnSet(left, S) \in Nat
  BY <1>1, <1>3, SumNat
<1>. QED BY <1>1, <1>4, <1>5, <1>6

----------------------------------------------------------------------------
(* The theorems *)

LEMMA GuardStep == GuardInv /\ [Next]_vars => GuardInv'
BY LeaseStep, SwitchStep, CycleStep, StutterStep DEF Next

LEMMA InductiveInvariant == Spec => []GuardInv
BY InitInv, GuardStep, PTL DEF Spec

(* Every variable of the guard keeps its type in every behaviour. *)
THEOREM GuardTypeCorrect == Spec => []TypeOK
<1>1. GuardInv => TypeOK
  BY DEF GuardInv
<1>. QED BY InductiveInvariant, <1>1, PTL

(* guard.ts, requestSpawn 1: no interleaving of spawns and releases takes a *)
(* flow over its concurrency semaphore.                                    *)
THEOREM GuardConcurrencyBound == Spec => []ConcurrencyBound
<1>1. GuardInv => ConcurrencyBound
  BY DEF GuardInv
<1>. QED BY InductiveInvariant, <1>1, PTL

(* guard.ts, killFlow: as long as a kill is latched nothing of the flow     *)
(* runs unaborted and the flow is disarmed.                                *)
THEOREM GuardKilledIsQuiet == Spec => []KilledIsQuiet
<1>1. GuardInv => KilledIsQuiet
  BY DEF GuardInv
<1>. QED BY InductiveInvariant, <1>1, PTL

(* guard.ts, meterToken and tripRun: a run beyond its cap is aborted. *)
THEOREM GuardOverCapIsAborted == Spec => []OverCapIsAborted
<1>1. GuardInv => OverCapIsAborted
  BY DEF GuardInv
<1>. QED BY InductiveInvariant, <1>1, PTL

(* guard.ts, requestNextCycle: the single-settlement rule of convergence. *)
THEOREM GuardBarrenNeverOvercounts == Spec => []BarrenNeverOvercounts
<1>1. GuardInv => BarrenNeverOvercounts
  BY DEF GuardInv
<1>. QED BY InductiveInvariant, <1>1, PTL

(* guard.ts, requestSpawn, meterToken and releaseLease: whatever the order   *)
(* of admissions, deltas and releases, what a flow has spent and what its   *)
(* live runs still hold stays within its cap (or what the log had shown at  *)
(* boot), but for what runs spent beyond their own reservations.           *)
THEOREM GuardFlowCapHeld == Spec => []FlowCapHeld
<1>1. GuardInv /\ CapInv => FlowCapHeld
  BY SpendIsHeld DEF GuardInv, CapInv, FlowCapHeld, Ceiling
<1>. QED BY InductiveInvariant, InitCap, CapStep, <1>1, PTL DEF Spec

(* The bound on the cycles, and that a cycle that is open has a number.      *)
Numbered ==
  \A f \in Flows : cycleNo[f] \in 0 .. MaxCycleNo /\ (cycleOpen[f] => cycleNo[f] >= 1)

LEMMA NumberStep ==
  ASSUME TypeOK, Numbered, [Next]_vars
  PROVE  Numbered'
<1>1. CASE UNCHANGED cycleVars
  BY <1>1 DEF Numbered, cycleVars
<1>2. ASSUME NEW f \in Flows, BeginCycle(f) PROVE Numbered'
  BY <1>2, LimitAssumption DEF BeginCycle, Numbered, TypeOK
<1>3. ASSUME NEW f \in Flows, UNCHANGED cycleNo,
             cycleOpen' = [cycleOpen EXCEPT ![f] = FALSE]
      PROVE  Numbered'
  BY <1>3 DEF Numbered, TypeOK
<1>4. ASSUME NEW f \in Flows, Leases(f) PROVE UNCHANGED cycleVars
  BY <1>4 DEF Leases, RequestSpawn, ReleaseLease, MeterTripsRun, MeterKillsFlow,
              MeterOnly, AddUsage
<1>5. ASSUME NEW f \in Flows, Switches(f) PROVE UNCHANGED cycleVars
  BY <1>5 DEF Switches, KillFlow, SetFlowPaused, SetFlowArmed, PlaySwitches,
              PauseSwitches, AuthVerdict
<1>6. ASSUME NEW f \in Flows, Cycles(f)
      PROVE  \/ UNCHANGED cycleVars \/ BeginCycle(f)
             \/ UNCHANGED cycleNo /\ cycleOpen' = [cycleOpen EXCEPT ![f] = FALSE]
  BY <1>6 DEF Cycles, EndCycleUnsettled, FoldArtifactHash, SettleCycle
<1>. QED BY <1>1, <1>2, <1>3, <1>4, <1>5, <1>6 DEF Next, vars

LEMMA CyclesNumbered == Spec => []Numbered
<1>1. Init => Numbered
  BY LimitAssumption DEF Init, Numbered
<1>2. GuardInv => TypeOK
  BY DEF GuardInv
<1>. QED BY <1>1, <1>2, NumberStep, InductiveInvariant, PTL DEF Spec

----------------------------------------------------------------------------
(* Part 2: the orchestrator. *)

LEMMA PlanFacts ==
  /\ \A f \in Flows : Layers[f] \in Seq(SUBSET Nodes) /\ Len(Layers[f]) \in Nat
  /\ \A f \in Flows : MaxCyclesPerArm[f] \in Nat /\ MaxCyclesPerArm[f] > 0
  /\ MaxCycleNo \in Nat
BY PlanAssumption, BudgetAssumption, LimitAssumption

LEMMA WalkFacts ==
  \A w \in Walks : w[1] \in Flows /\ w[2] \in Cycle /\ w = <<w[1], w[2]>>
BY DEF Walks

(* A run is of one node in one walk. *)
LEMMA OfFacts ==
  ASSUME NEW w \in Walks, NEW n \in Nodes
  PROVE  /\ Of(w, n) \in Runs
         /\ Of(w, n)[1] = w[1] /\ Of(w, n)[2] = n /\ Of(w, n)[3] = w[2]
         /\ \A v \in Walks, m \in Nodes : Of(v, m) = Of(w, n) => v = w /\ m = n
BY WalkFacts, PlanAssumption DEF Of

LEMMA RunFacts ==
  ASSUME NEW r \in Runs
  PROVE  \E w \in Walks, n \in Nodes : r = Of(w, n)
<1>1. r[1] \in Flows /\ r[2] \in Nodes /\ r[3] \in Cycle /\ r = <<r[1], r[2], r[3]>>
  BY PlanAssumption
<1>2. <<r[1], r[3]>> \in Walks /\ r = Of(<<r[1], r[3]>>, r[2])
  BY <1>1 DEF Walks, Of
<1>. QED BY <1>1, <1>2

----------------------------------------------------------------------------
(* Types.  The arm is part of them: it stays below the ceiling because the  *)
(* guard grants no arm that reaches it.                                    *)

Outcomes == {"none", "ok", "failed", "skipped", "killed"}
Phases == {"none", "admitted", "executing", "doomed", "written", "metered", "lost"}
States == {"ocioso", "agendado", "rodando", "aguardando", "pausado"}

(* The types by the part of the module they belong to. *)
StepTypes ==
  /\ pc \in [Flows -> {"idle", "start", "cycle"}]
  /\ arm \in [Flows -> Nat]
  /\ \A f \in Flows : arm[f] < MaxCyclesPerArm[f]
  /\ pendingArm \in [Flows -> Nat \cup {NoArm}]
  /\ \A f \in Flows : pendingArm[f] < MaxCyclesPerArm[f]
SpecTypes == loops \in SUBSET Flows /\ looping \in SUBSET Flows
LayerTypes == /\ layer \in [Walks -> Nat] /\ todo \in [Walks -> SUBSET Nodes]
              /\ \A w \in Walks : layer[w] <= Len(Layers[w[1]])
RunTypes == outcome \in [Runs -> Outcomes] /\ phase \in [Runs -> Phases]
ViewTypes ==
  /\ state \in [Flows -> States]
  /\ ended \in [Flows -> {"none", "done", "converged", "stopped", "killed"}]
WakeTypes == awake \in SUBSET Flows /\ killTail \in SUBSET Flows
HistTypes == known \in [Flows -> SUBSET Hashes] /\ novel \in [Flows -> BOOLEAN]
FiringTypes == base \in [Flows -> Nat] /\ spawned \in [Flows -> Nat]

LEMMA TypesAre ==
  OrchestratorTypeOK <=>
    /\ StepTypes /\ SpecTypes /\ LayerTypes /\ RunTypes /\ ViewTypes /\ WakeTypes
    /\ HistTypes /\ FiringTypes
    /\ artifact \in SUBSET (Flows \X Nodes) /\ thrown \in SUBSET Walks
BY DEF OrchestratorTypeOK, StepTypes, SpecTypes, LayerTypes, RunTypes, ViewTypes,
       WakeTypes, HistTypes, FiringTypes, Outcomes, Phases, States

LEMMA TypesStay ==
  ASSUME StepTypes', SpecTypes', LayerTypes', RunTypes', ViewTypes', WakeTypes',
         HistTypes', FiringTypes',
         artifact' \in SUBSET (Flows \X Nodes), thrown' \in SUBSET Walks
  PROVE  OrchestratorTypeOK'
BY DEF OrchestratorTypeOK, StepTypes, SpecTypes, LayerTypes, RunTypes, ViewTypes,
       WakeTypes, HistTypes, FiringTypes, Outcomes, Phases, States

LEMMA InitType == OrchestratorInit => OrchestratorTypeOK
<1> SUFFICES ASSUME OrchestratorInit PROVE OrchestratorTypeOK
  OBVIOUS
<1>1. StepTypes /\ SpecTypes /\ FiringTypes
  BY PlanFacts DEF OrchestratorInit, Init0, StepTypes, SpecTypes, FiringTypes, NoArm
<1>2. LayerTypes
  BY PlanFacts, WalkFacts DEF OrchestratorInit, Init0, LayerTypes
<1>3. RunTypes /\ ViewTypes /\ WakeTypes /\ HistTypes
  BY DEF OrchestratorInit, Init0, RunTypes, ViewTypes, WakeTypes, HistTypes,
         Outcomes, Phases, States
<1>. QED BY <1>1, <1>2, <1>3, TypesAre DEF OrchestratorInit, Init0

LEMMA FireType ==
  ASSUME StepTypes, FiringTypes, TypeOK, NEW f \in Flows, FireNow(f),
         UNCHANGED pendingArm
  PROVE  StepTypes' /\ FiringTypes'
<1>1. StepTypes'
  BY PlanFacts DEF StepTypes, FireNow, StartCycle
<1>2. FiringTypes'
  BY DEF FiringTypes, TypeOK, FireNow
<1>. QED BY <1>1, <1>2

LEMMA CommandType ==
  ASSUME OrchestratorTypeOK, TypeOK, NEW f \in Flows,
         Fire(f) \/ Command(f) \/ KillTail(f)
  PROVE  OrchestratorTypeOK'
<1>1. /\ UNCHANGED <<layer, todo, outcome, phase, artifact, ended, thrown, known,
                     novel, looping>>
      /\ WakeTypes' /\ loops' \in SUBSET Flows
  BY TypesAre DEF WakeTypes, SpecTypes, Fire, Command, KillTail, RunNow, Play, Pause,
     Kill, Continue, SaveSpec, stepVars, specVars, runVars, viewVars, wakeVars,
     histVars
<1>2. ViewTypes'
  <2>1. UNCHANGED state \/ \E s \in States : state' = [state EXCEPT ![f] = s]
    BY DEF Fire, Command, KillTail, RunNow, Play, Pause, Kill, Continue, SaveSpec,
       viewVars, States
  <2>. QED BY <1>1, <2>1, TypesAre DEF ViewTypes
<1>3. StepTypes' /\ FiringTypes'
  <2>1. CASE Free(f) /\ FireNow(f) /\ UNCHANGED pendingArm
    BY <2>1, FireType, TypesAre
  <2>2. CASE UNCHANGED <<pc, arm, pendingArm, base, spawned>>
    BY <2>2, TypesAre DEF StepTypes, FiringTypes
  <2>3. CASE clearAwaiting(f) /\ UNCHANGED <<pc, arm, base, spawned>>
    BY <2>3, TypesAre, PlanFacts DEF StepTypes, FiringTypes, clearAwaiting, NoArm
  <2>4. CASE isAwaiting(f) /\ clearAwaiting(f) /\ StartCycle(f, pendingArm[f])
             /\ UNCHANGED <<base, spawned>>
    <3>1. pendingArm[f] \in Nat /\ pendingArm[f] < MaxCyclesPerArm[f]
      BY <2>4, TypesAre DEF StepTypes, isAwaiting
    <3>. QED BY <2>4, <3>1, TypesAre, PlanFacts DEF StepTypes, FiringTypes,
                clearAwaiting, StartCycle, NoArm
  <2>5. \/ Free(f) /\ FireNow(f) /\ UNCHANGED pendingArm
        \/ UNCHANGED <<pc, arm, pendingArm, base, spawned>>
        \/ clearAwaiting(f) /\ UNCHANGED <<pc, arm, base, spawned>>
        \/ isAwaiting(f) /\ clearAwaiting(f) /\ StartCycle(f, pendingArm[f])
             /\ UNCHANGED <<base, spawned>>
    BY DEF Fire, Command, KillTail, RunNow, Play, Pause, Kill, Continue, SaveSpec,
       stepVars, firingVars
  <2>. QED BY <2>1, <2>2, <2>3, <2>4, <2>5
<1>4. LayerTypes' /\ RunTypes' /\ HistTypes' /\ SpecTypes'
  BY <1>1, TypesAre DEF LayerTypes, RunTypes, HistTypes, SpecTypes
<1>. QED BY <1>1, <1>2, <1>3, <1>4, TypesAre, TypesStay

LEMMA CurrentWalk ==
  ASSUME NEW f \in Flows, cycleNo[f] \in Cycle
  PROVE  Current(f) \in Walks /\ Current(f)[1] = f /\ Current(f)[2] = cycleNo[f]
BY DEF Current, Walks

LEMMA ResetType ==
  ASSUME LayerTypes, NEW v, layer' = [layer EXCEPT ![v] = 0], UNCHANGED todo
  PROVE  LayerTypes'
<1>1. layer' \in [Walks -> Nat] /\ todo' \in [Walks -> SUBSET Nodes]
  BY DEF LayerTypes
<1>2. \A w \in Walks : layer'[w] = layer[w] \/ layer'[w] = 0
  BY DEF LayerTypes
<1>3. \A w \in Walks : Len(Layers[w[1]]) \in Nat
  BY PlanFacts, WalkFacts
<1>4. \A w \in Walks : layer'[w] <= Len(Layers[w[1]])
  BY <1>2, <1>3 DEF LayerTypes
<1>. QED BY <1>1, <1>4 DEF LayerTypes

LEMMA ForgetType ==
  ASSUME RunTypes, NEW w, Forget(w), UNCHANGED phase PROVE RunTypes'
BY DEF RunTypes, Forget, Outcomes

LEMMA CloseType ==
  ASSUME OrchestratorTypeOK, NEW f \in Flows,
         NEW s \in {"done", "converged", "stopped", "killed"}, NEW v \in States,
         Close(f, s, v),
         pendingArm' \in [Flows -> Nat \cup {NoArm}],
         \A g \in Flows : pendingArm'[g] < MaxCyclesPerArm[g]
  PROVE  OrchestratorTypeOK'
<1>1. StepTypes'
  BY TypesAre, PlanFacts DEF StepTypes, Close
<1>2. LayerTypes'
  BY TypesAre, ResetType DEF Close
<1>3. RunTypes'
  BY TypesAre, ForgetType DEF Close
<1>4. ViewTypes'
  BY TypesAre DEF ViewTypes, Close
<1>5. /\ UNCHANGED <<loops, looping, artifact, awake, killTail, thrown, known, novel,
                     base, spawned>>
  BY DEF Close, specVars, wakeVars, histVars, firingVars
<1>6. SpecTypes' /\ WakeTypes' /\ HistTypes' /\ FiringTypes'
  BY <1>5, TypesAre DEF SpecTypes, WakeTypes, HistTypes, FiringTypes
<1>. QED BY <1>1, <1>2, <1>3, <1>4, <1>5, <1>6, TypesAre, TypesStay

LEMMA AdvanceType ==
  ASSUME OrchestratorTypeOK, TypeOK, Numbered, NEW f \in Flows, Advance(f)
  PROVE  OrchestratorTypeOK'
<1>0. idleState(f) \in States
  BY DEF idleState, States
<1>1. CASE Begin(f)
  <2>1. StepTypes' /\ SpecTypes' /\ HistTypes'
    BY <1>1, TypesAre DEF StepTypes, SpecTypes, HistTypes, Begin
  <2>2. ViewTypes'
    BY <1>1, TypesAre DEF ViewTypes, States, Begin
  <2>3. UNCHANGED <<layer, todo, outcome, phase, artifact, awake, killTail, thrown,
                    base, spawned>>
    BY <1>1 DEF Begin, runVars, wakeVars, firingVars
  <2>4. LayerTypes' /\ RunTypes' /\ WakeTypes' /\ FiringTypes'
    BY <2>3, TypesAre DEF LayerTypes, RunTypes, WakeTypes, FiringTypes
  <2>. QED BY <2>1, <2>2, <2>3, <2>4, TypesAre, TypesStay
<1>2. CASE ResolveLayer(f)
  <2> DEFINE w == Current(f)
  <2>1. /\ layer' = [layer EXCEPT ![w] = @ + 1]
        /\ todo' = [todo EXCEPT ![w] = {n \in NextLayer(f) : Barrier(w, n)}]
        /\ layer[w] < Len(Layers[f])
    BY <1>2 DEF ResolveLayer, MoreLayers, LayersLeft
  <2>2. LayerTypes'
    <3>1. ASSUME w \in Walks PROVE LayerTypes'
      <4>1. w[1] = f
        BY DEF Current
      <4>2. layer[w] \in Nat /\ layer[w] + 1 \in 1 .. Len(Layers[f])
        BY <2>1, <3>1, TypesAre, PlanFacts DEF LayerTypes
      <4>3. NextLayer(f) \subseteq Nodes
        BY <4>2, PlanFacts DEF NextLayer
      <4> HIDE DEF w
      <4>4. layer' \in [Walks -> Nat] /\ todo' \in [Walks -> SUBSET Nodes]
        <5>1. {n \in NextLayer(f) : Barrier(w, n)} \in SUBSET Nodes
          BY <4>3
        <5>2. todo' \in [Walks -> SUBSET Nodes]
          BY <2>1, <5>1, TypesAre DEF LayerTypes
        <5>. QED BY <2>1, <4>2, <5>2, TypesAre DEF LayerTypes
      <4>5. \A v \in Walks : layer'[v] <= Len(Layers[v[1]])
        BY <2>1, <4>1, <4>2, <3>1, TypesAre DEF LayerTypes
      <4>. QED BY <4>4, <4>5 DEF LayerTypes
    <3>2. ASSUME w \notin Walks PROVE LayerTypes'
      BY <2>1, <3>2, TypesAre DEF LayerTypes
    <3>. QED BY <3>1, <3>2
  <2>3. RunTypes'
    BY <1>2, TypesAre DEF ResolveLayer, RunTypes, Outcomes
  <2>4. UNCHANGED <<pc, arm, pendingArm, loops, looping, artifact, state, ended, awake,
                    killTail, thrown, known, novel, base, spawned>>
    BY <1>2 DEF ResolveLayer, specVars, viewVars, wakeVars, histVars, firingVars
  <2>5. /\ StepTypes' /\ SpecTypes' /\ ViewTypes' /\ WakeTypes' /\ HistTypes'
        /\ FiringTypes'
    BY <2>4, TypesAre DEF StepTypes, SpecTypes, ViewTypes, WakeTypes, HistTypes,
                          FiringTypes
  <2>. QED BY <2>2, <2>3, <2>4, <2>5, TypesAre, TypesStay
<1>3. CASE Reject(f) /\ Current(f) \in Walks
  <2>1. StepTypes'
    BY <1>3, TypesAre, PlanFacts DEF StepTypes, Reject
  <2>2. thrown' \in SUBSET Walks
    BY <1>3, TypesAre DEF Reject
  <2>3. UNCHANGED <<loops, looping, layer, todo, outcome, phase, artifact, state, ended,
                    awake, killTail, known, novel, base, spawned>>
    BY <1>3 DEF Reject, specVars, runVars, viewVars, wakeVars, histVars, firingVars
  <2>4. /\ LayerTypes' /\ RunTypes' /\ SpecTypes' /\ ViewTypes' /\ WakeTypes'
        /\ HistTypes' /\ FiringTypes'
    BY <2>3, TypesAre DEF LayerTypes, RunTypes, SpecTypes, ViewTypes, WakeTypes,
                          HistTypes, FiringTypes
  <2>. QED BY <2>1, <2>2, <2>3, <2>4, TypesAre, TypesStay
<1>4. ASSUME NEW c \in Cycle, NEW n \in Nodes, TakeNode(<<f, c>>, n)
      PROVE  OrchestratorTypeOK'
  <2> DEFINE w == <<f, c>>
  <2>1. w \in Walks /\ w[1] = f
    BY DEF Walks
  <2>2. UNCHANGED <<pc, arm, pendingArm, loops, looping, layer, artifact, state, ended,
                    awake, killTail, thrown, known, novel, base>>
    BY <1>4 DEF TakeNode, specVars, viewVars, wakeVars, histVars
  <2>3. /\ StepTypes' /\ SpecTypes' /\ ViewTypes' /\ WakeTypes' /\ HistTypes'
    BY <2>2, TypesAre DEF StepTypes, SpecTypes, ViewTypes, WakeTypes, HistTypes
  <2>4. LayerTypes'
    BY <1>4, <2>2, TypesAre DEF LayerTypes, TakeNode
  <2>5. RunTypes'
    <3>1. \/ UNCHANGED phase
          \/ \E x \in Phases : phase' = [phase EXCEPT ![Of(w, n)] = x]
      BY <1>4 DEF TakeNode, Phases
    <3>2. UNCHANGED outcome \/ outcome' = [outcome EXCEPT ![Of(w, n)] = "skipped"]
      BY <1>4 DEF TakeNode
    <3>. QED BY <3>1, <3>2, TypesAre DEF RunTypes, Outcomes
  <2>6. FiringTypes'
    <3>1. UNCHANGED spawned \/ \E k \in Nat : spawned' = [spawned EXCEPT ![f] = k]
      <4>1. spawned[f] \in Nat /\ spawned[f] + 1 \in Nat
        BY TypesAre DEF FiringTypes
      <4>. QED BY <1>4, <2>1, <4>1 DEF TakeNode, CountRun
    <3>. QED BY <2>2, <3>1, TypesAre DEF FiringTypes
  <2>. QED BY <2>2, <2>3, <2>4, <2>5, <2>6, TypesAre, TypesStay
<1>5. pendingArm \in [Flows -> Nat \cup {NoArm}]
        /\ \A g \in Flows : pendingArm[g] < MaxCyclesPerArm[g]
  BY TypesAre DEF StepTypes
<1>6. CASE EndKilled(f) \/ EndDone(f) \/ EndStopped(f) \/ EndConverged(f)
  <2>1. \E s \in {"done", "converged", "stopped", "killed"}, v \in States :
          Close(f, s, v)
    BY <1>0, <1>6 DEF EndKilled, EndDone, EndStopped, EndConverged, States
  <2>2. UNCHANGED pendingArm
    BY <1>6 DEF EndKilled, EndDone, EndStopped, EndConverged
  <2>. QED BY <1>5, <2>1, <2>2, CloseType
<1>7. CASE EndAwaiting(f)
  <2>1. arm[f] \in Nat /\ arm[f] + 1 < MaxCyclesPerArm[f]
    BY <1>7, TypesAre, PlanFacts DEF EndAwaiting, SettleCycle, GateStops, StepTypes
  <2>2. /\ pendingArm' \in [Flows -> Nat \cup {NoArm}]
        /\ \A g \in Flows : pendingArm'[g] < MaxCyclesPerArm[g]
    BY <1>5, <1>7, <2>1 DEF EndAwaiting
  <2>. QED BY <1>7, <2>2, CloseType DEF EndAwaiting, States
<1>8. CASE Rearm(f)
  <2>1. arm[f] \in Nat /\ arm[f] + 1 < MaxCyclesPerArm[f]
    BY <1>8, TypesAre, PlanFacts DEF Rearm, SettleCycle, GateStops, StepTypes
  <2>2. StepTypes'
    BY <1>8, <2>1, TypesAre DEF Rearm, StartCycle, StepTypes
  <2>3. LayerTypes'
    BY <1>8, TypesAre, ResetType DEF Rearm
  <2>4. RunTypes' /\ ViewTypes'
    BY <1>8, TypesAre, ForgetType DEF Rearm, ViewTypes
  <2>5. /\ UNCHANGED <<loops, looping, artifact, awake, killTail, thrown, known, novel,
                       base, spawned>>
    BY <1>8 DEF Rearm, specVars, wakeVars, histVars, firingVars
  <2>6. SpecTypes' /\ WakeTypes' /\ HistTypes' /\ FiringTypes'
    BY <2>5, TypesAre DEF SpecTypes, WakeTypes, HistTypes, FiringTypes
  <2>. QED BY <2>2, <2>3, <2>4, <2>5, <2>6, TypesAre, TypesStay
<1>9. Reject(f) => Current(f) \in Walks
  BY CurrentWalk, PlanFacts DEF Reject, EndCycleUnsettled, Numbered, Cycle
<1>. QED BY <1>1, <1>2, <1>3, <1>4, <1>6, <1>7, <1>8, <1>9
         DEF Advance, LayerFails, BarrierFails

LEMMA WriteType ==
  ASSUME OrchestratorTypeOK, NEW w \in Walks, NEW n \in Nodes,
         NEW h \in Hashes, NoteWrite(w, n, h)
  PROVE  artifact' \in SUBSET (Flows \X Nodes) /\ HistTypes'
<1>1. w[1] \in Flows
  BY WalkFacts
<1>2. artifact' \in SUBSET (Flows \X Nodes)
  BY <1>1, TypesAre DEF NoteWrite
<1>3. known' \in [Flows -> SUBSET Hashes]
  BY <1>1, TypesAre DEF NoteWrite, HistTypes
<1>4. (novel[w[1]] \/ (w = Current(w[1]) /\ h \notin known[w[1]])) \in BOOLEAN
  OBVIOUS
<1>5. novel' \in [Flows -> BOOLEAN]
  BY <1>1, <1>4, TypesAre DEF NoteWrite, HistTypes
<1>. QED BY <1>2, <1>3, <1>5 DEF HistTypes

LEMMA RunType ==
  ASSUME OrchestratorTypeOK, NEW w \in Walks, NEW n \in Nodes,
         RunStep(w, n) \/ \E h \in Hashes : AgentWrites(w, n, h)
  PROVE  OrchestratorTypeOK'
<1>1. UNCHANGED <<pc, arm, pendingArm, loops, looping, layer, todo, state, ended,
                  awake, killTail, thrown, base, spawned>>
  BY DEF RunStep, StartRun, PromptFails, FakeWrites, FakeWriteRefused, FakeMeters,
         FinishFake, FinishDoomed, FinishReal, Finish, AgentWrites, OnlyPhaseMoves,
         stepVars, specVars, viewVars, wakeVars, firingVars
<1>2. /\ StepTypes' /\ SpecTypes' /\ LayerTypes' /\ ViewTypes' /\ WakeTypes'
      /\ FiringTypes'
  BY <1>1, TypesAre DEF StepTypes, SpecTypes, LayerTypes, ViewTypes, WakeTypes,
                        FiringTypes
<1>3. RunTypes'
  <2>1. \/ UNCHANGED phase
        \/ \E x \in Phases : phase' = [phase EXCEPT ![Of(w, n)] = x]
    BY DEF RunStep, StartRun, PromptFails, FakeWrites, FakeWriteRefused, FakeMeters,
           FinishFake, FinishDoomed, FinishReal, Finish, AgentWrites, MovePhase, Phases
  <2>2. \/ UNCHANGED outcome
        \/ \E s \in Outcomes : outcome' = [outcome EXCEPT ![Of(w, n)] = s]
    BY DEF RunStep, StartRun, PromptFails, FakeWrites, FakeWriteRefused, FakeMeters,
           FinishFake, FinishDoomed, FinishReal, Finish, Conclude, AgentWrites,
           OnlyPhaseMoves, Outcomes
  <2>. QED BY <2>1, <2>2, TypesAre DEF RunTypes
<1>4. artifact' \in SUBSET (Flows \X Nodes) /\ HistTypes'
  <2>1. \/ UNCHANGED <<artifact, known, novel>>
        \/ \E h \in Hashes : NoteWrite(w, n, h)
    BY DEF RunStep, StartRun, PromptFails, FakeWrites, FakeWriteRefused, FakeMeters,
           FinishFake, FinishDoomed, FinishReal, Finish, AgentWrites, OnlyPhaseMoves,
           histVars
  <2>2. CASE UNCHANGED <<artifact, known, novel>>
    BY <2>2, TypesAre DEF HistTypes
  <2>. QED BY <2>1, <2>2, WriteType
<1>. QED BY <1>1, <1>2, <1>3, <1>4, TypesAre, TypesStay

LEMMA TypeStep ==
  ASSUME OrchestratorTypeOK, TypeOK, Numbered, [OrchestratorNext]_allVars
  PROVE  OrchestratorTypeOK'
<1>1. CASE UNCHANGED allVars
  BY <1>1 DEF OrchestratorTypeOK, allVars, loopVars, stepVars, specVars, runVars,
              viewVars, wakeVars, histVars, firingVars
<1>2. CASE OrchestratorNext
  BY <1>2, CommandType, AdvanceType, RunType DEF OrchestratorNext
<1>. QED BY <1>1, <1>2
----------------------------------------------------------------------------
(* The composition uses the guard as its interface allows. *)

LEMMA FinishReleases ==
  ASSUME NEW w \in Walks, NEW n \in Nodes, NEW from, NEW s, NEW final,
         Finish(w, n, from, s, final),
         final = Zero \/ final = spent[Of(w, n)]
  PROVE  Next
<1>1. ReleaseLease(w[1], Of(w, n), final)
  BY DEF Finish
<1>2. Leases(w[1])
  BY <1>1, OfFacts DEF Leases
<1>. QED BY <1>2, WalkFacts DEF Next

LEMMA RunRefines ==
  ASSUME NEW w \in Walks, NEW n \in Nodes, RunStep(w, n)
  PROVE  Next \/ UNCHANGED vars
<1> USE WalkFacts, OfFacts
<1>1. CASE StartRun(w, n) \/ PromptFails(w, n) \/ FakeWriteRefused(w, n)
  BY <1>1 DEF StartRun, PromptFails, FakeWriteRefused, OnlyPhaseMoves
<1>2. ASSUME NEW h \in Hashes, FakeWrites(w, n, h) PROVE Next
  BY <1>2 DEF FakeWrites, Cycles, Next
<1>3. ASSUME NEW d \in Deltas, FakeMeters(w, n, d) PROVE Next
  BY <1>3 DEF FakeMeters, Leases, Next
<1>4. CASE FinishFake(w, n)
  BY <1>4, FinishReleases DEF FinishFake
<1>5. CASE FinishDoomed(w, n)
  BY <1>5, FinishReleases DEF FinishDoomed
<1>6. ASSUME NEW s \in {"ok", "failed", "killed"}, FinishReal(w, n, s) PROVE Next
  BY <1>6, FinishReleases DEF FinishReal
<1>. QED BY <1>1, <1>2, <1>3, <1>4, <1>5, <1>6 DEF RunStep

LEMMA AdvanceRefines ==
  ASSUME OrchestratorTypeOK, NEW f \in Flows, Advance(f)
  PROVE  Next \/ UNCHANGED vars
<1>1. CASE Begin(f)
  BY <1>1 DEF Begin, Cycles, Next
<1>2. CASE ResolveLayer(f)
  BY <1>2 DEF ResolveLayer
<1>3. ASSUME NEW c \in Cycle, NEW n \in Nodes, TakeNode(<<f, c>>, n)
      PROVE  Next \/ UNCHANGED vars
  <2>1. <<f, c>> \in Walks /\ <<f, c>>[1] = f
    BY DEF Walks
  <2>2. Of(<<f, c>>, n) \in Runs /\ ModelOf[n] \in Models
    BY <2>1, OfFacts, PlanAssumption
  <2>. QED BY <1>3, <2>1, <2>2 DEF TakeNode, Leases, Next
<1>4. CASE Reject(f) \/ EndKilled(f) \/ EndDone(f) \/ EndStopped(f)
  BY <1>4 DEF Reject, EndKilled, EndDone, EndStopped, Cycles, Next
<1>5. CASE EndConverged(f) \/ EndAwaiting(f) \/ Rearm(f)
  <2>1. SettleCycle(f, arm[f])
    BY <1>5 DEF EndConverged, EndAwaiting, Rearm
  <2>2. arm[f] \in 0 .. MaxCyclesPerArm[f]
    BY PlanFacts DEF OrchestratorTypeOK
  <2>. QED BY <2>1, <2>2 DEF Cycles, Next
<1>. QED BY <1>1, <1>2, <1>3, <1>4, <1>5 DEF Advance, LayerFails, BarrierFails

LEMMA CommandRefines ==
  ASSUME NEW f \in Flows, Command(f)
  PROVE  Next \/ UNCHANGED vars
<1>1. CASE RunNow(f)
  BY <1>1 DEF RunNow, Switches, Next
<1>2. CASE Play(f) \/ Pause(f)
  BY <1>2 DEF Play, Pause, Switches, Next
<1>3. CASE Kill(f)
  BY <1>3 DEF Kill, Switches, Next
<1>4. CASE Continue(f) \/ \E loop \in BOOLEAN : SaveSpec(f, loop)
  BY <1>4 DEF Continue, SaveSpec
<1>. QED BY <1>1, <1>2, <1>3, <1>4 DEF Command

LEMMA StepRefines ==
  ASSUME OrchestratorTypeOK, [OrchestratorNext]_allVars
  PROVE  [Next]_vars
<1>1. CASE UNCHANGED allVars
  BY <1>1 DEF allVars
<1>2. ASSUME NEW f \in Flows, Fire(f) \/ KillTail(f) PROVE UNCHANGED vars
  BY <1>2 DEF Fire, KillTail
<1>3. ASSUME NEW w \in Walks, NEW n \in Nodes, NEW h \in Hashes, AgentWrites(w, n, h)
      PROVE  UNCHANGED vars
  BY <1>3 DEF AgentWrites
<1>. QED BY <1>1, <1>2, <1>3, CommandRefines, AdvanceRefines, RunRefines
         DEF OrchestratorNext

LEMMA OrchestratorTyped ==
  OrchestratorSpec => [](OrchestratorTypeOK /\ GuardInv /\ Numbered)
<1> DEFINE Both == OrchestratorTypeOK /\ GuardInv /\ Numbered
<1>1. OrchestratorInit => Both
  BY InitType, InitInv, LimitAssumption DEF OrchestratorInit, Init, Numbered
<1>2. Both /\ [OrchestratorNext]_allVars => Both'
  <2>1. GuardInv => TypeOK
    BY DEF GuardInv
  <2>. QED BY <2>1, TypeStep, StepRefines, GuardStep, NumberStep
<1>. QED BY <1>1, <1>2, PTL DEF OrchestratorSpec

(* The orchestrator's variables keep their types, and neither the arm of a  *)
(* running firing nor the arm a checkpoint holds ever reaches the ceiling. *)
THEOREM OrchestratorTypeCorrect == OrchestratorSpec => []OrchestratorTypeOK
BY OrchestratorTyped, PTL

(* Every behaviour of the orchestrator, its runners and the bridge is one   *)
(* the guard's own specification allows.                                   *)
THEOREM OrchestratorUsesGuard == OrchestratorSpec => Spec
<1>1. OrchestratorInit => Init
  BY DEF OrchestratorInit
<1>. QED BY <1>1, StepRefines, OrchestratorTypeCorrect, PTL
         DEF OrchestratorSpec, Spec

(* So the composed engine never holds more leases than a semaphore allows. *)
THEOREM OrchestratorConcurrencyBound == OrchestratorSpec => []ConcurrencyBound
BY OrchestratorUsesGuard, GuardConcurrencyBound, PTL

----------------------------------------------------------------------------
(* Slots.  A run's lease, its place in its walk and the life of the walk go  *)
(* together; that is what makes NoLeaseLeak inductive.                     *)

LeasesMatch == \A w \in Walks, n \in Nodes :
  Of(w, n) \in liveRuns[w[1]] <=> phase[Of(w, n)] # "none"
OwnRuns == \A f \in Flows : \A r \in liveRuns[f] : r[1] = f
OutIsAlive == \A w \in Walks, n \in Nodes : phase[Of(w, n)] # "none" => Alive(w)
OpenIsWalked == \A f \in Flows : cycleOpen[f] <=> pc[f] = "cycle"
ThrownIsPast == \A w \in Walks : w \in thrown =>
  w[2] <= cycleNo[w[1]] /\ ~ (pc[w[1]] = "cycle" /\ w = Current(w[1]))

SlotInv == LeasesMatch /\ OwnRuns /\ OutIsAlive /\ OpenIsWalked /\ ThrownIsPast

Typed == OrchestratorTypeOK /\ TypeOK /\ Numbered

LEMMA TypedFacts ==
  ASSUME Typed
  PROVE  /\ pc \in [Flows -> {"idle", "start", "cycle"}]
         /\ arm \in [Flows -> Nat] /\ pendingArm \in [Flows -> Nat \cup {NoArm}]
         /\ layer \in [Walks -> Nat] /\ todo \in [Walks -> SUBSET Nodes]
         /\ outcome \in [Runs -> Outcomes] /\ phase \in [Runs -> Phases]
         /\ state \in [Flows -> States] /\ thrown \in SUBSET Walks
         /\ cycleNo \in [Flows -> Nat] /\ cycleOpen \in [Flows -> BOOLEAN]
         /\ liveRuns \in [Flows -> SUBSET Runs]
BY DEF Typed, OrchestratorTypeOK, TypeOK, Outcomes, Phases, States

(* An open cycle has a walk. *)
LEMMA OpenHasWalk ==
  ASSUME Typed, SlotInv, NEW f \in Flows, pc[f] = "cycle"
  PROVE  /\ Current(f) \in Walks /\ Current(f)[1] = f /\ Current(f)[2] = cycleNo[f]
         /\ Current(f) \notin thrown /\ Alive(Current(f))
<1>1. cycleNo[f] \in Cycle
  BY PlanFacts DEF Typed, Numbered, SlotInv, OpenIsWalked, Cycle
<1>2. Current(f) \in Walks /\ Current(f)[1] = f /\ Current(f)[2] = cycleNo[f]
  BY <1>1, CurrentWalk
<1>. QED BY <1>2 DEF SlotInv, ThrownIsPast, Alive

(* Walks of a flow that is not taken into or out of its cycle live on.      *)
LEMMA AliveFrame ==
  ASSUME NEW w \in Walks, UNCHANGED <<cycleNo, thrown>>,
         pc'[w[1]] = "cycle" <=> pc[w[1]] = "cycle"
  PROVE  Alive(w)' <=> Alive(w)
BY DEF Alive, Current

LEMMA SlotFrame ==
  ASSUME SlotInv, UNCHANGED <<liveRuns, phase, cycleOpen, cycleNo, thrown>>,
         \A f \in Flows : pc'[f] = "cycle" <=> pc[f] = "cycle"
  PROVE  SlotInv'
<1>1. \A w \in Walks : Alive(w)' <=> Alive(w)
  BY AliveFrame, WalkFacts
<1>2. OutIsAlive'
  BY <1>1 DEF SlotInv, OutIsAlive
<1>3. ThrownIsPast'
  BY WalkFacts DEF SlotInv, ThrownIsPast, Current
<1>4. LeasesMatch' /\ OwnRuns' /\ OpenIsWalked'
  BY DEF SlotInv, LeasesMatch, OwnRuns, OpenIsWalked
<1>. QED BY <1>2, <1>3, <1>4 DEF SlotInv

(* A flow that is not in a cycle may only be taken to "start" or "idle".   *)
LEMMA SlotOutside ==
  ASSUME Typed, SlotInv, NEW f \in Flows, pc[f] # "cycle",
         UNCHANGED <<liveRuns, phase, cycleOpen, cycleNo, thrown>>,
         NEW x \in {"idle", "start"}, pc' = [pc EXCEPT ![f] = x]
  PROVE  SlotInv'
<1>1. \A g \in Flows : pc'[g] = "cycle" <=> pc[g] = "cycle"
  BY TypedFacts
<1>. QED BY <1>1, SlotFrame

(* A flow leaves its cycle, and the walk ends with it or is thrown.          *)
LEMMA SlotClose ==
  ASSUME Typed, SlotInv, NEW f \in Flows, pc[f] = "cycle",
         UNCHANGED <<liveRuns, phase, cycleNo>>,
         cycleOpen' = [cycleOpen EXCEPT ![f] = FALSE],
         NEW x \in {"idle", "start"}, pc' = [pc EXCEPT ![f] = x],
         \/ Joined(f) /\ UNCHANGED thrown
         \/ thrown' = thrown \cup {Current(f)}
  PROVE  SlotInv'
<1>1. \A g \in Flows : pc'[g] = IF g = f THEN x ELSE pc[g]
  BY TypedFacts
<1>2. \A g \in Flows : cycleOpen'[g] <=> (g # f /\ cycleOpen[g])
  BY TypedFacts
<1>3. OpenIsWalked'
  BY <1>1, <1>2 DEF SlotInv, OpenIsWalked
<1>4. LeasesMatch' /\ OwnRuns'
  BY DEF SlotInv, LeasesMatch, OwnRuns
<1>5. OutIsAlive'
  <2> SUFFICES ASSUME NEW w \in Walks, NEW n \in Nodes, phase'[Of(w, n)] # "none"
               PROVE  Alive(w)'
    BY DEF OutIsAlive
  <2>1. Alive(w) /\ phase[Of(w, n)] # "none"
    BY DEF SlotInv, OutIsAlive
  <2>2. CASE w \in thrown
    BY <2>2 DEF Alive
  <2>3. CASE w # Current(f) /\ w \notin thrown
    <3>1. pc[w[1]] = "cycle" /\ w = Current(w[1])
      BY <2>1, <2>3 DEF Alive
    <3>2. w[1] # f
      BY <2>3, <3>1
    <3>. QED BY <1>1, <3>1, <3>2, WalkFacts DEF Alive, Current
  <2>4. CASE w = Current(f) /\ w \notin thrown
    <3>1. ~ Joined(f)
      BY <2>1, <2>4 DEF Joined, Busy
    <3>. QED BY <2>4, <3>1 DEF Alive
  <2>. QED BY <2>2, <2>3, <2>4
<1>6. ThrownIsPast'
  <2> SUFFICES ASSUME NEW w \in Walks, w \in thrown'
               PROVE  /\ w[2] <= cycleNo[w[1]]
                      /\ ~ (pc'[w[1]] = "cycle" /\ w = Current(w[1]))
    BY DEF ThrownIsPast, Current
  <2>1. CASE w \in thrown
    BY <1>1, <2>1, WalkFacts DEF SlotInv, ThrownIsPast
  <2>2. CASE w = Current(f)
    <3>1. w[1] = f /\ w[2] = cycleNo[f]
      BY <2>2, OpenHasWalk
    <3>. QED BY <1>1, <3>1, TypedFacts
  <2>. QED BY <2>1, <2>2
<1>. QED BY <1>3, <1>4, <1>5, <1>6 DEF SlotInv

LEMMA SlotBegin ==
  ASSUME Typed, SlotInv, NEW f \in Flows, pc[f] = "start",
         UNCHANGED <<liveRuns, phase, thrown>>,
         cycleNo' = [cycleNo EXCEPT ![f] = @ + 1],
         cycleOpen' = [cycleOpen EXCEPT ![f] = TRUE],
         pc' = [pc EXCEPT ![f] = "cycle"]
  PROVE  SlotInv'
<1>1. \A g \in Flows : /\ pc'[g] = IF g = f THEN "cycle" ELSE pc[g]
                       /\ cycleNo'[g] = IF g = f THEN cycleNo[f] + 1 ELSE cycleNo[g]
                       /\ cycleOpen'[g] <=> (g = f \/ cycleOpen[g])
                       /\ cycleNo[g] \in Nat
  BY TypedFacts
<1>2. OpenIsWalked'
  BY <1>1 DEF SlotInv, OpenIsWalked
<1>3. LeasesMatch' /\ OwnRuns'
  BY DEF SlotInv, LeasesMatch, OwnRuns
<1>4. OutIsAlive'
  <2> SUFFICES ASSUME NEW w \in Walks, NEW n \in Nodes, phase'[Of(w, n)] # "none"
               PROVE  Alive(w)'
    BY DEF OutIsAlive
  <2>1. Alive(w)
    BY DEF SlotInv, OutIsAlive
  <2>. QED BY <1>1, <2>1, WalkFacts DEF Alive, Current
<1>5. ThrownIsPast'
  <2> SUFFICES ASSUME NEW w \in Walks, w \in thrown
               PROVE  /\ w[2] <= cycleNo'[w[1]]
                      /\ ~ (pc'[w[1]] = "cycle" /\ w = Current(w[1])')
    BY DEF ThrownIsPast
  <2>1. w[2] <= cycleNo[w[1]] /\ ~ (pc[w[1]] = "cycle" /\ w = Current(w[1]))
    BY DEF SlotInv, ThrownIsPast
  <2>2. w[1] \in Flows /\ w[2] \in Nat
    BY WalkFacts, PlanFacts DEF Cycle
  <2>3. CASE w[1] = f
    <3>1. w[2] < cycleNo'[f]
      BY <1>1, <2>1, <2>2, <2>3
    <3>2. Current(f)'[2] = cycleNo'[f]
      BY DEF Current
    <3>3. w # Current(f)'
      BY <2>2, <3>1, <3>2, <1>1
    <3>. QED BY <1>1, <2>2, <2>3, <3>1, <3>3
  <2>4. CASE w[1] # f
    BY <1>1, <2>1, <2>2, <2>4 DEF Current
  <2>. QED BY <2>3, <2>4
<1>. QED BY <1>2, <1>3, <1>4, <1>5 DEF SlotInv

(* A run moves on, is taken or settles: its lease follows its phase.        *)
LEMMA SlotPut ==
  ASSUME Typed, SlotInv, NEW w \in Walks, NEW n \in Nodes, Alive(w), NEW to,
         phase' = [phase EXCEPT ![Of(w, n)] = to],
         UNCHANGED <<pc, cycleOpen, cycleNo, thrown>>,
         \/ to # "none" /\ phase[Of(w, n)] # "none" /\ UNCHANGED liveRuns
         \/ to # "none" /\ liveRuns' = [liveRuns EXCEPT ![w[1]] = @ \cup {Of(w, n)}]
         \/ to = "none" /\ liveRuns' = [liveRuns EXCEPT ![w[1]] = @ \ {Of(w, n)}]
  PROVE  SlotInv'
<1>1. \A v \in Walks, m \in Nodes :
        phase'[Of(v, m)] = IF v = w /\ m = n THEN to ELSE phase[Of(v, m)]
  <2>1. phase \in [Runs -> Phases]
    BY TypedFacts
  <2>. QED BY <2>1, OfFacts
<1>2. \A v \in Walks : Alive(v)' <=> Alive(v)
  BY AliveFrame
<1>3. OutIsAlive'
  BY <1>1, <1>2 DEF SlotInv, OutIsAlive
<1>4. LeasesMatch'
  <2> SUFFICES ASSUME NEW v \in Walks, NEW m \in Nodes
               PROVE  Of(v, m) \in liveRuns'[v[1]] <=> phase'[Of(v, m)] # "none"
    BY DEF LeasesMatch
  <2>1. Of(v, m) \in liveRuns[v[1]] <=> phase[Of(v, m)] # "none"
    BY DEF SlotInv, LeasesMatch
  <2>2. Of(v, m) = Of(w, n) <=> v = w /\ m = n
    BY OfFacts
  <2>3. v[1] \in Flows /\ w[1] \in Flows
    BY WalkFacts
  <2>. QED BY <1>1, <2>1, <2>2, <2>3, TypedFacts
<1>5. OwnRuns'
  <2>1. Of(w, n)[1] = w[1] /\ w[1] \in Flows
    BY OfFacts, WalkFacts
  <2>2. \A f \in Flows : liveRuns'[f] \subseteq
          (IF f = w[1] THEN liveRuns[f] \cup {Of(w, n)} ELSE liveRuns[f])
    BY <2>1, TypedFacts
  <2>. QED BY <2>1, <2>2 DEF SlotInv, OwnRuns
<1>6. OpenIsWalked' /\ ThrownIsPast'
  BY DEF SlotInv, OpenIsWalked, ThrownIsPast, Current
<1>. QED BY <1>3, <1>4, <1>5, <1>6 DEF SlotInv

LEMMA SlotTake ==
  ASSUME Typed, SlotInv, NEW w \in Walks, NEW n \in Nodes, Alive(w), TakeNode(w, n)
  PROVE  SlotInv'
<1>1. UNCHANGED <<pc, thrown>>
  BY DEF TakeNode
<1>2. ASSUME RequestSpawn(w[1], Of(w, n), ModelOf[n]), NEW to \in {"admitted", "lost"},
             phase' = [phase EXCEPT ![Of(w, n)] = to]
      PROVE  SlotInv'
  <2>1. /\ liveRuns' = [liveRuns EXCEPT ![w[1]] = @ \cup {Of(w, n)}]
        /\ UNCHANGED <<cycleOpen, cycleNo>>
    BY <1>2 DEF RequestSpawn, cycleVars
  <2>. QED BY <1>1, <1>2, <2>1, SlotPut
<1>3. CASE UNCHANGED <<vars, phase>>
  BY <1>1, <1>3, SlotFrame DEF vars, leaseVars, cycleVars
<1>. QED BY <1>2, <1>3 DEF TakeNode

LEMMA SlotSettle ==
  ASSUME Typed, SlotInv, NEW w \in Walks, NEW n \in Nodes, NEW from, from # "none",
         NEW s, NEW final, Finish(w, n, from, s, final)
  PROVE  SlotInv'
<1>1. /\ phase' = [phase EXCEPT ![Of(w, n)] = "none"]
      /\ liveRuns' = [liveRuns EXCEPT ![w[1]] = @ \ {Of(w, n)}]
      /\ UNCHANGED <<pc, cycleOpen, cycleNo, thrown>> /\ phase[Of(w, n)] # "none"
  BY DEF Finish, MovePhase, ReleaseLease, stepVars, cycleVars
<1>2. Alive(w)
  BY <1>1 DEF SlotInv, OutIsAlive
<1>. QED BY <1>1, <1>2, SlotPut

LEMMA SlotMove ==
  ASSUME Typed, SlotInv, NEW w \in Walks, NEW n \in Nodes, NEW from, NEW to,
         from # "none", to # "none", MovePhase(Of(w, n), from, to),
         UNCHANGED <<liveRuns, pc, cycleOpen, cycleNo, thrown>>
  PROVE  SlotInv'
<1>1. Alive(w)
  BY DEF SlotInv, OutIsAlive, MovePhase
<1>. QED BY <1>1, SlotPut DEF MovePhase

LEMMA SlotRun ==
  ASSUME Typed, SlotInv, NEW w \in Walks, NEW n \in Nodes,
         RunStep(w, n) \/ \E h \in Hashes : AgentWrites(w, n, h)
  PROVE  SlotInv'
<1> USE DEF stepVars, vars, leaseVars, cycleVars, OnlyPhaseMoves
<1>1. CASE StartRun(w, n)
  BY <1>1, SlotMove DEF StartRun
<1>2. CASE PromptFails(w, n)
  BY <1>2, SlotMove DEF PromptFails
<1>3. ASSUME NEW h \in Hashes, FakeWrites(w, n, h) PROVE SlotInv'
  BY <1>3, SlotMove DEF FakeWrites, FoldArtifactHash
<1>4. CASE FakeWriteRefused(w, n)
  BY <1>4, SlotMove DEF FakeWriteRefused
<1>5. ASSUME NEW d \in Deltas, FakeMeters(w, n, d) PROVE SlotInv'
  <2>1. UNCHANGED <<liveRuns, pc, cycleOpen, cycleNo, thrown>>
    BY <1>5 DEF FakeMeters, MeterTripsRun, MeterKillsFlow, MeterOnly, AddUsage
  <2>. QED BY <1>5, <2>1, SlotMove DEF FakeMeters
<1>6. ASSUME NEW h \in Hashes, AgentWrites(w, n, h) PROVE SlotInv'
  BY <1>6, SlotFrame DEF AgentWrites
<1>7. CASE FinishFake(w, n) \/ FinishDoomed(w, n)
  BY <1>7, SlotSettle DEF FinishFake, FinishDoomed
<1>8. ASSUME NEW s \in {"ok", "failed", "killed"}, FinishReal(w, n, s)
      PROVE  SlotInv'
  BY <1>8, SlotSettle DEF FinishReal
<1>. QED BY <1>1, <1>2, <1>3, <1>4, <1>5, <1>6, <1>7, <1>8 DEF RunStep


----------------------------------------------------------------------------
(* Checkpoints: a flow that awaits approval is not running, and the arm it  *)
(* holds is not the first of a firing.                                     *)

AwaitInv ==
  \A f \in Flows : isAwaiting(f) => pc[f] = "idle" /\ pendingArm[f] >= 1

RestInv == SlotInv /\ AwaitInv /\ RodandoIsRunning

LEMMA InitRest == OrchestratorInit => RestInv
<1> SUFFICES ASSUME OrchestratorInit PROVE RestInv
  OBVIOUS
<1>1. SlotInv
  BY OfFacts, WalkFacts DEF OrchestratorInit, Init, Init0, SlotInv, LeasesMatch,
     OwnRuns, OutIsAlive, OpenIsWalked, ThrownIsPast
<1>2. AwaitInv /\ RodandoIsRunning
  BY DEF OrchestratorInit, Init0, AwaitInv, RodandoIsRunning, isAwaiting
<1>. QED BY <1>1, <1>2 DEF RestInv

LEMMA RestFrame ==
  ASSUME AwaitInv, RodandoIsRunning,
         UNCHANGED <<pc, pendingArm, state, cycleNo, thrown>>
  PROVE  AwaitInv' /\ RodandoIsRunning'
BY DEF AwaitInv, RodandoIsRunning, isAwaiting, isRunning, Current

LEMMA FireRest ==
  ASSUME Typed, RestInv, NEW f \in Flows, Free(f), FireNow(f),
         UNCHANGED <<pendingArm, state, liveRuns, phase, cycleOpen, cycleNo, thrown>>
  PROVE  RestInv'
<1>1. pc[f] = "idle" /\ ~ isAwaiting(f) /\ pc' = [pc EXCEPT ![f] = "start"]
  BY DEF Free, FireNow, StartCycle, isRunning
<1>2. SlotInv'
  BY <1>1, SlotOutside DEF RestInv
<1>3. \A g \in Flows : pc'[g] = IF g = f THEN "start" ELSE pc[g]
  BY <1>1, TypedFacts
<1>4. AwaitInv' /\ RodandoIsRunning'
  BY <1>1, <1>3 DEF RestInv, AwaitInv, RodandoIsRunning, isAwaiting, isRunning,
                    Current
<1>. QED BY <1>2, <1>4 DEF RestInv

(* A command that only changes what is shown, or gives up a checkpoint.     *)
LEMMA ShowRest ==
  ASSUME Typed, RestInv, NEW f \in Flows,
         UNCHANGED <<pc, liveRuns, phase, cycleOpen, cycleNo, thrown>>,
         UNCHANGED state \/ \E s \in States \ {"rodando"} : state' = [state EXCEPT ![f] = s],
         UNCHANGED pendingArm \/ clearAwaiting(f)
  PROVE  RestInv'
<1>1. SlotInv'
  BY SlotFrame DEF RestInv
<1>2. \A g \in Flows : pendingArm'[g] = pendingArm[g] \/ pendingArm'[g] = NoArm
  BY TypedFacts DEF clearAwaiting
<1>3. \A g \in Flows : state'[g] = "rodando" => state[g] = "rodando"
  BY TypedFacts
<1>4. AwaitInv'
  BY <1>2 DEF RestInv, AwaitInv, isAwaiting
<1>5. RodandoIsRunning'
  BY <1>3 DEF RestInv, RodandoIsRunning, isRunning, Current
<1>. QED BY <1>1, <1>4, <1>5 DEF RestInv

LEMMA CommandRest ==
  ASSUME Typed, RestInv, NEW f \in Flows,
         Fire(f) \/ Command(f) \/ KillTail(f)
  PROVE  RestInv'
<1> USE DEF vars, leaseVars, cycleVars, stepVars, runVars, viewVars
<1>1. CASE Fire(f)
  BY <1>1, FireRest DEF Fire
<1>2. CASE RunNow(f)
  <2>1. UNCHANGED <<pendingArm, state, liveRuns, phase, cycleOpen, cycleNo, thrown>>
    BY <1>2 DEF RunNow, SetFlowArmed
  <2>2. CASE UNCHANGED pc
    BY <2>1, <2>2, ShowRest
  <2>. QED BY <1>2, <2>1, <2>2, FireRest DEF RunNow
<1>3. CASE Play(f) \/ Kill(f) \/ Pause(f) \/ KillTail(f)
            \/ \E loop \in BOOLEAN : SaveSpec(f, loop)
  <2>1. /\ UNCHANGED <<pc, liveRuns, phase, cycleOpen, cycleNo, thrown>>
        /\ UNCHANGED pendingArm \/ clearAwaiting(f)
    BY <1>3 DEF Play, PlaySwitches, Kill, KillFlow, Pause, PauseSwitches, KillTail,
                SaveSpec
  <2>2. UNCHANGED state \/ \E s \in States \ {"rodando"} : state' = [state EXCEPT ![f] = s]
    BY <1>3 DEF Play, Kill, Pause, KillTail, SaveSpec, States
  <2>. QED BY <2>1, <2>2, ShowRest
<1>4. CASE Continue(f)
  <2>1. UNCHANGED <<liveRuns, phase, cycleOpen, cycleNo, thrown>>
    BY <1>4 DEF Continue
  <2>2. CASE /\ isAwaiting(f) /\ clearAwaiting(f)
             /\ StartCycle(f, pendingArm[f])
             /\ state' = [state EXCEPT ![f] = "rodando"]
    <3>1. pc[f] = "idle" /\ pc' = [pc EXCEPT ![f] = "start"]
      BY <2>2 DEF RestInv, AwaitInv, StartCycle
    <3>2. SlotInv'
      BY <2>1, <3>1, SlotOutside DEF RestInv
    <3>3. \A g \in Flows :
            /\ pc'[g] = IF g = f THEN "start" ELSE pc[g]
            /\ pendingArm'[g] = IF g = f THEN NoArm ELSE pendingArm[g]
            /\ state'[g] = IF g = f THEN "rodando" ELSE state[g]
      BY <2>2, <3>1, TypedFacts DEF clearAwaiting
    <3>4. AwaitInv' /\ RodandoIsRunning'
      BY <2>1, <3>3 DEF RestInv, AwaitInv, RodandoIsRunning, isAwaiting, isRunning,
                        Current
    <3>. QED BY <3>2, <3>4 DEF RestInv
  <2>3. CASE /\ state' = [state EXCEPT ![f] = "ocioso"]
             /\ UNCHANGED <<pc, pendingArm>>
    BY <2>1, <2>3, ShowRest DEF States
  <2>. QED BY <1>4, <2>2, <2>3 DEF Continue
<1>. QED BY <1>1, <1>2, <1>3, <1>4 DEF Command

LEMMA CloseRest ==
  ASSUME Typed, RestInv, NEW f \in Flows, NEW s, NEW v, v # "rodando",
         CycleOver(f), Close(f, s, v), UNCHANGED <<liveRuns, cycleNo>>,
         cycleOpen' = [cycleOpen EXCEPT ![f] = FALSE],
         \/ UNCHANGED pendingArm
         \/ pendingArm' = [pendingArm EXCEPT ![f] = arm[f] + 1]
  PROVE  RestInv'
<1>1. pc' = [pc EXCEPT ![f] = "idle"] /\ UNCHANGED <<phase, thrown>>
  BY DEF Close
<1>2. SlotInv'
  BY <1>1, SlotClose DEF CycleOver, Joined, RestInv
<1>3. \A g \in Flows : /\ pc'[g] = IF g = f THEN "idle" ELSE pc[g]
                       /\ state'[g] = IF g = f THEN v ELSE state[g]
  BY TypedFacts DEF Close
<1>4. RodandoIsRunning'
  BY <1>1, <1>3 DEF RestInv, RodandoIsRunning, isRunning, Current
<1>5. arm[f] + 1 >= 1
  BY TypedFacts
<1>6. \A g \in Flows :
        (pendingArm'[g] = pendingArm[g]) \/ (g = f /\ pendingArm'[g] = arm[f] + 1)
  <2>1. pendingArm \in [Flows -> Nat \cup {NoArm}]
    BY TypedFacts
  <2>. QED BY <2>1
<1>7. AwaitInv'
  BY <1>3, <1>5, <1>6 DEF RestInv, AwaitInv, isAwaiting
<1>. QED BY <1>2, <1>4, <1>7 DEF RestInv

LEMMA RejectRest ==
  ASSUME Typed, RestInv, NEW f \in Flows, pc[f] = "cycle", Reject(f)
  PROVE  RestInv'
<1>1. /\ pc' = [pc EXCEPT ![f] = "idle"]
      /\ thrown' = thrown \cup {Current(f)}
      /\ cycleOpen' = [cycleOpen EXCEPT ![f] = FALSE]
      /\ UNCHANGED <<liveRuns, phase, cycleNo, state, pendingArm>>
  BY DEF Reject, EndCycleUnsettled, leaseVars, runVars, viewVars
<1>2. SlotInv'
  BY <1>1, SlotClose DEF RestInv
<1>3. \A g \in Flows : pc'[g] = IF g = f THEN "idle" ELSE pc[g]
  BY <1>1, TypedFacts
<1>4. AwaitInv' /\ RodandoIsRunning'
  BY <1>1, <1>3 DEF RestInv, AwaitInv, RodandoIsRunning, isAwaiting, isRunning,
                    Current
<1>. QED BY <1>2, <1>4 DEF RestInv

(* A node that is taken is of a walk that is alive. *)
QueuesAlive == \A w \in Walks : todo[w] # {} => Alive(w)

LEMMA AdvanceRest ==
  ASSUME Typed, RestInv, QueuesAlive, NEW f \in Flows, Advance(f)
  PROVE  RestInv'
<1>0. idleState(f) # "rodando"
  BY DEF idleState
<1>1. CASE Begin(f)
  <2>1. /\ pc[f] = "start" /\ pc' = [pc EXCEPT ![f] = "cycle"]
        /\ cycleNo' = [cycleNo EXCEPT ![f] = @ + 1]
        /\ cycleOpen' = [cycleOpen EXCEPT ![f] = TRUE]
        /\ state' = [state EXCEPT ![f] = "rodando"]
        /\ UNCHANGED <<pendingArm, liveRuns, phase, thrown>>
    BY <1>1 DEF Begin, BeginCycle, leaseVars, runVars
  <2>2. SlotInv'
    BY <2>1, SlotBegin DEF RestInv
  <2>3. \A g \in Flows : /\ pc'[g] = IF g = f THEN "cycle" ELSE pc[g]
                         /\ g # f => cycleNo'[g] = cycleNo[g]
                         /\ state'[g] = IF g = f THEN "rodando" ELSE state[g]
    BY <2>1, TypedFacts
  <2>4. AwaitInv' /\ RodandoIsRunning'
    BY <2>1, <2>3 DEF RestInv, AwaitInv, RodandoIsRunning, isAwaiting, isRunning,
                      Current
  <2>. QED BY <2>2, <2>4 DEF RestInv
<1>2. CASE ResolveLayer(f)
  BY <1>2, SlotFrame, RestFrame
     DEF ResolveLayer, RestInv, vars, leaseVars, cycleVars, viewVars
<1>3. ASSUME NEW c \in Cycle, NEW n \in Nodes, TakeNode(<<f, c>>, n) PROVE RestInv'
  <2>1. <<f, c>> \in Walks /\ Alive(<<f, c>>)
    BY <1>3 DEF TakeNode, CanTake, QueuesAlive, Walks
  <2>2. UNCHANGED <<pc, pendingArm, state, cycleNo, thrown>>
    BY <1>3 DEF TakeNode, RequestSpawn, vars, viewVars, cycleVars
  <2>. QED BY <1>3, <2>1, <2>2, SlotTake, RestFrame DEF RestInv
<1>4. CASE LayerFails(f) \/ BarrierFails(f)
  BY <1>4, RejectRest DEF LayerFails, BarrierFails, Rejecting, MoreLayers, Joined
<1>5. CASE EndKilled(f)
  BY <1>5, CloseRest DEF EndKilled, EndCycleUnsettled, leaseVars
<1>6. CASE EndDone(f)
  BY <1>0, <1>6, CloseRest DEF EndDone, EndCycleUnsettled, leaseVars
<1>7. CASE EndStopped(f)
  BY <1>0, <1>7, CloseRest DEF EndStopped, Gated, EndCycleUnsettled, leaseVars
<1>8. CASE EndConverged(f)
  BY <1>0, <1>8, CloseRest DEF EndConverged, Gated, SettleCycle, leaseVars
<1>9. CASE EndAwaiting(f)
  BY <1>9, CloseRest DEF EndAwaiting, Gated, SettleCycle, leaseVars
<1>10. CASE Rearm(f)
  <2>1. /\ Joined(f) /\ pc' = [pc EXCEPT ![f] = "start"]
        /\ cycleOpen' = [cycleOpen EXCEPT ![f] = FALSE]
        /\ UNCHANGED <<pendingArm, state, liveRuns, phase, cycleNo, thrown>>
    BY <1>10 DEF Rearm, Gated, CycleOver, SettleCycle, StartCycle, leaseVars
  <2>2. SlotInv'
    BY <2>1, SlotClose DEF RestInv, Joined
  <2>3. \A g \in Flows : pc'[g] = IF g = f THEN "start" ELSE pc[g]
    BY <2>1, TypedFacts
  <2>4. AwaitInv' /\ RodandoIsRunning'
    BY <2>1, <2>3 DEF RestInv, AwaitInv, RodandoIsRunning, isAwaiting,
                      isRunning, Joined, Current
  <2>. QED BY <2>2, <2>4 DEF RestInv
<1>. QED BY <1>1, <1>2, <1>3, <1>4, <1>5, <1>6, <1>7, <1>8, <1>9, <1>10 DEF Advance

LEMMA RunRest ==
  ASSUME Typed, RestInv, NEW w \in Walks, NEW n \in Nodes,
         RunStep(w, n) \/ \E h \in Hashes : AgentWrites(w, n, h)
  PROVE  RestInv'
<1>1. UNCHANGED <<pc, pendingArm, state, cycleNo, thrown>>
  BY DEF RunStep, StartRun, PromptFails, FakeWrites, FakeWriteRefused, FakeMeters,
         FinishFake, FinishDoomed, FinishReal, Finish, AgentWrites, OnlyPhaseMoves,
         MeterTripsRun, MeterKillsFlow, MeterOnly, AddUsage, ReleaseLease,
         FoldArtifactHash, vars, cycleVars, stepVars, viewVars
<1>. QED BY <1>1, SlotRun, RestFrame DEF RestInv

LEMMA RestStep ==
  ASSUME Typed, RestInv, QueuesAlive, [OrchestratorNext]_allVars
  PROVE  RestInv'
<1>1. CASE UNCHANGED allVars
  BY <1>1, SlotFrame, RestFrame
     DEF RestInv, allVars, vars, leaseVars, cycleVars, loopVars, stepVars,
         runVars, viewVars
<1>2. CASE OrchestratorNext
  BY <1>2, CommandRest, AdvanceRest, RunRest DEF OrchestratorNext
<1>. QED BY <1>1, <1>2

----------------------------------------------------------------------------
(* The walk over the layers.  A run that is queued or out belongs to the     *)
(* layer its walk resolved last, has no outcome yet and has its predecessors *)
(* settled ok; the layers ahead are untouched; of a walk that is over       *)
(* nothing is left.                                                        *)

InLayer(w, n) ==
  layer[w] \in 1 .. Len(Layers[w[1]]) /\ n \in Layers[w[1]][layer[w]]

PredsOk(w, n) == \A p \in Preds[w[1]][n] : Ok(w, p)

Cleared(w) == ~ Alive(w) =>
  todo[w] = {} /\ \A n \in Nodes : outcome[Of(w, n)] = "none"

Underway(w) == \A n \in Nodes :
  n \in todo[w] \/ phase[Of(w, n)] # "none" =>
    outcome[Of(w, n)] = "none" /\ InLayer(w, n) /\ PredsOk(w, n)

QueuedOrOut(w) == \A n \in Nodes : n \in todo[w] => phase[Of(w, n)] = "none"

Behind(w) == \A n \in Nodes :
  /\ outcome[Of(w, n)] \in {"ok", "failed", "killed"} => PredsOk(w, n)
  /\ outcome[Of(w, n)] = "killed" => InLayer(w, n)

Ahead(w) == \A j \in 1 .. Len(Layers[w[1]]) : j > layer[w] =>
  \A n \in Layers[w[1]][j] : outcome[Of(w, n)] = "none"

WalkAt(w) ==
  Cleared(w) /\ Underway(w) /\ QueuedOrOut(w) /\ Behind(w) /\ Ahead(w)

WalkInv == \A w \in Walks : WalkAt(w)

LEMMA LayerFacts ==
  ASSUME NEW w \in Walks
  PROVE  /\ Len(Layers[w[1]]) \in Nat
         /\ \A i \in 1 .. Len(Layers[w[1]]) : Layers[w[1]][i] \subseteq Nodes
         /\ \A i, j \in 1 .. Len(Layers[w[1]]) :
              i # j => Layers[w[1]][i] \cap Layers[w[1]][j] = {}
         /\ Preds[w[1]] \in [Nodes -> SUBSET Nodes]
BY WalkFacts, PlanAssumption, LayersAssumption

LEMMA InitWalk == OrchestratorInit => WalkInv
BY LayerFacts, OfFacts DEF OrchestratorInit, Init0, WalkInv, WalkAt, Cleared,
   Underway, QueuedOrOut, Behind, Ahead

LEMMA WalkQueues == WalkInv => QueuesAlive
BY DEF WalkInv, WalkAt, Cleared, QueuesAlive

(* A step leaves a walk where it is. *)
LEMMA WalkFrame ==
  ASSUME NEW w \in Walks, WalkAt(w), Alive(w) => Alive(w)',
         todo'[w] = todo[w], layer'[w] = layer[w],
         \A n \in Nodes : /\ outcome'[Of(w, n)] = outcome[Of(w, n)]
                          /\ phase'[Of(w, n)] = phase[Of(w, n)]
  PROVE  WalkAt(w)'
<1>1. Cleared(w)' /\ QueuedOrOut(w)'
  BY DEF WalkAt, Cleared, QueuedOrOut
<1>2. \A n \in Nodes : /\ InLayer(w, n)' <=> InLayer(w, n)
                       /\ PredsOk(w, n)' <=> PredsOk(w, n)
  BY LayerFacts DEF InLayer, PredsOk, Ok
<1>3. Underway(w)' /\ Behind(w)'
  BY <1>2 DEF WalkAt, Underway, Behind
<1>4. Ahead(w)'
  BY LayerFacts DEF WalkAt, Ahead
<1>. QED BY <1>1, <1>3, <1>4 DEF WalkAt

LEMMA WalkOthers ==
  ASSUME Typed, WalkInv, NEW w \in Walks, NEW y, NEW z,
         \A v \in Walks : v # w /\ Alive(v) => Alive(v)',
         todo' = todo \/ todo' = [todo EXCEPT ![w] = y],
         layer' = layer \/ layer' = [layer EXCEPT ![w] = z],
         \A v \in Walks, n \in Nodes : v # w =>
           /\ outcome'[Of(v, n)] = outcome[Of(v, n)]
           /\ phase'[Of(v, n)] = phase[Of(v, n)],
         WalkAt(w)'
  PROVE  WalkInv'
<1> SUFFICES ASSUME NEW v \in Walks, v # w PROVE WalkAt(v)'
  BY DEF WalkInv
<1>1. todo \in [Walks -> SUBSET Nodes] /\ layer \in [Walks -> Nat]
  BY TypedFacts
<1>2. todo'[v] = todo[v] /\ layer'[v] = layer[v]
  BY <1>1
<1>. QED BY <1>2, WalkFrame DEF WalkInv

(* A walk that is about to begin or is over. *)
LEMMA WalkCleared ==
  ASSUME NEW w \in Walks, todo'[w] = {},
         \A n \in Nodes : outcome'[Of(w, n)] = "none" /\ phase'[Of(w, n)] = "none"
  PROVE  WalkAt(w)'
BY LayerFacts DEF WalkAt, Cleared, Underway, QueuedOrOut, Behind, Ahead

LEMMA CommandWalk ==
  ASSUME Typed, RestInv, WalkInv, NEW f \in Flows,
         Fire(f) \/ Command(f) \/ KillTail(f)
  PROVE  WalkInv'
<1>1. UNCHANGED <<todo, layer, outcome, phase, thrown, cycleNo>>
  BY DEF Fire, Command, KillTail, RunNow, Play, Pause, Kill, Continue, SaveSpec,
         stepVars, runVars, vars, cycleVars, SetFlowArmed, PlaySwitches,
         PauseSwitches, KillFlow
<1>2. UNCHANGED pc \/ (pc' = [pc EXCEPT ![f] = "start"] /\ pc[f] = "idle")
  <2>1. CASE Fire(f) \/ RunNow(f)
    BY <2>1 DEF Fire, RunNow, FireNow, StartCycle, Free, isRunning
  <2>2. CASE Continue(f)
    BY <2>2 DEF Continue, StartCycle, RestInv, AwaitInv
  <2>3. CASE Play(f) \/ Pause(f) \/ Kill(f) \/ KillTail(f)
               \/ \E loop \in BOOLEAN : SaveSpec(f, loop)
    BY <2>3 DEF Play, Pause, Kill, KillTail, SaveSpec, stepVars
  <2>. QED BY <2>1, <2>2, <2>3 DEF Command
<1>3. \A g \in Flows : pc'[g] = "cycle" <=> pc[g] = "cycle"
  BY <1>2, TypedFacts
<1>4. \A w \in Walks : Alive(w)' <=> Alive(w)
  BY <1>1, <1>3, AliveFrame, WalkFacts
<1>. QED BY <1>1, <1>4, WalkFrame DEF WalkInv

(* What the walk of f was is forgotten, and nothing else. *)
LEMMA ForgetFacts ==
  ASSUME NEW w \in Walks, Forget(w)
  PROVE  \A v \in Walks, n \in Nodes :
           outcome'[Of(v, n)] = IF v = w THEN "none" ELSE outcome[Of(v, n)]
<1>1. \A v \in Walks, n \in Nodes :
        outcome'[Of(v, n)] = IF v[1] = w[1] /\ v[2] = w[2] THEN "none"
                             ELSE outcome[Of(v, n)]
  BY OfFacts DEF Forget
<1>2. \A v \in Walks : v = w <=> v[1] = w[1] /\ v[2] = w[2]
  BY WalkFacts
<1>. QED BY <1>1, <1>2

(* The cycle is closed or a new one asked for. *)
LEMMA EndWalk ==
  ASSUME Typed, RestInv, WalkInv, NEW f \in Flows, CycleOver(f), Forget(Current(f)),
         UNCHANGED <<todo, phase, thrown, cycleNo>>,
         NEW x \in {"idle", "start"}, pc' = [pc EXCEPT ![f] = x],
         layer' = [layer EXCEPT ![Current(f)] = 0]
  PROVE  WalkInv'
<1>1. /\ pc[f] = "cycle" /\ Current(f) \in Walks /\ Current(f)[1] = f
  BY OpenHasWalk DEF RestInv, CycleOver, Joined
<1>2. PICK w \in Walks : w = Current(f)
  BY <1>1
<1>3. todo[w] = {} /\ \A n \in Nodes : phase[Of(w, n)] = "none"
  BY <1>2 DEF CycleOver, Joined, Busy
<1>4. Forget(w) /\ layer' = [layer EXCEPT ![w] = 0]
  BY <1>2
<1>5. WalkAt(w)'
  BY <1>3, <1>4, ForgetFacts, WalkCleared
<1>6. \A g \in Flows : pc'[g] = IF g = f THEN x ELSE pc[g]
  BY TypedFacts
<1>7. \A v \in Walks : v # w /\ Alive(v) => Alive(v)'
  BY <1>2, <1>6, WalkFacts DEF Alive, Current
<1>8. \A v \in Walks, n \in Nodes : v # w => outcome'[Of(v, n)] = outcome[Of(v, n)]
  BY <1>4, ForgetFacts
<1>9. \A v \in Walks, n \in Nodes : v # w =>
        outcome'[Of(v, n)] = outcome[Of(v, n)] /\ phase'[Of(v, n)] = phase[Of(v, n)]
  BY <1>8
<1>. QED BY <1>4, <1>5, <1>7, <1>9, WalkOthers

LEMMA BeginWalk ==
  ASSUME Typed, RestInv, WalkInv, NEW f \in Flows, Begin(f)
  PROVE  WalkInv'
<1>1. /\ pc[f] = "start" /\ pc' = [pc EXCEPT ![f] = "cycle"]
      /\ cycleNo' = [cycleNo EXCEPT ![f] = @ + 1]
      /\ UNCHANGED <<todo, layer, outcome, phase, thrown>>
  BY DEF Begin, BeginCycle, runVars
<1>2. \A g \in Flows : /\ pc'[g] = IF g = f THEN "cycle" ELSE pc[g]
                       /\ g # f => cycleNo'[g] = cycleNo[g]
  BY <1>1, TypedFacts
<1>3. \A w \in Walks : Alive(w) => Alive(w)'
  BY <1>1, <1>2, WalkFacts DEF Alive, Current
<1>. QED BY <1>1, <1>3, WalkFrame DEF WalkInv

(* The walk of a rejecting startCycle goes on as a thrown one. *)
LEMMA RejectWalk ==
  ASSUME Typed, RestInv, WalkInv, NEW f \in Flows, pc[f] = "cycle", Reject(f)
  PROVE  WalkInv'
<1>1. /\ pc' = [pc EXCEPT ![f] = "idle"]
      /\ thrown' = thrown \cup {Current(f)}
      /\ UNCHANGED <<todo, layer, outcome, phase, cycleNo>>
  BY DEF Reject, EndCycleUnsettled, runVars
<1>2. \A g \in Flows : g # f => pc'[g] = pc[g]
  BY <1>1, TypedFacts
<1>3. \A w \in Walks : Alive(w) => Alive(w)'
  BY <1>1, <1>2, WalkFacts DEF Alive, Current
<1>. QED BY <1>1, <1>3, WalkFrame DEF WalkInv

LEMMA ResolveWalk ==
  ASSUME Typed, RestInv, WalkInv, NEW f \in Flows, ResolveLayer(f)
  PROVE  WalkInv'
<1>1. /\ MoreLayers(f) /\ Joined(f) /\ ~ AnyKilled(f)
      /\ pc[f] = "cycle" /\ Current(f) \in Walks /\ Current(f)[1] = f
  BY OpenHasWalk DEF RestInv, ResolveLayer, MoreLayers, Joined
<1>2. PICK w \in Walks : w = Current(f)
  BY <1>1
<1>3. PICK l : l = layer[w] + 1
  OBVIOUS
<1>4. /\ layer[w] \in Nat /\ l \in 1 .. Len(Layers[w[1]])
      /\ NextLayer(f) = Layers[w[1]][l] /\ NextLayer(f) \subseteq Nodes
  <2>1. layer[w] \in Nat /\ layer[w] < Len(Layers[w[1]])
    BY <1>1, <1>2, TypedFacts DEF MoreLayers, LayersLeft
  <2>2. l \in 1 .. Len(Layers[w[1]])
    BY <1>3, <2>1, LayerFacts
  <2>3. NextLayer(f) = Layers[w[1]][l]
    BY <1>1, <1>2, <1>3 DEF NextLayer
  <2>. QED BY <2>1, <2>2, <2>3, LayerFacts
<1>5. /\ todo[w] = {} /\ \A n \in Nodes : phase[Of(w, n)] = "none"
      /\ \A n \in Nodes : outcome[Of(w, n)] # "killed"
  BY <1>1, <1>2 DEF Joined, Busy, AnyKilled
<1>6. /\ UNCHANGED <<pc, phase, cycleNo, thrown>>
      /\ layer' = [layer EXCEPT ![w] = l]
      /\ todo' = [todo EXCEPT ![w] = {n \in NextLayer(f) : Barrier(w, n)}]
  BY <1>2, <1>3 DEF ResolveLayer, vars, cycleVars
<1>7. \A v \in Walks, n \in Nodes : outcome'[Of(v, n)] =
        IF v = w /\ n \in NextLayer(f) /\ ~ Barrier(w, n)
        THEN "skipped" ELSE outcome[Of(v, n)]
  <2>1. PICK S : S = {Of(w, n) : n \in {m \in NextLayer(f) : ~ Barrier(w, m)}}
    OBVIOUS
  <2>2. outcome' = [r \in Runs |-> IF r \in S THEN "skipped" ELSE outcome[r]]
    BY <1>2, <2>1 DEF ResolveLayer
  <2>3. \A v \in Walks, n \in Nodes :
          Of(v, n) \in S <=> v = w /\ n \in NextLayer(f) /\ ~ Barrier(w, n)
    BY <1>4, <2>1, OfFacts
  <2>. QED BY <2>2, <2>3, OfFacts
<1>8. /\ layer'[w] = l
      /\ todo'[w] = {n \in NextLayer(f) : Barrier(w, n)}
  BY <1>6, TypedFacts
<1>9. \A n \in NextLayer(f) : outcome[Of(w, n)] = "none"
  BY <1>3, <1>4 DEF WalkInv, WalkAt, Ahead
<1>10. \A n \in Nodes : PredsOk(w, n) => PredsOk(w, n)'
  <2>1. \A p \in Nodes : Ok(w, p) => Ok(w, p)'
    BY <1>7, <1>9 DEF Ok
  <2>. QED BY <2>1, LayerFacts DEF PredsOk
<1>11. \A v \in Walks : Alive(v)' <=> Alive(v)
  BY <1>6, AliveFrame
<1>12. Alive(w)
  BY <1>1, <1>2 DEF Alive
<1>13. Cleared(w)' /\ QueuedOrOut(w)'
  BY <1>5, <1>6, <1>11, <1>12 DEF Cleared, QueuedOrOut
<1>14. Underway(w)'
  <2> SUFFICES ASSUME NEW n \in Nodes, n \in todo'[w]
               PROVE  outcome'[Of(w, n)] = "none" /\ InLayer(w, n)' /\ PredsOk(w, n)'
    BY <1>5, <1>6 DEF Underway
  <2>1. n \in NextLayer(f) /\ Barrier(w, n)
    BY <1>8
  <2>2. PredsOk(w, n)
    BY <2>1 DEF Barrier, PredsOk
  <2>3. InLayer(w, n)'
    BY <1>4, <1>8, <2>1 DEF InLayer
  <2>. QED BY <1>7, <1>9, <1>10, <2>1, <2>2, <2>3
<1>15. Behind(w)'
  BY <1>5, <1>7, <1>10 DEF WalkInv, WalkAt, Behind
<1>16. Ahead(w)'
  <2> SUFFICES ASSUME NEW j \in 1 .. Len(Layers[w[1]]), j > l,
                      NEW n \in Layers[w[1]][j]
               PROVE  outcome'[Of(w, n)] = "none"
    BY <1>8 DEF Ahead
  <2>1. n \notin NextLayer(f) /\ n \in Nodes
    <3>1. l \in 1 .. Len(Layers[w[1]]) /\ l # j
      BY <1>4
    <3>2. Layers[w[1]][l] \cap Layers[w[1]][j] = {} /\ Layers[w[1]][j] \subseteq Nodes
      BY <3>1, LayerFacts
    <3>. QED BY <1>4, <3>2
  <2>2. j > layer[w]
    BY <1>3, <1>4
  <2>. QED BY <1>7, <2>1, <2>2 DEF WalkInv, WalkAt, Ahead
<1>17. WalkAt(w)'
  BY <1>13, <1>14, <1>15, <1>16 DEF WalkAt
<1>18. \A v \in Walks, n \in Nodes : v # w =>
         outcome'[Of(v, n)] = outcome[Of(v, n)] /\ phase'[Of(v, n)] = phase[Of(v, n)]
  BY <1>6, <1>7
<1>. QED BY <1>6, <1>11, <1>17, <1>18, WalkOthers

(* A node of the layer resolved last is taken, moves on or settles. *)
LEMMA NodeWalk ==
  ASSUME Typed, WalkInv, NEW w \in Walks, NEW n \in Nodes, Alive(w),
         UNCHANGED <<pc, layer, cycleNo, thrown>>,
         outcome[Of(w, n)] = "none", InLayer(w, n), PredsOk(w, n),
         NEW y, todo' = todo \/ todo' = [todo EXCEPT ![w] = y],
         todo'[w] \subseteq todo[w], n \notin todo'[w],
         \A v \in Walks, m \in Nodes : ~ (v = w /\ m = n) =>
           /\ outcome'[Of(v, m)] = outcome[Of(v, m)]
           /\ phase'[Of(v, m)] = phase[Of(v, m)],
         outcome'[Of(w, n)] = "none" \/ phase'[Of(w, n)] = "none"
  PROVE  WalkInv'
<1>0. WalkAt(w)
  BY DEF WalkInv
<1>1. \A m \in Nodes : m # n => /\ outcome'[Of(w, m)] = outcome[Of(w, m)]
                               /\ phase'[Of(w, m)] = phase[Of(w, m)]
  OBVIOUS
<1>2. \A m \in Nodes : PredsOk(w, m) => PredsOk(w, m)'
  <2>1. \A p \in Nodes : Ok(w, p) => Ok(w, p)'
    BY <1>1 DEF Ok
  <2>. QED BY <2>1, LayerFacts DEF PredsOk
<1>3. \A m \in Nodes : InLayer(w, m)' <=> InLayer(w, m)
  BY DEF InLayer
<1>4. \A v \in Walks : Alive(v)' <=> Alive(v)
  BY AliveFrame
<1>5. Cleared(w)' /\ QueuedOrOut(w)'
  BY <1>0, <1>1, <1>4 DEF WalkAt, Cleared, QueuedOrOut
<1>6. Underway(w)' /\ Behind(w)'
  BY <1>0, <1>1, <1>2, <1>3 DEF WalkAt, Underway, Behind
<1>7. Ahead(w)'
  <2> SUFFICES ASSUME NEW j \in 1 .. Len(Layers[w[1]]), j > layer[w],
                      NEW m \in Layers[w[1]][j]
               PROVE  outcome'[Of(w, m)] = "none"
    BY DEF Ahead
  <2>1. m \in Nodes /\ outcome[Of(w, m)] = "none"
    BY <1>0, LayerFacts DEF WalkAt, Ahead
  <2>2. m # n
    <3>1. /\ layer[w] \in 1 .. Len(Layers[w[1]]) /\ n \in Layers[w[1]][layer[w]]
          /\ layer[w] # j
      BY DEF InLayer
    <3>2. Layers[w[1]][layer[w]] \cap Layers[w[1]][j] = {}
      BY <3>1, LayerFacts
    <3>. QED BY <3>1, <3>2
  <2>. QED BY <1>1, <2>1, <2>2
<1>8. WalkAt(w)'
  BY <1>5, <1>6, <1>7 DEF WalkAt
<1>. QED BY <1>4, <1>8, WalkOthers

LEMMA TakeWalk ==
  ASSUME Typed, RestInv, WalkInv, NEW w \in Walks, NEW n \in Nodes,
         TakeNode(w, n)
  PROVE  WalkInv'
<1>1. /\ n \in todo[w] /\ UNCHANGED <<pc, layer, cycleNo, thrown>>
      /\ todo' = [todo EXCEPT ![w] = todo[w] \ {n}]
  BY DEF TakeNode, CanTake, RequestSpawn, vars, cycleVars
<1>2. /\ outcome[Of(w, n)] = "none" /\ InLayer(w, n) /\ PredsOk(w, n)
      /\ phase[Of(w, n)] = "none" /\ Alive(w)
  BY <1>1 DEF WalkInv, WalkAt, Underway, QueuedOrOut, Cleared
<1>3. todo'[w] = todo[w] \ {n}
  BY <1>1, TypedFacts
<1>4. /\ \A v \in Walks, m \in Nodes : ~ (v = w /\ m = n) =>
           /\ outcome'[Of(v, m)] = outcome[Of(v, m)]
           /\ phase'[Of(v, m)] = phase[Of(v, m)]
      /\ outcome'[Of(w, n)] = "none" \/ phase'[Of(w, n)] = "none"
  <2>0. phase \in [Runs -> Phases] /\ outcome \in [Runs -> Outcomes]
    BY TypedFacts
  <2>1. CASE /\ \E to \in Phases : phase' = [phase EXCEPT ![Of(w, n)] = to]
            /\ UNCHANGED outcome
    BY <1>2, <2>0, <2>1, OfFacts
  <2>2. CASE outcome' = [outcome EXCEPT ![Of(w, n)] = "skipped"] /\ UNCHANGED phase
    BY <1>2, <2>0, <2>2, OfFacts
  <2>. QED BY <2>1, <2>2 DEF TakeNode, Phases
<1>. QED BY <1>1, <1>2, <1>3, <1>4, NodeWalk

LEMMA RunWalk ==
  ASSUME Typed, RestInv, WalkInv, NEW w \in Walks, NEW n \in Nodes,
         RunStep(w, n) \/ \E h \in Hashes : AgentWrites(w, n, h)
  PROVE  WalkInv'
<1>0. phase \in [Runs -> Phases] /\ outcome \in [Runs -> Outcomes]
  BY TypedFacts
<1>1. UNCHANGED <<pc, layer, todo, cycleNo, thrown>>
  BY DEF RunStep, StartRun, PromptFails, FakeWrites, FakeWriteRefused, FakeMeters,
         FinishFake, FinishDoomed, FinishReal, Finish, AgentWrites, OnlyPhaseMoves,
         MeterTripsRun, MeterKillsFlow, MeterOnly, AddUsage, ReleaseLease,
         FoldArtifactHash, vars, cycleVars, stepVars
<1>2. CASE UNCHANGED <<outcome, phase>>
  <2>1. \A v \in Walks : Alive(v)' <=> Alive(v)
    BY <1>1, AliveFrame
  <2>. QED BY <1>1, <1>2, <2>1, WalkFrame DEF WalkInv
<1>3. ASSUME phase[Of(w, n)] # "none", NEW x, phase' = [phase EXCEPT ![Of(w, n)] = x],
             NEW s, \/ UNCHANGED outcome
                    \/ x = "none" /\ outcome' = [outcome EXCEPT ![Of(w, n)] = s]
      PROVE  WalkInv'
  <2>1. /\ outcome[Of(w, n)] = "none" /\ InLayer(w, n) /\ PredsOk(w, n)
        /\ n \notin todo[w] /\ Alive(w)
    BY <1>3 DEF WalkInv, WalkAt, Underway, QueuedOrOut, RestInv, SlotInv, OutIsAlive
  <2>2. \A v \in Walks, m \in Nodes : ~ (v = w /\ m = n) =>
          /\ outcome'[Of(v, m)] = outcome[Of(v, m)]
          /\ phase'[Of(v, m)] = phase[Of(v, m)]
    BY <1>0, <1>3, OfFacts
  <2>3. outcome'[Of(w, n)] = "none" \/ phase'[Of(w, n)] = "none"
    BY <1>0, <1>3, <2>1, OfFacts
  <2>. QED BY <1>1, <2>1, <2>2, <2>3, NodeWalk
<1>4. \/ UNCHANGED <<outcome, phase>>
      \/ /\ phase[Of(w, n)] # "none"
         /\ \E x, s : /\ phase' = [phase EXCEPT ![Of(w, n)] = x]
                      /\ \/ UNCHANGED outcome
                         \/ /\ x = "none"
                            /\ outcome' = [outcome EXCEPT ![Of(w, n)] = s]
  BY DEF RunStep, StartRun, PromptFails, FakeWrites, FakeWriteRefused, FakeMeters,
         FinishFake, FinishDoomed, FinishReal, Finish, AgentWrites, OnlyPhaseMoves,
         MovePhase, Conclude
<1>. QED BY <1>2, <1>3, <1>4

LEMMA AdvanceWalk ==
  ASSUME Typed, RestInv, WalkInv, NEW f \in Flows, Advance(f)
  PROVE  WalkInv'
<1>1. CASE EndKilled(f) \/ EndDone(f) \/ EndStopped(f) \/ EndConverged(f)
           \/ EndAwaiting(f)
  <2>1. CycleOver(f) /\ UNCHANGED cycleNo /\ \E s, v : Close(f, s, v)
    BY <1>1 DEF EndKilled, EndDone, EndStopped, EndConverged, EndAwaiting, Gated,
                EndCycleUnsettled, SettleCycle
  <2>. QED BY <2>1, EndWalk DEF Close
<1>2. CASE Rearm(f)
  BY <1>2, EndWalk DEF Rearm, Gated, StartCycle, SettleCycle
<1>3. CASE LayerFails(f) \/ BarrierFails(f)
  BY <1>3, RejectWalk DEF LayerFails, BarrierFails, Rejecting, MoreLayers, Joined
<1>4. ASSUME NEW c \in Cycle, NEW n \in Nodes, TakeNode(<<f, c>>, n) PROVE WalkInv'
  <2>1. <<f, c>> \in Walks
    BY DEF Walks
  <2>. QED BY <1>4, <2>1, TakeWalk
<1>. QED BY <1>1, <1>2, <1>3, <1>4, BeginWalk, ResolveWalk DEF Advance

LEMMA WalkStep ==
  ASSUME Typed, RestInv, WalkInv, [OrchestratorNext]_allVars
  PROVE  WalkInv'
<1>1. CASE UNCHANGED allVars
  <2>1. UNCHANGED <<pc, layer, todo, outcome, phase, cycleNo, thrown>>
    BY <1>1 DEF allVars, vars, cycleVars, loopVars, stepVars, runVars
  <2>2. \A v \in Walks : Alive(v)' <=> Alive(v)
    BY <2>1, AliveFrame
  <2>. QED BY <2>1, <2>2, WalkFrame DEF WalkInv
<1>2. CASE OrchestratorNext
  BY <1>2, CommandWalk, AdvanceWalk, RunWalk DEF OrchestratorNext
<1>. QED BY <1>1, <1>2

(* What holds at every moment of the composed engine. *)
EngineInv == Typed /\ GuardInv /\ RestInv /\ WalkInv

LEMMA OrchestratorWalks == OrchestratorSpec => []EngineInv
<1>1. OrchestratorTypeOK /\ GuardInv /\ Numbered => Typed /\ GuardInv
  BY DEF Typed, GuardInv
<1>2. Typed /\ RestInv /\ WalkInv /\ [OrchestratorNext]_allVars => (RestInv /\ WalkInv)'
  BY RestStep, WalkStep, WalkQueues
<1>. QED BY <1>1, <1>2, InitRest, InitWalk, OrchestratorTyped, PTL
         DEF OrchestratorSpec, EngineInv

(* However a run or its cycle ends, the guard and the orchestrator agree on  *)
(* its lease: a live lease is that of a run whose runNode has it, or has    *)
(* thrown with it; and what is out of a cycle that has ended is out of one  *)
(* whose startCycle rejected.                                              *)
THEOREM OrchestratorNoLeaseLeak == OrchestratorSpec => []NoLeaseLeak
<1>1. ASSUME EngineInv, NEW w \in Walks, NEW n \in Nodes
      PROVE  /\ Of(w, n) \in liveRuns[w[1]] <=> phase[Of(w, n)] # "none"
             /\ Of(w, n) \in liveRuns[w[1]] => Alive(w)
             /\ phase[Of(w, n)] = "lost" => Rejecting(w[1]) \/ w \in thrown
  <2>1. SlotInv
    BY <1>1 DEF EngineInv, RestInv
  <2>2. Of(w, n) \in liveRuns[w[1]] <=> phase[Of(w, n)] # "none"
    BY <2>1 DEF SlotInv, LeasesMatch
  <2>3. phase[Of(w, n)] # "none" => Alive(w)
    BY <2>1 DEF SlotInv, OutIsAlive
  <2>. QED BY <2>2, <2>3 DEF Alive, Rejecting
<1>2. EngineInv => NoLeaseLeak
  BY <1>1 DEF NoLeaseLeak
<1>. QED BY <1>2, OrchestratorWalks, PTL

(* A flow at a checkpoint has no cycle open and no lease out but those of    *)
(* cycles whose startCycle rejected, and resumes with an arm the guard      *)
(* allowed.                                                                *)
THEOREM OrchestratorAwaitingIsQuiescent ==
  OrchestratorSpec => []AwaitingIsQuiescent
<1>1. ASSUME EngineInv PROVE AwaitingIsQuiescent
  <2> SUFFICES ASSUME NEW f \in Flows, isAwaiting(f)
               PROVE  /\ ~ isRunning(f) /\ ~ cycleOpen[f]
                      /\ \A r \in liveRuns[f] : <<f, r[3]>> \in thrown
                      /\ pendingArm[f] \in 1 .. MaxCyclesPerArm[f] - 1
    BY DEF AwaitingIsQuiescent
  <2>1. pc[f] = "idle" /\ pendingArm[f] >= 1
    BY <1>1 DEF EngineInv, RestInv, AwaitInv
  <2>2. SlotInv
    BY <1>1 DEF EngineInv, RestInv
  <2>3. ~ cycleOpen[f]
    BY <2>1, <2>2 DEF SlotInv, OpenIsWalked
  <2>4. ASSUME NEW r \in liveRuns[f] PROVE <<f, r[3]>> \in thrown
    <3>1. r \in Runs /\ r[1] = f
      BY <1>1, <2>2, TypedFacts DEF EngineInv, SlotInv, OwnRuns
    <3>2. PICK w \in Walks, n \in Nodes : r = Of(w, n)
      BY <3>1, RunFacts
    <3>3. w[1] = f /\ w[2] = r[3] /\ w = <<w[1], w[2]>>
      BY <3>1, <3>2, OfFacts, WalkFacts
    <3>4. Alive(w)
      BY <2>2, <3>2, <3>3 DEF SlotInv, LeasesMatch, OutIsAlive
    <3>. QED BY <2>1, <3>3, <3>4 DEF Alive
  <2>5. pendingArm[f] \in 1 .. MaxCyclesPerArm[f] - 1
    BY <1>1, <2>1, PlanFacts DEF EngineInv, Typed, OrchestratorTypeOK, isAwaiting
  <2>. QED BY <2>1, <2>3, <2>4, <2>5 DEF isRunning
<1>. QED BY <1>1, OrchestratorWalks, PTL

(* A flow the projection shows as running has its cycle in flight, however   *)
(* commands and cycles interleave, unless its startCycle rejected.         *)
THEOREM OrchestratorRodandoIsRunning == OrchestratorSpec => []RodandoIsRunning
<1>1. EngineInv => RodandoIsRunning
  BY DEF EngineInv, RestInv
<1>. QED BY <1>1, OrchestratorWalks, PTL

(* The JOIN barrier, for every graph: an agent that runs, or has run in a    *)
(* walk, has all of its forward predecessors settled ok in that walk.      *)
THEOREM OrchestratorBarrierRespected == OrchestratorSpec => []BarrierRespected
<1>1. WalkInv => BarrierRespected
  BY DEF WalkInv, WalkAt, Underway, Behind, PredsOk, BarrierRespected
<1>. QED BY <1>1, OrchestratorWalks, PTL DEF EngineInv

(* A killed run aborts the remaining layers: it is of the layer resolved     *)
(* last, and no agent of a layer behind that one is out or has an outcome. *)
THEOREM OrchestratorKilledRunEndsCycle ==
  OrchestratorSpec => []KilledRunEndsCycle
<1>1. ASSUME EngineInv PROVE KilledRunEndsCycle
  <2> SUFFICES ASSUME NEW w \in Walks, NEW i \in 1 .. Len(Layers[w[1]]),
                      NEW j \in 1 .. Len(Layers[w[1]]), i < j,
                      NEW k \in Layers[w[1]][i], outcome[Of(w, k)] = "killed",
                      NEW n \in Layers[w[1]][j]
               PROVE  phase[Of(w, n)] = "none" /\ outcome[Of(w, n)] = "none"
    BY DEF KilledRunEndsCycle
  <2>0. WalkAt(w)
    BY <1>1 DEF EngineInv, WalkInv
  <2>1. k \in Nodes /\ n \in Nodes
    BY LayerFacts
  <2>2. InLayer(w, k)
    BY <2>0, <2>1 DEF WalkAt, Behind
  <2>3. layer[w] = i
    BY <2>2, LayerFacts DEF InLayer
  <2>4. outcome[Of(w, n)] = "none"
    BY <2>0, <2>3 DEF WalkAt, Ahead
  <2>5. ~ InLayer(w, n)
    BY <2>3, LayerFacts DEF InLayer
  <2>6. phase[Of(w, n)] = "none"
    BY <2>0, <2>1, <2>5 DEF WalkAt, Underway
  <2>. QED BY <2>4, <2>6
<1>. QED BY <1>1, OrchestratorWalks, PTL

----------------------------------------------------------------------------
(* The ceiling on spend, in the composed engine. *)

(* However cycles, commands and runs interleave, what a flow has spent and   *)
(* what its live runs hold in reserve stays within its cap, but for what    *)
(* runs have spent beyond their own reservations since the last admission. *)
THEOREM OrchestratorFlowCapHeld == OrchestratorSpec => []FlowCapHeld
BY OrchestratorUsesGuard, GuardFlowCapHeld, PTL

----------------------------------------------------------------------------
(* Convergence.  With the FakeRunner every write goes through the           *)
(* blackboard, whose event the guard folds, so what the guard has seen is   *)
(* what was written, and its latch shows at least what the cycle wrote: a   *)
(* write of an older cycle's worker is taken for the open one's.           *)

Folded == known = seen /\ \A f \in Flows : novel[f] => productive[f]

OpenNotEnded == \A f \in Flows :
  (pc[f] = "cycle" \/ Current(f) \in thrown) => ended[f] = "none"

NoveltyInv == Folded /\ OpenNotEnded /\ ConvergedWroteNothingNew

LEMMA NoveltyTypes ==
  ASSUME Typed
  PROVE  /\ known \in [Flows -> SUBSET Hashes] /\ novel \in [Flows -> BOOLEAN]
         /\ seen \in [Flows -> SUBSET Hashes] /\ productive \in [Flows -> BOOLEAN]
         /\ ended \in [Flows -> {"none", "done", "converged", "stopped", "killed"}]
BY DEF Typed, OrchestratorTypeOK, TypeOK

LEMMA InitNovelty == OrchestratorInit => NoveltyInv
BY DEF OrchestratorInit, Init, Init0, NoveltyInv, Folded, OpenNotEnded,
       ConvergedWroteNothingNew

LEMMA NoveltyFrame ==
  ASSUME NoveltyInv, UNCHANGED <<known, seen, novel, productive, ended, cycleNo, thrown>>,
         \A f \in Flows : pc'[f] = "cycle" => pc[f] = "cycle"
  PROVE  NoveltyInv'
BY DEF NoveltyInv, Folded, OpenNotEnded, ConvergedWroteNothingNew, Current

LEMMA CommandNovelty ==
  ASSUME Typed, NoveltyInv, NEW f \in Flows,
         Fire(f) \/ Command(f) \/ KillTail(f)
  PROVE  NoveltyInv'
<1>1. UNCHANGED <<known, novel, ended, thrown>>
  BY DEF Fire, Command, KillTail, RunNow, Play, Pause, Kill, Continue, SaveSpec,
         histVars, viewVars
<1>2. UNCHANGED <<seen, productive, cycleNo>>
  BY DEF Fire, Command, KillTail, RunNow, Play, Pause, Kill, Continue, SaveSpec,
         SetFlowArmed, PlaySwitches, PauseSwitches, KillFlow, vars, convVars, cycleVars
<1>3. UNCHANGED pc \/ pc' = [pc EXCEPT ![f] = "start"]
  BY DEF Fire, Command, KillTail, RunNow, Play, Pause, Kill, Continue, SaveSpec,
         FireNow, StartCycle, stepVars
<1>4. \A g \in Flows : pc'[g] = "cycle" => pc[g] = "cycle"
  BY <1>3, TypedFacts
<1>. QED BY <1>1, <1>2, <1>4, NoveltyFrame

(* A cycle ends as s, and only as converged if it wrote nothing new. *)
LEMMA EndNovelty ==
  ASSUME Typed, RestInv, NoveltyInv, NEW f \in Flows, pc[f] = "cycle", NEW s,
         ended' = [ended EXCEPT ![f] = s],
         NEW x \in {"idle", "start"}, pc' = [pc EXCEPT ![f] = x],
         UNCHANGED <<known, seen, novel, productive, cycleNo, thrown>>,
         s = "converged" => ~ productive[f]
  PROVE  NoveltyInv'
<1>1. \A g \in Flows : /\ ended'[g] = IF g = f THEN s ELSE ended[g]
                       /\ pc'[g] = IF g = f THEN x ELSE pc[g]
  BY TypedFacts, NoveltyTypes
<1>2. Current(f) \notin thrown
  BY OpenHasWalk DEF RestInv
<1>3. OpenNotEnded'
  BY <1>1, <1>2 DEF NoveltyInv, OpenNotEnded, Current
<1>4. ConvergedWroteNothingNew'
  BY <1>1 DEF NoveltyInv, Folded, ConvergedWroteNothingNew
<1>5. Folded'
  BY DEF NoveltyInv, Folded
<1>. QED BY <1>3, <1>4, <1>5 DEF NoveltyInv

LEMMA ConvergedIsBarren ==
  ASSUME GuardInv, NEW f \in Flows, cycleOpen[f], Converged(f)
  PROVE  ~ productive[f]
<1>1. ConvergenceWindow[f] \in Nat /\ ConvergenceWindow[f] > 0
  BY LimitAssumption, BudgetAssumption
<1>2. ~ fresh[f]
  BY <1>1 DEF Converged, Settled
<1>. QED BY <1>2 DEF GuardInv, LatchShowsProductive

LEMMA BeginNovelty ==
  ASSUME Typed, NoveltyInv, NEW f \in Flows, Begin(f)
  PROVE  NoveltyInv'
<1>1. /\ productive' = [productive EXCEPT ![f] = FALSE]
      /\ novel' = [novel EXCEPT ![f] = FALSE]
      /\ ended' = [ended EXCEPT ![f] = "none"]
      /\ pc' = [pc EXCEPT ![f] = "cycle"]
      /\ cycleNo' = [cycleNo EXCEPT ![f] = @ + 1]
      /\ UNCHANGED <<known, seen, thrown>>
  BY DEF Begin, BeginCycle
<1>2. \A g \in Flows : /\ ended'[g] = IF g = f THEN "none" ELSE ended[g]
                       /\ pc'[g] = IF g = f THEN "cycle" ELSE pc[g]
                       /\ g # f => cycleNo'[g] = cycleNo[g]
  BY <1>1, TypedFacts, NoveltyTypes
<1>3. /\ novel'[f] = FALSE
      /\ \A g \in Flows : g # f => novel'[g] = novel[g] /\ productive'[g] = productive[g]
  BY <1>1, NoveltyTypes
<1>4. Folded'
  BY <1>1, <1>3 DEF NoveltyInv, Folded
<1>5. OpenNotEnded'
  BY <1>1, <1>2 DEF NoveltyInv, OpenNotEnded, Current
<1>6. ConvergedWroteNothingNew'
  BY <1>2, <1>3 DEF NoveltyInv, ConvergedWroteNothingNew
<1>. QED BY <1>4, <1>5, <1>6 DEF NoveltyInv

LEMMA RejectNovelty ==
  ASSUME Typed, NoveltyInv, NEW f \in Flows, pc[f] = "cycle", Reject(f)
  PROVE  NoveltyInv'
<1>1. /\ pc' = [pc EXCEPT ![f] = "idle"]
      /\ thrown' = thrown \cup {Current(f)}
      /\ UNCHANGED <<known, seen, novel, productive, ended, cycleNo>>
  BY DEF Reject, EndCycleUnsettled, histVars, viewVars, convVars
<1>2. \A g \in Flows : g # f => pc'[g] = pc[g] /\ Current(g) # Current(f)
  BY <1>1, TypedFacts DEF Current
<1>3. OpenNotEnded'
  BY <1>1, <1>2 DEF NoveltyInv, OpenNotEnded, Current
<1>4. Folded' /\ ConvergedWroteNothingNew'
  BY <1>1 DEF NoveltyInv, Folded, ConvergedWroteNothingNew
<1>. QED BY <1>3, <1>4 DEF NoveltyInv

LEMMA AdvanceNovelty ==
  ASSUME EngineInv, NoveltyInv, NEW f \in Flows, Advance(f)
  PROVE  NoveltyInv'
<1> USE DEF histVars, convVars, EngineInv
<1>1. CASE Begin(f)
  BY <1>1, BeginNovelty
<1>2. CASE ResolveLayer(f)
  BY <1>2, NoveltyFrame DEF ResolveLayer, vars, cycleVars, viewVars
<1>3. ASSUME NEW c \in Cycle, NEW n \in Nodes, TakeNode(<<f, c>>, n) PROVE NoveltyInv'
  BY <1>3, NoveltyFrame DEF TakeNode, RequestSpawn, vars, cycleVars, viewVars
<1>4. CASE LayerFails(f) \/ BarrierFails(f)
  BY <1>4, RejectNovelty DEF LayerFails, BarrierFails, Rejecting, MoreLayers, Joined
<1>5. CASE EndKilled(f) \/ EndDone(f) \/ EndStopped(f)
  <2>1. /\ UNCHANGED <<seen, productive, cycleNo, known, novel, thrown>>
        /\ pc' = [pc EXCEPT ![f] = "idle"] /\ pc[f] = "cycle"
    BY <1>5 DEF EndKilled, EndDone, EndStopped, EndCycleUnsettled, Close, Gated,
                CycleOver, Joined
  <2>2. \E s \in {"done", "stopped", "killed"} : ended' = [ended EXCEPT ![f] = s]
    BY <1>5 DEF EndKilled, EndDone, EndStopped, Close
  <2> HIDE DEF EngineInv
  <2>3. Typed /\ RestInv
    BY DEF EngineInv
  <2>4. ASSUME NEW s \in {"done", "stopped", "killed"}, ended' = [ended EXCEPT ![f] = s]
        PROVE  NoveltyInv'
    <3>1. s = "converged" => ~ productive[f]
      OBVIOUS
    <3>. QED BY <2>1, <2>3, <2>4, <3>1, EndNovelty
  <2>. QED BY <2>2, <2>4
<1>6. CASE EndConverged(f)
  <2>1. ~ productive[f]
    BY <1>6, ConvergedIsBarren DEF EndConverged, SettleCycle
  <2>. QED BY <1>6, <2>1, EndNovelty
           DEF EndConverged, SettleCycle, Close, Gated, CycleOver, Joined
<1>7. CASE EndAwaiting(f) \/ Rearm(f)
  <2>1. /\ UNCHANGED <<known, seen, novel, productive, cycleNo, thrown>>
        /\ ended' = [ended EXCEPT ![f] = "done"] /\ pc[f] = "cycle"
        /\ pc' = [pc EXCEPT ![f] = "idle"] \/ pc' = [pc EXCEPT ![f] = "start"]
    BY <1>7 DEF EndAwaiting, Rearm, SettleCycle, Close, StartCycle, Gated,
                CycleOver, Joined
  <2>2. "done" = "converged" => ~ productive[f]
    OBVIOUS
  <2> HIDE DEF EngineInv
  <2>3. Typed /\ RestInv
    BY DEF EngineInv
  <2>4. CASE pc' = [pc EXCEPT ![f] = "idle"]
    BY <2>1, <2>2, <2>3, <2>4, EndNovelty
  <2>5. CASE pc' = [pc EXCEPT ![f] = "start"]
    BY <2>1, <2>2, <2>3, <2>5, EndNovelty
  <2>. QED BY <2>1, <2>4, <2>5
<1>. QED BY <1>1, <1>2, <1>3, <1>4, <1>5, <1>6, <1>7 DEF Advance

LEMMA RunNovelty ==
  ASSUME FakeRunner, EngineInv, NoveltyInv, NEW w \in Walks, NEW n \in Nodes,
         RunStep(w, n) \/ \E h \in Hashes : AgentWrites(w, n, h)
  PROVE  NoveltyInv'
<1>1. UNCHANGED <<pc, ended, cycleNo, thrown>>
  BY DEF RunStep, StartRun, PromptFails, FakeWrites, FakeWriteRefused, FakeMeters,
         FinishFake, FinishDoomed, FinishReal, Finish, AgentWrites, OnlyPhaseMoves,
         MeterTripsRun, MeterKillsFlow, MeterOnly, AddUsage, ReleaseLease,
         FoldArtifactHash, vars, cycleVars, stepVars, viewVars
<1>2. ASSUME NEW h \in Hashes, FakeWrites(w, n, h) PROVE NoveltyInv'
  <2>1. PICK f \in Flows : f = w[1]
    BY WalkFacts
  <2>2. w = Current(f) => ended[f] = "none"
    <3>1. phase[Of(w, n)] # "none"
      BY <1>2 DEF FakeWrites, MovePhase
    <3>2. Alive(w)
      BY <3>1 DEF EngineInv, RestInv, SlotInv, OutIsAlive
    <3>. QED BY <2>1, <3>2 DEF Alive, NoveltyInv, OpenNotEnded
  <2>3. /\ known' = [known EXCEPT ![f] = known[f] \cup {h}]
        /\ novel' = [novel EXCEPT ![f] = novel[f] \/ (w = Current(f) /\ h \notin known[f])]
        /\ seen' = [seen EXCEPT ![f] = seen[f] \cup {h}]
        /\ productive' = [productive EXCEPT ![f] = productive[f] \/ h \notin seen[f]]
    BY <1>2, <2>1 DEF FakeWrites, NoteWrite, FoldArtifactHash
  <2>4. /\ \A g \in Flows : g # f => novel'[g] = novel[g] /\ productive'[g] = productive[g]
        /\ novel'[f] = (novel[f] \/ (w = Current(f) /\ h \notin known[f]))
        /\ productive'[f] = (productive[f] \/ h \notin seen[f])
    BY <2>3, NoveltyTypes DEF EngineInv
  <2>5. known = seen /\ (novel[f] => productive[f])
    BY DEF NoveltyInv, Folded
  <2>6. novel'[f] => productive'[f]
    BY <2>4, <2>5, Zenon
  <2>7. Folded'
    BY <2>3, <2>4, <2>5, <2>6 DEF NoveltyInv, Folded
  <2>8. OpenNotEnded'
    BY <1>1 DEF NoveltyInv, OpenNotEnded, Current
  <2>9. ended[f] = "converged" => ~ novel'[f]
    BY <2>2, <2>4 DEF NoveltyInv, ConvergedWroteNothingNew
  <2>10. ConvergedWroteNothingNew'
    BY <1>1, <2>4, <2>9 DEF NoveltyInv, ConvergedWroteNothingNew
  <2>. QED BY <2>7, <2>8, <2>10 DEF NoveltyInv
<1>3. ASSUME ~ \E h \in Hashes : FakeWrites(w, n, h)
      PROVE  NoveltyInv'
  <2>1. UNCHANGED <<known, novel, seen, productive>>
    BY <1>3 DEF RunStep, StartRun, PromptFails, FakeWriteRefused, FakeMeters, FinishFake,
         FinishDoomed, FinishReal, Finish, AgentWrites, OnlyPhaseMoves, MeterTripsRun,
         MeterKillsFlow, MeterOnly, AddUsage, ReleaseLease, vars, convVars, histVars
  <2>. QED BY <1>1, <2>1, NoveltyFrame
<1>. QED BY <1>2, <1>3

LEMMA NoveltyStep ==
  ASSUME FakeRunner, EngineInv, NoveltyInv, [OrchestratorNext]_allVars
  PROVE  NoveltyInv'
<1>1. CASE UNCHANGED allVars
  BY <1>1, NoveltyFrame DEF allVars, loopVars, stepVars, viewVars, histVars,
                            vars, convVars, cycleVars
<1>2. CASE OrchestratorNext
  BY <1>2, CommandNovelty, AdvanceNovelty, RunNovelty DEF OrchestratorNext, EngineInv
<1>. QED BY <1>1, <1>2

(* With the FakeRunner, a cycle that ends as converged wrote no content the  *)
(* flow had not had before.  For real runs this cannot be claimed: what     *)
(* their agents write reaches no fold of the guard.                        *)
THEOREM OrchestratorConvergedWroteNothingNew ==
  FakeRunner => (OrchestratorSpec => []ConvergedWroteNothingNew)
<1> SUFFICES ASSUME FakeRunner
             PROVE  OrchestratorSpec => []ConvergedWroteNothingNew
  OBVIOUS
<1>1. NoveltyInv => ConvergedWroteNothingNew
  BY DEF NoveltyInv
<1>2. EngineInv /\ NoveltyInv /\ [OrchestratorNext]_allVars => NoveltyInv'
  BY NoveltyStep
<1>. QED BY <1>1, <1>2, InitNovelty, OrchestratorWalks, PTL DEF OrchestratorSpec

----------------------------------------------------------------------------
(* The refinement.  G is F with the values of the mapping named, flow by     *)
(* flow, so that a step can be told without looking into them.             *)

StageOf(f) == IF isRunning(f) THEN "cycling"
              ELSE IF isAwaiting(f) THEN "awaiting" ELSE "idle"
CyclesOf(f) == IF isRunning(f) THEN arm[f] + 1
               ELSE IF isAwaiting(f) THEN pendingArm[f] ELSE 0
AgeOf(f) == IF pc[f] = "start" THEN cycleNo[f] + 1 ELSE cycleNo[f]
BrokenOf(f) == {c \in Cycle : <<f, c>> \in thrown}
RanOf(f) == {a \in Nodes \X Cycle :
               \/ phase[<<f, a[1], a[2]>>] # "none"
               \/ outcome[<<f, a[1], a[2]>>] \in {"ok", "failed", "killed"}}
LiveOf(f) == {a \in Nodes \X Cycle : phase[<<f, a[1], a[2]>>] # "none"}

Stage   == [f \in Flows |-> StageOf(f)]
Begun   == [f \in Flows |-> CyclesOf(f)]
Aged    == [f \in Flows |-> AgeOf(f)]
Broken  == [f \in Flows |-> BrokenOf(f)]
Started == [f \in Flows |-> RanOf(f)]
Working == [f \in Flows |-> LiveOf(f)]

G == INSTANCE Firing WITH
  MaxCycles <- MaxCyclesPerArm, stage <- Stage, cycles <- Begun, age <- Aged,
  broken <- Broken, ran <- Started, live <- Working, runs <- spawned

LEMMA SameFiring == (F!Init <=> G!Init) /\ ([F!Next]_F!vars <=> [G!Next]_G!vars)
<1> USE DEF StageOf, CyclesOf, AgeOf, BrokenOf, RanOf, LiveOf, Stage, Begun, Aged,
            Broken, Started, Working
<1>1. F!Init <=> G!Init
  BY DEF F!Init, G!Init
<1>2. F!Next <=> G!Next
  BY DEF F!Next, G!Next, F!Fire, G!Fire, F!Again, G!Again, F!Hold, G!Hold,
         F!Resume, G!Resume, F!Finish, G!Finish, F!Drop, G!Drop, F!Break, G!Break,
         F!NextCycle, G!NextCycle, F!Move, G!Move, F!Spawn, G!Spawn, F!Settle,
         G!Settle
<1>3. UNCHANGED F!vars <=> UNCHANGED G!vars
  BY DEF F!vars, G!vars
<1>. QED BY <1>1, <1>2, <1>3

(* An agent of Firing is a node in a walk. *)
LEMMA AgentFacts ==
  ASSUME NEW f \in Flows, NEW a \in Nodes \X Cycle
  PROVE  /\ <<f, a[2]>> \in Walks /\ <<f, a[2]>>[1] = f /\ <<f, a[2]>>[2] = a[2]
         /\ a[1] \in Nodes /\ a[2] \in Cycle /\ a = <<a[1], a[2]>>
         /\ <<f, a[1], a[2]>> = Of(<<f, a[2]>>, a[1])
BY DEF Walks, Of

(* The step leaves the flow's firing where it is. *)
Same(f) ==
  /\ StageOf(f)' = StageOf(f) /\ CyclesOf(f)' = CyclesOf(f) /\ AgeOf(f)' = AgeOf(f)
  /\ BrokenOf(f)' = BrokenOf(f) /\ RanOf(f)' = RanOf(f) /\ LiveOf(f)' = LiveOf(f)

LEMMA AgentsSame ==
  ASSUME NEW f \in Flows,
         \A w \in Walks, n \in Nodes : w[1] = f =>
           /\ outcome'[Of(w, n)] = outcome[Of(w, n)]
           /\ phase'[Of(w, n)] = phase[Of(w, n)]
  PROVE  RanOf(f)' = RanOf(f) /\ LiveOf(f)' = LiveOf(f)
<1>1. \A a \in Nodes \X Cycle :
        /\ outcome'[<<f, a[1], a[2]>>] = outcome[<<f, a[1], a[2]>>]
        /\ phase'[<<f, a[1], a[2]>>] = phase[<<f, a[1], a[2]>>]
  <2> SUFFICES ASSUME NEW a \in Nodes \X Cycle
               PROVE  /\ outcome'[<<f, a[1], a[2]>>] = outcome[<<f, a[1], a[2]>>]
                      /\ phase'[<<f, a[1], a[2]>>] = phase[<<f, a[1], a[2]>>]
    OBVIOUS
  <2>1. PICK w \in Walks : w = <<f, a[2]>>
    BY AgentFacts
  <2>2. w[1] = f /\ a[1] \in Nodes /\ <<f, a[1], a[2]>> = Of(w, a[1])
    BY <2>1, AgentFacts
  <2>. QED BY <2>2
<1>. QED BY <1>1 DEF RanOf, LiveOf

LEMMA SameIf ==
  ASSUME NEW f \in Flows, pc'[f] = pc[f], arm'[f] = arm[f],
         pendingArm'[f] = pendingArm[f], cycleNo'[f] = cycleNo[f],
         \A c \in Cycle : <<f, c>> \in thrown' <=> <<f, c>> \in thrown,
         \A w \in Walks, n \in Nodes : w[1] = f =>
           /\ outcome'[Of(w, n)] = outcome[Of(w, n)]
           /\ phase'[Of(w, n)] = phase[Of(w, n)]
  PROVE  Same(f)
<1>1. RanOf(f)' = RanOf(f) /\ LiveOf(f)' = LiveOf(f)
  BY AgentsSame
<1>2. BrokenOf(f)' = BrokenOf(f)
  BY DEF BrokenOf
<1>. QED BY <1>1, <1>2 DEF Same, StageOf, CyclesOf, AgeOf, isRunning, isAwaiting

LEMMA OthersSame ==
  ASSUME Typed, NEW f \in Flows, NEW x, NEW y, NEW z, NEW k,
         pc' = pc \/ pc' = [pc EXCEPT ![f] = x],
         arm' = arm \/ arm' = [arm EXCEPT ![f] = y],
         pendingArm' = pendingArm \/ pendingArm' = [pendingArm EXCEPT ![f] = z],
         cycleNo' = cycleNo \/ cycleNo' = [cycleNo EXCEPT ![f] = k],
         \A w \in Walks : w[1] # f =>
           /\ w \in thrown' <=> w \in thrown
           /\ \A n \in Nodes : /\ outcome'[Of(w, n)] = outcome[Of(w, n)]
                               /\ phase'[Of(w, n)] = phase[Of(w, n)]
  PROVE  \A g \in Flows \ {f} : Same(g)
<1> SUFFICES ASSUME NEW g \in Flows \ {f} PROVE Same(g)
  OBVIOUS
<1>1. /\ pc'[g] = pc[g] /\ arm'[g] = arm[g] /\ pendingArm'[g] = pendingArm[g]
      /\ cycleNo'[g] = cycleNo[g]
  BY TypedFacts
<1>2. \A c \in Cycle : <<g, c>> \in thrown' <=> <<g, c>> \in thrown
  BY DEF Walks
<1>. QED BY <1>1, <1>2, SameIf

LEMMA FiringStutters ==
  ASSUME \A g \in Flows : Same(g), UNCHANGED <<base, spawned>>
  PROVE  UNCHANGED G!vars
BY DEF Same, Stage, Begun, Aged, Broken, Started, Working, G!vars

(* Commands leave every flow's agents alone. *)
LEMMA AllSame ==
  ASSUME UNCHANGED <<pc, arm, pendingArm, cycleNo, thrown, outcome, phase, base, spawned>>
  PROVE  UNCHANGED G!vars
BY SameIf, FiringStutters

LEMMA FiringMoves ==
  ASSUME NEW f \in Flows, \A g \in Flows \ {f} : Same(g),
         NEW from, NEW to, NEW c,
         StageOf(f) = from, StageOf(f)' = to, CyclesOf(f)' = c,
         \A a \in LiveOf(f) : a[2] \in BrokenOf(f),
         RanOf(f)' = {a \in RanOf(f) : a[2] \in BrokenOf(f)},
         LiveOf(f)' = LiveOf(f), BrokenOf(f)' = BrokenOf(f)
  PROVE  G!Move(f, from, to, c)
<1>1. Stage[f] = from /\ \A a \in Working[f] : a[2] \in Broken[f]
  BY DEF Stage, Working, Broken
<1>2. /\ Stage' = [Stage EXCEPT ![f] = to] /\ Begun' = [Begun EXCEPT ![f] = c]
      /\ UNCHANGED <<Broken, Working>>
  BY DEF Same, Stage, Begun, Broken, Working
<1>3. Started' = [Started EXCEPT ![f] = {a \in Started[f] : a[2] \in Broken[f]}]
  <2>1. PICK S : S = {a \in RanOf(f) : a[2] \in BrokenOf(f)}
    OBVIOUS
  <2>2. Started[f] = RanOf(f) /\ Broken[f] = BrokenOf(f)
    BY DEF Started, Broken
  <2>3. Started' = [Started EXCEPT ![f] = S]
    BY <2>1 DEF Same, Started
  <2>. QED BY <2>1, <2>2, <2>3
<1>. QED BY <1>1, <1>2, <1>3 DEF G!Move

LEMMA FiringAges ==
  ASSUME NEW f \in Flows, \A g \in Flows \ {f} : Same(g), AgeOf(f)' = AgeOf(f) + 1
  PROVE  G!NextCycle(f)
BY DEF Same, Aged, G!NextCycle

LEMMA FiringKeepsAge ==
  ASSUME NEW f \in Flows, \A g \in Flows \ {f} : Same(g), AgeOf(f)' = AgeOf(f)
  PROVE  UNCHANGED Aged
BY DEF Same, Aged

(* What a flow has started is of a walk that is alive. *)
LEMMA RanIsAlive ==
  ASSUME EngineInv, NEW f \in Flows, NEW a \in RanOf(f)
  PROVE  a[2] \in BrokenOf(f) \/ (pc[f] = "cycle" /\ <<f, a[2]>> = Current(f))
<1>1. a \in Nodes \X Cycle
  BY DEF RanOf
<1>2. PICK w \in Walks : w = <<f, a[2]>>
  BY <1>1, AgentFacts
<1>3. phase[Of(w, a[1])] # "none" \/ outcome[Of(w, a[1])] # "none"
  BY <1>1, <1>2, AgentFacts DEF RanOf
<1>4. a[1] \in Nodes /\ a[2] \in Cycle /\ w[1] = f
  BY <1>1, <1>2, AgentFacts
<1>5. Alive(w)
  BY <1>3, <1>4 DEF EngineInv, RestInv, SlotInv, OutIsAlive, WalkInv, WalkAt, Cleared
<1>. QED BY <1>2, <1>4, <1>5 DEF Alive, BrokenOf

(* A flow that is not in its cycle has only agents of broken cycles out.    *)
LEMMA OnlyBroken ==
  ASSUME EngineInv, NEW f \in Flows, pc[f] # "cycle"
  PROVE  /\ \A a \in RanOf(f) : a[2] \in BrokenOf(f)
         /\ \A a \in LiveOf(f) : a[2] \in BrokenOf(f)
         /\ RanOf(f) = {a \in RanOf(f) : a[2] \in BrokenOf(f)}
<1>1. \A a \in RanOf(f) : a[2] \in BrokenOf(f)
  BY RanIsAlive
<1>2. LiveOf(f) \subseteq RanOf(f)
  BY DEF LiveOf, RanOf
<1>. QED BY <1>1, <1>2

(* A step that takes a flow out of rest. *)
LEMMA StartMoves ==
  ASSUME EngineInv, NEW f \in Flows, pc[f] = "idle", NEW k \in Nat,
         pc' = [pc EXCEPT ![f] = "start"], arm' = [arm EXCEPT ![f] = k],
         NEW z, pendingArm' = pendingArm \/ pendingArm' = [pendingArm EXCEPT ![f] = z],
         UNCHANGED <<cycleNo, thrown, outcome, phase>>
  PROVE  G!Move(f, StageOf(f), "cycling", k + 1) /\ G!NextCycle(f)
<1>1. Typed
  BY DEF EngineInv
<1>2. \A g \in Flows \ {f} : Same(g)
  BY <1>1, OthersSame
<1>3. pc'[f] = "start" /\ arm'[f] = k /\ cycleNo'[f] = cycleNo[f]
  BY <1>1, TypedFacts
<1>4. /\ StageOf(f)' = "cycling" /\ CyclesOf(f)' = k + 1 /\ AgeOf(f)' = AgeOf(f) + 1
  BY <1>3 DEF StageOf, CyclesOf, AgeOf, isRunning
<1>5. /\ RanOf(f)' = RanOf(f) /\ LiveOf(f)' = LiveOf(f) /\ BrokenOf(f)' = BrokenOf(f)
  BY AgentsSame DEF BrokenOf
<1>6. PICK c : c = k + 1
  OBVIOUS
<1>7. PICK from : from = StageOf(f)
  OBVIOUS
<1>8. G!Move(f, from, "cycling", c)
  BY <1>2, <1>4, <1>5, <1>6, <1>7, OnlyBroken, FiringMoves
<1>. QED BY <1>2, <1>4, <1>6, <1>7, <1>8, FiringAges

LEMMA FireFires ==
  ASSUME EngineInv, NEW f \in Flows, Free(f), FireNow(f),
         UNCHANGED <<pendingArm, cycleNo, thrown, outcome, phase>>
  PROVE  G!Next
<1>1. /\ pc[f] = "idle" /\ ~ isAwaiting(f) /\ pc' = [pc EXCEPT ![f] = "start"]
      /\ arm' = [arm EXCEPT ![f] = 0]
      /\ base' = [base EXCEPT ![f] = cycleNo[f]]
      /\ spawned' = [spawned EXCEPT ![f] = 0]
  BY DEF Free, FireNow, StartCycle, isRunning
<1>2. StageOf(f) = "idle" /\ Aged[f] = cycleNo[f]
  BY <1>1 DEF StageOf, AgeOf, Aged, isRunning
<1>3. G!Move(f, StageOf(f), "cycling", 0 + 1) /\ G!NextCycle(f)
  BY <1>1, StartMoves
<1>4. G!Fire(f)
  BY <1>1, <1>2, <1>3 DEF G!Fire
<1>. QED BY <1>4 DEF G!Next

(* Giving up a checkpoint, if there is one. *)
LEMMA ClearFires ==
  ASSUME EngineInv, NEW f \in Flows, clearAwaiting(f),
         UNCHANGED <<pc, arm, cycleNo, thrown, outcome, phase, base, spawned>>
  PROVE  G!Next \/ UNCHANGED G!vars
<1>0. Typed
  BY DEF EngineInv
<1>1. pendingArm' = [pendingArm EXCEPT ![f] = NoArm]
  BY DEF clearAwaiting
<1>2. \A g \in Flows \ {f} : Same(g)
  BY <1>0, <1>1, OthersSame
<1>3. ~ isAwaiting(f)'
  <2>1. pendingArm \in [Flows -> Nat \cup {NoArm}]
    BY <1>0, TypedFacts
  <2>. QED BY <1>1, <2>1 DEF isAwaiting
<1>4. /\ RanOf(f)' = RanOf(f) /\ LiveOf(f)' = LiveOf(f) /\ BrokenOf(f)' = BrokenOf(f)
      /\ AgeOf(f)' = AgeOf(f)
  BY AgentsSame DEF BrokenOf, AgeOf
<1>5. CASE isAwaiting(f)
  <2>1. pc[f] = "idle"
    BY <1>5 DEF EngineInv, RestInv, AwaitInv
  <2>2. StageOf(f) = "awaiting" /\ StageOf(f)' = "idle" /\ CyclesOf(f)' = 0
    BY <1>3, <1>5, <2>1 DEF StageOf, CyclesOf, isRunning
  <2>3. G!Move(f, "awaiting", "idle", 0)
    BY <1>2, <1>4, <2>1, <2>2, OnlyBroken, FiringMoves
  <2>4. UNCHANGED Aged
    BY <1>2, <1>4, FiringKeepsAge
  <2>. QED BY <2>3, <2>4 DEF G!Drop, G!Next
<1>6. CASE ~ isAwaiting(f)
  <2>1. Same(f)
    BY <1>3, <1>4, <1>6 DEF Same, StageOf, CyclesOf, isRunning
  <2>. QED BY <1>2, <2>1, FiringStutters
<1>. QED BY <1>5, <1>6

LEMMA ResumeFires ==
  ASSUME EngineInv, NEW f \in Flows, isAwaiting(f),
         clearAwaiting(f), StartCycle(f, pendingArm[f]),
         UNCHANGED <<cycleNo, thrown, outcome, phase, base, spawned>>
  PROVE  G!Next
<1>1. /\ pc[f] = "idle" /\ pc' = [pc EXCEPT ![f] = "start"]
      /\ pendingArm[f] \in Nat
      /\ arm' = [arm EXCEPT ![f] = pendingArm[f]]
      /\ pendingArm' = [pendingArm EXCEPT ![f] = NoArm]
  BY TypedFacts DEF EngineInv, RestInv, AwaitInv, StartCycle, clearAwaiting, isAwaiting
<1>2. StageOf(f) = "awaiting" /\ Begun[f] = pendingArm[f]
  BY <1>1 DEF StageOf, CyclesOf, Begun, isRunning
<1>3. G!Move(f, StageOf(f), "cycling", pendingArm[f] + 1) /\ G!NextCycle(f)
  BY <1>1, StartMoves
<1>4. G!Resume(f)
  BY <1>2, <1>3 DEF G!Resume
<1>. QED BY <1>4 DEF G!Next

LEMMA CommandFires ==
  ASSUME EngineInv, NEW f \in Flows, Fire(f) \/ Command(f) \/ KillTail(f)
  PROVE  G!Next \/ UNCHANGED G!vars
<1>1. UNCHANGED <<cycleNo, thrown, outcome, phase>>
  BY DEF Fire, Command, KillTail, RunNow, Play, Pause, Kill, Continue, SaveSpec,
         SetFlowArmed, PlaySwitches, PauseSwitches, KillFlow, vars, cycleVars, runVars
<1> USE DEF stepVars, firingVars
<1>2. CASE Fire(f)
  BY <1>1, <1>2, FireFires DEF Fire
<1>3. CASE RunNow(f)
  <2>1. CASE UNCHANGED <<pc, arm, base, spawned>>
    BY <1>1, <1>3, <2>1, AllSame DEF RunNow
  <2>. QED BY <1>1, <1>3, <2>1, FireFires DEF RunNow
<1>4. CASE Play(f) \/ Kill(f) \/ \E loop \in BOOLEAN : SaveSpec(f, loop)
  BY <1>1, <1>4, AllSame DEF Play, Kill, SaveSpec
<1>5. CASE Pause(f) \/ KillTail(f)
  BY <1>1, <1>5, ClearFires DEF Pause, KillTail
<1>6. CASE Continue(f)
  <2>1. CASE UNCHANGED <<pc, arm, pendingArm>>
    BY <1>1, <1>6, <2>1, AllSame DEF Continue
  <2>. QED BY <1>1, <1>6, <2>1, ResumeFires DEF Continue
<1>. QED BY <1>2, <1>3, <1>4, <1>5, <1>6 DEF Command

(* What the end of a cycle leaves of it. *)
LEMMA EndMoves ==
  ASSUME EngineInv, NEW f \in Flows, CycleOver(f), Forget(Current(f)),
         UNCHANGED <<phase, thrown, cycleNo>>,
         NEW x \in {"idle", "start"}, pc' = [pc EXCEPT ![f] = x],
         NEW y, arm' = [arm EXCEPT ![f] = y],
         NEW z, pendingArm' = pendingArm \/ pendingArm' = [pendingArm EXCEPT ![f] = z]
  PROVE  /\ \A g \in Flows \ {f} : Same(g)
         /\ StageOf(f) = "cycling" /\ CyclesOf(f) = arm[f] + 1 /\ ~ isAwaiting(f)
         /\ AgeOf(f) = cycleNo[f]
         /\ \A a \in LiveOf(f) : a[2] \in BrokenOf(f)
         /\ RanOf(f)' = {a \in RanOf(f) : a[2] \in BrokenOf(f)}
         /\ LiveOf(f)' = LiveOf(f) /\ BrokenOf(f)' = BrokenOf(f)
<1>0. Typed
  BY DEF EngineInv
<1>1. /\ pc[f] = "cycle" /\ Current(f) \in Walks /\ Current(f)[1] = f
      /\ Current(f) \notin thrown
  BY OpenHasWalk DEF EngineInv, RestInv, CycleOver, Joined
<1>2. PICK w \in Walks : w = Current(f)
  BY <1>1
<1>3. w[1] = f /\ w \notin thrown /\ \A n \in Nodes : phase[Of(w, n)] = "none"
  BY <1>1, <1>2 DEF CycleOver, Joined, Busy
<1>4. \A v \in Walks, n \in Nodes :
        outcome'[Of(v, n)] = IF v = w THEN "none" ELSE outcome[Of(v, n)]
  BY <1>2, ForgetFacts
<1>5. \A v \in Walks : v[1] # f =>
        /\ v \in thrown' <=> v \in thrown
        /\ \A n \in Nodes : /\ outcome'[Of(v, n)] = outcome[Of(v, n)]
                            /\ phase'[Of(v, n)] = phase[Of(v, n)]
  BY <1>3, <1>4
<1>6. \A g \in Flows \ {f} : Same(g)
  BY <1>0, <1>5, OthersSame
<1>7. /\ StageOf(f) = "cycling" /\ CyclesOf(f) = arm[f] + 1 /\ ~ isAwaiting(f)
      /\ AgeOf(f) = cycleNo[f]
  BY <1>1 DEF StageOf, CyclesOf, AgeOf, isRunning, EngineInv, RestInv, AwaitInv
<1>8. LiveOf(f)' = LiveOf(f) /\ BrokenOf(f)' = BrokenOf(f)
  BY DEF LiveOf, BrokenOf
<1>9. \A a \in LiveOf(f) : a[2] \in BrokenOf(f)
  <2> SUFFICES ASSUME NEW a \in LiveOf(f) PROVE a[2] \in BrokenOf(f)
    OBVIOUS
  <2>1. a \in RanOf(f) /\ a \in Nodes \X Cycle /\ phase[<<f, a[1], a[2]>>] # "none"
    BY DEF LiveOf, RanOf
  <2>2. a[1] \in Nodes /\ <<f, a[1], a[2]>> = Of(<<f, a[2]>>, a[1])
    BY <2>1, AgentFacts
  <2>3. <<f, a[2]>> # Current(f)
    BY <1>2, <1>3, <2>1, <2>2
  <2>. QED BY <2>1, <2>3, RanIsAlive
<1>10. RanOf(f)' = {a \in RanOf(f) : a[2] \in BrokenOf(f)}
  <2>1. ASSUME NEW a \in Nodes \X Cycle
        PROVE  a \in RanOf(f)' <=> a \in RanOf(f) /\ a[2] \in BrokenOf(f)
    <3>1. PICK v \in Walks : v = <<f, a[2]>>
      BY AgentFacts
    <3>2. a[1] \in Nodes /\ a[2] \in Cycle /\ <<f, a[1], a[2]>> = Of(v, a[1])
      BY <3>1, AgentFacts
    <3>3. /\ a \in RanOf(f) <=> \/ phase[Of(v, a[1])] # "none"
                                \/ outcome[Of(v, a[1])] \in {"ok", "failed", "killed"}
          /\ a \in RanOf(f)' <=> \/ phase'[Of(v, a[1])] # "none"
                                 \/ outcome'[Of(v, a[1])] \in {"ok", "failed", "killed"}
          /\ a[2] \in BrokenOf(f) <=> v \in thrown
      BY <3>1, <3>2 DEF RanOf, BrokenOf
    <3>4. CASE v = w
      BY <1>3, <1>4, <3>2, <3>3, <3>4
    <3>5. CASE v # w
      <4>1. a \in RanOf(f)' <=> a \in RanOf(f)
        BY <1>4, <3>2, <3>3, <3>5
      <4>2. a \in RanOf(f) => a[2] \in BrokenOf(f)
        BY <1>2, <3>1, <3>5, RanIsAlive
      <4>. QED BY <4>1, <4>2
    <3>. QED BY <3>4, <3>5
  <2>2. RanOf(f) \subseteq Nodes \X Cycle /\ RanOf(f)' \subseteq Nodes \X Cycle
    BY DEF RanOf
  <2>. QED BY <2>1, <2>2
<1>. QED BY <1>6, <1>7, <1>8, <1>9, <1>10

LEMMA EndFires ==
  ASSUME EngineInv, NEW f \in Flows, CycleOver(f), UNCHANGED cycleNo,
         NEW s, NEW v, Close(f, s, v), UNCHANGED pendingArm
  PROVE  G!Next
<1>1. /\ pc' = [pc EXCEPT ![f] = "idle"] /\ arm' = [arm EXCEPT ![f] = 0]
      /\ UNCHANGED <<phase, thrown, base, spawned>> /\ Forget(Current(f))
  BY DEF Close, firingVars
<1>2. /\ \A g \in Flows \ {f} : Same(g)
      /\ StageOf(f) = "cycling" /\ ~ isAwaiting(f) /\ AgeOf(f) = cycleNo[f]
      /\ \A a \in LiveOf(f) : a[2] \in BrokenOf(f)
      /\ RanOf(f)' = {a \in RanOf(f) : a[2] \in BrokenOf(f)}
      /\ LiveOf(f)' = LiveOf(f) /\ BrokenOf(f)' = BrokenOf(f)
  BY <1>1, EndMoves
<1>3. pc'[f] = "idle"
  BY <1>1, TypedFacts DEF EngineInv
<1>4. StageOf(f)' = "idle" /\ CyclesOf(f)' = 0 /\ AgeOf(f)' = AgeOf(f)
  BY <1>2, <1>3 DEF StageOf, CyclesOf, AgeOf, isRunning, isAwaiting
<1>5. G!Move(f, "cycling", "idle", 0)
  BY <1>2, <1>4, FiringMoves
<1>6. UNCHANGED Aged
  BY <1>2, <1>4, FiringKeepsAge
<1>. QED BY <1>1, <1>5, <1>6 DEF G!Finish, G!Next

LEMMA HoldFires ==
  ASSUME EngineInv, NEW f \in Flows, EndAwaiting(f)
  PROVE  G!Next
<1>1. /\ CycleOver(f) /\ Forget(Current(f))
      /\ UNCHANGED <<phase, thrown, cycleNo, base, spawned>>
      /\ pc' = [pc EXCEPT ![f] = "idle"] /\ arm' = [arm EXCEPT ![f] = 0]
      /\ pendingArm' = [pendingArm EXCEPT ![f] = arm[f] + 1]
      /\ ~ GateStops(f, arm[f])
  BY DEF EndAwaiting, Gated, SettleCycle, Close, firingVars
<1>2. /\ \A g \in Flows \ {f} : Same(g)
      /\ StageOf(f) = "cycling" /\ CyclesOf(f) = arm[f] + 1 /\ AgeOf(f) = cycleNo[f]
      /\ \A a \in LiveOf(f) : a[2] \in BrokenOf(f)
      /\ RanOf(f)' = {a \in RanOf(f) : a[2] \in BrokenOf(f)}
      /\ LiveOf(f)' = LiveOf(f) /\ BrokenOf(f)' = BrokenOf(f)
  BY <1>1, EndMoves
<1>3. arm[f] \in Nat /\ arm[f] + 1 < MaxCyclesPerArm[f]
  BY <1>1, PlanFacts, TypedFacts DEF GateStops, EngineInv
<1>4. pc'[f] = "idle" /\ pendingArm'[f] = arm[f] + 1
  <2>1. pendingArm \in [Flows -> Nat \cup {NoArm}] /\ pc \in [Flows -> {"idle", "start", "cycle"}]
    BY TypedFacts DEF EngineInv
  <2>. QED BY <1>1, <2>1
<1>5. StageOf(f)' = "awaiting" /\ CyclesOf(f)' = arm[f] + 1 /\ AgeOf(f)' = AgeOf(f)
  BY <1>1, <1>2, <1>3, <1>4 DEF StageOf, CyclesOf, AgeOf, isRunning, isAwaiting, NoArm
<1>6. PICK c : c = arm[f] + 1
  OBVIOUS
<1>7. G!Move(f, "cycling", "awaiting", c)
  BY <1>2, <1>5, <1>6, FiringMoves
<1>8. UNCHANGED Aged
  BY <1>2, <1>5, FiringKeepsAge
<1>9. Begun[f] = c
  BY <1>2, <1>6 DEF Begun
<1>10. G!Hold(f)
  BY <1>1, <1>3, <1>6, <1>7, <1>8, <1>9 DEF G!Hold
<1>. QED BY <1>10 DEF G!Next

LEMMA RearmFires ==
  ASSUME EngineInv, NEW f \in Flows, Rearm(f)
  PROVE  G!Next
<1>1. /\ CycleOver(f) /\ Forget(Current(f))
      /\ UNCHANGED <<phase, thrown, cycleNo, base, spawned, pendingArm>>
      /\ pc' = [pc EXCEPT ![f] = "start"]
      /\ arm' = [arm EXCEPT ![f] = arm[f] + 1]
      /\ ~ GateStops(f, arm[f])
  BY DEF Rearm, Gated, SettleCycle, StartCycle, firingVars
<1>2. /\ \A g \in Flows \ {f} : Same(g)
      /\ StageOf(f) = "cycling" /\ CyclesOf(f) = arm[f] + 1 /\ AgeOf(f) = cycleNo[f]
      /\ \A a \in LiveOf(f) : a[2] \in BrokenOf(f)
      /\ RanOf(f)' = {a \in RanOf(f) : a[2] \in BrokenOf(f)}
      /\ LiveOf(f)' = LiveOf(f) /\ BrokenOf(f)' = BrokenOf(f)
  BY <1>1, EndMoves
<1>3. arm[f] \in Nat /\ arm[f] + 1 < MaxCyclesPerArm[f]
  BY <1>1, PlanFacts, TypedFacts DEF GateStops, EngineInv
<1>4. pc'[f] = "start" /\ arm'[f] = arm[f] + 1
  BY <1>1, TypedFacts DEF EngineInv
<1>5. StageOf(f)' = "cycling" /\ CyclesOf(f)' = (arm[f] + 1) + 1 /\ AgeOf(f)' = AgeOf(f) + 1
  BY <1>1, <1>2, <1>4 DEF StageOf, CyclesOf, AgeOf, isRunning
<1>6. PICK c : c = arm[f] + 1
  OBVIOUS
<1>7. G!Move(f, "cycling", "cycling", c + 1)
  BY <1>2, <1>5, <1>6, FiringMoves
<1>8. G!NextCycle(f)
  BY <1>2, <1>5, FiringAges
<1>9. Begun[f] = c
  BY <1>2, <1>6 DEF Begun
<1>10. G!Again(f)
  BY <1>1, <1>3, <1>6, <1>7, <1>8, <1>9 DEF G!Again
<1>. QED BY <1>10 DEF G!Next

(* A cycle that is thrown. *)
LEMMA RejectFires ==
  ASSUME EngineInv, NEW f \in Flows, pc[f] = "cycle", Reject(f)
  PROVE  G!Next
<1>0. Typed
  BY DEF EngineInv
<1>1. /\ pc' = [pc EXCEPT ![f] = "idle"] /\ arm' = [arm EXCEPT ![f] = 0]
      /\ thrown' = thrown \cup {Current(f)}
      /\ UNCHANGED <<pendingArm, cycleNo, outcome, phase, base, spawned>>
  BY DEF Reject, EndCycleUnsettled, runVars, firingVars
<1>2. Current(f)[1] = f /\ Current(f) = <<f, cycleNo[f]>> /\ cycleNo[f] \in Cycle
  BY OpenHasWalk DEF EngineInv, RestInv, Current, Walks
<1>3. \A g \in Flows \ {f} : Same(g)
  BY <1>0, <1>1, <1>2, OthersSame
<1>4. /\ pc'[f] = "idle" /\ ~ isAwaiting(f)
  BY <1>0, <1>1, TypedFacts DEF EngineInv, RestInv, AwaitInv
<1>5. /\ StageOf(f) = "cycling" /\ StageOf(f)' = "idle" /\ CyclesOf(f)' = 0
      /\ AgeOf(f) = cycleNo[f] /\ AgeOf(f)' = cycleNo[f]
  BY <1>1, <1>4 DEF StageOf, CyclesOf, AgeOf, isRunning, isAwaiting
<1>6. RanOf(f)' = RanOf(f) /\ LiveOf(f)' = LiveOf(f)
  BY <1>1, AgentsSame
<1>7. BrokenOf(f)' = BrokenOf(f) \cup {AgeOf(f)}
  BY <1>1, <1>2, <1>5 DEF BrokenOf
<1>8. UNCHANGED <<Aged, Started, Working>>
  BY <1>3, <1>5, <1>6 DEF Same, Aged, Started, Working
<1>9. /\ Stage[f] = "cycling" /\ Stage' = [Stage EXCEPT ![f] = "idle"]
      /\ Begun' = [Begun EXCEPT ![f] = 0]
  BY <1>3, <1>5 DEF Same, Stage, Begun
<1>10. Broken' = [Broken EXCEPT ![f] = @ \cup {Aged[f]}]
  BY <1>3, <1>7 DEF Same, Broken, Aged
<1>11. G!Break(f)
  BY <1>1, <1>8, <1>9, <1>10 DEF G!Break
<1>. QED BY <1>11 DEF G!Next

(* One run changes: the agents of other flows, and of other walks, do not.  *)
LEMMA OneRunSame ==
  ASSUME Typed, NEW w \in Walks, NEW n \in Nodes,
         UNCHANGED <<pc, arm, pendingArm, cycleNo, thrown>>,
         \A v \in Walks, m \in Nodes : ~ (v = w /\ m = n) =>
           /\ outcome'[Of(v, m)] = outcome[Of(v, m)]
           /\ phase'[Of(v, m)] = phase[Of(v, m)]
  PROVE  /\ \A g \in Flows \ {w[1]} : Same(g)
         /\ /\ StageOf(w[1])' = StageOf(w[1]) /\ CyclesOf(w[1])' = CyclesOf(w[1])
            /\ AgeOf(w[1])' = AgeOf(w[1]) /\ BrokenOf(w[1])' = BrokenOf(w[1])
         /\ \A a \in Nodes \X Cycle : a # <<n, w[2]>> =>
              /\ a \in RanOf(w[1])' <=> a \in RanOf(w[1])
              /\ a \in LiveOf(w[1])' <=> a \in LiveOf(w[1])
         /\ <<n, w[2]>> \in Nodes \X Cycle
         /\ /\ <<n, w[2]>> \in LiveOf(w[1]) <=> phase[Of(w, n)] # "none"
            /\ <<n, w[2]>> \in LiveOf(w[1])' <=> phase'[Of(w, n)] # "none"
            /\ <<n, w[2]>> \in RanOf(w[1]) <=>
                 \/ phase[Of(w, n)] # "none"
                 \/ outcome[Of(w, n)] \in {"ok", "failed", "killed"}
            /\ <<n, w[2]>> \in RanOf(w[1])' <=>
                 \/ phase'[Of(w, n)] # "none"
                 \/ outcome'[Of(w, n)] \in {"ok", "failed", "killed"}
<1>1. w[1] \in Flows /\ w[2] \in Cycle /\ w = <<w[1], w[2]>>
  BY WalkFacts
<1>2. \A g \in Flows \ {w[1]} : Same(g)
  BY <1>1, OthersSame
<1>3. /\ StageOf(w[1])' = StageOf(w[1]) /\ CyclesOf(w[1])' = CyclesOf(w[1])
      /\ AgeOf(w[1])' = AgeOf(w[1]) /\ BrokenOf(w[1])' = BrokenOf(w[1])
  BY DEF StageOf, CyclesOf, AgeOf, BrokenOf, isRunning, isAwaiting
<1>4. ASSUME NEW a \in Nodes \X Cycle, a # <<n, w[2]>>
      PROVE  /\ a \in RanOf(w[1])' <=> a \in RanOf(w[1])
             /\ a \in LiveOf(w[1])' <=> a \in LiveOf(w[1])
  <2>1. PICK v \in Walks : v = <<w[1], a[2]>>
    BY <1>1, AgentFacts
  <2>2. /\ a[1] \in Nodes /\ <<w[1], a[1], a[2]>> = Of(v, a[1])
        /\ a = <<a[1], a[2]>>
    BY <1>1, <2>1, AgentFacts
  <2>3. ~ (v = w /\ a[1] = n)
    BY <1>1, <1>4, <2>1, <2>2
  <2>4. /\ outcome'[<<w[1], a[1], a[2]>>] = outcome[<<w[1], a[1], a[2]>>]
        /\ phase'[<<w[1], a[1], a[2]>>] = phase[<<w[1], a[1], a[2]>>]
    BY <2>2, <2>3
  <2>. QED BY <2>4 DEF RanOf, LiveOf
<1>5. <<n, w[2]>> \in Nodes \X Cycle /\ Of(w, n) = <<w[1], n, w[2]>>
  BY <1>1 DEF Of
<1>6. /\ <<n, w[2]>> \in LiveOf(w[1]) <=> phase[Of(w, n)] # "none"
      /\ <<n, w[2]>> \in LiveOf(w[1])' <=> phase'[Of(w, n)] # "none"
      /\ <<n, w[2]>> \in RanOf(w[1]) <=>
           \/ phase[Of(w, n)] # "none"
           \/ outcome[Of(w, n)] \in {"ok", "failed", "killed"}
      /\ <<n, w[2]>> \in RanOf(w[1])' <=>
           \/ phase'[Of(w, n)] # "none"
           \/ outcome'[Of(w, n)] \in {"ok", "failed", "killed"}
  BY <1>5 DEF RanOf, LiveOf
<1>. QED BY <1>2, <1>3, <1>4, <1>5, <1>6

LEMMA InAgents ==
  ASSUME NEW f \in Flows
  PROVE  /\ RanOf(f) \subseteq Nodes \X Cycle /\ RanOf(f)' \subseteq Nodes \X Cycle
         /\ LiveOf(f) \subseteq Nodes \X Cycle /\ LiveOf(f)' \subseteq Nodes \X Cycle
BY DEF RanOf, LiveOf

(* A run moves on, or a node is skipped that has not been started. *)
LEMMA RunStutters ==
  ASSUME Typed, NEW w \in Walks, NEW n \in Nodes,
         UNCHANGED <<pc, arm, pendingArm, cycleNo, thrown, base, spawned>>,
         \A v \in Walks, m \in Nodes : ~ (v = w /\ m = n) =>
           /\ outcome'[Of(v, m)] = outcome[Of(v, m)]
           /\ phase'[Of(v, m)] = phase[Of(v, m)],
         phase'[Of(w, n)] # "none" <=> phase[Of(w, n)] # "none",
         \/ phase[Of(w, n)] # "none"
         \/ (outcome'[Of(w, n)] \in {"ok", "failed", "killed"}
               <=> outcome[Of(w, n)] \in {"ok", "failed", "killed"})
  PROVE  UNCHANGED G!vars
<1>1. w[1] \in Flows
  BY WalkFacts
<1>2. ASSUME NEW a \in Nodes \X Cycle
      PROVE  /\ a \in RanOf(w[1])' <=> a \in RanOf(w[1])
             /\ a \in LiveOf(w[1])' <=> a \in LiveOf(w[1])
  <2>1. CASE a # <<n, w[2]>>
    BY <2>1, OneRunSame
  <2>2. CASE a = <<n, w[2]>>
    <3>1. /\ a \in LiveOf(w[1]) <=> phase[Of(w, n)] # "none"
          /\ a \in LiveOf(w[1])' <=> phase'[Of(w, n)] # "none"
      BY <2>2, OneRunSame
    <3>2. /\ a \in RanOf(w[1]) <=>
               \/ phase[Of(w, n)] # "none"
               \/ outcome[Of(w, n)] \in {"ok", "failed", "killed"}
          /\ a \in RanOf(w[1])' <=>
               \/ phase'[Of(w, n)] # "none"
               \/ outcome'[Of(w, n)] \in {"ok", "failed", "killed"}
      BY <2>2, OneRunSame
    <3>. QED BY <3>1, <3>2
  <2>. QED BY <2>1, <2>2
<1>3. RanOf(w[1])' = RanOf(w[1]) /\ LiveOf(w[1])' = LiveOf(w[1])
  BY <1>1, <1>2, InAgents
<1>4. Same(w[1])
  BY <1>3, OneRunSame DEF Same
<1>5. \A g \in Flows : Same(g)
  BY <1>4, OneRunSame
<1>. QED BY <1>5, FiringStutters

(* A node taken by a worker: started, or denied and skipped. *)
LEMMA TakeFires ==
  ASSUME EngineInv, NEW w \in Walks, NEW n \in Nodes, TakeNode(w, n)
  PROVE  G!Next \/ UNCHANGED G!vars
<1>1. /\ Typed /\ n \in todo[w]
      /\ UNCHANGED <<pc, arm, pendingArm, cycleNo, thrown, base>>
  BY DEF EngineInv, TakeNode, CanTake, RequestSpawn, vars, cycleVars
<1>2. phase[Of(w, n)] = "none" /\ outcome[Of(w, n)] = "none" /\ Alive(w)
  BY <1>1 DEF EngineInv, WalkInv, WalkAt, Underway, QueuedOrOut, Cleared
<1>3. phase \in [Runs -> Phases] /\ outcome \in [Runs -> Outcomes]
  BY <1>1, TypedFacts
<1>4. CASE outcome' = [outcome EXCEPT ![Of(w, n)] = "skipped"]
           /\ UNCHANGED <<phase, spawned>>
  <2>1. /\ \A v \in Walks, m \in Nodes : ~ (v = w /\ m = n) =>
             outcome'[Of(v, m)] = outcome[Of(v, m)]
        /\ outcome'[Of(w, n)] = "skipped"
    BY <1>3, <1>4, OfFacts
  <2>. QED BY <1>1, <1>2, <1>4, <2>1, RunStutters
<1>5. CASE /\ \E to \in {"admitted", "lost"} : phase' = [phase EXCEPT ![Of(w, n)] = to]
           /\ CountRun(w) /\ UNCHANGED outcome
  <2>1. PICK f \in Flows : f = w[1]
    BY WalkFacts
  <2>2. PICK a \in Nodes \X Cycle : a = <<n, w[2]>>
    BY WalkFacts
  <2>3. w[2] \in Cycle /\ w = <<f, w[2]>> /\ a[2] = w[2]
    BY <2>1, <2>2, WalkFacts
  <2>4. /\ \A v \in Walks, m \in Nodes : ~ (v = w /\ m = n) =>
             phase'[Of(v, m)] = phase[Of(v, m)]
        /\ phase'[Of(w, n)] # "none"
    BY <1>3, <1>5, OfFacts
  <2>5. /\ \A g \in Flows \ {f} : Same(g)
        /\ StageOf(f)' = StageOf(f) /\ CyclesOf(f)' = CyclesOf(f)
        /\ AgeOf(f)' = AgeOf(f) /\ BrokenOf(f)' = BrokenOf(f)
        /\ \A b \in Nodes \X Cycle : b # a =>
             /\ b \in RanOf(f)' <=> b \in RanOf(f)
             /\ b \in LiveOf(f)' <=> b \in LiveOf(f)
        /\ a \in LiveOf(f)' /\ a \in RanOf(f)' /\ a \notin RanOf(f)
    BY <1>1, <1>2, <1>5, <2>1, <2>2, <2>4, OneRunSame
  <2>6. RanOf(f)' = RanOf(f) \cup {a} /\ LiveOf(f)' = LiveOf(f) \cup {a}
    BY <2>5, InAgents
  <2>7. \/ StageOf(f) = "cycling" /\ a[2] = AgeOf(f)
        \/ a[2] \in BrokenOf(f)
    <3>1. CASE w \in thrown
      BY <2>3, <3>1 DEF BrokenOf
    <3>2. CASE pc[f] = "cycle" /\ w = Current(f)
      <4>1. w[2] = cycleNo[f]
        BY <3>2 DEF Current
      <4>. QED BY <2>3, <3>2, <4>1 DEF StageOf, AgeOf, isRunning
    <3>. QED BY <1>2, <2>1, <3>1, <3>2 DEF Alive
  <2>8. a[2] \in 1 .. AgeOf(f)
    <3>1. w[2] <= cycleNo[f] /\ cycleNo[f] \in Nat /\ w[2] \in Nat /\ w[2] >= 1
      <4>1. w[2] \in Nat /\ w[2] >= 1 /\ cycleNo[f] \in Nat
        BY <1>1, <2>3, PlanFacts, TypedFacts DEF Cycle
      <4>2. CASE w \in thrown
        BY <2>1, <4>1, <4>2 DEF EngineInv, RestInv, SlotInv, ThrownIsPast
      <4>3. CASE w = Current(f)
        BY <2>1, <4>1, <4>3, WalkFacts DEF Current
      <4>. QED BY <1>2, <2>1, <4>1, <4>2, <4>3 DEF Alive
    <3>. QED BY <2>3, <3>1 DEF AgeOf
  <2>9. /\ a \in (Nodes \X (1 .. Aged[f])) \ Started[f]
        /\ (Stage[f] = "cycling" /\ a[2] = Aged[f]) \/ a[2] \in Broken[f]
    BY <2>2, <2>3, <2>5, <2>7, <2>8, WalkFacts DEF Stage, Aged, Broken, Started
  <2>10. /\ Started' = [Started EXCEPT ![f] = @ \cup {a}]
         /\ Working' = [Working EXCEPT ![f] = @ \cup {a}]
    BY <2>5, <2>6 DEF Same, Started, Working
  <2>11. UNCHANGED <<Stage, Begun, Aged, Broken>>
    BY <2>5 DEF Same, Stage, Begun, Aged, Broken
  <2>12. spawned' = [spawned EXCEPT ![f] = IF a[2] > base[f] THEN @ + 1 ELSE @]
    BY <1>5, <2>1, <2>3 DEF CountRun
  <2>13. G!Spawn(f, a)
    BY <1>1, <2>9, <2>10, <2>11, <2>12 DEF G!Spawn
  <2>. QED BY <2>9, <2>13 DEF G!Next
<1>. QED BY <1>4, <1>5 DEF TakeNode

LEMMA BeginFires ==
  ASSUME EngineInv, NEW f \in Flows, Begin(f)
  PROVE  UNCHANGED G!vars
<1>1. /\ pc[f] = "start" /\ pc' = [pc EXCEPT ![f] = "cycle"]
      /\ cycleNo' = [cycleNo EXCEPT ![f] = @ + 1]
      /\ UNCHANGED <<arm, pendingArm, outcome, phase, thrown, base, spawned>>
  BY DEF Begin, BeginCycle, runVars, firingVars
<1>2. \A g \in Flows \ {f} : Same(g)
  BY <1>1, OthersSame DEF EngineInv
<1>3. pc'[f] = "cycle" /\ cycleNo'[f] = cycleNo[f] + 1
  BY <1>1, TypedFacts DEF EngineInv
<1>4. /\ RanOf(f)' = RanOf(f) /\ LiveOf(f)' = LiveOf(f) /\ BrokenOf(f)' = BrokenOf(f)
  BY <1>1, AgentsSame DEF BrokenOf
<1>5. Same(f)
  BY <1>1, <1>3, <1>4 DEF Same, StageOf, CyclesOf, AgeOf, isRunning, isAwaiting
<1>. QED BY <1>1, <1>2, <1>5, FiringStutters

(* A node the barrier turns down had not been started. *)
LEMMA ResolveFires ==
  ASSUME EngineInv, NEW f \in Flows, ResolveLayer(f)
  PROVE  UNCHANGED G!vars
<1>1. /\ MoreLayers(f) /\ Typed
      /\ UNCHANGED <<pc, arm, pendingArm, cycleNo, thrown, phase, base, spawned>>
  BY DEF ResolveLayer, vars, cycleVars, firingVars, EngineInv
<1>2. PICK w \in Walks : w = Current(f) /\ w[1] = f
  BY <1>1, OpenHasWalk DEF EngineInv, RestInv, MoreLayers, Joined
<1>3. /\ NextLayer(f) \subseteq Nodes
      /\ \A n \in NextLayer(f) : outcome[Of(w, n)] = "none"
  <2>1. layer[w] \in Nat /\ layer[w] < Len(Layers[w[1]])
    BY <1>1, <1>2, TypedFacts DEF MoreLayers, LayersLeft
  <2>2. PICK l : l = layer[w] + 1
    OBVIOUS
  <2>3. l \in 1 .. Len(Layers[w[1]]) /\ l > layer[w]
    BY <2>1, <2>2, LayerFacts
  <2>4. NextLayer(f) = Layers[w[1]][l]
    BY <1>2, <2>2 DEF NextLayer
  <2>. QED BY <2>3, <2>4, LayerFacts DEF EngineInv, WalkInv, WalkAt, Ahead
<1>4. ASSUME NEW v \in Walks, NEW n \in Nodes
      PROVE  \/ outcome'[Of(v, n)] = outcome[Of(v, n)]
             \/ v = w /\ outcome'[Of(v, n)] = "skipped" /\ outcome[Of(v, n)] = "none"
  <2>1. PICK S : S = {Of(w, m) : m \in {m \in NextLayer(f) : ~ Barrier(w, m)}}
    OBVIOUS
  <2>2. outcome' = [r \in Runs |-> IF r \in S THEN "skipped" ELSE outcome[r]]
    BY <1>2, <2>1 DEF ResolveLayer
  <2>3. Of(v, n) \in S => v = w /\ n \in NextLayer(f)
    BY <1>3, <2>1, OfFacts
  <2>. QED BY <1>3, <2>2, <2>3, OfFacts
<1>5. \A g \in Flows \ {f} : Same(g)
  <2>1. \A v \in Walks : v[1] # f =>
          /\ v \in thrown' <=> v \in thrown
          /\ \A n \in Nodes : /\ outcome'[Of(v, n)] = outcome[Of(v, n)]
                              /\ phase'[Of(v, n)] = phase[Of(v, n)]
    BY <1>1, <1>2, <1>4
  <2>. QED BY <1>1, <2>1, OthersSame
<1>6. RanOf(f)' = RanOf(f)
  <2> SUFFICES ASSUME NEW a \in Nodes \X Cycle
               PROVE  a \in RanOf(f)' <=> a \in RanOf(f)
    BY InAgents
  <2>1. PICK v \in Walks : v = <<f, a[2]>>
    BY AgentFacts
  <2>2. a[1] \in Nodes /\ <<f, a[1], a[2]>> = Of(v, a[1])
    BY <2>1, AgentFacts
  <2>3. outcome'[<<f, a[1], a[2]>>] \in {"ok", "failed", "killed"}
          <=> outcome[<<f, a[1], a[2]>>] \in {"ok", "failed", "killed"}
    BY <1>4, <2>2
  <2>. QED BY <1>1, <2>3 DEF RanOf
<1>7. Same(f)
  BY <1>1, <1>6 DEF Same, StageOf, CyclesOf, AgeOf, BrokenOf, LiveOf, isRunning,
                    isAwaiting
<1>. QED BY <1>1, <1>5, <1>7, FiringStutters

LEMMA AdvanceFires ==
  ASSUME EngineInv, NEW f \in Flows, Advance(f)
  PROVE  G!Next \/ UNCHANGED G!vars
<1>1. CASE EndKilled(f) \/ EndDone(f) \/ EndStopped(f) \/ EndConverged(f)
  <2>1. /\ CycleOver(f) /\ UNCHANGED <<pendingArm, cycleNo>>
        /\ \E s, v : Close(f, s, v)
    BY <1>1 DEF EndKilled, EndDone, EndStopped, EndConverged, Gated,
                EndCycleUnsettled, SettleCycle
  <2>. QED BY <2>1, EndFires
<1>2. CASE LayerFails(f) \/ BarrierFails(f)
  BY <1>2, RejectFires DEF LayerFails, BarrierFails, Rejecting, MoreLayers, Joined
<1>3. ASSUME NEW c \in Cycle, NEW n \in Nodes, TakeNode(<<f, c>>, n)
      PROVE  G!Next \/ UNCHANGED G!vars
  <2>1. <<f, c>> \in Walks
    BY DEF Walks
  <2>. QED BY <1>3, <2>1, TakeFires
<1>. QED BY <1>1, <1>2, <1>3, BeginFires, ResolveFires, HoldFires, RearmFires
         DEF Advance

(* A run moves on. *)
LEMMA MoveFires ==
  ASSUME Typed, NEW w \in Walks, NEW n \in Nodes, NEW from, NEW to,
         from # "none", to # "none", MovePhase(Of(w, n), from, to),
         UNCHANGED <<pc, arm, pendingArm, cycleNo, thrown, outcome, base, spawned>>
  PROVE  UNCHANGED G!vars
<1>1. phase \in [Runs -> Phases]
  BY TypedFacts
<1>2. /\ phase[Of(w, n)] # "none" /\ phase'[Of(w, n)] # "none"
      /\ \A v \in Walks, m \in Nodes : ~ (v = w /\ m = n) =>
           phase'[Of(v, m)] = phase[Of(v, m)]
  BY <1>1, OfFacts DEF MovePhase
<1>. QED BY <1>2, RunStutters

LEMMA FinishFires ==
  ASSUME EngineInv, NEW w \in Walks, NEW n \in Nodes,
         NEW from, from # "none", NEW s \in {"ok", "failed", "killed"}, NEW final,
         Finish(w, n, from, s, final)
  PROVE  G!Next
<1>1. /\ phase[Of(w, n)] # "none" /\ phase' = [phase EXCEPT ![Of(w, n)] = "none"]
      /\ outcome' = [outcome EXCEPT ![Of(w, n)] = s] /\ Typed
      /\ UNCHANGED <<pc, arm, pendingArm, cycleNo, thrown, base, spawned>>
  BY DEF Finish, MovePhase, Conclude, ReleaseLease, cycleVars, stepVars, firingVars,
         EngineInv
<1>2. /\ \A v \in Walks, m \in Nodes : ~ (v = w /\ m = n) =>
           /\ outcome'[Of(v, m)] = outcome[Of(v, m)]
           /\ phase'[Of(v, m)] = phase[Of(v, m)]
      /\ phase'[Of(w, n)] = "none" /\ outcome'[Of(w, n)] = s
  <2>1. phase \in [Runs -> Phases] /\ outcome \in [Runs -> Outcomes]
    BY <1>1, TypedFacts
  <2>. QED BY <1>1, <2>1, OfFacts
<1>3. PICK f \in Flows : f = w[1]
  BY WalkFacts
<1>4. PICK a \in Nodes \X Cycle : a = <<n, w[2]>>
  BY WalkFacts
<1>5. /\ \A g \in Flows \ {f} : Same(g)
      /\ StageOf(f)' = StageOf(f) /\ CyclesOf(f)' = CyclesOf(f)
      /\ AgeOf(f)' = AgeOf(f) /\ BrokenOf(f)' = BrokenOf(f)
      /\ \A b \in Nodes \X Cycle : b # a =>
           /\ b \in RanOf(f)' <=> b \in RanOf(f)
           /\ b \in LiveOf(f)' <=> b \in LiveOf(f)
      /\ a \in LiveOf(f) /\ a \notin LiveOf(f)' /\ a \in RanOf(f) /\ a \in RanOf(f)'
  <2>1. /\ \A g \in Flows \ {f} : Same(g)
        /\ StageOf(f)' = StageOf(f) /\ CyclesOf(f)' = CyclesOf(f)
        /\ AgeOf(f)' = AgeOf(f) /\ BrokenOf(f)' = BrokenOf(f)
    BY <1>1, <1>2, <1>3, OneRunSame
  <2>2. ASSUME NEW b \in Nodes \X Cycle, b # a
        PROVE  /\ b \in RanOf(f)' <=> b \in RanOf(f)
               /\ b \in LiveOf(f)' <=> b \in LiveOf(f)
    BY <1>1, <1>2, <1>3, <1>4, <2>2, OneRunSame
  <2>3. /\ a \in LiveOf(f) <=> phase[Of(w, n)] # "none"
        /\ a \in LiveOf(f)' <=> phase'[Of(w, n)] # "none"
    BY <1>1, <1>2, <1>3, <1>4, OneRunSame
  <2>4. /\ a \in RanOf(f) <=> \/ phase[Of(w, n)] # "none"
                               \/ outcome[Of(w, n)] \in {"ok", "failed", "killed"}
        /\ a \in RanOf(f)' <=> \/ phase'[Of(w, n)] # "none"
                                \/ outcome'[Of(w, n)] \in {"ok", "failed", "killed"}
    BY <1>1, <1>2, <1>3, <1>4, OneRunSame
  <2>. QED BY <1>1, <1>2, <2>1, <2>2, <2>3, <2>4
<1>6. RanOf(f)' = RanOf(f) /\ LiveOf(f)' = LiveOf(f) \ {a}
  <2>1. RanOf(f)' = RanOf(f)
    <3>1. \A b \in Nodes \X Cycle : b \in RanOf(f)' <=> b \in RanOf(f)
      BY <1>5
    <3>. QED BY <3>1, InAgents
  <2>2. LiveOf(f)' = LiveOf(f) \ {a}
    <3>1. \A b \in Nodes \X Cycle : b \in LiveOf(f)' <=> b \in LiveOf(f) /\ b # a
      BY <1>5
    <3>. QED BY <3>1, InAgents
  <2>. QED BY <2>1, <2>2
<1>7. Working' = [Working EXCEPT ![f] = @ \ {a}] /\ a \in Working[f]
  BY <1>5, <1>6 DEF Same, Working
<1>8. UNCHANGED <<Stage, Begun, Aged, Broken, Started>>
  BY <1>5, <1>6 DEF Same, Stage, Begun, Aged, Broken, Started
<1>9. G!Settle(f, a)
  BY <1>1, <1>7, <1>8 DEF G!Settle
<1>. QED BY <1>7, <1>9 DEF G!Next

LEMMA RunFires ==
  ASSUME EngineInv, NEW w \in Walks, NEW n \in Nodes,
         RunStep(w, n) \/ \E h \in Hashes : AgentWrites(w, n, h)
  PROVE  G!Next \/ UNCHANGED G!vars
<1>0. Typed
  BY DEF EngineInv
<1>1. UNCHANGED <<pc, arm, pendingArm, cycleNo, thrown, base, spawned>>
  BY DEF RunStep, StartRun, PromptFails, FakeWrites, FakeWriteRefused, FakeMeters,
         FinishFake, FinishDoomed, FinishReal, Finish, AgentWrites, OnlyPhaseMoves,
         MeterTripsRun, MeterKillsFlow, MeterOnly, AddUsage, ReleaseLease,
         FoldArtifactHash, vars, cycleVars, stepVars, firingVars
<1>2. CASE StartRun(w, n)
  BY <1>0, <1>1, <1>2, MoveFires DEF StartRun, OnlyPhaseMoves
<1>3. CASE PromptFails(w, n)
  BY <1>0, <1>1, <1>3, MoveFires DEF PromptFails, OnlyPhaseMoves
<1>4. ASSUME NEW h \in Hashes, FakeWrites(w, n, h) PROVE UNCHANGED G!vars
  BY <1>0, <1>1, <1>4, MoveFires DEF FakeWrites
<1>5. CASE FakeWriteRefused(w, n)
  BY <1>0, <1>1, <1>5, MoveFires DEF FakeWriteRefused, OnlyPhaseMoves
<1>6. ASSUME NEW d \in Deltas, FakeMeters(w, n, d) PROVE UNCHANGED G!vars
  BY <1>0, <1>1, <1>6, MoveFires DEF FakeMeters
<1>7. ASSUME NEW h \in Hashes, AgentWrites(w, n, h) PROVE UNCHANGED G!vars
  BY <1>1, <1>7, AllSame DEF AgentWrites
<1>8. CASE FinishFake(w, n) \/ FinishDoomed(w, n)
  BY <1>8, FinishFires DEF FinishFake, FinishDoomed
<1>9. ASSUME NEW s \in {"ok", "failed", "killed"}, FinishReal(w, n, s)
      PROVE  G!Next
  BY <1>9, FinishFires DEF FinishReal
<1>. QED BY <1>2, <1>3, <1>4, <1>5, <1>6, <1>7, <1>8, <1>9 DEF RunStep

LEMMA StepFires ==
  ASSUME EngineInv, [OrchestratorNext]_allVars
  PROVE  [G!Next]_G!vars
<1>1. CASE UNCHANGED allVars
  BY <1>1, AllSame DEF allVars, vars, cycleVars, loopVars, stepVars, runVars, firingVars
<1>2. CASE OrchestratorNext
  BY <1>2, CommandFires, AdvanceFires, RunFires DEF OrchestratorNext
<1>. QED BY <1>1, <1>2

LEMMA InitFires == OrchestratorInit => G!Init
<1> SUFFICES ASSUME OrchestratorInit PROVE G!Init
  OBVIOUS
<1>1. \A f \in Flows : /\ StageOf(f) = "idle" /\ CyclesOf(f) = 0 /\ AgeOf(f) = 0
                       /\ BrokenOf(f) = {}
  BY DEF OrchestratorInit, Init, Init0, StageOf, CyclesOf, AgeOf, BrokenOf, isRunning,
         isAwaiting
<1>2. \A f \in Flows : RanOf(f) = {} /\ LiveOf(f) = {}
  <2>1. ASSUME NEW f \in Flows, NEW a \in Nodes \X Cycle
        PROVE  /\ phase[<<f, a[1], a[2]>>] = "none"
               /\ outcome[<<f, a[1], a[2]>>] = "none"
    <3>1. <<f, a[1], a[2]>> \in Runs
      BY PlanAssumption
    <3>. QED BY <3>1 DEF OrchestratorInit, Init0
  <2>. QED BY <2>1 DEF RanOf, LiveOf
<1>. QED BY <1>1, <1>2 DEF G!Init, OrchestratorInit, Init0, Stage, Begun, Aged,
            Broken, Started, Working

(* Whatever commands, timers, runs and checkpoints do to one another, the    *)
(* orchestrator's cycles never overlap, stay within the budget of their     *)
(* firing and start no agent twice; only a cycle whose startCycle rejects   *)
(* leaves anything running behind: every behaviour of it is one of Firing.  *)
THEOREM OrchestratorImplementsFiring == OrchestratorSpec => ImplementsFiring
<1>1. OrchestratorInit => F!Init
  BY InitFires, SameFiring
<1>2. EngineInv /\ [OrchestratorNext]_allVars => [F!Next]_F!vars
  BY StepFires, SameFiring
<1>. QED BY <1>1, <1>2, OrchestratorWalks, PTL
         DEF OrchestratorSpec, ImplementsFiring, F!Spec

----------------------------------------------------------------------------
(* What a flow's budget and graph are: maxCyclesPerArm is positive          *)
(* (schemas.ts) and a flow has finitely many agents.                       *)
Budgeted == MaxCyclesPerArm \in [Flows -> Nat \ {0}] /\ IsFiniteSet(Nodes)

Agents == Cardinality(Nodes)

Counting ==
  /\ Stage \in [Flows -> {"idle", "cycling", "awaiting"}]
  /\ Begun \in [Flows -> Nat] /\ Aged \in [Flows -> Nat] /\ base \in [Flows -> Nat]
  /\ Broken \in [Flows -> SUBSET Nat]
  /\ Started \in [Flows -> SUBSET (Nodes \X Nat)]
  /\ spawned \in [Flows -> Nat]

(* The cycles of the firing so far, whether its last one may still start    *)
(* agents, and the agents that one has started.                            *)
Length(f) == Aged[f] - base[f]
Counted(f) == Stage[f] = "cycling" \/ Aged[f] \in Broken[f]
Latest(f) == {n \in Nodes : <<n, Aged[f]>> \in Started[f]}

(* The cycles before the last one account for all their agents, the last    *)
(* one for those that have been started.  Only the last can have broken.   *)
Accounted(f) ==
  /\ Length(f) \in 0 .. MaxCyclesPerArm[f]
  /\ \A c \in Broken[f] : c <= base[f] \/ c = Aged[f]
  /\ Stage[f] # "idle" => Begun[f] = Length(f) /\ Aged[f] \notin Broken[f]
  /\ Stage[f] = "awaiting" => Length(f) < MaxCyclesPerArm[f]
  /\ IF Counted(f)
       THEN /\ Length(f) > 0
            /\ spawned[f] <= (Length(f) - 1) * Agents + Cardinality(Latest(f))
       ELSE spawned[f] <= Length(f) * Agents

CountInv == Counting /\ \A f \in Flows : Accounted(f)

LEMMA AgentsNat == ASSUME Budgeted PROVE Agents \in Nat
  BY FS_CardinalityType DEF Budgeted, Agents

LEMMA SubsetOfAgents ==
  ASSUME Budgeted, NEW S \in SUBSET Nodes
  PROVE  IsFiniteSet(S) /\ Cardinality(S) \in Nat /\ Cardinality(S) <= Agents
  BY FS_Subset, FS_CardinalityType DEF Budgeted, Agents

LEMMA Times ==
  ASSUME NEW a \in Nat, NEW b \in Nat, NEW n \in Nat, a <= b
  PROVE  a * n \in Nat /\ b * n \in Nat /\ a * n <= b * n
<1>1. PICK d \in Nat : b = a + d
  <2>1. b - a \in Nat /\ b = a + (b - a)
    OBVIOUS
  <2> QED BY <2>1
<1>2. (a + d) * n = a * n + d * n /\ a * n \in Nat /\ d * n \in Nat
  BY Z3
<1> QED BY <1>1, <1>2

LEMMA OneMore ==
  ASSUME NEW a \in Nat \ {0}, NEW n \in Nat
  PROVE  (a - 1) * n + n = a * n /\ (a - 1) * n \in Nat
<1>1. PICK c \in Nat : a = c + 1
  <2>1. a - 1 \in Nat /\ a = (a - 1) + 1
    OBVIOUS
  <2> QED BY <2>1
<1>2. (c + 1) * n = c * n + n /\ c * n \in Nat
  BY Z3
<1>3. a - 1 = c
  BY <1>1
<1> QED BY <1>1, <1>2, <1>3

(* What a flow has run by the end of a cycle. *)
LEMMA CycleAccounted ==
  ASSUME Budgeted, Counting, NEW f \in Flows, Accounted(f)
  PROVE  /\ Length(f) \in Nat /\ Length(f) <= MaxCyclesPerArm[f]
         /\ MaxCyclesPerArm[f] \in Nat
         /\ spawned[f] \in Nat /\ Length(f) * Agents \in Nat
         /\ spawned[f] <= Length(f) * Agents
<1>1. /\ Length(f) \in Nat /\ Length(f) <= MaxCyclesPerArm[f] /\ spawned[f] \in Nat
      /\ MaxCyclesPerArm[f] \in Nat
  BY DEF Accounted, Counting, Budgeted
<1>2. PICK k \in Nat : k = Length(f)
  BY <1>1
<1>3. k * Agents \in Nat
  BY AgentsNat, Times
<1>4. CASE Counted(f)
  <2>1. k # 0 /\ spawned[f] <= (k - 1) * Agents + Cardinality(Latest(f))
    BY <1>2, <1>4 DEF Accounted
  <2>2. Cardinality(Latest(f)) \in Nat /\ Cardinality(Latest(f)) <= Agents
    BY SubsetOfAgents DEF Latest
  <2>3. (k - 1) * Agents + Agents = k * Agents /\ (k - 1) * Agents \in Nat
    BY <2>1, OneMore, AgentsNat
  <2>. QED BY <1>1, <1>2, <1>3, <2>1, <2>2, <2>3, AgentsNat
<1>5. CASE ~ Counted(f)
  BY <1>1, <1>2, <1>3, <1>5 DEF Accounted
<1>. QED BY <1>4, <1>5

LEMMA InitCounts == ASSUME Budgeted, G!Init PROVE CountInv
<1>1. Counting
  BY DEF G!Init, Counting
<1>2. ASSUME NEW f \in Flows PROVE Accounted(f)
  <2>1. /\ Stage[f] = "idle" /\ Aged[f] = 0 /\ base[f] = 0 /\ Broken[f] = {}
        /\ spawned[f] = 0 /\ MaxCyclesPerArm[f] \in Nat
    BY DEF G!Init, Budgeted
  <2>2. Length(f) = 0 /\ ~ Counted(f)
    BY <2>1 DEF Length, Counted
  <2>3. 0 * Agents \in Nat
    BY Times, AgentsNat
  <2>. QED BY <2>1, <2>2, <2>3 DEF Accounted
<1>. QED BY <1>1, <1>2 DEF CountInv

(* A step of one flow is told from where it leaves that flow. *)
LEMMA OneCounts ==
  ASSUME CountInv, Counting', NEW f \in Flows, Accounted(f)',
         \A g \in Flows \ {f} :
           /\ Stage'[g] = Stage[g] /\ Begun'[g] = Begun[g] /\ Aged'[g] = Aged[g]
           /\ base'[g] = base[g] /\ Broken'[g] = Broken[g]
           /\ Started'[g] = Started[g] /\ spawned'[g] = spawned[g]
  PROVE  CountInv'
<1>1. ASSUME NEW g \in Flows \ {f} PROVE Accounted(g)'
  <2>1. /\ Length(g)' = Length(g) /\ Latest(g)' = Latest(g)
        /\ Counted(g)' <=> Counted(g)
    BY <1>1 DEF Length, Latest, Counted
  <2>2. Accounted(g)
    BY <1>1 DEF CountInv
  <2>3. Cardinality(Latest(g))' = Cardinality(Latest(g))
    BY <2>1
  <2>. QED BY <1>1, <2>1, <2>2, <2>3 DEF Accounted
<1>. QED BY <1>1 DEF CountInv

(* A cycle begins: what was accounted for is accounted for still. *)
LEMMA AnotherCycle ==
  ASSUME Budgeted, Counting, Counting', NEW f \in Flows, NEW k \in Nat, NEW j \in Nat,
         Stage'[f] = "cycling", Begun'[f] = k + 1, Length(f)' = k + 1,
         k + 1 <= MaxCyclesPerArm[f],
         \A c \in Broken'[f] : c <= base'[f], base'[f] < Aged'[f],
         spawned'[f] = j, j <= k * Agents
  PROVE  Accounted(f)'
<1>1. Latest(f)' \in SUBSET Nodes
  BY DEF Latest
<1>2. Cardinality(Latest(f)') \in Nat
  BY <1>1, SubsetOfAgents
<1>3. k * Agents \in Nat /\ MaxCyclesPerArm[f] \in Nat
  BY AgentsNat, Times DEF Budgeted
<1>4. Aged'[f] \notin Broken'[f]
  <2>1. Aged'[f] \in Nat /\ base'[f] \in Nat
    BY DEF Counting
  <2>. QED BY <2>1
<1>5. Counted(f)' /\ Length(f)' \in 0 .. MaxCyclesPerArm[f] /\ Length(f)' > 0
  BY <1>3 DEF Counted
<1>6. (k + 1) - 1 = k
  OBVIOUS
<1>7. j <= k * Agents + Cardinality(Latest(f)')
  BY <1>2, <1>3
<1>8. spawned'[f] <= (Length(f)' - 1) * Agents + Cardinality(Latest(f)')
  BY <1>6, <1>7
<1>. QED BY <1>4, <1>5, <1>8 DEF Accounted

(* A cycle is over that did not break. *)
LEMMA NoMoreCycles ==
  ASSUME Budgeted, Counting, NEW f \in Flows, Accounted(f),
         Aged[f] \notin Broken[f],
         Stage'[f] = "idle" \/ (Stage'[f] = "awaiting" /\ Begun'[f] = Length(f)
                                /\ Length(f) < MaxCyclesPerArm[f]),
         Aged'[f] = Aged[f], base'[f] = base[f], Broken'[f] = Broken[f],
         spawned'[f] = spawned[f]
  PROVE  Accounted(f)'
<1>1. Length(f)' = Length(f) /\ ~ Counted(f)'
  BY DEF Length, Counted
<1>2. spawned'[f] <= Length(f)' * Agents
  BY <1>1, CycleAccounted
<1>. QED BY <1>1, <1>2 DEF Accounted

(* A firing, a cycle or a wait that begins, or ends. *)
LEMMA MoveCounts ==
  ASSUME Budgeted, CountInv, NEW f \in Flows,
         G!Fire(f) \/ G!Again(f) \/ G!Hold(f) \/ G!Resume(f) \/ G!Finish(f) \/ G!Drop(f)
         \/ G!Break(f)
  PROVE  CountInv'
<1>1. /\ Counting /\ Accounted(f)
      /\ Begun[f] \in Nat /\ Aged[f] \in Nat /\ base[f] \in Nat
      /\ Broken[f] \in SUBSET Nat
      /\ MaxCyclesPerArm[f] \in Nat \ {0}
  BY DEF Budgeted, CountInv, Counting
<1>2. /\ Length(f) \in Nat /\ spawned[f] \in Nat /\ spawned[f] <= Length(f) * Agents
      /\ Length(f) <= MaxCyclesPerArm[f]
  BY <1>1, CycleAccounted
<1>3. base[f] <= Aged[f] /\ \A c \in Broken[f] : c <= Aged[f]
  <2>1. base[f] <= Aged[f]
    BY <1>1, <1>2 DEF Length
  <2>2. \A c \in Broken[f] : c \in Nat /\ (c <= base[f] \/ c = Aged[f])
    BY <1>1 DEF Accounted
  <2>. QED BY <1>1, <2>1, <2>2
<1>4. CASE G!Fire(f)
  <2>1. /\ Counting' /\ Stage'[f] = "cycling" /\ Begun'[f] = 1
        /\ Aged'[f] = Aged[f] + 1 /\ base'[f] = Aged[f] /\ Broken'[f] = Broken[f]
        /\ spawned'[f] = 0
    BY <1>1, <1>4 DEF G!Fire, G!Move, G!NextCycle, Counting
  <2>2. 0 * Agents \in Nat /\ Length(f)' = 0 + 1 /\ base'[f] < Aged'[f]
    BY <1>1, <2>1, Times, AgentsNat DEF Length
  <2>3. Accounted(f)'
    BY <1>1, <1>3, <2>1, <2>2, AnotherCycle
  <2>. QED BY <1>4, <2>1, <2>3, OneCounts DEF G!Fire, G!Move, G!NextCycle, CountInv, Counting
<1>5. CASE G!Again(f) \/ G!Resume(f)
  <2>1. /\ Counting' /\ Stage'[f] = "cycling" /\ Begun'[f] = Begun[f] + 1
        /\ Aged'[f] = Aged[f] + 1 /\ base'[f] = base[f] /\ Broken'[f] = Broken[f]
        /\ spawned'[f] = spawned[f]
    BY <1>1, <1>5 DEF G!Again, G!Resume, G!Move, G!NextCycle, Counting
  <2>2. /\ Begun[f] = Length(f) /\ Aged[f] \notin Broken[f]
        /\ Length(f) < MaxCyclesPerArm[f]
    BY <1>1, <1>2, <1>5 DEF G!Again, G!Resume, G!Move, Accounted
  <2>3. \A c \in Broken'[f] : c <= base'[f]
    BY <1>1, <2>1, <2>2 DEF Accounted
  <2>4. Length(f)' = Length(f) + 1 /\ base'[f] < Aged'[f]
    BY <1>1, <1>3, <2>1 DEF Length
  <2>5. PICK k \in Nat : k = Length(f)
    BY <1>2
  <2>6. PICK j \in Nat : j = spawned[f]
    BY <1>2
  <2>7. Accounted(f)'
    BY <1>1, <1>2, <2>1, <2>2, <2>3, <2>4, <2>5, <2>6, AnotherCycle
  <2>. QED BY <1>5, <2>1, <2>7, OneCounts
           DEF G!Again, G!Resume, G!Move, G!NextCycle, CountInv, Counting
<1>6. CASE G!Hold(f)
  <2>1. /\ Counting' /\ Stage'[f] = "awaiting" /\ Begun'[f] = Begun[f]
        /\ Aged'[f] = Aged[f] /\ base'[f] = base[f] /\ Broken'[f] = Broken[f]
        /\ spawned'[f] = spawned[f] /\ Stage[f] = "cycling"
        /\ Begun[f] < MaxCyclesPerArm[f]
    BY <1>1, <1>6 DEF G!Hold, G!Move, Counting
  <2>2. Begun[f] = Length(f) /\ Aged[f] \notin Broken[f]
    BY <1>1, <2>1 DEF Accounted
  <2>3. Accounted(f)'
    BY <1>1, <2>1, <2>2, NoMoreCycles
  <2>. QED BY <1>6, <2>1, <2>3, OneCounts DEF G!Hold, G!Move, CountInv, Counting
<1>7. CASE G!Finish(f) \/ G!Drop(f)
  <2>1. /\ Counting' /\ Stage'[f] = "idle"
        /\ Aged'[f] = Aged[f] /\ base'[f] = base[f] /\ Broken'[f] = Broken[f]
        /\ spawned'[f] = spawned[f] /\ Stage[f] # "idle"
    BY <1>1, <1>7 DEF G!Finish, G!Drop, G!Move, Counting
  <2>2. Aged[f] \notin Broken[f]
    BY <1>1, <2>1 DEF Accounted
  <2>3. Accounted(f)'
    BY <1>1, <2>1, <2>2, NoMoreCycles
  <2>. QED BY <1>7, <2>1, <2>3, OneCounts DEF G!Finish, G!Drop, G!Move, CountInv, Counting
<1>8. CASE G!Break(f)
  <2>1. /\ Counting' /\ Stage'[f] = "idle" /\ Stage[f] = "cycling"
        /\ Aged'[f] = Aged[f] /\ base'[f] = base[f]
        /\ Broken'[f] = Broken[f] \cup {Aged[f]}
        /\ spawned'[f] = spawned[f] /\ Started'[f] = Started[f]
    BY <1>1, <1>8 DEF G!Break, Counting
  <2>2. /\ Length(f)' = Length(f) /\ Latest(f)' = Latest(f)
        /\ Counted(f) /\ Counted(f)'
    BY <2>1 DEF Length, Latest, Counted
  <2>3. Cardinality(Latest(f))' = Cardinality(Latest(f))
    BY <2>2
  <2>4. Accounted(f)'
    BY <1>1, <2>1, <2>2, <2>3 DEF Accounted
  <2>. QED BY <1>8, <2>1, <2>4, OneCounts DEF G!Break, CountInv, Counting
<1>. QED BY <1>4, <1>5, <1>6, <1>7, <1>8

(* An agent that starts is one more of its cycle. *)
LEMMA SpawnCounts ==
  ASSUME Budgeted, CountInv, NEW f \in Flows,
         NEW a \in (Nodes \X (1 .. Aged[f])) \ Started[f], G!Spawn(f, a)
  PROVE  CountInv'
<1>1. Counting /\ Accounted(f)
  BY DEF CountInv
<1>2. /\ a[1] \in Nodes /\ a[2] \in Nat /\ a[2] <= Aged[f] /\ a = <<a[1], a[2]>>
      /\ a \notin Started[f] /\ Aged[f] \in Nat /\ base[f] \in Nat /\ spawned[f] \in Nat
  BY <1>1 DEF Counting
<1>3. /\ Counting' /\ Stage'[f] = Stage[f] /\ Begun'[f] = Begun[f]
      /\ Aged'[f] = Aged[f] /\ base'[f] = base[f] /\ Broken'[f] = Broken[f]
      /\ Started'[f] = Started[f] \cup {a}
      /\ spawned'[f] = IF a[2] > base[f] THEN spawned[f] + 1 ELSE spawned[f]
  <2>1. a \in Nodes \X Nat
    BY <1>2
  <2>2. /\ Started' = [Started EXCEPT ![f] = @ \cup {a}]
        /\ spawned' = [spawned EXCEPT ![f] = IF a[2] > base[f] THEN @ + 1 ELSE @]
        /\ UNCHANGED <<Stage, Begun, Aged, base, Broken>>
    BY DEF G!Spawn
  <2>. QED BY <1>1, <1>2, <2>1, <2>2 DEF Counting
<1>4. Length(f)' = Length(f) /\ (Counted(f)' <=> Counted(f))
  BY <1>3 DEF Length, Counted
<1>5. Accounted(f)'
  <2>1. CASE a[2] = Aged[f]
    <3>1. Counted(f)
      BY <2>1 DEF G!Spawn, Counted
    <3>2. PICK k \in Nat : k = Length(f) - 1
      BY <1>1, <1>2, <3>1 DEF Accounted, Length
    <3>3. a[2] > base[f] /\ spawned'[f] = spawned[f] + 1
      <4>1. a[2] > base[f]
        BY <1>1, <1>2, <2>1, <3>1 DEF Accounted, Length
      <4>. QED BY <1>3, <4>1
    <3>4. Latest(f)' = Latest(f) \cup {a[1]} /\ a[1] \notin Latest(f)
      <4>1. ASSUME NEW n \in Nodes
            PROVE  n \in Latest(f)' <=> n \in Latest(f) \/ n = a[1]
        <5>1. n \in Latest(f)' <=> <<n, Aged[f]>> \in Started[f] \cup {a}
          BY <1>3 DEF Latest
        <5>2. n \in Latest(f) <=> <<n, Aged[f]>> \in Started[f]
          BY DEF Latest
        <5>3. <<n, Aged[f]>> = a <=> n = a[1]
          BY <1>2, <2>1
        <5>. QED BY <5>1, <5>2, <5>3
      <4>2. Latest(f) \subseteq Nodes /\ Latest(f)' \subseteq Nodes
        BY DEF Latest
      <4>3. a[1] \notin Latest(f)
        BY <1>2, <2>1 DEF Latest
      <4>. QED BY <1>2, <4>1, <4>2, <4>3
    <3>5. PICK S \in SUBSET Nodes : S = Latest(f)
      BY DEF Latest
    <3>6. Cardinality(S \cup {a[1]}) = Cardinality(S) + 1 /\ Cardinality(S) \in Nat
      BY <3>4, <3>5, SubsetOfAgents, FS_AddElement
    <3>7. k * Agents \in Nat /\ spawned[f] <= k * Agents + Cardinality(S)
      BY <1>1, <3>1, <3>2, <3>5, Times, AgentsNat DEF Accounted
    <3>8. spawned'[f] <= k * Agents + Cardinality(Latest(f)')
      <4>1. Cardinality(Latest(f)') = Cardinality(S) + 1
        BY <3>4, <3>5, <3>6
      <4>. QED BY <1>2, <3>3, <3>6, <3>7, <4>1
    <3>9. spawned'[f] <= (Length(f)' - 1) * Agents + Cardinality(Latest(f)')
      BY <1>4, <3>2, <3>8
    <3>. QED BY <1>1, <1>3, <1>4, <3>1, <3>9 DEF Accounted
  <2>2. CASE a[2] # Aged[f]
    <3>1. a[2] <= base[f]
      BY <1>1, <2>2 DEF G!Spawn, Accounted
    <3>2. spawned'[f] = spawned[f]
      BY <1>2, <1>3, <3>1
    <3>3. Latest(f)' = Latest(f)
      BY <1>2, <1>3, <2>2 DEF Latest
    <3>4. Cardinality(Latest(f))' = Cardinality(Latest(f))
      BY <3>3
    <3>. QED BY <1>1, <1>3, <1>4, <3>2, <3>4 DEF Accounted
  <2>. QED BY <2>1, <2>2
<1>. QED BY <1>3, <1>5, OneCounts DEF G!Spawn, CountInv, Counting

LEMMA StepCounts == ASSUME Budgeted, CountInv, [G!Next]_G!vars PROVE CountInv'
<1>1. ASSUME UNCHANGED <<Stage, Begun, Aged, base, Broken, Started, spawned>>
      PROVE  CountInv'
  <2>1. Counting'
    BY <1>1 DEF CountInv, Counting
  <2>2. ASSUME NEW f \in Flows PROVE Accounted(f)'
    <3>1. /\ Length(f)' = Length(f) /\ Latest(f)' = Latest(f)
          /\ Counted(f)' <=> Counted(f)
      BY <1>1 DEF Length, Latest, Counted
    <3>2. Cardinality(Latest(f))' = Cardinality(Latest(f))
      BY <3>1
    <3>. QED BY <1>1, <3>1, <3>2 DEF CountInv, Accounted
  <2>. QED BY <2>1, <2>2 DEF CountInv
<1>2. CASE UNCHANGED G!vars
  BY <1>1, <1>2 DEF G!vars
<1>3. ASSUME NEW f \in Flows, NEW a, G!Settle(f, a) PROVE CountInv'
  BY <1>1, <1>3 DEF G!Settle
<1>. QED BY <1>2, <1>3, MoveCounts, SpawnCounts DEF G!Next

(* README, hard bound 2, of the engine itself: over checkpoints, kills,      *)
(* replays in mid-cycle and cycles that break, whose workers still start    *)
(* agents after the flow is free, a firing of a flow with finitely many     *)
(* agents starts at most maxCyclesPerArm times as many runs as there are    *)
(* agents.                                                                  *)
THEOREM OrchestratorRunsBounded ==
  IsFiniteSet(Nodes) =>
    (OrchestratorSpec =>
       [](\A f \in Flows : spawned[f] <= MaxCyclesPerArm[f] * Cardinality(Nodes)))
<1> SUFFICES ASSUME IsFiniteSet(Nodes)
             PROVE  OrchestratorSpec => [](\A f \in Flows :
                      spawned[f] <= MaxCyclesPerArm[f] * Cardinality(Nodes))
  OBVIOUS
<1>1. Budgeted
  BY LimitAssumption, BudgetAssumption DEF Budgeted
<1>2. OrchestratorInit => CountInv
  BY <1>1, InitFires, InitCounts
<1>3. EngineInv /\ CountInv /\ [OrchestratorNext]_allVars => CountInv'
  BY <1>1, StepFires, StepCounts
<1>4. CountInv => \A f \in Flows :
                    spawned[f] <= MaxCyclesPerArm[f] * Cardinality(Nodes)
  <2> SUFFICES ASSUME CountInv, NEW f \in Flows
               PROVE  spawned[f] <= MaxCyclesPerArm[f] * Agents
    BY DEF Agents
  <2>1. /\ Length(f) \in Nat /\ Length(f) <= MaxCyclesPerArm[f]
        /\ MaxCyclesPerArm[f] \in Nat
        /\ spawned[f] \in Nat /\ spawned[f] <= Length(f) * Agents
    BY <1>1, CycleAccounted DEF CountInv
  <2>2. PICK k \in Nat : k = Length(f)
    BY <2>1
  <2>3. /\ k * Agents \in Nat /\ MaxCyclesPerArm[f] * Agents \in Nat
        /\ k * Agents <= MaxCyclesPerArm[f] * Agents
    BY <1>1, <2>1, <2>2, Times, AgentsNat
  <2>. QED BY <2>1, <2>2, <2>3
<1>. QED BY <1>2, <1>3, <1>4, OrchestratorWalks, PTL DEF OrchestratorSpec
=============================================================================
