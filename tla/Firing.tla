------------------------------- MODULE Firing -------------------------------
(***************************************************************************)
(* What the engine promises about one firing of a flow, without saying how *)
(* the graph is walked: cycles never overlap, a firing has a bounded        *)
(* number of them, an agent runs at most once per cycle, and nothing runs   *)
(* between cycles or while a human is asked to approve the next one.  The   *)
(* exception is a cycle that breaks: it ends its firing at once, and what   *)
(* it has started, and what its workers still start, runs on beside         *)
(* whatever the flow does next.  Module Orchestrator implements this        *)
(* specification.                                                          *)
(*                                                                         *)
(* An agent is named by its node and the number of its cycle.              *)
(***************************************************************************)
EXTENDS Integers, FiniteSets

CONSTANTS Flows, Nodes, MaxCycles

VARIABLES
  stage,   \* "idle", "cycling" or "awaiting", per flow
  cycles,  \* cycles begun by the current firing
  age,     \* cycles ever begun
  base,    \* age before the current (or last) firing
  broken,  \* cycles that broke
  ran,     \* agents that were started, in the last cycle or a broken one
  live,    \* agents that have been started and not settled
  runs     \* runs started by the current (or last) firing

vars == <<stage, cycles, age, base, broken, ran, live, runs>>

Init ==
  /\ stage = [f \in Flows |-> "idle"]
  /\ cycles = [f \in Flows |-> 0] /\ age = [f \in Flows |-> 0]
  /\ base = [f \in Flows |-> 0] /\ broken = [f \in Flows |-> {}]
  /\ ran = [f \in Flows |-> {}] /\ live = [f \in Flows |-> {}]
  /\ runs = [f \in Flows |-> 0]

(* The stage changes while nothing of an unbroken cycle is live. *)
Move(f, from, to, c) ==
  /\ stage[f] = from
  /\ \A a \in live[f] : a[2] \in broken[f]
  /\ stage' = [stage EXCEPT ![f] = to]
  /\ cycles' = [cycles EXCEPT ![f] = c]
  /\ ran' = [ran EXCEPT ![f] = {a \in @ : a[2] \in broken[f]}]
  /\ UNCHANGED <<broken, live>>

NextCycle(f) == age' = [age EXCEPT ![f] = @ + 1]

Fire(f) == /\ Move(f, "idle", "cycling", 1) /\ NextCycle(f)
           /\ base' = [base EXCEPT ![f] = age[f]]
           /\ runs' = [runs EXCEPT ![f] = 0]

Again(f) == /\ cycles[f] < MaxCycles[f]
            /\ Move(f, "cycling", "cycling", cycles[f] + 1) /\ NextCycle(f)
            /\ UNCHANGED <<base, runs>>

Hold(f) == /\ cycles[f] < MaxCycles[f]
           /\ Move(f, "cycling", "awaiting", cycles[f])
           /\ UNCHANGED <<age, base, runs>>

Resume(f) == /\ Move(f, "awaiting", "cycling", cycles[f] + 1) /\ NextCycle(f)
             /\ UNCHANGED <<base, runs>>

Finish(f) == Move(f, "cycling", "idle", 0) /\ UNCHANGED <<age, base, runs>>

Drop(f) == Move(f, "awaiting", "idle", 0) /\ UNCHANGED <<age, base, runs>>

Break(f) ==
  /\ stage[f] = "cycling"
  /\ stage' = [stage EXCEPT ![f] = "idle"]
  /\ cycles' = [cycles EXCEPT ![f] = 0]
  /\ broken' = [broken EXCEPT ![f] = @ \cup {age[f]}]
  /\ UNCHANGED <<age, base, ran, live, runs>>

(* An agent that has not been started yet starts; one that is live settles. *)
Spawn(f, a) ==
  /\ (stage[f] = "cycling" /\ a[2] = age[f]) \/ a[2] \in broken[f]
  /\ runs' = [runs EXCEPT ![f] = IF a[2] > base[f] THEN @ + 1 ELSE @]
  /\ ran' = [ran EXCEPT ![f] = @ \cup {a}]
  /\ live' = [live EXCEPT ![f] = @ \cup {a}]
  /\ UNCHANGED <<stage, cycles, age, base, broken>>

Settle(f, a) ==
  /\ live' = [live EXCEPT ![f] = @ \ {a}]
  /\ UNCHANGED <<stage, cycles, age, base, broken, ran, runs>>

Next == \E f \in Flows :
  \/ Fire(f) \/ Again(f) \/ Hold(f) \/ Resume(f) \/ Finish(f) \/ Drop(f) \/ Break(f)
  \/ \E a \in (Nodes \X (1 .. age[f])) \ ran[f] : Spawn(f, a)
  \/ \E a \in live[f] : Settle(f, a)

Spec == Init /\ [][Next]_vars

(* README, hard bound 2: over checkpoints, kills, replays in mid-cycle and   *)
(* broken cycles, a firing starts at most maxCyclesPerArm times the agents  *)
(* of the flow.                                                            *)
FiringBound ==
  \A f \in Flows : runs[f] <= MaxCycles[f] * Cardinality(Nodes)
=============================================================================
