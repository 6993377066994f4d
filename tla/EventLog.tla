------------------------------ MODULE EventLog ------------------------------
(***************************************************************************)
(* The event log (packages/engine/src/eventlog.ts): a sequence of events,  *)
(* an event's seq being its place in it, and the folds over it that the    *)
(* guard, the boot recovery and the bridge read.                           *)
(*                                                                         *)
(* An event is a record with a type and, where the code has them, flow,    *)
(* run, cycle, state and cost.  Only the fields a fold reads are kept.     *)
(* Every append is durable before its listeners hear of it.                *)
(***************************************************************************)
EXTENDS Integers, Sequences, FiniteSetsExt, SequencesExt

LatestSeq(log) == Len(log)

(* The replay: what follows a sequence number, in order. *)
ReadSince(log, sinceSeq) == SubSeq(log, sinceSeq + 1, Len(log))

Appended(log, event) == Append(log, event)

FlowEvents == {"flow.upserted", "flow.removed", "flow.stateChanged",
               "cycle.started", "cycle.ended", "cycle.converged",
               "run.started"}
CycleEvents == {"cycle.started", "cycle.ended", "cycle.converged", "run.started"}

(* Where the log has an event of one of these types for flow f. *)
Places(log, f, types) ==
  {i \in DOMAIN log : log[i].type \in types /\ log[i].flow = f}

----------------------------------------------------------------------------
(* foldFlows *)

(* The state last upserted with the spec or last announced: the later wins. *)
FlowState(log, f) ==
  LET I == Places(log, f, {"flow.upserted", "flow.stateChanged"})
  IN IF I = {} THEN "ocioso" ELSE log[Max(I)].state

(* The largest cycle number the flow was ever seen in. *)
CycleCounter(log, f) ==
  Max({0} \cup {log[i].cycle : i \in Places(log, f, CycleEvents)})

(* The rail: flows the log knows, but for those removed and not upserted    *)
(* again.                                                                  *)
Removed(log, f) ==
  LET I == Places(log, f, {"flow.upserted", "flow.removed"})
  IN I # {} /\ log[Max(I)].type = "flow.removed"

OnRail(log, f) == Places(log, f, FlowEvents) # {} /\ ~ Removed(log, f)

----------------------------------------------------------------------------
(* foldRuns *)

RunPlaces(log, r, type) ==
  {i \in DOMAIN log : log[i].type = type /\ log[i].run = r}

Started(log, r) == RunPlaces(log, r, "run.started") # {}
Finished(log, r) ==
  Started(log, r) /\ \E i \in RunPlaces(log, r, "run.finished") :
                        i > Max(RunPlaces(log, r, "run.started"))

StartOf(log, r) == log[Max(RunPlaces(log, r, "run.started"))]

(* run.token is cumulative: the last one is the run's cost. *)
Cost(log, r) ==
  LET I == RunPlaces(log, r, "run.token")
  IN IF I = {} THEN 0 ELSE log[Max(I)].cost

RunsOf(log, f) ==
  {log[i].run : i \in Places(log, f, {"run.started"})}

CostOf(log, S) == SumFunctionOnSet([r \in S |-> Cost(log, r)], S)

SettledRuns(log, f) == {r \in RunsOf(log, f) : Finished(log, r)}

(* foldFlowSpend: finished runs only. *)
FlowSpend(log, f) == CostOf(log, SettledRuns(log, f))

(* Everything the flow's runs have cost, settled or not. *)
TotalSpend(log, f) == CostOf(log, RunsOf(log, f))

(* foldForOrphanRecovery: the runs that started and never finished. *)
Orphans(log) ==
  {r \in {log[i].run : i \in {j \in DOMAIN log : log[j].type = "run.started"}} :
     ~ Finished(log, r)}
=============================================================================
