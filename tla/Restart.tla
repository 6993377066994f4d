------------------------------ MODULE Restart ------------------------------
(***************************************************************************)
(* The engine from boot to boot: main.ts's boot order, the runs and cycles *)
(* that append to the event log, a stop at any point, and what the next    *)
(* boot makes of the log (the guard's rehydrated meter, recoverOrphans in  *)
(* orchestrator.ts).                                                       *)
(*                                                                         *)
(* The log is all that survives; every append is durable on its own, so a  *)
(* stop can fall between two appends of one synchronous handler.  A        *)
(* handler therefore leaves the events it emits in out, and Flush appends  *)
(* them one by one before anything else of the engine happens.             *)
(*                                                                         *)
(* How a cycle walks its layers is module Orchestrator's business, what    *)
(* the guard admits module Guard's: here a run reserves WorstCase of one   *)
(* metric and a cycle starts when play, runNow or a trigger has armed its  *)
(* flow.  A run takes two steps to start: the lease, and, when its prompt  *)
(* is assembled, the runner's run.started.  Between them the prompt may    *)
(* throw, which ends the cycle without an event and keeps the lease.       *)
(***************************************************************************)
EXTENDS AuthProbe, EventLog

CONSTANTS
  Flows, Runs,
  Costs,       \* what a run that is metered may cost
  WorstCase,   \* what a run reserves
  Cap,         \* the flow's lifetime ceiling
  DryRuns,     \* what --dry-run may name: flows, or None
  None,
  MaxCycle,    \* bound: cycles per flow
  MaxBoots     \* bound: boots

ASSUME RestartAssumption ==
  /\ IsFiniteSet(Flows)
  /\ Costs \subseteq Nat \ {0} /\ WorstCase \in Nat /\ Cap \in Nat
  /\ \A c \in Costs : c <= WorstCase
  /\ None \notin Flows /\ DryRuns \subseteq Flows \cup {None}
  /\ MaxCycle \in Nat /\ MaxBoots \in Nat

VARIABLES
  log,
  out,       \* events of the handler in progress, not appended yet
  pc,        \* "off", "load", "recover", "preflight", "dry" or "serving"
  dry,       \* --dry-run of this boot, or None
  cache,     \* flows the spec store has
  meter,     \* committedUsd
  prompting, \* leases of runs whose prompt is being assembled
  live,      \* runs the runner has: they hold a lease too
  lost,      \* leases of runs whose prompt threw
  running,   \* the cycle in progress, 0 when there is none
  stray,     \* cycles that threw in a layer, whose workers may go on
  awaiting,  \* pendingApprovals
  boots,
  (* history *)
  missed,    \* spend of the runs this boot recovered, which its meter lacks
  thrown     \* flows whose last cycle of this boot threw

runVars == <<prompting, live, lost>>
cycleVars == <<running, stray, thrown, awaiting>>
bootVars == <<pc, dry, cache, boots, missed>>
engineVars == <<log, out, meter, runVars, cycleVars, bootVars>>
vars == <<engineVars, probeVars>>

Lease == [run : Runs, flow : Flows, cycle : 1 .. MaxCycle]

Zero == [f \in Flows |-> 0]

(* The members of a set, each once, in some order. *)
Listings(S) == Bijection(1 .. Cardinality(S), S)

Upserted(f) == [type |-> "flow.upserted", flow |-> f, state |-> "ocioso"]
StateChanged(f, s) == [type |-> "flow.stateChanged", flow |-> f, state |-> s]
CycleStarted(f, c) == [type |-> "cycle.started", flow |-> f, cycle |-> c]
CycleEnded(f, c) == [type |-> "cycle.ended", flow |-> f, cycle |-> c]
RunStarted(r, f, c) ==
  [type |-> "run.started", run |-> r, flow |-> f, cycle |-> c]
RunToken(r, cost) == [type |-> "run.token", run |-> r, cost |-> cost]
RunFinished(r) == [type |-> "run.finished", run |-> r]

Init ==
  /\ log = <<>> /\ out = <<>> /\ pc = "off" /\ dry = None /\ cache = {}
  /\ meter = Zero /\ prompting = {} /\ live = {} /\ lost = {}
  /\ running = Zero /\ stray = {} /\ awaiting = {}
  /\ boots = 0 /\ missed = Zero /\ thrown = {}
  /\ ProbeInit

(* What a handler appends on its way, one event at a time. *)
Flush ==
  /\ out # <<>>
  /\ log' = Appended(log, Head(out)) /\ out' = Tail(out)
  /\ UNCHANGED <<meter, runVars, cycleVars, bootVars, probeVars>>

Quiet == out = <<>>

----------------------------------------------------------------------------
(* Boot *)

(* Fault: the guard starts from an empty meter. *)
BuildEmpty ==
  /\ pc = "off" /\ boots < MaxBoots
  /\ boots' = boots + 1 /\ pc' = "load" /\ dry' \in DryRuns
  /\ meter' = Zero
  /\ UNCHANGED <<log, out, cache, missed, runVars, cycleVars, probeVars>>

(* buildEngine: the guard folds the log into its meter as it is made. *)
Build ==
  /\ pc = "off" /\ boots < MaxBoots
  /\ boots' = boots + 1 /\ pc' = "load" /\ dry' \in DryRuns
  /\ meter' = [f \in Flows |-> FlowSpend(log, f)]
  /\ UNCHANGED <<log, out, cache, missed, runVars, cycleVars, probeVars>>

(* Fault: only flows that are not on the rail are upserted. *)
LoadFlowsNew ==
  /\ pc = "load" /\ Quiet
  /\ \E S \in SUBSET Flows :
       /\ cache' = S
       /\ \E files \in Listings({f \in S : ~ OnRail(log, f)}) :
            out' = [i \in DOMAIN files |-> Upserted(files[i])]
  /\ pc' = "recover"
  /\ UNCHANGED <<log, dry, meter, boots, missed, runVars, cycleVars, probeVars>>

(* listFlows and loadFlowsIntoLog: the files that parse, in the order the   *)
(* directory lists them.                                                   *)
LoadFlows ==
  /\ pc = "load" /\ Quiet
  /\ \E S \in SUBSET Flows :
       /\ cache' = S
       /\ \E files \in Listings(S) :
            out' = [i \in DOMAIN files |-> Upserted(files[i])]
  /\ pc' = "recover"
  /\ UNCHANGED <<log, dry, meter, boots, missed, runVars, cycleVars, probeVars>>

(* The flows with an unfinished run. *)
Closing == {StartOf(log, r).flow : r \in Orphans(log)}

(* Fault: cycles are closed, their runs are left as they are. *)
RecoveryClosesOnly ==
  {[i \in DOMAIN flows |-> CycleEnded(flows[i], CycleCounter(log, flows[i]))] :
     flows \in Listings(Closing)}

(* recoverOrphans, on one fold of the log: every unfinished run is finished *)
(* as killed, then every flow that had one gets its last cycle ended and   *)
(* its state reset.  The runs are sorted by the wall clock, which may have  *)
(* been set back, and the flows come as the fold met them: any order.      *)
Finishes(runs) == [i \in DOMAIN runs |-> RunFinished(runs[i])]

Closes(flows) ==
  [i \in 1 .. 2 * Cardinality(Closing) |->
     LET f == flows[(i + 1) \div 2]
     IN IF i % 2 = 1 THEN CycleEnded(f, CycleCounter(log, f))
                     ELSE StateChanged(f, "ocioso")]

RecoveryEvents ==
  {Finishes(runs) \o Closes(flows) :
     runs \in Listings(Orphans(log)), flows \in Listings(Closing)}

RecoverOrphans ==
  /\ pc = "recover" /\ Quiet
  /\ out' \in RecoveryEvents
  /\ missed' = [f \in Flows |-> TotalSpend(log, f) - FlowSpend(log, f)]
  /\ pc' = "preflight"
  /\ UNCHANGED <<log, dry, cache, meter, boots, runVars, cycleVars, probeVars>>

Preflight ==
  /\ pc = "preflight" /\ Quiet
  /\ StartProbe
  /\ UNCHANGED engineVars

Probe ==
  /\ Quiet
  /\ ProbeNext
  /\ UNCHANGED engineVars

(* What a cycle does first. *)
Begin(f, c) ==
  /\ running' = [running EXCEPT ![f] = c] /\ thrown' = thrown \ {f}
  /\ out' = <<CycleStarted(f, c), StateChanged(f, "rodando")>>

(* The probe has settled: the scheduler and the bridge are opened, or the   *)
(* dry run's one cycle is started, if its flow is there and claude is.     *)
Serve ==
  /\ pc = "preflight" /\ probe = "settled" /\ dry = None
  /\ pc' = "serving"
  /\ UNCHANGED <<log, out, dry, cache, meter, boots, missed, runVars, cycleVars,
                 probeVars>>

DryRun ==
  /\ pc = "preflight" /\ probe = "settled" /\ dry # None
  /\ dry \in cache /\ Ready
  /\ CycleCounter(log, dry) < MaxCycle
  /\ Begin(dry, CycleCounter(log, dry) + 1)
  /\ pc' = "dry"
  /\ UNCHANGED <<log, dry, cache, meter, stray, awaiting, boots, missed, runVars,
                 probeVars>>

----------------------------------------------------------------------------
(* Cycles and runs *)

Serving == pc \in {"serving", "dry"}

(* What the guard holds a reservation for. *)
LeasesOf(f) ==
  {r \in live : r \in RunsOf(log, f)}
    \cup {l.run : l \in {m \in prompting \cup lost : m.flow = f}}

(* Fault: cycle numbers start over with every boot. *)
FromOne(f) == Max({0} \cup {running[f]}) + 1

NextCycle(f) == CycleCounter(log, f) + 1

StartCycle(f) ==
  /\ pc = "serving" /\ Quiet
  /\ f \in cache /\ running[f] = 0
  /\ NextCycle(f) <= MaxCycle
  /\ Begin(f, NextCycle(f))
  /\ awaiting' = awaiting \ {f}
  /\ UNCHANGED <<log, meter, stray, runVars, bootVars, probeVars>>

(* requestSpawn: a worker of the cycle takes a node and the guard grants its *)
(* lease.  The workers of a cycle that threw beside them go on taking       *)
(* nodes; run ids are fresh.                                               *)
RequestSpawn(r, f, c) ==
  /\ Serving /\ Quiet
  /\ c = running[f] \/ [flow |-> f, cycle |-> c] \in stray
  /\ ~ Started(log, r) /\ \A l \in prompting \cup lost : l.run # r
  /\ Ready
  /\ meter[f] + (Cardinality(LeasesOf(f)) + 1) * WorstCase <= Cap
  /\ prompting' = prompting \cup {[run |-> r, flow |-> f, cycle |-> c]}
  /\ UNCHANGED <<log, out, meter, live, lost, cycleVars, bootVars, probeVars>>

(* The prompt is assembled: the runner appends run.started. *)
StartRun(l) ==
  /\ Serving /\ Quiet /\ l \in prompting
  /\ prompting' = prompting \ {l} /\ live' = live \cup {l.run}
  /\ out' = <<RunStarted(l.run, l.flow, l.cycle)>>
  /\ UNCHANGED <<log, meter, lost, cycleVars, bootVars, probeVars>>

(* startCycle rejects: its finally gives the flow free, and that is all. *)
Reject(f) ==
  /\ running' = [running EXCEPT ![f] = 0] /\ thrown' = thrown \cup {f}
  /\ UNCHANGED <<log, out, meter, awaiting, bootVars, probeVars>>

(* The directory or the prompt throws: nothing gives the lease back.  A     *)
(* second throw in a layer is swallowed with the rejection of the first.   *)
LoseLease(l) ==
  /\ Serving /\ Quiet /\ l \in prompting
  /\ prompting' = prompting \ {l} /\ lost' = lost \cup {l}
  /\ stray' = stray \cup {[flow |-> l.flow, cycle |-> l.cycle]}
  /\ IF running[l.flow] = l.cycle THEN Reject(l.flow)
     ELSE UNCHANGED <<log, out, meter, running, thrown, awaiting, bootVars,
                      probeVars>>
  /\ UNCHANGED live

(* The workers of the cycle in progress have all come back. *)
Joined(f) ==
  /\ running[f] > 0
  /\ \A l \in prompting : ~ (l.flow = f /\ l.cycle = running[f])
  /\ \A r \in live : LET start == StartOf(log, r)
                    IN ~ (start.flow = f /\ start.cycle = running[f])

(* Between two layers: the barrier throws on a path it may not hash. *)
RefuseBarrier(f) ==
  /\ Serving /\ Quiet /\ Joined(f)
  /\ Reject(f)
  /\ UNCHANGED <<stray, runVars>>

(* The runner's end: run.token if the run was metered, run.finished, and    *)
(* the lease is released with the same cost.                               *)
FinishRun(r) ==
  /\ Serving /\ Quiet /\ r \in live
  /\ LET f == StartOf(log, r).flow
     IN \E cost \in Costs \cup {0} :
          /\ out' = (IF cost = 0 THEN <<>> ELSE <<RunToken(r, cost)>>)
                      \o <<RunFinished(r)>>
          /\ meter' = [meter EXCEPT ![f] = @ + cost]
  /\ live' = live \ {r}
  /\ UNCHANGED <<log, prompting, lost, cycleVars, bootVars, probeVars>>

(* The last layer has joined: the cycle ends, for good or for a checkpoint. *)
EndCycle(f, state) ==
  /\ Serving /\ Quiet /\ Joined(f)
  /\ out' = <<CycleEnded(f, running[f]), StateChanged(f, state)>>
  /\ running' = [running EXCEPT ![f] = 0]
  /\ awaiting' = IF state = "aguardando" THEN awaiting \cup {f} ELSE awaiting
  /\ UNCHANGED <<log, meter, stray, thrown, runVars, bootVars, probeVars>>

(* ... or the feedback edge re-arms it at once. *)
Rearm(f) ==
  /\ Serving /\ Quiet
  /\ Joined(f) /\ NextCycle(f) <= MaxCycle
  /\ out' = <<CycleEnded(f, running[f]), CycleStarted(f, NextCycle(f)),
              StateChanged(f, "rodando")>>
  /\ running' = [running EXCEPT ![f] = NextCycle(f)]
  /\ UNCHANGED <<log, meter, stray, thrown, awaiting, runVars, bootVars, probeVars>>

----------------------------------------------------------------------------

(* Memory is gone; the log keeps what was appended. *)
Halt ==
  /\ pc' = "off" /\ out' = <<>> /\ dry' = None /\ cache' = {}
  /\ meter' = Zero /\ prompting' = {} /\ live' = {} /\ lost' = {}
  /\ running' = Zero /\ stray' = {} /\ awaiting' = {}
  /\ missed' = Zero /\ thrown' = {}
  /\ probe' = "none" /\ child' = "none" /\ scan' = {} /\ cached' = "none"
  /\ first' = "none"
  /\ UNCHANGED <<log, boots>>

(* A crash, or SIGINT and SIGTERM: shutdown closes the sockets and the log  *)
(* under the runs that are in flight and exits.                            *)
Stop == pc # "off" /\ Halt

(* --dry-run is over, or cannot start: main returns, or rejects with the    *)
(* cycle.                                                                  *)
DryRunEnds ==
  /\ dry # None /\ Quiet
  /\ \/ pc = "dry" /\ running[dry] = 0
     \/ pc = "preflight" /\ probe = "settled" /\ ~ (dry \in cache /\ Ready)
  /\ Halt

Next ==
  \/ Flush
  \/ Build \/ LoadFlows \/ RecoverOrphans \/ Preflight \/ Probe
  \/ Serve \/ DryRun \/ DryRunEnds
  \/ \E f \in Flows :
       \/ StartCycle(f) \/ Rearm(f) \/ RefuseBarrier(f)
       \/ \E s \in {"ocioso", "aguardando"} : EndCycle(f, s)
       \/ \E r \in Runs, c \in 1 .. MaxCycle : RequestSpawn(r, f, c)
  \/ \E l \in prompting : StartRun(l) \/ LoseLease(l)
  \/ \E r \in Runs : FinishRun(r)
  \/ Stop

RestartSpec == Init /\ [][Next]_vars

(* Boot runs by itself; of the probe only its timer can be relied on. *)
BootFairness ==
  /\ WF_vars(Flush) /\ WF_vars(LoadFlows) /\ WF_vars(RecoverOrphans)
  /\ WF_vars(Preflight) /\ WF_vars(Quiet /\ GiveUp /\ UNCHANGED engineVars)
  /\ WF_vars(Serve)

FairSpec == RestartSpec /\ BootFairness

----------------------------------------------------------------------------
(* Properties *)

Recovered == pc \in {"preflight", "dry", "serving"} /\ Quiet

(* One type invariant. *)
RestartTypeOK ==
  /\ ProbeTypeOK
  /\ pc \in {"off", "load", "recover", "preflight", "dry", "serving"}
  /\ cache \subseteq Flows /\ awaiting \subseteq cache /\ thrown \subseteq cache
  /\ prompting \cup lost \subseteq Lease /\ live \subseteq Runs
  /\ stray \subseteq [flow : Flows, cycle : 1 .. MaxCycle]
  /\ meter \in [Flows -> Nat] /\ missed \in [Flows -> Nat]
  /\ running \in [Flows -> 0 .. MaxCycle]

(* recoverOrphans leaves no run behind: once it is through, the runs the    *)
(* log has open are the ones this boot's runner has in hand, whatever the  *)
(* last boot was doing when it stopped, recovering included.  A lease whose *)
(* prompt is not assembled, or threw, is of no run the log knows.          *)
OnlyLiveRunsOpen ==
  Recovered => {r \in Runs : Started(log, r) /\ ~ Finished(log, r)} = live

(* A cycle number is never used twice, in whatever boot: the counter is a   *)
(* fold over the log, so cycles that a stop cut off count.                 *)
CycleNumbersRise ==
  \A i, j \in DOMAIN log :
    /\ i < j /\ log[i].type = "cycle.started" /\ log[j].type = "cycle.started"
    /\ log[i].flow = log[j].flow
    => log[i].cycle < log[j].cycle

(* After recovery the rail shows no flow as running or as waiting for       *)
(* approval unless the engine holds it so, or its last cycle threw, which  *)
(* nothing reports; the flows that did not load, which no event of this    *)
(* boot mentions, are left out.                                            *)
ShownIsHeld ==
  Recovered => \A f \in cache :
    /\ FlowState(log, f) = "rodando" => running[f] > 0 \/ f \in thrown
    /\ FlowState(log, f) = "aguardando" => f \in awaiting

(* The guard's meter is what the log has settled, but for the runs the boot *)
(* itself recovered: they are finished after the meter was folded.         *)
MeterIsLog ==
  Quiet /\ pc # "off" =>
    \A f \in Flows : meter[f] = FlowSpend(log, f) -
                       (IF pc \in {"load", "recover"} THEN 0 ELSE missed[f])

(* No lease is granted in a boot whose probe failed first: neither the exit *)
(* of a probe that timed out nor its output opens the guard later.         *)
SpawnsAreAuthed == live # {} \/ prompting # {} \/ lost # {} => first = "ok"

(* auth.ts: a stuck CLI must not wedge boot.  Whatever claude does, a boot  *)
(* gets past the probe, unless the engine is stopped.                      *)
BootNotWedged == (pc = "load") ~> (pc # "load" /\ pc # "recover" /\
                                   (pc = "preflight" => probe = "settled"))
=============================================================================
