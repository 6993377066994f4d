---------------------------- MODULE Orchestrator ----------------------------
(***************************************************************************)
(* The orchestrator (packages/engine/src/orchestrator.ts) running on the   *)
(* guard of module Guard, with the two runners and the bridge commands     *)
(* that start, stop and resume a flow.                                     *)
(*                                                                         *)
(* The engine is one event loop.  A step here is a synchronous stretch of  *)
(* code; the stretches that follow one another without real I/O form a     *)
(* turn, and a command, a timer or an I/O completion only starts when no   *)
(* turn is in progress (EventTurn).                                        *)
(*                                                                         *)
(* A call of startCycle is a walk, named by its flow and the number of its  *)
(* cycle; its locals (layer, todo, outcome) are kept per walk, because the  *)
(* workers of a call that has rejected go on.  A run is named by its flow,  *)
(* node and cycle, although the engine gives each a fresh id: that a node   *)
(* is started at most once by a walk is part of the specification Firing.   *)
(*                                                                         *)
(* Nodes are the agent nodes; a trigger node runs nothing and always       *)
(* satisfies the barrier, so it is left out of Layers and Preds.           *)
(***************************************************************************)
EXTENDS Guard, Sequences

CONSTANTS
  Nodes,
  Layers,       \* [Flows -> Seq(SUBSET Nodes)]: plan(flow).layers
  Preds,        \* [Flows -> [Nodes -> SUBSET Nodes]]: forward predecessors
  Producers,    \* nodes with a non-empty produces[]
  Unsafe,       \* nodes with a link (or in a directory) the blackboard refuses
  Unreadable,   \* producers with an artifact the blackboard may fail to read
  Review,       \* flows with reviewEachCycle
  Scheduled,    \* flows with an Agendado or Intervalo trigger
  ModelOf,      \* [Nodes -> Models]
  FakeRunner    \* FakeRunner (TRUE) or RealRunner (FALSE)

NoArm == -1

Cycle == 1 .. MaxCycleNo
Walks == Flows \X Cycle

ASSUME PlanAssumption ==
  /\ Runs = Flows \X Nodes \X Cycle
  /\ Layers \in [Flows -> Seq(SUBSET Nodes)]
  /\ Preds \in [Flows -> [Nodes -> SUBSET Nodes]]
  /\ ModelOf \in [Nodes -> Models]
  /\ FakeRunner \in BOOLEAN
(* plan() and kahnLayers take a node out of the graph when they lay it. *)
ASSUME LayersAssumption ==
  \A f \in Flows : \A i, j \in 1 .. Len(Layers[f]) :
    i # j => Layers[f][i] \cap Layers[f][j] = {}
(* A FakeRunner's contents are told apart by what cannedArtifact puts into   *)
(* them, and every cycle has contents of its own.                          *)
ASSUME CannedAssumption == FakeRunner => Nodes \X Cycle \subseteq Hashes
(* zFlowBudget: every limit is positive. *)
ASSUME BudgetAssumption ==
  \A f \in Flows : /\ MaxCyclesPerArm[f] > 0 /\ MaxConcurrent[f] > 0
                    /\ ConvergenceWindow[f] > 0

VARIABLES
  pc,          \* "idle", "start" (entering startCycle) or "cycle"
  arm,         \* startCycle's arm
  pendingArm,  \* pendingApprovals, NoArm when the flow has none
  loops,       \* flows whose spec has a feedback edge
  looping,     \* ... had one when the open cycle was planned
  layer,       \* layers a walk has resolved so far
  todo,        \* runnable nodes of its layer that no worker has taken yet
  outcome,     \* outcomes: per run of a walk
  phase,       \* where a run that holds a lease is
  artifact,    \* flows' nodes whose produces[] exist on the blackboard
  state,       \* FlowState last emitted
  ended,       \* status of the last cycle.ended, "none" after cycle.started
  awake,       \* flows whose trigger arms are not paused
  killTail,    \* flows whose flow.kill awaits the pane teardown
  (* history *)
  thrown,      \* walks that ended by rejecting
  known,       \* artifact contents ever written, per flow
  novel,       \* the last begun cycle wrote a content never written before
  base,        \* cycles the flow had begun before the current (or last) firing
  spawned      \* runs started by that firing

specVars  == <<loops, looping>>
stepVars  == <<pc, arm, pendingArm, layer, todo, specVars>>
runVars   == <<outcome, phase, artifact>>
viewVars  == <<state, ended>>
wakeVars  == <<awake, killTail>>
histVars  == <<known, novel>>
firingVars == <<base, spawned>>
loopVars  == <<stepVars, runVars, viewVars, wakeVars, thrown, histVars, firingVars>>
allVars   == <<vars, loopVars>>

isRunning(f)  == pc[f] # "idle"
isAwaiting(f) == pendingArm[f] # NoArm

Current(f) == <<f, cycleNo[f]>>     \* the walk of the open cycle
Of(w, n)   == <<w[1], n, w[2]>>     \* the run of node n in walk w

Busy(w) == {n \in Nodes : phase[Of(w, n)] # "none"}

----------------------------------------------------------------------------
(* The event loop *)

(* A worker of runLayerBounded is free and a node is left to take.  A worker *)
(* whose runNode has rejected ("lost") is gone.                            *)
CanTake(w) == todo[w] # {} /\ Cardinality(Busy(w)) < MaxConcurrent[w[1]]

Joined(f) ==
  pc[f] = "cycle" /\ todo[Current(f)] = {} /\ Busy(Current(f)) = {}

(* Promise.all has a rejected worker: startCycle is about to throw. *)
Rejecting(f) ==
  pc[f] = "cycle" /\ \E n \in Nodes : phase[Of(Current(f), n)] = "lost"

AnyKilled(f) == \E n \in Nodes : outcome[Of(Current(f), n)] = "killed"

LayersLeft(f) == layer[Current(f)] < Len(Layers[f])

(* Fault: a kill does not break out of the walk over the layers. *)
MoreLayersAfterKill(f) == Joined(f) /\ LayersLeft(f)

MoreLayers(f) == Joined(f) /\ ~ AnyKilled(f) /\ LayersLeft(f)
CycleOver(f)  == Joined(f) /\ (AnyKilled(f) \/ ~ LayersLeft(f))

NextLayer(f) == Layers[f][layer[Current(f)] + 1]

Ok(w, p) == outcome[Of(w, p)] = "ok"

(* barrierFor hashes a file as soon as one predecessor with produces is ok. *)
Reads(f, producers) ==
  \E n \in NextLayer(f) : \E p \in Preds[f][n] \cap producers : Ok(Current(f), p)

(* The flow's code has a continuation that runs before any other event. *)
InTurn(f) ==
  \/ pc[f] = "start" \/ Rejecting(f) \/ CycleOver(f)
  \/ MoreLayers(f) /\ ~ Reads(f, Producers)
  \/ \E c \in Cycle : CanTake(<<f, c>>)
  \/ \E r \in {f} \X Nodes \X Cycle :
       \/ phase[r] \in {"written", "metered"}
       \/ FakeRunner /\ phase[r] = "doomed"

EventTurn == \A f \in Flows : ~ InTurn(f)

----------------------------------------------------------------------------

Init0 ==
  /\ pc = [f \in Flows |-> "idle"] /\ arm = [f \in Flows |-> 0]
  /\ pendingArm = [f \in Flows |-> NoArm]
  /\ loops \in SUBSET Flows /\ looping = {}
  /\ layer = [w \in Walks |-> 0] /\ todo = [w \in Walks |-> {}]
  /\ outcome = [r \in Runs |-> "none"] /\ phase = [r \in Runs |-> "none"]
  /\ artifact = {}
  /\ state = [f \in Flows |-> "ocioso"] /\ ended = [f \in Flows |-> "none"]
  /\ awake = {} /\ killTail = {} /\ thrown = {}
  /\ known = [f \in Flows |-> {}] /\ novel = [f \in Flows |-> FALSE]
  /\ base = [f \in Flows |-> 0] /\ spawned = [f \in Flows |-> 0]

OrchestratorInit == Init /\ Init0

(* startCycle(f, cause, a), up to the point where it has marked the flow.   *)
StartCycle(f, a) ==
  /\ pc' = [pc EXCEPT ![f] = "start"]
  /\ arm' = [arm EXCEPT ![f] = a]

(* Bound: a firing begins only if all the cycles it may need are left.      *)
CyclesLeft(f) == cycleNo[f] + MaxCyclesPerArm[f] <= MaxCycleNo

FireNow(f) ==
  /\ StartCycle(f, 0)
  /\ base' = [base EXCEPT ![f] = cycleNo[f]]
  /\ spawned' = [spawned EXCEPT ![f] = 0]

(* Fault: a trigger ignores the checkpoint. *)
FreeIfNotRunning(f) == ~ isRunning(f)

Free(f) == ~ isRunning(f) /\ ~ isAwaiting(f)

(* scheduler.fire by a timer or a webhook; a fire on a busy flow is dropped *)
Fire(f) ==
  /\ EventTurn
  /\ f \in awake /\ Free(f) /\ CyclesLeft(f)
  /\ FireNow(f)
  /\ UNCHANGED <<vars, pendingArm, layer, todo, specVars, runVars, viewVars, wakeVars,
                 thrown, histVars>>

----------------------------------------------------------------------------
(* Bridge commands *)

RunNow(f) ==
  /\ EventTurn
  /\ SetFlowArmed(f, TRUE)
  /\ \/ Free(f) /\ CyclesLeft(f) /\ FireNow(f)
     \/ ~ Free(f) /\ UNCHANGED <<pc, arm, firingVars>>
  /\ UNCHANGED <<pendingArm, layer, todo, specVars, runVars, viewVars, wakeVars,
                 thrown, histVars>>

Play(f) ==
  /\ EventTurn
  /\ PlaySwitches(f)
  /\ awake' = awake \cup {f}
  /\ state' = [state EXCEPT ![f] =
       IF f \in Scheduled THEN "agendado" ELSE "ocioso"]
  /\ UNCHANGED <<stepVars, runVars, ended, killTail, thrown, histVars, firingVars>>

clearAwaiting(f) == pendingArm' = [pendingArm EXCEPT ![f] = NoArm]

Pause(f) ==
  /\ EventTurn
  /\ PauseSwitches(f)
  /\ awake' = awake \ {f}
  /\ clearAwaiting(f)
  /\ state' = [state EXCEPT ![f] = "pausado"]
  /\ UNCHANGED <<pc, arm, layer, todo, specVars, runVars, ended, killTail, thrown,
                 histVars, firingVars>>

(* flow.kill up to its await.  Bound: one kill of a flow in flight.         *)
Kill(f) ==
  /\ EventTurn
  /\ f \notin killTail
  /\ KillFlow(f)
  /\ killTail' = killTail \cup {f}
  /\ UNCHANGED <<stepVars, runVars, viewVars, awake, thrown, histVars, firingVars>>

(* flow.kill once the panes are gone, whatever happened in between.         *)
KillTail(f) ==
  /\ EventTurn
  /\ f \in killTail
  /\ killTail' = killTail \ {f}
  /\ awake' = awake \ {f}
  /\ clearAwaiting(f)
  /\ state' = [state EXCEPT ![f] = "ocioso"]
  /\ UNCHANGED <<vars, pc, arm, layer, todo, specVars, runVars, ended, thrown,
                 histVars, firingVars>>

Continue(f) ==
  /\ EventTurn
  /\ \/ /\ isAwaiting(f)
        /\ clearAwaiting(f)
        /\ StartCycle(f, pendingArm[f])
        /\ state' = [state EXCEPT ![f] = "rodando"]
     \/ /\ ~ isAwaiting(f)
        /\ state' = [state EXCEPT ![f] = "ocioso"]
        /\ UNCHANGED <<pc, arm, pendingArm>>
  /\ UNCHANGED <<vars, layer, todo, specVars, runVars, ended, wakeVars, thrown,
                 histVars, firingVars>>

(* spec.save of a flow whose feedback edge was added, kept or removed: the  *)
(* cached flow is replaced and flow.upserted carries the spec's own state. *)
SaveSpec(f, loop) ==
  /\ EventTurn
  /\ loops' = IF loop THEN loops \cup {f} ELSE loops \ {f}
  /\ state' = [state EXCEPT ![f] = "ocioso"]
  /\ UNCHANGED <<vars, pc, arm, pendingArm, layer, todo, looping, runVars,
                 ended, wakeVars, thrown, histVars, firingVars>>

----------------------------------------------------------------------------
(* startCycle *)

Begin(f) ==
  /\ pc[f] = "start"
  /\ BeginCycle(f)
  /\ pc' = [pc EXCEPT ![f] = "cycle"]
  /\ looping' = IF f \in loops THEN looping \cup {f} ELSE looping \ {f}
  /\ state' = [state EXCEPT ![f] = "rodando"]
  /\ ended' = [ended EXCEPT ![f] = "none"]
  /\ novel' = [novel EXCEPT ![f] = FALSE]
  /\ UNCHANGED <<arm, pendingArm, loops, layer, todo, runVars, wakeVars, thrown,
                 known, firingVars>>

(* blackboard.sha256 finds the artifact: it need not be of this cycle. *)
Present(f, p) == <<f, p>> \in artifact

(* Fault: an artifact on disk is taken for a settled predecessor. *)
BarrierOnFilesOnly(w, n) ==
  \A p \in Preds[w[1]][n] : p \in Producers => Present(w[1], p)

(* predecessorSatisfiesBarrier for each forward predecessor. *)
Barrier(w, n) ==
  \A p \in Preds[w[1]][n] : Ok(w, p) /\ (p \in Producers => Present(w[1], p))

ResolveLayer(f) ==
  LET w == Current(f)
      skipped == {Of(w, n) : n \in {m \in NextLayer(f) : ~ Barrier(w, m)}}
  IN /\ MoreLayers(f)
     /\ Reads(f, Producers) => EventTurn
     /\ layer' = [layer EXCEPT ![w] = @ + 1]
     /\ todo' = [todo EXCEPT ![w] = {n \in NextLayer(f) : Barrier(w, n)}]
     /\ outcome' = [r \in Runs |-> IF r \in skipped THEN "skipped" ELSE outcome[r]]
     /\ UNCHANGED <<vars, pc, arm, pendingArm, specVars, phase, artifact, viewVars,
                    wakeVars, thrown, histVars, firingVars>>

(* startCycle rejects: `finally` gives the flow back, but no cycle.ended and *)
(* no flow.stateChanged is emitted and nothing is released.  What the walk  *)
(* has queued and has out stays with its other workers.                    *)
Reject(f) ==
  /\ EndCycleUnsettled(f)
  /\ pc' = [pc EXCEPT ![f] = "idle"]
  /\ arm' = [arm EXCEPT ![f] = 0]
  /\ thrown' = thrown \cup {Current(f)}
  /\ UNCHANGED <<pendingArm, layer, todo, specVars, runVars, viewVars, wakeVars,
                 histVars, firingVars>>

(* A rejected worker rejects the layer's Promise.all. *)
LayerFails(f) == Rejecting(f) /\ Reject(f)

(* blackboard.sha256 throws for an artifact it may not or cannot read. *)
BarrierFails(f) == MoreLayers(f) /\ Reads(f, Unreadable) /\ Reject(f)

(* A run of the current firing is counted. *)
CountRun(w) == spawned' = [spawned EXCEPT ![w[1]] =
  IF w[2] > base[w[1]] THEN @ + 1 ELSE @]

(* A free worker takes a node: runNode up to its first await.  Once the     *)
(* guard has granted a lease, resolveDir may still throw, and then nobody   *)
(* is left to release it.  The order of the nodes of a layer is left open.  *)
TakeNode(w, n) ==
  LET r == Of(w, n)
  IN /\ CanTake(w) /\ n \in todo[w]
     /\ todo' = [todo EXCEPT ![w] = @ \ {n}]
     /\ \/ /\ RequestSpawn(w[1], r, ModelOf[n])
           /\ \E to \in {"admitted"} \cup (IF n \in Unsafe THEN {"lost"} ELSE {}) :
                phase' = [phase EXCEPT ![r] = to]
           /\ CountRun(w)
           /\ UNCHANGED outcome
        \/ /\ ~ Admissible(w[1], ModelOf[n])
           /\ outcome' = [outcome EXCEPT ![r] = "skipped"]
           /\ UNCHANGED <<vars, phase, spawned>>
     /\ UNCHANGED <<pc, arm, pendingArm, specVars, layer, artifact, viewVars,
                    wakeVars, thrown, histVars, base>>

(* The walk is over: its locals go out of scope. *)
Forget(w) == outcome' = [r \in Runs |->
  IF r[1] = w[1] /\ r[3] = w[2] THEN "none" ELSE outcome[r]]

(* The cycle is closed: cycle.ended s, flow.stateChanged v, running.delete. *)
Close(f, s, v) ==
  /\ pc' = [pc EXCEPT ![f] = "idle"]
  /\ layer' = [layer EXCEPT ![Current(f)] = 0]
  /\ arm' = [arm EXCEPT ![f] = 0]
  /\ ended' = [ended EXCEPT ![f] = s]
  /\ state' = [state EXCEPT ![f] = v]
  /\ Forget(Current(f))
  /\ UNCHANGED <<specVars, todo, phase, artifact, wakeVars, thrown, histVars,
                 firingVars>>

idleState(f) == IF f \in armed /\ f \in Scheduled THEN "agendado" ELSE "ocioso"

(* Fault: the killed path emits no flow.stateChanged. *)
EndKilledSilently(f) ==
  /\ CycleOver(f) /\ AnyKilled(f)
  /\ EndCycleUnsettled(f)
  /\ Close(f, "killed", state[f])
  /\ UNCHANGED pendingArm

EndKilled(f) ==
  /\ CycleOver(f) /\ AnyKilled(f)
  /\ EndCycleUnsettled(f)
  /\ Close(f, "killed", "pausado")
  /\ UNCHANGED pendingArm

EndDone(f) ==
  /\ CycleOver(f) /\ ~ AnyKilled(f) /\ f \notin looping
  /\ EndCycleUnsettled(f)
  /\ Close(f, "done", idleState(f))
  /\ UNCHANGED pendingArm

Gated(f) == CycleOver(f) /\ ~ AnyKilled(f) /\ f \in looping

EndStopped(f) ==
  /\ Gated(f) /\ GateStops(f, arm[f])
  /\ EndCycleUnsettled(f)
  /\ Close(f, IF f \in killed THEN "killed" ELSE "stopped", idleState(f))
  /\ UNCHANGED pendingArm

EndConverged(f) ==
  /\ Gated(f) /\ SettleCycle(f, arm[f]) /\ Converged(f)
  /\ Close(f, "converged", idleState(f))
  /\ UNCHANGED pendingArm

EndAwaiting(f) ==
  /\ Gated(f) /\ SettleCycle(f, arm[f]) /\ ~ Converged(f)
  /\ f \in Review
  /\ pendingArm' = [pendingArm EXCEPT ![f] = arm[f] + 1]
  /\ Close(f, "done", "aguardando")

(* Fault: the arm is not counted. *)
RearmSameArm(f) ==
  /\ Gated(f) /\ SettleCycle(f, arm[f]) /\ ~ Converged(f)
  /\ f \notin Review
  /\ StartCycle(f, arm[f])
  /\ layer' = [layer EXCEPT ![Current(f)] = 0]
  /\ ended' = [ended EXCEPT ![f] = "done"]
  /\ Forget(Current(f))
  /\ UNCHANGED <<pendingArm, specVars, todo, phase, artifact, state, wakeVars,
                 thrown, histVars, firingVars>>

Rearm(f) ==
  /\ Gated(f) /\ SettleCycle(f, arm[f]) /\ ~ Converged(f)
  /\ f \notin Review
  /\ StartCycle(f, arm[f] + 1)
  /\ layer' = [layer EXCEPT ![Current(f)] = 0]
  /\ ended' = [ended EXCEPT ![f] = "done"]
  /\ Forget(Current(f))
  /\ UNCHANGED <<pendingArm, specVars, todo, phase, artifact, state, wakeVars,
                 thrown, histVars, firingVars>>

Advance(f) ==
  \/ Begin(f) \/ ResolveLayer(f) \/ LayerFails(f) \/ BarrierFails(f)
  \/ (\E c \in Cycle, n \in Nodes : TakeNode(<<f, c>>, n))
  \/ EndKilled(f) \/ EndDone(f) \/ EndStopped(f)
  \/ EndConverged(f) \/ EndAwaiting(f) \/ Rearm(f)

----------------------------------------------------------------------------
(* The runners *)

MovePhase(r, from, to) ==
  phase[r] = from /\ phase' = [phase EXCEPT ![r] = to]

OnlyPhaseMoves ==
  UNCHANGED <<vars, stepVars, outcome, artifact, viewVars, wakeVars, thrown,
              histVars, firingVars>>

(* Fault: a run that was aborted meanwhile is left where it is. *)
StartRunUnlessAborted(w, n) ==
  /\ Of(w, n) \notin aborted
  /\ MovePhase(Of(w, n), "admitted",
       IF FakeRunner /\ n \notin Producers THEN "written" ELSE "executing")
  /\ EventTurn /\ OnlyPhaseMoves

(* The path translation runNode awaits is done: runAgent's first check.  A *)
(* fake run with nothing to write goes on to its meter in the same turn.   *)
StartRun(w, n) ==
  /\ \/ Of(w, n) \in aborted /\ MovePhase(Of(w, n), "admitted", "doomed")
     \/ /\ Of(w, n) \notin aborted
        /\ MovePhase(Of(w, n), "admitted",
             IF FakeRunner /\ n \notin Producers THEN "written" ELSE "executing")
  /\ EventTurn /\ OnlyPhaseMoves

(* ... or assemblePrompt throws on a link that leaves the flow's directory:  *)
(* before node.activated, outside runNode's try, with the lease out.       *)
PromptFails(w, n) ==
  /\ n \in Unsafe
  /\ MovePhase(Of(w, n), "admitted", "lost")
  /\ EventTurn /\ OnlyPhaseMoves

NoteWrite(w, n, h) ==
  LET f == w[1]
  IN /\ artifact' = artifact \cup {<<f, n>>}
     /\ known' = [known EXCEPT ![f] = @ \cup {h}]
     /\ novel' = [novel EXCEPT ![f] = @ \/ (w = Current(f) /\ h \notin known[f])]

(* The claude session of a terminal run writes its files itself: no event.  *)
AgentWrites(w, n, h) ==
  /\ ~ FakeRunner
  /\ phase[Of(w, n)] = "executing" /\ n \in Producers
  /\ EventTurn
  /\ NoteWrite(w, n, h)
  /\ UNCHANGED <<vars, stepVars, outcome, phase, viewVars, wakeVars, thrown,
                 firingVars>>

(* The node and the cycle tell contents apart; the arm adds nothing to them. *)
cannedArtifact(w, n) == <<n, w[2]>>

(* FakeRunner: blackboard.atomicWrite, whose event the guard folds. *)
FakeWrites(w, n, h) ==
  /\ FakeRunner
  /\ n \in Producers /\ h = cannedArtifact(w, n)
  /\ MovePhase(Of(w, n), "executing", "written")
  /\ EventTurn
  /\ NoteWrite(w, n, h)
  /\ FoldArtifactHash(w[1], h)
  /\ UNCHANGED <<stepVars, outcome, viewVars, wakeVars, thrown, firingVars>>

(* ... unless the blackboard refuses the path, or the disk the write.  The   *)
(* run goes on; its successors' barrier finds no file, or throws as well.  *)
FakeWriteRefused(w, n) ==
  /\ FakeRunner
  /\ MovePhase(Of(w, n), "executing", "written")
  /\ EventTurn /\ OnlyPhaseMoves

FakeMeters(w, n, d) ==
  LET f == w[1]
      r == Of(w, n)
  IN /\ MovePhase(r, "written", "metered")
     /\ MeterTripsRun(f, r, d) \/ MeterKillsFlow(f, r, d) \/ MeterOnly(f, r, d)
     /\ UNCHANGED <<stepVars, outcome, artifact, viewVars, wakeVars, thrown,
                    histVars, firingVars>>

(* runNode's answer; a runner that throws has failed. *)
Conclude(r, status) == outcome' = [outcome EXCEPT ![r] = status]

(* Fault: a killed run's lease is left to the kill to clean up. *)
FinishWithoutRelease(w, n, from, status, final) ==
  LET r == Of(w, n)
  IN /\ MovePhase(r, from, "none")
     /\ \/ status = "killed" /\ UNCHANGED vars
        \/ status # "killed" /\ ReleaseLease(w[1], r, final)
     /\ Conclude(r, status)
     /\ UNCHANGED <<stepVars, artifact, viewVars, wakeVars, thrown, histVars,
                    firingVars>>

(* finalizeRun, then runNode goes on. *)
Finish(w, n, from, status, final) ==
  LET r == Of(w, n)
  IN /\ MovePhase(r, from, "none")
     /\ ReleaseLease(w[1], r, final)
     /\ Conclude(r, status)
     /\ UNCHANGED <<stepVars, artifact, viewVars, wakeVars, thrown, histVars,
                    firingVars>>

FinishFake(w, n) == Finish(w, n, "metered", "ok", spent[Of(w, n)])

FinishReal(w, n, status) ==
  /\ ~ FakeRunner
  /\ status = "killed" => Of(w, n) \in aborted
  /\ Finish(w, n, "executing", status, Zero)
  /\ EventTurn

FinishDoomed(w, n) ==
  /\ Finish(w, n, "doomed", "killed", Zero)
  /\ FakeRunner \/ EventTurn

RunStep(w, n) ==
  \/ StartRun(w, n) \/ PromptFails(w, n)
  \/ \E h \in Hashes : FakeWrites(w, n, h)
  \/ FakeWriteRefused(w, n)
  \/ \E d \in Deltas : FakeMeters(w, n, d)
  \/ FinishFake(w, n) \/ FinishDoomed(w, n)
  \/ \E s \in {"ok", "failed", "killed"} : FinishReal(w, n, s)

----------------------------------------------------------------------------

Command(f) ==
  \/ RunNow(f) \/ Play(f) \/ Pause(f) \/ Kill(f) \/ Continue(f)
  \/ \E loop \in BOOLEAN : SaveSpec(f, loop)

OrchestratorNext ==
  \/ \E f \in Flows : Fire(f) \/ Command(f) \/ KillTail(f) \/ Advance(f)
  \/ \E w \in Walks, n \in Nodes :
       RunStep(w, n) \/ \E h \in Hashes : AgentWrites(w, n, h)

OrchestratorSpec == OrchestratorInit /\ [][OrchestratorNext]_allVars

(* A turn runs to its end; the runs of a flow go on, for each ends by itself, *)
(* by the abort or by the wall-clock timeout of its pane; a pane teardown   *)
(* returns.  Nothing is assumed of users, triggers or agents' writes.      *)
Fairness ==
  \A f \in Flows :
    /\ WF_allVars(Advance(f)) /\ WF_allVars(KillTail(f))
    /\ WF_allVars(\E c \in Cycle, n \in Nodes : RunStep(<<f, c>>, n))

FairSpec == OrchestratorSpec /\ Fairness

----------------------------------------------------------------------------
(* Properties *)

OrchestratorTypeOK ==
  /\ pc \in [Flows -> {"idle", "start", "cycle"}]
  /\ arm \in [Flows -> Nat]
  /\ \A f \in Flows : arm[f] < MaxCyclesPerArm[f]
  /\ pendingArm \in [Flows -> Nat \cup {NoArm}]
  /\ \A f \in Flows : pendingArm[f] < MaxCyclesPerArm[f]
  /\ loops \in SUBSET Flows /\ looping \in SUBSET Flows
  /\ layer \in [Walks -> Nat] /\ todo \in [Walks -> SUBSET Nodes]
  /\ \A w \in Walks : layer[w] <= Len(Layers[w[1]])
  /\ outcome \in [Runs -> {"none", "ok", "failed", "skipped", "killed"}]
  /\ phase \in [Runs -> {"none", "admitted", "executing", "doomed",
                        "written", "metered", "lost"}]
  /\ artifact \in SUBSET (Flows \X Nodes)
  /\ state \in [Flows -> {"ocioso", "agendado", "rodando", "aguardando",
                         "pausado"}]
  /\ ended \in [Flows -> {"none", "done", "converged", "stopped", "killed"}]
  /\ awake \in SUBSET Flows /\ killTail \in SUBSET Flows
  /\ thrown \in SUBSET Walks
  /\ known \in [Flows -> SUBSET Hashes] /\ novel \in [Flows -> BOOLEAN]
  /\ base \in [Flows -> Nat] /\ spawned \in [Flows -> Nat]

(* The walk is the open cycle's, or one whose startCycle has rejected. *)
Alive(w) == (pc[w[1]] = "cycle" /\ w = Current(w[1])) \/ w \in thrown

(* Leases and walks agree: a run holds a lease of the guard exactly while    *)
(* its runNode has it or has thrown with it, and unless its startCycle      *)
(* rejected every lease of a cycle is back when the cycle has ended.        *)
NoLeaseLeak ==
  \A w \in Walks, n \in Nodes :
    /\ Of(w, n) \in liveRuns[w[1]] <=> phase[Of(w, n)] # "none"
    /\ Of(w, n) \in liveRuns[w[1]] => Alive(w)
    /\ phase[Of(w, n)] = "lost" => Rejecting(w[1]) \/ w \in thrown

(* The JOIN barrier: an agent that runs, or has run in a walk, has all of    *)
(* its forward predecessors settled ok in that same walk, the workers that  *)
(* outlive a rejected one included.                                        *)
BarrierRespected ==
  \A w \in Walks, n \in Nodes :
    phase[Of(w, n)] # "none" \/ outcome[Of(w, n)] \in {"ok", "failed", "killed"}
      => \A p \in Preds[w[1]][n] : Ok(w, p)

(* A killed run aborts the remaining layers: no agent of a layer behind the *)
(* one in which a run was killed is started, or even resolved, any more.   *)
KilledRunEndsCycle ==
  \A w \in Walks : \A i, j \in 1 .. Len(Layers[w[1]]) :
    i < j /\ (\E n \in Layers[w[1]][i] : outcome[Of(w, n)] = "killed")
      => \A n \in Layers[w[1]][j] :
           phase[Of(w, n)] = "none" /\ outcome[Of(w, n)] = "none"

(* Waiting for approval, a flow is at rest: no cycle, no lease but those of  *)
(* cycles that were thrown, and the continuation it holds is one the guard  *)
(* still allowed.                                                          *)
AwaitingIsQuiescent ==
  \A f \in Flows : isAwaiting(f) =>
    /\ ~ isRunning(f) /\ ~ cycleOpen[f]
    /\ \A r \in liveRuns[f] : <<f, r[3]>> \in thrown
    /\ pendingArm[f] \in 1 .. MaxCyclesPerArm[f] - 1

(* cycle.converged says "no-new-output": the cycle that converged wrote no  *)
(* content the flow had not seen.                                          *)
ConvergedWroteNothingNew ==
  \A f \in Flows : ended[f] = "converged" => ~ novel[f]

(* A flow the projection shows as running has its cycle in flight, unless    *)
(* that cycle was thrown.                                                  *)
RodandoIsRunning ==
  \A f \in Flows : state[f] = "rodando" => isRunning(f) \/ Current(f) \in thrown

(* Every cycle that begins comes to an end and gives the flow back. *)
CycleEnds == \A f \in Flows : isRunning(f) ~> ~ isRunning(f)

(* The firing this module implements. *)
F == INSTANCE Firing WITH
  MaxCycles <- MaxCyclesPerArm,
  stage <- [f \in Flows |-> IF isRunning(f) THEN "cycling"
                            ELSE IF isAwaiting(f) THEN "awaiting" ELSE "idle"],
  cycles <- [f \in Flows |-> IF isRunning(f) THEN arm[f] + 1
                             ELSE IF isAwaiting(f) THEN pendingArm[f] ELSE 0],
  age <- [f \in Flows |-> IF pc[f] = "start" THEN cycleNo[f] + 1 ELSE cycleNo[f]],
  broken <- [f \in Flows |-> {c \in Cycle : <<f, c>> \in thrown}],
  ran <- [f \in Flows |-> {a \in Nodes \X Cycle :
            \/ phase[<<f, a[1], a[2]>>] # "none"
            \/ outcome[<<f, a[1], a[2]>>] \in {"ok", "failed", "killed"}}],
  live <- [f \in Flows |-> {a \in Nodes \X Cycle :
            phase[<<f, a[1], a[2]>>] # "none"}],
  runs <- spawned

ImplementsFiring == F!Spec
=============================================================================
