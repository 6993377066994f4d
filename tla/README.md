# Loom: TLA+ specifications and proofs

Loom runs flows of `claude` agents: a flow is a graph of nodes, a trigger fires
it, and every cycle walks the graph layer by layer, spending money on each
agent. An engine (`src/loom/packages/engine/src`, one Node.js process) runs the
flows, keeps an append-only event log and serves a browser client
(`packages/web/src`) over a WebSocket. This directory models both as TLA+
modules, checks them with TLC on small instances and proves the properties that
matter most with TLAPS for every value of the constants. Paths below are
relative to the engine's sources unless they say otherwise.

All of the modules are written from the code. Where a comment, a document or a
test says something else, the model follows the code, and section 6 lists the
difference.

## 1. Inventory of the system

| Part | State | Operations | Talks to | Module |
|---|---|---|---|---|
| Guard (`guard.ts`) | live leases and what they reserved and spent, committed spend, paused / armed / killed flows, convergence state | `requestSpawn`, `releaseLease`, `meterToken`, `requestNextCycle`, `foldArtifactHash`, `killFlow`, `setFlowPaused`, `setFlowArmed` | called by everyone; listens to `blackboard.write`; kills panes | `Guard` |
| Orchestrator (`orchestrator.ts`) | `running`, `pendingApprovals`; in `startCycle` outcomes and layer | `plan`, `startCycle`, `continueFlow`, `clearAwaiting`, `recoverOrphans` | guard, runner, event log, spec store | `Orchestrator`, `Layering`, `Restart` |
| Runners (`runner.ts`) | one call per run | `runAgent` of `RealRunner` (panes) and `FakeRunner` (metered) | guard, terminals, blackboard | `Orchestrator`, `Terminals` |
| Bridge (`bridge.ts`) | sockets, subscriptions | flow, spec and terminal commands, hello, subscribe, relay | all parts | `Orchestrator`, `SpecStore`, `Client`, `Editor`, `Terminals` |
| Scheduler (`scheduler.ts`) | one arm per trigger: paused flag, cron job, timer | `armFlow`, `pauseFlow`, `resumeFlow`, `runNow`, webhook, ticks, `start`, `stop` | orchestrator | `Scheduler`, `Calendar` |
| Terminals (`terminals.ts`) | per pane: alive, degraded, `runSeq`, ownership, pipe, replay | `ensure`, `send`, `setOwnership`, `runInPane`, `dispose` | tmux | `Terminals` |
| Spec store (`spec.ts`) | cache, YAML files, snapshots, archive | `load`, `save`, `create`, `delete`, `lint`, `kahnLayers` | event log | `SpecStore`, `Layering` |
| Event log (`eventlog.ts`) | the log | `append`, `readSince`, folds | everyone emits | `EventLog` |
| Blackboard (`blackboard.ts`) | directories, a promise chain per path | `configureFlow`, `write`, `read`, sha256 | event log | `Blackboard` |
| Auth (`auth.ts`) | verdict | `preflight`, `isReady` | guard | `AuthProbe` |
| Boot, stop (`main.ts`) | none | order of construction, recovery, pre-flight, serving | all | `Restart` |
| Generator (`generator.ts`) | none | one prompt | bridge | `SpecStore` |
| Client: socket and store (`wsClient.ts`, `store.ts`) | outbox, cursor, rail, selection, copies of flows | fold of events, edits, commands | bridge | `Client`, `Editor` |
| Client: canvas (`CanvasGraph.tsx`) | the drag in progress | edges, moves | store | `Editor` |
| Shared (`packages/shared/src`) | none | schemas, `findForwardCycle`, narration | all | `Layering`, `Calendar` |

What is hard about it: the engine is one event loop, so a synchronous stretch
is atomic, but every `await` lets commands, timers, webhooks, finished runs,
file operations and tmux processes in. State is read before such a point and
used behind it; arms and terminal entries are objects a continuation may hold
after the registry has replaced them; tmux outlives the calls and its channels
are shared; a stop may fall between two appends of one handler; a browser edits
a copy that a snapshot replaces at any time, over a socket that breaks.
`PROJECT.json` lists every such hazard at its line, with the properties that
would catch it.

## 2. Modules

| Module | Models | Builds on |
|---|---|---|
| `Guard` | `guard.ts`, free callers | |
| `Firing` | abstract: what one firing of a flow promises | |
| `Orchestrator` | cycles, runs, barrier, checkpoints, both runners, the flow commands, `fire` | `Guard`, instance of `Firing` |
| `Scheduler` | arms, ticks, cron jobs, webhooks, boot and stop | |
| `Calendar` | pure: cron patterns and the schedule preview | |
| `Terminals` | `runInPane`, interrupts, sessions, ownership, `dispose`; tmux | |
| `Layering` | pure: `findForwardCycle`, `lint`, `kahnLayers`, `plan` | |
| `SpecStore` | specs in file, cache and log, under the commands that write them | |
| `EventLog` | pure: the log and its folds | |
| `AuthProbe` | the probe's race | |
| `Restart` | boots, recovery, crashes | `AuthProbe`, `EventLog` |
| `Blackboard` | the lock, atomic writes, directories | |
| `Client` | socket, subscription, fold | `EventLog` |
| `Editor` | edits of one flow by several browsers | |
| `OrchestratorProofs` | theorems of `Guard`, `Orchestrator` and `Firing` | `Orchestrator`, `FiniteTheorems` |
| `ServicesProofs` | theorems of `Scheduler`, `Terminals` and `Blackboard` | the three |
| `LayeringProofs`, `SpecStoreProofs`, `EditorProofs` | theorems | the module named |
| `RestartProofs` | theorems of `Restart`, `AuthProbe` and the folds | `Restart`, `FiniteTheorems` |
| `ClientProofs` | theorems of `Client` | `Client`, `FiniteTheorems` |
| `FiniteTheorems` | lemmas about finite sets, sequences and sums | |
| `MC...` | constants for TLC | the module named |

An operator introduced by a comment that begins with "Fault" is a broken
variant of the definition below it, of the kind a slip in the code would give;
it is in no behaviour of any specification and serves to see that a property
notices.

**Guard.** An action per operation. An amount is a function on the two metrics
(money, tokens); `Held[r]` is the larger of what a run reserved and what it has
spent, as `outstanding` computes it. `requestSpawn` is one synchronous function,
so `RequestSpawn` is one action and a denial leaves the guard unchanged.
`meterToken` has three outcomes that are three actions: the run trips its own
cap (`tripRun` and an early return, before the flow cap is looked at), the flow
cap is crossed (`killFlow`), or neither. `productive` and `streak` are history, and
so is `excess`: what runs spent beyond their own reservations since the last
admission. It starts over with every admission because `requestSpawn` counts every
earlier overshoot, settled or live, so a projection that forgets one breaks
`FlowCapHeld`. Not here: the kill registry of child processes (nothing registers a
child), log lines and denial reasons.

**Orchestrator.** `pc[f]` says where `startCycle` is; its locals are kept per walk
(a flow and a cycle number), because a call may reject while its workers go on:
once the guard has granted a lease, `resolveDir` may throw (`TakeNode`, for nodes in
`Unsafe`) and so may `assemblePrompt` (`PromptFails`). The run's phase is then
`lost`: its lease stays out and its worker is gone. `Promise.all` rejects with it,
and `startCycle` ends through its `finally` alone (`Reject`): the flow is free
again, no event says so, and the walk is `thrown`, with its other workers still
taking nodes beside a next cycle of the same flow. The barrier's hash may throw,
too (`BarrierFails`, for an artifact in `Unreadable`). A run that has been granted
its lease awaits the path translation before the runner starts it (`admitted`), and
a kill may come in that window. The event loop is modelled
by `InTurn`: stretches that follow one another through resolved promises only
form a turn, and a command, timer or I/O completion (guard `EventTurn`) waits
for it. Where a continuation needs a real file read or a pane the turn ends and
anything may come between. `flow.kill` has a second half after its pane teardown
(`KillTail`). The plan is a constant (`Layering` has how it is made); `looping`
is the feedback edge as the plan saw it, `loops` as the last save left it. A
fake run's artifact is the `cannedArtifact` of its node and cycle, so a cycle
that wrote has written something new. All arms of a flow are one flag
(`awake`); a terminal run ends with any status at any time, killed only if
aborted: `Scheduler` and `Terminals` have the details. The refinement mapping to
`Firing`: `stage` from `running` and `pendingApprovals`, `cycles` from `arm` and
the pending one, `age` from the cycle number, `broken` from the thrown walks, `ran`
and `live` from outcome and phase, `runs` from the history variable `spawned`.
`Firing` says that a broken cycle ends the firing, that what it leaves running
starts no agent twice, and how many runs a firing may start.

**Scheduler, Calendar.** Arm `<<t, k>>` is the k-th arm object made for trigger
`t`; `latest` says which one the registry holds. `armFlow` makes a new object
and disposes of the clocks of the old one but leaves its `paused` flag alone,
and a suspended tick goes on with the object it holds (`ticking`, `waiting`).
`start` and `stop` are actions. `Calendar` computes the cron pattern of a
schedule; that it is valid, fires on the documented days and agrees with the
preview are assumptions of `MCScheduler`, evaluated over every configuration.

**Terminals.** Each tmux command is a process the engine awaits, so
`runInPane` is `Claim`, `Start`, `Type`, `Block`, then `Unblock` (the engine sees
the release and removes its listener), `Read` (the exit code is back), `Tidy` (the
variable is dropped and the call returns) and `Settle` (the runner has captured the
pane and collected the artifacts), with `Abort`, `Watchdog` and `GraceOver` beside
them. Between `Unblock` and `Settle` an abort is heard by nobody (`Deaf`); `late`
keeps the runs it came to then. An entry may be gone while a call still
holds it: `held` says which calls' entries are the registry's, `stray` which
panes a call without its entry has typed in. `Links` are the linked terminals a
run's node claims. The tmux server and the shell are external: a channel
signalled while someone waits releases all waiters, otherwise it stays woken,
and a second signal forgets it; on Ctrl-C the shell keeps some prefix of what it
had to do. An exit code is kept as zero or not.

**Layering.** A step is a call of `dfs`, a neighbour it looks at, its return, or
one pass of a layering loop, over one candidate spec: first the cycle search,
then `lint`'s layers, then `plan`'s. The references (`Acyclic`, layering) are
stated without any algorithm.

**SpecStore.** An operation is a command in flight and a step is a stretch up to
its next await, or the file operation. File, cache and the rail's last word are
three variables; snapshots and archive are kept by flow. A browser's save hands on
nothing of the flag its edit carries, as the bridge does (6.7). `raced` marks flows on
which two commands have overlapped, `ghosts` what a crash in mid-delete leaves on
the rail. Crashes keep files and log.

**EventLog, AuthProbe, Restart.** Only the log survives a stop. A handler leaves
the events it emits in `out` and `Flush` appends them one at a time, so a stop
can fall between any two. A run is admitted (`RequestSpawn`, `prompting`) before it
is started (`StartRun`, `live`), because the path translation is awaited between;
there its prompt may throw instead (`LoseLease`, `lost`), which rejects the cycle as
an artifact the barrier cannot hash does (`RefuseBarrier`). `Reject` frees the flow
and appends nothing; `thrown` keeps the flow, `stray` the cycles whose workers go
on taking nodes. `Restart` boots in `main.ts`'s order: build (the meter
is folded), load, recover, pre-flight with the probe of `AuthProbe`, dry run or
serving. The log holds the events that a fold reads. Recovery ends the unfinished
runs and then closes their flows' cycles in any order (`Listings`): the code sorts
the runs by a clock that may have been set back.

**Blackboard.** A call of `atomicWrite` takes a number in the chain of its path
(`locks`) and goes through mkdir, temporary file, rename and event; each may
fail. Agents write the same files without the engine.

**Client.** The socket delivers in order; when it breaks, what the server had
not got is lost and a suffix of what it had sent. `flow.delete`, of this browser or another
(`DeleteElsewhere`), has the three stretches of the handler: it waits for the runs
to be killed (`deleting`), then the cache loses the flow (`DropSpec`, `removing`),
then the removal is logged (`EmitRemoved`). `lastSeq`, the rail and the
selection are what the fold of the log depends on; the rest of the store is not.

**Editor.** A flow is its nodes, forward edges, the setting of its triggers, a
flag (`reviewEachCycle`; `workDir` fares the same) and whatever else an edit may
change. `copy` is `flowsById`, `connecting` the node an edge is dragged from. A
command is handled up to its first await (lint included); saves end in any
order and are broadcast.

## 3. Runs

| Run | Instance | Shows |
|---|---|---|
| `guard` | one flow, three runs (symmetric), two models and two metrics whose caps bind in turn, two slots, overshoot up to 3, one unit spent before boot, two cycles and two contents | kill latch, per-run trip, flow cap over siblings that overshoot, convergence counter |
| `real_cycles` | fan-out of two and a join, two slots, one unsafe node, one unreadable artifact, firings of two cycles, three in all (207,242 states) | leases are those of runs at work or thrown, barrier, kill ends the walk; implements `Firing` |
| `fake_review` | chain of two metered runs that overshoot, one of them unsafe, reviewed, window of one, firings of two cycles, fair (123,200 states) | convergence only without new output, a waiting flow is at rest, a flow shown running runs unless thrown, every cycle ends |
| `trigger_arms` | two triggers re-armed once each, three kinds, a tick waiting beside one in flight | boot inert, dormant silent, awake stays armed; calendar |
| `pane_runs` | two runs side by side, both abortable, in panes a teardown may take; the first's is linked by the second and opened by a browser; fair (1,368,014 states) | ok is earned, an abort that is heard is reported, every call returns |
| `layering` | every graph of up to four forward edges on four nodes, with a doubled or a feedback edge, with a node missing, two writers | cycle search exact, plan is a layering, lint and plan agree |
| `spec_saves` | one flow, two commands at a time, three over all boots, three versions (805,542 states) | no text lost, copies agree, versions rise |
| `engine_restarts` | one flow, two runs, two cycles that may throw, three boots, fair boot (594,539 states) | recovery, cycle numbers, shown state, meter, authenticated spawns, boot not wedged |
| `client_sync` | two flows, two events, one broken socket, two clicks, a second browser that deletes, fair (1,869,880 states) | folded once, no gap, rail follows the log, a broken socket comes back |
| `blackboard_writes` | two calls of two flows that may share a directory, one of which moves, one stop, fair | events tell the truth, writes settle |
| `flow_edits` | two users (symmetric), a trigger, an agent and room for one, four user actions, one broken socket | the engine's flow can run, copies agree |
| `shared_channel` | two runs side by side, nothing aborted or torn down | violation, 6.1 |

Why the bounds are enough. Flows share nothing in the guard but the auth
verdict and the set of run ids, so one flow shows the orders that matter. Two
slots and three runs let a third admission be refused and then succeed; two
nodes in a layer with one behind them give the join, a kill with one run live and
one queued, and a failed branch. Two cycles per firing reach the re-arm and the
refused one, three in all a second firing, or a next cycle beside the workers a
thrown one left. Two arms per trigger are the one in
the registry and the one a tick still holds. In `pane_runs` both runs are the first
of their pane and so wait on one channel: each can be released by the other's
command, by the other's late signal or by its own. That a second run of a pane
cannot take up what the first left is `OkWasEarned`, for any number of runs. Four nodes and four edges hold every cycle of
up to four nodes, a diamond and a chain. Two commands in `spec_saves` are a race,
three the undoing of a delete; recovery is per flow, two runs leave one settled
and one cut off, and three boots a stop in the middle of a recovery. Two events
of two flows meet a replay, a broadcast and a live tail in every order. The
theorems of section 5 hold without these bounds. Names that begin with `Max`, and
`Killable`, `Abortable`, `Viewed`, are bounds and appear only in guards; a firing
begins only when all the cycles it may need are left.

The type invariants (`StoreTypeOK`, `RestartTypeOK`, `ClientTypeOK` and the others)
hold in these instances, too; to check one, name it in the run's configuration.

Deadlock is checked in `guard`, `real_cycles`, `fake_review` and
`trigger_arms`; the other instances end when their bounded runs, commands, edits
or boots are used up.

## 4. Fairness

- `Orchestrator!FairSpec`: weak fairness of `Advance` (the event loop runs a turn
  to its end), of every step of a run (a terminal run ends by itself, by the
  abort or by the watchdog: that is `EveryCallReturns`) and of the end of a pane
  teardown. Nothing is assumed of users, triggers or what agents write.
- `TerminalsFairness`: the engine's awaits return and its timers go off. The
  command in the pane may hang for ever.
- `Restart!BootFairness`: boot's own steps, and of the probe its timer alone:
  claude need neither answer nor exit.
- `Client!FairSpec`: the bridge serves what arrives, the browser delivers what it
  got and the backoff timer fires; broken sockets are bounded, and users and
  engine promise nothing.
- `Blackboard!FairSpec`: a file operation that has begun ends, well or not.

## 5. What is proved

Every theorem is for all values of the constants that satisfy the named
assumptions, which are the schemas' limits and the types of the parameters. TLC
evaluates the assumptions in every run. Every safety invariant the runs check is
a theorem.

**Sets, sequences, sums** (`FiniteTheorems`). The library's induction theorems take
a predicate as a parameter, which the installed provers cannot instantiate. A proof
here takes a set instead: of the subsets on which a claim fails, one is minimal
(`MinimalSubset`); a set with 0 and the successor of each of its members below `n`
has the numbers up to `n` (`Climb`). From these come the largest member of a finite
set of places in the log, a cycle or a source in a graph, and what a sum over a set
of runs does: it satisfies its recursion, may be taken in any order, and one more
member adds its value. `Concatenation`, `Tails` and `Heads` say what a queue, a log
or an outbox becomes place by place.

**Guard** (`OrchestratorProofs`, part 1). `GuardInv` is inductive. Beside the
properties themselves it has `LeasesWellFormed` (a run holds a lease of one flow,
lease sets are finite, a run without a lease has an empty meter:
`ConcurrencyBound` speaks of cardinalities and an admission must not inherit an
old meter) and `LatchShowsProductive` (while a cycle that wrote something new is
open, the latch says so: without it the settlement of a productive cycle could
count it as barren). From it: `GuardTypeCorrect`, `GuardConcurrencyBound`,
`GuardKilledIsQuiet`, `GuardOverCapIsAborted`, `GuardBarrenNeverOvercounts`.
`GuardFlowCapHeld` needs `CapInv` beside it: per metric, what is committed and
what the live leases hold is at most the cap, or what the boot found spent, and
`excess`. An admission counts all of it and so may start `excess` over; a token
raises `Held[r]` by at most what it overshoots, and a release moves a lease's spend
into the committed sum.

**Orchestrator** (part 2). `OrchestratorTypeCorrect` gives the types and the bound
on the arm counter. `OrchestratorUsesGuard`: every step of the composition is a
step of the guard or a stutter, which is how the guard's theorems come to
hold of the engine (`OrchestratorConcurrencyBound`, `OrchestratorFlowCapHeld`).
`RestInv` is inductive: `SlotInv` ties together a run's lease, its phase and the
walk it is of, which is the open cycle's or a thrown one; `AwaitInv` the pending
approval and the idle flow, `RodandoIsRunning` the projected state. From it:
`OrchestratorNoLeaseLeak`, `OrchestratorAwaitingIsQuiescent`,
`OrchestratorRodandoIsRunning`. All three name the exception that the code makes: a
walk whose `startCycle` rejected (6.4, 6.5). `WalkInv` adds where each walk is: a node that is queued
or out is in the walk's layer, has no outcome and has its predecessors settled ok;
one that ended was started so; a killed one is of the last layer resolved, for the
walk goes no further; the layers ahead are untouched
(`OrchestratorBarrierRespected`, `OrchestratorKilledRunEndsCycle`). A thrown walk
keeps all of this, since it resolves nothing any more. It needs
`LayersAssumption`, that a node is in one layer, which is what
`LayeringPlanIsALayering` proves of the plan. `NoveltyInv` says that under the
`FakeRunner`, whose writes all reach the guard, the guard's hashes are what was
written and its latch shows at least what the cycle wrote (`OrchestratorConvergedWroteNothingNew`); for terminal runs it
is false, see 6.3.

`OrchestratorImplementsFiring` is the refinement: the initial states map to an
initial state of `Firing`, and `OrchestratorProofs` shows action by action which
step of a firing it is, or that it stutters, the rejection of a cycle (`Firing`'s
broken one) and what its workers still start included. `OrchestratorRunsBounded`
follows: a firing starts at most `MaxCycles` times as many runs as it has agents.
`Accounted` says what the cycles before the last one, and the last one itself, have
used of that; only the last can have broken.

**Layering.** `LayeringInv` has a part per phase. In the search the stack is a path
of forward edges through the gray nodes, and what is black is closed under
successors and acyclic; so the link the search reports closes a cycle, and when it
ends without one every node is black. In the two layering loops what is taken is
closed under predecessors and the frontier is what waits for nothing else; an
acyclic rest has a node without a predecessor, so neither loop stops early. The
layers of `lint` and those of `plan` are the same sets, which is what makes lint's
single-writer verdict one about the plan. From it:
`LayeringCycleExact`, `LayeringPlanIsALayering`, `LayeringSingleWriterPlanned`,
`LayeringTypeCorrect`, for graphs of any size.

**SpecStore.** `StoreInv` is inductive: types, `Sound` (an entry of the cache carries
its flow's own text, and a save writes the version after the one it read) and, for
flows on which no two commands have overlapped, `FlowInv`: every text the flow has
had is its file's, in a snapshot, archived, or given up by name, and the file's is
the newest (`Kept`); with no command in flight file, cache and rail agree; and each
phase of a save or a delete says in which of them the old text is and in which the
new (`Phase`). From it: `StoreTypeCorrect`,
`StoreKeepsEveryText`, `StoreSettlesInAgreement`, and the action property
`StoreVersionsRise`.

**Restart.** `AuthInv`: nothing is published before the probe has settled and
nothing changes after (`RestartSpawnsAreAuthed`). The others are invariants of
`Full`, the log followed by the events the current handler has yet to append: a
flush leaves it alone, and a stop cuts it to a prefix. `LogInv`: cycle numbers rise
in it; from recovery on its open runs are the ones the runner has; and what it told
of a loaded flow is what the engine holds, or its last cycle threw (`RestartCycleNumbersRise`,
`RestartOnlyLiveRunsOpen`, `RestartShownIsHeld`). `LedgerInv`: a run starts once and
its tokens come after its start, a live run has none, and the meter is the settled
spend of `Full`, less what recovery settled (`RestartMeterIsLog`). `HeldInv` adds
what running and waiting flows have to do with the store (`RestartTypeCorrect`).
What each handler appends is a lemma about concatenation, for recovery in whatever
order the runs and the flows come.

**Scheduler** (`ServicesProofs`, part 1). `ClockInv`: a clock belongs to an awake
arm, an arm is awake only in a played flow, and no awake arm is ahead of the latest
of its trigger (so the arm `armFlow` makes is new and cannot be awake by accident).
From it: `SchedulerInertUntilPlayed`, `SchedulerDormantIsSilent`,
`SchedulerAwakeStaysArmed`.

**Terminals** (part 2). `OkWasEarned`, `KilledIsReported`, `TerminalsTypeCorrect`.
An abort that is heard is in `heard` from then on (`AbortsHeard`), and one that comes
to a deaf call is in `late`, the exception the code makes.
`Lined` says that lines and pending interrupts belong to calls that have a number;
`Alone` that the calls in a pane do not overlap; `Clean` what a call knows of a
pane no stray call has typed in: with its entry still registered, the entry's
number is its own and the exit code under it is its own command's; without, the
pane is empty. A teardown is what the last part is for: it starts the numbers over
and clears the environment in one step.

**Blackboard** (part 3). `WritesAreSerial`, `EventsAreTrue`, `BlackboardTypeCorrect`. The
calls of a path have consecutive numbers, each once, and a call that runs has
only settled ones before it (`InTurn`): so one runs at a time, and between a
rename and its event the file holds that call's text (`RenamedHolds`).

**Editor.** `FlowStaysSound`: everything in `saving` has passed lint, for lint
comes before the first await. `CopiesComeToAgree`: a connected user has asked for
the flow, or the last snapshot on its way is the flow, or the copy is, unless
edited (`Synced`): an invariant a broken socket, a late save and a drag all keep.

**Client** (`ClientProofs`). The fold of a batch is a recursive function over the
log; `ViewExists` shows by `Climb` that it is the one its equations describe, and
`FoldAllFacts`, `FoldKeeps` and `FoldDrops` what it does to the cursor, to the
folded events and to the place of one flow. `ClientInv` has three inductive parts.
`SyncInv`: types; a hello comes first on its socket, no older than the cursor and
with every flow that still exists; an open client is one the bridge has, and
nothing is on its way to a bridge that has lost the socket.
From it and `Rising` (what was folded rises up to the cursor): `ClientTypeCorrect`,
`ClientFoldedOnce`. `TailInv`: an event a subscription is about, logged since it was
armed, is folded, or the queue has a message that carries it and nothing before that
message moves the cursor past it (`Carries`); a relay is newer than all that is in
the queue, and a replay is never needed for this, because arming and replaying are
one step of the bridge (`ClientLiveTailComplete`). `RailInv`: a flow that exists was
never removed and is on the rail of a client that has had its hello, unless its
deletion is under way; and the last removal of a subscribed flow has been
folded with nothing in the queue that would bring the flow back, or it is in the
queue behind the last snapshot of the flow (`GoneOrGoing`). A snapshot is only sent
while the cache has the flow, and `flow.delete` drops it there before it logs the
removal; that order is what the proof rests on (`ClientRailFollowsLog`). It speaks
of what is logged once the subscription is armed: a removal from before is dropped
by the client, as 6.8 shows.

**Only model-checked.** `CycleEnds`, `EveryCallReturns`, `EveryWriteSettles`,
`ComesBack` and `BootNotWedged` are liveness under fairness, which is out of TLAPS's
reach, as is ENABLED. `Calendar`'s claims are finite and evaluated over every
configuration; they are arithmetic on patterns and not proved.

## 6. Disagreements between the code and what is said of it

The first is a run that TLC must find violated, and a finding in `PROJECT.json` that
quotes the line. The others were met while modelling: the model does what the code
does, and a property that would be false because of one of them names it as its
exception. The claims quoted in 2 to 6 and in 8, stated as properties of these
modules on the instances above, are violated within seconds.

1. `shared_channel`. The wait-for channel of a run is named by a number that counts
   per pane, and tmux channels belong to the server (`terminals.ts:551`: "so a
   foreign signal never settles us early"). Two branches of a fan-out wait on one
   channel; the first to end releases both, and the other is settled as an error
   while its command still runs.
2. The flow cap is passed by the sum of the estimation errors of all
   the runs in flight, not by "at most ONE in-flight run's worth"
   (`guard.ts:450-452`). `FlowCapHeld` is what the guard does ensure.
3. Files written by terminal agents cause no `blackboard.write`,
   so their hashes never reach the guard, and a loop that keeps writing is stopped
   as converged (`guard.ts:341`, `loom/README.md:181`). Fake agents write the cycle's
   number into every file, so they never converge while they write.
4. A link or directory the blackboard refuses makes `runNode` throw
   between the admission and the runner, and the lease stays out for the life of the
   process, against `orchestrator.ts:428`.
5. The same throw, or one of the barrier's hash, ends the cycle
   without a closing event; the flow is shown as running while nothing runs
   (`orchestrator.ts:687`; `guard.test.ts:1435`).
6. A save during an interval cycle replaces the arm; the tick sets the
   old one again when the cycle ends, and no later pause reaches it
   (`scheduler.ts:436` against 463-465). `DormantIsSilent` is about the registry's
   arms only.
7. `spec.save` over the socket drops `workDir` and `reviewEachCycle` of
   the edit (`bridge.ts:455-460`), although the store treats the edit as
   authoritative (`spec.ts:547-558`) and the client says the save carries the flag
   (`store.ts:637`): it cannot be switched from the browser.
8. A flow deleted while the socket is down stays selected: the
   hello keeps the selection (`store.ts:421`) and moves the cursor past the removal,
   whose replay is dropped; `store.ts:252-254` would never select a deleted flow.
9. An abort that comes after `runInPane` has removed its listener
   (`terminals.ts:617`), while the exit code is read or the artifacts are collected,
   is heard by nobody: the run is reported by its exit code, although the kill has
   latched and its lease is still live. `AbortedIsKilled` excuses it (`late`).
10. The barrier accepts a file left by an earlier cycle (`orchestrator.ts:281`
    against 262-263).
11. After a manual run of a dormant scheduled flow its state is `agendado`
    (`orchestrator.ts:692`: "it WILL spend again"), and its trigger stays paused.
12. A flow may pass its lifetime ceiling after restarts: a run cut off by a crash is
    finished by recovery after the meter was folded and counts only from the next
    boot (`guard.ts:256-261`). `MeterIsLog` states the lag.
13. Overlapping saves of one flow write the same version (`domain.ts:59`: bumped on
    every save) and one of the edits is lost. `raced` marks such flows.
14. The live tail is not lossless over a reconnect (`bridge.ts:14`,
    `wsClient.ts:10-12`, `docs/ARCHITECTURE.md:83`): hello sets `lastSeq` to the
    log's end (`store.ts:429`) before the replay arrives, which is then dropped as
    already folded. `LiveTailComplete` therefore speaks of one socket's life;
    the snapshot makes the flow itself good.
15. A cached flow always says `ocioso`, cycle 0, so a save or a subscription in
    mid-cycle resets the shown state and cycle (`spec.ts:642`).
16. A Mensal trigger past the 6th cannot be saved (`schemas.ts:19` against
    `domain.ts:16`, `scheduler.ts:174`), and a malformed time such as 25:00 is
    previewed as written but fires at 09:00.
17. A stop between two runs, or a throw, leaves the cycle without `cycle.ended` for
    good.
18. Smaller ones: a snapshot overwrites unsaved edits (`store.ts:434`), the user's
    own trigger change included; an edge dragged across a snapshot may start at a
    node that is gone, and lint refuses the save; `flow.generate` leaves the
    skeleton when the generated graph fails lint; a refused `flow.play` leaves the
    optimistic `running`; any acknowledgement clears `generating`; the events of a
    flow no longer selected still move the highlight and the storyline; releasing
    a linked terminal shows it idle while another node that links it runs;
    `setOwnership` behind a teardown makes an idle entry without a session; a
    surviving pane's pipe is toggled off by the next engine's `pipe-pane -o`, and
    `terminal.open` replays output a live client already has.

## 7. Not modelled

- The output of panes (pipes, FIFO readers, replay, resize) and engine restarts
  beside live panes: bytes for display, and a second process on one tmux server.
- The stream parser: nothing calls it since runs moved to panes.
- Prompts, summaries, narration, catalog, models, configuration, identifiers and
  `toWindowsPath`: text and tables without state.
- The client's views of the log (storyline, log strip, highlight, terminal
  overlay) and its layout; the inspector's fields are one edit each, `UpdateNode`.
- HTTP: static files and the parsing of a webhook request. A refused webhook is
  one that does not fire.
- Power loss below a commit of the log or a rename of a file.
- The unregistered kill registry of child processes.

What could be added next: the plan of `Layering` as the constant `Layers` of
`Orchestrator` in one composed module; and panes that outlive the engine.
