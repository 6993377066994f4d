----------------------------- MODULE SpecStore -----------------------------
(***************************************************************************)
(* The spec store (packages/engine/src/spec.ts) under the bridge commands  *)
(* that write specs: spec.save, setTrigger, flow.create, flow.generate and *)
(* flow.delete (bridge.ts).                                                *)
(*                                                                         *)
(* A spec lives in three places: the YAML file, the in-memory cache every  *)
(* part of the engine reads, and the flow.upserted / flow.removed events   *)
(* the rail is folded from.  A command reads the cache, gives up the event *)
(* loop at every file operation, and writes the other two when it is back; *)
(* commands are not queued.  An operation is a command in flight; a step   *)
(* is a stretch of it up to its next await, or the file operation itself.  *)
(*                                                                         *)
(* A spec is its version, its topology (lint's verdict on it is module     *)
(* Layering's business) and its reviewEachCycle flag; workDir is kept by   *)
(* the same rule as the flag.  A file's text is a spec and the comments its *)
(* author wrote around the keys.  A file is named for the flow's id.       *)
(***************************************************************************)
EXTENDS Integers, FiniteSets, Sequences

CONSTANTS
  Flows, Ops,
  Topologies,   \* node and edge sets an editor or the generator may send
  Accepted,     \* ... those lint has no issue with
  Skeleton,     \* create's single Trigger node
  Retriggered,  \* a topology with one node's trigger replaced
  None,         \* not cached, not on disk, not shown, no prior
  Broken,       \* a file that does not parse, or whose spec load refuses
  Header,       \* the text of a flow never written: a comment, no keys
  MaxVersion,   \* bound: versions of a flow
  MaxCommands   \* bound: commands, over all boots

Spec0   == [version : Nat, topology : Topologies, review : BOOLEAN]
Text    == [spec : Spec0, comments : BOOLEAN]
Entry   == [flow : Spec0, text : Text \cup {Header}]
Snapped == [version : Nat, text : Text \cup {Header}]

ASSUME StoreAssumption ==
  /\ Accepted \subseteq Topologies /\ Skeleton \in Accepted
  /\ Retriggered \in [Accepted -> Accepted]
  /\ None \notin Flows
  /\ None \notin Spec0 \cup Text \cup Entry \cup {Broken, Header}
  /\ Broken \notin Text \cup {Header}
  /\ Header \notin Text
  /\ MaxVersion \in Nat /\ MaxCommands \in Nat

VARIABLES
  cache,     \* [Flows -> Entry \cup {None}]
  disk,      \* flows/<id>.flow.yaml
  snapshots, \* spec_versions/<id>.v<n>.flow.yaml, by flow
  deleted,   \* deleted/<id>.<stamp>.flow.yaml, by flow, oldest first
  shown,     \* the flow as the log's last flow.upserted / flow.removed has it
  op,        \* the commands in flight
  left,      \* commands still to come, over all boots
  (* history *)
  texts,     \* texts the flow's file has held since the flow was created
  forgone,   \* texts whose snapshot or archive failed: logged, not fatal
  ghosts,    \* flows a crash left on the rail without a file
  raced      \* flows on which two commands have overlapped since the boot

vars == <<cache, disk, snapshots, deleted, shown, op, left, texts, forgone,
          ghosts, raced>>
histVars == <<texts, forgone, ghosts>>

(* then: what flow.generate goes on to save once the flow exists; copy: the  *)
(* place in deleted of the copy delete has made.                           *)
Idle == [pc |-> "idle", flow |-> None, prior |-> None, new |-> None,
         then |-> None, copy |-> 0]

On(f) == {o \in Ops : op[o].flow = f}

Cached(f) == cache[f] # None

----------------------------------------------------------------------------

(* A file load accepts: lint's forward_cycle and dangling_edge are refused. *)
Loadable(d) == d \notin {None, Broken}

(* The flow a text says, with none of its comments. *)
SpecToFlow(text) == text.spec

(* listFlows, then loadFlowsIntoLog: the loaded flows are cached and        *)
(* upserted; nothing is said about the others.                             *)
Loaded(f) ==
  IF Loadable(disk[f]) THEN [flow |-> SpecToFlow(disk[f]), text |-> disk[f]]
  ELSE None

Init ==
  /\ disk \in [Flows -> {[spec |-> [version |-> 1, topology |-> t, review |-> r],
                          comments |-> c] :
                           t \in Accepted, r \in BOOLEAN, c \in BOOLEAN}
                        \cup {None, Broken}]
  /\ cache = [f \in Flows |-> Loaded(f)]
  /\ shown = [f \in Flows |->
                IF Loadable(disk[f]) THEN SpecToFlow(disk[f]) ELSE None]
  /\ snapshots = [f \in Flows |-> {}] /\ deleted = [f \in Flows |-> <<>>]
  /\ op = [o \in Ops |-> Idle] /\ left = MaxCommands
  /\ texts = [f \in Flows |-> IF Loadable(disk[f]) THEN {disk[f]} ELSE {}]
  /\ forgone = [f \in Flows |-> {}]
  /\ ghosts = {} /\ raced = {}

----------------------------------------------------------------------------
(* Starting a command *)

(* Another operation on the flow makes it a race. *)
Enter(f) == raced' = IF On(f) = {} THEN raced ELSE raced \cup {f}

(* The operation takes its slot. *)
Take(o) == op[o].pc = "idle" /\ left > 0 /\ left' = left - 1

(* The spec save(edit) will write: the next version of the cached flow, the *)
(* edit's topology, and the flag the edit carries or else the cached one.  *)
Merged(f, entry, topology, review) ==
  [version  |-> (IF entry = None THEN 0 ELSE entry.flow.version) + 1,
   topology |-> topology,
   review   |-> IF review # None THEN review
                ELSE entry # None /\ entry.flow.review]

Commented(text) == text = Header \/ text.comments

(* renderYaml: the keys are set in the text the store last read or wrote, so *)
(* that its comments stay; without one the document is new.                *)
Rendered(entry, spec) ==
  [spec |-> spec, comments |-> entry # None /\ Commented(entry.text)]

(* save's synchronous head, on the cache as it is now. *)
Saving(f, entry, topology, review, then) ==
  [pc |-> IF entry = None THEN "write" ELSE "snapshot", flow |-> f,
   prior |-> entry, new |-> Merged(f, entry, topology, review),
   then |-> then, copy |-> 0]

(* The bridge hands spec.save neither the flag nor the workDir of the edit;  *)
(* setTrigger sends the cached flow with one node's trigger replaced.  A   *)
(* spec lint rejects is refused here, before anything is touched.          *)
SaveCommand(o, f, topology) ==
  /\ Take(o) /\ Enter(f)
  /\ topology \in Accepted
  /\ Cached(f) => cache[f].flow.version < MaxVersion
  /\ op' = [op EXCEPT ![o] = Saving(f, cache[f], topology, None, None)]
  /\ texts' = IF Cached(f) THEN texts ELSE [texts EXCEPT ![f] = {}]
  /\ UNCHANGED <<cache, disk, snapshots, deleted, shown, forgone, ghosts>>

SetTrigger(o, f) ==
  Cached(f) /\ SaveCommand(o, f, Retriggered[cache[f].flow.topology])

(* create: an id that is not cached, seeded with version 0 so that save     *)
(* finds a prior.                                                          *)
Seed == [flow |-> [version |-> 0, topology |-> Skeleton, review |-> FALSE],
         text |-> Header]

Creating(o, f, then) ==
  /\ ~ Cached(f)
  /\ Enter(f)
  /\ cache' = [cache EXCEPT ![f] = Seed]
  /\ op' = [op EXCEPT ![o] = Saving(f, Seed, Skeleton, None, then)]
  /\ texts' = [texts EXCEPT ![f] = {}]
  /\ UNCHANGED <<disk, snapshots, deleted, shown, forgone, ghosts>>

Create(o, f) == Take(o) /\ Creating(o, f, None)

(* flow.generate spawns a one-shot claude; which flow it will be is for     *)
(* claude to say.                                                          *)
Ask(o) ==
  /\ Take(o)
  /\ op' = [op EXCEPT ![o] = [Idle EXCEPT !.pc = "asking"]]
  /\ UNCHANGED <<cache, disk, snapshots, deleted, shown, histVars, raced>>

(* The spawn, the exit code, the timeout, an output without a JSON object   *)
(* or one that zGeneratedFlow refuses: the command is answered with it.    *)
AskFails(o) ==
  /\ op[o].pc = "asking"
  /\ op' = [op EXCEPT ![o] = Idle]
  /\ UNCHANGED <<cache, disk, snapshots, deleted, shown, left, histVars, raced>>

(* What zGeneratedFlow accepts has a Trigger and no dangling edge; lint has *)
(* not seen it.                                                            *)
Generated == [topology : Topologies, review : BOOLEAN \cup {None}]

(* The generator has answered: spec.create, with a save to come. *)
Generate(o, f, edit) ==
  /\ op[o].pc = "asking"
  /\ edit \in Generated
  /\ Creating(o, f, edit)
  /\ UNCHANGED left

(* flow.delete up to its first await: the runs are being killed. *)
DeleteCommand(o, f) ==
  /\ Take(o) /\ Enter(f)
  /\ op' = [op EXCEPT ![o] = [Idle EXCEPT !.pc = "killing", !.flow = f]]
  /\ UNCHANGED <<cache, disk, snapshots, deleted, shown, histVars>>

----------------------------------------------------------------------------
(* save *)

At(o, pc) == op[o].pc = pc
Move(o, pc) == op' = [op EXCEPT ![o].pc = pc]

(* The prior text goes to a file named for the prior version. *)
SnapshotPrior(o) ==
  /\ At(o, "snapshot")
  /\ LET f == op[o].flow  v == op[o].prior.flow.version
     IN snapshots' = [snapshots EXCEPT ![f] =
          {s \in @ : s.version # v}
            \cup {[version |-> v, text |-> op[o].prior.text]}]
  /\ Move(o, "write")
  /\ UNCHANGED <<cache, disk, deleted, shown, left, histVars, raced>>

(* ... best effort: the save goes on without it. *)
SnapshotFails(o) ==
  /\ At(o, "snapshot")
  /\ Move(o, "write")
  /\ forgone' = [forgone EXCEPT ![op[o].flow] = @ \cup {op[o].prior.text}]
  /\ UNCHANGED <<cache, disk, snapshots, deleted, shown, left, texts, ghosts,
                 raced>>

(* The temporary file is renamed over the flow's. *)
RenameFile(o) ==
  LET f == op[o].flow
      text == Rendered(op[o].prior, op[o].new)
  IN /\ At(o, "write")
     /\ disk' = [disk EXCEPT ![f] = text]
     /\ texts' = [texts EXCEPT ![f] = @ \cup {text}]
     /\ Move(o, "renamed")
     /\ UNCHANGED <<cache, snapshots, deleted, shown, left, forgone, ghosts, raced>>

(* Fault: the flow is hot-reloaded before its file is written. *)
HotReloadUnwritten(o) ==
  /\ At(o, "write")
  /\ cache' = [cache EXCEPT ![op[o].flow] =
                 [flow |-> op[o].new, text |-> Rendered(op[o].prior, op[o].new)]]
  /\ op' = [op EXCEPT ![o] = Idle]
  /\ UNCHANGED <<disk, snapshots, deleted, shown, left, histVars, raced>>

(* mkdir, writeFile or rename throws: the command is answered with it. *)
WriteFails(o) ==
  /\ At(o, "write")
  /\ op' = [op EXCEPT ![o] = Idle]
  /\ UNCHANGED <<cache, disk, snapshots, deleted, shown, left, histVars, raced>>

(* Fault: the cached flow keeps the version it was read with. *)
FinishSameVersion(o) ==
  LET f == op[o].flow
      d == [op[o].new EXCEPT !.version =
              IF op[o].prior = None THEN 0 ELSE op[o].prior.flow.version]
  IN /\ At(o, "renamed")
     /\ cache' = [cache EXCEPT ![f] = [flow |-> d, text |-> Rendered(op[o].prior, op[o].new)]]
     /\ shown' = [shown EXCEPT ![f] = d]
     /\ ghosts' = ghosts \ {f}
     /\ op' = [op EXCEPT ![o] = Idle]
     /\ UNCHANGED <<disk, snapshots, deleted, left, texts, forgone, raced>>

(* save's tail, after the rename (and the mkdir of the workDir) is back: the *)
(* cache, the two events; the bridge re-arms the flow's triggers,          *)
(* broadcasts the snapshot and acknowledges.  flow.generate goes straight  *)
(* on to save what was generated, unless lint refuses it.                  *)
Finish(o) ==
  LET f == op[o].flow
      entry == [flow |-> op[o].new, text |-> Rendered(op[o].prior, op[o].new)]
      edit  == op[o].then
  IN /\ At(o, "renamed")
     /\ cache' = [cache EXCEPT ![f] = entry]
     /\ shown' = [shown EXCEPT ![f] = op[o].new]
     /\ ghosts' = ghosts \ {f}
     /\ op' = [op EXCEPT ![o] =
          IF edit # None /\ edit.topology \in Accepted
          THEN Saving(f, entry, edit.topology, edit.review, None)
          ELSE Idle]
     /\ UNCHANGED <<disk, snapshots, deleted, left, texts, forgone, raced>>

----------------------------------------------------------------------------
(* delete *)

(* delete's synchronous head, on a flow that is cached. *)
Deleting(f, entry) ==
  [pc |-> "archive", flow |-> f, prior |-> entry, new |-> None,
   then |-> None, copy |-> 0]

(* The panes are gone: spec.delete drops the cached flow first.  A flow     *)
(* that is not cached is only reported removed.                            *)
Drop(o) ==
  LET f == op[o].flow
  IN /\ At(o, "killing")
     /\ cache' = [cache EXCEPT ![f] = None]
     /\ op' = [op EXCEPT ![o] = IF Cached(f)
          THEN Deleting(f, cache[f]) ELSE Idle]
     /\ IF Cached(f) THEN UNCHANGED <<shown, ghosts>>
        ELSE shown' = [shown EXCEPT ![f] = None] /\ ghosts' = ghosts \ {f}
     /\ UNCHANGED <<disk, snapshots, deleted, left, texts, forgone, raced>>

Archive(f, text) == deleted' = [deleted EXCEPT ![f] = Append(@, text)]

(* rename into deleted/. *)
ArchiveMoves(o) ==
  LET f == op[o].flow
  IN /\ At(o, "archive") /\ disk[f] # None
     /\ Archive(f, disk[f])
     /\ disk' = [disk EXCEPT ![f] = None]
     /\ Move(o, "archived")
     /\ UNCHANGED <<cache, snapshots, shown, left, histVars, raced>>

(* The rename fails: the file is copied, then unlinked. *)
ArchiveCopies(o) ==
  LET f == op[o].flow
  IN /\ At(o, "archive") /\ disk[f] # None
     /\ Archive(f, disk[f])
     /\ op' = [op EXCEPT ![o].pc = "copied", ![o].copy = Len(deleted[f]) + 1]
     /\ UNCHANGED <<cache, disk, snapshots, shown, left, histVars, raced>>

UnlinkCopied(o) ==
  LET f == op[o].flow
  IN /\ At(o, "copied") /\ disk[f] # None
     /\ disk' = [disk EXCEPT ![f] = None]
     /\ Move(o, "archived")
     /\ UNCHANGED <<cache, snapshots, deleted, shown, left, histVars, raced>>

(* Fault: the file is removed whether or not its text was kept. *)
RemoveUnkept(o) ==
  LET f == op[o].flow
  IN /\ At(o, "archive") \/ At(o, "copied")
     /\ disk' = [disk EXCEPT ![f] = None]
     /\ Move(o, "archived")
     /\ UNCHANGED <<cache, snapshots, deleted, shown, left, histVars, raced>>

(* The copy or the unlink fails too, or there was no file: the last text    *)
(* the store knew is written to the archive, over the copy, and the file   *)
(* is removed.                                                             *)
ArchiveText(o) ==
  LET f == op[o].flow
  IN /\ \/ At(o, "archive") /\ Archive(f, op[o].prior.text)
        \/ /\ At(o, "copied")
           /\ deleted' = [deleted EXCEPT ![f][op[o].copy] = op[o].prior.text]
     /\ disk' = [disk EXCEPT ![f] = None]
     /\ Move(o, "archived")
     /\ UNCHANGED <<cache, snapshots, shown, left, histVars, raced>>

(* Even that fails: "Removido só da memória". *)
ArchiveFails(o) ==
  /\ At(o, "archive") \/ At(o, "copied")
  /\ Move(o, "archived")
  /\ UNCHANGED <<cache, disk, snapshots, deleted, shown, left, histVars, raced>>

(* flow.removed and the acknowledgement. *)
Removed(o) ==
  LET f == op[o].flow
  IN /\ At(o, "archived")
     /\ shown' = [shown EXCEPT ![f] = None]
     /\ ghosts' = ghosts \ {f}
     /\ op' = [op EXCEPT ![o] = Idle]
     /\ UNCHANGED <<cache, disk, snapshots, deleted, left, texts, forgone, raced>>

----------------------------------------------------------------------------

(* The engine stops anywhere and boots again.  Only files and the log stay. *)
Reboot ==
  /\ op' = [o \in Ops |-> Idle]
  /\ cache' = [f \in Flows |-> Loaded(f)]
  /\ shown' = [f \in Flows |-> IF Loadable(disk[f]) THEN SpecToFlow(disk[f])
                               ELSE shown[f]]
  /\ ghosts' = {f \in Flows : ~ Loadable(disk[f]) /\ shown[f] # None}
  /\ texts' = [f \in Flows |-> (IF f \in raced THEN {} ELSE texts[f])
                 \cup (IF Loadable(disk[f]) THEN {disk[f]} ELSE {})]
  /\ raced' = {}
  /\ UNCHANGED <<disk, snapshots, deleted, left, forgone>>

Command(o, f) ==
  \/ \E t \in Topologies : SaveCommand(o, f, t)
  \/ SetTrigger(o, f)
  \/ Create(o, f)
  \/ \E e \in Generated : Generate(o, f, e)
  \/ DeleteCommand(o, f)

Continue(o) ==
  \/ AskFails(o)
  \/ SnapshotPrior(o) \/ SnapshotFails(o)
  \/ RenameFile(o) \/ WriteFails(o) \/ Finish(o)
  \/ Drop(o) \/ ArchiveMoves(o) \/ ArchiveCopies(o) \/ UnlinkCopied(o)
  \/ ArchiveText(o) \/ ArchiveFails(o) \/ Removed(o)

Next ==
  \/ \E o \in Ops : Ask(o) \/ Continue(o) \/ \E f \in Flows : Command(o, f)
  \/ Reboot

StoreSpec == Init /\ [][Next]_vars

----------------------------------------------------------------------------
(* Properties *)

StoreTypeOK ==
  /\ cache \in [Flows -> Entry \cup {None}]
  /\ disk \in [Flows -> Text \cup {None, Broken}]
  /\ \A f \in Flows : snapshots[f] \subseteq Snapped
  /\ \A f \in Flows : shown[f] \in Spec0 \cup {None}
  /\ \A f \in Flows : texts[f] \subseteq Text
  /\ ghosts \subseteq Flows /\ raced \subseteq Flows

(* Every text a flow's file has held since the flow was created is still    *)
(* there: in the file, in a snapshot or in the archive.  Crashes in mid-   *)
(* save and in mid-delete are included, and so are the fallbacks of delete; *)
(* what the engine logged it could not snapshot is excused, and so are     *)
(* flows on which two commands overlapped.                                 *)
NoTextLost ==
  \A f \in Flows \ raced :
    texts[f] \subseteq {disk[f]} \cup {s.text : s \in snapshots[f]}
      \cup {deleted[f][i] : i \in DOMAIN deleted[f]} \cup forgone[f]

(* Once no command on a flow is in flight, its three copies agree: what the *)
(* engine runs is what the file says and what the rail was told, and a flow *)
(* that is not cached is not on the rail, but for the ghosts a crash in    *)
(* mid-delete leaves.  Version 0 is a create that could not write.         *)
SettledAgree ==
  \A f \in Flows \ raced : On(f) = {} =>
    /\ Cached(f) /\ cache[f].flow.version > 0 =>
         disk[f] = cache[f].text /\ SpecToFlow(disk[f]) = cache[f].flow
           /\ shown[f] = cache[f].flow
    /\ ~ Cached(f) => shown[f] = None \/ f \in ghosts

(* domain.ts: the version is bumped on every save; whatever crash or failed *)
(* write comes between, a spec that is announced after another one of the  *)
(* same flow has the higher version.                                       *)
Rises(f) ==
  shown[f] # None /\ shown'[f] \notin {None, shown[f]}
    => shown'[f].version > shown[f].version
VersionsRise == [][\A f \in Flows \ (raced \cup raced' \cup ghosts) : Rises(f)]_vars
=============================================================================
