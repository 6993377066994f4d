----------------------------- MODULE Blackboard -----------------------------
(***************************************************************************)
(* The blackboard (packages/engine/src/blackboard.ts): a flow's files,     *)
(* written through a temporary file and a rename, under a lock made of a   *)
(* chain of promises per absolute path.                                    *)
(*                                                                         *)
(* A call of atomicWrite is named once and for all; each file operation it *)
(* awaits is a step and may fail.  Callers are free.  The agents write the *)
(* same files on their own, and the engine may stop anywhere.              *)
(***************************************************************************)
EXTENDS Integers

CONSTANTS
  Flows, Paths, Texts,
  Safe,       \* the relative paths that stay within the flow's directory
  Own,        \* [Flows -> directory]: blackboardRoot/<flowId>
  Sandbox,    \* [Flows -> directory]: blackboardRoot/<blackboardDir>
  WorkDirs,   \* [Flows -> SUBSET directories]: workDirs a spec may declare
  Calls,      \* bound: calls of atomicWrite
  None,
  MaxStops    \* bound: engine stops

Dirs == {Own[f] : f \in Flows} \cup {Sandbox[f] : f \in Flows}
          \cup UNION {WorkDirs[f] : f \in Flows}
Files == Dirs \X Safe

ASSUME BlackboardAssumption ==
  /\ Safe \subseteq Paths
  /\ None \notin Texts \cup Flows /\ None \notin Files /\ None \notin Dirs
  /\ MaxStops \in Nat

VARIABLES
  dirByFlow, workDirByFlow,  \* what resolveDir has learnt, or None
  file,     \* what the files hold
  pc, flow, abs, text,  \* of each call
  no,       \* its number in the chain of its path
  chain,    \* [Files -> Nat]: the length of locks.get(path)
  stops,
  (* history *)
  last,     \* the content blackboard.write last told of
  foreign   \* files changed otherwise since: by an agent, or without an event

dirVars  == <<dirByFlow, workDirByFlow>>
writeVars == <<pc, flow, abs, text, no>>
vars == <<dirVars, file, writeVars, chain, stops, last, foreign>>

Running == {"mkdir", "temp", "rename", "renamed", "cleanup"}
Settled == {"ok", "failed"}

Init ==
  /\ dirByFlow = [f \in Flows |-> None] /\ workDirByFlow = [f \in Flows |-> None]
  /\ file = [a \in Files |-> None]
  /\ pc = [c \in Calls |-> "idle"]
  /\ flow = [c \in Calls |-> None] /\ abs = [c \in Calls |-> None]
  /\ text = [c \in Calls |-> None] /\ no = [c \in Calls |-> 0]
  /\ chain = [a \in Files |-> 0]
  /\ stops = 0 /\ last = [a \in Files |-> None] /\ foreign = {}

(* resolveDir with a flow, at the start of a cycle: the freshest workDir    *)
(* wins, and a spec without one goes back to the sandbox.                  *)
ResolveDir(f) ==
  /\ dirByFlow' = [dirByFlow EXCEPT ![f] = Sandbox[f]]
  /\ \E d \in WorkDirs[f] \cup {None} :
       workDirByFlow' = [workDirByFlow EXCEPT ![f] = d]
  /\ UNCHANGED <<file, writeVars, chain, stops, last, foreign>>

(* baseDirFor: the workDir, else the sandbox, else that of a flow the       *)
(* blackboard has never seen.                                              *)
BaseDir(f) ==
  IF workDirByFlow[f] # None THEN workDirByFlow[f]
  ELSE IF dirByFlow[f] # None THEN dirByFlow[f] ELSE Own[f]

(* safeRelPath refuses the paths that could leave the directory. *)
AbsFile(f, path) == IF path \in Safe THEN <<BaseDir(f), path>> ELSE None

----------------------------------------------------------------------------
(* withLock *)

(* A call whose path is refused throws there and then. *)
Refuse(c, f, path) ==
  /\ pc[c] = "idle" /\ AbsFile(f, path) = None
  /\ pc' = [pc EXCEPT ![c] = "failed"]
  /\ UNCHANGED <<dirVars, file, flow, abs, text, no, chain, stops, last, foreign>>

(* The call's path is resolved and it joins the chain of that path.         *)
Call(c, f, path, t) ==
  LET a == AbsFile(f, path)
  IN /\ pc[c] = "idle" /\ a # None
     /\ pc' = [pc EXCEPT ![c] = "queued"]
     /\ flow' = [flow EXCEPT ![c] = f]
     /\ abs' = [abs EXCEPT ![c] = a]
     /\ text' = [text EXCEPT ![c] = t]
     /\ no' = [no EXCEPT ![c] = chain[a] + 1]
     /\ chain' = [chain EXCEPT ![a] = @ + 1]
     /\ UNCHANGED <<dirVars, file, stops, last, foreign>>

Before(c, d) == abs[d] = abs[c] /\ no[d] = no[c] - 1

(* Fault: the lock is one of flow and path. *)
SettledForFlow(c) ==
  \A d \in Calls : Before(c, d) /\ flow[d] = flow[c] => pc[d] \in Settled

(* Fault: a call whose predecessor failed is never run. *)
SettledWell(c) == \A d \in Calls : Before(c, d) => pc[d] = "ok"

(* prev.then(op, op): the predecessor has settled, well or not. *)
PrevSettled(c) == \A d \in Calls : Before(c, d) => pc[d] \in Settled

Acquire(c) ==
  /\ pc[c] = "queued" /\ PrevSettled(c)
  /\ pc' = [pc EXCEPT ![c] = "mkdir"]
  /\ UNCHANGED <<dirVars, file, flow, abs, text, no, chain, stops, last,
                 foreign>>

----------------------------------------------------------------------------
(* atomicWrite *)

Move(c, from, to) == pc[c] = from /\ pc' = [pc EXCEPT ![c] = to]

(* Before the try: a failed mkdir leaves nothing to clean up. *)
Mkdir(c) ==
  /\ Move(c, "mkdir", "temp") \/ Move(c, "mkdir", "failed")
  /\ UNCHANGED <<dirVars, file, flow, abs, text, no, chain, stops, last,
                 foreign>>

(* The temporary file, in the same directory. *)
WriteTemp(c) ==
  /\ Move(c, "temp", "rename") \/ Move(c, "temp", "cleanup")
  /\ UNCHANGED <<dirVars, file, flow, abs, text, no, chain, stops, last, foreign>>

Rename(c) ==
  /\ Move(c, "rename", "renamed")
  /\ file' = [file EXCEPT ![abs[c]] = text[c]]
  /\ foreign' = foreign \ {abs[c]}
  /\ UNCHANGED <<dirVars, flow, abs, text, no, chain, stops, last>>

RenameFails(c) ==
  /\ Move(c, "rename", "cleanup")
  /\ UNCHANGED <<dirVars, file, flow, abs, text, no, chain, stops, last,
                 foreign>>

(* rm of the temporary file: its own failure is swallowed. *)
Cleanup(c) ==
  /\ Move(c, "cleanup", "failed")
  /\ UNCHANGED <<dirVars, file, flow, abs, text, no, chain, stops, last, foreign>>

(* blackboard.write, and the call resolves. *)
EmitWrite(c) ==
  /\ Move(c, "renamed", "ok")
  /\ last' = [last EXCEPT ![abs[c]] = text[c]]
  /\ UNCHANGED <<dirVars, file, flow, abs, text, no, chain, stops, foreign>>

----------------------------------------------------------------------------

(* An agent, which runs where resolveDir has said, writes past the lock. *)
AgentWrites(f, path, t) ==
  LET a == <<BaseDir(f), path>>
  IN /\ dirByFlow[f] # None
     /\ file' = [file EXCEPT ![a] = t]
     /\ foreign' = foreign \cup {a}
     /\ UNCHANGED <<dirVars, writeVars, chain, stops, last>>

(* The engine stops: calls, chains and directories are forgotten.  A rename *)
(* that was not told of is not told of any more.                           *)
Stop ==
  /\ stops < MaxStops
  /\ stops' = stops + 1
  /\ dirByFlow' = [f \in Flows |-> None]
  /\ workDirByFlow' = [f \in Flows |-> None]
  /\ pc' = [c \in Calls |-> IF pc[c] = "idle" THEN "idle" ELSE "failed"]
  /\ abs' = [c \in Calls |-> None] /\ no' = [c \in Calls |-> 0]
  /\ chain' = [a \in Files |-> 0]
  /\ foreign' = foreign \cup {abs[c] : c \in {d \in Calls : pc[d] = "renamed"}}
  /\ UNCHANGED <<file, flow, text, last>>

Step(c) ==
  \/ Acquire(c) \/ Mkdir(c) \/ WriteTemp(c) \/ Rename(c) \/ RenameFails(c)
  \/ Cleanup(c) \/ EmitWrite(c)

Next ==
  \/ \E f \in Flows : ResolveDir(f)
  \/ \E c \in Calls, f \in Flows, path \in Paths :
       Refuse(c, f, path) \/ \E t \in Texts : Call(c, f, path, t)
  \/ \E c \in Calls : Step(c)
  \/ \E f \in Flows, path \in Safe, t \in Texts : AgentWrites(f, path, t)
  \/ Stop

BlackboardSpec == Init /\ [][Next]_vars

(* A file operation ends, well or not. *)
FairSpec == BlackboardSpec /\ \A c \in Calls : WF_vars(Step(c))

----------------------------------------------------------------------------
(* Properties *)

BlackboardTypeOK ==
  /\ dirByFlow \in [Flows -> Dirs \cup {None}]
  /\ workDirByFlow \in [Flows -> Dirs \cup {None}]
  /\ file \in [Files -> Texts \cup {None}]
  /\ pc \in [Calls -> {"idle", "queued"} \cup Running \cup Settled]
  /\ flow \in [Calls -> Flows \cup {None}] /\ abs \in [Calls -> Files \cup {None}]
  /\ text \in [Calls -> Texts \cup {None}] /\ no \in [Calls -> Nat]
  /\ chain \in [Files -> Nat]
  /\ stops \in Nat
  /\ last \in [Files -> Texts \cup {None}] /\ foreign \subseteq Files

(* The lock: of the calls on one path, by whatever flows share it, one runs *)
(* at a time.                                                              *)
OneWriter ==
  \A c, d \in Calls :
    pc[c] \in Running /\ pc[d] \in Running /\ abs[c] = abs[d] => c = d

(* The presence barrier reads the disk and convergence the events: unless   *)
(* an agent wrote the file itself, what blackboard.write last told of a    *)
(* path is what the path holds, but between a rename and its event.        *)
EventsMatchFiles ==
  \A a \in Files \ foreign :
    (\A c \in Calls : abs[c] = a => pc[c] # "renamed") => last[a] = file[a]

(* "so one failed write never wedges the queue for that path": every call   *)
(* settles, whatever becomes of the calls before it.                       *)
EveryWriteSettles == \A c \in Calls : (pc[c] # "idle") ~> (pc[c] \in Settled)
=============================================================================
