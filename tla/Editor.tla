------------------------------- MODULE Editor -------------------------------
(***************************************************************************)
(* Editing a flow: the canvas, the inspector and the add-agent panel of the *)
(* web client over the store's topology edits (store.ts), and the bridge's  *)
(* spec.save and setTrigger over the spec store.                           *)
(*                                                                         *)
(* Edits are made on the client's own copy and are nobody else's until the  *)
(* user saves; changing a trigger patches the copy and asks the engine to   *)
(* patch its own.  Whatever the engine has written it broadcasts, and a     *)
(* snapshot replaces the copy.  Several browsers edit one flow, in edit     *)
(* mode; module SpecStore has what a save does to the file, module Client   *)
(* what the event log does to the rail, module Layering the lint.           *)
(*                                                                         *)
(* A flow is its nodes and forward edges, the setting of its triggers, its  *)
(* reviewEachCycle flag (workDir fares the same), and whatever else of it   *)
(* an edit may change: texts, positions, models.                           *)
(***************************************************************************)
EXTENDS Integers, Sequences, FiniteSets, Bags

CONSTANTS
  Users, Nodes, Triggers,
  Stored,        \* the nodes of the flow to begin with
  None,
  MaxEdits,      \* bound: user actions
  MaxDrops       \* bound: broken sockets

ASSUME EditorAssumption ==
  /\ Triggers \subseteq Nodes /\ Stored \subseteq Nodes
  /\ Stored \cap Triggers # {}
  /\ None \notin Nodes
  /\ MaxEdits \in Nat /\ MaxDrops \in Nat

Settings == {0, 1}
Flow == [nodes : SUBSET Nodes, edges : SUBSET (Nodes \X Nodes),
         trigger : Settings, flag : Settings, rest : Settings]

VARIABLES
  spec,        \* the flow in the engine's cache and file
  saving,      \* the flows of the saves under way, a bag
  up,          \* users whose socket the bridge has
  toServer, toClient, outbox,
  copy,        \* flowsById[selected], per user
  connecting,  \* connectRef: the node a connection is dragged from, or None
  made,        \* the ids given out
  edits, drops,
  (* history *)
  unsaved      \* users who have edited their copy since the last snapshot

engineVars == <<spec, saving>>
netVars    == <<up, toServer, toClient, outbox>>
copyVars   == <<copy, connecting, made, unsaved>>
vars == <<engineVars, netVars, copyVars, edits, drops>>

Init ==
  /\ spec = [nodes |-> Stored, edges |-> {},
             trigger |-> 0, flag |-> 0, rest |-> 0]
  /\ saving = EmptyBag
  /\ up = Users
  /\ toServer = [u \in Users |-> <<>>] /\ toClient = [u \in Users |-> <<>>]
  /\ outbox = [u \in Users |-> <<>>]
  /\ copy = [u \in Users |-> spec]
  /\ connecting = [u \in Users |-> None]
  /\ made = Stored /\ edits = 0 /\ drops = 0 /\ unsaved = {}

----------------------------------------------------------------------------
(* The client *)

(* LoomWsClient.send: a command waits in the outbox for a broken socket. *)
Send(u, cmd) ==
  IF u \in up
  THEN toServer' = [toServer EXCEPT ![u] = Append(@, cmd)] /\ UNCHANGED outbox
  ELSE outbox' = [outbox EXCEPT ![u] = Append(@, cmd)] /\ UNCHANGED toServer

Click == edits < MaxEdits /\ edits' = edits + 1

(* An edit of the copy and no more. *)
Edit(u, flow) ==
  /\ Click
  /\ copy' = [copy EXCEPT ![u] = flow]
  /\ unsaved' = unsaved \cup {u}
  /\ made' = made \cup flow.nodes
  /\ UNCHANGED <<engineVars, netVars, connecting, drops>>

(* createAgent: the panel's draft becomes a node with an id of its own. *)
CreateAgent(u) ==
  \E n \in Nodes \ made : Edit(u, [copy[u] EXCEPT !.nodes = @ \cup {n}])

(* deleteNode takes the node's edges with it ... *)
Without(flow, n) ==
  [flow EXCEPT !.nodes = @ \ {n},
               !.edges = {e \in @ : e[1] # n /\ e[2] # n}]

(* ... and spares the last Trigger. *)
DeleteNode(u, n) ==
  /\ n \in copy[u].nodes
  /\ copy[u].nodes \cap Triggers # {n}
  /\ Edit(u, Without(copy[u], n))

DeleteEdge(u, e) ==
  /\ e \in copy[u].edges
  /\ Edit(u, [copy[u] EXCEPT !.edges = @ \ {e}])

(* updateNode: a field of the inspector, whichever. *)
UpdateNode(u) == Edit(u, [copy[u] EXCEPT !.rest = 1 - @])

(* A node is dragged; where the node is gone the drag does not begin. *)
MoveNode(u, n) == n \in copy[u].nodes /\ UpdateNode(u)

(* A port is grabbed: the node is remembered while the pointer moves, and a *)
(* snapshot may come meanwhile.                                            *)
PortDown(u, n) ==
  /\ n \in copy[u].nodes /\ connecting[u] = None
  /\ Click
  /\ connecting' = [connecting EXCEPT ![u] = n]
  /\ UNCHANGED <<engineVars, netVars, copy, made, drops, unsaved>>

(* addEdge: not twice, and without a look for the node the drag began at. *)
AddEdge(flow, from, to) == [flow EXCEPT !.edges = @ \cup {<<from, to>>}]

(* hitNode: the nodes the pointer can be over, but the one dragged from. *)
Hit(u) == copy[u].nodes \ {connecting[u]}

(* The pointer goes up over another node, or over none. *)
PortUp(u) ==
  LET from == connecting[u]
  IN /\ from # None
     /\ connecting' = [connecting EXCEPT ![u] = None]
     /\ \/ \E to \in Hit(u) :
             /\ <<from, to>> \notin copy[u].edges
             /\ copy' = [copy EXCEPT ![u] = AddEdge(@, from, to)]
             /\ unsaved' = unsaved \cup {u}
        \/ UNCHANGED <<copy, unsaved>>
     /\ UNCHANGED <<engineVars, netVars, made, edits, drops>>

(* saveSpec: the whole copy is sent, and stays unsaved until a snapshot. *)
SaveSpec(u) ==
  /\ Click
  /\ Send(u, [t |-> "spec.save", flow |-> copy[u]])
  /\ UNCHANGED <<engineVars, up, toClient, copyVars, drops>>

(* setReviewEachCycle: the copy is patched and all of it sent to be saved. *)
SetReviewEachCycle(u) ==
  LET next == [copy[u] EXCEPT !.flag = 1 - @]
  IN /\ Click
     /\ copy' = [copy EXCEPT ![u] = next]
     /\ unsaved' = unsaved \cup {u}
     /\ Send(u, [t |-> "spec.save", flow |-> next])
     /\ UNCHANGED <<engineVars, up, toClient, connecting, made, drops>>

(* setWorkDir: the flag stands for the folder, too. *)
SetWorkDir(u) == SetReviewEachCycle(u)

(* setTrigger patches the copy and asks for the same patch. *)
SetTrigger(u) ==
  LET next == [copy[u] EXCEPT !.trigger = 1 - @]
  IN /\ Click
     /\ copy' = [copy EXCEPT ![u] = next]
     /\ unsaved' = unsaved \cup {u}
     /\ Send(u, [t |-> "setTrigger", trigger |-> next.trigger])
     /\ UNCHANGED <<engineVars, up, toClient, connecting, made, drops>>

(* flow.snapshot replaces the copy, whatever the user has done to it; a     *)
(* drag goes on.                                                           *)
ApplySnapshot(u) ==
  /\ toClient[u] # <<>>
  /\ copy' = [copy EXCEPT ![u] = Head(toClient[u])]
  /\ toClient' = [toClient EXCEPT ![u] = Tail(@)]
  /\ unsaved' = unsaved \ {u}
  /\ UNCHANGED <<engineVars, up, toServer, outbox, connecting, made, edits,
                 drops>>

(* The socket breaks, with what is on its way in either direction. *)
Drop(u) ==
  /\ u \in up /\ drops < MaxDrops
  /\ up' = up \ {u} /\ drops' = drops + 1
  /\ toServer' = [toServer EXCEPT ![u] = <<>>]
  /\ toClient' = [toClient EXCEPT ![u] = <<>>]
  /\ UNCHANGED <<engineVars, outbox, copyVars, edits>>

(* Fault: what waited is sent and the flow is not asked for. *)
ReconnectAndFlush(u) ==
  /\ u \notin up
  /\ up' = up \cup {u}
  /\ toServer' = [toServer EXCEPT ![u] = outbox[u]]
  /\ outbox' = [outbox EXCEPT ![u] = <<>>]
  /\ UNCHANGED <<engineVars, toClient, copyVars, edits, drops>>

(* onopen: resync asks for the selected flow, then the outbox goes. *)
Reconnect(u) ==
  /\ u \notin up
  /\ up' = up \cup {u}
  /\ toServer' = [toServer EXCEPT ![u] = <<[t |-> "subscribe"]>> \o outbox[u]]
  /\ outbox' = [outbox EXCEPT ![u] = <<>>]
  /\ UNCHANGED <<engineVars, toClient, copyVars, edits, drops>>

----------------------------------------------------------------------------
(* The engine *)

EdgesJoin(flow) == flow.edges \subseteq flow.nodes \X flow.nodes
HasTrigger(flow) == flow.nodes \cap Triggers # {}

(* No nonempty set of nodes in which each has a predecessor. *)
Acyclic(flow) ==
  \A S \in (SUBSET flow.nodes) \ {{}} :
    \E n \in S : \A m \in S : <<m, n>> \notin flow.edges

(* Fault: the ends of the edges are not looked for. *)
PassesLintDangling(flow) == HasTrigger(flow) /\ Acyclic(flow)

(* lint, before a save touches a file.  The writers of an artifact are      *)
(* among what a save may fail for (SaveFails).                             *)
PassesLint(flow) == HasTrigger(flow) /\ EdgesJoin(flow) /\ Acyclic(flow)

(* spec.save: the bridge hands on the name, the nodes and the edges, so     *)
(* that the flag stays as the engine has it ...                            *)
Handed(flow) == [flow EXCEPT !.flag = spec.flag]

(* ... and setTrigger patches the flow that the engine has. *)
Patched(setting) == [spec EXCEPT !.trigger = setting]

Asked(cmd) ==
  IF cmd.t = "spec.save" THEN Handed(cmd.flow) ELSE Patched(cmd.trigger)

(* A command is handled up to its first await; one that lint refuses is     *)
(* answered and leaves no trace.                                           *)
HandleSave(u) ==
  /\ toServer[u] # <<>> /\ Head(toServer[u]).t # "subscribe"
  /\ LET cmd  == Head(toServer[u])
         flow == Asked(cmd)
     IN saving' = IF PassesLint(flow)
                  THEN saving (+) SetToBag({flow})
                  ELSE saving
  /\ toServer' = [toServer EXCEPT ![u] = Tail(@)]
  /\ UNCHANGED <<spec, up, toClient, outbox, copyVars, edits, drops>>

(* handleSubscribe: the flow as the cache has it. *)
HandleSubscribe(u) ==
  /\ toServer[u] # <<>> /\ Head(toServer[u]).t = "subscribe"
  /\ toClient' = [toClient EXCEPT ![u] = Append(@, spec)]
  /\ toServer' = [toServer EXCEPT ![u] = Tail(@)]
  /\ UNCHANGED <<engineVars, up, outbox, copyVars, edits, drops>>

(* broadcastAll. *)
Broadcast(flow) ==
  [u \in Users |-> IF u \in up THEN Append(toClient[u], flow) ELSE toClient[u]]

(* The file is written and the cache reloaded; saves may end in any order.  *)
(* A subscriber gets the flow in a flow.upserted too, in the same turn.     *)
SaveEnds(flow) ==
  /\ saving' = saving (-) SetToBag({flow})
  /\ spec' = flow
  /\ toClient' = Broadcast(flow)
  /\ UNCHANGED <<up, toServer, outbox, copyVars, edits, drops>>

SaveFails(flow) ==
  /\ saving' = saving (-) SetToBag({flow})
  /\ UNCHANGED <<spec, netVars, copyVars, edits, drops>>

----------------------------------------------------------------------------

Next ==
  \/ \E u \in Users :
       \/ CreateAgent(u) \/ UpdateNode(u) \/ PortUp(u)
       \/ SaveSpec(u) \/ SetReviewEachCycle(u) \/ SetWorkDir(u)
       \/ SetTrigger(u)
       \/ ApplySnapshot(u) \/ Drop(u) \/ Reconnect(u)
       \/ HandleSave(u) \/ HandleSubscribe(u)
       \/ \E n \in Nodes : DeleteNode(u, n) \/ MoveNode(u, n) \/ PortDown(u, n)
       \/ \E e \in Nodes \X Nodes : DeleteEdge(u, e)
  \/ \E flow \in BagToSet(saving) : SaveEnds(flow) \/ SaveFails(flow)

Spec == Init /\ [][Next]_vars

----------------------------------------------------------------------------
(* Properties *)

(* The flow the engine has can run: it has a Trigger, its edges join nodes  *)
(* it has and do not turn back, however stale the copies the saves came     *)
(* from, and although a drag outlives a snapshot.                          *)
SpecSound == HasTrigger(spec) /\ EdgesJoin(spec) /\ Acyclic(spec)

(* When nothing is under way, a user who has not touched the copy since the *)
(* last snapshot sees the flow that the engine has: whatever order the      *)
(* saves of several users end in, and across a broken socket.              *)
Quiet ==
  /\ saving = EmptyBag /\ up = Users
  /\ \A u \in Users : toServer[u] = <<>> /\ toClient[u] = <<>>

CopiesAgree ==
  Quiet => \A u \in Users \ unsaved : copy[u] = spec

=============================================================================
