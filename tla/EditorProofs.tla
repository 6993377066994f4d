---------------------------- MODULE EditorProofs ----------------------------
(***************************************************************************)
(* Proofs about Editor: the engine's flow can run, and the copies of the    *)
(* users agree with it, for any users, flows, edits and broken sockets.    *)
(***************************************************************************)
EXTENDS Editor, TLAPS

Commands ==
  [t : {"subscribe"}] \cup [t : {"spec.save"}, flow : Flow]
    \cup [t : {"setTrigger"}, trigger : Settings]

Typed ==
  /\ spec \in Flow /\ BagToSet(saving) \subseteq Flow
  /\ toServer \in [Users -> Seq(Commands)] /\ outbox \in [Users -> Seq(Commands)]
  /\ toClient \in [Users -> Seq(Flow)]
  /\ copy \in [Users -> Flow] /\ connecting \in [Users -> Nodes \cup {None}]

(* Lint comes before the file's await, and what it has passed is what the    *)
(* file gets.                                                              *)
Linted == SpecSound /\ \A flow \in BagToSet(saving) : PassesLint(flow)

Asking(u) == \E i \in DOMAIN toServer[u] : toServer[u][i].t = "subscribe"

Last(s) == s[Len(s)]

(* A connected user has asked for the flow, or the last snapshot under way   *)
(* is the flow, or the copy is, unless the user has edited it.             *)
Synced(u) ==
  u \in up =>
    \/ Asking(u)
    \/ toClient[u] # <<>> /\ Last(toClient[u]) = spec
    \/ toClient[u] = <<>> /\ (u \in unsaved \/ copy[u] = spec)

SyncInv == Typed /\ \A u \in Users : Synced(u)

----------------------------------------------------------------------------
(* Bags and lines *)

LEMMA BagAdded ==
  ASSUME NEW B, NEW x PROVE BagToSet(B (+) SetToBag({x})) = BagToSet(B) \cup {x}
  BY DEF BagToSet, SetToBag, (+)

LEMMA BagRemoved ==
  ASSUME NEW B, NEW x PROVE BagToSet(B (-) SetToBag({x})) \subseteq BagToSet(B)
  BY DEF BagToSet, SetToBag, (-)

LEMMA BagEmpty == BagToSet(EmptyBag) = {}
  BY DEF BagToSet, SetToBag, EmptyBag

LEMMA LastAppend ==
  ASSUME NEW S, NEW s \in Seq(S), NEW x \in S
  PROVE  Append(s, x) \in Seq(S) /\ Append(s, x) # <<>> /\ Last(Append(s, x)) = x
  BY DEF Last

LEMMA LastTail ==
  ASSUME NEW S, NEW s \in Seq(S), s # <<>>
  PROVE  /\ Tail(s) \in Seq(S) /\ Head(s) \in S
         /\ Tail(s) # <<>> => Last(Tail(s)) = Last(s)
         /\ Tail(s) = <<>> => Head(s) = Last(s)
<1>1. /\ Tail(s) \in Seq(S) /\ Len(Tail(s)) = Len(s) - 1
      /\ \A i \in 1 .. Len(Tail(s)) : Tail(s)[i] = s[i + 1]
      /\ Len(s) \in Nat \ {0} /\ Head(s) = s[1] /\ s[1] \in S
  OBVIOUS
<1>2. \A t \in Seq(S) : t = <<>> <=> Len(t) = 0
  OBVIOUS
<1>3. Last(s) = s[Len(s)] /\ Last(Tail(s)) = Tail(s)[Len(Tail(s))]
  BY DEF Last
<1>4. CASE Len(s) = 1
  <2>1. Len(Tail(s)) = 0
    BY <1>1, <1>4
  <2>2. Tail(s) = <<>>
    BY <1>1, <1>2, <2>1
  <2>. QED BY <1>1, <1>3, <1>4, <2>2
<1>5. CASE Len(s) # 1
  <2>1. Len(Tail(s)) \in 1 .. Len(Tail(s)) /\ Len(Tail(s)) + 1 = Len(s)
    BY <1>1, <1>5
  <2>2. Tail(s)[Len(Tail(s))] = s[Len(s)]
    BY <1>1, <2>1
  <2>3. Tail(s) # <<>>
    <3>1. PICK t \in Seq(S) : t = Tail(s)
      BY <1>1
    <3>2. Len(t) # 0
      BY <2>1, <3>1
    <3>. QED BY <1>2, <3>1, <3>2
  <2>. QED BY <1>1, <1>3, <2>2, <2>3
<1>. QED BY <1>4, <1>5

----------------------------------------------------------------------------
(* Types *)

LEMMA TypedInit == ASSUME Init PROVE Typed
  BY EditorAssumption, BagEmpty DEF Init, Typed, Flow, Settings

LEMMA EditTyped ==
  ASSUME Typed, NEW u \in Users, NEW flow \in Flow, Edit(u, flow) PROVE Typed'
  BY DEF Edit, Typed, engineVars, netVars

LEMMA SendTyped ==
  ASSUME Typed, NEW u \in Users, NEW cmd \in Commands, Send(u, cmd)
  PROVE  /\ toServer' \in [Users -> Seq(Commands)]
         /\ outbox' \in [Users -> Seq(Commands)]
<1>1. /\ Append(toServer[u], cmd) \in Seq(Commands)
      /\ Append(outbox[u], cmd) \in Seq(Commands)
  BY LastAppend DEF Typed
<1>. QED BY <1>1 DEF Send, Typed

LEMMA CommandTypes ==
  ASSUME NEW flow \in Flow, NEW cmd \in Commands
  PROVE  /\ [t |-> "subscribe"] \in Commands
         /\ [t |-> "spec.save", flow |-> flow] \in Commands
         /\ [t |-> "setTrigger", trigger |-> flow.trigger] \in Commands
         /\ cmd.t = "spec.save" => cmd.flow \in Flow
         /\ cmd.t \notin {"subscribe", "spec.save"} => cmd.trigger \in Settings
<1>1. cmd \in [t : {"subscribe"}] \/ cmd \in [t : {"spec.save"}, flow : Flow]
      \/ cmd \in [t : {"setTrigger"}, trigger : Settings]
  BY DEF Commands
<1>2. flow.trigger \in Settings
  BY DEF Flow
<1>. QED BY <1>1, <1>2 DEF Commands

(* What the edits make of a flow is a flow. *)
LEMMA GrownFlow ==
  ASSUME NEW flow \in Flow, NEW n \in Nodes
  PROVE  [flow EXCEPT !.nodes = @ \cup {n}] \in Flow
  BY DEF Flow

LEMMA CutFlow ==
  ASSUME NEW flow \in Flow, NEW E \in SUBSET flow.edges, NEW N \in SUBSET flow.nodes
  PROVE  [flow EXCEPT !.nodes = N, !.edges = E] \in Flow
         /\ [flow EXCEPT !.edges = E] \in Flow
  BY DEF Flow

LEMMA LinkedFlow ==
  ASSUME NEW flow \in Flow, NEW n \in Nodes, NEW m \in Nodes
  PROVE  AddEdge(flow, n, m) \in Flow
<1>1. <<n, m>> \in Nodes \X Nodes /\ flow.edges \cup {<<n, m>>} \in SUBSET (Nodes \X Nodes)
  BY DEF Flow
<1>. QED BY <1>1 DEF Flow, AddEdge

LEMMA ToggledFlows ==
  ASSUME NEW flow \in Flow, NEW k \in Settings
  PROVE  /\ [flow EXCEPT !.rest = 1 - @] \in Flow
         /\ [flow EXCEPT !.flag = 1 - @] \in Flow
         /\ [flow EXCEPT !.flag = k] \in Flow
         /\ [flow EXCEPT !.trigger = 1 - @] \in Flow
         /\ [flow EXCEPT !.trigger = k] \in Flow
  BY DEF Flow, Settings

----------------------------------------------------------------------------
(* What a user does *)

UserStep(u) ==
  \/ CreateAgent(u) \/ UpdateNode(u) \/ PortUp(u)
  \/ SaveSpec(u) \/ SetReviewEachCycle(u) \/ SetWorkDir(u) \/ SetTrigger(u)
  \/ \E n \in Nodes : DeleteNode(u, n) \/ MoveNode(u, n) \/ PortDown(u, n)
  \/ \E e \in Nodes \X Nodes : DeleteEdge(u, e)

(* Of the engine nothing, of the user's connection no more than a command,   *)
(* and of the copies only the user's own, which is unsaved then.           *)
Local(u) ==
  /\ UNCHANGED <<spec, saving, up, toClient>>
  /\ \/ UNCHANGED <<toServer, outbox>>
     \/ \E cmd \in Commands : Send(u, cmd)
  /\ copy' \in [Users -> Flow] /\ connecting' \in [Users -> Nodes \cup {None}]
  /\ unsaved \subseteq unsaved'
  /\ \A q \in Users : copy'[q] = copy[q] \/ q \in unsaved'

LEMMA EditIsLocal ==
  ASSUME Typed, NEW u \in Users, NEW flow \in Flow, Edit(u, flow) PROVE Local(u)
  BY DEF Edit, Local, Typed, engineVars, netVars

LEMMA UserIsLocal ==
  ASSUME Typed, NEW u \in Users, UserStep(u) PROVE Local(u)
<1>1. copy[u] \in Flow
  BY DEF Typed
<1>2. ASSUME NEW n \in Nodes, Edit(u, [copy[u] EXCEPT !.nodes = @ \cup {n}])
      PROVE  Local(u)
  BY <1>1, <1>2, GrownFlow, EditIsLocal
<1>3. ASSUME UpdateNode(u) PROVE Local(u)
  BY <1>1, <1>3, ToggledFlows, EditIsLocal DEF UpdateNode, Settings
<1>4. ASSUME NEW n \in Nodes, DeleteNode(u, n) PROVE Local(u)
  <2>1. Without(copy[u], n) \in Flow
    <3>. DEFINE E == {e \in copy[u].edges : e[1] # n /\ e[2] # n}
                N == copy[u].nodes \ {n}
    <3>1. E \in SUBSET copy[u].edges /\ N \in SUBSET copy[u].nodes
      OBVIOUS
    <3>2. Without(copy[u], n) = [copy[u] EXCEPT !.nodes = N, !.edges = E]
      BY DEF Without
    <3>3. ASSUME NEW M \in SUBSET copy[u].nodes, NEW D \in SUBSET copy[u].edges
          PROVE  [copy[u] EXCEPT !.nodes = M, !.edges = D] \in Flow
      BY <1>1, CutFlow
    <3>. HIDE DEF E, N
    <3>. QED BY <3>1, <3>2, <3>3
  <2>. QED BY <1>4, <2>1, EditIsLocal DEF DeleteNode
<1>5. ASSUME NEW e \in Nodes \X Nodes, DeleteEdge(u, e) PROVE Local(u)
  <2>1. [copy[u] EXCEPT !.edges = @ \ {e}] \in Flow
    BY <1>1, CutFlow DEF Flow
  <2>. QED BY <1>5, <2>1, EditIsLocal DEF DeleteEdge
<1>6. ASSUME NEW n \in Nodes, PortDown(u, n) PROVE Local(u)
  BY <1>6 DEF PortDown, Local, Typed, engineVars, netVars
<1>7. ASSUME PortUp(u) PROVE Local(u)
  <2>1. connecting[u] \in Nodes /\ copy[u].nodes \subseteq Nodes
    BY <1>1, <1>7 DEF PortUp, Typed, Flow
  <2>2. \A to \in Hit(u) : AddEdge(copy[u], connecting[u], to) \in Flow
    BY <1>1, <2>1, LinkedFlow DEF Hit
  <2>3. /\ UNCHANGED <<spec, saving, up, toClient, toServer, outbox>>
        /\ connecting' = [connecting EXCEPT ![u] = None]
        /\ \/ /\ \E to \in Hit(u) :
                 copy' = [copy EXCEPT ![u] = AddEdge(copy[u], connecting[u], to)]
              /\ unsaved' = unsaved \cup {u}
           \/ UNCHANGED <<copy, unsaved>>
    BY <1>7 DEF PortUp, engineVars, netVars
  <2>. QED BY <2>2, <2>3 DEF Local, Typed
<1>8. ASSUME SaveSpec(u) PROVE Local(u)
  <2>1. [t |-> "spec.save", flow |-> copy[u]] \in Commands
    BY <1>1 DEF Commands
  <2>. QED BY <1>8, <2>1 DEF SaveSpec, Local, Typed, engineVars, copyVars
<1>9. ASSUME SetReviewEachCycle(u) PROVE Local(u)
  <2>. DEFINE next == [copy[u] EXCEPT !.flag = 1 - @]
  <2>1. next \in Flow /\ [t |-> "spec.save", flow |-> next] \in Commands
    BY <1>1, ToggledFlows DEF Commands, Settings
  <2>. QED BY <1>9, <2>1 DEF SetReviewEachCycle, Local, Typed, engineVars
<1>10. ASSUME SetTrigger(u) PROVE Local(u)
  <2>. DEFINE next == [copy[u] EXCEPT !.trigger = 1 - @]
  <2>1. next \in Flow /\ next.trigger \in Settings
    BY <1>1, ToggledFlows DEF Settings, Flow
  <2>2. [t |-> "setTrigger", trigger |-> next.trigger] \in Commands
    BY <2>1 DEF Commands
  <2>. QED BY <1>10, <2>1, <2>2 DEF SetTrigger, Local, Typed, engineVars
<1>. QED BY <1>2, <1>3, <1>4, <1>5, <1>6, <1>7, <1>8, <1>9, <1>10
         DEF UserStep, CreateAgent, MoveNode, SetWorkDir

LEMMA UserTyped == ASSUME Typed, NEW u \in Users, Local(u) PROVE Typed'
  BY SendTyped DEF Local, Typed

LEMMA UserSynced ==
  ASSUME SyncInv, NEW u \in Users, Local(u) PROVE SyncInv'
<1>1. Typed /\ Typed'
  BY UserTyped DEF SyncInv
<1>2. ASSUME NEW q \in Users, Asking(q) PROVE Asking(q)'
  <2>1. CASE toServer' = toServer
    BY <1>2, <2>1 DEF Asking
  <2>2. CASE \E cmd \in Commands : Send(u, cmd)
    <3>1. PICK cmd \in Commands : Send(u, cmd)
      BY <2>2
    <3>2. toServer'[q] = toServer[q] \/ toServer'[q] = Append(toServer[q], cmd)
      BY <1>1, <3>1 DEF Send, Typed
    <3>3. PICK i \in DOMAIN toServer[q] : toServer[q][i].t = "subscribe"
      BY <1>2 DEF Asking
    <3>4. toServer[q] \in Seq(Commands)
      BY <1>1 DEF Typed
    <3>5. i \in DOMAIN toServer'[q] /\ toServer'[q][i] = toServer[q][i]
      BY <3>2, <3>3, <3>4
    <3>. QED BY <3>3, <3>5 DEF Asking
  <2>. QED BY <2>1, <2>2 DEF Local
<1>3. ASSUME NEW q \in Users PROVE Synced(q)'
  <2>1. Synced(q)
    BY DEF SyncInv
  <2>. QED BY <1>2, <2>1 DEF Synced, Local
<1>. QED BY <1>1, <1>3 DEF SyncInv

----------------------------------------------------------------------------
(* What the network and the engine do *)

LEMMA SnapshotStep ==
  ASSUME SyncInv, NEW u \in Users, ApplySnapshot(u) PROVE SyncInv'
<1>1. Typed /\ toClient[u] \in Seq(Flow) /\ toClient[u] # <<>>
  BY DEF SyncInv, Typed, ApplySnapshot
<1>2. /\ Tail(toClient[u]) \in Seq(Flow) /\ Head(toClient[u]) \in Flow
      /\ Tail(toClient[u]) # <<>> => Last(Tail(toClient[u])) = Last(toClient[u])
      /\ Tail(toClient[u]) = <<>> => Head(toClient[u]) = Last(toClient[u])
  BY <1>1, LastTail
<1>3. Typed'
  BY <1>1, <1>2 DEF ApplySnapshot, Typed, engineVars
<1>4. /\ \A q \in Users : Asking(q)' <=> Asking(q)
      /\ up' = up /\ spec' = spec
      /\ toClient'[u] = Tail(toClient[u]) /\ copy'[u] = Head(toClient[u])
      /\ \A q \in Users \ {u} : /\ toClient'[q] = toClient[q] /\ copy'[q] = copy[q]
                               /\ (q \in unsaved' <=> q \in unsaved)
  BY <1>1 DEF ApplySnapshot, Asking, Typed, engineVars
<1>5. ASSUME NEW q \in Users PROVE Synced(q)'
  <2>1. Synced(q)
    BY DEF SyncInv
  <2>2. CASE q = u
    BY <1>1, <1>2, <1>4, <2>1, <2>2 DEF Synced
  <2>3. CASE q # u
    <3>1. /\ toClient'[q] = toClient[q] /\ copy'[q] = copy[q] /\ spec' = spec
          /\ (q \in unsaved' <=> q \in unsaved) /\ (q \in up' <=> q \in up)
          /\ Asking(q)' <=> Asking(q)
      BY <1>4, <2>3
    <3>. QED BY <2>1, <3>1 DEF Synced
  <2>. QED BY <2>2, <2>3
<1>. QED BY <1>3, <1>5 DEF SyncInv

LEMMA DropStep ==
  ASSUME SyncInv, NEW u \in Users, Drop(u) PROVE SyncInv'
<1>1. Typed'
  BY DEF Drop, SyncInv, Typed, engineVars, copyVars
<1>2. ASSUME NEW q \in Users, q \in up' PROVE Synced(q)'
  <2>1. q # u /\ Synced(q)
    BY <1>2 DEF Drop, SyncInv
  <2>. QED BY <2>1 DEF Drop, SyncInv, Typed, Synced, Asking, engineVars, copyVars
<1>. QED BY <1>1, <1>2 DEF SyncInv, Synced

LEMMA ReconnectStep ==
  ASSUME SyncInv, NEW u \in Users, Reconnect(u) PROVE SyncInv'
<1>. DEFINE ask == <<[t |-> "subscribe"]>>
<1>1. Typed /\ outbox[u] \in Seq(Commands) /\ ask \in Seq(Commands)
  BY DEF SyncInv, Typed, Commands
<1>2. /\ ask \o outbox[u] \in Seq(Commands)
      /\ 1 \in DOMAIN (ask \o outbox[u])
      /\ (ask \o outbox[u])[1].t = "subscribe"
  BY <1>1
<1>3. Typed'
  BY <1>1, <1>2 DEF Reconnect, Typed, engineVars, copyVars
<1>4. toServer'[u] = ask \o outbox[u]
  BY <1>1 DEF Reconnect, Typed
<1>5. Asking(u)'
  BY <1>2, <1>4 DEF Asking
<1>6. ASSUME NEW q \in Users \ {u} PROVE Synced(q)'
  <2>1. Synced(q)
    BY DEF SyncInv
  <2>. QED BY <1>1, <2>1
           DEF Reconnect, Typed, Synced, Asking, engineVars, copyVars
<1>. QED BY <1>3, <1>5, <1>6 DEF SyncInv, Synced

LEMMA AskedIsFlow ==
  ASSUME Typed, NEW cmd \in Commands, cmd.t # "subscribe" PROVE Asked(cmd) \in Flow
<1>1. spec \in Flow /\ spec.flag \in Settings
  BY DEF Typed, Flow
<1>2. cmd.t = "spec.save" => cmd.flow \in Flow
  BY <1>1, CommandTypes
<1>3. cmd.t # "spec.save" => cmd.trigger \in Settings
  BY <1>1, CommandTypes
<1>. QED BY <1>1, <1>2, <1>3, ToggledFlows DEF Asked, Handed, Patched

(* A command that is taken is not the one that asks for the flow. *)
LEMMA HandleStep ==
  ASSUME SyncInv, NEW u \in Users, HandleSave(u) PROVE SyncInv'
<1>. DEFINE cmd == Head(toServer[u])
<1>1. Typed /\ toServer[u] \in Seq(Commands) /\ toServer[u] # <<>>
      /\ cmd \in Commands /\ cmd.t # "subscribe" /\ Tail(toServer[u]) \in Seq(Commands)
  BY LastTail DEF SyncInv, Typed, HandleSave
<1>2. BagToSet(saving') \subseteq Flow
  <2>1. Asked(cmd) \in Flow /\ BagToSet(saving) \subseteq Flow
    BY <1>1, AskedIsFlow DEF Typed
  <2>2. saving' = saving \/ saving' = saving (+) SetToBag({Asked(cmd)})
    BY DEF HandleSave
  <2>3. BagToSet(saving (+) SetToBag({Asked(cmd)})) = BagToSet(saving) \cup {Asked(cmd)}
    BY BagAdded
  <2>. QED BY <2>1, <2>2, <2>3
<1>3. Typed'
  BY <1>1, <1>2 DEF HandleSave, Typed, copyVars
<1>4. ASSUME NEW q \in Users, Asking(q) PROVE Asking(q)'
  <2>1. PICK i \in DOMAIN toServer[q] : toServer[q][i].t = "subscribe"
    BY <1>4 DEF Asking
  <2>2. CASE q # u
    BY <1>1, <2>1, <2>2 DEF HandleSave, Typed, Asking
  <2>3. CASE q = u
    <3>1. toServer'[u] = Tail(toServer[u])
      BY <1>1 DEF HandleSave, Typed
    <3>2. i # 1
      BY <1>1, <2>1, <2>3
    <3>3. i - 1 \in DOMAIN Tail(toServer[u]) /\ Tail(toServer[u])[i - 1] = toServer[u][i]
      BY <1>1, <2>1, <2>3, <3>2
    <3>. QED BY <2>1, <2>3, <3>1, <3>3 DEF Asking
  <2>. QED BY <2>2, <2>3
<1>5. ASSUME NEW q \in Users PROVE Synced(q)'
  <2>1. Synced(q)
    BY DEF SyncInv
  <2>. QED BY <1>4, <2>1 DEF HandleSave, Synced, copyVars
<1>. QED BY <1>3, <1>5 DEF SyncInv

LEMMA SubscribeStep ==
  ASSUME SyncInv, NEW u \in Users, HandleSubscribe(u) PROVE SyncInv'
<1>1. /\ Typed /\ spec \in Flow /\ toClient[u] \in Seq(Flow)
      /\ Tail(toServer[u]) \in Seq(Commands)
  BY LastTail DEF SyncInv, Typed, HandleSubscribe
<1>2. /\ Append(toClient[u], spec) \in Seq(Flow) /\ Append(toClient[u], spec) # <<>>
      /\ Last(Append(toClient[u], spec)) = spec
  BY <1>1, LastAppend
<1>3. Typed'
  BY <1>1, <1>2 DEF HandleSubscribe, Typed, engineVars, copyVars
<1>4. Synced(u)'
  BY <1>1, <1>2 DEF HandleSubscribe, Typed, Synced, engineVars
<1>5. ASSUME NEW q \in Users \ {u} PROVE Synced(q)'
  <2>1. Synced(q)
    BY DEF SyncInv
  <2>. QED BY <1>1, <2>1
           DEF HandleSubscribe, Typed, Synced, Asking, engineVars, copyVars
<1>. QED BY <1>3, <1>4, <1>5 DEF SyncInv

(* Every connected user is sent what the cache now has. *)
LEMMA SaveEndsStep ==
  ASSUME SyncInv, NEW flow \in BagToSet(saving), SaveEnds(flow) PROVE SyncInv'
<1>1. Typed /\ flow \in Flow
  BY DEF SyncInv, Typed
<1>2. ASSUME NEW q \in Users
      PROVE  /\ Append(toClient[q], flow) \in Seq(Flow)
             /\ Append(toClient[q], flow) # <<>>
             /\ Last(Append(toClient[q], flow)) = flow
  <2>1. toClient[q] \in Seq(Flow)
    BY <1>1 DEF Typed
  <2>. QED BY <1>1, <2>1, LastAppend
<1>3. BagToSet(saving') \subseteq Flow
  BY <1>1, BagRemoved DEF SaveEnds, Typed
<1>4. Typed'
  BY <1>1, <1>2, <1>3 DEF SaveEnds, Broadcast, Typed, copyVars
<1>5. ASSUME NEW q \in Users PROVE Synced(q)'
  BY <1>2 DEF SaveEnds, Broadcast, Synced
<1>. QED BY <1>4, <1>5 DEF SyncInv

LEMMA SyncStep == ASSUME SyncInv, [Next]_vars PROVE SyncInv'
<1>1. CASE UNCHANGED vars
  BY <1>1 DEF SyncInv, Typed, Synced, Asking, vars, engineVars, netVars, copyVars
<1>2. ASSUME NEW u \in Users, UserStep(u) PROVE SyncInv'
  BY <1>2, UserIsLocal, UserSynced DEF SyncInv
<1>3. ASSUME NEW flow \in BagToSet(saving), SaveFails(flow) PROVE SyncInv'
  <2>1. BagToSet(saving') \subseteq Flow
    BY <1>3, BagRemoved DEF SaveFails, SyncInv, Typed
  <2>. QED BY <1>3, <2>1
           DEF SaveFails, SyncInv, Typed, Synced, Asking, netVars, copyVars
<1>. QED BY <1>1, <1>2, <1>3, SnapshotStep, DropStep, ReconnectStep, HandleStep,
            SubscribeStep, SaveEndsStep DEF Next, UserStep

----------------------------------------------------------------------------
(* The flow that the engine has *)

LEMMA LintedInit == ASSUME Init PROVE Linted
<1>1. spec.nodes = Stored /\ spec.edges = {} /\ saving = EmptyBag
  BY DEF Init
<1>2. HasTrigger(spec) /\ EdgesJoin(spec)
  BY <1>1, EditorAssumption DEF HasTrigger, EdgesJoin
<1>3. Acyclic(spec)
  <2>1. \A S \in (SUBSET spec.nodes) \ {{}} : \E n \in S : \A m \in S : <<m, n>> \notin {}
    OBVIOUS
  <2>. SUFFICES ASSUME NEW S \in (SUBSET spec.nodes) \ {{}}
                PROVE  \E n \in S : \A m \in S : <<m, n>> \notin spec.edges
    BY DEF Acyclic
  <2>. QED BY <1>1, <2>1
<1>. QED BY <1>1, <1>2, <1>3, BagEmpty DEF Linted, SpecSound

LEMMA LintedStep == ASSUME Linted, [Next]_vars PROVE Linted'
<1>1. CASE UNCHANGED <<spec, saving>>
  BY <1>1 DEF Linted, SpecSound, HasTrigger, EdgesJoin, Acyclic
<1>2. ASSUME NEW u \in Users, HandleSave(u) PROVE Linted'
  <2>. DEFINE flow == Asked(Head(toServer[u]))
  <2>1. spec' = spec
    BY <1>2 DEF HandleSave
  <2>2. \A x \in BagToSet(saving') : PassesLint(x)
    <3>1. CASE PassesLint(flow) /\ saving' = saving (+) SetToBag({flow})
      <4>1. BagToSet(saving (+) SetToBag({flow})) = BagToSet(saving) \cup {flow}
        BY BagAdded
      <4>. QED BY <3>1, <4>1 DEF Linted
    <3>2. CASE saving' = saving
      BY <3>2 DEF Linted
    <3>. QED BY <1>2, <3>1, <3>2 DEF HandleSave
  <2>. QED BY <2>1, <2>2
           DEF Linted, SpecSound, PassesLint, HasTrigger, EdgesJoin, Acyclic
<1>3. ASSUME NEW flow \in BagToSet(saving), SaveEnds(flow) \/ SaveFails(flow)
      PROVE  Linted'
  <2>1. BagToSet(saving (-) SetToBag({flow})) \subseteq BagToSet(saving)
    BY BagRemoved
  <2>2. saving' = saving (-) SetToBag({flow}) /\ (spec' = spec \/ spec' = flow)
    BY <1>3 DEF SaveEnds, SaveFails
  <2>3. PassesLint(flow) /\ SpecSound
    BY DEF Linted
  <2>4. SpecSound'
    BY <2>2, <2>3
       DEF SpecSound, PassesLint, HasTrigger, EdgesJoin, Acyclic
  <2>. QED BY <2>1, <2>2, <2>4
           DEF Linted, PassesLint, HasTrigger, EdgesJoin, Acyclic
<1>4. ASSUME NEW u \in Users,
             \/ CreateAgent(u) \/ UpdateNode(u) \/ PortUp(u) \/ SaveSpec(u)
             \/ SetReviewEachCycle(u) \/ SetWorkDir(u) \/ SetTrigger(u)
             \/ ApplySnapshot(u) \/ Drop(u) \/ Reconnect(u) \/ HandleSubscribe(u)
      PROVE  UNCHANGED <<spec, saving>>
  BY <1>4 DEF CreateAgent, UpdateNode, PortUp, SaveSpec, SetReviewEachCycle,
              SetWorkDir, SetTrigger, ApplySnapshot, Drop, Reconnect,
              HandleSubscribe, Edit, engineVars
<1>5. ASSUME NEW u \in Users, NEW n \in Nodes,
             DeleteNode(u, n) \/ MoveNode(u, n) \/ PortDown(u, n)
      PROVE  UNCHANGED <<spec, saving>>
  BY <1>5 DEF DeleteNode, MoveNode, UpdateNode, PortDown, Edit, engineVars
<1>6. ASSUME NEW u \in Users, NEW e \in Nodes \X Nodes, DeleteEdge(u, e)
      PROVE  UNCHANGED <<spec, saving>>
  BY <1>6 DEF DeleteEdge, Edit, engineVars
<1>. QED BY <1>1, <1>2, <1>3, <1>4, <1>5, <1>6 DEF Next, vars, engineVars

----------------------------------------------------------------------------

(* Lint keeps every save that would leave the engine a flow that cannot run, *)
(* however stale the copy it came from.                                    *)
THEOREM FlowStaysSound == Spec => []SpecSound
<1>1. Linted => SpecSound
  BY DEF Linted
<1>. QED BY <1>1, LintedInit, LintedStep, PTL DEF Spec

(* When nothing is under way the untouched copies are the engine's flow:     *)
(* whatever a broken socket has lost, asking again on reconnection makes    *)
(* good, and of two saves everybody is told the later last.                *)
THEOREM CopiesComeToAgree == Spec => []CopiesAgree
<1>1. Init => SyncInv
  BY TypedInit DEF Init, SyncInv, Synced
<1>2. SyncInv => CopiesAgree
  BY DEF SyncInv, Synced, Asking, CopiesAgree, Quiet
<1>. QED BY <1>1, <1>2, SyncStep, PTL DEF Spec

=============================================================================
