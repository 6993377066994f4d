------------------------------- MODULE Client -------------------------------
(***************************************************************************)
(* The web client and the bridge's live tail: the socket of wsClient.ts,   *)
(* the fold of store.ts's applyServerMessage, and bridge.ts's hello,       *)
(* subscribe, replay and relay, over the event log of module EventLog.     *)
(*                                                                         *)
(* One browser.  The socket delivers in order; when it breaks, what the    *)
(* server had not got is lost and a suffix of what it had sent.  Of the    *)
(* store only what the fold of the log depends on is kept: the cursor      *)
(* lastSeq, the rail and the selection.                                    *)
(*                                                                         *)
(* Other browsers and the engine are the environment: they append events   *)
(* and delete flows.  auth.state and terminal.state are global: the bridge *)
(* broadcasts them.  run.token and run.finished name no flow either, but   *)
(* are only relayed.  Of the events of a flow, flow.upserted and            *)
(* flow.removed move the rail; the others fold into fields left out here.  *)
(***************************************************************************)
EXTENDS EventLog

CONSTANTS
  Flows, None,
  MaxLog,      \* bound: events
  MaxDrops,    \* bound: broken sockets and failed connections
  MaxClicks    \* bound: user actions

ASSUME ClientAssumption ==
  None \notin Flows /\ MaxLog \in Nat /\ MaxDrops \in Nat /\ MaxClicks \in Nat

VARIABLES
  log,
  specs,      \* flows spec.get still returns
  deleting,   \* flows whose flow.delete awaits guard.killFlow (two at once
              \* are one here)
  removing,   \* ... has dropped the spec and not emitted yet
  up,         \* the bridge has the client's socket in clients
  subs,       \* state.subscriptions
  toClient, toServer,
  ws,         \* "none", "connecting", "open", or "dead": open as far as the
              \* client knows
  status,     \* connection: "offline" (connecting, reconnecting) or "live"
  lastSeq, rail, selected,
  outbox,
  drops, clicks,
  (* history *)
  folded,     \* seqs folded, in order
  armedAt     \* the log when the bridge first armed the flow, -1 if not

serverVars == <<log, specs, deleting, removing>>
socketVars == <<up, subs, toClient, toServer, armedAt>>
clientVars == <<ws, status, lastSeq, rail, selected, outbox, folded>>
vars == <<serverVars, socketVars, clientVars, drops, clicks>>

(* What the engine logs, but for flow.removed. *)
Events ==
  [type : {"flow.upserted"}, flow : Flows]
    \cup [type : {"auth.state", "run.finished"}]

Hello(l) == [t |-> "hello", sinceSeq |-> LatestSeq(l),
             flows |-> {f \in Flows : ~ Removed(l, f)}]
Batch(S) == [t |-> "event", seqs |-> S]
Snapshot(f) == [t |-> "flow.snapshot", flow |-> f]
Subscribe(f, since) == [t |-> "subscribe", flow |-> f, since |-> since]
NodeSubscribe(f) == [t |-> "node.subscribe", flow |-> f]
Delete(f) == [t |-> "flow.delete", flow |-> f]

(* The messages of the two directions, of those this module sends. *)
ServerMessages ==
  [t : {"hello"}, sinceSeq : 0 .. MaxLog, flows : SUBSET Flows]
    \cup [t : {"event"}, seqs : SUBSET (1 .. MaxLog)]
    \cup [t : {"flow.snapshot"}, flow : Flows]
ClientCommands ==
  [t : {"subscribe"}, flow : Flows, since : 0 .. MaxLog]
    \cup [t : {"node.subscribe", "flow.delete"}, flow : Flows]

(* A rail list's order does not matter but for its first entry. *)
FirstOf(S) == IF S = {} THEN None ELSE CHOOSE f \in S : TRUE

Init ==
  /\ log = <<>> /\ specs = Flows /\ deleting = {} /\ removing = {}
  /\ up = FALSE /\ subs = {} /\ toClient = <<>> /\ toServer = <<>>
  /\ armedAt = [f \in Flows |-> -1]
  /\ ws = "none" /\ status = "offline" /\ lastSeq = 0
  /\ rail = {} /\ selected = None /\ outbox = <<>>
  /\ drops = 0 /\ clicks = 0 /\ folded = <<>>

----------------------------------------------------------------------------
(* Engine and bridge *)

HasFlow(e) == e.type \notin {"auth.state", "run.finished"}

(* The listeners in the order they subscribed: the broadcast of global      *)
(* events, then the client's own tail, if it has a subscription at all.    *)
Relay(seq, e) ==
  (IF e.type = "auth.state" THEN <<Batch({seq})>> ELSE <<>>)
    \o (IF subs # {} /\ (HasFlow(e) => e.flow \in subs)
        THEN <<Batch({seq})>> ELSE <<>>)

Emit(e) ==
  /\ LatestSeq(log) < MaxLog
  /\ log' = Appended(log, e)
  /\ toClient' = IF up THEN toClient \o Relay(LatestSeq(log) + 1, e)
                 ELSE toClient
  /\ UNCHANGED <<up, subs, toServer, armedAt, clientVars, drops, clicks>>

(* A save under way when its flow is deleted still says flow.upserted.     *)
EngineEmits ==
  \E e \in Events :
    /\ e.type = "flow.upserted" => e.flow \in specs \cup removing
    /\ Emit(e)
    /\ UNCHANGED <<specs, deleting, removing>>

(* Another browser's flow.delete reaches the bridge. *)
DeleteElsewhere(f) ==
  /\ f \in specs
  /\ deleting' = deleting \cup {f}
  /\ UNCHANGED <<log, specs, removing, socketVars, clientVars, drops, clicks>>

(* A flow.delete goes on when its runs are killed: the cache first, which   *)
(* may have lost the flow already, ...                                     *)
DropSpec(f) ==
  /\ f \in deleting
  /\ deleting' = deleting \ {f}
  /\ specs' = specs \ {f} /\ removing' = removing \cup {f}
  /\ UNCHANGED <<log, socketVars, clientVars, drops, clicks>>

(* ... and flow.removed when the file has been archived. *)
EmitRemoved(f) ==
  /\ f \in removing
  /\ Emit([type |-> "flow.removed", flow |-> f])
  /\ removing' = removing \ {f} /\ UNCHANGED <<specs, deleting>>

Accept ==
  /\ ws = "connecting" /\ ~ up
  /\ up' = TRUE /\ subs' = {} /\ armedAt' = [f \in Flows |-> -1]
  /\ toClient' = <<Hello(log)>> /\ toServer' = <<>>
  /\ UNCHANGED <<serverVars, clientVars, drops, clicks>>

(* What subscribe replays: the flow's events and those that name no flow. *)
Replay(f, since) ==
  {i \in since + 1 .. LatestSeq(log) : HasFlow(log[i]) => log[i].flow = f}

(* Fault: the tail is armed only when there is nothing to replay. *)
HandleSubscribeLate(f, since) ==
  /\ subs' = IF Replay(f, since) = {} THEN subs \cup {f} ELSE subs
  /\ armedAt' = IF armedAt[f] >= 0 THEN armedAt
                ELSE [armedAt EXCEPT ![f] = LatestSeq(log)]
  /\ toClient' = toClient
       \o (IF Replay(f, since) = {} THEN <<>> ELSE <<Batch(Replay(f, since))>>)
       \o (IF f \in specs THEN <<Snapshot(f)>> ELSE <<>>)

(* The subscription and the tail are armed, then what the client lacks is   *)
(* replayed, then the spec is sent as the store has it.                    *)
HandleSubscribe(f, since) ==
  /\ subs' = subs \cup {f}
  /\ armedAt' = IF f \in subs THEN armedAt
                ELSE [armedAt EXCEPT ![f] = LatestSeq(log)]
  /\ toClient' = toClient
       \o (IF Replay(f, since) = {} THEN <<>> ELSE <<Batch(Replay(f, since))>>)
       \o (IF f \in specs THEN <<Snapshot(f)>> ELSE <<>>)

(* A node's panel subscribes its flow from now on if nothing has yet; the   *)
(* runs and the next run it is answered with are left out.                 *)
HandleNodeSubscribe(f) ==
  IF f \in subs THEN UNCHANGED <<subs, armedAt, toClient>>
  ELSE HandleSubscribe(f, LatestSeq(log))

(* handleCommand: one branch per kind of command. *)
HandleCommand ==
  /\ up /\ toServer # <<>>
  /\ LET cmd == Head(toServer)
     IN \/ /\ cmd.t = "subscribe"
           /\ HandleSubscribe(cmd.flow, cmd.since)
           /\ UNCHANGED deleting
        \/ /\ cmd.t = "node.subscribe"
           /\ HandleNodeSubscribe(cmd.flow)
           /\ UNCHANGED deleting
        \/ /\ cmd.t = "flow.delete"
           /\ deleting' = deleting \cup {cmd.flow}
           /\ UNCHANGED <<subs, armedAt, toClient>>
  /\ toServer' = Tail(toServer)
  /\ UNCHANGED <<log, specs, removing, up, clientVars, drops, clicks>>

----------------------------------------------------------------------------
(* Socket *)

Connect ==
  /\ ws = "none"
  /\ ws' = "connecting"
  /\ UNCHANGED <<serverVars, socketVars, status, lastSeq, rail, selected,
                 outbox, folded, drops, clicks>>

(* onopen: resync, then the outbox. *)
Opened ==
  /\ ws = "connecting" /\ up
  /\ ws' = "open"
  /\ toServer' = (IF selected = None THEN <<>>
                  ELSE <<Subscribe(selected, lastSeq)>>) \o outbox
  /\ outbox' = <<>>
  /\ UNCHANGED <<serverVars, up, subs, toClient, armedAt, status, lastSeq, rail,
                 selected, folded, drops, clicks>>

(* The bridge's close handler: the listeners and the client are forgotten. *)
Forgotten ==
  /\ up' = FALSE /\ subs' = {} /\ toServer' = <<>>
  /\ armedAt' = [f \in Flows |-> -1]

(* The connection fails or breaks. *)
Drop ==
  /\ drops < MaxDrops
  /\ ws \in {"connecting", "open"}
  /\ drops' = drops + 1
  /\ Forgotten
  /\ IF ws = "open"
     THEN \E n \in 0 .. Len(toClient) : toClient' = SubSeq(toClient, 1, n)
     ELSE toClient' = <<>>
  /\ ws' = "dead"
  /\ UNCHANGED <<serverVars, status, lastSeq, rail, selected, outbox, folded,
                 clicks>>

(* Fault: the loss is shown and nothing connects again. *)
ClosedForGood ==
  /\ ws = "dead" /\ toClient = <<>>
  /\ status' = "offline"
  /\ UNCHANGED <<serverVars, socketVars, ws, lastSeq, rail, selected, outbox,
                 folded, drops, clicks>>

(* onclose: reconnecting, and after the backoff Connect again. *)
Closed ==
  /\ ws = "dead" /\ toClient = <<>>
  /\ ws' = "none" /\ status' = "offline"
  /\ UNCHANGED <<serverVars, socketVars, lastSeq, rail, selected, outbox,
                 folded, drops, clicks>>

(* send: what a socket that is open, or seems so, takes is not kept. *)
Send(cmd) ==
  /\ toServer' = IF ws = "open" THEN Append(toServer, cmd) ELSE toServer
  /\ outbox' = IF ws \in {"open", "dead"} THEN outbox ELSE Append(outbox, cmd)

----------------------------------------------------------------------------
(* Store *)

Receiving(t) ==
  ws \in {"open", "dead"} /\ toClient # <<>> /\ Head(toClient).t = t

Taken ==
  /\ toClient' = Tail(toClient)
  /\ UNCHANGED <<serverVars, up, subs, toServer, armedAt, ws, outbox,
                 drops, clicks>>

(* hello: the rail and the cursor are the log's of now. *)
ReceiveHello ==
  /\ Receiving("hello")
  /\ status' = "live"
  /\ lastSeq' = Head(toClient).sinceSeq
  /\ rail' = Head(toClient).flows
  /\ selected' = IF selected = None THEN FirstOf(Head(toClient).flows)
                 ELSE selected
  /\ UNCHANGED folded
  /\ Taken

upsertSummary(flows, f) == flows \cup {f}

(* flow.snapshot: on the rail, and selected if nothing is. *)
ReceiveSnapshot ==
  /\ Receiving("flow.snapshot")
  /\ rail' = upsertSummary(rail, Head(toClient).flow)
  /\ selected' = IF selected = None THEN Head(toClient).flow ELSE selected
  /\ UNCHANGED <<status, lastSeq, folded>>
  /\ Taken

(* What the fold of an event works on. *)
Store == [rail |-> rail, selected |-> selected, lastSeq |-> lastSeq, folded |-> folded]
Show(s) ==
  rail' = s.rail /\ selected' = s.selected /\ lastSeq' = s.lastSeq /\ folded' = s.folded

(* Fault: the removed flow stays selected. *)
foldEventSelected(s, e) ==
  CASE e.type = "flow.upserted" -> [s EXCEPT !.rail = upsertSummary(@, e.flow)]
    [] e.type = "flow.removed"  -> [s EXCEPT !.rail = @ \ {e.flow}]
    [] OTHER -> s

(* A removed flow leaves the rail, and the selection falls back. *)
foldEvent(s, e) ==
  CASE e.type = "flow.upserted" -> [s EXCEPT !.rail = upsertSummary(@, e.flow)]
    [] e.type = "flow.removed"  ->
         [s EXCEPT !.rail = @ \ {e.flow},
                   !.selected = IF @ = e.flow THEN FirstOf(s.rail \ {e.flow}) ELSE @]
    [] OTHER -> s

(* Fault: whatever comes is folded. *)
NewAny(seqs) == seqs

(* Events up to the cursor are known ... *)
New(seqs) == {i \in seqs : i > lastSeq}

(* ... the others are folded by seq, and the cursor moves to the last. *)
FoldOne(s, i) ==
  [foldEvent(s, log[i]) EXCEPT !.folded = Append(@, i),
                               !.lastSeq = IF i > @ THEN i ELSE @]

FoldAll(s, seqs) ==
  LET view[i \in 0 .. LatestSeq(log)] ==
        IF i = 0 THEN s
        ELSE IF i \in seqs THEN FoldOne(view[i - 1], i) ELSE view[i - 1]
  IN view[LatestSeq(log)]

ReceiveEvents ==
  /\ Receiving("event")
  /\ Show(FoldAll(Store, New(Head(toClient).seqs)))
  /\ UNCHANGED status
  /\ Taken

(* selectFlow: only a live client asks for the flow's events. *)
SelectFlow(f) ==
  /\ clicks < MaxClicks /\ f \in rail
  /\ clicks' = clicks + 1
  /\ selected' = f
  /\ IF status = "live" THEN Send(Subscribe(f, lastSeq))
     ELSE UNCHANGED <<toServer, outbox>>
  /\ UNCHANGED <<serverVars, up, subs, toClient, armedAt, ws, status, lastSeq,
                 rail, folded, drops>>

(* subscribeNode: a node of the selected flow is opened. *)
SubscribeNode ==
  /\ clicks < MaxClicks /\ selected # None
  /\ clicks' = clicks + 1
  /\ Send(NodeSubscribe(selected))
  /\ UNCHANGED <<serverVars, up, subs, toClient, armedAt, ws, status, lastSeq,
                 rail, selected, folded, drops>>

(* deleteFlow: the command, and the fold of its flow.removed in advance. *)
DeleteFlow(f) ==
  /\ clicks < MaxClicks /\ f \in rail
  /\ clicks' = clicks + 1
  /\ Send(Delete(f))
  /\ Show(foldEvent(Store, [type |-> "flow.removed", flow |-> f]))
  /\ UNCHANGED <<serverVars, up, subs, toClient, armedAt, ws, status, drops>>

----------------------------------------------------------------------------

BridgeNext == Accept \/ HandleCommand
SocketNext == Connect \/ Opened \/ Closed
StoreNext  == ReceiveHello \/ ReceiveSnapshot \/ ReceiveEvents

Next ==
  \/ EngineEmits
  \/ \E f \in Flows : DeleteElsewhere(f) \/ DropSpec(f) \/ EmitRemoved(f)
  \/ BridgeNext \/ SocketNext \/ StoreNext \/ Drop \/ SubscribeNode
  \/ \E f \in Flows : SelectFlow(f) \/ DeleteFlow(f)

ClientSpec == Init /\ [][Next]_vars

(* The backoff timer fires, the bridge serves what arrives and the browser  *)
(* delivers what it got; nothing is promised of the user or the engine.    *)
FairSpec ==
  ClientSpec /\ WF_vars(BridgeNext) /\ WF_vars(SocketNext) /\ WF_vars(StoreNext)

----------------------------------------------------------------------------
(* Properties *)

ClientTypeOK ==
  /\ specs \subseteq Flows /\ deleting \subseteq Flows /\ removing \subseteq Flows
  /\ subs \subseteq Flows
  /\ ws \in {"none", "connecting", "open", "dead"}
  /\ status \in {"offline", "live"}
  /\ lastSeq \in 0 .. LatestSeq(log)
  /\ toServer \in Seq(ClientCommands) /\ outbox \in Seq(ClientCommands)
  /\ toClient \in Seq(ServerMessages)
  /\ rail \subseteq Flows /\ selected \in Flows \cup {None}
  /\ armedAt \in [Flows -> -1 .. MaxLog]

(* protocol.ts: events are "ordered by seq; folded idempotently".  However  *)
(* live tail, broadcast and replay overlap, and over any number of         *)
(* sockets, no event is folded twice or after a later one.                 *)
FoldedOnce == \A i, j \in DOMAIN folded : i < j => folded[i] < folded[j]

Settled ==
  /\ up /\ ws = "open" /\ status = "live"
  /\ toClient = <<>> /\ toServer = <<>>

FoldedSet == ToSet(folded)

(* From the moment the bridge arms a flow until the socket breaks, the      *)
(* client folds every event of the flow and every one that names none:     *)
(* replay and live tail meet without a gap.                                *)
LiveTailComplete ==
  Settled => \A f \in Flows : armedAt[f] >= 0 =>
    \A i \in armedAt[f] + 1 .. LatestSeq(log) :
      (HasFlow(log[i]) => log[i].flow = f) => i \in FoldedSet

(* store.ts: "the UI is a pure projection of the append-only log".  Of what *)
(* the log says of a flow since the bridge armed its subscription, the last *)
(* is what the rail shows: a removed flow is neither listed nor selected, a *)
(* saved one is listed unless its deletion is under way, whatever snapshots *)
(* and optimistic removals came between.  What was logged before that,      *)
(* while the socket was down, is not covered: the next hello keeps the      *)
(* selection of a flow removed meanwhile and moves the cursor past it.     *)
RailFollowsLog ==
  Settled => \A f \in subs :
    LET I == {i \in armedAt[f] + 1 .. LatestSeq(log) :
                log[i].type \in {"flow.upserted", "flow.removed"} /\ log[i].flow = f}
    IN I # {} =>
         IF Removed(log, f) THEN f \notin rail /\ selected # f
         ELSE f \notin deleting \cup removing => f \in rail

(* A client whose socket broke is live again, and what the user did         *)
(* meanwhile has been sent.                                                *)
ComesBack == (status = "offline") ~> (status = "live" /\ outbox = <<>>)
=============================================================================
