-------------------------- MODULE SpecStoreProofs --------------------------
(***************************************************************************)
(* Proofs about SpecStore for any flows, any commands in flight and any    *)
(* texts: what saves and deletes, the failures of their file operations    *)
(* and a stop between any two of them leave of a flow's texts, and in the  *)
(* cache, the file and the rail.                                           *)
(***************************************************************************)
EXTENDS SpecStore, SequenceTheorems, TLAPS

(* A command in flight: asking, killing the panes, saving or deleting. *)
Operation ==
  [pc : {"idle", "asking"}, flow : {None}, prior : {None}, new : {None},
   then : {None}, copy : {0}]
  \cup [pc : {"killing"}, flow : Flows, prior : {None}, new : {None},
        then : {None}, copy : {0}]
  \cup [pc : {"snapshot", "write", "renamed"}, flow : Flows,
        prior : Entry \cup {None}, new : Spec0,
        then : Generated \cup {None}, copy : {0}]
  \cup [pc : {"archive", "copied", "archived"}, flow : Flows,
        prior : Entry, new : {None}, then : {None}, copy : Nat]

Typed ==
  /\ cache \in [Flows -> Entry \cup {None}]
  /\ disk \in [Flows -> Text \cup {None, Broken}]
  /\ snapshots \in [Flows -> SUBSET Snapped]
  /\ deleted \in [Flows -> Seq(Text \cup {Broken, Header})]
  /\ shown \in [Flows -> Spec0 \cup {None}]
  /\ texts \in [Flows -> SUBSET Text]
  /\ forgone \in [Flows -> SUBSET (Text \cup {Header})]
  /\ ghosts \subseteq Flows /\ raced \subseteq Flows
  /\ op \in [Ops -> Operation]

(* A cached flow is the one its text says, or a seed that nothing has been  *)
(* written for.                                                            *)
Matching(entry) ==
  \/ entry = None
  \/ entry = Seed
  \/ entry.text \in Text /\ entry.text.spec = entry.flow /\ entry.flow.version > 0

Version(entry) == IF entry = None THEN 0 ELSE entry.flow.version

(* A save writes the next version. *)
Succeeds(p) == p.new.version = Version(p.prior) + 1

Saves(o) == op[o].pc \in {"snapshot", "write", "renamed"}
Deletes(o) == op[o].pc \in {"archive", "copied", "archived"}

Sound ==
  /\ \A f \in Flows : Matching(cache[f])
  /\ \A f \in Flows : Loadable(disk[f]) => disk[f].spec.version > 0
  /\ \A o \in Ops :
       /\ Saves(o) => Matching(op[o].prior) /\ Succeeds(op[o])
       /\ Deletes(o) => Matching(op[o].prior)
       /\ op[o].pc = "snapshot" => op[o].prior # None
  /\ \A f \in Flows : \A s \in snapshots[f] :
       s.text = Header \/ s.text.spec.version = s.version

Aside(f) ==
  {s.text : s \in snapshots[f]} \cup {deleted[f][i] : i \in DOMAIN deleted[f]}
    \cup forgone[f]

(* The texts are kept, and of those the file's is the newest. *)
Kept(f) ==
  /\ texts[f] \subseteq {disk[f]} \cup Aside(f)
  /\ \A t \in texts[f] : t.spec.version > 0
  /\ Loadable(disk[f]) =>
       \A t \in texts[f] : t.spec.version < disk[f].spec.version \/ t = disk[f]

(* The rail was told what an entry says. *)
ToldOf(f, entry) ==
  IF Version(entry) > 0 THEN shown[f] = entry.flow
  ELSE shown[f] = None \/ f \in ghosts

Rest(f, entry) ==
  /\ ToldOf(f, entry)
  /\ Version(entry) > 0 => disk[f] = entry.text
  /\ entry # None /\ Version(entry) = 0 => texts[f] = {}

(* How far the one command on a flow has come. *)
Phase(f, o) ==
  LET p == op[o] IN
  /\ Saves(o) => p.prior = cache[f]
  /\ Deletes(o) => cache[f] = None
  /\ p.pc \in {"killing", "snapshot", "write"} => Rest(f, cache[f])
  /\ p.pc = "write" => /\ texts[f] \subseteq Aside(f)
                       /\ cache[f] = None => texts[f] = {}
  /\ p.pc = "renamed" => /\ ToldOf(f, cache[f])
                         /\ disk[f] = Rendered(p.prior, p.new)
  /\ p.pc \in {"archive", "copied"} => Rest(f, p.prior)
  /\ p.pc = "copied" => /\ p.copy \in DOMAIN deleted[f]
                        /\ deleted[f][p.copy] = disk[f]
  /\ p.pc = "archived" =>
       /\ ToldOf(f, p.prior)
       /\ Version(p.prior) > 0 /\ Loadable(disk[f]) => disk[f] = p.prior.text

FlowInv(f) ==
  /\ Kept(f)
  /\ \A o, p \in On(f) : o = p
  /\ On(f) = {} => Rest(f, cache[f])
  /\ \A o \in On(f) : Phase(f, o)

StoreInv == Typed /\ Sound /\ \A f \in Flows \ raced : FlowInv(f)

----------------------------------------------------------------------------
(* Texts, entries and operations. *)

LEMMA RenderedFacts ==
  ASSUME NEW e \in Entry \cup {None}, NEW s \in Spec0
  PROVE  /\ Rendered(e, s) \in Text /\ Rendered(e, s).spec = s
BY DEF Rendered, Text, Commented

LEMMA SeedFacts ==
  /\ Seed \in Entry /\ Seed # None /\ Seed.flow.version = 0
  /\ Seed.flow.topology = Skeleton /\ Seed.flow.review = FALSE
  /\ Seed.text = Header
<1>1. Seed \in Entry
  BY StoreAssumption DEF Seed, Entry, Spec0
<1>. QED BY <1>1, StoreAssumption DEF Seed

LEMMA MatchingFacts ==
  ASSUME NEW e \in Entry, Matching(e)
  PROVE  /\ e # None /\ Version(e) = e.flow.version /\ Version(e) \in Nat
         /\ Version(e) = 0 => e = Seed
         /\ Version(e) > 0 => e.text \in Text /\ e.text.spec = e.flow
<1>1. e # None
  BY StoreAssumption
<1>2. e.flow.version \in Nat
  BY DEF Entry, Spec0
<1>. QED BY <1>1, <1>2, SeedFacts DEF Matching, Version

LEMMA LoadableFacts ==
  ASSUME NEW d \in Text \cup {None, Broken}
  PROVE  /\ Loadable(d) <=> d \in Text
         /\ d \in Text => d.spec \in Spec0 /\ d.spec.version \in Nat
BY StoreAssumption DEF Loadable, Text, Spec0

LEMMA LoadedFacts ==
  ASSUME Typed, NEW f \in Flows
  PROVE  /\ Loaded(f) \in Entry \cup {None}
         /\ Loadable(disk[f]) => /\ Loaded(f) \in Entry
                                 /\ Loaded(f).flow = disk[f].spec
                                 /\ Loaded(f).text = disk[f]
                                 /\ disk[f] \in Text
         /\ ~ Loadable(disk[f]) => Loaded(f) = None
<1>1. disk[f] \in Text \cup {None, Broken}
  BY DEF Typed
<1>. QED BY <1>1, LoadableFacts DEF Loaded, SpecToFlow, Entry

(* The next version of an entry. *)
LEMMA MergedFacts ==
  ASSUME NEW f, NEW e \in Entry \cup {None}, NEW t \in Topologies,
         NEW review \in BOOLEAN \cup {None}
  PROVE  /\ Merged(f, e, t, review) \in Spec0
         /\ Merged(f, e, t, review).version = Version(e) + 1
<1>1. Version(e) \in Nat
  BY DEF Version, Entry, Spec0
<1>2. (IF review # None THEN review ELSE e # None /\ e.flow.review) \in BOOLEAN
  OBVIOUS
<1>. QED BY <1>1, <1>2 DEF Merged, Version, Spec0

SavePcs == {"snapshot", "write", "renamed"}
DeletePcs == {"archive", "copied", "archived"}

LEMMA Shapes ==
  ASSUME NEW p \in Operation
  PROVE  /\ p.pc \in {"idle", "asking", "killing"} \cup SavePcs \cup DeletePcs
         /\ p.pc \in {"idle", "asking"} <=> p.flow = None
         /\ p.pc \notin {"idle", "asking"} <=> p.flow \in Flows
         /\ p.pc \in SavePcs => /\ p.prior \in Entry \cup {None} /\ p.new \in Spec0
                                /\ p.then \in Generated \cup {None}
         /\ p.pc \in DeletePcs => p.prior \in Entry /\ p.copy \in Nat
BY StoreAssumption DEF Operation, SavePcs, DeletePcs

LEMMA ShapeStarts ==
  /\ Idle \in Operation /\ Idle.pc = "idle" /\ Idle.flow = None
  /\ LET q == [Idle EXCEPT !.pc = "asking"]
     IN q \in Operation /\ q.pc = "asking" /\ q.flow = None
  /\ \A f \in Flows :
       LET q == [Idle EXCEPT !.pc = "killing", !.flow = f]
       IN q \in Operation /\ q.pc = "killing" /\ q.flow = f
  /\ \A f \in Flows, e \in Entry :
       LET q == Deleting(f, e)
       IN q \in Operation /\ q.pc = "archive" /\ q.flow = f /\ q.prior = e
BY DEF Idle, Deleting, Operation

LEMMA SavingFacts ==
  ASSUME NEW f \in Flows, NEW e \in Entry \cup {None}, NEW t \in Topologies,
         NEW review \in BOOLEAN \cup {None},
         NEW then \in Generated \cup {None}
  PROVE  LET q == Saving(f, e, t, review, then)
         IN /\ q \in Operation /\ q.flow = f
            /\ q.pc \in {"write", "snapshot"} /\ (q.pc = "write" <=> e = None)
            /\ q.prior = e /\ q.new = Merged(f, e, t, review) /\ q.then = then
<1>1. Merged(f, e, t, review) \in Spec0
  BY MergedFacts
<1>. QED BY <1>1 DEF Saving, Operation

----------------------------------------------------------------------------
(* A step of one command is about one flow. *)

Elsewhere(f, o) ==
  /\ \A g \in Flows \ {f} :
       /\ cache'[g] = cache[g] /\ disk'[g] = disk[g]
       /\ snapshots'[g] = snapshots[g] /\ deleted'[g] = deleted[g]
       /\ shown'[g] = shown[g] /\ texts'[g] = texts[g]
       /\ forgone'[g] = forgone[g] /\ (g \in ghosts' <=> g \in ghosts)
  /\ raced \subseteq raced'
  /\ \A p \in Ops \ {o} : op'[p] = op[p]
  /\ op[o].flow \in {f, None} /\ op'[o].flow \in {f, None}

LEMMA OpStep ==
  ASSUME Typed, NEW o \in Ops, NEW q \in Operation, op' = [op EXCEPT ![o] = q]
  PROVE  /\ op' \in [Ops -> Operation] /\ op'[o] = q
         /\ \A p \in Ops \ {o} : op'[p] = op[p]
BY DEF Typed

LEMMA FlowFrame ==
  ASSUME StoreInv, NEW f \in Flows, NEW o \in Ops, Elsewhere(f, o),
         NEW g \in Flows \ {f}, g \notin raced'
  PROVE  FlowInv(g)'
<1>1. FlowInv(g)
  BY DEF StoreInv, Elsewhere
<1>2. /\ cache'[g] = cache[g] /\ disk'[g] = disk[g]
      /\ snapshots'[g] = snapshots[g] /\ deleted'[g] = deleted[g]
      /\ shown'[g] = shown[g] /\ texts'[g] = texts[g]
      /\ forgone'[g] = forgone[g] /\ (g \in ghosts' <=> g \in ghosts)
  BY DEF Elsewhere
<1>3. g # None
  BY StoreAssumption
<1>4. On(g)' = On(g) /\ o \notin On(g)
  BY <1>3 DEF On, Elsewhere
<1>5. \A p \in On(g) : op'[p] = op[p]
  BY <1>4 DEF On, Elsewhere
<1>6. Kept(g)'
  BY <1>1, <1>2 DEF FlowInv, Kept, Aside
<1>7. On(g) = {} => Rest(g, cache[g])'
  BY <1>1, <1>2 DEF FlowInv, Rest, ToldOf
<1>8. ASSUME NEW p \in On(g) PROVE Phase(g, p)'
  <2>1. Phase(g, p) /\ op'[p] = op[p]
    BY <1>1, <1>5, <1>8 DEF FlowInv
  <2>. QED BY <1>2, <2>1 DEF Phase, Rest, ToldOf, Aside, Saves, Deletes
<1>. QED BY <1>1, <1>4, <1>6, <1>7, <1>8 DEF FlowInv

LEMMA SoundFrame ==
  ASSUME Typed, Sound, NEW f \in Flows, NEW o \in Ops, Elsewhere(f, o),
         Matching(cache'[f]),
         Loadable(disk'[f]) => disk'[f].spec.version > 0,
         Saves(o)' => Matching(op'[o].prior) /\ Succeeds(op'[o]),
         Deletes(o)' => Matching(op'[o].prior),
         op'[o].pc = "snapshot" => op'[o].prior # None,
         \A s \in snapshots'[f] : s.text = Header \/ s.text.spec.version = s.version
  PROVE  Sound'
<1>1. \A g \in Flows : Matching(cache'[g])
  BY DEF Sound, Elsewhere
<1>2. \A g \in Flows : Loadable(disk'[g]) => disk'[g].spec.version > 0
  BY DEF Sound, Elsewhere
<1>3. ASSUME NEW p \in Ops
      PROVE  /\ Saves(p)' => Matching(op'[p].prior) /\ Succeeds(op'[p])
             /\ Deletes(p)' => Matching(op'[p].prior)
             /\ op'[p].pc = "snapshot" => op'[p].prior # None
  <2>1. CASE p = o
    BY <2>1
  <2>2. CASE p # o
    <3>1. op'[p] = op[p]
      BY <2>2 DEF Elsewhere
    <3>. QED BY <3>1 DEF Sound, Saves, Deletes
  <2>. QED BY <2>1, <2>2
<1>4. \A g \in Flows : \A s \in snapshots'[g] :
        s.text = Header \/ s.text.spec.version = s.version
  BY DEF Sound, Elsewhere
<1>. QED BY <1>1, <1>2, <1>3, <1>4 DEF Sound

(* What is left to show of a step that takes a flow by itself. *)
LEMMA FlowStep ==
  ASSUME StoreInv, NEW f \in Flows, NEW o \in Ops, Elsewhere(f, o),
         Typed', Sound',
         f \notin raced' =>
           /\ On(f) \subseteq {o} /\ Kept(f)'
           /\ op'[o].flow = f => Phase(f, o)'
           /\ op'[o].flow # f => Rest(f, cache[f])'
  PROVE  StoreInv'
<1>1. ASSUME f \notin raced' PROVE FlowInv(f)'
  <2>1. On(f)' \subseteq {o} /\ (o \in On(f)' <=> op'[o].flow = f)
    BY <1>1 DEF On, Elsewhere
  <2>. QED BY <1>1, <2>1 DEF FlowInv
<1>. QED BY <1>1, FlowFrame DEF StoreInv

(* The flow of a command that has one. *)
LEMMA Current ==
  ASSUME StoreInv, NEW o \in Ops, op[o].pc \notin {"idle", "asking"}
  PROVE  /\ op[o] \in Operation /\ op[o].flow \in Flows
         /\ op[o].flow \notin raced =>
              /\ On(op[o].flow) \subseteq {o} /\ Kept(op[o].flow)
              /\ Phase(op[o].flow, o)
<1>1. op[o] \in Operation /\ op[o].flow \in Flows
  BY Shapes DEF StoreInv, Typed
<1>2. o \in On(op[o].flow)
  BY DEF On
<1>. QED BY <1>1, <1>2 DEF StoreInv, FlowInv

----------------------------------------------------------------------------
(* Commands. *)

LEMMA AskStep ==
  ASSUME StoreInv, NEW o \in Ops, Ask(o) \/ AskFails(o)
  PROVE  StoreInv'
<1> USE DEF StoreInv
<1>1. PICK q \in Operation :
        op' = [op EXCEPT ![o] = q] /\ q.pc \in {"idle", "asking"} /\ q.flow = None
  BY ShapeStarts DEF Ask, AskFails
<1>2. /\ op' \in [Ops -> Operation] /\ op'[o] = q
      /\ \A p \in Ops \ {o} : op'[p] = op[p]
  BY <1>1, OpStep
<1>3. UNCHANGED <<cache, disk, snapshots, deleted, shown, histVars, raced>>
  BY DEF Ask, AskFails
<1>4. op[o].flow = None
  <2>1. op[o].pc \in {"idle", "asking"}
    BY DEF Ask, AskFails, Take
  <2>. QED BY <2>1, Shapes DEF Typed
<1>5. Typed'
  BY <1>2, <1>3 DEF Typed, histVars
<1>6. ASSUME NEW f \in Flows PROVE Elsewhere(f, o)
  BY <1>1, <1>2, <1>3, <1>4 DEF Elsewhere, histVars
<1>7. Sound'
  <2>1. \A p \in Ops : /\ Saves(p)' => Saves(p) /\ op'[p] = op[p]
                       /\ Deletes(p)' => Deletes(p) /\ op'[p] = op[p]
                       /\ op'[p].pc = "snapshot" => op'[p] = op[p]
    BY <1>1, <1>2 DEF Saves, Deletes
  <2>. QED BY <1>3, <2>1 DEF Sound
<1>8. ASSUME NEW f \in Flows, f \notin raced' PROVE FlowInv(f)'
  <2>1. FlowInv(f)
    BY <1>3, <1>8
  <2>2. f # None /\ On(f)' = On(f) /\ o \notin On(f)
    BY <1>1, <1>2, <1>4, StoreAssumption DEF On
  <2>3. \A p \in On(f) : Phase(f, p)'
    <3>1. \A p \in On(f) : op'[p] = op[p]
      BY <1>2, <2>2 DEF On
    <3>. QED BY <1>3, <2>1, <3>1
         DEF FlowInv, Phase, Rest, ToldOf, Aside, Saves, Deletes, histVars
  <2>. QED BY <1>3, <2>1, <2>2, <2>3
       DEF FlowInv, Kept, Aside, Rest, ToldOf, histVars
<1>. QED BY <1>5, <1>7, <1>8

LEMMA SaveCommandStep ==
  ASSUME StoreInv, NEW o \in Ops, NEW f \in Flows, NEW t,
         SaveCommand(o, f, t)
  PROVE  StoreInv'
<1> USE DEF StoreInv
<1>1. PICK e \in Entry \cup {None} : e = cache[f]
  BY DEF Typed
<1>2. t \in Topologies
  BY StoreAssumption DEF SaveCommand
<1>3. PICK q : q = Saving(f, e, t, None, None)
  OBVIOUS
<1>4. /\ q \in Operation /\ q.flow = f
      /\ q.pc \in {"write", "snapshot"} /\ (q.pc = "write" <=> e = None)
      /\ q.prior = e /\ q.new = Merged(f, e, t, None) /\ q.then = None
  <2>1. PICK review \in BOOLEAN \cup {None}, then \in Generated \cup {None} :
          review = None /\ then = None
    OBVIOUS
  <2>2. PICK r : r = Saving(f, e, t, review, then)
    OBVIOUS
  <2>3. /\ r \in Operation /\ r.flow = f
        /\ r.pc \in {"write", "snapshot"} /\ (r.pc = "write" <=> e = None)
        /\ r.prior = e /\ r.new = Merged(f, e, t, review) /\ r.then = then
    BY <1>2, <2>2, SavingFacts
  <2>. QED BY <1>3, <2>1, <2>2, <2>3
<1>5. /\ op' = [op EXCEPT ![o] = q]
      /\ texts' = IF e # None THEN texts ELSE [texts EXCEPT ![f] = {}]
      /\ UNCHANGED <<cache, disk, snapshots, deleted, shown, forgone, ghosts>>
      /\ op[o].pc = "idle" /\ Enter(f)
  BY <1>1, <1>3 DEF SaveCommand, Take, Cached
<1>6. /\ op' \in [Ops -> Operation] /\ op'[o] = q
      /\ \A p \in Ops \ {o} : op'[p] = op[p]
  BY <1>4, <1>5, OpStep
<1>7. op[o].flow = None
  BY <1>5, Shapes DEF Typed
<1>8. Typed'
  BY <1>5, <1>6 DEF Typed, Enter
<1>9. Elsewhere(f, o)
  BY <1>4, <1>5, <1>6, <1>7 DEF Elsewhere, Enter, Typed
<1>10. Matching(e) /\ Succeeds(q)
  <2>1. Matching(e)
    BY <1>1 DEF Sound
  <2>2. q.new.version = Version(e) + 1
    BY <1>2, <1>4, MergedFacts
  <2>. QED BY <1>4, <2>1, <2>2 DEF Succeeds
<1>11. Sound'
  <2>1. /\ Matching(cache'[f]) /\ (Loadable(disk'[f]) => disk'[f].spec.version > 0)
        /\ \A s \in snapshots'[f] : s.text = Header \/ s.text.spec.version = s.version
    BY <1>5 DEF Sound
  <2>2. /\ Saves(o)' => Matching(op'[o].prior) /\ Succeeds(op'[o])
        /\ Deletes(o)' => Matching(op'[o].prior)
        /\ op'[o].pc = "snapshot" => op'[o].prior # None
    BY <1>4, <1>6, <1>10
  <2>. QED BY <1>9, <2>1, <2>2, SoundFrame
<1>12. ASSUME f \notin raced'
       PROVE  On(f) = {} /\ Kept(f)' /\ Phase(f, o)'
  <2>1. f \notin raced /\ On(f) = {}
    BY <1>5, <1>12 DEF Enter, Typed
  <2>2. Kept(f) /\ Rest(f, e)
    BY <1>1, <2>1 DEF FlowInv
  <2>3. texts'[f] = texts[f] \/ texts'[f] = {}
    BY <1>5 DEF Typed
  <2>4. Kept(f)'
    BY <1>5, <2>2, <2>3 DEF Kept, Aside
  <2>5. e = None => texts'[f] = {}
    BY <1>5 DEF Typed
  <2>6. Rest(f, e)'
    BY <1>5, <2>2, <2>3 DEF Rest, ToldOf
  <2>. QED BY <1>1, <1>4, <1>5, <1>6, <2>1, <2>4, <2>5, <2>6
       DEF Phase, Saves, Deletes
<1>. QED BY <1>4, <1>6, <1>8, <1>9, <1>11, <1>12, FlowStep

LEMMA CreatingStep ==
  ASSUME StoreInv, NEW o \in Ops, NEW f \in Flows,
         NEW then \in Generated \cup {None}, Creating(o, f, then),
         op[o].pc \in {"idle", "asking"}
  PROVE  StoreInv'
<1> USE DEF StoreInv
<1>1. PICK q : q = Saving(f, Seed, Skeleton, None, then)
  OBVIOUS
<1>2. Skeleton \in Topologies
  BY StoreAssumption
<1>3. /\ q \in Operation /\ q.flow = f /\ q.pc = "snapshot"
      /\ q.prior = Seed /\ q.new = Merged(f, Seed, Skeleton, None) /\ q.then = then
  BY <1>1, <1>2, SeedFacts, SavingFacts
<1>4. /\ op' = [op EXCEPT ![o] = q] /\ cache' = [cache EXCEPT ![f] = Seed]
      /\ texts' = [texts EXCEPT ![f] = {}]
      /\ UNCHANGED <<disk, snapshots, deleted, shown, forgone, ghosts>>
      /\ cache[f] = None /\ Enter(f)
  BY <1>1 DEF Creating, Cached
<1>5. /\ op' \in [Ops -> Operation] /\ op'[o] = q
      /\ \A p \in Ops \ {o} : op'[p] = op[p]
  BY <1>3, <1>4, OpStep
<1>6. op[o].flow = None
  BY Shapes DEF Typed
<1>7. Typed'
  BY <1>4, <1>5, SeedFacts DEF Typed, Enter
<1>8. Elsewhere(f, o)
  BY <1>3, <1>4, <1>5, <1>6 DEF Elsewhere, Enter, Typed
<1>9. cache'[f] = Seed /\ texts'[f] = {}
  BY <1>4 DEF Typed
<1>10. Matching(Seed) /\ Succeeds(q)
  <2>1. q.new.version = 0 + 1
    BY <1>2, <1>3, SeedFacts, MergedFacts DEF Version
  <2>. QED BY <1>3, <2>1, SeedFacts DEF Succeeds, Matching, Version
<1>11. Sound'
  <2>1. /\ Matching(cache'[f]) /\ (Loadable(disk'[f]) => disk'[f].spec.version > 0)
        /\ \A s \in snapshots'[f] : s.text = Header \/ s.text.spec.version = s.version
    BY <1>4, <1>9, <1>10 DEF Sound
  <2>2. /\ Saves(o)' => Matching(op'[o].prior) /\ Succeeds(op'[o])
        /\ Deletes(o)' => Matching(op'[o].prior)
        /\ op'[o].pc = "snapshot" => op'[o].prior # None
    BY <1>3, <1>5, <1>10, SeedFacts
  <2>. QED BY <1>8, <2>1, <2>2, SoundFrame
<1>12. ASSUME f \notin raced'
       PROVE  On(f) = {} /\ Kept(f)' /\ Phase(f, o)'
  <2>1. f \notin raced /\ On(f) = {}
    BY <1>4, <1>12 DEF Enter, Typed
  <2>2. Kept(f) /\ Rest(f, None)
    BY <1>4, <2>1 DEF FlowInv
  <2>3. Kept(f)'
    BY <1>9 DEF Kept
  <2>4. Version(Seed) = 0 /\ Version(None) = 0
    BY SeedFacts DEF Version
  <2>5. Rest(f, Seed)'
    BY <1>4, <1>9, <2>2, <2>4 DEF Rest, ToldOf
  <2>. QED BY <1>3, <1>5, <1>9, <2>1, <2>3, <2>5 DEF Phase, Saves, Deletes
<1>. QED BY <1>3, <1>5, <1>7, <1>8, <1>11, <1>12, FlowStep

LEMMA DeleteCommandStep ==
  ASSUME StoreInv, NEW o \in Ops, NEW f \in Flows, DeleteCommand(o, f)
  PROVE  StoreInv'
<1> USE DEF StoreInv
<1>1. PICK q \in Operation :
        op' = [op EXCEPT ![o] = q] /\ q.pc = "killing" /\ q.flow = f
  <2>1. PICK q : q = [Idle EXCEPT !.pc = "killing", !.flow = f]
    OBVIOUS
  <2>2. q \in Operation /\ q.pc = "killing" /\ q.flow = f
    BY <2>1, ShapeStarts, Zenon
  <2>3. op' = [op EXCEPT ![o] = q]
    BY <2>1, Zenon DEF DeleteCommand
  <2>. QED BY <2>2, <2>3
<1>2. /\ UNCHANGED <<cache, disk, snapshots, deleted, shown, texts, forgone, ghosts>>
      /\ op[o].pc = "idle" /\ Enter(f)
  BY DEF DeleteCommand, Take, histVars
<1>3. /\ op' \in [Ops -> Operation] /\ op'[o] = q
      /\ \A p \in Ops \ {o} : op'[p] = op[p]
  BY <1>1, OpStep
<1>4. op[o].flow = None
  BY <1>2, Shapes DEF Typed
<1>5. Typed'
  BY <1>2, <1>3 DEF Typed, Enter
<1>6. Elsewhere(f, o)
  BY <1>1, <1>2, <1>3, <1>4 DEF Elsewhere, Enter, Typed
<1>7. Sound'
  <2>1. /\ Matching(cache'[f]) /\ (Loadable(disk'[f]) => disk'[f].spec.version > 0)
        /\ \A s \in snapshots'[f] : s.text = Header \/ s.text.spec.version = s.version
    BY <1>2 DEF Sound
  <2>. QED BY <1>1, <1>3, <1>6, <2>1, SoundFrame DEF Saves, Deletes
<1>8. ASSUME f \notin raced'
      PROVE  On(f) = {} /\ Kept(f)' /\ Phase(f, o)'
  <2>1. f \notin raced /\ On(f) = {}
    BY <1>2, <1>8 DEF Enter, Typed
  <2>2. Kept(f) /\ Rest(f, cache[f])
    BY <2>1 DEF FlowInv
  <2>. QED BY <1>1, <1>2, <1>3, <2>1, <2>2
       DEF Kept, Aside, Rest, ToldOf, Phase, Saves, Deletes
<1>. QED BY <1>1, <1>3, <1>5, <1>6, <1>7, <1>8, FlowStep

----------------------------------------------------------------------------
(* Saving. *)

LEMMA SaveMove ==
  ASSUME Typed, NEW o \in Ops, op[o].pc \in SavePcs, NEW c \in SavePcs, Move(o, c)
  PROVE  /\ op' \in [Ops -> Operation] /\ op'[o].pc = c /\ op'[o].flow = op[o].flow
         /\ op'[o].prior = op[o].prior /\ op'[o].new = op[o].new
         /\ op'[o].then = op[o].then
         /\ \A p \in Ops \ {o} : op'[p] = op[p]
<1>1. PICK p \in Operation : p = op[o]
  BY DEF Typed
<1>2. PICK q : q = [p EXCEPT !.pc = c]
  OBVIOUS
<1>3. /\ q \in Operation /\ q.pc = c /\ q.flow = p.flow
      /\ q.prior = p.prior /\ q.new = p.new /\ q.then = p.then
  BY <1>1, <1>2 DEF Operation, SavePcs
<1>4. op' = [op EXCEPT ![o] = q]
  BY <1>1, <1>2 DEF Move
<1>. QED BY <1>1, <1>3, <1>4, OpStep

LEMMA SnapshotStep ==
  ASSUME StoreInv, NEW o \in Ops, SnapshotPrior(o) \/ SnapshotFails(o)
  PROVE  StoreInv'
<1> USE DEF StoreInv
<1>1. PICK f \in Flows : f = op[o].flow
  BY Current DEF SnapshotPrior, SnapshotFails, At
<1>2. op[o].pc = "snapshot" /\ Move(o, "write")
  BY DEF SnapshotPrior, SnapshotFails, At
<1>3. PICK e \in Entry : e = op[o].prior
  BY <1>2, Current, Shapes DEF SavePcs, Sound
<1>4. PICK v \in Nat : v = e.flow.version
  BY DEF Entry, Spec0
<1>5. Matching(e) /\ Succeeds(op[o]) /\ e # None /\ Version(e) = v
  BY <1>2, <1>3, <1>4, MatchingFacts DEF Sound, Saves
<1>6. /\ op' \in [Ops -> Operation] /\ op'[o].pc = "write" /\ op'[o].flow = f
      /\ op'[o].prior = e /\ op'[o].new = op[o].new /\ op'[o].then = op[o].then
      /\ \A p \in Ops \ {o} : op'[p] = op[p]
  BY <1>1, <1>2, <1>3, SaveMove DEF SavePcs
<1>7. UNCHANGED <<cache, disk, deleted, shown, texts, ghosts, raced>>
  BY DEF SnapshotPrior, SnapshotFails, histVars
<1>8. \/ /\ snapshots' = [snapshots EXCEPT ![f] =
                {s \in snapshots[f] : s.version # v}
                  \cup {[version |-> v, text |-> e.text]}]
         /\ forgone' = forgone
      \/ /\ snapshots' = snapshots
         /\ forgone' = [forgone EXCEPT ![f] = forgone[f] \cup {e.text}]
  BY <1>1, <1>3, <1>4 DEF SnapshotPrior, SnapshotFails, histVars
<1>9. e.text \in Text \cup {Header} /\ [version |-> v, text |-> e.text] \in Snapped
  BY DEF Entry, Snapped
<1>10. Typed'
  <2>1. snapshots' \in [Flows -> SUBSET Snapped]
    <3>1. {s \in snapshots[f] : s.version # v} \cup {[version |-> v, text |-> e.text]}
            \in SUBSET Snapped
      BY <1>9 DEF Typed
    <3>. QED BY <1>8, <3>1 DEF Typed
  <2>2. forgone' \in [Flows -> SUBSET (Text \cup {Header})]
    <3>1. forgone[f] \cup {e.text} \in SUBSET (Text \cup {Header})
      BY <1>9 DEF Typed
    <3>. QED BY <1>8, <3>1 DEF Typed
  <2>. QED BY <1>6, <1>7, <2>1, <2>2 DEF Typed
<1>11. Elsewhere(f, o)
  BY <1>1, <1>6, <1>7, <1>8 DEF Elsewhere, Typed
<1>12. ASSUME NEW s \in snapshots[f]'
       PROVE  s.text = Header \/ s.text.spec.version = s.version
  <2>1. s \in snapshots[f] \/ s = [version |-> v, text |-> e.text]
    BY <1>8, <1>12 DEF Typed
  <2>2. e.text = Header \/ e.text.spec.version = v
    BY <1>4, <1>5, SeedFacts DEF Matching
  <2>. QED BY <2>1, <2>2 DEF Sound
<1>13. Sound'
  <2>1. Matching(cache'[f]) /\ (Loadable(disk'[f]) => disk'[f].spec.version > 0)
    BY <1>7 DEF Sound
  <2>2. /\ Saves(o)' => Matching(op'[o].prior) /\ Succeeds(op'[o])
        /\ Deletes(o)' => Matching(op'[o].prior)
        /\ op'[o].pc = "snapshot" => op'[o].prior # None
    BY <1>3, <1>5, <1>6 DEF Succeeds, Deletes
  <2>. QED BY <1>11, <1>12, <2>1, <2>2, SoundFrame
<1>14. ASSUME f \notin raced'
       PROVE  On(f) \subseteq {o} /\ Kept(f)' /\ Phase(f, o)'
  <2>1. On(f) \subseteq {o} /\ Kept(f) /\ Phase(f, o)
    BY <1>1, <1>2, <1>7, <1>14, Current
  <2>2. e = cache[f] /\ Rest(f, e)
    BY <1>2, <1>3, <2>1 DEF Phase, Saves
  <2>3. ASSUME NEW t \in texts[f] PROVE t \in Aside(f)'
    <3>1. v > 0 /\ disk[f] = e.text /\ e.text.spec.version = v /\ Loadable(disk[f])
      <4>1. v # 0
        BY <1>5, <2>2, <2>3 DEF Rest
      <4>2. disk[f] = e.text /\ e.text \in Text /\ e.text.spec = e.flow
        BY <1>5, <2>2, <4>1, MatchingFacts DEF Rest
      <4>. QED BY <1>4, <4>1, <4>2, LoadableFacts
    <3>2. t \in Text /\ t # Header
      BY <2>3, StoreAssumption DEF Typed
    <3>3. t = disk[f] \/ t.spec.version < v
      BY <2>1, <2>3, <3>1 DEF Kept
    <3>4. CASE t = disk[f]
      <4>1. CASE forgone' = [forgone EXCEPT ![f] = forgone[f] \cup {e.text}]
        BY <3>1, <3>4, <4>1 DEF Aside, Typed
      <4>2. CASE snapshots' = [snapshots EXCEPT ![f] =
                    {s \in snapshots[f] : s.version # v}
                      \cup {[version |-> v, text |-> e.text]}]
        <5>1. [version |-> v, text |-> e.text] \in snapshots'[f]
          BY <4>2 DEF Typed
        <5>. QED BY <3>1, <3>4, <5>1 DEF Aside
      <4>. QED BY <1>8, <4>1, <4>2
    <3>5. CASE t # disk[f]
      <4>1. t.spec.version # v
        BY <1>4, <3>2, <3>3, <3>5 DEF Text, Spec0
      <4>2. \/ \E s \in snapshots[f] : t = s.text
            \/ \E i \in DOMAIN deleted[f] : t = deleted[f][i]
            \/ t \in forgone[f]
        BY <2>1, <2>3, <3>5 DEF Kept, Aside
      <4>3. CASE \E s \in snapshots[f] : t = s.text
        <5>1. PICK s \in snapshots[f] : t = s.text
          BY <4>3
        <5>2. s.version # v
          BY <3>2, <4>1, <5>1 DEF Sound
        <5>3. s \in snapshots'[f]
          BY <1>8, <5>2 DEF Typed
        <5>. QED BY <5>1, <5>3 DEF Aside
      <4>4. CASE \E i \in DOMAIN deleted[f] : t = deleted[f][i]
        BY <1>7, <4>4 DEF Aside
      <4>5. CASE t \in forgone[f]
        BY <1>8, <4>5 DEF Aside, Typed
      <4>. QED BY <4>2, <4>3, <4>4, <4>5
    <3>. QED BY <3>4, <3>5
  <2>4. Kept(f)'
    BY <1>7, <2>1, <2>3 DEF Kept
  <2>5. Rest(f, e)'
    BY <1>7, <2>2 DEF Rest, ToldOf
  <2>. QED BY <1>3, <1>5, <1>6, <1>7, <2>1, <2>2, <2>3, <2>4, <2>5
       DEF Phase, Saves, Deletes
<1>. QED BY <1>6, <1>10, <1>11, <1>13, <1>14, FlowStep

LEMMA RenameStep ==
  ASSUME StoreInv, NEW o \in Ops, RenameFile(o)
  PROVE  StoreInv'
<1> USE DEF StoreInv
<1>1. PICK f \in Flows : f = op[o].flow
  BY Current DEF RenameFile, At
<1>2. op[o].pc = "write" /\ Move(o, "renamed")
  BY DEF RenameFile, At
<1>3. PICK e \in Entry \cup {None}, new \in Spec0 : e = op[o].prior /\ new = op[o].new
  BY <1>2, Current, Shapes DEF SavePcs
<1>4. PICK text \in Text : text = Rendered(e, new) /\ text.spec = new
  BY RenderedFacts
<1>5. Matching(e) /\ Succeeds(op[o]) /\ new.version = Version(e) + 1 /\ Version(e) \in Nat
  <2>1. Matching(e) /\ Succeeds(op[o])
    BY <1>2, <1>3 DEF Sound, Saves
  <2>2. Version(e) \in Nat
    BY DEF Version, Entry, Spec0
  <2>. QED BY <1>3, <2>1, <2>2 DEF Succeeds
<1>6. /\ op' \in [Ops -> Operation] /\ op'[o].pc = "renamed" /\ op'[o].flow = f
      /\ op'[o].prior = e /\ op'[o].new = new /\ op'[o].then = op[o].then
      /\ \A p \in Ops \ {o} : op'[p] = op[p]
  BY <1>1, <1>2, <1>3, SaveMove DEF SavePcs
<1>7. /\ disk' = [disk EXCEPT ![f] = text]
      /\ texts' = [texts EXCEPT ![f] = texts[f] \cup {text}]
      /\ UNCHANGED <<cache, snapshots, deleted, shown, forgone, ghosts, raced>>
  BY <1>1, <1>3, <1>4 DEF RenameFile
<1>8. Typed'
  BY <1>6, <1>7 DEF Typed
<1>9. Elsewhere(f, o)
  BY <1>1, <1>6, <1>7 DEF Elsewhere, Typed
<1>10. disk'[f] = text /\ texts'[f] = texts[f] \cup {text} /\ Loadable(text)
  BY <1>7, LoadableFacts DEF Typed
<1>11. Sound'
  <2>1. /\ Matching(cache'[f]) /\ disk'[f].spec.version > 0
        /\ \A s \in snapshots'[f] : s.text = Header \/ s.text.spec.version = s.version
    BY <1>4, <1>5, <1>7, <1>10 DEF Sound
  <2>2. /\ Saves(o)' => Matching(op'[o].prior) /\ Succeeds(op'[o])
        /\ Deletes(o)' => Matching(op'[o].prior)
        /\ op'[o].pc = "snapshot" => op'[o].prior # None
    BY <1>3, <1>5, <1>6 DEF Succeeds, Deletes
  <2>. QED BY <1>9, <2>1, <2>2, SoundFrame
<1>12. ASSUME f \notin raced'
       PROVE  On(f) \subseteq {o} /\ Kept(f)' /\ Phase(f, o)'
  <2>1. On(f) \subseteq {o} /\ Kept(f) /\ Phase(f, o)
    BY <1>1, <1>2, <1>7, <1>12, Current
  <2>2. /\ e = cache[f] /\ Rest(f, e) /\ texts[f] \subseteq Aside(f)
        /\ e = None => texts[f] = {}
    BY <1>2, <1>3, <2>1 DEF Phase, Saves
  <2>3. Aside(f)' = Aside(f)
    BY <1>7 DEF Aside
  <2>4. ASSUME NEW t \in texts[f] PROVE t.spec.version < text.spec.version
    <3>1. e \in Entry /\ Version(e) > 0
      BY <1>5, <2>2, <2>4 DEF Rest
    <3>2. disk[f] \in Text /\ disk[f].spec.version = Version(e)
      BY <1>5, <2>2, <3>1, MatchingFacts DEF Rest
    <3>3. t.spec.version \in Nat /\ Loadable(disk[f])
      BY <2>4, <3>2, LoadableFacts DEF Typed
    <3>4. t.spec.version < Version(e) \/ t.spec.version = Version(e)
      BY <2>1, <2>4, <3>2, <3>3 DEF Kept
    <3>. QED BY <1>4, <1>5, <3>3, <3>4
  <2>5. Kept(f)'
    BY <1>4, <1>5, <1>10, <2>1, <2>2, <2>3, <2>4 DEF Kept
  <2>6. ToldOf(f, e)'
    BY <1>7, <2>2 DEF Rest, ToldOf
  <2>. QED BY <1>4, <1>6, <1>7, <1>10, <2>1, <2>2, <2>5, <2>6
       DEF Phase, Saves, Deletes
<1>. QED BY <1>6, <1>8, <1>9, <1>11, <1>12, FlowStep

LEMMA WriteFailsStep ==
  ASSUME StoreInv, NEW o \in Ops, WriteFails(o)
  PROVE  StoreInv'
<1> USE DEF StoreInv
<1>1. PICK f \in Flows : f = op[o].flow
  BY Current DEF WriteFails, At
<1>2. /\ op[o].pc = "write"
      /\ UNCHANGED <<cache, disk, snapshots, deleted, shown, texts, forgone, ghosts, raced>>
  BY DEF WriteFails, At, histVars
<1>3. /\ op' \in [Ops -> Operation] /\ op'[o].pc = "idle" /\ op'[o].flow = None
      /\ \A p \in Ops \ {o} : op'[p] = op[p]
  BY OpStep, ShapeStarts DEF WriteFails
<1>4. Typed'
  BY <1>2, <1>3 DEF Typed
<1>5. Elsewhere(f, o)
  BY <1>1, <1>2, <1>3 DEF Elsewhere
<1>6. Sound'
  <2>1. /\ Matching(cache'[f]) /\ (Loadable(disk'[f]) => disk'[f].spec.version > 0)
        /\ \A s \in snapshots'[f] : s.text = Header \/ s.text.spec.version = s.version
    BY <1>2 DEF Sound
  <2>. QED BY <1>3, <1>5, <2>1, SoundFrame DEF Saves, Deletes
<1>7. ASSUME f \notin raced'
      PROVE  On(f) \subseteq {o} /\ Kept(f)' /\ Rest(f, cache[f])'
  <2>1. On(f) \subseteq {o} /\ Kept(f) /\ Phase(f, o)
    BY <1>1, <1>2, <1>7, Current
  <2>. QED BY <1>2, <2>1 DEF Phase, Kept, Aside, Rest, ToldOf
<1>8. f # None
  BY StoreAssumption
<1>. QED BY <1>3, <1>4, <1>5, <1>6, <1>7, <1>8, FlowStep

LEMMA FinishStep ==
  ASSUME StoreInv, NEW o \in Ops, Finish(o)
  PROVE  StoreInv'
<1> USE DEF StoreInv
<1>1. PICK f \in Flows : f = op[o].flow
  BY Current DEF Finish, At
<1>2. op[o].pc = "renamed"
  BY DEF Finish, At
<1>3. PICK e \in Entry \cup {None}, new \in Spec0, edit \in Generated \cup {None} :
        e = op[o].prior /\ new = op[o].new /\ edit = op[o].then
  BY <1>2, Current, Shapes DEF SavePcs
<1>4. PICK text \in Text : text = Rendered(e, new) /\ text.spec = new
  BY RenderedFacts
<1>5. PICK entry \in Entry : entry = [flow |-> new, text |-> text]
  BY DEF Entry
<1>6. entry.flow = new /\ entry.text = text /\ entry # None
  BY <1>5, StoreAssumption
<1>7. /\ Succeeds(op[o]) /\ new.version > 0 /\ Version(entry) = new.version
      /\ Matching(entry)
  <2>1. Succeeds(op[o])
    BY <1>2 DEF Sound, Saves
  <2>2. Version(e) \in Nat
    BY DEF Version, Entry, Spec0
  <2>3. new.version = Version(e) + 1
    BY <1>3, <2>1 DEF Succeeds
  <2>4. new.version > 0
    BY <2>2, <2>3
  <2>. QED BY <1>4, <1>6, <2>1, <2>4 DEF Matching, Version
<1>8. /\ cache' = [cache EXCEPT ![f] = entry]
      /\ shown' = [shown EXCEPT ![f] = new] /\ ghosts' = ghosts \ {f}
      /\ UNCHANGED <<disk, snapshots, deleted, texts, forgone, raced>>
  BY <1>1, <1>3, <1>4, <1>5 DEF Finish
<1>9. PICK q \in Operation :
        /\ op' = [op EXCEPT ![o] = q]
        /\ \/ q.pc = "idle" /\ q.flow = None
           \/ /\ q.pc = "snapshot" /\ q.flow = f /\ q.prior = entry
              /\ Succeeds(q)
  <2>1. CASE edit # None /\ edit.topology \in Accepted
    <3>1. PICK t \in Topologies, review \in BOOLEAN \cup {None} :
            t = edit.topology /\ review = edit.review
      BY <2>1, StoreAssumption DEF Generated
    <3>2. PICK q : q = Saving(f, entry, t, review, None)
      OBVIOUS
    <3>3. PICK then \in Generated \cup {None} : then = None
      OBVIOUS
    <3>4. PICK r : r = Saving(f, entry, t, review, then)
      OBVIOUS
    <3>5. /\ r \in Operation /\ r.flow = f
          /\ r.pc \in {"write", "snapshot"} /\ (r.pc = "write" <=> entry = None)
          /\ r.prior = entry /\ r.new = Merged(f, entry, t, review) /\ r.then = then
      BY <3>4, SavingFacts
    <3>6. op' = [op EXCEPT ![o] = r]
      BY <1>1, <1>3, <1>4, <1>5, <2>1, <3>1, <3>3, <3>4 DEF Finish
    <3>7. r.new.version = Version(entry) + 1
      BY <3>5, MergedFacts
    <3>8. Succeeds(r)
      BY <3>5, <3>7 DEF Succeeds
    <3>. QED BY <1>6, <3>5, <3>6, <3>8
  <2>2. CASE ~ (edit # None /\ edit.topology \in Accepted)
    BY <1>3, <2>2, ShapeStarts DEF Finish
  <2>. QED BY <2>1, <2>2
<1>10. /\ op' \in [Ops -> Operation] /\ op'[o] = q
       /\ \A p \in Ops \ {o} : op'[p] = op[p]
  BY <1>9, OpStep
<1>11. Typed'
  BY <1>8, <1>10 DEF Typed
<1>12. Elsewhere(f, o)
  BY <1>1, <1>8, <1>9, <1>10 DEF Elsewhere, Typed
<1>13. cache'[f] = entry /\ shown'[f] = new
  BY <1>8 DEF Typed
<1>14. Sound'
  <2>1. /\ Matching(cache'[f]) /\ (Loadable(disk'[f]) => disk'[f].spec.version > 0)
        /\ \A s \in snapshots'[f] : s.text = Header \/ s.text.spec.version = s.version
    BY <1>7, <1>8, <1>13 DEF Sound
  <2>2. /\ Saves(o)' => Matching(op'[o].prior) /\ Succeeds(op'[o])
        /\ Deletes(o)' => Matching(op'[o].prior)
        /\ op'[o].pc = "snapshot" => op'[o].prior # None
    BY <1>6, <1>7, <1>9, <1>10 DEF Saves, Deletes
  <2>. QED BY <1>12, <2>1, <2>2, SoundFrame
<1>15. ASSUME f \notin raced'
       PROVE  /\ On(f) \subseteq {o} /\ Kept(f)' /\ Rest(f, entry)'
              /\ op'[o].flow = f => Phase(f, o)'
  <2>1. On(f) \subseteq {o} /\ Kept(f) /\ Phase(f, o)
    BY <1>1, <1>2, <1>8, <1>15, Current
  <2>2. Kept(f)'
    BY <1>8, <2>1 DEF Kept, Aside
  <2>3. disk'[f] = text
    BY <1>2, <1>3, <1>4, <1>8, <2>1 DEF Phase
  <2>4. Rest(f, entry)'
    BY <1>6, <1>7, <1>13, <2>3 DEF Rest, ToldOf
  <2>. QED BY <1>9, <1>10, <1>13, <2>1, <2>2, <2>4, StoreAssumption
       DEF Phase, Saves, Deletes
<1>16. f # None
  BY StoreAssumption
<1>. QED BY <1>11, <1>12, <1>13, <1>14, <1>15, FlowStep

----------------------------------------------------------------------------
(* Deleting. *)

LEMMA DropStep ==
  ASSUME StoreInv, NEW o \in Ops, Drop(o)
  PROVE  StoreInv'
<1> USE DEF StoreInv
<1>1. PICK f \in Flows : f = op[o].flow
  BY Current DEF Drop, At
<1>2. PICK e \in Entry \cup {None} : e = cache[f]
  BY DEF Typed
<1>3. op[o].pc = "killing" /\ f # None
  BY StoreAssumption DEF Drop, At
<1>4. /\ cache' = [cache EXCEPT ![f] = None]
      /\ IF e # None THEN UNCHANGED <<shown, ghosts>>
         ELSE shown' = [shown EXCEPT ![f] = None] /\ ghosts' = ghosts \ {f}
      /\ UNCHANGED <<disk, snapshots, deleted, texts, forgone, raced>>
  BY <1>1, <1>2 DEF Drop, Cached
<1>5. PICK q \in Operation :
        /\ op' = [op EXCEPT ![o] = q]
        /\ \/ e = None /\ q.pc = "idle" /\ q.flow = None
           \/ e # None /\ q.pc = "archive" /\ q.flow = f /\ q.prior = e
  <2>1. CASE e = None
    BY <1>1, <1>2, <2>1, ShapeStarts DEF Drop, Cached
  <2>2. CASE e # None
    <3>1. PICK q : q = Deleting(f, e)
      OBVIOUS
    <3>2. q \in Operation /\ q.pc = "archive" /\ q.flow = f /\ q.prior = e
      <4>1. e \in Entry
        BY <2>2
      <4>. QED BY <3>1, <4>1 DEF Deleting, Operation
    <3>3. op' = [op EXCEPT ![o] = q]
      BY <1>1, <1>2, <2>2, <3>1 DEF Drop, Cached
    <3>. QED BY <2>2, <3>2, <3>3
  <2>. QED BY <2>1, <2>2
<1>6. /\ op' \in [Ops -> Operation] /\ op'[o] = q
      /\ \A p \in Ops \ {o} : op'[p] = op[p]
  BY <1>5, OpStep
<1>7. Typed'
  BY <1>4, <1>6 DEF Typed
<1>8. Elsewhere(f, o)
  BY <1>1, <1>4, <1>5, <1>6 DEF Elsewhere, Typed
<1>9. cache'[f] = None
  BY <1>4 DEF Typed
<1>10. Sound'
  <2>1. /\ Matching(cache'[f]) /\ (Loadable(disk'[f]) => disk'[f].spec.version > 0)
        /\ \A s \in snapshots'[f] : s.text = Header \/ s.text.spec.version = s.version
    BY <1>4, <1>9 DEF Sound, Matching
  <2>2. Matching(e)
    BY <1>2 DEF Sound
  <2>3. /\ Saves(o)' => Matching(op'[o].prior) /\ Succeeds(op'[o])
        /\ Deletes(o)' => Matching(op'[o].prior)
        /\ op'[o].pc = "snapshot" => op'[o].prior # None
    BY <1>5, <1>6, <2>2 DEF Saves, Deletes
  <2>. QED BY <1>8, <2>1, <2>3, SoundFrame
<1>11. ASSUME f \notin raced'
       PROVE  /\ On(f) \subseteq {o} /\ Kept(f)'
              /\ op'[o].flow = f => Phase(f, o)'
              /\ op'[o].flow # f => Rest(f, cache[f])'
  <2>1. On(f) \subseteq {o} /\ Kept(f) /\ Phase(f, o)
    BY <1>1, <1>3, <1>4, <1>11, Current
  <2>2. Kept(f)'
    BY <1>4, <2>1 DEF Kept, Aside
  <2>3. Rest(f, e)
    BY <1>2, <1>3, <2>1 DEF Phase
  <2>4. CASE e = None
    <3>1. shown'[f] = None
      BY <1>4, <2>4 DEF Typed
    <3>. QED BY <1>3, <1>5, <1>6, <1>9, <2>1, <2>2, <2>4, <3>1
         DEF Rest, ToldOf, Version
  <2>5. CASE e # None
    <3>1. Rest(f, e)'
      BY <1>4, <2>3, <2>5 DEF Rest, ToldOf
    <3>. QED BY <1>5, <1>6, <1>9, <2>1, <2>2, <2>5, <3>1
         DEF Phase, Saves, Deletes
  <2>. QED BY <2>4, <2>5
<1>. QED BY <1>7, <1>8, <1>10, <1>11, FlowStep

LEMMA DeleteMove ==
  ASSUME Typed, NEW o \in Ops, op[o].pc \in DeletePcs, NEW c \in DeletePcs, Move(o, c)
  PROVE  /\ op' \in [Ops -> Operation] /\ op'[o].pc = c /\ op'[o].flow = op[o].flow
         /\ op'[o].prior = op[o].prior
         /\ \A p \in Ops \ {o} : op'[p] = op[p]
<1>1. PICK p \in Operation : p = op[o]
  BY DEF Typed
<1>2. PICK q : q = [p EXCEPT !.pc = c]
  OBVIOUS
<1>3. q \in Operation /\ q.pc = c /\ q.flow = p.flow /\ q.prior = p.prior
  BY <1>1, <1>2 DEF Operation, DeletePcs
<1>4. op' = [op EXCEPT ![o] = q]
  BY <1>1, <1>2 DEF Move
<1>. QED BY <1>1, <1>3, <1>4, OpStep

LEMMA AsideAppend ==
  ASSUME Typed, NEW f \in Flows, NEW x \in Text \cup {Broken, Header},
         deleted' = [deleted EXCEPT ![f] = Append(deleted[f], x)],
         snapshots' = snapshots, forgone' = forgone
  PROVE  /\ deleted' \in [Flows -> Seq(Text \cup {Broken, Header})]
         /\ Len(deleted[f]) + 1 \in DOMAIN deleted'[f]
         /\ deleted'[f][Len(deleted[f]) + 1] = x
         /\ Aside(f)' = Aside(f) \cup {x}
<1>1. PICK d \in Seq(Text \cup {Broken, Header}) : d = deleted[f]
  BY DEF Typed
<1>2. PICK n \in Nat : n = Len(d)
  BY <1>1, LenProperties
<1>3. /\ Append(d, x) \in Seq(Text \cup {Broken, Header})
      /\ DOMAIN Append(d, x) = 1 .. n + 1 /\ DOMAIN d = 1 .. n
      /\ Append(d, x)[n + 1] = x /\ \A i \in 1 .. n : Append(d, x)[i] = d[i]
  BY <1>1, <1>2, AppendProperties, LenProperties
<1>4. deleted'[f] = Append(d, x)
  BY <1>1 DEF Typed
<1>5. {Append(d, x)[i] : i \in 1 .. n + 1} = {d[i] : i \in 1 .. n} \cup {x}
  BY <1>2, <1>3
<1>6. deleted' \in [Flows -> Seq(Text \cup {Broken, Header})]
  BY <1>1, <1>3 DEF Typed
<1>7. DOMAIN deleted'[f] = 1 .. n + 1 /\ deleted'[f][n + 1] = x /\ n + 1 \in 1 .. n + 1
  BY <1>3, <1>4
<1>8. /\ {deleted'[f][i] : i \in DOMAIN deleted'[f]}
           = {Append(d, x)[i] : i \in 1 .. n + 1}
      /\ {deleted[f][i] : i \in DOMAIN deleted[f]} = {d[i] : i \in 1 .. n}
  BY <1>1, <1>3, <1>4
<1>9. Aside(f)' = Aside(f) \cup {x}
  BY <1>5, <1>8 DEF Aside
<1>. QED BY <1>1, <1>2, <1>6, <1>7, <1>9

(* The text in the way of delete's file operations is the last one known. *)
LEMMA LastText ==
  ASSUME StoreInv, NEW f \in Flows, Kept(f), NEW e \in Entry, Matching(e), Rest(f, e)
  PROVE  /\ texts[f] = {} \/ disk[f] = e.text
         /\ Version(e) > 0 /\ Loadable(disk[f]) => disk[f] = e.text
BY MatchingFacts DEF Rest

LEMMA ArchivedStep ==
  ASSUME StoreInv, NEW o \in Ops, NEW f \in Flows, f = op[o].flow,
         op[o].pc \in {"archive", "copied"}, Move(o, "archived"),
         UNCHANGED <<cache, snapshots, shown, texts, forgone, ghosts, raced>>,
         deleted' \in [Flows -> Seq(Text \cup {Broken, Header})],
         \A g \in Flows \ {f} : deleted'[g] = deleted[g],
         disk' = disk \/ disk' = [disk EXCEPT ![f] = None],
         f \notin raced => texts[f] \subseteq {disk'[f]} \cup Aside(f)'
  PROVE  StoreInv'
<1> USE DEF StoreInv
<1>1. op[o].pc \in DeletePcs /\ f # None
  BY StoreAssumption DEF DeletePcs
<1>2. PICK e \in Entry : e = op[o].prior
  BY <1>1, Shapes DEF Typed
<1>3. Matching(e)
  BY <1>2 DEF Sound, Deletes
<1>6. /\ op' \in [Ops -> Operation] /\ op'[o].pc = "archived"
      /\ op'[o].flow = f /\ op'[o].prior = e
      /\ \A p \in Ops \ {o} : op'[p] = op[p]
  BY <1>1, <1>2, DeleteMove DEF DeletePcs
<1>7. Typed'
  BY <1>6 DEF Typed
<1>8. Elsewhere(f, o)
  BY <1>6 DEF Elsewhere, Typed
<1>9. disk'[f] = disk[f] \/ disk'[f] = None
  BY DEF Typed
<1>10. ~ Loadable(None)
  BY DEF Loadable
<1>11. Sound'
  <2>1. /\ Matching(cache'[f]) /\ (Loadable(disk'[f]) => disk'[f].spec.version > 0)
        /\ \A s \in snapshots'[f] : s.text = Header \/ s.text.spec.version = s.version
    BY <1>9, <1>10 DEF Sound
  <2>2. /\ Saves(o)' => Matching(op'[o].prior) /\ Succeeds(op'[o])
        /\ Deletes(o)' => Matching(op'[o].prior)
        /\ op'[o].pc = "snapshot" => op'[o].prior # None
    BY <1>3, <1>6 DEF Saves
  <2>. QED BY <1>8, <2>1, <2>2, SoundFrame
<1>12. ASSUME f \notin raced'
       PROVE  On(f) \subseteq {o} /\ Kept(f)' /\ Phase(f, o)'
  <2>1. On(f) \subseteq {o} /\ Kept(f) /\ Phase(f, o)
    BY <1>1, <1>12, Current DEF DeletePcs
  <2>2. Rest(f, e) /\ cache[f] = None
    BY <1>2, <2>1 DEF Phase, Deletes
  <2>3. Kept(f)'
    BY <1>9, <1>10, <1>12, <2>1 DEF Kept
  <2>4. ToldOf(f, e)'
    BY <2>2 DEF Rest, ToldOf
  <2>5. Version(e) > 0 /\ Loadable(disk'[f]) => disk'[f] = e.text
    BY <1>3, <1>9, <1>10, <2>1, <2>2, LastText
  <2>. QED BY <1>6, <2>1, <2>2, <2>3, <2>4, <2>5 DEF Phase, Saves, Deletes
<1>. QED BY <1>6, <1>7, <1>8, <1>11, <1>12, FlowStep

LEMMA ArchiveMovesStep ==
  ASSUME StoreInv, NEW o \in Ops, ArchiveMoves(o)
  PROVE  StoreInv'
<1> USE DEF StoreInv
<1>1. PICK f \in Flows : f = op[o].flow
  BY Current DEF ArchiveMoves, At
<1>2. PICK x \in Text \cup {Broken, Header} : x = disk[f]
  BY <1>1 DEF ArchiveMoves, Typed
<1>3. /\ op[o].pc = "archive" /\ Move(o, "archived")
      /\ deleted' = [deleted EXCEPT ![f] = Append(deleted[f], x)]
      /\ disk' = [disk EXCEPT ![f] = None]
      /\ UNCHANGED <<cache, snapshots, shown, texts, forgone, ghosts, raced>>
  BY <1>1, <1>2 DEF ArchiveMoves, At, Archive, histVars
<1>4. /\ deleted' \in [Flows -> Seq(Text \cup {Broken, Header})]
      /\ Aside(f)' = Aside(f) \cup {x}
  BY <1>3, AsideAppend
<1>5. f \notin raced => texts[f] \subseteq {disk'[f]} \cup Aside(f)'
  BY <1>1, <1>2, <1>3, <1>4, Current DEF Kept
<1>6. \A g \in Flows \ {f} : deleted'[g] = deleted[g]
  BY <1>3 DEF Typed
<1>. QED BY <1>1, <1>3, <1>4, <1>5, <1>6, ArchivedStep

LEMMA ArchiveCopiesStep ==
  ASSUME StoreInv, NEW o \in Ops, ArchiveCopies(o)
  PROVE  StoreInv'
<1> USE DEF StoreInv
<1>1. PICK f \in Flows : f = op[o].flow
  BY Current DEF ArchiveCopies, At
<1>2. PICK x \in Text \cup {Broken, Header} : x = disk[f]
  BY <1>1 DEF ArchiveCopies, Typed
<1>3. PICK n \in Nat : n = Len(deleted[f]) + 1
  BY LenProperties DEF Typed
<1>4. /\ op[o].pc = "archive"
      /\ deleted' = [deleted EXCEPT ![f] = Append(deleted[f], x)]
      /\ UNCHANGED <<cache, disk, snapshots, shown, texts, forgone, ghosts, raced>>
  BY <1>1, <1>2 DEF ArchiveCopies, At, Archive, histVars
<1>5. PICK q : q = [op[o] EXCEPT !.pc = "copied", !.copy = n]
  OBVIOUS
<1>6. op' = [op EXCEPT ![o] = q]
  BY <1>1, <1>3, <1>5 DEF ArchiveCopies
<1>7. PICK e \in Entry : e = op[o].prior
  BY <1>4, Shapes DEF Typed, DeletePcs
<1>8. /\ op' \in [Ops -> Operation] /\ op'[o].pc = "copied" /\ op'[o].flow = f
      /\ op'[o].prior = e /\ op'[o].copy = n
      /\ \A p \in Ops \ {o} : op'[p] = op[p]
  <2>1. PICK p \in Operation : p = op[o]
    BY DEF Typed
  <2>2. p.pc \in DeletePcs /\ q = [p EXCEPT !.pc = "copied", !.copy = n]
    BY <1>4, <1>5, <2>1 DEF DeletePcs
  <2>3. /\ q \in Operation /\ q.pc = "copied" /\ q.flow = p.flow
        /\ q.prior = p.prior /\ q.copy = n
    BY <2>2 DEF Operation, DeletePcs
  <2>. QED BY <1>1, <1>6, <1>7, <2>1, <2>3, OpStep
<1>9. /\ deleted' \in [Flows -> Seq(Text \cup {Broken, Header})]
      /\ n \in DOMAIN deleted'[f] /\ deleted'[f][n] = x
      /\ Aside(f)' = Aside(f) \cup {x}
  BY <1>3, <1>4, AsideAppend
<1>10. Typed'
  BY <1>4, <1>8, <1>9 DEF Typed
<1>11. Elsewhere(f, o)
  BY <1>1, <1>4, <1>8 DEF Elsewhere, Typed
<1>12. Sound'
  <2>1. /\ Matching(cache'[f]) /\ (Loadable(disk'[f]) => disk'[f].spec.version > 0)
        /\ \A s \in snapshots'[f] : s.text = Header \/ s.text.spec.version = s.version
    BY <1>4 DEF Sound
  <2>2. /\ Saves(o)' => Matching(op'[o].prior) /\ Succeeds(op'[o])
        /\ Deletes(o)' => Matching(op'[o].prior)
        /\ op'[o].pc = "snapshot" => op'[o].prior # None
    BY <1>4, <1>7, <1>8 DEF Sound, Saves, Deletes
  <2>. QED BY <1>11, <2>1, <2>2, SoundFrame
<1>13. ASSUME f \notin raced'
       PROVE  On(f) \subseteq {o} /\ Kept(f)' /\ Phase(f, o)'
  <2>1. On(f) \subseteq {o} /\ Kept(f) /\ Phase(f, o)
    BY <1>1, <1>4, <1>13, Current
  <2>2. Rest(f, e)' /\ cache[f] = None
    BY <1>4, <1>7, <2>1 DEF Phase, Deletes, Rest, ToldOf
  <2>3. Kept(f)'
    BY <1>4, <1>9, <2>1 DEF Kept
  <2>. QED BY <1>2, <1>4, <1>8, <1>9, <2>1, <2>2, <2>3 DEF Phase, Saves, Deletes
<1>. QED BY <1>8, <1>10, <1>11, <1>12, <1>13, FlowStep

LEMMA UnlinkStep ==
  ASSUME StoreInv, NEW o \in Ops, UnlinkCopied(o)
  PROVE  StoreInv'
<1> USE DEF StoreInv
<1>1. PICK f \in Flows : f = op[o].flow
  BY Current DEF UnlinkCopied, At
<1>2. /\ op[o].pc = "copied" /\ Move(o, "archived")
      /\ disk' = [disk EXCEPT ![f] = None]
      /\ UNCHANGED <<cache, snapshots, deleted, shown, texts, forgone, ghosts, raced>>
  BY <1>1 DEF UnlinkCopied, At, histVars
<1>3. ASSUME f \notin raced PROVE texts[f] \subseteq Aside(f)'
  <2>1. Kept(f) /\ Phase(f, o)
    BY <1>1, <1>2, <1>3, Current
  <2>2. disk[f] \in Aside(f)
    BY <1>2, <2>1 DEF Phase, Aside
  <2>3. Aside(f)' = Aside(f)
    BY <1>2 DEF Aside
  <2>. QED BY <2>1, <2>2, <2>3 DEF Kept
<1>. QED BY <1>1, <1>2, <1>3, ArchivedStep DEF Typed

LEMMA ArchiveTextStep ==
  ASSUME StoreInv, NEW o \in Ops, ArchiveText(o)
  PROVE  StoreInv'
<1> USE DEF StoreInv
<1>1. PICK f \in Flows : f = op[o].flow
  BY Current DEF ArchiveText, At
<1>2. /\ op[o].pc \in {"archive", "copied"} /\ Move(o, "archived")
      /\ disk' = [disk EXCEPT ![f] = None]
      /\ UNCHANGED <<cache, snapshots, shown, texts, forgone, ghosts, raced>>
  BY <1>1 DEF ArchiveText, At, histVars
<1>3. PICK e \in Entry : e = op[o].prior
  BY <1>2, Shapes DEF Typed, DeletePcs
<1>4. PICK x \in Text \cup {Broken, Header} : x = e.text
  BY DEF Entry
<1>5. Matching(e)
  BY <1>2, <1>3 DEF Sound, Deletes
<1>6. PICK copy \in Nat : copy = op[o].copy
  BY <1>2, Shapes DEF Typed, DeletePcs
<1>7. \/ deleted' = [deleted EXCEPT ![f] = Append(deleted[f], x)]
      \/ /\ op[o].pc = "copied"
         /\ deleted' = [deleted EXCEPT ![f] = [deleted[f] EXCEPT ![copy] = x]]
  BY <1>1, <1>3, <1>4, <1>6 DEF ArchiveText, Archive, At
<1>8. PICK d \in Seq(Text \cup {Broken, Header}) : d = deleted[f]
  BY DEF Typed
<1>9. [d EXCEPT ![copy] = x] \in Seq(Text \cup {Broken, Header})
  <2>1. PICK n \in Nat : d \in [1 .. n -> Text \cup {Broken, Header}]
    BY SeqDef
  <2>2. [d EXCEPT ![copy] = x] \in [1 .. n -> Text \cup {Broken, Header}]
    BY <2>1
  <2>. QED BY <2>2, SeqDef
<1>10. deleted' \in [Flows -> Seq(Text \cup {Broken, Header})]
  <2>1. CASE deleted' = [deleted EXCEPT ![f] = Append(deleted[f], x)]
    BY <1>2, <2>1, AsideAppend
  <2>2. CASE deleted' = [deleted EXCEPT ![f] = [deleted[f] EXCEPT ![copy] = x]]
    BY <1>8, <1>9, <2>2 DEF Typed
  <2>. QED BY <1>7, <2>1, <2>2
<1>11. \A g \in Flows \ {f} : deleted'[g] = deleted[g]
  BY <1>7 DEF Typed
<1>12. ASSUME f \notin raced PROVE texts[f] \subseteq Aside(f)'
  <2>1. Kept(f) /\ Phase(f, o)
    BY <1>1, <1>2, <1>12, Current
  <2>2. Rest(f, e)
    BY <1>2, <1>3, <2>1 DEF Phase
  <2>3. texts[f] = {} \/ disk[f] = x
    BY <1>4, <1>5, <2>1, <2>2, LastText
  <2>4. CASE deleted' = [deleted EXCEPT ![f] = Append(deleted[f], x)]
    <3>1. Aside(f)' = Aside(f) \cup {x}
      BY <1>2, <2>4, AsideAppend
    <3>. QED BY <2>1, <2>3, <3>1 DEF Kept
  <2>5. CASE /\ op[o].pc = "copied"
             /\ deleted' = [deleted EXCEPT ![f] = [deleted[f] EXCEPT ![copy] = x]]
    <3>1. copy \in DOMAIN d /\ d[copy] = disk[f]
      BY <1>6, <1>8, <2>1, <2>5 DEF Phase
    <3>2. deleted'[f] = [d EXCEPT ![copy] = x]
      BY <1>8, <2>5 DEF Typed
    <3>3. CASE disk[f] = x
      <4>1. \A i \in DOMAIN d : i \in DOMAIN deleted'[f] /\ deleted'[f][i] = d[i]
        BY <1>8, <3>1, <3>2, <3>3
      <4>2. Aside(f) \subseteq Aside(f)' /\ disk[f] \in Aside(f)'
        BY <1>2, <1>8, <3>1, <4>1 DEF Aside
      <4>. QED BY <2>1, <4>2 DEF Kept
    <3>. QED BY <2>3, <3>3
  <2>. QED BY <1>7, <2>4, <2>5
<1>. QED BY <1>1, <1>2, <1>10, <1>11, <1>12, ArchivedStep

LEMMA ArchiveFailsStep ==
  ASSUME StoreInv, NEW o \in Ops, ArchiveFails(o)
  PROVE  StoreInv'
<1> USE DEF StoreInv
<1>1. PICK f \in Flows : f = op[o].flow
  BY Current DEF ArchiveFails, At
<1>2. /\ op[o].pc \in {"archive", "copied"} /\ Move(o, "archived")
      /\ UNCHANGED <<cache, disk, snapshots, deleted, shown, texts, forgone, ghosts, raced>>
  BY DEF ArchiveFails, At, histVars
<1>3. f \notin raced => texts[f] \subseteq {disk'[f]} \cup Aside(f)'
  BY <1>1, <1>2, Current DEF Kept, Aside
<1>. QED BY <1>1, <1>2, <1>3, ArchivedStep DEF Typed

LEMMA RemovedStep ==
  ASSUME StoreInv, NEW o \in Ops, Removed(o)
  PROVE  StoreInv'
<1> USE DEF StoreInv
<1>1. PICK f \in Flows : f = op[o].flow
  BY Current DEF Removed, At
<1>2. /\ op[o].pc = "archived" /\ shown' = [shown EXCEPT ![f] = None]
      /\ ghosts' = ghosts \ {f}
      /\ UNCHANGED <<cache, disk, snapshots, deleted, texts, forgone, raced>>
  BY <1>1 DEF Removed, At
<1>3. /\ op' \in [Ops -> Operation] /\ op'[o].pc = "idle" /\ op'[o].flow = None
      /\ \A p \in Ops \ {o} : op'[p] = op[p]
  BY OpStep, ShapeStarts DEF Removed
<1>4. Typed'
  BY <1>2, <1>3 DEF Typed
<1>5. Elsewhere(f, o)
  BY <1>1, <1>2, <1>3 DEF Elsewhere, Typed
<1>6. Sound'
  <2>1. /\ Matching(cache'[f]) /\ (Loadable(disk'[f]) => disk'[f].spec.version > 0)
        /\ \A s \in snapshots'[f] : s.text = Header \/ s.text.spec.version = s.version
    BY <1>2 DEF Sound
  <2>. QED BY <1>3, <1>5, <2>1, SoundFrame DEF Saves, Deletes
<1>7. ASSUME f \notin raced'
      PROVE  On(f) \subseteq {o} /\ Kept(f)' /\ Rest(f, cache[f])'
  <2>1. On(f) \subseteq {o} /\ Kept(f) /\ Phase(f, o)
    BY <1>1, <1>2, <1>7, Current
  <2>2. cache'[f] = None /\ shown'[f] = None
    BY <1>2, <2>1 DEF Phase, Deletes, Typed
  <2>. QED BY <1>2, <2>1, <2>2 DEF Kept, Aside, Rest, ToldOf, Version
<1>8. f # None
  BY StoreAssumption
<1>. QED BY <1>3, <1>4, <1>5, <1>6, <1>7, <1>8, FlowStep

----------------------------------------------------------------------------
(* Boots. *)

(* Every loaded flow is its file's. *)
LEMMA LoadedMatches ==
  ASSUME Typed, NEW f \in Flows, Loadable(disk[f]) => disk[f].spec.version > 0
  PROVE  /\ Matching(Loaded(f))
         /\ Loadable(disk[f]) => /\ Version(Loaded(f)) = disk[f].spec.version
                                 /\ Version(Loaded(f)) > 0
         /\ ~ Loadable(disk[f]) => Version(Loaded(f)) = 0
<1>1. CASE Loadable(disk[f])
  <2>1. Loaded(f) # None
    BY <1>1, LoadedFacts, StoreAssumption
  <2>. QED BY <1>1, <2>1, LoadedFacts DEF Matching, Version
<1>2. CASE ~ Loadable(disk[f])
  BY <1>2, LoadedFacts DEF Matching, Version
<1>. QED BY <1>1, <1>2

LEMMA InitStore == Init => StoreInv
<1> SUFFICES ASSUME Init PROVE StoreInv
  OBVIOUS
<1>1. ASSUME NEW f \in Flows
      PROVE  /\ disk[f] \in Text \cup {None, Broken}
             /\ Loadable(disk[f]) => disk[f].spec.version = 1
  <2>1. \/ disk[f] \in {None, Broken}
        \/ \E t \in Accepted, r \in BOOLEAN, c \in BOOLEAN :
             disk[f] = [spec |-> [version |-> 1, topology |-> t, review |-> r],
                        comments |-> c]
    BY DEF Init
  <2>2. CASE disk[f] \in {None, Broken}
    BY <2>2 DEF Loadable
  <2>3. CASE \E t \in Accepted, r \in BOOLEAN, c \in BOOLEAN :
               disk[f] = [spec |-> [version |-> 1, topology |-> t, review |-> r],
                          comments |-> c]
    BY <2>3, StoreAssumption DEF Text, Spec0
  <2>. QED BY <2>1, <2>2, <2>3
<1>2. disk \in [Flows -> Text \cup {None, Broken}]
  <2>1. DOMAIN disk = Flows /\ disk = [f \in Flows |-> disk[f]]
    BY DEF Init
  <2>. QED BY <1>1, <2>1
<1>3. ASSUME NEW f \in Flows
      PROVE  /\ Loaded(f) \in Entry \cup {None}
             /\ Loadable(disk[f]) => /\ Loaded(f) \in Entry /\ Loaded(f) # None
                                     /\ Loaded(f).flow = disk[f].spec
                                     /\ Loaded(f).text = disk[f]
                                     /\ disk[f] \in Text /\ disk[f].spec \in Spec0
             /\ ~ Loadable(disk[f]) => Loaded(f) = None
  BY <1>1, LoadableFacts, StoreAssumption DEF Loaded, SpecToFlow, Entry
<1>4. Typed
  <2>1. cache \in [Flows -> Entry \cup {None}]
    BY <1>3 DEF Init
  <2>2. shown \in [Flows -> Spec0 \cup {None}]
    BY <1>3 DEF Init, SpecToFlow
  <2>3. texts \in [Flows -> SUBSET Text]
    BY <1>3 DEF Init
  <2>4. op \in [Ops -> Operation]
    BY ShapeStarts DEF Init
  <2>5. deleted \in [Flows -> Seq(Text \cup {Broken, Header})]
    BY EmptySeq DEF Init
  <2>. QED BY <1>2, <2>1, <2>2, <2>3, <2>4, <2>5 DEF Init, Typed
<1>5. \A o \in Ops : op[o].pc = "idle" /\ op[o].flow = None
  BY ShapeStarts DEF Init
<1>6. ASSUME NEW f \in Flows
      PROVE  cache[f] = Loaded(f) /\ Matching(cache[f])
  BY <1>1, <1>4, LoadedMatches DEF Init
<1>7. Sound
  BY <1>1, <1>5, <1>6 DEF Sound, Init, Saves, Deletes
<1>8. ASSUME NEW f \in Flows PROVE FlowInv(f)
  <2>1. On(f) = {}
    BY <1>5, StoreAssumption DEF On
  <2>2. Kept(f)
    BY <1>1 DEF Kept, Init
  <2>3. Rest(f, cache[f])
    <3>1. CASE Loadable(disk[f])
      <4>1. shown[f] = disk[f].spec
        BY <3>1 DEF Init, SpecToFlow
      <4>2. Version(Loaded(f)) > 0
        BY <1>1, <1>4, <3>1, LoadedMatches
      <4>. QED BY <1>3, <1>6, <3>1, <4>1, <4>2 DEF Rest, ToldOf
    <3>2. CASE ~ Loadable(disk[f])
      <4>1. shown[f] = None /\ cache[f] = None
        BY <1>3, <1>6, <3>2 DEF Init
      <4>. QED BY <4>1 DEF Rest, ToldOf, Version
    <3>. QED BY <3>1, <3>2
  <2>. QED BY <2>1, <2>2, <2>3 DEF FlowInv
<1>. QED BY <1>4, <1>7, <1>8 DEF StoreInv

LEMMA RebootStep ==
  ASSUME StoreInv, Reboot
  PROVE  StoreInv'
<1> USE DEF StoreInv
<1>1. ASSUME NEW f \in Flows
      PROVE  /\ Loadable(disk[f]) => disk[f].spec.version > 0
             /\ disk[f] \in Text \cup {None, Broken}
  BY DEF Sound, Typed
<1>2. UNCHANGED <<disk, snapshots, deleted, forgone>> /\ raced' = {}
  BY DEF Reboot
<1>3. ASSUME NEW f \in Flows
      PROVE  cache'[f] = Loaded(f) /\ Matching(cache'[f])
  BY <1>1, LoadedMatches DEF Reboot
<1>4. Typed'
  <2>1. cache' \in [Flows -> Entry \cup {None}]
    BY LoadedFacts DEF Reboot
  <2>2. shown' \in [Flows -> Spec0 \cup {None}]
    BY <1>1, LoadableFacts DEF Reboot, SpecToFlow, Typed
  <2>3. texts' \in [Flows -> SUBSET Text]
    BY <1>1, LoadableFacts DEF Reboot, Typed
  <2>4. op' \in [Ops -> Operation]
    BY ShapeStarts DEF Reboot
  <2>5. ghosts' \subseteq Flows
    BY DEF Reboot
  <2>. QED BY <1>2, <2>1, <2>2, <2>3, <2>4, <2>5 DEF Typed
<1>5. \A o \in Ops : op'[o].pc = "idle" /\ op'[o].flow = None
  BY ShapeStarts DEF Reboot
<1>6. Sound'
  BY <1>2, <1>3, <1>5 DEF Sound, Saves, Deletes
<1>7. ASSUME NEW f \in Flows PROVE FlowInv(f)'
  <2>1. On(f)' = {}
    BY <1>5, StoreAssumption DEF On
  <2>2. Kept(f)'
    <3>1. Aside(f)' = Aside(f) /\ disk'[f] = disk[f]
      BY <1>2 DEF Aside
    <3>2. texts'[f] = (IF f \in raced THEN {} ELSE texts[f])
                        \cup (IF Loadable(disk[f]) THEN {disk[f]} ELSE {})
      BY DEF Reboot
    <3>3. f \notin raced => Kept(f)
      BY DEF FlowInv
    <3>. QED BY <1>1, <3>1, <3>2, <3>3 DEF Kept
  <2>3. Rest(f, Loaded(f))'
    <3>1. CASE Loadable(disk[f])
      <4>1. shown'[f] = disk[f].spec
        BY <3>1 DEF Reboot, SpecToFlow
      <4>2. Version(Loaded(f)) > 0
        BY <1>1, <3>1, LoadedMatches
      <4>3. Loaded(f)' = Loaded(f)
        BY <1>2 DEF Loaded
      <4>. QED BY <1>2, <3>1, <4>1, <4>2, <4>3, LoadedFacts DEF Rest, ToldOf
    <3>2. CASE ~ Loadable(disk[f])
      <4>1. shown'[f] = None \/ f \in ghosts'
        BY <3>2 DEF Reboot
      <4>2. Loaded(f)' = None
        BY <1>2, <3>2 DEF Loaded
      <4>. QED BY <4>1, <4>2 DEF Rest, ToldOf, Version
    <3>. QED BY <3>1, <3>2
  <2>4. cache'[f] = Loaded(f)'
    BY <1>2, <1>3 DEF Loaded
  <2>. QED BY <2>1, <2>2, <2>3, <2>4 DEF FlowInv
<1>. QED BY <1>4, <1>6, <1>7

LEMMA StoreStep == StoreInv /\ [Next]_vars => StoreInv'
<1> SUFFICES ASSUME StoreInv, [Next]_vars PROVE StoreInv'
  OBVIOUS
<1>1. CASE Reboot
  BY <1>1, RebootStep
<1>2. CASE \E o \in Ops : Ask(o) \/ Continue(o)
  <2>1. PICK o \in Ops : Ask(o) \/ Continue(o)
    BY <1>2
  <2>. QED BY <2>1, AskStep, SnapshotStep, RenameStep, WriteFailsStep, FinishStep,
           DropStep, ArchiveMovesStep, ArchiveCopiesStep, UnlinkStep,
           ArchiveTextStep, ArchiveFailsStep, RemovedStep DEF Continue
<1>3. CASE \E o \in Ops, f \in Flows : Command(o, f)
  <2>1. PICK o \in Ops, f \in Flows : Command(o, f)
    BY <1>3
  <2>2. CASE \E t \in Topologies : SaveCommand(o, f, t)
    BY <2>2, StoreAssumption, SaveCommandStep
  <2>3. CASE SetTrigger(o, f)
    BY <2>3, SaveCommandStep DEF SetTrigger
  <2>4. CASE Create(o, f)
    <3>1. PICK then \in Generated \cup {None} : then = None
      OBVIOUS
    <3>2. Creating(o, f, then) /\ op[o].pc = "idle"
      BY <2>4, <3>1 DEF Create, Take
    <3>. QED BY <3>2, CreatingStep
  <2>5. CASE \E e \in Generated : Generate(o, f, e)
    <3>1. PICK e \in Generated : Generate(o, f, e)
      BY <2>5
    <3>2. PICK then \in Generated \cup {None} : then = e
      OBVIOUS
    <3>3. Creating(o, f, then) /\ op[o].pc = "asking"
      BY <3>1, <3>2 DEF Generate
    <3>. QED BY <3>3, CreatingStep
  <2>6. CASE DeleteCommand(o, f)
    BY <2>6, DeleteCommandStep
  <2>. QED BY <2>1, <2>2, <2>3, <2>4, <2>5, <2>6 DEF Command
<1>4. CASE UNCHANGED vars
  <2>1. Typed'
    BY <1>4 DEF vars, StoreInv, Typed
  <2>2. Sound'
    BY <1>4 DEF vars, StoreInv, Sound, Saves, Deletes
  <2>3. ASSUME NEW f \in Flows \ raced PROVE FlowInv(f)'
    <3>1. FlowInv(f) /\ On(f)' = On(f)
      BY <1>4 DEF vars, StoreInv, On
    <3>2. Kept(f)'
      BY <1>4, <3>1 DEF vars, FlowInv, Kept, Aside
    <3>3. On(f) = {} => Rest(f, cache[f])'
      BY <1>4, <3>1 DEF vars, FlowInv, Rest, ToldOf
    <3>4. ASSUME NEW o \in On(f) PROVE Phase(f, o)'
      <4>1. Phase(f, o)
        BY <3>1, <3>4 DEF FlowInv
      <4>. QED BY <1>4, <4>1 DEF vars, Phase, Rest, ToldOf, Aside, Saves, Deletes
    <3>. QED BY <3>1, <3>2, <3>3, <3>4 DEF FlowInv
  <2>. QED BY <1>4, <2>1, <2>2, <2>3 DEF StoreInv, vars
<1>. QED BY <1>1, <1>2, <1>3, <1>4 DEF Next

LEMMA StoreInvariant == StoreSpec => []StoreInv
BY InitStore, StoreStep, PTL DEF StoreSpec

----------------------------------------------------------------------------
(* The theorems. *)

(* The store's variables keep their types through every command, failure   *)
(* and boot.                                                               *)
THEOREM StoreTypeCorrect == StoreSpec => []StoreTypeOK
<1>1. StoreInv => StoreTypeOK
  BY DEF StoreInv, Typed, StoreTypeOK
<1>. QED BY <1>1, StoreInvariant, PTL

(* No text the file of a flow has held is lost, whichever file operations   *)
(* of save and delete fail and wherever the engine stops: NoTextLost.      *)
THEOREM StoreKeepsEveryText == StoreSpec => []NoTextLost
<1>1. StoreInv => NoTextLost
  BY DEF StoreInv, FlowInv, Kept, Aside, NoTextLost
<1>. QED BY <1>1, StoreInvariant, PTL

(* The cache, the file and the rail say the same of a flow that no command  *)
(* is working on: SettledAgree.                                            *)
THEOREM StoreSettlesInAgreement == StoreSpec => []SettledAgree
<1>1. StoreInv => SettledAgree
  <2> SUFFICES ASSUME StoreInv, NEW f \in Flows \ raced, On(f) = {}
               PROVE  /\ Cached(f) /\ cache[f].flow.version > 0 =>
                           disk[f] = cache[f].text
                             /\ SpecToFlow(disk[f]) = cache[f].flow
                             /\ shown[f] = cache[f].flow
                      /\ ~ Cached(f) => shown[f] = None \/ f \in ghosts
    BY DEF SettledAgree
  <2>1. Rest(f, cache[f])
    BY DEF StoreInv, FlowInv
  <2>2. CASE Cached(f)
    <3>1. cache[f] \in Entry /\ Matching(cache[f])
      BY <2>2 DEF StoreInv, Typed, Sound, Cached
    <3>. QED BY <2>1, <2>2, <3>1, MatchingFacts DEF Rest, ToldOf, SpecToFlow
  <2>3. CASE ~ Cached(f)
    BY <2>1, <2>3 DEF Rest, ToldOf, Version, Cached
  <2>. QED BY <2>2, <2>3
<1>. QED BY <1>1, StoreInvariant, PTL

(* What a flow's cache, file and announcement say between two steps of a    *)
(* command, in the three ways a boot can find them.                        *)
LEMMA Standing ==
  ASSUME StoreInv, NEW f \in Flows \ raced
  PROVE  \/ Rest(f, cache[f])
         \/ \E o \in Ops : /\ op[o].pc = "renamed" /\ op[o].prior = cache[f]
                           /\ op[o].new \in Spec0 /\ Succeeds(op[o])
                           /\ ToldOf(f, cache[f])
                           /\ disk[f] = Rendered(cache[f], op[o].new)
         \/ /\ cache[f] = None
            /\ \E e \in Entry :
                 /\ Matching(e) /\ ToldOf(f, e)
                 /\ Version(e) > 0 /\ Loadable(disk[f]) => disk[f] = e.text
<1>1. CASE On(f) = {}
  BY <1>1 DEF StoreInv, FlowInv
<1>2. CASE On(f) # {}
  <2>1. PICK o \in Ops : op[o].flow = f /\ Phase(f, o)
    BY <1>2 DEF StoreInv, FlowInv, On
  <2>2. /\ op[o] \in Operation /\ f \in Flows
        /\ op[o].pc \in {"killing"} \cup SavePcs \cup DeletePcs
    <3>1. op[o] \in Operation /\ f \in Flows /\ f # None
      BY StoreAssumption DEF StoreInv, Typed
    <3>. QED BY <2>1, <3>1, Shapes
  <2>3. CASE op[o].pc \in {"killing", "snapshot", "write"}
    BY <2>1, <2>3 DEF Phase
  <2>4. CASE op[o].pc = "renamed"
    <3>1. op[o].new \in Spec0 /\ Succeeds(op[o]) /\ op[o].prior = cache[f]
      BY <2>1, <2>2, <2>4, Shapes DEF SavePcs, StoreInv, Sound, Saves, Phase
    <3>. QED BY <2>1, <2>4, <3>1 DEF Phase
  <2>5. CASE op[o].pc \in DeletePcs
    <3>1. PICK e \in Entry : e = op[o].prior
      BY <2>2, <2>5, Shapes
    <3>2. Matching(e) /\ cache[f] = None
      BY <2>1, <2>5, <3>1 DEF StoreInv, Sound, Deletes, DeletePcs, Phase
    <3>3. ToldOf(f, e) /\ (Version(e) > 0 /\ Loadable(disk[f]) => disk[f] = e.text)
      BY <2>1, <2>5, <3>1 DEF Phase, DeletePcs, Rest
    <3>. QED BY <3>2, <3>3
  <2>. QED BY <2>2, <2>3, <2>4, <2>5 DEF SavePcs
<1>. QED BY <1>1, <1>2

(* Only a save's tail and a boot announce a flow; only they and a create    *)
(* cache one.                                                              *)
LEMMA Announcements ==
  ASSUME StoreInv, [Next]_vars, NEW f \in Flows
  PROVE  \/ Reboot
         \/ \E o \in Ops : Finish(o) /\ op[o].flow = f
         \/ /\ shown'[f] \in {shown[f], None}
            /\ cache'[f] \in {cache[f], None} \/ cache[f] = None
<1>1. CASE Reboot
  BY <1>1
<1>2. CASE UNCHANGED vars
  BY <1>2 DEF vars
<1>3. CASE \E o \in Ops : Ask(o) \/ Continue(o)
  <2>1. PICK o \in Ops : Ask(o) \/ Continue(o)
    BY <1>3
  <2>2. CASE Finish(o)
    BY <2>2 DEF Finish, StoreInv, Typed
  <2>3. CASE Drop(o)
    BY <2>3 DEF Drop, StoreInv, Typed
  <2>4. CASE Removed(o)
    BY <2>4 DEF Removed, StoreInv, Typed
  <2>5. CASE ~ (Finish(o) \/ Drop(o) \/ Removed(o))
    BY <2>1, <2>5 DEF Ask, Continue, AskFails, SnapshotPrior, SnapshotFails,
       RenameFile, WriteFails, ArchiveMoves, ArchiveCopies, UnlinkCopied,
       ArchiveText, ArchiveFails
  <2>. QED BY <2>2, <2>3, <2>4, <2>5
<1>4. CASE \E o \in Ops, g \in Flows : Command(o, g)
  <2>1. PICK o \in Ops, g \in Flows : Command(o, g)
    BY <1>4
  <2>2. ASSUME NEW then, Creating(o, g, then)
        PROVE  /\ shown'[f] = shown[f]
               /\ cache'[f] = cache[f] \/ cache[f] = None
    BY <2>2 DEF Creating, Cached, StoreInv, Typed
  <2>. QED BY <2>1, <2>2
       DEF Command, SaveCommand, SetTrigger, Create, Generate, DeleteCommand
<1>. QED BY <1>1, <1>2, <1>3, <1>4 DEF Next

(* What a save that is being finished leaves of the entry it began with.    *)
LEMMA Finished ==
  ASSUME StoreInv, NEW f \in Flows \ raced, NEW o \in Ops, Finish(o), op[o].flow = f
  PROVE  /\ Succeeds(op[o]) /\ op[o].prior = cache[f] /\ op[o].new \in Spec0
         /\ ToldOf(f, cache[f]) /\ shown'[f] = op[o].new
         /\ cache'[f] = [flow |-> op[o].new,
                         text |-> Rendered(cache[f], op[o].new)]
<1>1. op[o].pc = "renamed"
  BY DEF Finish, At
<1>2. Phase(f, o) /\ op[o] \in Operation
  BY <1>1, Current
<1>3. op[o].new \in Spec0
  BY <1>1, <1>2, Shapes DEF SavePcs
<1>4. Succeeds(op[o]) /\ op[o].prior = cache[f] /\ ToldOf(f, cache[f])
  BY <1>1, <1>2 DEF Phase, Saves, StoreInv, Sound
<1>. QED BY <1>3, <1>4 DEF Finish, StoreInv, Typed

(* A spec announced after another one of the same flow has the higher       *)
(* version, over failed writes and boots at any point: VersionsRise.       *)
THEOREM StoreVersionsRise == StoreSpec => VersionsRise
<1>1. ASSUME StoreInv, [Next]_vars,
             NEW f \in Flows \ (raced \cup raced' \cup ghosts)
      PROVE  Rises(f)
  <2>1. SUFFICES ASSUME shown[f] # None, shown'[f] \notin {None, shown[f]}
                 PROVE  shown'[f].version > shown[f].version
    BY DEF Rises
  <2>2. PICK c \in Entry \cup {None} : c = cache[f]
    BY <1>1 DEF StoreInv, Typed
  <2>3. Matching(c) /\ Version(c) \in Nat
    BY <1>1, <2>2 DEF StoreInv, Sound, Version, Entry, Spec0
  <2>4. ASSUME NEW e \in Entry \cup {None}, ToldOf(f, e)
        PROVE  e \in Entry /\ Version(e) > 0 /\ shown[f] = e.flow
    BY <1>1, <2>1, <2>4 DEF ToldOf, Version
  <2>5. CASE \E o \in Ops : Finish(o) /\ op[o].flow = f
    <3>1. PICK o \in Ops : Finish(o) /\ op[o].flow = f
      BY <2>5
    <3>2. /\ Succeeds(op[o]) /\ op[o].prior = c /\ ToldOf(f, c)
          /\ shown'[f] = op[o].new
      BY <1>1, <2>2, <3>1, Finished
    <3>. QED BY <2>3, <2>4, <3>2, MatchingFacts DEF Succeeds
  <2>6. CASE Reboot
    <3>1. Loadable(disk[f]) /\ shown'[f] = disk[f].spec
      BY <2>1, <2>6 DEF Reboot, SpecToFlow
    <3>2. ASSUME NEW e \in Entry \cup {None}, Matching(e), ToldOf(f, e),
                 Version(e) > 0 => disk[f] = e.text
          PROVE  FALSE
      BY <2>1, <2>4, <3>1, <3>2, MatchingFacts
    <3>3. CASE Rest(f, c)
      BY <2>3, <3>2, <3>3 DEF Rest
    <3>4. CASE \E e \in Entry :
                 /\ Matching(e) /\ ToldOf(f, e)
                 /\ Version(e) > 0 /\ Loadable(disk[f]) => disk[f] = e.text
      BY <3>1, <3>2, <3>4
    <3>5. CASE \E o \in Ops : /\ op[o].prior = c /\ op[o].new \in Spec0
                              /\ Succeeds(op[o]) /\ ToldOf(f, c)
                              /\ disk[f] = Rendered(c, op[o].new)
      <4>1. PICK new \in Spec0 : /\ disk[f] = Rendered(c, new)
                                 /\ new.version = Version(c) + 1 /\ ToldOf(f, c)
        BY <3>5 DEF Succeeds
      <4>2. disk[f].spec = new
        BY <4>1, RenderedFacts
      <4>. QED BY <2>3, <2>4, <3>1, <4>1, <4>2, MatchingFacts
    <3>. QED BY <1>1, <2>2, <3>3, <3>4, <3>5, Standing
  <2>. QED BY <1>1, <2>1, <2>5, <2>6, Announcements
<1>2. StoreInv /\ [Next]_vars
        => [\A f \in Flows \ (raced \cup raced' \cup ghosts) : Rises(f)]_vars
  BY <1>1
<1>. QED BY <1>2, StoreInvariant, PTL DEF StoreSpec, VersionsRise

=============================================================================
