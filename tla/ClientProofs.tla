---------------------------- MODULE ClientProofs ----------------------------
(***************************************************************************)
(* Proofs about Client for any flows, events, broken sockets and clicks:   *)
(* what the browser folds, and what its rail shows of the log.             *)
(*                                                                         *)
(* The invariant has three parts.  SyncInv: the types, that a hello comes  *)
(* first on its socket and never behind the cursor, and what each end may  *)
(* believe of the other.  TailInv: what a subscription is about is folded, *)
(* or in the queue behind nothing that would carry the cursor over it.     *)
(* RailInv: a flow that exists is on the rail, and one that was removed is *)
(* off it for good or has its removal coming.                              *)
(***************************************************************************)
EXTENDS Client, FiniteTheorems, SequenceTheorems, TLAPS

----------------------------------------------------------------------------
(* The fold of a batch. *)

LogEvents == Events \cup [type : {"flow.removed"}, flow : Flows]

Stores ==
  [rail : SUBSET Flows, selected : Flows \cup {None}, lastSeq : Nat, folded : Seq(Nat)]

LEMMA EventKinds ==
  ASSUME NEW e \in LogEvents
  PROVE  \/ /\ e.type \in {"flow.upserted", "flow.removed"}
            /\ e.flow \in Flows /\ HasFlow(e)
         \/ e.type \in {"auth.state", "run.finished"} /\ ~ HasFlow(e)
BY DEF LogEvents, Events, HasFlow

LEMMA FirstOfFacts ==
  ASSUME NEW S \in SUBSET Flows
  PROVE  FirstOf(S) \in S \cup {None}
BY DEF FirstOf

LEMMA FoldEventFacts ==
  ASSUME NEW s \in Stores, NEW e \in LogEvents
  PROVE  /\ foldEvent(s, e) \in Stores
         /\ foldEvent(s, e).lastSeq = s.lastSeq /\ foldEvent(s, e).folded = s.folded
         /\ e.type = "flow.upserted" =>
              /\ foldEvent(s, e).rail = s.rail \cup {e.flow}
              /\ foldEvent(s, e).selected = s.selected
         /\ e.type = "flow.removed" =>
              /\ foldEvent(s, e).rail = s.rail \ {e.flow}
              /\ foldEvent(s, e).selected =
                   IF s.selected = e.flow THEN FirstOf(s.rail \ {e.flow}) ELSE s.selected
         /\ e.type \notin {"flow.upserted", "flow.removed"} => foldEvent(s, e) = s
<1>0. /\ s = [rail |-> s.rail, selected |-> s.selected,
              lastSeq |-> s.lastSeq, folded |-> s.folded]
      /\ s.rail \in SUBSET Flows /\ s.selected \in Flows \cup {None}
      /\ s.lastSeq \in Nat /\ s.folded \in Seq(Nat)
  BY DEF Stores
<1>1. PICK R, x, n, q :
        /\ R = s.rail /\ x = s.selected /\ n = s.lastSeq /\ q = s.folded
        /\ R \in SUBSET Flows /\ x \in Flows \cup {None} /\ n \in Nat /\ q \in Seq(Nat)
        /\ s = [rail |-> R, selected |-> x, lastSeq |-> n, folded |-> q]
  BY <1>0
<1>2. CASE e.type = "flow.upserted"
  <2>1. e.flow \in Flows
    BY <1>2, EventKinds
  <2>2. foldEvent(s, e) = [s EXCEPT !.rail = @ \cup {e.flow}]
    BY <1>2 DEF foldEvent, upsertSummary
  <2>3. foldEvent(s, e) = [rail |-> R \cup {e.flow}, selected |-> x,
                           lastSeq |-> n, folded |-> q]
    BY <1>1, <2>2
  <2>4. foldEvent(s, e) \in Stores
    BY <1>1, <2>1, <2>3 DEF Stores
  <2>. QED BY <1>1, <1>2, <2>3, <2>4
<1>3. CASE e.type = "flow.removed"
  <2>1. PICK fallback : fallback = FirstOf(s.rail \ {e.flow})
    OBVIOUS
  <2>2. fallback \in Flows \cup {None}
    BY <1>1, <2>1, FirstOfFacts
  <2>3. foldEvent(s, e) =
          [s EXCEPT !.rail = @ \ {e.flow},
                    !.selected = IF @ = e.flow THEN fallback ELSE @]
    BY <1>3, <2>1 DEF foldEvent
  <2>4. foldEvent(s, e) = [rail |-> R \ {e.flow},
                           selected |-> IF x = e.flow THEN fallback ELSE x,
                           lastSeq |-> n, folded |-> q]
    BY <1>1, <2>3
  <2>5. foldEvent(s, e) \in Stores
    BY <1>1, <2>2, <2>4 DEF Stores
  <2>6. /\ foldEvent(s, e).rail = R \ {e.flow}
        /\ foldEvent(s, e).selected = (IF x = e.flow THEN fallback ELSE x)
        /\ foldEvent(s, e).lastSeq = n /\ foldEvent(s, e).folded = q
    BY <2>4
  <2>. QED BY <1>1, <1>3, <2>1, <2>5, <2>6
<1>4. CASE e.type \notin {"flow.upserted", "flow.removed"}
  BY <1>4 DEF foldEvent
<1>. QED BY <1>2, <1>3, <1>4

(* A log of the model, and a set of places in it. *)
Logged == log \in Seq(LogEvents)

LEMMA LogFacts ==
  ASSUME Logged
  PROVE  /\ Len(log) \in Nat /\ DOMAIN log = 1 .. Len(log) /\ LatestSeq(log) = Len(log)
         /\ \A i \in 1 .. Len(log) : log[i] \in LogEvents
BY LenProperties DEF Logged, LatestSeq

(* The event at i, if it moves the rail, is of flow f. *)
Is(i, f, type) == log[i].type = type /\ log[i].flow = f

LEMMA FoldOneFacts ==
  ASSUME Logged, NEW s \in Stores, NEW i \in 1 .. Len(log)
  PROVE  /\ FoldOne(s, i) \in Stores
         /\ FoldOne(s, i).folded = Append(s.folded, i)
         /\ FoldOne(s, i).lastSeq = IF i > s.lastSeq THEN i ELSE s.lastSeq
         /\ \A f \in Flows :
              /\ Is(i, f, "flow.upserted") => f \in FoldOne(s, i).rail
              /\ Is(i, f, "flow.removed") =>
                   f \notin FoldOne(s, i).rail /\ FoldOne(s, i).selected # f
              /\ ~ Is(i, f, "flow.removed") /\ f \in s.rail => f \in FoldOne(s, i).rail
              /\ ~ Is(i, f, "flow.upserted") /\ f \notin s.rail =>
                   /\ f \notin FoldOne(s, i).rail
                   /\ s.selected # f => FoldOne(s, i).selected # f
<1>. DEFINE v == foldEvent(s, log[i])
<1>1. log[i] \in LogEvents /\ i \in Nat
  BY LogFacts
<1>2. /\ v \in Stores /\ v.lastSeq = s.lastSeq /\ v.folded = s.folded
      /\ log[i].type = "flow.upserted" =>
           v.rail = s.rail \cup {log[i].flow} /\ v.selected = s.selected
      /\ log[i].type = "flow.removed" =>
           /\ v.rail = s.rail \ {log[i].flow}
           /\ v.selected = IF s.selected = log[i].flow
                           THEN FirstOf(s.rail \ {log[i].flow}) ELSE s.selected
      /\ log[i].type \notin {"flow.upserted", "flow.removed"} => v = s
  BY <1>1, FoldEventFacts
<1>3. s.rail \in SUBSET Flows /\ s.lastSeq \in Nat /\ s.folded \in Seq(Nat)
  BY DEF Stores
<1>4. \A g : FirstOf(s.rail \ {g}) \in (s.rail \ {g}) \cup {None}
  BY <1>3, FirstOfFacts
<1>5. FoldOne(s, i) = [v EXCEPT !.folded = Append(@, i),
                                !.lastSeq = IF i > @ THEN i ELSE @]
  BY DEF FoldOne
<1>. HIDE DEF v
<1>6. /\ v = [rail |-> v.rail, selected |-> v.selected, lastSeq |-> v.lastSeq,
              folded |-> v.folded]
      /\ v.rail \in SUBSET Flows /\ v.selected \in Flows \cup {None}
  BY <1>2 DEF Stores
<1>7. /\ FoldOne(s, i).rail = v.rail /\ FoldOne(s, i).selected = v.selected
      /\ FoldOne(s, i).folded = Append(s.folded, i)
      /\ FoldOne(s, i).lastSeq = IF i > s.lastSeq THEN i ELSE s.lastSeq
  BY <1>2, <1>5, <1>6
<1>8. FoldOne(s, i) \in Stores
  <2>1. Append(s.folded, i) \in Seq(Nat)
    BY <1>1, <1>3, AppendProperties
  <2>2. FoldOne(s, i) = [rail |-> v.rail, selected |-> v.selected,
                         lastSeq |-> IF i > s.lastSeq THEN i ELSE s.lastSeq,
                         folded |-> Append(s.folded, i)]
    BY <1>2, <1>5, <1>6
  <2>. QED BY <2>1, <2>2, <1>1, <1>3, <1>6 DEF Stores
<1>9. ASSUME NEW f \in Flows
      PROVE  /\ Is(i, f, "flow.upserted") => f \in v.rail
             /\ Is(i, f, "flow.removed") => f \notin v.rail /\ v.selected # f
             /\ ~ Is(i, f, "flow.removed") /\ f \in s.rail => f \in v.rail
             /\ ~ Is(i, f, "flow.upserted") /\ f \notin s.rail =>
                  /\ f \notin v.rail
                  /\ s.selected # f => v.selected # f
  <2>1. f # None
    BY ClientAssumption
  <2>2. CASE log[i].type = "flow.upserted"
    BY <1>2, <2>2 DEF Is
  <2>3. CASE log[i].type = "flow.removed"
    <3>1. PICK g : g = log[i].flow
      OBVIOUS
    <3>2. PICK fallback : fallback = FirstOf(s.rail \ {g})
      OBVIOUS
    <3>3. fallback \in (s.rail \ {g}) \cup {None}
      BY <1>4, <3>2
    <3>4. /\ v.rail = s.rail \ {g}
          /\ v.selected = IF s.selected = g THEN fallback ELSE s.selected
      BY <1>2, <2>3, <3>1, <3>2
    <3>5. Is(i, f, "flow.removed") <=> f = g
      BY <2>3, <3>1 DEF Is
    <3>6. ~ Is(i, f, "flow.upserted")
      BY <2>3 DEF Is
    <3>. QED BY <2>1, <3>3, <3>4, <3>5, <3>6
  <2>4. CASE log[i].type \notin {"flow.upserted", "flow.removed"}
    BY <1>2, <2>4 DEF Is
  <2>. QED BY <2>2, <2>3, <2>4
<1>. QED BY <1>7, <1>8, <1>9

(* The fold of a batch goes through the log event by event. *)
Views(s, S, view) ==
  /\ view[0] = s
  /\ \A i \in 1 .. Len(log) :
       view[i] = IF i \in S THEN FoldOne(view[i - 1], i) ELSE view[i - 1]

LEMMA ViewExists ==
  ASSUME Logged, NEW s, NEW S
  PROVE  \E view : Views(s, S, view) /\ FoldAll(s, S) = view[Len(log)]
<1>. DEFINE N == Len(log)
            Solves(n, g) ==
              g = [i \in 0 .. n |-> IF i = 0 THEN s
                     ELSE IF i \in S THEN FoldOne(g[i - 1], i) ELSE g[i - 1]]
            Good == {n \in 0 .. N : \E g : Solves(n, g)}
<1>0. N \in Nat /\ LatestSeq(log) = N
  BY LogFacts
<1>1. 0 \in Good
  <2>. DEFINE g == [i \in 0 .. 0 |-> s]
  <2>1. \A i \in 0 .. 0 : i = 0
    OBVIOUS
  <2>2. g = [i \in 0 .. 0 |-> IF i = 0 THEN s
               ELSE IF i \in S THEN FoldOne(g[i - 1], i) ELSE g[i - 1]]
    BY <2>1
  <2>3. Solves(0, g)
    BY <2>2
  <2>. HIDE DEF Solves
  <2>. QED BY <1>0, <2>3
<1>2. ASSUME NEW n \in 1 .. N, n - 1 \in Good
      PROVE  n \in Good
  <2>1. PICK g : Solves(n - 1, g)
    BY <1>2
  <2>. DEFINE h == [i \in 0 .. n |-> IF i = n
                      THEN IF n \in S THEN FoldOne(g[n - 1], n) ELSE g[n - 1]
                      ELSE g[i]]
  <2>2. \A i \in 0 .. n - 1 : h[i] = g[i]
    BY <1>0
  <2>3. \A i \in 0 .. n : h[i] = IF i = 0 THEN s
                     ELSE IF i \in S THEN FoldOne(h[i - 1], i) ELSE h[i - 1]
    <3>. SUFFICES ASSUME NEW i \in 0 .. n
                  PROVE  h[i] = IF i = 0 THEN s
                     ELSE IF i \in S THEN FoldOne(h[i - 1], i) ELSE h[i - 1]
      OBVIOUS
    <3>1. CASE i = n
      <4>1. i # 0 /\ h[i - 1] = g[n - 1]
        BY <1>0, <2>2, <3>1
      <4>. QED BY <3>1, <4>1
    <3>2. CASE i # n
      <4>1. i \in 0 .. n - 1 /\ (i # 0 => i - 1 \in 0 .. n - 1)
        BY <3>2
      <4>2. g[i] = IF i = 0 THEN s
                     ELSE IF i \in S THEN FoldOne(g[i - 1], i) ELSE g[i - 1]
        BY <2>1, <4>1
      <4>3. h[i] = g[i] /\ (i # 0 => h[i - 1] = g[i - 1])
        BY <2>2, <4>1
      <4>. QED BY <4>2, <4>3
    <3>. QED BY <3>1, <3>2
  <2>4. h = [i \in 0 .. n |-> h[i]]
    OBVIOUS
  <2>. HIDE DEF h
  <2>5. Solves(n, h)
    BY <2>3, <2>4
  <2>. HIDE DEF Solves
  <2>. QED BY <2>5
<1>3. N \in Good
  <2>. HIDE DEF Good
  <2>1. \A k \in 0 .. N : k \in Good
    BY <1>0, <1>1, <1>2, Climb
  <2>. QED BY <1>0, <2>1
<1>4. PICK view : view = (CHOOSE g : Solves(N, g))
  OBVIOUS
<1>5. Solves(N, view)
  BY <1>3, <1>4
<1>6. FoldAll(s, S) = view[N]
  BY <1>0, <1>4 DEF FoldAll
<1>. QED BY <1>0, <1>5, <1>6 DEF Views

(* What was folded, in order and up to the cursor. *)
Rising(s) ==
  /\ \A i, j \in DOMAIN s.folded : i < j => s.folded[i] < s.folded[j]
  /\ \A i \in DOMAIN s.folded : s.folded[i] \in 1 .. s.lastSeq

LEMMA AppendFacts ==
  ASSUME NEW S, NEW q \in Seq(S), NEW x \in S
  PROVE  /\ Append(q, x) \in Seq(S) /\ Len(q) \in Nat /\ DOMAIN q = 1 .. Len(q)
         /\ DOMAIN Append(q, x) = 1 .. Len(q) + 1
         /\ \A i \in DOMAIN q : i \in DOMAIN Append(q, x) /\ Append(q, x)[i] = q[i]
         /\ Append(q, x)[Len(q) + 1] = x
         /\ \A i \in DOMAIN Append(q, x) : i \in DOMAIN q \/ i = Len(q) + 1
         /\ ToSet(Append(q, x)) = ToSet(q) \cup {x}
<1>1. /\ Append(q, x) \in Seq(S) /\ Len(Append(q, x)) = Len(q) + 1
      /\ \A i \in 1 .. Len(q) : Append(q, x)[i] = q[i]
      /\ Append(q, x)[Len(q) + 1] = x
  BY AppendProperties
<1>2. Len(q) \in Nat /\ DOMAIN q = 1 .. Len(q)
  BY LenProperties
<1>3. DOMAIN Append(q, x) = 1 .. Len(q) + 1
  BY <1>1, LenProperties
<1>4. \A i \in DOMAIN Append(q, x) : i \in DOMAIN q \/ i = Len(q) + 1
  BY <1>2, <1>3
<1>5. \A i \in DOMAIN q : i \in DOMAIN Append(q, x) /\ Append(q, x)[i] = q[i]
  BY <1>1, <1>2, <1>3
<1>6. Len(q) + 1 \in DOMAIN Append(q, x)
  BY <1>2, <1>3
<1>7. ToSet(Append(q, x)) = ToSet(q) \cup {x}
  BY <1>1, <1>4, <1>5, <1>6 DEF ToSet
<1>. QED BY <1>1, <1>2, <1>3, <1>4, <1>5, <1>7

LEMMA RisesOne ==
  ASSUME Logged, NEW s \in Stores, Rising(s), NEW i \in 1 .. Len(log), i > s.lastSeq
  PROVE  /\ Rising(FoldOne(s, i))
         /\ ToSet(FoldOne(s, i).folded) = ToSet(s.folded) \cup {i}
<1>1. s.folded \in Seq(Nat) /\ s.lastSeq \in Nat /\ i \in Nat
  BY LogFacts DEF Stores
<1>2. /\ FoldOne(s, i).folded = Append(s.folded, i)
      /\ FoldOne(s, i).lastSeq = i
  BY FoldOneFacts
<1>. DEFINE q == s.folded
            r == Append(q, i)
<1>3. /\ DOMAIN q = 1 .. Len(q) /\ Len(q) \in Nat
      /\ \A k \in DOMAIN q : r[k] = q[k]
      /\ r[Len(q) + 1] = i
      /\ \A k \in DOMAIN r : k \in DOMAIN q \/ k = Len(q) + 1
      /\ ToSet(r) = ToSet(q) \cup {i}
  BY <1>1, AppendFacts
<1>4. \A k \in DOMAIN q : q[k] \in 1 .. s.lastSeq
  BY DEF Rising
<1>5. \A k, l \in DOMAIN q : k < l => q[k] < q[l]
  BY DEF Rising
<1>. HIDE DEF q, r
<1>6. \A k, l \in DOMAIN r : k < l => r[k] < r[l]
  BY <1>1, <1>3, <1>4, <1>5
<1>7. \A k \in DOMAIN r : r[k] \in 1 .. i
  BY <1>1, <1>3, <1>4
<1>. QED BY <1>2, <1>3, <1>6, <1>7 DEF Rising, q, r

LEMMA FoldAllFacts ==
  ASSUME Logged, NEW s \in Stores, NEW S \in SUBSET (1 .. Len(log)),
         \A i \in S : i > s.lastSeq, Rising(s), NEW v, v = FoldAll(s, S)
  PROVE  /\ v \in Stores /\ Rising(v)
         /\ \A i \in S \cup ToSet(s.folded) : i \in ToSet(v.folded)
         /\ v.lastSeq \in {s.lastSeq} \cup S /\ v.lastSeq >= s.lastSeq
         /\ \A i \in S : v.lastSeq >= i
<1>0. Len(log) \in Nat /\ s.lastSeq \in Nat
  BY LogFacts DEF Stores
<1>1. PICK view : Views(s, S, view) /\ FoldAll(s, S) = view[Len(log)]
  BY ViewExists
<1>. DEFINE P(k, w) ==
              /\ w \in Stores /\ Rising(w)
              /\ w.lastSeq = s.lastSeq \/ (w.lastSeq \in S /\ w.lastSeq <= k)
              /\ w.lastSeq >= s.lastSeq
              /\ \A i \in S : i <= k => w.lastSeq >= i /\ i \in ToSet(w.folded)
              /\ ToSet(s.folded) \subseteq ToSet(w.folded)
            Good == {k \in 0 .. Len(log) : P(k, view[k])}
<1>2. 0 \in Good
  <2>1. view[0] = s
    BY <1>1 DEF Views
  <2>2. \A i \in S : ~ (i <= 0)
    OBVIOUS
  <2>3. s.lastSeq >= s.lastSeq
    BY <1>0
  <2>4. \A i \in S : i <= 0 => s.lastSeq >= i /\ i \in ToSet(s.folded)
    BY <2>2
  <2>5. P(0, s)
    BY <2>3, <2>4
  <2>. QED BY <1>0, <2>1, <2>5
<1>3. ASSUME NEW k \in 1 .. Len(log), k - 1 \in Good
      PROVE  k \in Good
  <2>1. PICK w : w = view[k - 1]
    OBVIOUS
  <2>2. P(k - 1, w)
    BY <1>3, <2>1
  <2>3. CASE k \in S
    <3>1. w.lastSeq \in Nat /\ k > w.lastSeq
      BY <1>0, <2>2, <2>3 DEF Stores
    <3>2. view[k] = FoldOne(w, k)
      BY <1>1, <2>1, <2>3 DEF Views
    <3>3. /\ FoldOne(w, k) \in Stores /\ FoldOne(w, k).lastSeq = k
          /\ Rising(FoldOne(w, k))
          /\ ToSet(FoldOne(w, k).folded) = ToSet(w.folded) \cup {k}
      BY <2>2, <3>1, FoldOneFacts, RisesOne
    <3>4. \A i \in S : i <= k => i <= k - 1 \/ i = k
      BY <1>0
    <3>5. P(k, FoldOne(w, k))
      BY <1>0, <2>2, <2>3, <3>1, <3>3, <3>4
    <3>. QED BY <3>2, <3>5
  <2>4. CASE k \notin S
    <3>1. view[k] = w
      BY <1>1, <2>1, <2>4 DEF Views
    <3>2. \A i \in S : i <= k => i <= k - 1
      <4>1. \A i \in S : i \in Nat /\ i # k
        BY <2>4
      <4>. QED BY <4>1
    <3>3. w.lastSeq \in Nat
      BY <2>2 DEF Stores
    <3>4. w.lastSeq = s.lastSeq \/ (w.lastSeq \in S /\ w.lastSeq <= k)
      BY <2>2, <3>3
    <3>5. \A i \in S : i <= k => w.lastSeq >= i /\ i \in ToSet(w.folded)
      BY <2>2, <3>2
    <3>6. P(k, w)
      BY <2>2, <3>4, <3>5
    <3>7. k \in 0 .. Len(log)
      BY <1>0
    <3>. HIDE DEF P
    <3>. QED BY <3>1, <3>6, <3>7
  <2>. QED BY <2>3, <2>4
<1>4. Len(log) \in Good
  <2>. HIDE DEF Good
  <2>1. \A k \in 0 .. Len(log) : k \in Good
    BY <1>0, <1>2, <1>3, Climb
  <2>. QED BY <1>0, <2>1
<1>5. P(Len(log), v)
  BY <1>1, <1>4
<1>6. \A i \in S : i <= Len(log)
  BY <1>0
<1>. QED BY <1>5, <1>6

(* What the fold does to the place of a flow. *)

LEMMA FoldKeeps ==
  ASSUME Logged, NEW s \in Stores, NEW S \in SUBSET (1 .. Len(log)), NEW f \in Flows,
         \A i \in S : ~ Is(i, f, "flow.removed"), f \in s.rail
  PROVE  f \in FoldAll(s, S).rail
<1>0. Len(log) \in Nat
  BY LogFacts
<1>1. PICK view : Views(s, S, view) /\ FoldAll(s, S) = view[Len(log)]
  BY ViewExists
<1>. DEFINE Good == {k \in 0 .. Len(log) : view[k] \in Stores /\ f \in view[k].rail}
<1>2. 0 \in Good
  BY <1>0, <1>1 DEF Views
<1>3. ASSUME NEW k \in 1 .. Len(log), k - 1 \in Good
      PROVE  k \in Good
  <2>1. view[k] = IF k \in S THEN FoldOne(view[k - 1], k) ELSE view[k - 1]
    BY <1>1 DEF Views
  <2>2. k \in S => /\ FoldOne(view[k - 1], k) \in Stores
                   /\ f \in FoldOne(view[k - 1], k).rail
    BY <1>3, FoldOneFacts
  <2>. QED BY <1>3, <2>1, <2>2
<1>. HIDE DEF Good
<1>4. Len(log) \in Good
  <2>1. \A k \in 0 .. Len(log) : k \in Good
    BY <1>0, <1>2, <1>3, Climb
  <2>. QED BY <1>0, <2>1
<1>. QED BY <1>1, <1>4 DEF Good

(* Off the rail after the event at from, which may be its removal. *)
LEMMA FoldDrops ==
  ASSUME Logged, NEW s \in Stores, NEW S \in SUBSET (1 .. Len(log)), NEW f \in Flows,
         NEW from \in 0 .. Len(log),
         \A i \in S : i > from => ~ Is(i, f, "flow.upserted"),
         \/ from = 0 /\ f \notin s.rail /\ s.selected # f
         \/ from \in S /\ Is(from, f, "flow.removed")
  PROVE  f \notin FoldAll(s, S).rail /\ FoldAll(s, S).selected # f
<1>0. Len(log) \in Nat
  BY LogFacts
<1>1. PICK view : Views(s, S, view) /\ FoldAll(s, S) = view[Len(log)]
  BY ViewExists
<1>. DEFINE P(k, w) == w \in Stores /\ (k >= from => f \notin w.rail /\ w.selected # f)
            Good == {k \in 0 .. Len(log) : P(k, view[k])}
<1>2. 0 \in Good
  <2>1. view[0] = s
    BY <1>1 DEF Views
  <2>2. 0 >= from => f \notin s.rail /\ s.selected # f
    BY <1>0
  <2>. QED BY <1>0, <2>1, <2>2
<1>3. ASSUME NEW k \in 1 .. Len(log), k - 1 \in Good
      PROVE  k \in Good
  <2>1. PICK w : w = view[k - 1]
    OBVIOUS
  <2>2. P(k - 1, w)
    BY <1>3, <2>1
  <2>3. CASE k \in S
    <3>1. view[k] = FoldOne(w, k)
      BY <1>1, <2>1, <2>3 DEF Views
    <3>2. /\ FoldOne(w, k) \in Stores
          /\ Is(k, f, "flow.removed") =>
               f \notin FoldOne(w, k).rail /\ FoldOne(w, k).selected # f
          /\ ~ Is(k, f, "flow.upserted") /\ f \notin w.rail /\ w.selected # f =>
               f \notin FoldOne(w, k).rail /\ FoldOne(w, k).selected # f
      BY <2>2, FoldOneFacts
    <3>3. k >= from => k = from \/ (k > from /\ k - 1 >= from)
      BY <1>0
    <3>4. k = from => Is(k, f, "flow.removed")
      BY <1>0
    <3>5. P(k, FoldOne(w, k))
      BY <2>2, <2>3, <3>2, <3>3, <3>4
    <3>. QED BY <3>1, <3>5
  <2>4. CASE k \notin S
    <3>1. view[k] = w
      BY <1>1, <2>1, <2>4 DEF Views
    <3>2. k >= from => k - 1 >= from
      BY <1>0, <2>4
    <3>3. P(k, w)
      BY <2>2, <3>2
    <3>. QED BY <3>1, <3>3
  <2>. QED BY <2>3, <2>4
<1>4. Len(log) \in Good
  <2>. HIDE DEF Good
  <2>1. \A k \in 0 .. Len(log) : k \in Good
    BY <1>0, <1>2, <1>3, Climb
  <2>. QED BY <1>0, <2>1
<1>. QED BY <1>0, <1>1, <1>4

----------------------------------------------------------------------------
(* The socket: types, and what is in flight. *)

Types ==
  /\ ClientTypeOK /\ Logged /\ Len(log) <= MaxLog /\ up \in BOOLEAN
  /\ folded \in Seq(Nat) /\ Rising(Store)

(* A batch is of events of the log; hello comes first, with a cursor the     *)
(* client has not passed and with every flow that still exists.            *)
Fine(m, cursor, latest, kept) ==
  /\ m.t = "event" => m.seqs \subseteq 1 .. latest
  /\ m.t = "hello" => /\ m.sinceSeq \in Nat /\ cursor <= m.sinceSeq
                      /\ m.sinceSeq <= latest /\ kept \subseteq m.flows

QueueOK ==
  \A p \in DOMAIN toClient :
    /\ Fine(toClient[p], lastSeq, Len(log), specs)
    /\ toClient[p].t = "hello" => p = 1

(* What the two ends believe of each other. *)
Linked ==
  /\ ws = "open" => up
  /\ ws \in {"none", "dead"} => ~ up
  /\ toServer # <<>> => ws = "open"
  /\ up /\ ws = "connecting" => toClient # <<>> /\ toClient[1].t = "hello"

SyncInv == Types /\ QueueOK /\ Linked

LEMMA ServerKinds ==
  ASSUME NEW m \in ServerMessages
  PROVE  /\ m.t \in {"hello", "event", "flow.snapshot"}
         /\ m.t = "hello" => m.sinceSeq \in Nat /\ m.flows \in SUBSET Flows
         /\ m.t = "event" => m.seqs \in SUBSET (1 .. MaxLog)
         /\ m.t = "flow.snapshot" => m.flow \in Flows /\ m = Snapshot(m.flow)
BY ClientAssumption DEF ServerMessages, Snapshot

LEMMA ServerMakes ==
  /\ \A S \in SUBSET (1 .. MaxLog) :
       Batch(S) \in ServerMessages /\ Batch(S).t = "event" /\ Batch(S).seqs = S
  /\ \A f \in Flows : /\ Snapshot(f) \in ServerMessages
                      /\ Snapshot(f).t = "flow.snapshot" /\ Snapshot(f).flow = f
BY DEF ServerMessages, Batch, Snapshot

LEMMA ClientMakes ==
  ASSUME NEW f \in Flows
  PROVE  /\ Delete(f) \in ClientCommands /\ NodeSubscribe(f) \in ClientCommands
         /\ \A n \in 0 .. MaxLog : Subscribe(f, n) \in ClientCommands
BY DEF ClientCommands, Delete, NodeSubscribe, Subscribe

LEMMA StoreFacts ==
  ASSUME Types
  PROVE  /\ Store \in Stores /\ Rising(Store)
         /\ Store.rail = rail /\ Store.selected = selected
         /\ Store.lastSeq = lastSeq /\ Store.folded = folded
         /\ Len(log) \in Nat /\ LatestSeq(log) = Len(log) /\ lastSeq \in Nat
         /\ lastSeq <= Len(log)
<1>1. Len(log) \in Nat /\ LatestSeq(log) = Len(log)
  BY LogFacts DEF Types
<1>. QED BY <1>1 DEF Types, ClientTypeOK, Store, Stores

(* What the bridge sends between one hello and the next. *)
Sends(o) ==
  /\ o \in Seq(ServerMessages) /\ toClient' = toClient \o o
  /\ \A k \in DOMAIN o :
       \/ \E S \in SUBSET (1 .. Len(log')) : o[k] = Batch(S)
       \/ \E f \in specs : o[k] = Snapshot(f)

LEMMA QueueGrows ==
  ASSUME SyncInv, NEW o, Sends(o), Len(log') \in Nat, Len(log) <= Len(log'),
         Len(log') <= MaxLog, specs' \subseteq specs, UNCHANGED lastSeq
  PROVE  /\ toClient' \in Seq(ServerMessages) /\ QueueOK'
         /\ toClient # <<>> => toClient' # <<>> /\ toClient'[1] = toClient[1]
<1>0. toClient \in Seq(ServerMessages) /\ o \in Seq(ServerMessages) /\ toClient' = toClient \o o
  BY DEF SyncInv, Types, ClientTypeOK, Sends
<1>1. /\ toClient' \in Seq(ServerMessages)
      /\ Len(toClient) \in Nat /\ DOMAIN toClient = 1 .. Len(toClient)
      /\ \A p \in DOMAIN toClient : p \in DOMAIN toClient' /\ toClient'[p] = toClient[p]
      /\ \A p \in DOMAIN toClient' :
           p \in DOMAIN toClient \/ \E k \in DOMAIN o : p = Len(toClient) + k
      /\ \A k \in DOMAIN o : toClient'[Len(toClient) + k] = o[k]
  BY <1>0, Concatenation
<1>2. Len(log) \in Nat /\ lastSeq \in Nat
  BY StoreFacts DEF SyncInv
<1>. DEFINE Good(m) == Fine(m, lastSeq, Len(log'), specs')
<1>3. ASSUME NEW p \in DOMAIN toClient
      PROVE  Good(toClient'[p]) /\ (toClient'[p].t = "hello" => p = 1)
  <2>1. toClient'[p] = toClient[p]
    BY <1>1
  <2>2. Fine(toClient[p], lastSeq, Len(log), specs) /\ (toClient[p].t = "hello" => p = 1)
    BY DEF SyncInv, QueueOK
  <2>3. PICK m : m = toClient[p]
    OBVIOUS
  <2>4. Good(m)
    BY <1>2, <2>2, <2>3 DEF Fine
  <2>. QED BY <2>1, <2>2, <2>3, <2>4
<1>4. ASSUME NEW k \in DOMAIN o
      PROVE  Good(o[k]) /\ o[k].t # "hello"
  <2>1. CASE \E S \in SUBSET (1 .. Len(log')) : o[k] = Batch(S)
    BY <2>1 DEF Batch, Fine
  <2>2. CASE \E f \in specs : o[k] = Snapshot(f)
    BY <2>2 DEF Snapshot, Fine
  <2>. QED BY <2>1, <2>2 DEF Sends
<1>5. QueueOK'
  <2>. SUFFICES ASSUME NEW p \in DOMAIN toClient'
                PROVE  Good(toClient'[p]) /\ (toClient'[p].t = "hello" => p = 1)
    BY DEF QueueOK
  <2>1. CASE p \in DOMAIN toClient
    BY <1>3, <2>1
  <2>2. ASSUME NEW k \in DOMAIN o, p = Len(toClient) + k
        PROVE  Good(toClient'[p]) /\ (toClient'[p].t = "hello" => p = 1)
    <3>1. toClient'[p] = o[k]
      BY <1>1, <2>2
    <3>. HIDE DEF Good
    <3>. QED BY <1>4, <3>1
  <2>. QED BY <1>1, <2>1, <2>2
<1>6. ASSUME toClient # <<>> PROVE toClient' # <<>> /\ toClient'[1] = toClient[1]
  <2>1. 1 \in DOMAIN toClient
    BY <1>0, <1>6, Tails
  <2>2. 1 \in DOMAIN toClient'
    BY <1>1, <2>1
  <2>. QED BY <1>1, <2>1, <2>2
<1>. QED BY <1>1, <1>5, <1>6

(* The steps of the engine and the bridge, in the terms of the proofs. *)

LEMMA RelayFacts ==
  ASSUME NEW n \in 1 .. MaxLog, NEW e
  PROVE  /\ Relay(n, e) \in Seq(ServerMessages)
         /\ \A k \in DOMAIN Relay(n, e) : Relay(n, e)[k] = Batch({n})
         /\ subs # {} /\ (HasFlow(e) => e.flow \in subs) =>
              \E k \in DOMAIN Relay(n, e) : Relay(n, e)[k] = Batch({n})
<1>. DEFINE b == Batch({n})
<1>1. b \in ServerMessages
  BY ServerMakes
<1>. HIDE DEF b
<1>2. PICK x : x = IF e.type = "auth.state" THEN <<b>> ELSE <<>>
  OBVIOUS
<1>3. PICK y : y = IF subs # {} /\ (HasFlow(e) => e.flow \in subs) THEN <<b>> ELSE <<>>
  OBVIOUS
<1>4. Relay(n, e) = x \o y
  BY <1>2, <1>3 DEF Relay, b
<1>5. /\ <<b>> \in Seq(ServerMessages) /\ <<>> \in Seq(ServerMessages)
      /\ \A k \in DOMAIN <<b>> : <<b>>[k] = b
      /\ 1 \in DOMAIN <<b>>
      /\ \A k \in DOMAIN <<>> : FALSE
  BY <1>1
<1>6. /\ x \in Seq(ServerMessages) /\ y \in Seq(ServerMessages)
      /\ \A k \in DOMAIN x : x[k] = b
      /\ \A k \in DOMAIN y : y[k] = b
  BY <1>2, <1>3, <1>5
<1>7. /\ x \o y \in Seq(ServerMessages)
      /\ \A i \in DOMAIN x : (x \o y)[i] = x[i]
      /\ \A k \in DOMAIN y : /\ Len(x) + k \in DOMAIN (x \o y)
                             /\ (x \o y)[Len(x) + k] = y[k]
      /\ \A i \in DOMAIN (x \o y) : i \in DOMAIN x \/ \E k \in DOMAIN y : i = Len(x) + k
  BY <1>6, Concatenation
<1>8. \A i \in DOMAIN (x \o y) : (x \o y)[i] = b
  BY <1>6, <1>7
<1>9. ASSUME subs # {} /\ (HasFlow(e) => e.flow \in subs)
      PROVE  \E k \in DOMAIN (x \o y) : (x \o y)[k] = b
  <2>1. 1 \in DOMAIN y
    BY <1>3, <1>5, <1>9
  <2>. QED BY <1>6, <1>7, <2>1
<1>. QED BY <1>4, <1>7, <1>8, <1>9 DEF b

LEMMA EmitFacts ==
  ASSUME SyncInv, NEW e \in LogEvents, Emit(e)
  PROVE  /\ log' \in Seq(LogEvents) /\ Len(log) \in Nat
         /\ Len(log') = Len(log) + 1 /\ Len(log') <= MaxLog
         /\ \A i \in 1 .. Len(log) : log'[i] = log[i]
         /\ log'[Len(log) + 1] = e
         /\ \E o : /\ Sends(o)
                   /\ \A k \in DOMAIN o : o[k] = Batch({Len(log) + 1})
                   /\ up /\ subs # {} /\ (HasFlow(e) => e.flow \in subs) =>
                        \E k \in DOMAIN o : o[k] = Batch({Len(log) + 1})
<1>1. Logged /\ LatestSeq(log) = Len(log) /\ Len(log) \in Nat
  BY StoreFacts DEF SyncInv, Types
<1>2. Len(log) < MaxLog /\ log' = Append(log, e)
  BY <1>1 DEF Emit, Appended
<1>3. /\ log' \in Seq(LogEvents) /\ Len(log') = Len(log) + 1
      /\ \A i \in 1 .. Len(log) : log'[i] = log[i]
      /\ log'[Len(log) + 1] = e
  BY <1>1, <1>2, AppendProperties DEF Logged
<1>4. PICK n : n = Len(log) + 1
  OBVIOUS
<1>5. n \in 1 .. MaxLog /\ Len(log') = n
  BY <1>1, <1>2, <1>3, <1>4, ClientAssumption
<1>6. PICK o : o = IF up THEN Relay(n, e) ELSE <<>>
  OBVIOUS
<1>7. toClient \in Seq(ServerMessages)
  BY DEF SyncInv, Types, ClientTypeOK
<1>8. /\ o \in Seq(ServerMessages)
      /\ \A k \in DOMAIN o : o[k] = Batch({n})
      /\ up /\ subs # {} /\ (HasFlow(e) => e.flow \in subs) =>
           \E k \in DOMAIN o : o[k] = Batch({n})
  <2>1. CASE up
    <3>1. o = Relay(n, e)
      BY <1>6, <2>1
    <3>. QED BY <1>5, <3>1, RelayFacts
  <2>2. CASE ~ up
    <3>1. o = <<>>
      BY <1>6, <2>2
    <3>. QED BY <2>2, <3>1
  <2>. QED BY <2>1, <2>2
<1>9. toClient' = toClient \o o
  <2>1. CASE up
    BY <1>1, <1>4, <1>6, <2>1 DEF Emit
  <2>2. CASE ~ up
    BY <1>6, <1>7, <2>2, ConcatEmptySeq DEF Emit
  <2>. QED BY <2>1, <2>2
<1>10. {n} \in SUBSET (1 .. Len(log'))
  BY <1>5
<1>11. Sends(o)
  <2>1. \A k \in DOMAIN o : o[k] = Batch({n})
    BY <1>8
  <2>2. \A k \in DOMAIN o : \E S \in SUBSET (1 .. Len(log')) : o[k] = Batch(S)
    BY <1>10, <2>1
  <2>. QED BY <1>8, <1>9, <2>2 DEF Sends
<1>12. /\ Sends(o)
       /\ \A k \in DOMAIN o : o[k] = Batch({Len(log) + 1})
       /\ up /\ subs # {} /\ (HasFlow(e) => e.flow \in subs) =>
            \E k \in DOMAIN o : o[k] = Batch({Len(log) + 1})
  BY <1>4, <1>8, <1>11
<1>13. Len(log') <= MaxLog
  BY <1>5, ClientAssumption
<1>. QED BY <1>1, <1>3, <1>12, <1>13

LEMMA SubscribeFacts ==
  ASSUME SyncInv, NEW f \in Flows, NEW since \in Nat, HandleSubscribe(f, since),
         UNCHANGED log
  PROVE  /\ \E o : Sends(o)
         /\ subs' = subs \cup {f}
         /\ f \in subs => armedAt' = armedAt
         /\ f \notin subs => armedAt' = [armedAt EXCEPT ![f] = Len(log)]
<1>1. LatestSeq(log) = Len(log) /\ Len(log) \in Nat /\ Len(log) <= MaxLog
  BY StoreFacts DEF SyncInv, Types
<1>2. PICK R : R = Replay(f, since)
  OBVIOUS
<1>3. R \in SUBSET (1 .. Len(log)) /\ R \in SUBSET (1 .. MaxLog)
  BY <1>1, <1>2, ClientAssumption DEF Replay
<1>4. PICK x : x = IF R = {} THEN <<>> ELSE <<Batch(R)>>
  OBVIOUS
<1>5. PICK y : y = IF f \in specs THEN <<Snapshot(f)>> ELSE <<>>
  OBVIOUS
<1>6. Batch(R) \in ServerMessages /\ Snapshot(f) \in ServerMessages
  BY <1>3, ServerMakes
<1>7. /\ x \in Seq(ServerMessages) /\ \A k \in DOMAIN x : x[k] = Batch(R)
      /\ y \in Seq(ServerMessages) /\ \A k \in DOMAIN y : y[k] = Snapshot(f) /\ f \in specs
  <2>1. ASSUME NEW m \in ServerMessages
        PROVE  /\ <<m>> \in Seq(ServerMessages) /\ \A k \in DOMAIN <<m>> : <<m>>[k] = m
               /\ <<>> \in Seq(ServerMessages) /\ \A k \in DOMAIN <<>> : FALSE
    OBVIOUS
  <2>2. /\ <<Batch(R)>> \in Seq(ServerMessages)
        /\ \A k \in DOMAIN <<Batch(R)>> : <<Batch(R)>>[k] = Batch(R)
        /\ <<Snapshot(f)>> \in Seq(ServerMessages)
        /\ \A k \in DOMAIN <<Snapshot(f)>> : <<Snapshot(f)>>[k] = Snapshot(f)
        /\ <<>> \in Seq(ServerMessages) /\ \A k \in DOMAIN <<>> : FALSE
    BY <1>6, <2>1
  <2>. QED BY <1>4, <1>5, <2>2
<1>8. toClient \in Seq(ServerMessages) /\ toClient' = (toClient \o x) \o y
  <2>1. toClient' = (toClient \o (IF Replay(f, since) = {} THEN <<>>
                                  ELSE <<Batch(Replay(f, since))>>))
                      \o (IF f \in specs THEN <<Snapshot(f)>> ELSE <<>>)
    BY DEF HandleSubscribe
  <2>. QED BY <1>2, <1>4, <1>5, <2>1 DEF SyncInv, Types, ClientTypeOK
<1>9. toClient' = toClient \o (x \o y)
  BY <1>7, <1>8, ConcatAssociative
<1>10. /\ x \o y \in Seq(ServerMessages)
       /\ \A k \in DOMAIN (x \o y) :
            (x \o y)[k] = Batch(R) \/ ((x \o y)[k] = Snapshot(f) /\ f \in specs)
  <2>1. /\ x \o y \in Seq(ServerMessages)
        /\ \A i \in DOMAIN x : (x \o y)[i] = x[i]
        /\ \A k \in DOMAIN y : (x \o y)[Len(x) + k] = y[k]
        /\ \A i \in DOMAIN (x \o y) :
             i \in DOMAIN x \/ \E k \in DOMAIN y : i = Len(x) + k
    BY <1>7, Concatenation
  <2>. QED BY <1>7, <2>1
<1>11. Sends(x \o y)
  BY <1>3, <1>9, <1>10 DEF Sends
<1>. QED BY <1>1, <1>11 DEF HandleSubscribe

(* A command arms at most one flow, or begins to delete one. *)
LEMMA CommandFacts ==
  ASSUME SyncInv, HandleCommand
  PROVE  /\ \E o : Sends(o)
         /\ \/ subs' = subs /\ armedAt' = armedAt
            \/ \E f \in Flows \ subs : /\ subs' = subs \cup {f}
                                       /\ armedAt' = [armedAt EXCEPT ![f] = Len(log)]
         /\ toServer # <<>> /\ toServer' = Tail(toServer)
         /\ \/ deleting' = deleting /\ \A f : toServer[1] # Delete(f)
            \/ \E f \in Flows : /\ toServer[1] = Delete(f)
                                /\ deleting' = deleting \cup {f}
         /\ up /\ UNCHANGED <<log, specs, removing, up, clientVars, drops, clicks>>
<1>0. toServer # <<>> /\ toServer \in Seq(ClientCommands) /\ toClient \in Seq(ServerMessages)
  BY DEF HandleCommand, SyncInv, Types, ClientTypeOK
<1>1. PICK cmd : cmd = Head(toServer)
  OBVIOUS
<1>2. cmd \in ClientCommands /\ cmd = toServer[1]
  BY <1>0, <1>1, Tails
<1>3. /\ up /\ toServer' = Tail(toServer)
      /\ UNCHANGED <<log, specs, removing, up, clientVars, drops, clicks>>
      /\ \/ /\ cmd.t = "subscribe"
            /\ HandleSubscribe(cmd.flow, cmd.since)
            /\ UNCHANGED deleting
         \/ /\ cmd.t = "node.subscribe"
            /\ HandleNodeSubscribe(cmd.flow)
            /\ UNCHANGED deleting
         \/ /\ cmd.t = "flow.delete"
            /\ deleting' = deleting \cup {cmd.flow}
            /\ UNCHANGED <<subs, armedAt, toClient>>
  BY <1>1 DEF HandleCommand
<1>4. /\ cmd.flow \in Flows
      /\ cmd.t = "subscribe" => cmd.since \in Nat
      /\ cmd.t = "flow.delete" => cmd = Delete(cmd.flow)
      /\ cmd.t # "flow.delete" => \A f : cmd # Delete(f)
  BY <1>2, ClientAssumption DEF ClientCommands, Delete
<1>5. UNCHANGED toClient => \E o : Sends(o)
  <2>1. <<>> \in Seq(ServerMessages) /\ toClient = toClient \o <<>> /\ \A k \in DOMAIN <<>> : FALSE
    BY <1>0, ConcatEmptySeq, EmptySeq
  <2>. QED BY <2>1 DEF Sends
<1>6. ASSUME NEW since \in Nat, HandleSubscribe(cmd.flow, since)
      PROVE  /\ \E o : Sends(o)
             /\ \/ subs' = subs /\ armedAt' = armedAt
                \/ \E f \in Flows \ subs : /\ subs' = subs \cup {f}
                                           /\ armedAt' = [armedAt EXCEPT ![f] = Len(log)]
  <2>1. /\ \E o : Sends(o)
        /\ subs' = subs \cup {cmd.flow}
        /\ cmd.flow \in subs => armedAt' = armedAt
        /\ cmd.flow \notin subs => armedAt' = [armedAt EXCEPT ![cmd.flow] = Len(log)]
    BY <1>3, <1>4, <1>6, SubscribeFacts
  <2>2. cmd.flow \in subs => subs' = subs
    BY <2>1
  <2>. QED BY <1>4, <2>1, <2>2
<1>7. CASE cmd.t = "subscribe"
  BY <1>0, <1>2, <1>3, <1>4, <1>6, <1>7
<1>8. CASE cmd.t = "node.subscribe"
  <2>1. LatestSeq(log) \in Nat
    BY StoreFacts DEF SyncInv
  <2>2. CASE cmd.flow \in subs
    BY <1>0, <1>2, <1>3, <1>4, <1>5, <1>8, <2>2 DEF HandleNodeSubscribe
  <2>3. CASE cmd.flow \notin subs
    <3>1. HandleSubscribe(cmd.flow, LatestSeq(log))
      BY <1>3, <1>8, <2>3 DEF HandleNodeSubscribe
    <3>. QED BY <1>0, <1>2, <1>3, <1>4, <1>6, <1>8, <2>1, <3>1
  <2>. QED BY <2>2, <2>3
<1>9. CASE cmd.t = "flow.delete"
  BY <1>0, <1>2, <1>3, <1>4, <1>5, <1>9
<1>. QED BY <1>3, <1>7, <1>8, <1>9

----------------------------------------------------------------------------
(* The steps of the engine and the bridge keep SyncInv. *)

(* Who appends, and what the store still has, matters to nothing here. *)
LEMMA EmitSync ==
  ASSUME SyncInv, NEW e \in LogEvents, Emit(e), specs' \subseteq specs,
         deleting' \subseteq Flows, removing' \subseteq Flows
  PROVE  SyncInv'
<1>1. /\ log' \in Seq(LogEvents) /\ Len(log) \in Nat
      /\ Len(log') = Len(log) + 1 /\ Len(log') <= MaxLog
  BY EmitFacts
<1>2. PICK o : Sends(o)
  BY EmitFacts
<1>3. UNCHANGED <<up, subs, toServer, armedAt, clientVars>>
  BY DEF Emit
<1>4. UNCHANGED <<lastSeq, ws, status, rail, selected, outbox, folded>>
  BY <1>3 DEF clientVars
<1>5. /\ toClient' \in Seq(ServerMessages) /\ QueueOK'
      /\ toClient # <<>> => toClient' # <<>> /\ toClient'[1] = toClient[1]
  <2>1. Len(log') \in Nat /\ Len(log) <= Len(log')
    BY <1>1
  <2>. QED BY <1>1, <1>2, <1>4, <2>1, QueueGrows
<1>6. Types'
  <2>1. ClientTypeOK'
    <3>1. LatestSeq(log)' = Len(log') /\ LatestSeq(log) = Len(log)
      BY DEF LatestSeq
    <3>2. lastSeq' \in 0 .. LatestSeq(log)'
      BY <1>1, <1>4, <3>1 DEF SyncInv, Types, ClientTypeOK
    <3>. QED BY <1>3, <1>4, <1>5, <3>2 DEF SyncInv, Types, ClientTypeOK
  <2>2. Rising(Store)' /\ folded' \in Seq(Nat)
    BY <1>4 DEF SyncInv, Types, Rising, Store
  <2>3. Logged'
    BY <1>1 DEF Logged
  <2>. QED BY <1>1, <1>3, <2>1, <2>2, <2>3 DEF SyncInv, Types
<1>7. Linked'
  BY <1>3, <1>4, <1>5 DEF SyncInv, Linked
<1>. QED BY <1>5, <1>6, <1>7 DEF SyncInv

LEMMA EngineSync ==
  ASSUME SyncInv,
         \/ EngineEmits
         \/ \E f \in Flows : DeleteElsewhere(f) \/ DropSpec(f) \/ EmitRemoved(f)
  PROVE  SyncInv'
<1>1. CASE EngineEmits
  <2>1. PICK e \in Events : Emit(e) /\ UNCHANGED <<specs, deleting, removing>>
    BY <1>1 DEF EngineEmits
  <2>2. e \in LogEvents
    BY DEF LogEvents
  <2>. QED BY <2>1, <2>2, EmitSync DEF SyncInv, Types, ClientTypeOK
<1>2. ASSUME NEW f \in Flows, EmitRemoved(f) PROVE SyncInv'
  <2>1. /\ Emit([type |-> "flow.removed", flow |-> f])
        /\ removing' = removing \ {f} /\ specs' = specs /\ deleting' = deleting
    BY <1>2 DEF EmitRemoved
  <2>2. [type |-> "flow.removed", flow |-> f] \in LogEvents
    BY DEF LogEvents
  <2>. QED BY <2>1, <2>2, EmitSync DEF SyncInv, Types, ClientTypeOK
<1>3. ASSUME NEW f \in Flows, DropSpec(f) \/ DeleteElsewhere(f) PROVE SyncInv'
  <2>1. /\ specs' \in {specs, specs \ {f}} /\ removing' \in {removing, removing \cup {f}}
        /\ deleting' \in {deleting \ {f}, deleting \cup {f}}
        /\ UNCHANGED <<log, up, subs, toClient, toServer, armedAt, ws, status, lastSeq,
                       rail, selected, outbox, folded>>
    BY <1>3 DEF DropSpec, DeleteElsewhere, socketVars, clientVars
  <2>2. Types'
    <3>1. specs' \subseteq Flows /\ deleting' \subseteq Flows /\ removing' \subseteq Flows
      BY <2>1 DEF SyncInv, Types, ClientTypeOK
    <3>. QED BY <2>1, <3>1 DEF SyncInv, Types, ClientTypeOK, Logged, Rising, Store
  <2>3. QueueOK'
    <3>1. specs' \subseteq specs
      BY <2>1
    <3>. QED BY <2>1, <3>1 DEF SyncInv, QueueOK, Fine
  <2>. QED BY <2>1, <2>2, <2>3 DEF SyncInv, Linked
<1>. QED BY <1>1, <1>2, <1>3

LEMMA HelloFacts ==
  ASSUME SyncInv
  PROVE  /\ Hello(log) \in ServerMessages /\ Hello(log).t = "hello"
         /\ Hello(log).sinceSeq = Len(log)
         /\ Hello(log).flows = {f \in Flows : ~ Removed(log, f)}
BY StoreFacts DEF SyncInv, Types, ServerMessages, Hello

(* Nothing that exists is missing from a hello. *)
Existing == \A f \in specs : ~ Removed(log, f)

LEMMA AcceptSync ==
  ASSUME SyncInv, Existing, Accept
  PROVE  SyncInv'
<1>1. /\ ws = "connecting" /\ up' = TRUE /\ subs' = {}
      /\ armedAt' = [f \in Flows |-> -1]
      /\ toClient' = <<Hello(log)>> /\ toServer' = <<>>
      /\ UNCHANGED <<log, specs, deleting, removing, ws, status, lastSeq, rail, selected, outbox,
                     folded>>
  BY DEF Accept, serverVars, clientVars
<1>2. PICK h : h = Hello(log)
  OBVIOUS
<1>3. /\ h \in ServerMessages /\ h.t = "hello" /\ h.sinceSeq = Len(log)
      /\ h.flows = {f \in Flows : ~ Removed(log, f)}
  BY <1>2, HelloFacts
<1>4. /\ toClient' = <<h>> /\ toClient' \in Seq(ServerMessages) /\ toClient' # <<>>
      /\ toClient'[1] = h /\ \A p \in DOMAIN toClient' : p = 1
  BY <1>1, <1>2, <1>3
<1>5. Types'
  BY <1>1, <1>4, ClientAssumption DEF SyncInv, Types, ClientTypeOK, Logged, Rising, Store
<1>6. QueueOK'
  <2>1. specs \subseteq h.flows
    BY <1>3 DEF Existing, SyncInv, Types, ClientTypeOK
  <2>2. Fine(h, lastSeq, Len(log), specs)
    BY <1>3, <2>1, StoreFacts DEF Fine, SyncInv
  <2>. QED BY <1>1, <1>4, <2>2 DEF QueueOK
<1>7. Linked'
  BY <1>1, <1>3, <1>4 DEF Linked
<1>. QED BY <1>5, <1>6, <1>7 DEF SyncInv

LEMMA CommandSync ==
  ASSUME SyncInv, HandleCommand
  PROVE  SyncInv'
<1>1. PICK o : Sends(o)
  BY CommandFacts
<1>2. /\ \/ subs' = subs /\ armedAt' = armedAt
         \/ \E f \in Flows \ subs : /\ subs' = subs \cup {f}
                                    /\ armedAt' = [armedAt EXCEPT ![f] = Len(log)]
      /\ toServer # <<>> /\ toServer' = Tail(toServer)
      /\ deleting' = deleting \/ \E f \in Flows : deleting' = deleting \cup {f}
      /\ UNCHANGED <<log, specs, removing, up, clientVars>>
  BY CommandFacts
<1>3. UNCHANGED <<log, specs, removing, up, ws, status, lastSeq, rail, selected, outbox,
                  folded>>
  BY <1>2 DEF clientVars
<1>4. /\ Len(log) \in Nat /\ Len(log) <= MaxLog /\ toServer \in Seq(ClientCommands)
      /\ subs \subseteq Flows /\ armedAt \in [Flows -> -1 .. MaxLog]
      /\ specs \subseteq Flows /\ deleting \subseteq Flows /\ removing \subseteq Flows
  BY StoreFacts DEF SyncInv, Types, ClientTypeOK
<1>5. /\ toClient' \in Seq(ServerMessages) /\ QueueOK'
      /\ toClient # <<>> => toClient' # <<>> /\ toClient'[1] = toClient[1]
  <2>1. /\ specs' \subseteq specs /\ Len(log') \in Nat /\ Len(log) <= Len(log')
        /\ Len(log') <= MaxLog /\ UNCHANGED lastSeq
    BY <1>2, <1>3, <1>4
  <2>. QED BY <1>1, <2>1, QueueGrows
<1>6. toServer' \in Seq(ClientCommands)
  BY <1>2, <1>4, Tails
<1>7. /\ subs' \subseteq Flows /\ armedAt' \in [Flows -> -1 .. MaxLog]
      /\ specs' \subseteq Flows /\ deleting' \subseteq Flows /\ removing' \subseteq Flows
  <2>1. Len(log) \in -1 .. MaxLog
    BY <1>4, ClientAssumption
  <2>. QED BY <1>2, <1>3, <1>4, <2>1
<1>8. Types'
  BY <1>3, <1>5, <1>6, <1>7 DEF SyncInv, Types, ClientTypeOK, Logged, Rising, Store
<1>9. Linked'
  BY <1>2, <1>3, <1>5 DEF SyncInv, Linked
<1>. QED BY <1>5, <1>8, <1>9 DEF SyncInv

(* The socket *)

LEMMA SocketSync ==
  ASSUME SyncInv, SocketNext
  PROVE  SyncInv'
<1>0. /\ toClient \in Seq(ServerMessages) /\ outbox \in Seq(ClientCommands)
      /\ selected \in Flows \cup {None} /\ lastSeq \in 0 .. MaxLog
  BY StoreFacts, ClientAssumption DEF SyncInv, Types, ClientTypeOK
<1>1. CASE Connect
  <2>1. /\ ws = "none" /\ ws' = "connecting"
        /\ UNCHANGED <<log, specs, deleting, removing, up, subs, toClient, toServer, armedAt,
                       status, lastSeq, rail, selected, outbox, folded>>
    BY <1>1 DEF Connect, serverVars, socketVars
  <2>2. Types'
    BY <2>1 DEF SyncInv, Types, ClientTypeOK, Logged, Rising, Store
  <2>3. QueueOK'
    BY <2>1 DEF SyncInv, QueueOK
  <2>. QED BY <2>1, <2>2, <2>3 DEF SyncInv, Linked
<1>2. CASE Opened
  <2>1. /\ ws = "connecting" /\ up /\ ws' = "open" /\ outbox' = <<>>
        /\ toServer' = (IF selected = None THEN <<>>
                        ELSE <<Subscribe(selected, lastSeq)>>) \o outbox
        /\ UNCHANGED <<log, specs, deleting, removing, up, subs, toClient, armedAt,
                       status, lastSeq, rail, selected, folded>>
    BY <1>2 DEF Opened, serverVars
  <2>2. toServer' \in Seq(ClientCommands)
    <3>1. CASE selected = None
      BY <1>0, <2>1, <3>1, ConcatEmptySeq
    <3>2. CASE selected # None
      <4>1. Subscribe(selected, lastSeq) \in ClientCommands
        BY <1>0, <3>2, ClientMakes
      <4>2. <<Subscribe(selected, lastSeq)>> \in Seq(ClientCommands)
        BY <4>1
      <4>. QED BY <1>0, <2>1, <3>2, <4>2, ConcatProperties
    <3>. QED BY <3>1, <3>2
  <2>3. Types'
    BY <2>1, <2>2 DEF SyncInv, Types, ClientTypeOK, Logged, Rising, Store
  <2>4. QueueOK'
    BY <2>1 DEF SyncInv, QueueOK
  <2>. QED BY <2>1, <2>3, <2>4 DEF SyncInv, Linked
<1>3. CASE Closed
  <2>1. /\ ws = "dead" /\ ws' = "none" /\ status' = "offline"
        /\ UNCHANGED <<log, specs, deleting, removing, up, subs, toClient, toServer, armedAt,
                       lastSeq, rail, selected, outbox, folded>>
    BY <1>3 DEF Closed, serverVars, socketVars
  <2>2. Types'
    BY <2>1 DEF SyncInv, Types, ClientTypeOK, Logged, Rising, Store
  <2>3. QueueOK'
    BY <2>1 DEF SyncInv, QueueOK
  <2>. QED BY <2>1, <2>2, <2>3 DEF SyncInv, Linked
<1>. QED BY <1>1, <1>2, <1>3 DEF SocketNext

LEMMA DropSync ==
  ASSUME SyncInv, Drop
  PROVE  SyncInv'
<1>1. /\ ws' = "dead" /\ up' = FALSE /\ subs' = {} /\ toServer' = <<>>
      /\ armedAt' = [f \in Flows |-> -1]
      /\ UNCHANGED <<log, specs, deleting, removing, status, lastSeq, rail, selected, outbox,
                     folded>>
  BY DEF Drop, Forgotten, serverVars
<1>2. toClient \in Seq(ServerMessages)
  BY DEF SyncInv, Types, ClientTypeOK
<1>3. /\ toClient' \in Seq(ServerMessages)
      /\ \A p \in DOMAIN toClient' : p \in DOMAIN toClient /\ toClient'[p] = toClient[p]
  <2>1. CASE ws = "open"
    <3>1. PICK n \in 0 .. Len(toClient) : toClient' = SubSeq(toClient, 1, n)
      BY <2>1 DEF Drop
    <3>. QED BY <1>2, <3>1, Heads
  <2>2. CASE ws # "open"
    <3>1. toClient' = <<>> /\ <<>> \in Seq(ServerMessages) /\ DOMAIN <<>> = {}
      BY <2>2 DEF Drop
    <3>. QED BY <3>1
  <2>. QED BY <2>1, <2>2
<1>4. Types'
  <2>1. <<>> \in Seq(ClientCommands) /\ -1 \in -1 .. MaxLog
    BY ClientAssumption
  <2>2. toServer' \in Seq(ClientCommands) /\ armedAt' \in [Flows -> -1 .. MaxLog]
    BY <1>1, <2>1
  <2>3. ClientTypeOK'
    BY <1>1, <1>3, <2>2 DEF SyncInv, Types, ClientTypeOK
  <2>. QED BY <1>1, <2>3 DEF SyncInv, Types, Logged, Rising, Store
<1>5. QueueOK'
  BY <1>1, <1>3 DEF SyncInv, QueueOK
<1>. QED BY <1>1, <1>4, <1>5 DEF SyncInv, Linked

----------------------------------------------------------------------------
(* The store *)

(* Without a hello in flight the queue says nothing of the cursor. *)
LEMMA QueueShrinks ==
  ASSUME SyncInv, toClient # <<>>, toClient' = Tail(toClient), UNCHANGED log
  PROVE  /\ toClient' \in Seq(ServerMessages) /\ QueueOK'
         /\ \A p \in DOMAIN toClient' :
              /\ p \in 1 .. Len(toClient) - 1 /\ p + 1 \in DOMAIN toClient
              /\ toClient'[p] = toClient[p + 1] /\ toClient'[p].t # "hello"
         /\ \A p \in DOMAIN toClient : p = 1 \/ p - 1 \in DOMAIN toClient'
         /\ DOMAIN toClient = 1 .. Len(toClient) /\ Len(toClient) \in Nat
         /\ DOMAIN toClient' = 1 .. Len(toClient) - 1
         /\ 1 \in DOMAIN toClient /\ Head(toClient) = toClient[1]
         /\ toClient[1] \in ServerMessages
<1>0. toClient \in Seq(ServerMessages)
  BY DEF SyncInv, Types, ClientTypeOK
<1>1. /\ toClient' \in Seq(ServerMessages) /\ Head(toClient) = toClient[1]
      /\ toClient[1] \in ServerMessages
      /\ Len(toClient) \in Nat /\ DOMAIN toClient = 1 .. Len(toClient)
      /\ 1 \in DOMAIN toClient
      /\ DOMAIN toClient' = 1 .. Len(toClient) - 1
      /\ \A p \in DOMAIN toClient' : p + 1 \in DOMAIN toClient /\ toClient'[p] = toClient[p + 1]
      /\ \A p \in DOMAIN toClient : p = 1 \/ p - 1 \in DOMAIN toClient'
  BY <1>0, Tails
<1>2. \A p \in DOMAIN toClient' :
        /\ Fine(toClient'[p], lastSeq, Len(log), specs)
        /\ toClient'[p].t # "hello"
  <2>. SUFFICES ASSUME NEW p \in DOMAIN toClient'
                PROVE  /\ Fine(toClient'[p], lastSeq, Len(log), specs)
                       /\ toClient'[p].t # "hello"
    OBVIOUS
  <2>1. /\ p + 1 \in DOMAIN toClient /\ toClient'[p] = toClient[p + 1]
        /\ p + 1 # 1
    BY <1>1
  <2>. QED BY <2>1 DEF SyncInv, QueueOK
<1>3. QueueOK'
  BY <1>2 DEF QueueOK, Fine
<1>. QED BY <1>1, <1>2, <1>3

LEMMA HelloSync ==
  ASSUME SyncInv, ReceiveHello
  PROVE  SyncInv'
<1>1. /\ ws \in {"open", "dead"} /\ toClient # <<>> /\ Head(toClient).t = "hello"
      /\ status' = "live" /\ lastSeq' = Head(toClient).sinceSeq
      /\ rail' = Head(toClient).flows
      /\ selected' = IF selected = None THEN FirstOf(Head(toClient).flows) ELSE selected
      /\ toClient' = Tail(toClient)
      /\ UNCHANGED <<log, specs, deleting, removing, up, subs, toServer, armedAt, ws, outbox, folded>>
  BY DEF ReceiveHello, Receiving, Taken, serverVars
<1>2. PICK h : h = toClient[1]
  OBVIOUS
<1>3. /\ toClient' \in Seq(ServerMessages) /\ QueueOK' /\ Head(toClient) = h
      /\ h \in ServerMessages /\ 1 \in DOMAIN toClient
  BY <1>1, <1>2, QueueShrinks
<1>4. h.t = "hello" /\ h.flows \in SUBSET Flows /\ FirstOf(h.flows) \in Flows \cup {None}
  BY <1>1, <1>3, ServerKinds, FirstOfFacts
<1>5. h.sinceSeq \in Nat /\ lastSeq <= h.sinceSeq /\ h.sinceSeq <= Len(log)
  BY <1>2, <1>3, <1>4 DEF SyncInv, QueueOK, Fine
<1>6. Rising(Store)'
  <2>1. \A i \in DOMAIN folded : folded[i] \in 1 .. lastSeq
    BY DEF SyncInv, Types, Rising, Store
  <2>2. \A i \in DOMAIN folded : folded[i] \in 1 .. lastSeq'
    BY <1>1, <1>3, <1>5, <2>1, StoreFacts DEF SyncInv
  <2>. QED BY <1>1, <2>2 DEF SyncInv, Types, Rising, Store
<1>7. Types'
  <2>1. lastSeq' \in 0 .. LatestSeq(log)' /\ LatestSeq(log)' = LatestSeq(log)
    BY <1>1, <1>3, <1>5, StoreFacts DEF SyncInv
  <2>. QED BY <1>1, <1>3, <1>4, <1>6, <2>1 DEF SyncInv, Types, ClientTypeOK, Logged
<1>8. Linked'
  BY <1>1 DEF SyncInv, Linked
<1>. QED BY <1>3, <1>7, <1>8 DEF SyncInv

LEMMA SnapshotSync ==
  ASSUME SyncInv, ReceiveSnapshot
  PROVE  SyncInv'
<1>1. /\ ws \in {"open", "dead"} /\ toClient # <<>> /\ Head(toClient).t = "flow.snapshot"
      /\ rail' = rail \cup {Head(toClient).flow}
      /\ selected' = IF selected = None THEN Head(toClient).flow ELSE selected
      /\ toClient' = Tail(toClient)
      /\ UNCHANGED <<log, specs, deleting, removing, up, subs, toServer, armedAt, ws, outbox, folded,
                     status, lastSeq>>
  BY DEF ReceiveSnapshot, Receiving, Taken, serverVars, upsertSummary
<1>2. /\ toClient' \in Seq(ServerMessages) /\ QueueOK' /\ Head(toClient) \in ServerMessages
  BY <1>1, QueueShrinks
<1>3. Head(toClient).flow \in Flows
  BY <1>1, <1>2, ServerKinds
<1>4. Types'
  BY <1>1, <1>2, <1>3 DEF SyncInv, Types, ClientTypeOK, Logged, Rising, Store
<1>. QED BY <1>1, <1>2, <1>4 DEF SyncInv, Linked

(* A batch of the log is folded: what FoldAll promises of it. *)
LEMMA BatchFacts ==
  ASSUME SyncInv, ReceiveEvents
  PROVE  \E S \in SUBSET (1 .. Len(log)) :
           /\ S = {i \in toClient[1].seqs : i > lastSeq}
           /\ toClient[1].t = "event" /\ toClient[1].seqs \subseteq 1 .. Len(log)
           /\ FoldAll(Store, S) \in Stores
           /\ rail' = FoldAll(Store, S).rail /\ selected' = FoldAll(Store, S).selected
           /\ lastSeq' = FoldAll(Store, S).lastSeq /\ folded' = FoldAll(Store, S).folded
           /\ Rising(FoldAll(Store, S))
           /\ \A i \in S \cup ToSet(folded) : i \in ToSet(folded')
           /\ lastSeq' \in {lastSeq} \cup S /\ lastSeq <= lastSeq'
           /\ \A i \in S : i <= lastSeq'
<1>1. /\ toClient # <<>> /\ Head(toClient).t = "event" /\ toClient' = Tail(toClient)
      /\ UNCHANGED log
      /\ Show(FoldAll(Store, New(Head(toClient).seqs)))
  BY DEF ReceiveEvents, Receiving, Taken, serverVars
<1>2. Head(toClient) = toClient[1] /\ 1 \in DOMAIN toClient
  BY <1>1, QueueShrinks
<1>3. toClient[1].t = "event" /\ toClient[1].seqs \subseteq 1 .. Len(log)
  BY <1>1, <1>2 DEF SyncInv, QueueOK, Fine
<1>4. PICK S : S = {i \in toClient[1].seqs : i > lastSeq}
  OBVIOUS
<1>5. PICK v : v = FoldAll(Store, S)
  OBVIOUS
<1>6. /\ rail' = v.rail /\ selected' = v.selected
      /\ lastSeq' = v.lastSeq /\ folded' = v.folded
  <2>1. New(Head(toClient).seqs) = S
    BY <1>2, <1>4 DEF New
  <2>. QED BY <1>1, <1>5, <2>1 DEF Show
<1>7. S \in SUBSET (1 .. Len(log)) /\ \A i \in S : i > lastSeq
  BY <1>3, <1>4
<1>8. /\ Store \in Stores /\ Rising(Store) /\ Store.lastSeq = lastSeq
      /\ Store.folded = folded /\ Logged
  BY StoreFacts DEF SyncInv, Types
<1>9. /\ v \in Stores /\ Rising(v)
      /\ \A i \in S \cup ToSet(folded) : i \in ToSet(v.folded)
      /\ v.lastSeq \in {lastSeq} \cup S /\ v.lastSeq >= lastSeq
      /\ \A i \in S : v.lastSeq >= i
  BY <1>5, <1>7, <1>8, FoldAllFacts
<1>10. lastSeq <= v.lastSeq /\ \A i \in S : i <= v.lastSeq
  <2>1. lastSeq \in Nat /\ v.lastSeq \in Nat /\ \A i \in S : i \in Nat
    BY <1>7, <1>8, <1>9 DEF Stores
  <2>. QED BY <1>9, <2>1
<1>. QED BY <1>3, <1>4, <1>5, <1>6, <1>7, <1>9, <1>10

LEMMA EventsSync ==
  ASSUME SyncInv, ReceiveEvents
  PROVE  SyncInv'
<1>1. /\ ws \in {"open", "dead"} /\ toClient # <<>> /\ toClient' = Tail(toClient)
      /\ UNCHANGED <<log, specs, deleting, removing, up, subs, toServer, armedAt, ws, outbox, status>>
  BY DEF ReceiveEvents, Receiving, Taken, serverVars
<1>2. toClient' \in Seq(ServerMessages) /\ QueueOK'
  BY <1>1, QueueShrinks
<1>3. PICK S \in SUBSET (1 .. Len(log)) :
        /\ FoldAll(Store, S) \in Stores
        /\ rail' = FoldAll(Store, S).rail /\ selected' = FoldAll(Store, S).selected
        /\ lastSeq' = FoldAll(Store, S).lastSeq /\ folded' = FoldAll(Store, S).folded
        /\ Rising(FoldAll(Store, S))
        /\ lastSeq' \in {lastSeq} \cup S
  BY BatchFacts
<1>4. PICK v \in Stores : v = FoldAll(Store, S)
  BY <1>3
<1>5. Rising(Store)'
  BY <1>3, <1>4 DEF Rising, Store
<1>6. lastSeq' \in 0 .. LatestSeq(log)' /\ LatestSeq(log)' = LatestSeq(log)
  <2>1. LatestSeq(log)' = LatestSeq(log)
    BY <1>1 DEF LatestSeq
  <2>2. Len(log) \in Nat /\ LatestSeq(log) = Len(log) /\ lastSeq \in 0 .. Len(log)
    BY StoreFacts DEF SyncInv
  <2>. QED BY <1>3, <2>1, <2>2
<1>7. rail' \subseteq Flows /\ selected' \in Flows \cup {None} /\ folded' \in Seq(Nat)
  BY <1>3, <1>4 DEF Stores
<1>8. Types'
  BY <1>1, <1>2, <1>5, <1>6, <1>7 DEF SyncInv, Types, ClientTypeOK, Logged
<1>. QED BY <1>1, <1>2, <1>8 DEF SyncInv, Linked

(* The user *)

LEMMA SendFacts ==
  ASSUME SyncInv, NEW c \in ClientCommands, Send(c)
  PROVE  /\ toServer' \in Seq(ClientCommands) /\ outbox' \in Seq(ClientCommands)
         /\ toServer' # <<>> => ws = "open"
         /\ \A x : (\E p \in DOMAIN toServer : toServer[p] = x)
                     => \E p \in DOMAIN toServer' : toServer'[p] = x
         /\ ws = "open" => \E p \in DOMAIN toServer' : toServer'[p] = c
<1>1. toServer \in Seq(ClientCommands) /\ outbox \in Seq(ClientCommands)
  BY DEF SyncInv, Types, ClientTypeOK
<1>2. /\ toServer' = IF ws = "open" THEN Append(toServer, c) ELSE toServer
      /\ outbox' = IF ws \in {"open", "dead"} THEN outbox ELSE Append(outbox, c)
  BY DEF Send
<1>3. toServer # <<>> => ws = "open"
  BY DEF SyncInv, Linked
<1>4. outbox' \in Seq(ClientCommands)
  BY <1>1, <1>2, AppendProperties
<1>5. /\ Append(toServer, c) \in Seq(ClientCommands)
      /\ \A p \in DOMAIN toServer : /\ p \in DOMAIN Append(toServer, c)
                                    /\ Append(toServer, c)[p] = toServer[p]
      /\ Len(toServer) + 1 \in DOMAIN Append(toServer, c)
      /\ Append(toServer, c)[Len(toServer) + 1] = c
  <2>1. /\ Len(toServer) \in Nat /\ DOMAIN Append(toServer, c) = 1 .. Len(toServer) + 1
        /\ Append(toServer, c) \in Seq(ClientCommands)
        /\ \A p \in DOMAIN toServer : /\ p \in DOMAIN Append(toServer, c)
                                      /\ Append(toServer, c)[p] = toServer[p]
        /\ Append(toServer, c)[Len(toServer) + 1] = c
    BY <1>1, AppendFacts
  <2>. QED BY <2>1
<1>6. CASE ws = "open"
  <2>1. toServer' = Append(toServer, c)
    BY <1>2, <1>6
  <2>. QED BY <1>4, <1>5, <1>6, <2>1
<1>7. CASE ws # "open"
  <2>1. toServer' = toServer
    BY <1>2, <1>7
  <2>. QED BY <1>1, <1>3, <1>4, <1>7, <2>1
<1>. QED BY <1>6, <1>7

LEMMA ClickSync ==
  ASSUME SyncInv,
         SubscribeNode \/ \E f \in Flows : SelectFlow(f) \/ DeleteFlow(f)
  PROVE  SyncInv'
<1>0. /\ Store \in Stores /\ lastSeq \in 0 .. MaxLog
      /\ toServer \in Seq(ClientCommands) /\ outbox \in Seq(ClientCommands)
  BY StoreFacts, ClientAssumption DEF SyncInv, Types, ClientTypeOK
<1>1. ASSUME UNCHANGED <<log, specs, deleting, removing, up, subs, toClient, armedAt, ws, status,
                         lastSeq, folded>>,
             rail' \subseteq Flows, selected' \in Flows \cup {None},
             toServer' \in Seq(ClientCommands), outbox' \in Seq(ClientCommands),
             toServer' # <<>> => ws = "open"
      PROVE  SyncInv'
  <2>1. Types'
    BY <1>1 DEF SyncInv, Types, ClientTypeOK, Logged, Rising, Store
  <2>2. QueueOK'
    BY <1>1 DEF SyncInv, QueueOK
  <2>. QED BY <1>1, <2>1, <2>2 DEF SyncInv, Linked
<1>2. CASE SubscribeNode
  <2>1. /\ selected # None /\ Send(NodeSubscribe(selected))
        /\ UNCHANGED <<log, specs, deleting, removing, up, subs, toClient, armedAt, ws, status,
                       lastSeq, folded, rail, selected>>
    BY <1>2 DEF SubscribeNode, serverVars
  <2>2. NodeSubscribe(selected) \in ClientCommands
    BY <2>1, ClientMakes DEF SyncInv, Types, ClientTypeOK
  <2>3. /\ toServer' \in Seq(ClientCommands) /\ outbox' \in Seq(ClientCommands)
        /\ toServer' # <<>> => ws = "open"
    BY <2>1, <2>2, SendFacts
  <2>4. rail' \subseteq Flows /\ selected' \in Flows \cup {None}
    BY <2>1 DEF SyncInv, Types, ClientTypeOK
  <2>. QED BY <1>1, <2>1, <2>3, <2>4
<1>3. ASSUME NEW f \in Flows, SelectFlow(f) PROVE SyncInv'
  <2>1. /\ selected' = f
        /\ Send(Subscribe(f, lastSeq)) \/ UNCHANGED <<toServer, outbox>>
        /\ UNCHANGED <<log, specs, deleting, removing, up, subs, toClient, armedAt, ws, status,
                       lastSeq, folded, rail>>
    BY <1>3 DEF SelectFlow, serverVars
  <2>2. Subscribe(f, lastSeq) \in ClientCommands
    BY <1>0, ClientMakes
  <2>3. /\ toServer' \in Seq(ClientCommands) /\ outbox' \in Seq(ClientCommands)
        /\ toServer' # <<>> => ws = "open"
    <3>1. CASE Send(Subscribe(f, lastSeq))
      BY <2>2, <3>1, SendFacts
    <3>2. CASE UNCHANGED <<toServer, outbox>>
      BY <1>0, <3>2 DEF SyncInv, Linked
    <3>. QED BY <2>1, <3>1, <3>2
  <2>4. rail' \subseteq Flows /\ selected' \in Flows \cup {None}
    BY <2>1 DEF SyncInv, Types, ClientTypeOK
  <2>. QED BY <1>1, <2>1, <2>3, <2>4
<1>4. ASSUME NEW f \in Flows, DeleteFlow(f) PROVE SyncInv'
  <2>1. PICK v : v = foldEvent(Store, [type |-> "flow.removed", flow |-> f])
    OBVIOUS
  <2>2. [type |-> "flow.removed", flow |-> f] \in LogEvents
    BY DEF LogEvents
  <2>3. v \in Stores /\ v.lastSeq = lastSeq /\ v.folded = folded
    BY <1>0, <2>1, <2>2, FoldEventFacts, StoreFacts DEF SyncInv
  <2>4. /\ rail' = v.rail /\ selected' = v.selected
        /\ lastSeq' = v.lastSeq /\ folded' = v.folded
        /\ Send(Delete(f))
        /\ UNCHANGED <<log, specs, deleting, removing, up, subs, toClient, armedAt, ws, status>>
    BY <1>4, <2>1 DEF DeleteFlow, Show, serverVars
  <2>5. /\ toServer' \in Seq(ClientCommands) /\ outbox' \in Seq(ClientCommands)
        /\ toServer' # <<>> => ws = "open"
    BY <2>4, ClientMakes, SendFacts
  <2>6. rail' \subseteq Flows /\ selected' \in Flows \cup {None}
    BY <2>3, <2>4 DEF Stores
  <2>. QED BY <1>1, <2>3, <2>4, <2>5, <2>6
<1>. QED BY <1>2, <1>3, <1>4

LEMMA SyncStep ==
  ASSUME SyncInv, Existing, [Next]_vars
  PROVE  SyncInv'
<1>1. CASE UNCHANGED vars
  <2>1. UNCHANGED <<log, specs, deleting, removing, up, subs, toClient, toServer, armedAt, ws, status,
                    lastSeq, rail, selected, outbox, folded>>
    BY <1>1 DEF vars, serverVars, socketVars, clientVars
  <2>. QED BY <2>1 DEF SyncInv, Types, ClientTypeOK, Logged, Rising, Store, QueueOK, Linked
<1>2. CASE EngineEmits \/ \E f \in Flows : DeleteElsewhere(f) \/ DropSpec(f) \/ EmitRemoved(f)
  BY <1>2, EngineSync
<1>3. CASE BridgeNext
  BY <1>3, AcceptSync, CommandSync DEF BridgeNext
<1>4. CASE SocketNext \/ Drop
  BY <1>4, SocketSync, DropSync
<1>5. CASE StoreNext
  BY <1>5, HelloSync, SnapshotSync, EventsSync DEF StoreNext
<1>6. CASE SubscribeNode \/ \E f \in Flows : SelectFlow(f) \/ DeleteFlow(f)
  BY <1>6, ClickSync
<1>. QED BY <1>1, <1>2, <1>3, <1>4, <1>5, <1>6 DEF Next

LEMMA SyncInit ==
  ASSUME Init PROVE SyncInv
<1>1. /\ log = <<>> /\ specs = Flows /\ deleting = {} /\ removing = {} /\ up = FALSE /\ subs = {}
      /\ toClient = <<>> /\ toServer = <<>> /\ armedAt = [f \in Flows |-> -1]
      /\ ws = "none" /\ status = "offline" /\ lastSeq = 0 /\ rail = {}
      /\ selected = None /\ outbox = <<>> /\ folded = <<>>
  BY DEF Init
<1>2. /\ <<>> \in Seq(ClientCommands) /\ <<>> \in Seq(ServerMessages)
      /\ <<>> \in Seq(LogEvents) /\ <<>> \in Seq(Nat)
      /\ Len(<<>>) = 0 /\ DOMAIN <<>> = {} /\ -1 \in -1 .. MaxLog
  BY ClientAssumption
<1>3. ClientTypeOK
  BY <1>1, <1>2 DEF ClientTypeOK, LatestSeq
<1>4. Types
  <2>1. Rising(Store)
    BY <1>1, <1>2 DEF Rising, Store
  <2>2. Len(log) <= MaxLog
    BY <1>1, <1>2, ClientAssumption
  <2>. QED BY <1>1, <1>2, <1>3, <2>1, <2>2 DEF Types, Logged
<1>. QED BY <1>1, <1>2, <1>4 DEF SyncInv, QueueOK, Linked

----------------------------------------------------------------------------
(* The live tail: what a flow's subscription promises is folded or on its   *)
(* way.                                                                    *)

Armed ==
  /\ \A f \in subs : armedAt[f] \in 0 .. Len(log)
  /\ \A f \in Flows \ subs : armedAt[f] = -1
  /\ subs # {} => ws = "open"

(* A message of the queue carries event i, and nothing before it moves the  *)
(* cursor to i.                                                            *)
Below(m, i) ==
  /\ m.t = "event" => \A j \in m.seqs : j < i
  /\ m.t = "hello" => m.sinceSeq < i

Carries(q, p, i) ==
  /\ p \in DOMAIN q /\ q[p].t = "event" /\ i \in q[p].seqs
  /\ \A k \in DOMAIN q : k < p => Below(q[k], i)

Awaited(i) == lastSeq < i /\ \E p \in DOMAIN toClient : Carries(toClient, p, i)

Concerns(e, f) == HasFlow(e) => e.flow = f

NoGap ==
  \A f \in subs : \A i \in 1 .. Len(log) :
    armedAt[f] < i /\ Concerns(log[i], f) => i \in FoldedSet \/ Awaited(i)

TailInv == Armed /\ NoGap

LEMMA CarriedOn ==
  ASSUME SyncInv, NEW o, Sends(o), NEW i, NEW p, Carries(toClient, p, i)
  PROVE  Carries(toClient', p, i)
<1>0. toClient \in Seq(ServerMessages) /\ o \in Seq(ServerMessages) /\ toClient' = toClient \o o
  BY DEF SyncInv, Types, ClientTypeOK, Sends
<1>1. /\ DOMAIN toClient = 1 .. Len(toClient)
      /\ \A k \in DOMAIN toClient : k \in DOMAIN toClient' /\ toClient'[k] = toClient[k]
      /\ \A k \in DOMAIN toClient' :
           k \in DOMAIN toClient \/ \E x \in DOMAIN o : k = Len(toClient) + x
      /\ DOMAIN o = 1 .. Len(o) /\ Len(toClient) \in Nat /\ Len(o) \in Nat
  BY <1>0, Concatenation
<1>2. p \in DOMAIN toClient
  BY DEF Carries
<1>3. \A k \in DOMAIN toClient' : k < p => k \in DOMAIN toClient
  BY <1>1, <1>2
<1>. QED BY <1>1, <1>2, <1>3 DEF Carries

(* An event that is relayed is awaited: what was sent before is older.      *)
LEMMA RelayAwaited ==
  ASSUME SyncInv, NEW o, Sends(o), NEW i, i = Len(log) + 1,
         \A k \in DOMAIN o : o[k] = Batch({i}),
         \E k \in DOMAIN o : o[k] = Batch({i})
  PROVE  Carries(toClient', Len(toClient) + 1, i)
<1>0. toClient \in Seq(ServerMessages) /\ o \in Seq(ServerMessages) /\ toClient' = toClient \o o
  BY DEF SyncInv, Types, ClientTypeOK, Sends
<1>1. /\ DOMAIN toClient = 1 .. Len(toClient) /\ Len(toClient) \in Nat
      /\ \A k \in DOMAIN toClient : k \in DOMAIN toClient' /\ toClient'[k] = toClient[k]
      /\ \A k \in DOMAIN o : /\ Len(toClient) + k \in DOMAIN toClient'
                             /\ toClient'[Len(toClient) + k] = o[k]
      /\ \A k \in DOMAIN toClient' :
           k \in DOMAIN toClient \/ \E x \in DOMAIN o : k = Len(toClient) + x
      /\ DOMAIN o = 1 .. Len(o) /\ Len(o) \in Nat
  BY <1>0, Concatenation
<1>2. 1 \in DOMAIN o
  BY <1>1
<1>3. PICK p : p = Len(toClient) + 1
  OBVIOUS
<1>4. p \in DOMAIN toClient' /\ toClient'[p] = Batch({i})
  BY <1>1, <1>2, <1>3
<1>5. \A k \in DOMAIN toClient' : k < p => k \in DOMAIN toClient /\ toClient'[k] = toClient[k]
  BY <1>1, <1>3
<1>6. ASSUME NEW k \in DOMAIN toClient PROVE Below(toClient[k], i)
  <2>1. Fine(toClient[k], lastSeq, Len(log), specs)
    BY DEF SyncInv, QueueOK
  <2>2. Len(log) \in Nat
    BY StoreFacts DEF SyncInv
  <2>. QED BY <2>1, <2>2 DEF Fine, Below
<1>. QED BY <1>3, <1>4, <1>5, <1>6 DEF Carries, Batch

(* The client takes one message: an awaited event is folded or stays        *)
(* awaited, one place nearer.                                              *)
LEMMA TakenCarries ==
  ASSUME SyncInv, StoreNext, NEW i \in 1 .. Len(log), lastSeq < i,
         NEW p \in DOMAIN toClient, Carries(toClient, p, i)
  PROVE  \/ p = 1 /\ ReceiveEvents
         \/ p # 1 /\ lastSeq' < i /\ Carries(toClient', p - 1, i)
<1>1. toClient # <<>> /\ toClient' = Tail(toClient) /\ UNCHANGED log
  BY DEF StoreNext, ReceiveHello, ReceiveSnapshot, ReceiveEvents, Receiving, Taken,
         serverVars
<1>2. /\ \A k \in DOMAIN toClient' :
           /\ k \in 1 .. Len(toClient) - 1 /\ k + 1 \in DOMAIN toClient
           /\ toClient'[k] = toClient[k + 1]
      /\ \A k \in DOMAIN toClient : k = 1 \/ k - 1 \in DOMAIN toClient'
      /\ DOMAIN toClient = 1 .. Len(toClient) /\ Len(toClient) \in Nat
      /\ 1 \in DOMAIN toClient /\ Head(toClient) = toClient[1]
  BY <1>1, QueueShrinks
<1>3. CASE p = 1
  <2>1. Head(toClient).t = "event"
    BY <1>2, <1>3 DEF Carries
  <2>2. ReceiveEvents
    BY <2>1 DEF StoreNext, ReceiveHello, ReceiveSnapshot, Receiving
  <2>. QED BY <1>3, <2>2
<1>4. CASE p # 1
  <2>1. p - 1 \in DOMAIN toClient' /\ toClient'[p - 1] = toClient[p]
    BY <1>2, <1>4
  <2>2. \A k \in DOMAIN toClient' : k < p - 1 => k + 1 \in DOMAIN toClient /\ k + 1 < p
    BY <1>2
  <2>3. Carries(toClient', p - 1, i)
    BY <1>2, <2>1, <2>2 DEF Carries
  <2>4. Below(toClient[1], i)
    BY <1>2, <1>4 DEF Carries
  <2>5. CASE ReceiveHello
    BY <1>2, <2>3, <2>4, <2>5, <1>4 DEF ReceiveHello, Receiving, Below
  <2>6. CASE ReceiveSnapshot
    BY <2>3, <2>6, <1>4 DEF ReceiveSnapshot
  <2>7. CASE ReceiveEvents
    <3>1. PICK S \in SUBSET (1 .. Len(log)) :
            /\ S = {j \in toClient[1].seqs : j > lastSeq}
            /\ toClient[1].t = "event" /\ lastSeq' \in {lastSeq} \cup S
      BY <2>7, BatchFacts
    <3>2. \A j \in S : j < i
      BY <2>4, <3>1 DEF Below
    <3>. QED BY <1>4, <2>3, <3>1, <3>2
  <2>. QED BY <2>5, <2>6, <2>7 DEF StoreNext
<1>. QED BY <1>3, <1>4

LEMMA TailFrame ==
  ASSUME TailInv, UNCHANGED <<log, subs, armedAt, lastSeq, folded, toClient>>,
         subs' # {} => ws' = "open"
  PROVE  TailInv'
BY DEF TailInv, Armed, NoGap, FoldedSet, Awaited

LEMMA TailEmit ==
  ASSUME SyncInv, TailInv, NEW e \in LogEvents, Emit(e)
  PROVE  TailInv'
<1>1. /\ Len(log) \in Nat /\ Len(log') = Len(log) + 1
      /\ \A i \in 1 .. Len(log) : log'[i] = log[i]
      /\ log'[Len(log) + 1] = e
  BY EmitFacts
<1>2. PICK o : /\ Sends(o) /\ \A k \in DOMAIN o : o[k] = Batch({Len(log) + 1})
               /\ up /\ subs # {} /\ (HasFlow(e) => e.flow \in subs) =>
                    \E k \in DOMAIN o : o[k] = Batch({Len(log) + 1})
  BY EmitFacts
<1>3. UNCHANGED <<up, subs, armedAt, lastSeq, folded, ws>>
  BY DEF Emit, clientVars
<1>4. Armed'
  <2>1. \A f \in subs : armedAt[f] \in 0 .. Len(log')
    BY <1>1 DEF TailInv, Armed
  <2>. QED BY <1>3, <2>1 DEF TailInv, Armed
<1>5. NoGap'
  <2>. SUFFICES ASSUME NEW f \in subs, NEW i \in 1 .. Len(log'), armedAt[f] < i,
                       Concerns(log'[i], f)
                PROVE  i \in ToSet(folded) \/ Awaited(i)'
    BY <1>3 DEF NoGap, FoldedSet
  <2>1. CASE i \in 1 .. Len(log)
    <3>1. i \in ToSet(folded) \/ Awaited(i)
      BY <1>1, <2>1 DEF TailInv, NoGap, FoldedSet
    <3>2. ASSUME NEW p \in DOMAIN toClient, Carries(toClient, p, i)
          PROVE  Carries(toClient', p, i)
      BY <1>2, <3>2, CarriedOn
    <3>. QED BY <1>3, <3>1, <3>2 DEF Awaited, Carries
  <2>2. CASE i \notin 1 .. Len(log)
    <3>1. i = Len(log) + 1 /\ Concerns(e, f)
      BY <1>1, <2>2
    <3>2. up
      BY DEF TailInv, Armed, SyncInv, Linked
    <3>3. HasFlow(e) => e.flow \in subs
      BY <3>1 DEF Concerns
    <3>4. \E k \in DOMAIN o : o[k] = Batch({Len(log) + 1})
      BY <1>2, <3>2, <3>3
    <3>5. Carries(toClient', Len(toClient) + 1, i)
      BY <1>2, <3>1, <3>4, RelayAwaited
    <3>6. lastSeq < i
      BY <1>1, <3>1, StoreFacts DEF SyncInv
    <3>. QED BY <1>3, <3>5, <3>6 DEF Awaited, Carries
  <2>. QED BY <2>1, <2>2
<1>. QED BY <1>4, <1>5 DEF TailInv

LEMMA TailCommand ==
  ASSUME SyncInv, TailInv, HandleCommand
  PROVE  TailInv'
<1>1. PICK o : Sends(o)
  BY CommandFacts
<1>2. /\ \/ subs' = subs /\ armedAt' = armedAt
         \/ \E f \in Flows \ subs : /\ subs' = subs \cup {f}
                                    /\ armedAt' = [armedAt EXCEPT ![f] = Len(log)]
      /\ toServer # <<>> /\ UNCHANGED <<log, up, clientVars>>
  BY CommandFacts
<1>3. UNCHANGED <<log, ws, lastSeq, folded>> /\ ws = "open"
  BY <1>2 DEF clientVars, SyncInv, Linked
<1>4. armedAt \in [Flows -> -1 .. MaxLog] /\ subs \subseteq Flows /\ Len(log) \in Nat
  BY StoreFacts DEF SyncInv, Types, ClientTypeOK
<1>. DEFINE Kept(f) == /\ armedAt'[f] \in 0 .. Len(log)
                       /\ (f \in subs /\ armedAt'[f] = armedAt[f]) \/ armedAt'[f] = Len(log)
<1>5. (\A f \in subs' : Kept(f)) /\ (\A f \in Flows \ subs' : armedAt'[f] = -1)
  <2>1. CASE subs' = subs /\ armedAt' = armedAt
    BY <2>1 DEF TailInv, Armed
  <2>2. ASSUME NEW f \in Flows \ subs, subs' = subs \cup {f},
               armedAt' = [armedAt EXCEPT ![f] = Len(log)]
        PROVE  (\A g \in subs' : Kept(g)) /\ (\A g \in Flows \ subs' : armedAt'[g] = -1)
    BY <1>4, <2>2 DEF TailInv, Armed
  <2>. QED BY <1>2, <2>1, <2>2
<1>6. Armed'
  BY <1>3, <1>5 DEF Armed
<1>7. NoGap'
  <2>. SUFFICES ASSUME NEW f \in subs', NEW i \in 1 .. Len(log), armedAt'[f] < i,
                       Concerns(log[i], f)
                PROVE  i \in ToSet(folded) \/ Awaited(i)'
    BY <1>3 DEF NoGap, FoldedSet
  <2>1. f \in subs /\ armedAt'[f] = armedAt[f]
    BY <1>4, <1>5
  <2>2. i \in ToSet(folded) \/ Awaited(i)
    BY <2>1 DEF TailInv, NoGap, FoldedSet
  <2>3. ASSUME NEW p \in DOMAIN toClient, Carries(toClient, p, i)
        PROVE  Carries(toClient', p, i)
    BY <1>1, <2>3, CarriedOn
  <2>. QED BY <1>3, <2>2, <2>3 DEF Awaited, Carries
<1>. QED BY <1>6, <1>7 DEF TailInv

LEMMA TailStore ==
  ASSUME SyncInv, TailInv, StoreNext
  PROVE  TailInv'
<1>1. UNCHANGED <<log, subs, armedAt, ws>>
  BY DEF StoreNext, ReceiveHello, ReceiveSnapshot, ReceiveEvents, Taken, serverVars
<1>2. Armed'
  BY <1>1 DEF TailInv, Armed
<1>3. ToSet(folded) \subseteq ToSet(folded')
  <2>1. CASE ReceiveEvents
    BY <2>1, BatchFacts
  <2>2. CASE ReceiveHello \/ ReceiveSnapshot
    BY <2>2 DEF ReceiveHello, ReceiveSnapshot
  <2>. QED BY <2>1, <2>2 DEF StoreNext
<1>4. NoGap'
  <2>. SUFFICES ASSUME NEW f \in subs, NEW i \in 1 .. Len(log), armedAt[f] < i,
                       Concerns(log[i], f)
                PROVE  i \in ToSet(folded') \/ Awaited(i)'
    BY <1>1 DEF NoGap, FoldedSet
  <2>1. i \in ToSet(folded) \/ Awaited(i)
    BY DEF TailInv, NoGap, FoldedSet
  <2>2. CASE i \in ToSet(folded)
    BY <1>3, <2>2
  <2>3. CASE Awaited(i)
    <3>1. PICK p \in DOMAIN toClient : Carries(toClient, p, i)
      BY <2>3 DEF Awaited
    <3>2. lastSeq < i
      BY <2>3 DEF Awaited
    <3>3. \/ p = 1 /\ ReceiveEvents
          \/ p # 1 /\ lastSeq' < i /\ Carries(toClient', p - 1, i)
      BY <3>1, <3>2, TakenCarries
    <3>4. CASE p = 1 /\ ReceiveEvents
      <4>1. PICK S \in SUBSET (1 .. Len(log)) :
              /\ S = {j \in toClient[1].seqs : j > lastSeq}
              /\ \A j \in S \cup ToSet(folded) : j \in ToSet(folded')
        BY <3>4, BatchFacts
      <4>2. i \in S
        BY <3>1, <3>2, <3>4, <4>1, StoreFacts DEF Carries, SyncInv
      <4>. QED BY <4>1, <4>2
    <3>5. CASE p # 1 /\ lastSeq' < i /\ Carries(toClient', p - 1, i)
      BY <3>5 DEF Awaited, Carries
    <3>. QED BY <3>3, <3>4, <3>5
  <2>. QED BY <2>1, <2>2, <2>3
<1>. QED BY <1>2, <1>4 DEF TailInv

LEMMA TailStep ==
  ASSUME SyncInv, TailInv, [Next]_vars
  PROVE  TailInv'
<1>1. CASE UNCHANGED vars
  BY <1>1, TailFrame DEF vars, serverVars, socketVars, clientVars, TailInv, Armed
<1>2. CASE EngineEmits
  <2>1. PICK e \in Events : Emit(e)
    BY <1>2 DEF EngineEmits
  <2>2. e \in LogEvents
    BY DEF LogEvents
  <2>. QED BY <2>1, <2>2, TailEmit
<1>3. ASSUME NEW f \in Flows, EmitRemoved(f) PROVE TailInv'
  <2>1. Emit([type |-> "flow.removed", flow |-> f])
    BY <1>3 DEF EmitRemoved
  <2>2. [type |-> "flow.removed", flow |-> f] \in LogEvents
    BY DEF LogEvents
  <2>. QED BY <2>1, <2>2, TailEmit
<1>4. ASSUME NEW f \in Flows, DropSpec(f) \/ DeleteElsewhere(f) PROVE TailInv'
  BY <1>4, TailFrame DEF DropSpec, DeleteElsewhere, socketVars, clientVars, TailInv, Armed
<1>5. CASE Accept \/ Drop
  <2>1. subs' = {} /\ armedAt' = [f \in Flows |-> -1]
    BY <1>5 DEF Accept, Drop, Forgotten
  <2>. QED BY <2>1 DEF TailInv, Armed, NoGap
<1>6. CASE HandleCommand
  BY <1>6, TailCommand
<1>7. CASE SocketNext
  <2>1. UNCHANGED <<log, subs, armedAt, lastSeq, folded, toClient>>
    BY <1>7 DEF SocketNext, Connect, Opened, Closed, serverVars, socketVars
  <2>2. subs' # {} => ws' = "open"
    BY <1>7, <2>1 DEF SocketNext, Connect, Opened, Closed, TailInv, Armed
  <2>. QED BY <2>1, <2>2, TailFrame
<1>8. CASE StoreNext
  BY <1>8, TailStore
<1>9. CASE SubscribeNode
  BY <1>9, TailFrame DEF SubscribeNode, serverVars, TailInv, Armed
<1>10. ASSUME NEW f \in Flows, SelectFlow(f) PROVE TailInv'
  BY <1>10, TailFrame DEF SelectFlow, serverVars, TailInv, Armed
<1>11. ASSUME NEW f \in Flows, DeleteFlow(f) PROVE TailInv'
  <2>1. PICK v : v = foldEvent(Store, [type |-> "flow.removed", flow |-> f])
    OBVIOUS
  <2>2. [type |-> "flow.removed", flow |-> f] \in LogEvents
    BY DEF LogEvents
  <2>3. v.lastSeq = lastSeq /\ v.folded = folded
    BY <2>1, <2>2, FoldEventFacts, StoreFacts DEF SyncInv
  <2>4. UNCHANGED <<log, subs, armedAt, lastSeq, folded, toClient, ws>>
    BY <1>11, <2>1, <2>3 DEF DeleteFlow, Show, serverVars
  <2>. QED BY <2>4, TailFrame DEF TailInv, Armed
<1>. QED BY <1>1, <1>2, <1>3, <1>4, <1>5, <1>6, <1>7, <1>8, <1>9, <1>10, <1>11
     DEF Next, BridgeNext

LEMMA TailInit ==
  ASSUME Init PROVE TailInv
BY DEF Init, TailInv, Armed, NoGap

----------------------------------------------------------------------------
(* The rail.  A flow that exists was never removed, and a client that has    *)
(* had its hello lists it, unless its deletion is under way.               *)

Standing ==
  /\ specs \cap removing = {}
  /\ \A f \in Flows : f \notin specs /\ f \notin removing => Removed(log, f)
  /\ \A f \in specs : \A i \in 1 .. Len(log) : ~ Is(i, f, "flow.removed")

Greeted == ws = "open" /\ \A p \in DOMAIN toClient : toClient[p].t # "hello"

Asked(f) == f \in deleting \/ \E p \in DOMAIN toServer : toServer[p] = Delete(f)

Listed == Greeted => \A f \in specs : f \in rail \/ Asked(f)

(* The removal of a subscribed flow, when nothing of it comes after, has     *)
(* been folded and nothing brings the flow back, or it is on its way.      *)
LastRemoval(i, f) ==
  /\ Is(i, f, "flow.removed")
  /\ \A j \in 1 .. Len(log) : j > i => ~ Is(j, f, "flow.upserted")

Gone(i, f) ==
  /\ i <= lastSeq /\ f \notin rail /\ selected # f
  /\ \A p \in DOMAIN toClient : toClient[p].t # "hello" /\ toClient[p] # Snapshot(f)

Going(i, f) ==
  /\ lastSeq < i
  /\ \E p \in DOMAIN toClient :
       /\ Carries(toClient, p, i)
       /\ \A k \in DOMAIN toClient : k > p => toClient[k] # Snapshot(f)

GoneOrGoing ==
  \A f \in subs : \A i \in 1 .. Len(log) :
    armedAt[f] < i /\ LastRemoval(i, f) => Gone(i, f) \/ Going(i, f)

RailInv == Standing /\ Listed /\ GoneOrGoing

ClientInv == SyncInv /\ TailInv /\ RailInv

Rails == {"flow.upserted", "flow.removed"}

(* The last event of a flow decides whether it is removed. *)
LEMMA LastPlace ==
  ASSUME NEW l \in Seq(LogEvents), NEW f, Places(l, f, Rails) # {}
  PROVE  \E m \in Places(l, f, Rails) :
           /\ \A i \in Places(l, f, Rails) : i <= m
           /\ Removed(l, f) <=> l[m].type = "flow.removed"
<1>1. PICK I : I = Places(l, f, Rails)
  OBVIOUS
<1>2. I \in SUBSET (DOMAIN l) /\ I # {}
  BY <1>1 DEF Places
<1>3. Max(I) \in I /\ \A i \in I : Max(I) >= i
  BY <1>2, LargestPlace
<1>4. \A i \in I : i \in Nat
  BY <1>2, LenProperties
<1>5. Removed(l, f) <=> l[Max(I)].type = "flow.removed"
  BY <1>1, <1>2 DEF Removed, Rails
<1>6. \A i \in I : i <= Max(I)
  BY <1>3, <1>4
<1>. QED BY <1>1, <1>3, <1>5, <1>6

LEMMA RemovedIsPlaced ==
  ASSUME NEW l \in Seq(LogEvents), NEW f, Removed(l, f)
  PROVE  \E i \in DOMAIN l : l[i].type = "flow.removed" /\ l[i].flow = f
<1>1. Places(l, f, Rails) # {}
  BY DEF Removed, Rails
<1>2. PICK m \in Places(l, f, Rails) : l[m].type = "flow.removed"
  BY <1>1, LastPlace
<1>. QED BY <1>2 DEF Places

LEMMA StandingExist ==
  ASSUME Types, Standing PROVE Existing
<1>. SUFFICES ASSUME NEW f \in specs, Removed(log, f) PROVE FALSE
  BY DEF Existing
<1>1. log \in Seq(LogEvents) /\ DOMAIN log = 1 .. Len(log)
  BY LogFacts DEF Types, Logged
<1>2. PICK i \in DOMAIN log : log[i].type = "flow.removed" /\ log[i].flow = f
  BY <1>1, RemovedIsPlaced
<1>. QED BY <1>1, <1>2 DEF Standing, Is

LEMMA RemovedAppend ==
  ASSUME NEW l \in Seq(LogEvents), NEW e \in LogEvents, NEW m \in Seq(LogEvents),
         Len(m) = Len(l) + 1, \A i \in 1 .. Len(l) : m[i] = l[i], m[Len(l) + 1] = e,
         NEW f
  PROVE  Removed(m, f) <=> IF e.type \in Rails /\ e.flow = f THEN e.type = "flow.removed"
                           ELSE Removed(l, f)
<1>0. /\ Len(l) \in Nat /\ DOMAIN l = 1 .. Len(l) /\ DOMAIN m = 1 .. Len(l) + 1
      /\ \A i \in DOMAIN m : i \in DOMAIN l \/ i = Len(l) + 1
      /\ Len(l) + 1 \in DOMAIN m
  <2>1. Len(l) \in Nat /\ DOMAIN l = 1 .. Len(l) /\ DOMAIN m = 1 .. Len(m)
    BY LenProperties
  <2>. QED BY <2>1
<1>. DEFINE I == Places(l, f, Rails)
            J == Places(m, f, Rails)
<1>1. CASE e.type \in Rails /\ e.flow = f
  <2>1. Len(l) + 1 \in J
    BY <1>0, <1>1 DEF Places
  <2>2. PICK x \in J : (\A i \in J : i <= x) /\ (Removed(m, f) <=> m[x].type = "flow.removed")
    BY <2>1, LastPlace
  <2>3. x \in 1 .. Len(l) + 1
    BY <1>0 DEF Places
  <2>. HIDE DEF J
  <2>4. x = Len(l) + 1
    BY <1>0, <2>1, <2>2, <2>3
  <2>. QED BY <1>1, <2>2, <2>4
<1>2. CASE ~ (e.type \in Rails /\ e.flow = f)
  <2>1. I \subseteq J
    BY <1>0 DEF Places
  <2>2. J \subseteq I
    BY <1>0, <1>2 DEF Places
  <2>3. I = J
    BY <2>1, <2>2
  <2>4. CASE I = {}
    BY <1>2, <2>3, <2>4 DEF Removed, Rails
  <2>5. CASE I # {}
    <3>1. PICK x \in I : (\A i \in I : i <= x) /\ (Removed(l, f) <=> l[x].type = "flow.removed")
      BY <2>5, LastPlace
    <3>2. PICK y \in J : (\A i \in J : i <= y) /\ (Removed(m, f) <=> m[y].type = "flow.removed")
      BY <2>3, <2>5, LastPlace
    <3>3. x \in 1 .. Len(l) /\ y \in 1 .. Len(l)
      BY <1>0, <2>3 DEF Places
    <3>. HIDE DEF I, J
    <3>4. x = y
      BY <1>0, <2>3, <3>1, <3>2, <3>3
    <3>. QED BY <1>2, <3>1, <3>2, <3>3, <3>4
  <2>. QED BY <2>4, <2>5
<1>. QED BY <1>1, <1>2

(* What is sent between two hellos does not bring a flow back that is gone. *)
LEMMA SentNothingOf ==
  ASSUME SyncInv, NEW o, Sends(o), NEW f,
         f \notin specs \/ \A g \in specs : \A k \in DOMAIN o : o[k] # Snapshot(g)
  PROVE  /\ \A k \in DOMAIN toClient' :
              \/ k \in DOMAIN toClient /\ toClient'[k] = toClient[k]
              \/ toClient'[k].t # "hello" /\ toClient'[k] # Snapshot(f)
         /\ \A k \in DOMAIN toClient : k \in DOMAIN toClient' /\ toClient'[k] = toClient[k]
<1>0. toClient \in Seq(ServerMessages) /\ o \in Seq(ServerMessages) /\ toClient' = toClient \o o
  BY DEF SyncInv, Types, ClientTypeOK, Sends
<1>1. /\ \A k \in DOMAIN toClient : k \in DOMAIN toClient' /\ toClient'[k] = toClient[k]
      /\ \A k \in DOMAIN o : toClient'[Len(toClient) + k] = o[k]
      /\ \A k \in DOMAIN toClient' :
           k \in DOMAIN toClient \/ \E x \in DOMAIN o : k = Len(toClient) + x
  BY <1>0, Concatenation
<1>2. ASSUME NEW k \in DOMAIN o PROVE o[k].t # "hello" /\ o[k] # Snapshot(f)
  <2>1. CASE \E S \in SUBSET (1 .. Len(log')) : o[k] = Batch(S)
    BY <2>1 DEF Batch, Snapshot
  <2>2. ASSUME NEW g \in specs, o[k] = Snapshot(g)
        PROVE  o[k].t # "hello" /\ o[k] # Snapshot(f)
    <3>1. f # g
      BY <2>2
    <3>. QED BY <2>2, <3>1 DEF Snapshot
  <2>. QED BY <2>1, <2>2 DEF Sends
<1>. QED BY <1>1, <1>2

LEMMA RailEmit ==
  ASSUME SyncInv, TailInv, RailInv, NEW e \in LogEvents, Emit(e), specs' = specs, deleting' = deleting,
         \/ /\ removing' = removing /\ e.type # "flow.removed"
            /\ e.type = "flow.upserted" => e.flow \in specs \cup removing
         \/ \E f \in removing : /\ e.type = "flow.removed" /\ e.flow = f
                                /\ removing' = removing \ {f}
  PROVE  RailInv'
<1>1. /\ log' \in Seq(LogEvents) /\ Len(log) \in Nat /\ Len(log') = Len(log) + 1
      /\ \A i \in 1 .. Len(log) : log'[i] = log[i]
      /\ log'[Len(log) + 1] = e
  BY EmitFacts
<1>2. PICK o : /\ Sends(o) /\ \A k \in DOMAIN o : o[k] = Batch({Len(log) + 1})
               /\ up /\ subs # {} /\ (HasFlow(e) => e.flow \in subs) =>
                    \E k \in DOMAIN o : o[k] = Batch({Len(log) + 1})
  BY EmitFacts
<1>3. UNCHANGED <<up, subs, armedAt, toServer, lastSeq, folded, ws, rail, selected>>
  BY DEF Emit, clientVars
<1>4. \A i \in 1 .. Len(log) : \A f : \A t : Is(i, f, t)' <=> Is(i, f, t)
  BY <1>1 DEF Is
<1>5. Standing'
  <2>1. specs \cap removing' = {}
    BY DEF RailInv, Standing
  <2>2. ASSUME NEW f \in Flows, f \notin specs, f \notin removing'
        PROVE  Removed(log', f)
    <3>1. log \in Seq(LogEvents)
      BY DEF SyncInv, Types, Logged
    <3>2. Removed(log', f) <=> IF e.type \in Rails /\ e.flow = f THEN e.type = "flow.removed"
                               ELSE Removed(log, f)
      BY <1>1, <3>1, RemovedAppend
    <3>3. CASE f \in removing
      BY <2>2, <3>2, <3>3 DEF Rails
    <3>4. CASE f \notin removing
      <4>1. Removed(log, f)
        BY <2>2, <3>4 DEF RailInv, Standing
      <4>. QED BY <2>2, <3>2, <3>4, <4>1 DEF Rails
    <3>. QED BY <3>3, <3>4
  <2>3. ASSUME NEW f \in specs, NEW i \in 1 .. Len(log')
        PROVE  ~ Is(i, f, "flow.removed")'
    <3>1. CASE i \in 1 .. Len(log)
      BY <1>4, <3>1 DEF RailInv, Standing
    <3>2. CASE i \notin 1 .. Len(log)
      <4>1. i = Len(log) + 1
        BY <1>1, <3>2
      <4>. QED BY <1>1, <4>1 DEF RailInv, Standing, Is
    <3>. QED BY <3>1, <3>2
  <2>. QED BY <2>1, <2>2, <2>3 DEF Standing
<1>6. /\ \A f : \A k \in DOMAIN toClient' :
              \/ k \in DOMAIN toClient /\ toClient'[k] = toClient[k]
              \/ toClient'[k].t # "hello" /\ toClient'[k] # Snapshot(f)
      /\ \A k \in DOMAIN toClient : k \in DOMAIN toClient' /\ toClient'[k] = toClient[k]
  <2>1. \A g : \A k \in DOMAIN o : o[k] # Snapshot(g)
    BY <1>2 DEF Batch, Snapshot
  <2>. QED BY <1>2, <2>1, SentNothingOf
<1>7. Listed'
  <2>1. Greeted' => Greeted
    BY <1>3, <1>6 DEF Greeted
  <2>. QED BY <1>3, <2>1 DEF RailInv, Listed, Asked
<1>8. GoneOrGoing'
  <2>. SUFFICES ASSUME NEW f \in subs, NEW i \in 1 .. Len(log'), armedAt[f] < i,
                       LastRemoval(i, f)'
                PROVE  Gone(i, f)' \/ Going(i, f)'
    BY <1>3 DEF GoneOrGoing
  <2>1. CASE i \in 1 .. Len(log)
    <3>1. LastRemoval(i, f)
      BY <1>1, <1>4, <2>1 DEF LastRemoval
    <3>2. CASE Gone(i, f)
      BY <1>3, <1>6, <3>2 DEF Gone
    <3>3. CASE Going(i, f)
      <4>1. PICK p \in DOMAIN toClient :
              /\ Carries(toClient, p, i)
              /\ \A k \in DOMAIN toClient : k > p => toClient[k] # Snapshot(f)
        BY <3>3 DEF Going
      <4>2. Carries(toClient', p, i)
        BY <1>2, <4>1, CarriedOn
      <4>3. \A k \in DOMAIN toClient' : k > p => toClient'[k] # Snapshot(f)
        BY <1>6, <4>1
      <4>. QED BY <1>3, <1>6, <3>3, <4>2, <4>3 DEF Going
    <3>. QED BY <2>1, <3>1, <3>2, <3>3 DEF RailInv, GoneOrGoing
  <2>2. CASE i \notin 1 .. Len(log)
    <3>1. i = Len(log) + 1 /\ e.type = "flow.removed" /\ e.flow = f
      BY <1>1, <2>2 DEF LastRemoval, Is
    <3>2. up /\ subs # {} /\ (HasFlow(e) => e.flow \in subs)
      BY <3>1 DEF TailInv, Armed, SyncInv, Linked
    <3>3. \E k \in DOMAIN o : o[k] = Batch({Len(log) + 1})
      BY <1>2, <3>2
    <3>4. PICK p : p = Len(toClient) + 1
      OBVIOUS
    <3>5. Carries(toClient', p, i)
      BY <1>2, <3>1, <3>3, <3>4, RelayAwaited
    <3>6. lastSeq < i
      BY <1>1, <3>1, StoreFacts DEF SyncInv
    <3>7. \A k \in DOMAIN toClient' : k > p => toClient'[k] # Snapshot(f)
      <4>1. DOMAIN toClient = 1 .. Len(toClient) /\ Len(toClient) \in Nat
        BY LenProperties DEF SyncInv, Types, ClientTypeOK
      <4>2. \A k \in DOMAIN toClient : ~ (k > p)
        BY <3>4, <4>1
      <4>. QED BY <1>6, <4>2
    <3>8. p \in DOMAIN toClient'
      BY <3>5 DEF Carries
    <3>. QED BY <1>3, <3>5, <3>6, <3>7, <3>8 DEF Going
  <2>. QED BY <2>1, <2>2
<1>. QED BY <1>5, <1>7, <1>8 DEF RailInv

LEMMA RailCommand ==
  ASSUME SyncInv, TailInv, RailInv, HandleCommand
  PROVE  RailInv'
<1>1. PICK o : Sends(o)
  BY CommandFacts
<1>2. /\ \/ subs' = subs /\ armedAt' = armedAt
         \/ \E f \in Flows \ subs : /\ subs' = subs \cup {f}
                                    /\ armedAt' = [armedAt EXCEPT ![f] = Len(log)]
      /\ toServer # <<>> /\ toServer' = Tail(toServer)
      /\ \/ deleting' = deleting /\ \A f : toServer[1] # Delete(f)
         \/ \E f \in Flows : toServer[1] = Delete(f) /\ deleting' = deleting \cup {f}
      /\ UNCHANGED <<log, specs, removing, up, clientVars>>
  BY CommandFacts
<1>3. UNCHANGED <<log, specs, removing, ws, lastSeq, rail, selected>>
  BY <1>2 DEF clientVars
<1>4. Standing'
  BY <1>3 DEF RailInv, Standing, Is
<1>5. \A f \in Flows \ specs :
        /\ \A k \in DOMAIN toClient' :
             \/ k \in DOMAIN toClient /\ toClient'[k] = toClient[k]
             \/ toClient'[k].t # "hello" /\ toClient'[k] # Snapshot(f)
  BY <1>1, SentNothingOf
<1>6. \A k \in DOMAIN toClient : k \in DOMAIN toClient' /\ toClient'[k] = toClient[k]
  <2>1. None \notin specs
    BY ClientAssumption DEF SyncInv, Types, ClientTypeOK
  <2>. QED BY <1>1, <2>1, SentNothingOf
<1>7. Listed'
  <2>1. Greeted' => Greeted
    BY <1>3, <1>6 DEF Greeted
  <2>. SUFFICES ASSUME Greeted, NEW f \in specs', f \notin rail
                PROVE  Asked(f)'
    BY <1>3, <2>1 DEF Listed
  <2>2. f \in deleting \/ \E p \in DOMAIN toServer : toServer[p] = Delete(f)
    BY <1>3 DEF RailInv, Listed, Asked
  <2>3. CASE f \in deleting
    <3>1. f \in deleting'
      BY <1>2, <2>3
    <3>. QED BY <3>1 DEF Asked
  <2>4. ASSUME NEW p \in DOMAIN toServer, toServer[p] = Delete(f) PROVE Asked(f)'
    <3>1. /\ \A k \in DOMAIN toServer' : toServer'[k] = toServer[k + 1]
          /\ \A k \in DOMAIN toServer : k = 1 \/ k - 1 \in DOMAIN toServer'
          /\ DOMAIN toServer = 1 .. Len(toServer)
      BY <1>2, Tails DEF SyncInv, Types, ClientTypeOK
    <3>2. CASE p = 1
      <4>1. PICK g \in Flows : toServer[1] = Delete(g) /\ deleting' = deleting \cup {g}
        BY <1>2, <2>4, <3>2
      <4>2. g = f
        BY <2>4, <3>2, <4>1 DEF Delete
      <4>. QED BY <4>1, <4>2 DEF Asked
    <3>3. CASE p # 1
      <4>1. p - 1 \in DOMAIN toServer' /\ toServer'[p - 1] = Delete(f)
        BY <2>4, <3>1, <3>3
      <4>. QED BY <4>1 DEF Asked
    <3>. QED BY <3>2, <3>3
  <2>. QED BY <2>2, <2>3, <2>4
<1>8. GoneOrGoing'
  <2>. SUFFICES ASSUME NEW f \in subs', NEW i \in 1 .. Len(log), armedAt'[f] < i,
                       LastRemoval(i, f)
                PROVE  Gone(i, f)' \/ Going(i, f)'
    BY <1>3 DEF GoneOrGoing, LastRemoval, Is
  <2>1. f \in subs /\ armedAt'[f] = armedAt[f]
    <3>1. armedAt \in [Flows -> -1 .. MaxLog] /\ subs \subseteq Flows /\ Len(log) \in Nat
      BY StoreFacts DEF SyncInv, Types, ClientTypeOK
    <3>. QED BY <1>2, <3>1
  <2>2. f \in Flows \ specs
    <3>1. f \in Flows
      BY <2>1 DEF SyncInv, Types, ClientTypeOK
    <3>. QED BY <3>1 DEF RailInv, Standing, LastRemoval
  <2>3. \A k \in DOMAIN toClient' :
          \/ k \in DOMAIN toClient /\ toClient'[k] = toClient[k]
          \/ toClient'[k].t # "hello" /\ toClient'[k] # Snapshot(f)
    BY <1>5, <2>2
  <2>4. CASE Gone(i, f)
    BY <1>3, <2>3, <2>4 DEF Gone
  <2>5. CASE Going(i, f)
    <3>1. PICK p \in DOMAIN toClient :
            /\ Carries(toClient, p, i)
            /\ \A k \in DOMAIN toClient : k > p => toClient[k] # Snapshot(f)
      BY <2>5 DEF Going
    <3>2. Carries(toClient', p, i)
      BY <1>1, <3>1, CarriedOn
    <3>3. \A k \in DOMAIN toClient' : k > p => toClient'[k] # Snapshot(f)
      BY <2>3, <3>1
    <3>. QED BY <1>3, <1>6, <2>5, <3>2, <3>3 DEF Going
  <2>. QED BY <2>1, <2>4, <2>5 DEF RailInv, GoneOrGoing
<1>. QED BY <1>4, <1>7, <1>8 DEF RailInv

LEMMA RailStore ==
  ASSUME SyncInv, TailInv, RailInv, StoreNext
  PROVE  RailInv'
<1>1. /\ UNCHANGED <<log, specs, deleting, removing, subs, armedAt, toServer, ws>>
      /\ toClient # <<>> /\ toClient' = Tail(toClient)
  BY DEF StoreNext, ReceiveHello, ReceiveSnapshot, ReceiveEvents, Receiving, Taken,
         serverVars
<1>2. /\ \A k \in DOMAIN toClient' :
           /\ k \in 1 .. Len(toClient) - 1 /\ k + 1 \in DOMAIN toClient
           /\ toClient'[k] = toClient[k + 1] /\ toClient'[k].t # "hello"
      /\ \A k \in DOMAIN toClient : k = 1 \/ k - 1 \in DOMAIN toClient'
      /\ DOMAIN toClient = 1 .. Len(toClient) /\ Len(toClient) \in Nat
      /\ 1 \in DOMAIN toClient /\ Head(toClient) = toClient[1]
      /\ toClient[1] \in ServerMessages
  BY <1>1, QueueShrinks
<1>3. Standing'
  BY <1>1 DEF RailInv, Standing, Is
<1>4. /\ rail \in SUBSET Flows /\ specs \subseteq Flows /\ subs \subseteq Flows
      /\ Logged /\ Store \in Stores /\ Store.rail = rail /\ Store.selected = selected
      /\ Len(log) \in Nat /\ lastSeq \in Nat
  BY StoreFacts DEF SyncInv, Types, ClientTypeOK
<1>5. ASSUME ReceiveSnapshot
      PROVE  \E g \in Flows : /\ toClient[1] = Snapshot(g)
                              /\ rail' = rail \cup {g} /\ selected' \in {selected, g}
                              /\ lastSeq' = lastSeq
  <2>1. /\ toClient[1].t = "flow.snapshot" /\ rail' = rail \cup {toClient[1].flow}
        /\ selected' \in {selected, toClient[1].flow} /\ lastSeq' = lastSeq
    BY <1>2, <1>5 DEF ReceiveSnapshot, Receiving, upsertSummary
  <2>2. toClient[1].flow \in Flows /\ toClient[1] = Snapshot(toClient[1].flow)
    BY <1>2, <2>1, ServerKinds
  <2>. QED BY <2>1, <2>2
<1>6. ASSUME ReceiveEvents
      PROVE  \E S \in SUBSET (1 .. Len(log)) :
               /\ S = {i \in toClient[1].seqs : i > lastSeq} /\ toClient[1].t = "event"
               /\ rail' = FoldAll(Store, S).rail
               /\ selected' = FoldAll(Store, S).selected
               /\ lastSeq <= lastSeq' /\ \A i \in S : i <= lastSeq'
  BY <1>6, BatchFacts
<1>7. Listed'
  <2>. SUFFICES ASSUME Greeted', NEW f \in specs PROVE f \in rail' \/ Asked(f)
    BY <1>1 DEF Listed, Asked
  <2>1. CASE ReceiveHello
    <3>1. toClient[1].t = "hello" /\ rail' = toClient[1].flows
      BY <1>2, <2>1 DEF ReceiveHello, Receiving
    <3>2. specs \subseteq toClient[1].flows
      BY <1>2, <3>1 DEF SyncInv, QueueOK, Fine
    <3>. QED BY <3>1, <3>2
  <2>2. CASE ReceiveSnapshot \/ ReceiveEvents
    <3>1. toClient[1].t # "hello"
      BY <1>2, <2>2 DEF ReceiveSnapshot, ReceiveEvents, Receiving
    <3>2. \A k \in DOMAIN toClient : toClient[k].t # "hello"
      BY <3>1 DEF SyncInv, QueueOK
    <3>3. f \in rail \/ Asked(f)
      BY <1>1, <3>2 DEF RailInv, Listed, Greeted
    <3>4. CASE f \in rail /\ ReceiveSnapshot
      BY <1>5, <3>4
    <3>5. CASE f \in rail /\ ReceiveEvents
      <4>1. PICK S \in SUBSET (1 .. Len(log)) : rail' = FoldAll(Store, S).rail
        BY <1>6, <3>5
      <4>2. \A i \in S : ~ Is(i, f, "flow.removed")
        BY DEF RailInv, Standing
      <4>. QED BY <1>4, <3>5, <4>1, <4>2, FoldKeeps
    <3>. QED BY <2>2, <3>3, <3>4, <3>5
  <2>. QED BY <2>1, <2>2 DEF StoreNext
<1>8. GoneOrGoing'
  <2>. SUFFICES ASSUME NEW f \in subs, NEW i \in 1 .. Len(log), armedAt[f] < i,
                       LastRemoval(i, f)
                PROVE  Gone(i, f)' \/ Going(i, f)'
    BY <1>1 DEF GoneOrGoing, LastRemoval, Is
  <2>1. f \in Flows
    BY <1>4
  <2>2. CASE Gone(i, f)
    <3>1. /\ i <= lastSeq /\ f \notin rail /\ selected # f
          /\ \A k \in DOMAIN toClient : toClient[k].t # "hello" /\ toClient[k] # Snapshot(f)
      BY <2>2 DEF Gone
    <3>2. \A k \in DOMAIN toClient' :
            toClient'[k].t # "hello" /\ toClient'[k] # Snapshot(f)
      BY <1>2, <3>1
    <3>3. CASE ReceiveHello
      BY <1>2, <3>1, <3>3 DEF ReceiveHello, Receiving
    <3>4. CASE ReceiveSnapshot
      BY <1>2, <1>5, <3>1, <3>2, <3>4 DEF Gone
    <3>5. CASE ReceiveEvents
      <4>1. PICK S \in SUBSET (1 .. Len(log)) :
              /\ S = {j \in toClient[1].seqs : j > lastSeq}
              /\ rail' = FoldAll(Store, S).rail
              /\ selected' = FoldAll(Store, S).selected /\ lastSeq <= lastSeq'
        BY <1>6, <3>5
      <4>2. \A j \in S : j > 0 => ~ Is(j, f, "flow.upserted")
        <5>1. \A j \in S : j > i
          BY <1>4, <3>1, <4>1
        <5>. QED BY <5>1 DEF LastRemoval
      <4>3. 0 \in 0 .. Len(log)
        BY <1>4
      <4>4. f \notin rail' /\ selected' # f
        BY <1>4, <2>1, <3>1, <4>1, <4>2, <4>3, FoldDrops
      <4>5. i <= lastSeq'
        <5>1. lastSeq' \in {lastSeq} \cup S
          BY <3>5, <4>1, BatchFacts
        <5>. QED BY <1>4, <3>1, <4>1, <5>1
      <4>. QED BY <3>2, <4>4, <4>5 DEF Gone
    <3>. QED BY <3>3, <3>4, <3>5 DEF StoreNext
  <2>3. CASE Going(i, f)
    <3>1. PICK p \in DOMAIN toClient :
            /\ Carries(toClient, p, i)
            /\ \A k \in DOMAIN toClient : k > p => toClient[k] # Snapshot(f)
      BY <2>3 DEF Going
    <3>2. lastSeq < i
      BY <2>3 DEF Going
    <3>3. \/ p = 1 /\ ReceiveEvents
          \/ p # 1 /\ lastSeq' < i /\ Carries(toClient', p - 1, i)
      BY <3>1, <3>2, TakenCarries
    <3>4. CASE p = 1 /\ ReceiveEvents
      <4>1. PICK S \in SUBSET (1 .. Len(log)) :
              /\ S = {j \in toClient[1].seqs : j > lastSeq}
              /\ rail' = FoldAll(Store, S).rail
              /\ selected' = FoldAll(Store, S).selected
              /\ \A j \in S : j <= lastSeq'
        BY <1>6, <3>4
      <4>2. i \in S
        BY <1>4, <3>1, <3>2, <3>4, <4>1 DEF Carries
      <4>3. /\ \A j \in S : j > i => ~ Is(j, f, "flow.upserted")
            /\ Is(i, f, "flow.removed") /\ i \in 0 .. Len(log)
        BY <1>4 DEF LastRemoval
      <4>4. f \notin rail' /\ selected' # f
        BY <1>4, <2>1, <4>1, <4>2, <4>3, FoldDrops
      <4>5. \A k \in DOMAIN toClient' :
              toClient'[k].t # "hello" /\ toClient'[k] # Snapshot(f)
        BY <1>2, <3>1, <3>4
      <4>. QED BY <4>1, <4>2, <4>4, <4>5 DEF Gone
    <3>5. CASE p # 1 /\ lastSeq' < i /\ Carries(toClient', p - 1, i)
      <4>1. p - 1 \in DOMAIN toClient'
        BY <3>5 DEF Carries
      <4>2. \A k \in DOMAIN toClient' : k > p - 1 => toClient'[k] # Snapshot(f)
        BY <1>2, <3>1
      <4>. QED BY <3>5, <4>1, <4>2 DEF Going
    <3>. QED BY <3>3, <3>4, <3>5
  <2>. QED BY <1>4, <2>2, <2>3 DEF RailInv, GoneOrGoing
<1>. QED BY <1>3, <1>7, <1>8 DEF RailInv

LEMMA StandingFrame ==
  ASSUME Standing, UNCHANGED <<log, specs, deleting, removing>>
  PROVE  Standing'
BY DEF Standing, Is

LEMMA GoneFrame ==
  ASSUME GoneOrGoing, UNCHANGED <<log, subs, armedAt, toClient, lastSeq>>,
         \A f \in subs : f \notin rail /\ selected # f => f \notin rail' /\ selected' # f
  PROVE  GoneOrGoing'
<1>. SUFFICES ASSUME NEW f \in subs, NEW i \in 1 .. Len(log), armedAt[f] < i,
                     LastRemoval(i, f)
              PROVE  Gone(i, f)' \/ Going(i, f)'
  BY DEF GoneOrGoing, LastRemoval, Is
<1>1. Gone(i, f) \/ Going(i, f)
  BY DEF GoneOrGoing
<1>2. Gone(i, f) => Gone(i, f)'
  BY DEF Gone
<1>3. Going(i, f) => Going(i, f)'
  BY DEF Going
<1>. QED BY <1>1, <1>2, <1>3

LEMMA ListedFrame ==
  ASSUME Listed, UNCHANGED <<ws, toClient>>, specs' \subseteq specs,
         \A f \in specs' : f \in rail => f \in rail' \/ Asked(f)',
         \A f : Asked(f) => Asked(f)'
  PROVE  Listed'
BY DEF Listed, Greeted

LEMMA RailSocket ==
  ASSUME SyncInv, TailInv, RailInv, SocketNext \/ Accept \/ Drop
  PROVE  RailInv'
<1>1. UNCHANGED <<log, specs, deleting, removing, lastSeq, rail, selected>>
  BY DEF SocketNext, Connect, Opened, Closed, Accept, Drop, serverVars, clientVars
<1>2. ~ Greeted'
  <2>1. CASE Connect \/ Closed \/ Accept \/ Drop
    BY <2>1 DEF Connect, Closed, Accept, Drop, clientVars, Greeted
  <2>2. CASE Opened
    <3>1. toClient # <<>> /\ toClient[1].t = "hello" /\ toClient' = toClient
      BY <2>2 DEF Opened, SyncInv, Linked
    <3>2. 1 \in DOMAIN toClient
      BY <3>1, Tails DEF SyncInv, Types, ClientTypeOK
    <3>. QED BY <3>1, <3>2 DEF Greeted
  <2>. QED BY <2>1, <2>2 DEF SocketNext
<1>3. GoneOrGoing'
  <2>1. CASE SocketNext
    <3>1. UNCHANGED <<subs, armedAt, toClient>>
      BY <2>1 DEF SocketNext, Connect, Opened, Closed, socketVars
    <3>. QED BY <1>1, <3>1, GoneFrame DEF RailInv
  <2>2. CASE Accept \/ Drop
    <3>1. subs' = {}
      BY <2>2 DEF Accept, Drop, Forgotten
    <3>. QED BY <3>1 DEF GoneOrGoing
  <2>. QED BY <2>1, <2>2
<1>. QED BY <1>1, <1>2, <1>3, StandingFrame DEF RailInv, Listed

LEMMA RailClick ==
  ASSUME SyncInv, TailInv, RailInv,
         SubscribeNode \/ \E f \in Flows : SelectFlow(f) \/ DeleteFlow(f)
  PROVE  RailInv'
<1>1. ASSUME UNCHANGED <<log, specs, deleting, removing, subs, armedAt, toClient, ws, lastSeq>>,
             \A f : f \in specs /\ f \in rail => f \in rail' \/ Asked(f)',
             \A f : Asked(f) => Asked(f)',
             \A f \in subs : f \notin rail /\ selected # f => f \notin rail' /\ selected' # f
      PROVE  RailInv'
  BY <1>1, StandingFrame, GoneFrame, ListedFrame DEF RailInv
<1>2. CASE SubscribeNode
  <2>1. /\ selected # None /\ Send(NodeSubscribe(selected))
        /\ UNCHANGED <<log, specs, deleting, removing, subs, armedAt, toClient, ws, lastSeq, rail,
                       selected>>
    BY <1>2 DEF SubscribeNode, serverVars
  <2>2. NodeSubscribe(selected) \in ClientCommands
    BY <2>1, ClientMakes DEF SyncInv, Types, ClientTypeOK
  <2>3. \A f : Asked(f) => Asked(f)'
    BY <2>1, <2>2, SendFacts DEF Asked
  <2>. QED BY <1>1, <2>1, <2>3
<1>3. ASSUME NEW f \in Flows, SelectFlow(f) PROVE RailInv'
  <2>1. /\ f \in rail /\ selected' = f
        /\ Send(Subscribe(f, lastSeq)) \/ UNCHANGED toServer
        /\ UNCHANGED <<log, specs, deleting, removing, subs, armedAt, toClient, ws, lastSeq, rail>>
    BY <1>3 DEF SelectFlow, serverVars
  <2>2. Subscribe(f, lastSeq) \in ClientCommands
    <3>1. lastSeq \in 0 .. MaxLog
      BY StoreFacts, ClientAssumption DEF SyncInv, Types, ClientTypeOK
    <3>. QED BY <3>1, ClientMakes
  <2>3. \A g : Asked(g) => Asked(g)'
    BY <2>1, <2>2, SendFacts DEF Asked
  <2>. QED BY <1>1, <2>1, <2>3
<1>4. ASSUME NEW f \in Flows, DeleteFlow(f) PROVE RailInv'
  <2>1. PICK e : e = [type |-> "flow.removed", flow |-> f]
    OBVIOUS
  <2>2. e \in LogEvents /\ e.type = "flow.removed" /\ e.flow = f
    BY <2>1 DEF LogEvents
  <2>3. PICK v : v = foldEvent(Store, e)
    OBVIOUS
  <2>4. /\ Store \in Stores /\ Store.rail = rail /\ Store.selected = selected
        /\ Store.lastSeq = lastSeq /\ rail \in SUBSET Flows /\ subs \subseteq Flows
    BY StoreFacts DEF SyncInv, Types, ClientTypeOK
  <2>5. /\ v.rail = rail \ {f} /\ v.lastSeq = lastSeq
        /\ v.selected = IF selected = f THEN FirstOf(rail \ {f}) ELSE selected
    BY <2>2, <2>3, <2>4, FoldEventFacts
  <2>6. /\ rail' = v.rail /\ selected' = v.selected /\ lastSeq' = v.lastSeq
        /\ Send(Delete(f))
        /\ UNCHANGED <<log, specs, deleting, removing, subs, armedAt, toClient, ws>>
    BY <1>4, <2>1, <2>3 DEF DeleteFlow, Show, serverVars
  <2>7. /\ \A g : Asked(g) => Asked(g)'
        /\ ws = "open" => Asked(f)'
    BY <2>6, ClientMakes, SendFacts DEF Asked
  <2>8. CASE ws = "open"
    <3>1. \A g : g \in specs /\ g \in rail => g \in rail' \/ Asked(g)'
      BY <2>5, <2>6, <2>7, <2>8
    <3>2. FirstOf(rail \ {f}) \in rail \cup {None}
      BY <2>4, FirstOfFacts
    <3>3. \A g \in subs : g \notin rail /\ selected # g => g \notin rail' /\ selected' # g
      BY <2>4, <2>5, <2>6, <3>2, ClientAssumption
    <3>. QED BY <1>1, <2>5, <2>6, <2>7, <3>1, <3>3
  <2>9. CASE ws # "open"
    <3>1. subs = {} /\ ~ Greeted /\ ~ Greeted'
      BY <2>6, <2>9 DEF Greeted, TailInv, Armed
    <3>2. subs' = {}
      BY <2>6, <3>1
    <3>. QED BY <2>6, <3>1, <3>2, StandingFrame DEF RailInv, Listed, GoneOrGoing
  <2>. QED BY <2>8, <2>9
<1>. QED BY <1>2, <1>3, <1>4

LEMMA RailStep ==
  ASSUME SyncInv, TailInv, RailInv, [Next]_vars
  PROVE  RailInv'
<1>1. CASE UNCHANGED vars
  <2>1. UNCHANGED <<log, specs, deleting, removing, subs, toClient, toServer, armedAt, ws,
                    lastSeq, rail, selected>>
    BY <1>1 DEF vars, serverVars, socketVars, clientVars
  <2>2. Listed'
    BY <2>1 DEF RailInv, Listed, Greeted, Asked
  <2>. QED BY <2>1, <2>2, StandingFrame, GoneFrame DEF RailInv
<1>2. CASE EngineEmits
  <2>1. PICK e \in Events : /\ e.type = "flow.upserted" => e.flow \in specs \cup removing
                            /\ Emit(e) /\ UNCHANGED <<specs, deleting, removing>>
    BY <1>2 DEF EngineEmits
  <2>2. e \in LogEvents /\ e.type # "flow.removed"
    BY DEF LogEvents, Events
  <2>. QED BY <2>1, <2>2, RailEmit
<1>3. ASSUME NEW f \in Flows, EmitRemoved(f) PROVE RailInv'
  <2>1. PICK e : e = [type |-> "flow.removed", flow |-> f]
    OBVIOUS
  <2>2. e \in LogEvents /\ e.type = "flow.removed" /\ e.flow = f
    BY <2>1 DEF LogEvents
  <2>3. f \in removing /\ Emit(e) /\ removing' = removing \ {f} /\ specs' = specs
        /\ deleting' = deleting
    BY <1>3, <2>1 DEF EmitRemoved
  <2>. QED BY <2>2, <2>3, RailEmit
<1>4. ASSUME NEW f \in Flows, DropSpec(f) PROVE RailInv'
  <2>1. /\ specs' = specs \ {f} /\ removing' = removing \cup {f}
        /\ deleting' = deleting \ {f}
        /\ UNCHANGED <<log, subs, toClient, toServer, armedAt, ws, lastSeq, rail,
                       selected>>
    BY <1>4 DEF DropSpec, socketVars, clientVars
  <2>2. Standing'
    BY <2>1 DEF RailInv, Standing, Is
  <2>3. Listed'
    <3>1. \A g \in specs' : g \in specs /\ g # f
      BY <2>1
    <3>. QED BY <2>1, <3>1 DEF RailInv, Listed, Greeted, Asked
  <2>. QED BY <2>1, <2>2, <2>3, GoneFrame DEF RailInv
<1>9. ASSUME NEW f \in Flows, DeleteElsewhere(f) PROVE RailInv'
  <2>1. /\ deleting' = deleting \cup {f}
        /\ UNCHANGED <<log, specs, removing, subs, toClient, toServer, armedAt, ws,
                       lastSeq, rail, selected>>
    BY <1>9 DEF DeleteElsewhere, socketVars, clientVars
  <2>2. Standing'
    BY <2>1 DEF RailInv, Standing, Is
  <2>3. Listed'
    BY <2>1 DEF RailInv, Listed, Greeted, Asked
  <2>. QED BY <2>1, <2>2, <2>3, GoneFrame DEF RailInv
<1>5. CASE HandleCommand
  BY <1>5, RailCommand
<1>6. CASE SocketNext \/ Accept \/ Drop
  BY <1>6, RailSocket
<1>7. CASE StoreNext
  BY <1>7, RailStore
<1>8. CASE SubscribeNode \/ \E f \in Flows : SelectFlow(f) \/ DeleteFlow(f)
  BY <1>8, RailClick
<1>. QED BY <1>1, <1>2, <1>3, <1>4, <1>5, <1>6, <1>7, <1>8, <1>9 DEF Next, BridgeNext

LEMMA RailInit ==
  ASSUME Init PROVE RailInv
<1>1. log = <<>> /\ specs = Flows /\ removing = {} /\ subs = {} /\ ws = "none"
  BY DEF Init
<1>. QED BY <1>1 DEF RailInv, Standing, Listed, Greeted, GoneOrGoing

----------------------------------------------------------------------------
(* The theorems. *)

LEMMA ClientInvariant == ClientSpec => []ClientInv
<1>1. Init => ClientInv
  BY SyncInit, TailInit, RailInit DEF ClientInv
<1>2. ClientInv /\ [Next]_vars => ClientInv'
  <2>. SUFFICES ASSUME ClientInv, [Next]_vars PROVE ClientInv'
    OBVIOUS
  <2>1. Existing
    BY StandingExist DEF ClientInv, SyncInv, RailInv
  <2>. QED BY <2>1, SyncStep, TailStep, RailStep DEF ClientInv
<1>. QED BY <1>1, <1>2, PTL DEF ClientSpec

(* The variables of the client, the bridge and the socket keep their types: *)
(* the cursor stays within the log, and only messages and commands of the   *)
(* protocol are in flight.                                                  *)
THEOREM ClientTypeCorrect == ClientSpec => []ClientTypeOK
<1>1. ClientInv => ClientTypeOK
  BY DEF ClientInv, SyncInv, Types
<1>. QED BY <1>1, ClientInvariant, PTL

(* store.ts folds what it gets past its cursor only: live tail, broadcast   *)
(* and replay may overlap, and sockets may break, without an event being    *)
(* folded twice or after a later one.                                       *)
THEOREM ClientFoldedOnce == ClientSpec => []FoldedOnce
<1>1. ClientInv => FoldedOnce
  BY StoreFacts DEF ClientInv, SyncInv, Rising, FoldedOnce
<1>. QED BY <1>1, ClientInvariant, PTL

(* bridge.ts arms the tail before it replays: once the two ends are quiet,  *)
(* the client has folded everything since then that the subscription is     *)
(* about.                                                                   *)
THEOREM ClientLiveTailComplete == ClientSpec => []LiveTailComplete
<1>1. ClientInv => LiveTailComplete
  <2>. SUFFICES ASSUME ClientInv, Settled, NEW f \in Flows, armedAt[f] >= 0,
                       NEW i \in armedAt[f] + 1 .. LatestSeq(log),
                       HasFlow(log[i]) => log[i].flow = f
                PROVE  i \in FoldedSet
    BY DEF LiveTailComplete
  <2>1. armedAt \in [Flows -> -1 .. MaxLog] /\ LatestSeq(log) = Len(log) /\ Len(log) \in Nat
    BY StoreFacts DEF ClientInv, SyncInv, Types, ClientTypeOK
  <2>2. armedAt[f] \in -1 .. MaxLog
    BY <2>1
  <2>3. f \in subs
    BY <2>2 DEF ClientInv, TailInv, Armed
  <2>4. i \in 1 .. Len(log) /\ armedAt[f] < i
    BY <2>1, <2>2
  <2>5. i \in FoldedSet \/ Awaited(i)
    BY <2>3, <2>4 DEF ClientInv, TailInv, NoGap, Concerns
  <2>6. ~ Awaited(i)
    BY DEF Settled, Awaited
  <2>. QED BY <2>5, <2>6
<1>. QED BY <1>1, ClientInvariant, PTL

(* What store.ts shows of a subscribed flow is the last of what the log says *)
(* of it since bridge.ts armed the subscription, through the removals the   *)
(* store folds in advance and the snapshots it is sent.  Nothing is said of  *)
(* what was logged before, while the socket was down.                      *)
THEOREM ClientRailFollowsLog == ClientSpec => []RailFollowsLog
<1>1. ClientInv => RailFollowsLog
  <2>. SUFFICES ASSUME ClientInv, Settled, NEW f \in subs,
                       NEW n \in armedAt[f] + 1 .. LatestSeq(log),
                       log[n].type \in Rails, log[n].flow = f
                PROVE  IF Removed(log, f) THEN f \notin rail /\ selected # f
                       ELSE f \notin deleting \cup removing => f \in rail
    BY DEF RailFollowsLog, Rails
  <2>1. /\ LatestSeq(log) = Len(log) /\ Len(log) \in Nat /\ f \in Flows
        /\ log \in Seq(LogEvents) /\ DOMAIN log = 1 .. Len(log)
    BY StoreFacts, LogFacts DEF ClientInv, SyncInv, Types, ClientTypeOK, Logged
  <2>2. armedAt[f] \in 0 .. Len(log)
    BY DEF ClientInv, TailInv, Armed
  <2>3. n \in 1 .. Len(log) /\ armedAt[f] < n
    BY <2>1, <2>2
  <2>4. CASE Removed(log, f)
    <3>1. n \in Places(log, f, Rails)
      BY <2>1, <2>3 DEF Places
    <3>2. PICK m \in Places(log, f, Rails) :
            /\ \A i \in Places(log, f, Rails) : i <= m
            /\ Removed(log, f) <=> log[m].type = "flow.removed"
      BY <2>1, <3>1, LastPlace
    <3>3. m \in 1 .. Len(log) /\ log[m].flow = f /\ n <= m
      BY <2>1, <3>1, <3>2 DEF Places
    <3>4. \A j \in 1 .. Len(log) : j > m => ~ Is(j, f, "flow.upserted")
      <4>1. \A j \in 1 .. Len(log) : Is(j, f, "flow.upserted") => j \in Places(log, f, Rails)
        BY <2>1 DEF Places, Is, Rails
      <4>. QED BY <3>2, <3>3, <4>1
    <3>5. LastRemoval(m, f) /\ armedAt[f] < m
      BY <2>2, <2>3, <2>4, <3>2, <3>3, <3>4 DEF LastRemoval, Is
    <3>6. Gone(m, f) \/ Going(m, f)
      BY <3>3, <3>5 DEF ClientInv, RailInv, GoneOrGoing
    <3>7. ~ Going(m, f)
      BY DEF Settled, Going
    <3>. QED BY <2>4, <3>6, <3>7 DEF Gone
  <2>5. ASSUME ~ Removed(log, f), f \notin deleting \cup removing PROVE f \in rail
    <3>1. f \in specs
      BY <2>1, <2>5 DEF ClientInv, RailInv, Standing
    <3>2. Greeted /\ ~ Asked(f)
      BY <2>5 DEF Settled, Greeted, Asked
    <3>. QED BY <3>1, <3>2 DEF ClientInv, RailInv, Listed
  <2>. QED BY <2>4, <2>5
<1>. QED BY <1>1, ClientInvariant, PTL

=============================================================================
