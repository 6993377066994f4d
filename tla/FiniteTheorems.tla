--------------------------- MODULE FiniteTheorems ---------------------------
(***************************************************************************)
(* Finite sets and sequences: induction up to a number, the largest member, *)
(* the places of a sequence, and the sums SumFunctionOnSet of the community *)
(* modules.                                                                *)
(*                                                                         *)
(* The library's induction theorems take a predicate as a parameter; what  *)
(* stands in for them here is a set: of the subsets on which a claim fails, *)
(* one is minimal.                                                         *)
(***************************************************************************)
EXTENDS Integers, FiniteSets, FiniteSetsExt, Functions, Sequences,
        FiniteSetTheorems, SequenceTheorems, TLAPS

(* Every non-empty collection of subsets of a finite set has a minimal one. *)
LEMMA MinimalSubset ==
  ASSUME NEW S, IsFiniteSet(S), NEW B \in SUBSET (SUBSET S), B # {}
  PROVE  \E U \in B : \A V \in B : V \subseteq U => V = U
<1>1. B \subseteq FiniteSubsetsOf(S)
  BY FS_Subset DEF FiniteSubsetsOf
<1>2. IsWellFoundedOn(StrictSubsetOrdering(S), FiniteSubsetsOf(S))
  BY FS_StrictSubsetOrderingWellFounded
<1>3. PICK U \in B : \A V \in B : ~ (<<V, U>> \in StrictSubsetOrdering(S))
  BY <1>1, <1>2, WFMin
<1>. QED BY <1>3 DEF StrictSubsetOrdering

(* A set with 0 and with the successor of each of its members below n has   *)
(* all the numbers up to n.                                                *)
LEMMA Climb ==
  ASSUME NEW n \in Nat, NEW S, 0 \in S,
         \A k \in 1 .. n : k - 1 \in S => k \in S
  PROVE  \A k \in 0 .. n : k \in S
<1> DEFINE T == 0 .. n
           Missed(U) == \E k \in T : k \notin S /\ U = 0 .. k
           B == {U \in SUBSET T : Missed(U)}
<1>1. ASSUME B # {} PROVE FALSE
  <2>0. IsFiniteSet(T)
    BY FS_Interval
  <2>1. B \in SUBSET (SUBSET T)
    <3> HIDE DEF T, Missed
    <3>. QED OBVIOUS
  <2>2. PICK U \in B : \A V \in B : V \subseteq U => V = U
    <3> HIDE DEF B, T
    <3>. QED BY <1>1, <2>0, <2>1, MinimalSubset
  <2>3. PICK k \in 0 .. n : k \notin S /\ U = 0 .. k
    BY <2>2
  <2>4. k \in 1 .. n /\ k - 1 \notin S
    BY <2>3
  <2>5. 0 .. k - 1 \in B
    BY <2>4
  <2>6. k \in 0 .. k /\ k \notin 0 .. k - 1 /\ 0 .. k - 1 \subseteq 0 .. k
    BY <2>4
  <2>. QED BY <2>2, <2>3, <2>5, <2>6
<1>2. ASSUME NEW k \in 0 .. n, k \notin S PROVE FALSE
  <2>1. 0 .. k \in B
    BY <1>2
  <2>. QED BY <1>1, <2>1
<1>. QED BY <1>2

(* In a minimal set without a largest member, all but one of the members     *)
(* would have a largest.                                                   *)
LEMMA MaxFacts ==
  ASSUME NEW S \in SUBSET Nat, IsFiniteSet(S), S # {}
  PROVE  Max(S) \in S /\ \A x \in S : Max(S) >= x
<1> DEFINE Top(U) == \E m \in U : \A x \in U : m >= x
           B == {U \in SUBSET S : U # {} /\ ~ Top(U)}
<1>1. ASSUME B # {} PROVE FALSE
  <2>0. B \subseteq FiniteSubsetsOf(S)
    BY FS_Subset DEF FiniteSubsetsOf
  <2>1. IsWellFoundedOn(StrictSubsetOrdering(S), FiniteSubsetsOf(S))
    BY FS_StrictSubsetOrderingWellFounded
  <2>2. PICK U \in B : \A V \in B : ~ (<<V, U>> \in StrictSubsetOrdering(S))
    <3> HIDE DEF B
    <3>. QED BY <1>1, <2>0, <2>1, WFMin
  <2>3. PICK u \in U : TRUE
    BY <2>2
  <2>4. CASE U = {u}
    <3>1. u >= u
      BY <2>2, <2>3
    <3>. QED BY <2>2, <2>4, <3>1
  <2>5. CASE U # {u}
    <3>1. U \ {u} \in SUBSET S /\ U \ {u} # {} /\ U \ {u} # U
      BY <2>2, <2>3, <2>5
    <3>2. Top(U \ {u})
      BY <2>2, <3>1 DEF StrictSubsetOrdering
    <3>3. PICK m \in U \ {u} : \A x \in U \ {u} : m >= x
      BY <3>2
    <3>4. \A x \in U : x \in Nat
      BY <2>2
    <3>5. CASE m >= u
      BY <2>2, <3>3, <3>5
    <3>6. CASE u >= m
      <4>1. \A x \in U : u >= x
        BY <2>3, <3>3, <3>4, <3>6
      <4>. QED BY <2>2, <2>3, <4>1
    <3>. QED BY <2>3, <3>3, <3>4, <3>5, <3>6
  <2>. QED BY <2>4, <2>5
<1>2. \E m \in S : \A x \in S : m >= x
  BY <1>1
<1>. QED BY <1>2 DEF Max

LEMMA LargestPlace ==
  ASSUME NEW S, NEW l \in Seq(S), NEW I \in SUBSET (DOMAIN l), I # {}
  PROVE  Max(I) \in I /\ \A i \in I : Max(I) >= i
<1>1. DOMAIN l = 1 .. Len(l) /\ Len(l) \in Nat
  BY LenProperties
<1>2. IsFiniteSet(I)
  <2>1. IsFiniteSet(1 .. Len(l))
    BY <1>1, FS_Interval
  <2>. QED BY <1>1, <2>1, FS_Subset
<1>3. I \subseteq Nat
  BY <1>1
<1>. QED BY <1>2, <1>3, MaxFacts

(* Sequences by their places. *)

LEMMA Concatenation ==
  ASSUME NEW S, NEW l \in Seq(S), NEW o \in Seq(S)
  PROVE  /\ l \o o \in Seq(S)
         /\ Len(l) \in Nat /\ DOMAIN l = 1 .. Len(l)
         /\ Len(o) \in Nat /\ DOMAIN o = 1 .. Len(o)
         /\ \A i \in DOMAIN l : i \in DOMAIN (l \o o) /\ (l \o o)[i] = l[i]
         /\ \A k \in DOMAIN o : /\ Len(l) + k \in DOMAIN (l \o o)
                                /\ (l \o o)[Len(l) + k] = o[k]
         /\ \A i \in DOMAIN (l \o o) :
              i \in DOMAIN l \/ \E k \in DOMAIN o : i = Len(l) + k
<1>1. /\ l \o o \in Seq(S) /\ Len(l \o o) = Len(l) + Len(o)
      /\ \A i \in 1 .. Len(l) + Len(o) :
           (l \o o)[i] = IF i <= Len(l) THEN l[i] ELSE o[i - Len(l)]
  BY ConcatProperties
<1>2. /\ Len(l) \in Nat /\ DOMAIN l = 1 .. Len(l)
      /\ Len(o) \in Nat /\ DOMAIN o = 1 .. Len(o)
      /\ DOMAIN (l \o o) = 1 .. Len(l) + Len(o)
  BY <1>1, LenProperties
<1>3. \A i \in DOMAIN l : i \in DOMAIN (l \o o) /\ (l \o o)[i] = l[i]
  BY <1>1, <1>2
<1>4. ASSUME NEW k \in DOMAIN o
      PROVE  /\ Len(l) + k \in DOMAIN (l \o o)
             /\ (l \o o)[Len(l) + k] = o[k]
  <2>1. Len(l) + k \in 1 .. Len(l) + Len(o) /\ ~ (Len(l) + k <= Len(l))
        /\ (Len(l) + k) - Len(l) = k
    BY <1>2
  <2>. QED BY <1>1, <1>2, <2>1
<1>5. ASSUME NEW i \in DOMAIN (l \o o), i \notin DOMAIN l
      PROVE  \E k \in DOMAIN o : i = Len(l) + k
  <2>1. i - Len(l) \in DOMAIN o /\ i = Len(l) + (i - Len(l))
    BY <1>2, <1>5
  <2>. QED BY <2>1
<1>. QED BY <1>1, <1>2, <1>3, <1>4, <1>5

LEMMA Tails ==
  ASSUME NEW S, NEW l \in Seq(S), l # <<>>
  PROVE  /\ Tail(l) \in Seq(S) /\ Head(l) = l[1] /\ l[1] \in S
         /\ Len(l) \in Nat /\ DOMAIN l = 1 .. Len(l) /\ 1 \in DOMAIN l
         /\ DOMAIN Tail(l) = 1 .. Len(l) - 1
         /\ \A i \in DOMAIN Tail(l) : i + 1 \in DOMAIN l /\ Tail(l)[i] = l[i + 1]
         /\ \A i \in DOMAIN l : i = 1 \/ i - 1 \in DOMAIN Tail(l)
<1>1. /\ Tail(l) \in Seq(S) /\ Len(Tail(l)) = Len(l) - 1
      /\ \A i \in 1 .. Len(Tail(l)) : Tail(l)[i] = l[i + 1]
  BY HeadTailProperties
<1>2. DOMAIN Tail(l) = 1 .. Len(Tail(l)) /\ Len(l) \in Nat /\ DOMAIN l = 1 .. Len(l)
  BY <1>1, LenProperties
<1>3. Len(l) # 0
  BY EmptySeq
<1>4. 1 \in DOMAIN l
  BY <1>2, <1>3
<1>5. l[1] \in S /\ Head(l) = l[1]
  BY <1>2, <1>4, ElementOfSeq
<1>. QED BY <1>1, <1>2, <1>3, <1>4, <1>5

LEMMA Heads ==
  ASSUME NEW S, NEW l \in Seq(S), NEW n \in 0 .. Len(l)
  PROVE  /\ SubSeq(l, 1, n) \in Seq(S) /\ DOMAIN SubSeq(l, 1, n) = 1 .. n
         /\ \A i \in 1 .. n : i \in DOMAIN l /\ SubSeq(l, 1, n)[i] = l[i]
<1>1. Len(l) \in Nat /\ DOMAIN l = 1 .. Len(l)
  BY LenProperties
<1>2. \A i \in 1 .. n : i \in DOMAIN l /\ l[i] \in S
  BY <1>1, ElementOfSeq
<1>3. /\ SubSeq(l, 1, n) \in Seq(S)
      /\ Len(SubSeq(l, 1, n)) = IF 1 <= n THEN n - 1 + 1 ELSE 0
      /\ \A i \in 1 .. n - 1 + 1 : SubSeq(l, 1, n)[i] = l[1 + i - 1]
  BY <1>1, <1>2, SubSeqProperties
<1>4. Len(SubSeq(l, 1, n)) = n
  BY <1>1, <1>3
<1>5. DOMAIN SubSeq(l, 1, n) = 1 .. n
  BY <1>3, <1>4, LenProperties
<1>. QED BY <1>1, <1>2, <1>3, <1>5

----------------------------------------------------------------------------
First(s) == CHOOSE x \in s : TRUE

(* it maps each subset of S to the sum of fun over it. *)
Sums(fun, S, it) ==
  it = [s \in SUBSET S |-> IF s = {} THEN 0
          ELSE fun[First(s)] + it[s \ {First(s)}]]

LEMMA SumOnSet ==
  ASSUME NEW fun, NEW S
  PROVE  SumFunctionOnSet(fun, S) = (CHOOSE it : Sums(fun, S, it))[S]
BY DEF SumFunctionOnSet, FoldFunctionOnSet, MapThenFoldSet, Sums, First

LEMMA FirstIn == \A s : s # {} => First(s) \in s
BY DEF First

(* The recursion has at most one solution, and a solution on a set contains *)
(* the solution on each of its subsets.                                    *)
LEMMA SumsUnique ==
  ASSUME NEW fun, NEW S, IsFiniteSet(S),
         NEW g, NEW h, Sums(fun, S, g), Sums(fun, S, h)
  PROVE  g = h
<1> DEFINE B == {s \in SUBSET S : g[s] # h[s]}
<1>1. ASSUME B # {} PROVE FALSE
  <2>0. B \in SUBSET (SUBSET S)
    OBVIOUS
  <2>1. PICK U \in B : \A V \in B : V \subseteq U => V = U
    <3> HIDE DEF B
    <3>. QED BY <1>1, <2>0, MinimalSubset
  <2>2. U # {}
    BY <2>1 DEF Sums
  <2>3. First(U) \in U
    BY <2>2, FirstIn
  <2>4. g[U \ {First(U)}] = h[U \ {First(U)}]
    BY <2>1, <2>3
  <2>. QED BY <2>1, <2>2, <2>4 DEF Sums
<1>2. \A s \in SUBSET S : g[s] = h[s]
  BY <1>1
<1>3. g = [s \in SUBSET S |-> g[s]] /\ h = [s \in SUBSET S |-> h[s]]
  BY DEF Sums
<1>. QED BY <1>2, <1>3

LEMMA SumsRestrict ==
  ASSUME NEW fun, NEW S, NEW it, Sums(fun, S, it), NEW V \in SUBSET S
  PROVE  Sums(fun, V, [s \in SUBSET V |-> it[s]])
BY DEF Sums

(* It has one: on a minimal set without, the solutions on the subsets would  *)
(* give it.                                                                *)
LEMMA SumsExist ==
  ASSUME NEW fun, NEW S, IsFiniteSet(S)
  PROVE  \E it : Sums(fun, S, it)
<1> DEFINE B == {U \in SUBSET S : ~ \E it : Sums(fun, U, it)}
<1> SUFFICES ASSUME B # {} PROVE FALSE
  OBVIOUS
<1>0. B \in SUBSET (SUBSET S)
  OBVIOUS
<1>1. PICK U \in B : \A V \in B : V \subseteq U => V = U
  <2> HIDE DEF B
  <2>. QED BY <1>0, MinimalSubset
<1> DEFINE G(V) == CHOOSE it : Sums(fun, V, it)
           new == [s \in SUBSET U |-> IF s = {} THEN 0 ELSE
                fun[First(s)] + G(s \ {First(s)})[s \ {First(s)}]]
<1>2. \A V \in SUBSET U : V # U => Sums(fun, V, G(V))
  BY <1>1
<1>3. \A V, W : V \in SUBSET U /\ V # U /\ W \in SUBSET V => G(V)[W] = G(W)[W]
  <2> SUFFICES ASSUME NEW V \in SUBSET U, V # U, NEW W \in SUBSET V
               PROVE  G(V)[W] = G(W)[W]
    OBVIOUS
  <2>1. Sums(fun, V, G(V)) /\ Sums(fun, W, G(W))
    BY <1>2
  <2> HIDE DEF G
  <2>2. Sums(fun, W, [s \in SUBSET W |-> G(V)[s]])
    BY <2>1, SumsRestrict
  <2>3. IsFiniteSet(W)
    BY FS_Subset
  <2>4. G(W) = [s \in SUBSET W |-> G(V)[s]]
    BY <2>1, <2>2, <2>3, SumsUnique
  <2>. QED BY <2>4
<1> HIDE DEF G
<1>4. ASSUME NEW s \in SUBSET U, s # {}
      PROVE  new[s \ {First(s)}] = G(s \ {First(s)})[s \ {First(s)}]
  <2> DEFINE V == s \ {First(s)}
             W == V \ {First(V)}
  <2>1. First(s) \in s /\ V \in SUBSET U /\ V # U
    BY <1>4, FirstIn
  <2>2. Sums(fun, V, G(V))
    BY <1>2, <2>1
  <2>3. CASE V = {}
    BY <2>2, <2>3 DEF Sums
  <2>4. CASE V # {}
    <3>1. G(V)[V] = fun[First(V)] + G(V)[W]
      BY <2>2, <2>4 DEF Sums
    <3>2. G(V)[W] = G(W)[W]
      BY <1>3, <2>1
    <3>3. new[V] = fun[First(V)] + G(W)[W]
      BY <2>1, <2>4
    <3>. QED BY <3>1, <3>2, <3>3
  <2>. QED BY <2>3, <2>4
<1>5. Sums(fun, U, new)
  BY <1>4 DEF Sums
<1>. QED BY <1>1, <1>5

(* The sum over a finite set satisfies the recursion it is defined by. *)
LEMMA SumRecursion ==
  ASSUME NEW fun, NEW S, IsFiniteSet(S)
  PROVE  SumFunctionOnSet(fun, S) =
           IF S = {} THEN 0
           ELSE fun[First(S)] + SumFunctionOnSet(fun, S \ {First(S)})
<1> DEFINE G(V) == CHOOSE it : Sums(fun, V, it)
           V == S \ {First(S)}
<1>1. SumFunctionOnSet(fun, S) = G(S)[S] /\ SumFunctionOnSet(fun, V) = G(V)[V]
  BY SumOnSet
<1>2. IsFiniteSet(V)
  BY FS_Subset
<1>3. Sums(fun, S, G(S)) /\ Sums(fun, V, G(V))
  BY <1>2, SumsExist
<1> HIDE DEF G
<1>4. G(V) = [s \in SUBSET V |-> G(S)[s]]
  <2>1. Sums(fun, V, [s \in SUBSET V |-> G(S)[s]])
    BY <1>3, SumsRestrict
  <2>. QED BY <1>2, <1>3, <2>1, SumsUnique
<1>5. G(V)[V] = G(S)[V]
  BY <1>4
<1>6. G(S)[S] = IF S = {} THEN 0 ELSE fun[First(S)] + G(S)[V]
  BY <1>3 DEF Sums
<1>. QED BY <1>1, <1>5, <1>6

LEMMA SumEmpty == \A fun : SumFunctionOnSet(fun, {}) = 0
BY FS_EmptySet, SumRecursion

NatOn(fun, S) == \A x \in S : fun[x] \in Nat

LEMMA SumNat ==
  ASSUME NEW fun, NEW S, IsFiniteSet(S), NatOn(fun, S)
  PROVE  SumFunctionOnSet(fun, S) \in Nat
<1> DEFINE B == {U \in SUBSET S : SumFunctionOnSet(fun, U) \notin Nat}
<1> SUFFICES ASSUME B # {} PROVE FALSE
  OBVIOUS
<1>0. B \in SUBSET (SUBSET S)
  OBVIOUS
<1>1. PICK U \in B : \A V \in B : V \subseteq U => V = U
  <2> HIDE DEF B
  <2>. QED BY <1>0, MinimalSubset
<1>2. IsFiniteSet(U)
  BY FS_Subset
<1>3. U # {}
  <2>1. SumFunctionOnSet(fun, {}) \in Nat
    BY SumEmpty
  <2>. QED BY <1>1, <2>1
<1>4. First(U) \in U
  BY <1>3, FirstIn
<1>5. SumFunctionOnSet(fun, U \ {First(U)}) \in Nat
  BY <1>1, <1>4
<1>6. fun[First(U)] \in Nat
  BY <1>4 DEF NatOn
<1>. QED BY <1>1, <1>2, <1>3, <1>5, <1>6, SumRecursion

(* The order in which a sum is taken does not matter. *)
LEMMA SumRemove ==
  ASSUME NEW fun, NEW S, IsFiniteSet(S), NatOn(fun, S), NEW x \in S
  PROVE  SumFunctionOnSet(fun, S) = SumFunctionOnSet(fun, S \ {x}) + fun[x]
<1> DEFINE Sum(U) == SumFunctionOnSet(fun, U)
           B == {U \in SUBSET S : \E y \in U : Sum(U) # Sum(U \ {y}) + fun[y]}
<1> SUFFICES ASSUME B # {} PROVE FALSE
  OBVIOUS
<1>0. B \in SUBSET (SUBSET S)
  OBVIOUS
<1>1. PICK U \in B : \A V \in B : V \subseteq U => V = U
  <2> HIDE DEF B
  <2>. QED BY <1>0, MinimalSubset
<1>2. PICK y \in U : Sum(U) # Sum(U \ {y}) + fun[y]
  BY <1>1
<1> DEFINE c == First(U)
<1>3. c \in U
  BY <1>2, FirstIn
<1>4. \A V \in SUBSET U : V # U => \A z \in V : Sum(V) = Sum(V \ {z}) + fun[z]
  BY <1>1
<1>5. \A V \in SUBSET U : IsFiniteSet(V) /\ Sum(V) \in Nat
  BY FS_Subset, SumNat DEF NatOn
<1>6. fun[c] \in Nat /\ fun[y] \in Nat
  BY <1>2, <1>3 DEF NatOn
<1>7. Sum(U) = fun[c] + Sum(U \ {c})
  BY <1>2, <1>5, SumRecursion
<1> HIDE DEF Sum, c
<1>8. CASE c = y
  BY <1>2, <1>5, <1>6, <1>7, <1>8
<1>9. CASE c # y
  <2>1. Sum(U \ {c}) = Sum((U \ {c}) \ {y}) + fun[y]
    BY <1>2, <1>3, <1>4, <1>9
  <2>2. Sum(U \ {y}) = Sum((U \ {y}) \ {c}) + fun[c]
    BY <1>2, <1>3, <1>4, <1>9
  <2>3. (U \ {y}) \ {c} = (U \ {c}) \ {y}
    OBVIOUS
  <2>4. Sum((U \ {y}) \ {c}) \in Nat
    BY <1>5
  <2>. QED BY <1>2, <1>6, <1>7, <2>1, <2>2, <2>3, <2>4
<1>. QED BY <1>8, <1>9

LEMMA SumAdd ==
  ASSUME NEW fun, NEW S, IsFiniteSet(S), NEW x, x \notin S,
         NatOn(fun, S \cup {x})
  PROVE  SumFunctionOnSet(fun, S \cup {x}) = SumFunctionOnSet(fun, S) + fun[x]
<1>1. IsFiniteSet(S \cup {x}) /\ (S \cup {x}) \ {x} = S
  BY FS_AddElement
<1>. QED BY <1>1, SumRemove

(* Functions that agree on a set have the same sum over it. *)
LEMMA SumCongruence ==
  ASSUME NEW fun, NEW gun, NEW S, IsFiniteSet(S), \A x \in S : fun[x] = gun[x]
  PROVE  SumFunctionOnSet(fun, S) = SumFunctionOnSet(gun, S)
<1> DEFINE B == {U \in SUBSET S : SumFunctionOnSet(fun, U) # SumFunctionOnSet(gun, U)}
<1> SUFFICES ASSUME B # {} PROVE FALSE
  OBVIOUS
<1>0. B \in SUBSET (SUBSET S)
  OBVIOUS
<1>1. PICK U \in B : \A V \in B : V \subseteq U => V = U
  <2> HIDE DEF B
  <2>. QED BY <1>0, MinimalSubset
<1>2. IsFiniteSet(U)
  BY FS_Subset
<1>3. U # {}
  BY <1>1, SumEmpty
<1>4. First(U) \in U
  BY <1>3, FirstIn
<1>5. SumFunctionOnSet(fun, U \ {First(U)}) = SumFunctionOnSet(gun, U \ {First(U)})
  BY <1>1, <1>4
<1>. QED BY <1>1, <1>2, <1>3, <1>4, <1>5, SumRecursion

(* A sum of sums. *)
LEMMA SumPlus ==
  ASSUME NEW fun, NEW gun, NEW hun, NEW S, IsFiniteSet(S),
         NatOn(fun, S), NatOn(gun, S), \A x \in S : hun[x] = fun[x] + gun[x]
  PROVE  SumFunctionOnSet(hun, S) =
           SumFunctionOnSet(fun, S) + SumFunctionOnSet(gun, S)
<1> DEFINE B == {U \in SUBSET S : SumFunctionOnSet(hun, U) #
           SumFunctionOnSet(fun, U) + SumFunctionOnSet(gun, U)}
<1> SUFFICES ASSUME B # {} PROVE FALSE
  OBVIOUS
<1>0. B \in SUBSET (SUBSET S)
  OBVIOUS
<1>1. PICK U \in B : \A V \in B : V \subseteq U => V = U
  <2> HIDE DEF B
  <2>. QED BY <1>0, MinimalSubset
<1>2. IsFiniteSet(U)
  BY FS_Subset
<1>3. U # {}
  <2>1. SumFunctionOnSet(hun, {}) =
          SumFunctionOnSet(fun, {}) + SumFunctionOnSet(gun, {})
    BY SumEmpty
  <2>. QED BY <1>1, <2>1
<1>4. First(U) \in U
  BY <1>3, FirstIn
<1> DEFINE V == U \ {First(U)}
<1>5. SumFunctionOnSet(hun, V) = SumFunctionOnSet(fun, V) + SumFunctionOnSet(gun, V)
  BY <1>1, <1>4
<1>6. IsFiniteSet(V) /\ NatOn(fun, V) /\ NatOn(gun, V)
  BY <1>2, FS_Subset DEF NatOn
<1>7. SumFunctionOnSet(fun, V) \in Nat /\ SumFunctionOnSet(gun, V) \in Nat
  BY <1>6, SumNat
<1>8. /\ fun[First(U)] \in Nat /\ gun[First(U)] \in Nat
      /\ hun[First(U)] = fun[First(U)] + gun[First(U)]
  BY <1>4 DEF NatOn
<1> HIDE DEF V
<1>9. /\ SumFunctionOnSet(hun, U) = hun[First(U)] + SumFunctionOnSet(hun, V)
      /\ SumFunctionOnSet(fun, U) = fun[First(U)] + SumFunctionOnSet(fun, V)
      /\ SumFunctionOnSet(gun, U) = gun[First(U)] + SumFunctionOnSet(gun, V)
  BY <1>2, <1>3, SumRecursion DEF V
<1>. QED BY <1>1, <1>5, <1>7, <1>8, <1>9
=============================================================================
