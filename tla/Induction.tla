----------------------------- MODULE Induction -----------------------------
(***************************************************************************)
(* Induction over numbers and finite sets, stated with sets and functions  *)
(* only: a property is the set of what has it.  With it, what the folds of *)
(* the community modules compute, for any finite set and any order of      *)
(* picking its elements.                                                   *)
(***************************************************************************)
EXTENDS Integers, FiniteSets, FiniteSetsExt, FiniteSetTheorems, WellFoundedInduction, TLAPS

\* Every non-empty set of natural numbers has a least element.
LEMMA LeastNat ==
  ASSUME NEW S, S \subseteq Nat, S # {}
  PROVE  \E n \in S : \A m \in S : n <= m
<1>1. IsWellFoundedOn(OpToRel(<, Nat), Nat)
  BY NatLessThanWellFounded
<1>2. \E x \in S : \A y \in S : ~ (<<y, x>> \in OpToRel(<, Nat))
  BY <1>1, WFMin
<1>3. \E x \in S : \A y \in S : ~(y < x)
  BY <1>2 DEF OpToRel
<1> QED
  BY <1>3

\* A non-empty set of indices has a last one.
LEMMA LastIndex ==
  ASSUME NEW n \in Nat, NEW S \in SUBSET (1..n), S # {}
  PROVE  Max(S) \in S
<1> DEFINE T == {n - k : k \in S}
<1>1. T \subseteq Nat /\ T # {}
  <2>1. \A k \in S : n - k \in Nat
    OBVIOUS
  <2> QED BY <2>1
<1>2. PICK m \in T : \A l \in T : m <= l
  BY <1>1, LeastNat
<1>3. PICK x \in S : m = n - x
  OBVIOUS
<1>4. \A y \in S : x >= y
  <2> SUFFICES ASSUME NEW y \in S PROVE x >= y
    OBVIOUS
  <2>1. n - x <= n - y
    BY <1>2, <1>3
  <2> QED BY <2>1
<1> QED BY <1>4 DEF Max

\* What 0 has, and n + 1 if n does, all have.
LEMMA Inductively ==
  ASSUME NEW S, 0 \in S, \A n \in Nat : n \in S => n + 1 \in S
  PROVE  Nat \subseteq S
<1> SUFFICES ASSUME Nat \ S # {} PROVE FALSE
  OBVIOUS
<1>1. PICK n \in Nat \ S : \A m \in Nat \ S : n <= m
  BY LeastNat
<1>2. n - 1 \in Nat /\ n - 1 \in S
  BY <1>1
<1> QED
  BY <1>1, <1>2

\* Of finite sets that have something, one has fewest elements; so none has it
\* if any with it has one with it that is smaller.
LEMMA NoSmaller ==
  ASSUME NEW D, IsFiniteSet(D), NEW B, B \subseteq SUBSET D,
         \A s \in B : \E t \in B : t \subseteq s /\ t # s
  PROVE  B = {}
<1> SUFFICES ASSUME B # {} PROVE FALSE
  OBVIOUS
<1> DEFINE N == {Cardinality(s) : s \in B}
<1>1. \A s \in SUBSET D : IsFiniteSet(s) /\ Cardinality(s) \in Nat
  BY FS_Subset, FS_CardinalityType
<1>2. N \subseteq Nat /\ N # {}
  BY <1>1
<1>3. PICK n \in N : \A m \in N : n <= m
  BY <1>2, LeastNat
<1>4. PICK s \in B : n = Cardinality(s)
  OBVIOUS
<1>5. PICK t \in B : t \subseteq s /\ t # s
  OBVIOUS
<1>6. Cardinality(t) <= Cardinality(s) /\ Cardinality(t) # Cardinality(s)
  BY <1>1, <1>5, FS_Subset
<1>7. Cardinality(t) \in N /\ Cardinality(t) \in Nat /\ Cardinality(s) \in Nat
  BY <1>1
<1> HIDE DEF N
<1> QED
  BY <1>3, <1>4, <1>6, <1>7

-----------------------------------------------------------------------------
(* Folds.                                                                  *)

\* c picks an element of every part of D.
Picks(c, D) == \A s \in SUBSET D : s # {} => c[s] \in s

\* f folds step over the parts of D, an element at a time, in the order of c.
Folds(f, D, c, V, base, step) ==
  /\ f \in [SUBSET D -> V]
  /\ \A s \in SUBSET D : f[s] = IF s = {} THEN base ELSE step[<<c[s], f[s \ {c[s]}]>>]

Foldable(D, c, V, base, step) ==
  IsFiniteSet(D) /\ Picks(c, D) /\ base \in V /\ step \in [D \X V -> V]

\* f and g agree where they agree on what they are computed from.
AgreeOn(f, g, D, c) ==
  /\ f[{}] = g[{}]
  /\ \A s \in SUBSET D : s # {} /\ f[s \ {c[s]}] = g[s \ {c[s]}] => f[s] = g[s]

\* Then they agree.
LEMMA FoldUnique ==
  ASSUME NEW D, IsFiniteSet(D), NEW c, Picks(c, D), NEW f, NEW g, AgreeOn(f, g, D, c)
  PROVE  \A s \in SUBSET D : f[s] = g[s]
<1> DEFINE B == {s \in SUBSET D : f[s] # g[s]}
<1>1. \A s \in B : \E t \in B : t \subseteq s /\ t # s
  <2> SUFFICES ASSUME NEW s \in B PROVE \E t \in B : t \subseteq s /\ t # s
    OBVIOUS
  <2>1. s # {} /\ c[s] \in s
    BY DEF Picks, AgreeOn
  <2>2. s \ {c[s]} \in B
    BY <2>1 DEF AgreeOn
  <2> QED
    BY <2>1, <2>2
<1>2. B = {}
  <2>1. B \subseteq SUBSET D
    OBVIOUS
  <2> HIDE DEF B
  <2> QED
    BY <1>1, <2>1, NoSmaller
<1> QED
  BY <1>2

\* A fold exists: it is made for the parts of one element more at a time.
LEMMA FoldExists ==
  ASSUME NEW D, NEW c, NEW V, NEW base, NEW step, Foldable(D, c, V, base, step)
  PROVE  \E f : Folds(f, D, c, V, base, step)
<1> USE DEF Foldable
<1> DEFINE Upto(n) == {s \in SUBSET D : Cardinality(s) <= n}
           Made(f, n) ==
             \A s \in Upto(n) : f[s] = IF s = {} THEN base ELSE step[<<c[s], f[s \ {c[s]}]>>]
           S == {n \in Nat : \E f \in [Upto(n) -> V] : Made(f, n)}
<1>1. \A s \in SUBSET D : IsFiniteSet(s) /\ Cardinality(s) \in Nat
  BY FS_Subset, FS_CardinalityType
<1>2. \A s \in SUBSET D : s # {} =>
        /\ s \ {c[s]} \in SUBSET D /\ c[s] \in D
        /\ Cardinality(s \ {c[s]}) = Cardinality(s) - 1
  BY <1>1, FS_RemoveElement DEF Picks
<1>3. \A s \in SUBSET D : Cardinality(s) = 0 <=> s = {}
  BY <1>1, FS_EmptySet
<1>4. 0 \in S
  <2> DEFINE f == [s \in Upto(0) |-> base]
  <2>1. \A s \in Upto(0) : s = {}
    BY <1>1, <1>3
  <2>2. f \in [Upto(0) -> V] /\ Made(f, 0)
    BY <2>1
  <2> QED
    BY <2>2
<1>5. ASSUME NEW n \in Nat, n \in S
      PROVE  n + 1 \in S
  <2>1. PICK f \in [Upto(n) -> V] : Made(f, n)
    BY <1>5
  <2> DEFINE g == [s \in Upto(n + 1) |-> IF s = {} THEN base ELSE step[<<c[s], f[s \ {c[s]}]>>]]
  <2>2. \A s \in Upto(n + 1) : s # {} => s \ {c[s]} \in Upto(n)
    BY <1>1, <1>2
  <2>3. g \in [Upto(n + 1) -> V]
    <3>1. ASSUME NEW s \in Upto(n + 1), s # {}
          PROVE  step[<<c[s], f[s \ {c[s]}]>>] \in V
      <4>1. f[s \ {c[s]}] \in V /\ c[s] \in D
        BY <1>2, <2>1, <2>2, <3>1
      <4> QED
        BY <4>1
    <3> QED
      BY <3>1
  <2>4. \A s \in Upto(n) : s \in Upto(n + 1) /\ g[s] = f[s]
    <3>1. \A s \in Upto(n) : s \in Upto(n + 1)
      BY <1>1
    <3> QED
      BY <2>1, <3>1
  <2>5. Made(g, n + 1)
    <3> SUFFICES ASSUME NEW s \in Upto(n + 1)
                 PROVE  g[s] = IF s = {} THEN base ELSE step[<<c[s], g[s \ {c[s]}]>>]
      OBVIOUS
    <3>1. g[s] = IF s = {} THEN base ELSE step[<<c[s], f[s \ {c[s]}]>>]
      OBVIOUS
    <3>2. s # {} => g[s \ {c[s]}] = f[s \ {c[s]}]
      BY <2>2, <2>4
    <3> HIDE DEF g
    <3> QED
      BY <3>1, <3>2
  <2> HIDE DEF g, Made, Upto
  <2> QED
    BY <2>3, <2>5
<1>6. Nat \subseteq S
  <2> HIDE DEF S
  <2> QED
    BY <1>4, <1>5, Inductively
<1>7. PICK f \in [Upto(Cardinality(D)) -> V] : Made(f, Cardinality(D))
  <2>1. Cardinality(D) \in S
    BY <1>1, <1>6
  <2> QED
    BY <2>1
<1>8. Upto(Cardinality(D)) = SUBSET D
  BY FS_Subset
<1> QED
  BY <1>7, <1>8 DEF Folds

-----------------------------------------------------------------------------
(* Sums.                                                                   *)

\* f gives the sum of w over each finite part of its domain, whichever element
\* is taken first.
Sums(f, w) ==
  /\ f \in [SUBSET DOMAIN w -> Int]
  /\ f[{}] = 0
  /\ \A s \in SUBSET DOMAIN w : \A x \in s : f[s] = w[x] + f[s \ {x}]

Sum(w, s) == (CHOOSE f : Sums(f, w))[s]

\* A finite number of integers.
Summable(w) == IsFiniteSet(DOMAIN w) /\ \A x \in DOMAIN w : w[x] \in Int

\* f adds up the elements of each part in the order of c.
AddsUp(f, w, c) ==
  \A s \in SUBSET DOMAIN w : f[s] = IF s = {} THEN 0 ELSE w[c[s]] + f[s \ {c[s]}]

\* What adds up in one order adds up in every order.
LEMMA AnyOrder ==
  ASSUME NEW w, Summable(w), NEW c, Picks(c, DOMAIN w), NEW f \in [SUBSET DOMAIN w -> Int],
         AddsUp(f, w, c)
  PROVE  Sums(f, w)
<1> USE DEF AddsUp
<1> DEFINE D == DOMAIN w
           B == {s \in SUBSET D : \E x \in s : f[s] # w[x] + f[s \ {x}]}
<1>1. ASSUME NEW s \in B
      PROVE  \E t \in B : t \subseteq s /\ t # s
  <2>1. PICK x \in s : f[s] # w[x] + f[s \ {x}]
    OBVIOUS
  <2> DEFINE y == c[s]
             t == s \ {y}
  <2>2. y \in s /\ f[s] = w[y] + f[t] /\ x # y
    BY <2>1 DEF Picks
  <2>3. t \in SUBSET D /\ t \subseteq s /\ t # s /\ x \in t
    BY <2>2
  <2>4. CASE f[t] # w[x] + f[t \ {x}]
    BY <2>3, <2>4
  <2>5. CASE f[t] = w[x] + f[t \ {x}]
    <3> DEFINE u == s \ {x}
    <3>1. u \in SUBSET D /\ u \subseteq s /\ u # s /\ y \in u /\ u \ {y} = t \ {x}
      BY <2>2
    <3>2. f[u] # w[y] + f[u \ {y}]
      <4>1. w[x] \in Int /\ w[y] \in Int /\ f[t \ {x}] \in Int /\ f[u] \in Int
        BY <2>2, <2>3, <3>1 DEF Summable
      <4>2. f[s] = w[y] + (w[x] + f[t \ {x}]) /\ f[s] # w[x] + f[u]
        BY <2>1, <2>2, <2>5
      <4>3. f[u \ {y}] = f[t \ {x}]
        BY <3>1
      <4> DEFINE a == w[x]  b == w[y]  rest == f[t \ {x}]  fu == f[u]  fs == f[s]
      <4>4. a \in Int /\ b \in Int /\ rest \in Int /\ fu \in Int /\ fs = b + (a + rest) /\ fs # a + fu
        BY <4>1, <4>2
      <4>5. fu # b + rest
        <5> HIDE DEF a, b, rest, fu, fs
        <5> QED
          BY <4>4
      <4> QED
        BY <4>3, <4>5
    <3> QED
      BY <3>1, <3>2
  <2> QED
    BY <2>4, <2>5
<1>2. B = {}
  <2>1. B \subseteq SUBSET D /\ IsFiniteSet(D)
    BY DEF Summable
  <2> HIDE DEF B, D
  <2> QED
    BY <1>1, <2>1, NoSmaller
<1>3. f[{}] = 0
  OBVIOUS
<1> QED
  BY <1>2, <1>3 DEF Sums

\* What can be added up has sums.
LEMMA SumsExist ==
  ASSUME NEW w, Summable(w)
  PROVE  \E f : Sums(f, w)
<1> DEFINE D == DOMAIN w
           c == [s \in SUBSET D |-> CHOOSE x \in s : TRUE]
           step == [p \in D \X Int |-> w[p[1]] + p[2]]
<1>1. Picks(c, D) /\ IsFiniteSet(D)
  BY DEF Picks, Summable
<1>2. step \in [D \X Int -> Int]
  BY DEF Summable
<1>3. Foldable(D, c, Int, 0, step)
  <2> HIDE DEF c, D, step
  <2> QED
    BY <1>1, <1>2 DEF Foldable
<1>4. PICK f : Folds(f, D, c, Int, 0, step)
  <2> HIDE DEF c, D, step
  <2> QED
    BY <1>3, FoldExists
<1>5. \A s \in SUBSET D : f[s] = IF s = {} THEN 0 ELSE w[c[s]] + f[s \ {c[s]}]
  <2> SUFFICES ASSUME NEW s \in SUBSET D
               PROVE  f[s] = IF s = {} THEN 0 ELSE w[c[s]] + f[s \ {c[s]}]
    OBVIOUS
  <2>1. f[s] = IF s = {} THEN 0 ELSE step[<<c[s], f[s \ {c[s]}]>>]
    BY <1>4 DEF Folds
  <2>2. s # {} => c[s] \in D /\ f[s \ {c[s]}] \in Int
    BY <1>1, <1>4 DEF Picks, Folds
  <2> HIDE DEF c
  <2> QED
    BY <2>1, <2>2
<1>6. Sums(f, w)
  <2> HIDE DEF c, step
  <2>1. AddsUp(f, w, c)
    BY <1>5 DEF AddsUp
  <2> QED
    BY <1>1, <1>4, <2>1, AnyOrder DEF Folds
<1> QED
  BY <1>6

\* A sum is a number, 0 over nothing, and grows by what is added.
LEMMA SumIs ==
  ASSUME NEW w, Summable(w)
  PROVE  /\ Sum(w, {}) = 0
         /\ \A s \in SUBSET DOMAIN w :
              Sum(w, s) \in Int /\ \A x \in s : Sum(w, s) = w[x] + Sum(w, s \ {x})
<1>1. Sums((CHOOSE f : Sums(f, w)), w)
  BY SumsExist
<1> QED
  BY <1>1 DEF Sum, Sums

\* Whatever adds up one element at a time is the sum.
LEMMA SumBy ==
  ASSUME NEW w, Summable(w), NEW c, Picks(c, DOMAIN w), NEW f,
         AddsUp(f, w, c)
  PROVE  \A s \in SUBSET DOMAIN w : f[s] = Sum(w, s)
<1> USE DEF AddsUp
<1> DEFINE D == DOMAIN w
           g == [s \in SUBSET D |-> Sum(w, s)]
<1>1. \A s \in SUBSET D : s # {} => c[s] \in s /\ g[s] = w[c[s]] + g[s \ {c[s]}]
  BY SumIs DEF Picks
<1>2. f[{}] = g[{}] /\ IsFiniteSet(D)
  BY SumIs DEF Summable
<1>3. \A s \in SUBSET D : s # {} /\ f[s \ {c[s]}] = g[s \ {c[s]}] => f[s] = g[s]
  BY <1>1
<1>4. \A s \in SUBSET D : f[s] = g[s]
  <2>1. Picks(c, D)
    OBVIOUS
  <2> HIDE DEF g, D
  <2>2. AgreeOn(f, g, D, c)
    BY <1>2, <1>3 DEF AgreeOn
  <2> QED
    BY <1>2, <2>1, <2>2, FoldUnique
<1> QED
  BY <1>4

\* The same numbers under other names have the same sum.
LEMMA SumRenamed ==
  ASSUME NEW w, Summable(w), NEW v, Summable(v), NEW s \in SUBSET DOMAIN w, NEW h,
         \A x \in s : h[x] \in DOMAIN v /\ v[h[x]] = w[x],
         \A x, y \in s : h[x] = h[y] => x = y
  PROVE  Sum(w, s) = Sum(v, {h[x] : x \in s})
<1> DEFINE B == {t \in SUBSET s : Sum(w, t) # Sum(v, {h[x] : x \in t})}
<1>1. ASSUME NEW t \in B
      PROVE  \E u \in B : u \subseteq t /\ u # t
  <2>1. t # {}
    <3>1. {h[x] : x \in {}} = {}
      OBVIOUS
    <3> QED
      BY <3>1, SumIs
  <2>2. PICK x \in t : TRUE
    BY <2>1
  <2> DEFINE u == t \ {x}
  <2>3. {h[y] : y \in u} = {h[y] : y \in t} \ {h[x]}
    OBVIOUS
  <2>4. Sum(w, t) = w[x] + Sum(w, u)
    <3>1. t \in SUBSET DOMAIN w
      OBVIOUS
    <3> QED
      BY <3>1, SumIs
  <2>5. Sum(v, {h[y] : y \in t}) = v[h[x]] + Sum(v, {h[y] : y \in u})
    <3>1. {h[y] : y \in t} \in SUBSET DOMAIN v /\ h[x] \in {h[y] : y \in t}
      OBVIOUS
    <3> QED
      BY <2>3, <3>1, SumIs
  <2>6. v[h[x]] = w[x]
    OBVIOUS
  <2>7. Sum(w, u) # Sum(v, {h[y] : y \in u})
    BY <2>4, <2>5, <2>6
  <2>8. u \in SUBSET s /\ u \subseteq t /\ u # t
    BY <2>2
  <2>9. u \in B
    BY <2>7, <2>8
  <2> HIDE DEF B, u
  <2> QED
    BY <2>8, <2>9
<1>2. B = {}
  <2>1. B \subseteq SUBSET s /\ IsFiniteSet(s)
    BY FS_Subset DEF Summable
  <2> HIDE DEF B
  <2> QED
    BY <1>1, <2>1, NoSmaller
<1> QED
  BY <1>2
=============================================================================
