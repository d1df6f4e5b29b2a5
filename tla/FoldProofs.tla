----------------------------- MODULE FoldProofs ------------------------------
(* What the proofs about the components need to know of numbers, finite sets   *)
(* and folds over them.                                                        *)
EXTENDS Integers, FiniteSets, Sequences, SequencesExt, FiniteSetTheorems,
        SequenceTheorems, WellFoundedInduction, TLAPS

\* Of the numbers with a property one is the smallest: what fails for a number, and
\* for none before it, cannot fail where it is handed on from each to the next.
LEMMA Smallest ==
  ASSUME NEW T \in SUBSET Nat, T # {}
  PROVE  \E m \in T : \A k \in T : m <= k
<1>1. PICK R : R = {p \in Nat \X Nat : p[1] < p[2]}
  OBVIOUS
<1>2. IsWellFoundedOn(R, Nat)
  BY <1>1, NatLessThanWellFounded DEF OpToRel
<1>3. PICK m \in T : \A k \in T : <<k, m>> \notin R
  BY <1>2, WFMin
<1>4. \A k \in T : ~ (k < m)
  BY <1>1, <1>3
<1>. QED
  BY <1>4

(* The largest of some numbers up to a limit is one of them. *)
LEMMA Largest ==
  ASSUME NEW n \in Nat, NEW S, S \subseteq 1 .. n, S # {}
  PROVE  \E m \in S : \A k \in S : k <= m
<1> DEFINE below == {n - k : k \in S}
<1>1. below \subseteq Nat /\ below # {}
  <2>1. ASSUME NEW k \in S PROVE n - k \in Nat
    OBVIOUS
  <2> QED
    BY <2>1, Zenon
<1>2. PICK x \in below : \A y \in below : x <= y
  <2> HIDE DEF below
  <2> QED
    BY <1>1, Smallest
<1>3. PICK m \in S : x = n - m
  BY Zenon
<1>4. ASSUME NEW k \in S PROVE k <= m
  <2>1. n - k \in below
    OBVIOUS
  <2>2. n - m <= n - k
    BY <1>2, <1>3, <2>1
  <2> QED
    BY <2>2
<1> QED
  BY <1>4

-----------------------------------------------------------------------------
(* The places of numbers in their order. *)

\* The numbers up to n are n.
LEMMA UpTo == \A n \in Nat : IsFiniteSet(1 .. n) /\ Cardinality(1 .. n) = n
<1>1. ASSUME NEW n \in Nat
      PROVE  IsFiniteSet(1 .. n) /\ Cardinality(1 .. n) = n
  BY <1>1, FS_Interval
<1>. QED
  BY <1>1

\* The elements of a set of the numbers up to n are numbered from 1, in their order.
LEMMA Ranks ==
  ASSUME NEW n \in Nat, NEW S \in SUBSET (1 .. n)
  PROVE  /\ Cardinality(S) \in Nat /\ Cardinality(S) <= n
         /\ \A i \in 1 .. Cardinality(S) : \E k \in S : Cardinality({j \in S : j <= k}) = i
         /\ n \in S => Cardinality({j \in S : j <= n}) = Cardinality(S)
<1>. DEFINE Up(k) == {j \in S : j <= k}
            size == Cardinality(S)
            rank == [k \in S |-> Cardinality(Up(k))]
<1>1. IsFiniteSet(S) /\ size \in Nat /\ size <= n /\ \A k \in S : k \in Nat /\ k <= n
  <2>1. IsFiniteSet(1 .. n) /\ Cardinality(1 .. n) = n
    BY FS_Interval
  <2>. QED
    <3>1. \A k \in S : k \in Nat /\ k <= n
      OBVIOUS
    <3>. QED
      BY <2>1, <3>1, FS_Subset, FS_CardinalityType
<1>2. ASSUME NEW k \in S
      PROVE  /\ IsFiniteSet(Up(k)) /\ Cardinality(Up(k)) \in 1 .. size
             /\ \A i \in S : i < k => Cardinality(Up(i)) # Cardinality(Up(k))
  <2>1. IsFiniteSet(Up(k)) /\ Cardinality(Up(k)) <= size
    BY <1>1, FS_Subset
  <2>2. k \in Up(k)
    OBVIOUS
  <2>3. Cardinality(Up(k)) \in Nat /\ Cardinality(Up(k)) # 0
    BY <2>1, <2>2, FS_CardinalityType, FS_EmptySet
  <2>4. ASSUME NEW i \in S, i < k
        PROVE  Cardinality(Up(i)) # Cardinality(Up(k))
    <3>1. i \in Nat /\ k \in Nat /\ \A j \in S : j \in Nat
      BY <1>1
    <3>2. (\A j \in S : j <= i => j <= k) /\ ~ (k <= i)
      BY <2>4, <3>1
    <3>3. Up(i) \in SUBSET Up(k) /\ k \notin Up(i)
      BY <3>2, Zenon
    <3>. HIDE DEF Up
    <3>. QED
      BY <2>1, <2>2, <3>3, FS_Subset
  <2>. QED
    BY <1>1, <2>1, <2>3, <2>4
<1>3. rank \in Injection(S, 1 .. size)
  <2>1. rank \in [S -> 1 .. size]
    BY <1>2
  <2>2. ASSUME NEW i \in S, NEW k \in S, rank[i] = rank[k]
        PROVE  i = k
    <3>1. ~ (i < k) /\ ~ (k < i)
      BY <1>2, <2>2
    <3>. QED
      BY <1>1, <3>1
  <2>. QED
    BY <2>1, <2>2 DEF Injection, IsInjective
<1>4. rank \in Surjection(S, 1 .. size)
  <2>1. IsFiniteSet(1 .. size) /\ Cardinality(1 .. size) = size
    BY <1>1, FS_Interval
  <2>. HIDE DEF rank
  <2>2. PICK f, m : f = rank /\ m = size
    OBVIOUS
  <2>. HIDE DEF size
  <2>3. f \in Injection(S, 1 .. m) /\ IsFiniteSet(1 .. m) /\ Cardinality(1 .. m) = m
    BY <1>3, <2>1, <2>2
  <2>4. f \in Surjection(S, 1 .. m)
    BY <2>2, <2>3, FS_Injection DEF size
  <2>. QED
    BY <2>2, <2>4
<1>5. ASSUME NEW i \in 1 .. size
      PROVE  \E k \in S : Cardinality(Up(k)) = i
  <2>1. PICK k \in S : rank[k] = i
    BY <1>4 DEF Surjection
  <2>. QED
    BY <2>1
<1>6. n \in S => Up(n) = S
  BY <1>1
<1>. QED
  BY <1>1, <1>5, <1>6

-----------------------------------------------------------------------------
(* Folds over finite sets. *)

\* What a subset of a finite set has when all smaller ones have it, all subsets have.
LEMMA SubsetsByLess ==
  ASSUME NEW S, IsFiniteSet(S), NEW T,
         \A s \in SUBSET S : (\A r \in SUBSET s : r # s => r \in T) => s \in T
  PROVE  \A s \in SUBSET S : s \in T
<1>. SUFFICES ASSUME NEW other \in SUBSET S, other \notin T
              PROVE  FALSE
  OBVIOUS
<1>. DEFINE N == {n \in Nat : \E s \in SUBSET S : s \notin T /\ Cardinality(s) = n}
<1>1. \A s \in SUBSET S : IsFiniteSet(s) /\ Cardinality(s) \in Nat
  BY FS_Subset, FS_CardinalityType
<1>2. N # {}
  BY <1>1
<1>3. PICK m \in N : \A k \in N : m <= k
  <2>. HIDE DEF N
  <2>1. N \in SUBSET Nat
    BY DEF N
  <2>. QED
    BY <1>2, <2>1, Smallest
<1>4. PICK s \in SUBSET S : s \notin T /\ Cardinality(s) = m
  BY <1>3
<1>5. PICK r \in SUBSET s : r # s /\ r \notin T
  BY <1>4
<1>6. Cardinality(r) \in Nat /\ Cardinality(r) < m /\ r \in SUBSET S
  BY <1>1, <1>4, <1>5, FS_Subset
<1>7. Cardinality(r) \in N
  BY <1>5, <1>6
<1>. QED
  BY <1>3, <1>6, <1>7

\* The subsets of a finite set are reached one element at a time.
LEMMA SubsetsByOne ==
  ASSUME NEW S, IsFiniteSet(S), NEW T, {} \in T,
         \A s \in SUBSET S : s # {} => \E x \in s : s \ {x} \in T => s \in T
  PROVE  \A s \in SUBSET S : s \in T
<1>1. ASSUME NEW s \in SUBSET S, \A r \in SUBSET s : r # s => r \in T
      PROVE  s \in T
  <2>1. CASE s = {}
    BY <2>1
  <2>2. CASE s # {}
    <3>1. PICK x \in s : s \ {x} \in T => s \in T
      BY <2>2
    <3>2. s \ {x} \in SUBSET s /\ s \ {x} # s
      OBVIOUS
    <3>. QED
      BY <1>1, <3>1, <3>2
  <2>. QED
    BY <2>1, <2>2
<1>. QED
  BY <1>1, SubsetsByLess

\* A fold over a finite set has a value, whatever is folded and in which order.
Folding(g, sets, base, c, F) ==
  \A s \in sets : g[s] = IF s = {} THEN base ELSE F[s][g[s \ {c[s]}]]

\* What can be folded: F takes what the others have, c says which element is next.
Foldable(S, B, base, c, F) ==
  /\ IsFiniteSet(S) /\ base \in B
  /\ \A s \in SUBSET S : s # {} => c[s] \in s
  /\ F \in [SUBSET S -> [B -> B]]

\* There is such a function for every finite set.
LEMMA FoldExists ==
  ASSUME NEW S, NEW B, NEW base, NEW c, NEW F, Foldable(S, B, base, c, F)
  PROVE  \E g \in [SUBSET S -> B] : Folding(g, SUBSET S, base, c, F)
<1>1. /\ IsFiniteSet(S) /\ base \in B
      /\ \A s \in SUBSET S : s # {} => c[s] \in s
      /\ F \in [SUBSET S -> [B -> B]]
  BY DEF Foldable
<1>. USE <1>1
<1>. DEFINE Sub(n) == {s \in SUBSET S : Cardinality(s) <= n}
            Q(n) == \E g \in [Sub(n) -> B] : Folding(g, Sub(n), base, c, F)
            N == {n \in Nat : ~Q(n)}
<1>2. \A s \in SUBSET S : IsFiniteSet(s) /\ Cardinality(s) \in Nat
  BY FS_Subset, FS_CardinalityType
<1>3. Q(0)
  <2>1. \A s \in Sub(0) : s = {}
    BY <1>2, FS_EmptySet
  <2>2. PICK g : g = [s \in Sub(0) |-> base]
    OBVIOUS
  <2>3. g \in [Sub(0) -> B] /\ Folding(g, Sub(0), base, c, F)
    BY <2>1, <2>2 DEF Folding
  <2>. QED
    BY <2>3
<1>4. ASSUME NEW n \in Nat, Q(n)
      PROVE  Q(n + 1)
  <2>1. PICK g \in [Sub(n) -> B] : Folding(g, Sub(n), base, c, F)
    BY <1>4
  <2>2. PICK D, E : D = Sub(n) /\ E = Sub(n + 1)
    OBVIOUS
  <2>3. D \subseteq E /\ E \subseteq SUBSET S
    BY <1>2, <2>2
  <2>4. ASSUME NEW s \in E, s # {}
        PROVE  c[s] \in s /\ s \ {c[s]} \in D /\ s \ {c[s]} \in SUBSET S
    <3>1. s \in SUBSET S /\ Cardinality(s) <= n + 1 /\ c[s] \in s
      BY <2>2, <2>4
    <3>2. Cardinality(s \ {c[s]}) = Cardinality(s) - 1 /\ Cardinality(s) \in Nat
      BY <1>2, <3>1, FS_RemoveElement
    <3>3. Cardinality(s \ {c[s]}) <= n
      BY <3>1, <3>2
    <3>. QED
      BY <2>2, <3>1, <3>3
  <2>5. g \in [D -> B] /\ \A s \in D : g[s] = IF s = {} THEN base ELSE F[s][g[s \ {c[s]}]]
    BY <2>1, <2>2 DEF Folding
  <2>. HIDE DEF Sub
  <2>6. PICK h : h = [s \in E |-> IF s = {} THEN base ELSE F[s][g[s \ {c[s]}]]]
    OBVIOUS
  <2>7. ASSUME NEW s \in E
        PROVE  /\ h[s] \in B
               /\ h[s] = IF s = {} THEN base ELSE F[s][g[s \ {c[s]}]]
    <3>1. CASE s = {}
      BY <2>6, <3>1
    <3>2. CASE s # {}
      <4>1. PICK r \in D : r = s \ {c[s]}
        BY <2>4, <3>2
      <4>2. g[r] \in B /\ s \in SUBSET S
        BY <2>3, <2>5
      <4>3. F[s][g[r]] \in B
        BY <4>2
      <4>. QED
        BY <2>6, <3>2, <4>1, <4>3
    <3>. QED
      BY <3>1, <3>2
  <2>8. h \in [E -> B]
    BY <2>6, <2>7
  <2>9. \A s \in D : h[s] = g[s]
    BY <2>3, <2>5, <2>7
  <2>10. Folding(h, E, base, c, F)
    BY <2>4, <2>7, <2>9 DEF Folding
  <2>. QED
    BY <2>2, <2>8, <2>10
<1>5. N = {}
  <2>1. SUFFICES ASSUME N # {}
                 PROVE  FALSE
    OBVIOUS
  <2>. HIDE DEF Q
  <2>2. PICK m \in Nat : ~Q(m) /\ \A k \in N : m <= k
    <3>1. N \in SUBSET Nat
      OBVIOUS
    <3>2. PICK m \in N : \A k \in N : m <= k
      <4>. HIDE DEF N
      <4>. QED
        BY <2>1, <3>1, Smallest
    <3>. QED
      BY <3>2
  <2>3. m # 0
    BY <1>3, <2>2
  <2>4. PICK k \in Nat : m = k + 1
    <3>1. m - 1 \in Nat /\ m = (m - 1) + 1
      BY <2>3
    <3>. QED
      BY <3>1
  <2>5. Q(k)
    BY <2>2, <2>4
  <2>6. Q(k + 1)
    BY <1>4, <2>5
  <2>. QED
    BY <2>2, <2>4, <2>6
<1>6. Q(Cardinality(S))
  BY <1>2, <1>5
<1>7. Sub(Cardinality(S)) = SUBSET S
  BY <1>2, FS_Subset
<1>8. PICK D : D = Sub(Cardinality(S))
  OBVIOUS
<1>9. \E g \in [D -> B] : Folding(g, D, base, c, F)
  BY <1>6, <1>8
<1>10. D = SUBSET S
  BY <1>7, <1>8
<1>. HIDE DEF Sub, Q
<1>. QED
  BY <1>9, <1>10

-----------------------------------------------------------------------------
(* Sums over finite sets. *)

\* g is the sum of the weights of each subset of S, taken up in some order.
SumRule(g, S, w) ==
  /\ IsFiniteSet(S) /\ w \in [S -> Nat] /\ g \in [SUBSET S -> Nat] /\ g[{}] = 0
  /\ \A s \in SUBSET S : s # {} => \E x \in s : g[s] = g[s \ {x}] + w[x]

\* The order makes no difference.
LEMMA SumInAnyOrder ==
  ASSUME NEW g, NEW S, NEW w, SumRule(g, S, w)
  PROVE  \A s \in SUBSET S : \A x \in s : g[s] = g[s \ {x}] + w[x]
<1>. DEFINE T == {s \in SUBSET S : \A x \in s : g[s] = g[s \ {x}] + w[x]}
<1>1. ASSUME NEW s \in SUBSET S, \A r \in SUBSET s : r # s => r \in T, NEW x \in s
      PROVE  g[s] = g[s \ {x}] + w[x]
  <2>1. PICK y \in s : g[s] = g[s \ {y}] + w[y]
    BY DEF SumRule
  <2>2. CASE x = y
    BY <2>1, <2>2
  <2>3. CASE x # y
    <3>1. PICK p, q, r : p = s \ {x} /\ q = s \ {y} /\ r = (s \ {x}) \ {y}
      OBVIOUS
    <3>2. p \in T /\ q \in T /\ y \in p /\ x \in q /\ r = p \ {y} /\ r = q \ {x}
      BY <1>1, <2>3, <3>1
    <3>3. g[p] = g[r] + w[y] /\ g[q] = g[r] + w[x]
      BY <3>2
    <3>4. g[r] \in Nat /\ w[x] \in Nat /\ w[y] \in Nat
      BY <3>2 DEF SumRule
    <3>. QED
      BY <2>1, <3>1, <3>3, <3>4
  <2>. QED
    BY <2>2, <2>3
<1>2. \A s \in SUBSET S : (\A r \in SUBSET s : r # s => r \in T) => s \in T
  BY <1>1
<1>3. \A s \in SUBSET S : s \in T
  <2>. HIDE DEF T
  <2>. QED
    BY <1>2, SubsetsByLess DEF SumRule
<1>. QED
  BY <1>3

\* What weighs nothing adds nothing.
LEMMA SumOfNothing ==
  ASSUME NEW g, NEW S, NEW w, SumRule(g, S, w), NEW s \in SUBSET S, \A x \in s : w[x] = 0
  PROVE  g[s] = 0
<1>. DEFINE T == {r \in SUBSET s : g[r] = 0}
<1>1. {} \in T /\ IsFiniteSet(s)
  BY FS_Subset DEF SumRule
<1>2. ASSUME NEW r \in SUBSET s, r # {}
      PROVE  \E x \in r : r \ {x} \in T => r \in T
  <2>1. PICK x \in r : TRUE
    BY <1>2
  <2>2. r \in SUBSET S /\ x \in s
    OBVIOUS
  <2>3. g[r] = g[r \ {x}] + w[x] /\ w[x] = 0
    BY <2>2, SumInAnyOrder
  <2>4. r \ {x} \in T => g[r \ {x}] = 0
    OBVIOUS
  <2>5. r \ {x} \in T => g[r] = 0
    BY <2>3, <2>4
  <2>. QED
    BY <2>5
<1>3. \A r \in SUBSET s : r \in T
  <2>. HIDE DEF T
  <2>. QED
    BY <1>1, <1>2, SubsetsByOne
<1>. QED
  BY <1>3

\* The order in which the folds of the community modules take the elements.
SumAsChosen(g, S, w) ==
  g = [s \in SUBSET S |-> IF s = {} THEN 0
                          ELSE g[s \ {CHOOSE x \in s : TRUE}] + w[CHOOSE x \in s : TRUE]]

\* A sum over a finite set has a value.
LEMMA SumExists ==
  ASSUME NEW S, IsFiniteSet(S), NEW w, w \in [S -> Nat]
  PROVE  \E g : SumRule(g, S, w) /\ SumAsChosen(g, S, w)
<1>. DEFINE c == [s \in SUBSET S |-> CHOOSE x \in s : TRUE]
            F == [s \in SUBSET S |-> [b \in Nat |-> IF s = {} THEN b ELSE b + w[c[s]]]]
<1>1. \A s \in SUBSET S : s # {} => c[s] \in s
  OBVIOUS
<1>2. F \in [SUBSET S -> [Nat -> Nat]]
  <2>1. \A s \in SUBSET S : s # {} => w[c[s]] \in Nat
    BY <1>1
  <2>. QED
    BY <2>1
<1>3. PICK d, H : d = c /\ H = F
  OBVIOUS
<1>4. \A s \in SUBSET S : s # {} => d[s] \in s /\ d[s] = CHOOSE x \in s : TRUE
  BY <1>1, <1>3
<1>5. H \in [SUBSET S -> [Nat -> Nat]]
  BY <1>2, <1>3
<1>6. \A s \in SUBSET S : s # {} => \A b \in Nat : H[s][b] = b + w[d[s]]
  BY <1>3
<1>. HIDE DEF c, F
<1>7. PICK g \in [SUBSET S -> Nat] : Folding(g, SUBSET S, 0, d, H)
  <2>1. Foldable(S, Nat, 0, d, H)
    BY <1>4, <1>5 DEF Foldable
  <2>. QED
    BY <2>1, FoldExists
<1>8. ASSUME NEW s \in SUBSET S, s # {}
      PROVE  g[s] = g[s \ {CHOOSE x \in s : TRUE}] + w[CHOOSE x \in s : TRUE]
  <2>1. PICK r \in SUBSET S : r = s \ {d[s]}
    BY <1>8
  <2>2. g[r] \in Nat /\ g[s] = H[s][g[r]]
    BY <1>7, <1>8, <2>1 DEF Folding
  <2>3. g[s] = g[r] + w[d[s]]
    BY <1>6, <1>8, <2>2
  <2>. QED
    BY <1>4, <1>8, <2>1, <2>3
<1>9. g[{}] = 0
  BY <1>7 DEF Folding
<1>10. PICK h : h = [s \in SUBSET S |->
                       IF s = {} THEN 0
                       ELSE g[s \ {CHOOSE x \in s : TRUE}] + w[CHOOSE x \in s : TRUE]]
  OBVIOUS
<1>11. \A s \in SUBSET S : h[s] = g[s]
  <2>1. \A s \in SUBSET S : s # {} => h[s] = g[s]
    BY <1>8, <1>10
  <2>. QED
    BY <1>9, <1>10, <2>1
<1>12. g = h
  <2>1. DOMAIN h = SUBSET S /\ h = [s \in SUBSET S |-> h[s]]
    BY <1>10
  <2>2. g = [s \in SUBSET S |-> g[s]]
    BY <1>7
  <2>. QED
    BY <1>11, <2>1, <2>2
<1>13. SumRule(g, S, w)
  <2>1. \A s \in SUBSET S : s # {} => \E x \in s : g[s] = g[s \ {x}] + w[x]
    <3>1. ASSUME NEW s \in SUBSET S, s # {}
          PROVE  \E x \in s : g[s] = g[s \ {x}] + w[x]
      <4>1. (CHOOSE x \in s : TRUE) \in s
        BY <3>1
      <4>. QED
        BY <1>8, <3>1, <4>1
    <3>. QED
      BY <3>1
  <2>. QED
    BY <1>7, <1>9, <2>1 DEF SumRule
<1>. QED
  BY <1>10, <1>12, <1>13 DEF SumAsChosen

\* The same sum as a fold writes it, and that any such function is one.
SumAsFolded(g, S, w) ==
  g = [s \in SUBSET S |-> IF s = {} THEN 0
                          ELSE w[CHOOSE x \in s : TRUE] + g[s \ {CHOOSE x \in s : TRUE}]]

\* A sum that is folded, in whatever order the fold takes, obeys the rule for sums.
LEMMA SumFolded ==
  ASSUME NEW S, IsFiniteSet(S), NEW w, w \in [S -> Nat]
  PROVE  /\ \E g : SumAsFolded(g, S, w)
         /\ \A g : SumAsFolded(g, S, w) => SumRule(g, S, w)
<1>1. \E g : SumAsFolded(g, S, w)
  <2>1. PICK g : SumRule(g, S, w) /\ SumAsChosen(g, S, w)
    BY SumExists
  <2>2. PICK h : h = [s \in SUBSET S |->
                        IF s = {} THEN 0
                        ELSE w[CHOOSE x \in s : TRUE] + g[s \ {CHOOSE x \in s : TRUE}]]
    OBVIOUS
  <2>3. ASSUME NEW s \in SUBSET S
        PROVE  h[s] = g[s]
    <3>1. CASE s = {}
      BY <2>1, <2>2, <3>1 DEF SumAsChosen
    <3>2. CASE s # {}
      <4>1. PICK x : x = CHOOSE y \in s : TRUE
        OBVIOUS
      <4>2. PICK r \in SUBSET S : r = s \ {x}
        OBVIOUS
      <4>3. g[s] = g[r] + w[x] /\ h[s] = w[x] + g[r]
        BY <2>1, <2>2, <3>2, <4>1, <4>2 DEF SumAsChosen
      <4>4. x \in s /\ g[r] \in Nat /\ w[x] \in Nat
        BY <2>1, <3>2, <4>1 DEF SumRule
      <4>. QED
        BY <4>3, <4>4
    <3>. QED
      BY <3>1, <3>2
  <2>4. g = h
    <3>1. g = [s \in SUBSET S |-> g[s]]
      BY <2>1 DEF SumAsChosen
    <3>2. h = [s \in SUBSET S |-> h[s]]
      BY <2>2
    <3>. QED
      BY <2>3, <3>1, <3>2
  <2>. QED
    BY <2>2, <2>4 DEF SumAsFolded
<1>2. ASSUME NEW g, SumAsFolded(g, S, w)
      PROVE  SumRule(g, S, w)
  <2>1. DOMAIN g = SUBSET S /\ g[{}] = 0 /\ g = [s \in SUBSET S |-> g[s]]
    BY <1>2 DEF SumAsFolded
  <2>2. ASSUME NEW s \in SUBSET S, s # {}
        PROVE  \E x \in s : g[s] = w[x] + g[s \ {x}]
    <3>1. PICK x : x = CHOOSE y \in s : TRUE
      OBVIOUS
    <3>2. x \in s /\ g[s] = w[x] + g[s \ {x}]
      BY <1>2, <2>2, <3>1 DEF SumAsFolded
    <3>. QED
      BY <3>2
  <2>. DEFINE T == {s \in SUBSET S : g[s] \in Nat}
  <2>3. {} \in T
    BY <2>1
  <2>4. ASSUME NEW s \in SUBSET S, s # {}
        PROVE  \E x \in s : s \ {x} \in T => s \in T
    <3>1. PICK x \in s : g[s] = w[x] + g[s \ {x}]
      BY <2>2, <2>4
    <3>2. w[x] \in Nat
      OBVIOUS
    <3>3. g[s \ {x}] \in Nat => g[s] \in Nat
      BY <3>1, <3>2
    <3>. QED
      BY <3>3
  <2>5. \A s \in SUBSET S : s \in T
    <3>. HIDE DEF T
    <3>. QED
      BY <2>3, <2>4, SubsetsByOne
  <2>6. g \in [SUBSET S -> Nat]
    BY <2>1, <2>5
  <2>7. ASSUME NEW s \in SUBSET S, s # {}
        PROVE  \E x \in s : g[s] = g[s \ {x}] + w[x]
    <3>1. PICK x \in s : g[s] = w[x] + g[s \ {x}]
      BY <2>2, <2>7
    <3>2. g[s \ {x}] \in Nat /\ w[x] \in Nat
      BY <2>5
    <3>3. g[s] = g[s \ {x}] + w[x]
      BY <3>1, <3>2
    <3>. QED
      BY <3>3
  <2>. QED
    BY <2>1, <2>6, <2>7 DEF SumRule
<1>. QED
  BY <1>1, <1>2

\* A sum over more, of what weighs no less, is no less.
LEMMA SumGrows ==
  ASSUME NEW g, NEW A, NEW v, SumRule(g, A, v), NEW h, NEW B, NEW w, SumRule(h, B, w),
         A \subseteq B, \A x \in A : v[x] <= w[x]
  PROVE  g[A] <= h[B] /\ g[A] \in Nat /\ h[B] \in Nat
<1>. DEFINE T == {s \in SUBSET B : g[s \intersect A] <= h[s]}
<1>1. \A s \in SUBSET B : g[s \intersect A] \in Nat /\ h[s] \in Nat
  BY DEF SumRule
<1>2. {} \in T
  <2>1. {} \intersect A = {}
    OBVIOUS
  <2>2. g[{}] = 0 /\ h[{}] = 0
    BY DEF SumRule
  <2>. QED
    BY <2>1, <2>2
<1>3. ASSUME NEW s \in SUBSET B, s # {}
      PROVE  \E x \in s : s \ {x} \in T => s \in T
  <2>1. PICK x \in s : TRUE
    BY <1>3
  <2>2. PICK r \in SUBSET B : r = s \ {x}
    OBVIOUS
  <2>3. h[s] = h[r] + w[x] /\ h[r] \in Nat /\ h[s] \in Nat /\ w[x] \in Nat
    <3>1. h[s] = h[s \ {x}] + w[x]
      BY SumInAnyOrder
    <3>. QED
      BY <1>1, <2>2, <3>1 DEF SumRule
  <2>4. CASE x \in A
    <3>1. PICK p, q : p = s \intersect A /\ q = r \intersect A
      OBVIOUS
    <3>2. p \in SUBSET A /\ q \in SUBSET A /\ q = p \ {x} /\ x \in p
      BY <2>2, <2>4, <3>1
    <3>3. g[p] = g[p \ {x}] + v[x]
      BY <3>2, SumInAnyOrder
    <3>4. g[p] = g[q] + v[x]
      BY ONLY <3>2, <3>3
    <3>5. v[x] \in Nat /\ v[x] <= w[x] /\ g[q] \in Nat
      BY <2>4, <3>2 DEF SumRule
    <3>6. g[q] <= h[r] => g[p] <= h[s]
      BY <2>3, <3>4, <3>5
    <3>. QED
      BY <2>2, <3>1, <3>6
  <2>5. CASE x \notin A
    <3>1. PICK p \in SUBSET A : p = s \intersect A /\ p = r \intersect A
      BY <2>2, <2>5
    <3>2. g[p] \in Nat
      BY DEF SumRule
    <3>3. g[p] <= h[r] => g[p] <= h[s]
      BY <2>3, <3>2
    <3>. QED
      BY <2>2, <3>1, <3>3
  <2>. QED
    BY <2>4, <2>5
<1>4. B \in T
  <2>1. \A s \in SUBSET B : s \in T
    <3>1. IsFiniteSet(B)
      BY DEF SumRule
    <3>. HIDE DEF T
    <3>. QED
      BY <1>2, <1>3, <3>1, SubsetsByOne
  <2>. QED
    BY <2>1
<1>5. B \intersect A = A
  OBVIOUS
<1>. QED
  BY <1>1, <1>4, <1>5

-----------------------------------------------------------------------------
(* Sums of sequences of numbers. *)

\* The sum of what a function on a finite set has.
SumOf(w) == (CHOOSE g : SumRule(g, DOMAIN w, w))[DOMAIN w]

\* Whatever obeys the rule for sums has the sum.
LEMMA SumIs ==
  ASSUME NEW S, NEW w \in [S -> Nat], NEW g, SumRule(g, S, w)
  PROVE  SumOf(w) = g[S] /\ g[S] \in Nat
<1>1. PICK h : h = CHOOSE f : SumRule(f, DOMAIN w, w)
  OBVIOUS
<1>2. DOMAIN w = S
  OBVIOUS
<1>3. SumRule(h, S, w)
  BY <1>1, <1>2
<1>4. \A x \in S : w[x] <= w[x]
  BY DEF SumRule
<1>5. g[S] <= h[S] /\ g[S] \in Nat /\ h[S] \in Nat /\ h[S] <= g[S]
  BY ONLY <1>3, <1>4, SumRule(g, S, w), SumGrows
<1>. QED
  BY <1>1, <1>2, <1>5 DEF SumOf

\* A sum is that of the others, and one more.
LEMMA SumOfAll ==
  ASSUME NEW g, NEW S, NEW w, NEW x, SumRule(g, S, w), x \in S
  PROVE  g[S] = g[S \ {x}] + w[x]
<1>1. S \in SUBSET S
  OBVIOUS
<1>. QED
  BY <1>1, SumInAnyOrder

\* Adding a number to a sequence adds it to the sum.
LEMMA SumAppended ==
  ASSUME NEW n \in Nat, NEW s \in [1 .. n -> Nat], NEW t \in [1 .. n + 1 -> Nat],
         \A i \in 1 .. n : t[i] = s[i]
  PROVE  SumOf(s) \in Nat /\ SumOf(t) = SumOf(s) + t[n + 1]
<1>1. PICK A, B : A = 1 .. n /\ B = 1 .. n + 1
  OBVIOUS
<1>2. PICK last \in B : A \subseteq B /\ last = n + 1 /\ B \ {last} = A
  BY <1>1
<1>3. IsFiniteSet(A) /\ IsFiniteSet(B)
  BY <1>1, FS_Interval
<1>4. PICK g : SumRule(g, B, t)
  BY <1>1, <1>3, SumExists
<1>5. PICK h : h = [r \in SUBSET A |-> g[r]]
  OBVIOUS
<1>6. SumRule(h, A, s)
  <2>1. s \in [A -> Nat] /\ \A x \in A : t[x] = s[x]
    BY <1>1
  <2>2. h \in [SUBSET A -> Nat] /\ h[{}] = 0
    BY <1>2, <1>4, <1>5 DEF SumRule
  <2>3. ASSUME NEW r \in SUBSET A, r # {}
        PROVE  \E x \in r : h[r] = h[r \ {x}] + s[x]
    <3>1. PICK x \in r : g[r] = g[r \ {x}] + t[x]
      BY <1>2, <1>4, <2>3 DEF SumRule
    <3>2. h[r] = g[r] /\ h[r \ {x}] = g[r \ {x}] /\ t[x] = s[x]
      BY <1>5, <2>1
    <3>. QED
      BY <3>1, <3>2
  <2>. QED
    BY <1>3, <2>1, <2>2, <2>3 DEF SumRule
<1>7. g[B] = g[A] + t[n + 1]
  <2>1. PICK v, x : v = t /\ x = last
    OBVIOUS
  <2>2. SumRule(g, B, v) /\ x \in B
    BY <1>4, <2>1
  <2>3. g[B] = g[B \ {x}] + v[x]
    BY ONLY <2>2, SumOfAll
  <2>. QED
    BY <1>2, <2>1, <2>3
<1>8. g[A] = h[A]
  BY <1>5
<1>9. SumOf(s) = h[A] /\ h[A] \in Nat
  BY <1>1, <1>6, SumIs
<1>10. SumOf(t) = g[B]
  BY <1>1, <1>4, SumIs
<1>. QED
  BY <1>7, <1>8, <1>9, <1>10

\* The sum of nothing is 0.
LEMMA SumOfEmpty ==
  ASSUME NEW s \in [1 .. 0 -> Nat]
  PROVE  SumOf(s) = 0
<1>1. PICK A : A = 1 .. 0 /\ A = {}
  OBVIOUS
<1>2. PICK g : SumRule(g, A, s)
  BY <1>1, FS_EmptySet, SumExists
<1>3. g[A] = 0
  BY <1>1, <1>2 DEF SumRule
<1>. QED
  BY <1>1, <1>2, <1>3, SumIs

\* The sums of the first numbers of a sequence.
RunningSum(g, n, w) ==
  /\ g \in [0 .. n -> Nat] /\ g[0] = 0
  /\ \A k \in 1 .. n : g[k] = g[k - 1] + w[k]

\* What adds up the same way is the sum.
LEMMA RunningSumIs ==
  ASSUME NEW n \in Nat, NEW w \in [1 .. n -> Nat], NEW g, RunningSum(g, n, w)
  PROVE  SumOf(w) = g[n]
<1>. DEFINE First(k) == [i \in 1 .. k |-> w[i]]
            T == {k \in Nat : k <= n /\ SumOf(First(k)) # g[k]}
<1>1. SUFFICES ASSUME T # {} PROVE FALSE
  <2>1. n \notin T => SumOf(First(n)) = g[n]
    OBVIOUS
  <2>2. First(n) = w
    OBVIOUS
  <2>. QED
    BY <2>1, <2>2
<1>2. PICK m \in T : \A k \in T : m <= k
  BY <1>1, Smallest
<1>3. CASE m = 0
  <2>1. First(0) \in [1 .. 0 -> Nat]
    OBVIOUS
  <2>. HIDE DEF First
  <2>2. SumOf(First(0)) = 0
    BY <2>1, SumOfEmpty
  <2>. QED
    BY <2>2, <1>2, <1>3 DEF RunningSum
<1>4. CASE m # 0
  <2>1. PICK k \in Nat : m = k + 1 /\ k + 1 <= n /\ k < n
    <3>1. m - 1 \in Nat /\ m = (m - 1) + 1
      BY <1>4
    <3>. QED
      BY <3>1, <1>2
  <2>2. SumOf(First(k)) = g[k]
    BY <2>1, <1>2
  <2>3. PICK s, t : s = First(k) /\ t = First(k + 1)
    OBVIOUS
  <2>4. /\ s \in [1 .. k -> Nat] /\ t \in [1 .. k + 1 -> Nat]
        /\ \A i \in 1 .. k : t[i] = s[i]
        /\ t[k + 1] = w[k + 1]
    BY <2>1, <2>3
  <2>. HIDE DEF First
  <2>5. SumOf(t) = SumOf(s) + t[k + 1]
    BY <2>4, SumAppended
  <2>6. k + 1 \in 1 .. n /\ (k + 1) - 1 = k
    BY <2>1
  <2>7. g[k + 1] = g[k] + w[k + 1]
    BY <2>6 DEF RunningSum
  <2>8. SumOf(First(m)) = g[m]
    BY <2>1, <2>2, <2>3, <2>4, <2>5, <2>7
  <2>. QED
    BY <2>8, <1>2 
<1>. QED
  BY <1>3, <1>4

\* And there is such a sum.
LEMMA RunningSums ==
  ASSUME NEW n \in Nat, NEW w \in [1 .. n -> Nat]
  PROVE  \E g : RunningSum(g, n, w)
<1>. DEFINE First(k) == [i \in 1 .. k |-> w[i]]
<1>1. PICK g : g = [k \in 0 .. n |-> SumOf(First(k))]
  OBVIOUS
<1>2. ASSUME NEW k \in 0 .. n, k # n
      PROVE  g[k] \in Nat /\ g[k + 1] = g[k] + w[k + 1]
  <2>1. PICK s, t : s = First(k) /\ t = First(k + 1)
    OBVIOUS
  <2>2. /\ s \in [1 .. k -> Nat] /\ t \in [1 .. k + 1 -> Nat] /\ k \in Nat
        /\ \A i \in 1 .. k : t[i] = s[i]
        /\ t[k + 1] = w[k + 1]
    BY <1>2, <2>1
  <2>3. SumOf(s) \in Nat /\ SumOf(t) = SumOf(s) + t[k + 1]
    BY <2>2, SumAppended
  <2>4. k + 1 \in 0 .. n
    BY <1>2
  <2>. HIDE DEF First
  <2>. QED
    BY <1>1, <2>1, <2>2, <2>3, <2>4
<1>3. g[0] = 0
  <2>1. First(0) \in [1 .. 0 -> Nat]
    OBVIOUS
  <2>. HIDE DEF First
  <2>. QED
    BY <2>1, <1>1, SumOfEmpty
<1>4. ASSUME NEW k \in 1 .. n
      PROVE  g[k] \in Nat /\ g[k] = g[k - 1] + w[k]
  <2>1. PICK j \in 0 .. n : j = k - 1 /\ j # n /\ j + 1 = k
    OBVIOUS
  <2>2. g[j] \in Nat /\ g[k] = g[j] + w[k] /\ w[k] \in Nat
    BY <1>2, <2>1
  <2>. QED
    BY <2>1, <2>2
<1>5. g \in [0 .. n -> Nat]
  <2>1. \A k \in 0 .. n : k = 0 \/ k \in 1 .. n
    OBVIOUS
  <2>2. \A k \in 0 .. n : g[k] \in Nat
    BY <1>3, <1>4, <2>1
  <2>. HIDE DEF First
  <2>. QED
    BY <1>1, <2>2
<1>. QED
  BY <1>3, <1>4, <1>5 DEF RunningSum

\* The sums of the first numbers do not sink.
LEMMA RunningSumsGrow ==
  ASSUME NEW n \in Nat, NEW w \in [1 .. n -> Nat], NEW g, RunningSum(g, n, w)
  PROVE  \A k \in 0 .. n : g[k] \in Nat /\ g[k] <= g[n]
<1>. DEFINE T == {j \in Nat : j <= n /\ ~ (g[n - j] <= g[n])}
<1>1. T = {}
  <2>1. SUFFICES ASSUME T # {} PROVE FALSE
    OBVIOUS
  <2>2. PICK m \in T : \A j \in T : m <= j
    BY <2>1, Smallest
  <2>3. m # 0
    <3>1. g[n] \in Nat
      BY DEF RunningSum
    <3>. QED
      BY <3>1, <2>2
  <2>4. PICK k \in 1 .. n : k = n - m + 1 /\ k - 1 = n - m /\ k = n - (m - 1)
    BY <2>3
  <2>5. m - 1 \notin T /\ m - 1 \in Nat
    BY <2>2, <2>3
  <2>6. g[k] <= g[n]
    BY <2>4, <2>5
  <2>7. /\ g[k] = g[k - 1] + w[k] /\ w[k] \in Nat
        /\ g[k - 1] \in Nat /\ g[n] \in Nat
    BY DEF RunningSum
  <2>8. g[k - 1] <= g[n]
    BY <2>6, <2>7
  <2>. QED
    BY <2>2, <2>4, <2>8
<1>2. \A k \in 0 .. n : g[k] \in Nat /\ g[k] <= g[n]
  <2>1. ASSUME NEW k \in 0 .. n PROVE g[k] \in Nat /\ g[k] <= g[n]
    <3>1. n - k \in Nat /\ n - k <= n /\ n - (n - k) = k
      OBVIOUS
    <3>2. n - k \notin T
      BY <1>1
    <3>. QED
      BY <3>1, <3>2 DEF RunningSum
  <2>. QED
    BY <2>1
<1>. QED
  BY <1>2

\* The first k of them sum up to no more than all.
SumTo(w, k) == SumOf([i \in 1 .. k |-> w[i]])

\* The sums of the first ones, one after another, up to the sum of all.
LEMMA SumsTo ==
  ASSUME NEW n \in Nat, NEW w \in [1 .. n -> Nat]
  PROVE  /\ SumOf(w) \in Nat /\ SumTo(w, 0) = 0 /\ SumTo(w, n) = SumOf(w)
         /\ \A k \in 0 .. n : SumTo(w, k) \in Nat /\ SumTo(w, k) <= SumOf(w)
         /\ \A k \in 1 .. n : SumTo(w, k) = SumTo(w, k - 1) + w[k]
<1>1. PICK g : RunningSum(g, n, w)
  BY RunningSums
<1>2. ASSUME NEW k \in 0 .. n
      PROVE  SumTo(w, k) = g[k]
  <2>1. PICK v, h : v = [i \in 1 .. k |-> w[i]] /\ h = [j \in 0 .. k |-> g[j]]
    OBVIOUS
  <2>2. k \in Nat /\ v \in [1 .. k -> Nat]
    BY <2>1
  <2>3. RunningSum(h, k, v)
    <3>1. h \in [0 .. k -> Nat] /\ h[0] = 0
      BY <1>1, <2>1 DEF RunningSum
    <3>2. \A j \in 1 .. k : j \in 0 .. k /\ j - 1 \in 0 .. k /\ j \in 1 .. n
      OBVIOUS
    <3>3. \A j \in 1 .. k : h[j] = h[j - 1] + v[j]
      BY <1>1, <2>1, <3>2 DEF RunningSum
    <3>. QED
      BY <3>1, <3>3 DEF RunningSum
  <2>4. SumOf(v) = h[k]
    BY <2>2, <2>3, RunningSumIs
  <2>. QED
    BY <2>1, <2>4 DEF SumTo
<1>3. SumTo(w, n) = SumOf(w)
  <2>1. [i \in 1 .. n |-> w[i]] = w
    OBVIOUS
  <2>. QED
    BY <2>1 DEF SumTo
<1>5. \A k \in 0 .. n : g[k] \in Nat /\ g[k] <= g[n]
  BY <1>1, RunningSumsGrow
<1>6. 0 \in 0 .. n /\ n \in 0 .. n /\ \A k \in 1 .. n : k \in 0 .. n /\ k - 1 \in 0 .. n
  OBVIOUS
<1>7. g[0] = 0 /\ \A k \in 1 .. n : g[k] = g[k - 1] + w[k]
  BY <1>1 DEF RunningSum
<1>. QED
  BY <1>2, <1>3, <1>5, <1>6, <1>7

\* Two sequences, end to end.
LEMMA SumJoined ==
  ASSUME NEW s \in Seq(Nat), NEW t \in Seq(Nat), NEW both, both = s \o t
  PROVE  SumOf(both) = SumOf(s) + SumOf(t)
<1>1. PICK n \in Nat, m \in Nat : n = Len(s) /\ m = Len(t)
  OBVIOUS
<1>2. /\ s \in [1 .. n -> Nat] /\ t \in [1 .. m -> Nat] /\ both \in [1 .. n + m -> Nat]
      /\ \A i \in 1 .. n : both[i] = s[i]
      /\ \A i \in 1 .. n + m : i \notin 1 .. n => i - n \in 1 .. m /\ both[i] = t[i - n]
  <2>1. s \in [1 .. n -> Nat] /\ t \in [1 .. m -> Nat]
    BY <1>1
  <2>2. both \in Seq(Nat) /\ Len(both) = n + m
    BY <1>1
  <2>3. both \in [1 .. n + m -> Nat]
    <3>1. \A f \in Seq(Nat) : f \in [1 .. Len(f) -> Nat]
      OBVIOUS
    <3>2. both \in [1 .. Len(both) -> Nat]
      BY <2>2, <3>1, Zenon
    <3>. QED
      BY <2>2, <3>2, Zenon
  <2>4. \A i \in 1 .. n : both[i] = s[i]
    BY <1>1
  <2>5. \A i \in 1 .. n + m : i \notin 1 .. n => i - n \in 1 .. m /\ both[i] = t[i - n]
    BY <1>1
  <2>. QED
    BY <2>1, <2>3, <2>4, <2>5
<1>3. PICK g, h : RunningSum(g, n, s) /\ RunningSum(h, m, t)
  BY <1>2, RunningSums
<1>4. /\ g \in [0 .. n -> Nat] /\ g[0] = 0 /\ \A k \in 1 .. n : g[k] = g[k - 1] + s[k]
      /\ h \in [0 .. m -> Nat] /\ h[0] = 0 /\ \A k \in 1 .. m : h[k] = h[k - 1] + t[k]
  BY <1>3 DEF RunningSum
<1>5. PICK f : f = [k \in 0 .. n + m |-> IF k <= n THEN g[k] ELSE g[n] + h[k - n]]
  OBVIOUS
<1>6. ASSUME NEW k \in 0 .. n + m
      PROVE  f[k] \in Nat /\ (k <= n => f[k] = g[k]) /\ (k >= n => f[k] = g[n] + h[k - n])
  <2>1. CASE k <= n
    <3>1. k \in 0 .. n /\ f[k] = g[k]
      BY <2>1, <1>5
    <3>2. k >= n => k = n /\ k - n = 0
      BY <3>1
    <3>. QED
      BY <2>1, <3>1, <3>2, <1>4
  <2>2. CASE ~ (k <= n)
    <3>1. k - n \in 0 .. m /\ f[k] = g[n] + h[k - n]
      BY <2>2, <1>5
    <3>2. g[n] \in Nat /\ h[k - n] \in Nat
      BY <3>1, <1>4
    <3>. QED
      BY <2>2, <3>1, <3>2
  <2>. QED
    BY <2>1, <2>2
<1>7. ASSUME NEW k \in 1 .. n + m
      PROVE  f[k] = f[k - 1] + both[k]
  <2>1. k \in 0 .. n + m /\ k - 1 \in 0 .. n + m
    OBVIOUS
  <2>2. CASE k <= n
    <3>1. k \in 1 .. n /\ k - 1 <= n
      BY <2>2
    <3>. QED
      BY <3>1, <2>1, <2>2, <1>2, <1>4, <1>6
  <2>3. CASE ~ (k <= n)
    <3>1. PICK j \in 1 .. m : j = k - n /\ k - 1 - n = j - 1 /\ k - 1 >= n /\ k >= n /\ k \notin 1 .. n
      BY <2>3
    <3>2. f[k] = g[n] + h[j] /\ f[k - 1] = g[n] + h[j - 1] /\ both[k] = t[j]
      BY <3>1, <2>1, <1>2, <1>6
    <3>3. h[j] = h[j - 1] + t[j] /\ t[j] \in Nat
      BY <1>2, <1>4
    <3>4. g[n] \in Nat /\ h[j - 1] \in Nat
      <4>1. n \in 0 .. n /\ j - 1 \in 0 .. m
        OBVIOUS
      <4>. QED
        BY <4>1, <1>4
    <3>. QED
      BY <3>2, <3>3, <3>4
  <2>. QED
    BY <2>2, <2>3
<1>8. RunningSum(f, n + m, both)
  <2>1. f \in [0 .. n + m -> Nat] /\ f[0] = 0
    <3>1. 0 \in 0 .. n + m /\ 0 <= n
      OBVIOUS
    <3>. QED
      BY <3>1, <1>4, <1>5, <1>6
  <2>. QED
    BY <2>1, <1>7 DEF RunningSum
<1>9. SumOf(both) = f[n + m] /\ SumOf(s) = g[n] /\ SumOf(t) = h[m]
  <2>1. n + m \in Nat
    OBVIOUS
  <2>. QED
    BY <2>1, <1>2, <1>3, <1>8, RunningSumIs
<1>10. f[n + m] = g[n] + h[m]
  <2>1. n + m \in 0 .. n + m /\ n + m >= n /\ (n + m) - n = m
    OBVIOUS
  <2>. QED
    BY <2>1, <1>6
<1>. QED
  BY <1>9, <1>10

\* The other way around they sum up to the same.
LEMMA SumReversed ==
  ASSUME NEW n \in Nat, NEW s \in [1 .. n -> Nat], NEW t \in [1 .. n -> Nat],
         \A i \in 1 .. n : t[i] = s[n - i + 1]
  PROVE  SumOf(t) = SumOf(s)
<1>1. PICK g : RunningSum(g, n, s)
  BY RunningSums
<1>2. /\ g \in [0 .. n -> Nat] /\ g[0] = 0 /\ \A k \in 1 .. n : g[k] = g[k - 1] + s[k]
      /\ SumOf(s) = g[n]
  BY <1>1, RunningSumIs DEF RunningSum
<1>3. \A k \in 0 .. n : g[k] \in Nat /\ g[k] <= g[n]
  BY <1>1, RunningSumsGrow
<1>4. PICK f : f = [k \in 0 .. n |-> g[n] - g[n - k]]
  OBVIOUS
<1>5. ASSUME NEW k \in 0 .. n
      PROVE  n - k \in 0 .. n /\ f[k] \in Nat /\ f[k] = g[n] - g[n - k]
  <2>1. n - k \in 0 .. n
    OBVIOUS
  <2>2. g[n - k] \in Nat /\ g[n] \in Nat /\ g[n - k] <= g[n]
    BY <2>1, <1>3
  <2>. QED
    BY <2>1, <2>2, <1>4
<1>6. ASSUME NEW k \in 1 .. n
      PROVE  f[k] = f[k - 1] + t[k]
  <2>1. PICK j \in 1 .. n : j = n - k + 1 /\ n - k = j - 1 /\ n - (k - 1) = j
    OBVIOUS
  <2>2. k \in 0 .. n /\ k - 1 \in 0 .. n
    OBVIOUS
  <2>3. f[k] = g[n] - g[j - 1] /\ f[k - 1] = g[n] - g[j] /\ t[k] = s[j]
    BY <2>1, <2>2, <1>5
  <2>4. g[j] = g[j - 1] + s[j] /\ g[j - 1] \in Nat /\ s[j] \in Nat /\ g[n] \in Nat
    BY <1>2
  <2>. QED
    BY <2>3, <2>4
<1>7. RunningSum(f, n, t)
  <2>1. f[0] = 0
    <3>1. 0 \in 0 .. n /\ n - 0 = n /\ g[n] \in Nat
      BY <1>2
    <3>2. f[0] = g[n] - g[n]
      BY <3>1, <1>5
    <3>. QED
      BY <3>1, <3>2
  <2>2. f \in [0 .. n -> Nat]
    BY <1>4, <1>5
  <2>. QED
    BY <2>1, <2>2, <1>6 DEF RunningSum
<1>8. SumOf(t) = f[n]
  BY <1>7, RunningSumIs
<1>9. f[n] = g[n]
  <2>1. n \in 0 .. n /\ n - n = 0 /\ g[n] \in Nat
    BY <1>2
  <2>2. f[n] = g[n] - g[0]
    BY <2>1, <1>5
  <2>. QED
    BY <1>2, <2>1, <2>2
<1>. QED
  BY <1>2, <1>8, <1>9
=============================================================================
