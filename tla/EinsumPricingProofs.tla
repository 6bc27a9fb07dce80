------------------------ MODULE EinsumPricingProofs -------------------------
(***************************************************************************)
(* Theorems about the pricing of contractions: the groups that Dimino's    *)
(* algorithm enumerates, the renamings that are detected, the generators   *)
(* that are kept of them, the symmetry of a result, and what the cache and *)
(* the settings answer, for every set of contractions and every budget.    *)
(***************************************************************************)
EXTENDS EinsumPricing, FiniteSetTheorems, FunctionTheorems, WellFoundedInduction, TLAPS

-----------------------------------------------------------------------------
(***************************************************************************)
(* Finite sets and functions.                                              *)
(***************************************************************************)
\* There are finitely many functions between finite sets.
LEMMA FunctionsFinite ==
  ASSUME NEW S, NEW T, IsFiniteSet(S), IsFiniteSet(T)
  PROVE  IsFiniteSet([S -> T])
<1> DEFINE graph == [f \in [S -> T] |-> {<<x, f[x]>> : x \in S}]
<1>1. IsFiniteSet(S \X T)
  BY FS_Product
<1>2. IsFiniteSet(SUBSET (S \X T))
  BY <1>1, FS_SUBSET
<1>3. graph \in [[S -> T] -> SUBSET (S \X T)]
  OBVIOUS
<1>4. ASSUME NEW f \in [S -> T], NEW g \in [S -> T], graph[f] = graph[g]
      PROVE  f = g
  <2>1. ASSUME NEW x \in S PROVE f[x] = g[x]
    <3>1. <<x, f[x]>> \in {<<y, g[y]>> : y \in S}
      BY <1>4
    <3> QED BY <3>1
  <2> QED BY <2>1
<1>5. graph \in Injection([S -> T], SUBSET (S \X T))
  BY <1>3, <1>4 DEF Injection, IsInjective
<1> QED BY <1>2, <1>5, FS_Injection

\* Among the subsets of a finite set there are maximal ones.
LEMMA MaximalSubset ==
  ASSUME NEW U, IsFiniteSet(U), NEW B \in SUBSET (SUBSET U), B # {}
  PROVE  \E s \in B : \A t \in B : s \subseteq t => s = t
<1> DEFINE gone == {U \ s : s \in B}
<1>1. IsWellFoundedOn(StrictSubsetOrdering(U), SUBSET U)
  BY FS_StrictSubsetOrderingWellFounded, FS_FiniteSubsetsOfFinite
<1>2. gone \subseteq SUBSET U /\ gone # {}
  <2>1. gone \subseteq SUBSET U
    OBVIOUS
  <2>2. PICK s \in B : TRUE
    OBVIOUS
  <2>3. U \ s \in gone
    OBVIOUS
  <2> QED BY <2>1, <2>3
<1>3. PICK x \in gone : \A y \in gone : ~ (<<y, x>> \in StrictSubsetOrdering(U))
  BY <1>1, <1>2, WFMin
<1>4. PICK s \in B : x = U \ s
  OBVIOUS
<1>5. ASSUME NEW t \in B, s \subseteq t, s # t PROVE FALSE
  <2>1. U \ t \subseteq x /\ U \ t # x /\ U \ t \in gone
    BY <1>4, <1>5
  <2> QED BY <2>1, <1>2, <1>3 DEF StrictSubsetOrdering
<1> QED BY <1>5

\* A finite set of numbers that is not empty has a least element.
LEMMA LeastOfSet ==
  ASSUME NEW S \in SUBSET Int, IsFiniteSet(S), S # {}
  PROVE  Min(S) \in S /\ \A y \in S : Min(S) <= y
<1> DEFINE above(x) == {y \in S : x <= y}
           all == {above(x) : x \in S}
<1>1. all \in SUBSET (SUBSET S)
  OBVIOUS
<1>2. all # {}
  <2>1. PICK x \in S : TRUE
    OBVIOUS
  <2>2. above(x) \in all
    OBVIOUS
  <2> HIDE DEF above
  <2> QED BY <2>2
<1>3. PICK s \in all : \A t \in all : s \subseteq t => s = t
  <2>1. ASSUME NEW U, U = S PROVE \E s \in all : \A t \in all : s \subseteq t => s = t
    <3>1. IsFiniteSet(U) /\ all \in SUBSET (SUBSET U)
      BY <1>1, <2>1
    <3> HIDE DEF all
    <3> QED BY <1>2, <3>1, MaximalSubset
  <2> QED BY <2>1
<1>4. PICK x \in S : s = above(x)
  OBVIOUS
<1>5. ASSUME NEW y \in S PROVE x <= y
  <2>1. SUFFICES ASSUME y < x PROVE FALSE
    OBVIOUS
  <2>2. s \subseteq above(y) /\ y \notin s
    <3>1. \A z \in S : x <= z => y <= z
      BY <2>1
    <3>2. ~ (x <= y)
      BY <2>1
    <3> QED BY <3>1, <3>2, <1>4
  <2>3. y \in above(y)
    OBVIOUS
  <2>4. above(y) \in all
    OBVIOUS
  <2> HIDE DEF above, all
  <2> QED BY <2>2, <2>3, <2>4, <1>3
<1> QED BY <1>5 DEF Min

-----------------------------------------------------------------------------
(***************************************************************************)
(* Groups.                                                                 *)
(***************************************************************************)
\* Dimino's algorithm computes the least set with the generators and the
\* identity that the generators do not lead out of.
LEMMA DiminoIsLeast ==
  ASSUME NEW L, IsFiniteSet(L), NEW gens \in SUBSET [L -> L]
  PROVE  /\ Dimino(L, gens) \in SUBSET [L -> L]
         /\ gens \subseteq Dimino(L, gens)
         /\ Identity(L) \in Dimino(L, gens)
         /\ \A x \in Dimino(L, gens), g \in gens : Compose(x, g) \in Dimino(L, gens)
         /\ \A H \in SUBSET [L -> L] :
              /\ gens \cup {Identity(L)} \subseteq H
              /\ \A x \in H, g \in gens : Compose(x, g) \in H
              => Dimino(L, gens) \subseteq H
<1> DEFINE U == [L -> L]
           new(s) == {Compose(x, g) : x \in s, g \in gens} \ s
           Closed(s, H) == s \subseteq H /\ \A x \in H, g \in gens : Compose(x, g) \in H
           least(s) == {y \in U : \A H \in SUBSET U : Closed(s, H) => y \in H}
           IsLoop(f) == f = [seen \in SUBSET U |->
                              IF new(seen) = {} THEN seen ELSE f[seen \cup new(seen)]]
           w == [s \in SUBSET U |-> least(s)]
           grow == CHOOSE f : IsLoop(f)
           start == gens \cup {Identity(L)}
<1>1. ASSUME NEW x \in U, NEW g \in gens PROVE Compose(x, g) \in U
  BY DEF Compose
<1>2. ASSUME NEW s \in SUBSET U PROVE new(s) \in SUBSET U
  BY <1>1
<1>3. ASSUME NEW s \in SUBSET U, new(s) = {} PROVE least(s) = s
  <2>1. Closed(s, s)
    BY <1>3
  <2> QED BY <2>1
<1>4. ASSUME NEW s \in SUBSET U PROVE least(s) = least(s \cup new(s))
  <2>1. ASSUME NEW H \in SUBSET U PROVE Closed(s, H) <=> Closed(s \cup new(s), H)
    OBVIOUS
  <2> QED BY <2>1
<1>5. IsLoop(w)
  <2>1. ASSUME NEW s \in SUBSET U
        PROVE  w[s] = IF new(s) = {} THEN s ELSE w[s \cup new(s)]
    <3> HIDE DEF least, new, U
    <3>1. s \cup new(s) \in SUBSET U
      BY <1>2
    <3> QED BY <3>1, <1>3, <1>4
  <2> HIDE DEF least, new, U
  <2> QED BY <2>1
<1>6. IsLoop(grow)
  <2> HIDE DEF IsLoop, w
  <2> QED BY <1>5
<1>7. ASSUME NEW s \in SUBSET U PROVE grow[s] = least(s)
  <2> DEFINE Bad == {t \in SUBSET U : grow[t] # least(t)}
  <2>1. SUFFICES ASSUME Bad # {} PROVE FALSE
    <3> HIDE DEF grow, least, U
    <3> QED OBVIOUS
  <2>2. IsFiniteSet(U)
    BY FunctionsFinite
  <2>3. PICK t \in Bad : \A v \in Bad : t \subseteq v => t = v
    <3> HIDE DEF Bad, U
    <3>1. Bad \in SUBSET (SUBSET U)
      BY DEF Bad
    <3> QED BY <2>1, <2>2, <3>1, MaximalSubset
  <2>4. t \cup new(t) \in SUBSET U
    <3> HIDE DEF new, U, least, grow
    <3> QED BY <1>2
  <2>5. grow[t] = IF new(t) = {} THEN t ELSE grow[t \cup new(t)]
    <3> HIDE DEF grow, new
    <3> QED BY <1>6
  <2>6. new(t) # {}
    <3> HIDE DEF grow, new, least
    <3> QED BY <2>5, <1>3
  <2>7. t \cup new(t) \in Bad
    <3> HIDE DEF grow, new, least
    <3> QED BY <2>5, <2>6, <1>4, <2>4
  <2>8. t # t \cup new(t)
    BY <2>6
  <2> HIDE DEF Bad, new
  <2> QED BY <2>3, <2>7, <2>8
<1>8. Dimino(L, gens) = grow[start]
  BY DEF Dimino
<1>9. start \in SUBSET U
  BY DEF Identity
<1>10. Dimino(L, gens) = least(start)
  <2> HIDE DEF grow, least, start
  <2> QED BY <1>7, <1>8, <1>9
<1>11. \A x \in least(start), g \in gens : Compose(x, g) \in least(start)
  BY <1>1
<1> QED BY <1>10, <1>11, <1>9

\* Composition of functions on one set.
LEMMA ComposeFacts ==
  ASSUME NEW L
  PROVE  /\ Identity(L) \in [L -> L]
         /\ \A f, g \in [L -> L] : Compose(f, g) \in [L -> L]
         /\ \A f, g \in [L -> L] : \A l \in L : Compose(f, g)[l] = f[g[l]]
         /\ \A f \in [L -> L] : Compose(f, Identity(L)) = f /\ Compose(Identity(L), f) = f
         /\ \A f, g, h \in [L -> L] : Compose(Compose(f, g), h) = Compose(f, Compose(g, h))
<1>1. ASSUME NEW f \in [L -> L], NEW g \in [L -> L]
      PROVE  Compose(f, g) \in [L -> L] /\ \A l \in L : Compose(f, g)[l] = f[g[l]]
  BY DEF Compose
<1>2. ASSUME NEW f \in [L -> L], NEW g \in [L -> L], NEW h \in [L -> L]
      PROVE  Compose(Compose(f, g), h) = Compose(f, Compose(g, h))
  <2>1. /\ Compose(f, g) \in [L -> L] /\ Compose(g, h) \in [L -> L]
        /\ Compose(Compose(f, g), h) \in [L -> L] /\ Compose(f, Compose(g, h)) \in [L -> L]
    BY <1>1
  <2>2. ASSUME NEW l \in L
        PROVE  Compose(Compose(f, g), h)[l] = Compose(f, Compose(g, h))[l]
    <3>1. h[l] \in L /\ Compose(g, h)[l] = g[h[l]]
      BY <1>1
    <3>2. Compose(Compose(f, g), h)[l] = Compose(f, g)[h[l]]
      BY <2>1, <1>1
    <3>3. Compose(f, Compose(g, h))[l] = f[Compose(g, h)[l]]
      BY <2>1, <1>1
    <3>4. Compose(f, g)[h[l]] = f[g[h[l]]]
      BY <3>1, <1>1
    <3> QED BY <3>1, <3>2, <3>3, <3>4
  <2> QED BY <2>1, <2>2
<1>3. Identity(L) \in [L -> L]
  BY DEF Identity
<1>4. ASSUME NEW f \in [L -> L]
      PROVE  Compose(f, Identity(L)) = f /\ Compose(Identity(L), f) = f
  BY DEF Compose, Identity
<1> QED BY <1>1, <1>2, <1>3, <1>4

\* What is enumerated is closed: a product of two elements is an element.
LEMMA DiminoCloses ==
  ASSUME NEW L, IsFiniteSet(L), NEW gens \in SUBSET [L -> L]
  PROVE  \A x, y \in Dimino(L, gens) : Compose(x, y) \in Dimino(L, gens)
<1> DEFINE D == Dimino(L, gens)
           H == {y \in D : \A x \in D : Compose(x, y) \in D}
<1>1. /\ D \in SUBSET [L -> L] /\ gens \subseteq D /\ Identity(L) \in D
      /\ \A x \in D, g \in gens : Compose(x, g) \in D
  BY DiminoIsLeast
<1>2. gens \cup {Identity(L)} \subseteq H
  <2> HIDE DEF D
  <2> QED BY <1>1, ComposeFacts
<1>3. ASSUME NEW y \in H, NEW g \in gens PROVE Compose(y, g) \in H
  <2> HIDE DEF D
  <2>1. y \in D /\ g \in [L -> L] /\ y \in [L -> L] /\ Compose(y, g) \in D
    BY <1>1
  <2>2. ASSUME NEW x \in D PROVE Compose(x, Compose(y, g)) \in D
    <3>1. Compose(x, y) \in D /\ x \in [L -> L]
      BY <1>1
    <3>2. Compose(Compose(x, y), g) \in D
      BY <3>1, <1>1
    <3>3. Compose(Compose(x, y), g) = Compose(x, Compose(y, g))
      <4>1. \A a, b, c \in [L -> L] : Compose(Compose(a, b), c) = Compose(a, Compose(b, c))
        BY ComposeFacts
      <4> QED BY <4>1, <3>1, <2>1
    <3> QED BY <3>2, <3>3
  <2> QED BY <2>1, <2>2
<1>4. H \in SUBSET [L -> L]
  <2> HIDE DEF D
  <2> QED BY <1>1
<1>5. D \subseteq H
  <2> HIDE DEF H
  <2> QED BY <1>2, <1>3, <1>4, DiminoIsLeast
<1> QED BY <1>5

\* More generators, more elements.
LEMMA DiminoGrows ==
  ASSUME NEW L, IsFiniteSet(L), NEW more \in SUBSET [L -> L], NEW gens \in SUBSET more
  PROVE  Dimino(L, gens) \subseteq Dimino(L, more)
<1>1. /\ Dimino(L, more) \in SUBSET [L -> L] /\ more \subseteq Dimino(L, more)
      /\ Identity(L) \in Dimino(L, more)
      /\ \A x \in Dimino(L, more), g \in more : Compose(x, g) \in Dimino(L, more)
  BY DiminoIsLeast
<1>2. gens \in SUBSET [L -> L]
  OBVIOUS
<1> QED BY <1>1, <1>2, DiminoIsLeast

\* Permutations generate permutations.
LEMMA DiminoPermutes ==
  ASSUME NEW L, IsFiniteSet(L), NEW gens \in SUBSET Bijection(L, L)
  PROVE  Dimino(L, gens) \subseteq Bijection(L, L)
<1> DEFINE H == Bijection(L, L)
<1>1. H \in SUBSET [L -> L] /\ gens \in SUBSET [L -> L]
  BY DEF Bijection, Injection
<1>2. Identity(L) \in H
  BY DEF Identity, Bijection, Injection, Surjection, IsInjective
<1>3. ASSUME NEW x \in H, NEW g \in gens PROVE Compose(x, g) \in H
  <2>1. g \in Bijection(L, L) /\ DOMAIN g = L
    BY DEF Bijection, Injection
  <2>2. Compose(x, g) = [l \in L |-> x[g[l]]]
    BY <2>1 DEF Compose
  <2> QED BY <2>1, <2>2, Fun_BijTransitive
<1> HIDE DEF H
<1> QED BY <1>1, <1>2, <1>3, DiminoIsLeast DEF H

\* Multiplying a finite group of permutations by an element of it permutes it.
LEMMA DiminoCancels ==
  ASSUME NEW L, IsFiniteSet(L), NEW gens \in SUBSET Bijection(L, L),
         NEW h \in Dimino(L, gens)
  PROVE  {Compose(h, g) : g \in Dimino(L, gens)} = Dimino(L, gens)
<1> DEFINE D == Dimino(L, gens)
           times == [g \in D |-> Compose(h, g)]
<1>1. gens \in SUBSET [L -> L]
  BY DEF Bijection, Injection
<1>2. /\ D \in SUBSET [L -> L] /\ D \subseteq Bijection(L, L)
      /\ \A x, y \in D : Compose(x, y) \in D
  BY <1>1, DiminoIsLeast, DiminoPermutes, DiminoCloses
<1>3. IsFiniteSet(D)
  BY <1>2, FunctionsFinite, FS_Subset
<1>4. h \in D
  OBVIOUS
<1> HIDE DEF D
<1>5. ASSUME NEW f \in D, NEW g \in D, Compose(h, f) = Compose(h, g) PROVE f = g
  <2>1. f \in [L -> L] /\ g \in [L -> L] /\ h \in [L -> L]
    BY <1>2, <1>4
  <2>2. \A l, m \in L : h[l] = h[m] => l = m
    BY <1>2, <1>4, Fun_BijectionProperties
  <2>3. ASSUME NEW l \in L PROVE f[l] = g[l]
    <3>1. h[f[l]] = h[g[l]]
      <4>1. \A a, b \in [L -> L] : \A m \in L : Compose(a, b)[m] = a[b[m]]
        BY ComposeFacts
      <4>2. Compose(h, f)[l] = h[f[l]] /\ Compose(h, g)[l] = h[g[l]]
        BY <4>1, <2>1
      <4> QED BY <4>2, <1>5
    <3> QED BY <3>1, <2>1, <2>2
  <2> QED BY <2>1, <2>3
<1>6. times \in Injection(D, D)
  BY <1>2, <1>4, <1>5 DEF Injection, IsInjective
<1>7. times \in Surjection(D, D)
  BY <1>3, <1>6, FS_Injection
<1>8. ASSUME NEW d \in D PROVE \E g \in D : Compose(h, g) = d
  BY <1>7 DEF Surjection
<1> QED BY <1>2, <1>4, <1>8 DEF D

-----------------------------------------------------------------------------
(***************************************************************************)
(* The shape of an expression and of what is left of it.                   *)
(***************************************************************************)
\* The numbers of a finite set, in their order.
LEMMA Numbering ==
  ASSUME NEW S \in SUBSET Int, IsFiniteSet(S)
  PROVE  Ascending(S) \in Bijection(1..Cardinality(S), S)
<1> DEFINE n == Cardinality(S)
           below(a) == {b \in S : b <= a}
           rank == [a \in S |-> Cardinality(below(a))]
<1>1. n \in Nat /\ IsFiniteSet(1..n) /\ Cardinality(1..n) = n
  BY FS_CardinalityType, FS_Interval
<1>2. ASSUME NEW a \in S
      PROVE  IsFiniteSet(below(a)) /\ below(a) # {} /\ Cardinality(below(a)) \in 1..n
  <2>1. below(a) \in SUBSET S /\ a \in below(a)
    OBVIOUS
  <2> HIDE DEF below
  <2>2. IsFiniteSet(below(a)) /\ Cardinality(below(a)) <= n
    BY <2>1, FS_Subset
  <2>3. Cardinality(below(a)) \in Nat /\ Cardinality(below(a)) # 0
    BY <2>1, <2>2, FS_CardinalityType, FS_EmptySet
  <2> QED BY <2>1, <2>2, <2>3, <1>1
<1>3. ASSUME NEW a \in S, NEW c \in S, a < c PROVE rank[a] # rank[c]
  <2>1. below(a) \in SUBSET below(c)
    <3>1. \A b \in S : b <= a => b <= c
      BY <1>3
    <3> QED BY <3>1
  <2>2. c \in below(c) /\ c \notin below(a)
    BY <1>3
  <2>3. IsFiniteSet(below(c))
    BY <1>2
  <2> HIDE DEF below
  <2>4. Cardinality(below(a)) # Cardinality(below(c))
    BY <2>1, <2>2, <2>3, FS_Subset
  <2> QED BY <2>4
<1>4. rank \in Injection(S, 1..n)
  <2>1. rank \in [S -> 1..n]
    BY <1>2
  <2>2. \A a, c \in S : rank[a] = rank[c] => a = c
    <3>1. \A a, c \in S : a < c \/ c < a \/ a = c
      OBVIOUS
    <3> HIDE DEF rank
    <3> QED BY <3>1, <1>3
  <2> HIDE DEF rank
  <2> QED BY <2>1, <2>2, Fun_IsInj
<1>5. rank \in Surjection(S, 1..n)
  <2> HIDE DEF rank
  <2> QED BY <1>1, <1>4, FS_Injection
<1>6. ASSUME NEW i \in 1..n
      PROVE  Ascending(S)[i] \in S /\ rank[Ascending(S)[i]] = i
  <2>1. Ascending(S)[i] = CHOOSE a \in S : Cardinality(below(a)) = i
    BY DEF Ascending
  <2>2. \E a \in S : Cardinality(below(a)) = i
    <3>1. PICK a \in S : rank[a] = i
      <4> HIDE DEF rank
      <4> QED BY <1>5 DEF Surjection
    <3> QED BY <3>1
  <2> QED BY <2>1, <2>2
<1>7. Ascending(S) \in [1..n -> S]
  BY <1>6 DEF Ascending
<1>8. ASSUME NEW i \in 1..n, NEW j \in 1..n, Ascending(S)[i] = Ascending(S)[j]
      PROVE  i = j
  <2> HIDE DEF rank
  <2> QED BY <1>6, <1>8
<1>9. ASSUME NEW a \in S PROVE \E i \in 1..n : Ascending(S)[i] = a
  <2> HIDE DEF rank
  <2>1. rank[a] \in 1..n
    BY <1>4 DEF Injection
  <2>2. Ascending(S)[rank[a]] \in S /\ rank[Ascending(S)[rank[a]]] = rank[a]
    BY <2>1, <1>6
  <2> QED BY <2>1, <2>2, <1>4, Fun_InjectionProperties
<1> HIDE DEF n
<1> QED BY <1>7, <1>8, <1>9, Fun_IsBij DEF n

\* A finite set as a sequence.
LEMMA Listing ==
  ASSUME NEW S, IsFiniteSet(S)
  PROVE  /\ SetToSeq(S) \in Seq(S)
         /\ DOMAIN SetToSeq(S) = 1..Cardinality(S)
         /\ ToSet(SetToSeq(S)) = S
         /\ IsInjective(SetToSeq(S))
<1> DEFINE n == Cardinality(S)
<1>1. n \in Nat /\ ExistsBijection(1..n, S)
  BY FS_CardinalityType
<1>2. PICK b : b \in Bijection(1..n, S)
  BY <1>1, Fun_ExistsBij
<1>3. b \in [1..n -> S] /\ IsInjective(b)
  BY <1>2 DEF Bijection, Injection
<1>4. SetToSeq(S) \in [1..n -> S] /\ IsInjective(SetToSeq(S))
  BY <1>3 DEF SetToSeq
<1>5. IsFiniteSet(1..n) /\ Cardinality(1..n) = n
  BY <1>1, FS_Interval
<1>6. SetToSeq(S) \in Injection(1..n, S)
  BY <1>4 DEF Injection
<1>7. SetToSeq(S) \in Surjection(1..n, S)
  <2> HIDE DEF n
  <2> QED BY <1>5, <1>6, FS_Injection DEF n
<1>8. SetToSeq(S) \in Seq(S)
  BY <1>1, <1>4
<1>9. ToSet(SetToSeq(S)) = S
  BY <1>4, <1>7 DEF ToSet, Surjection
<1> QED BY <1>4, <1>8, <1>9

\* Operands have labels and generators on their axes, and the sets of copies
\* are disjoint.
ShapedOperand(op) ==
    /\ op = [tensor |-> op.tensor, labels |-> op.labels, sym |-> op.sym, whole |-> op.whole]
    /\ op.labels \in Seq(ToSet(op.labels))
    /\ op.sym \subseteq [DOMAIN op.labels -> DOMAIN op.labels]

Shaped(e) ==
    /\ e = [ops |-> e.ops, same |-> e.same, out |-> e.out, size |-> e.size]
    /\ e.ops \in Seq(ToSet(e.ops))
    /\ \A k \in Positions(e) : ShapedOperand(e.ops[k])
    /\ e.same \subseteq SUBSET Positions(e)
    /\ \A C, D \in e.same : C # D => C \cap D = {}

\* The contractions that are asked for have that shape.
LEMMA ExpressionsAreShaped ==
  ASSUME NEW e \in Expressions
  PROVE  Shaped(e)
<1>1. IsContraction(e)
  BY ContractionAssumption
<1>2. ASSUME NEW k \in Positions(e) PROVE ShapedOperand(e.ops[k])
  <2> DEFINE op == e.ops[k]
  <2>1. IsOperand(op, e.size)
    BY <1>1 DEF IsContraction
  <2>2. op = [tensor |-> op.tensor, labels |-> op.labels, sym |-> op.sym, whole |-> op.whole]
    BY <2>1 DEF IsOperand, Operand
  <2>3. op.labels \in Seq(ToSet(op.labels))
    BY <2>1 DEF IsOperand, ToSet
  <2>4. op.sym \subseteq [DOMAIN op.labels -> DOMAIN op.labels]
    BY <2>1 DEF IsOperand, Bijection, Injection
  <2> QED BY <2>2, <2>3, <2>4 DEF ShapedOperand
<1>3. e = [ops |-> e.ops, same |-> e.same, out |-> e.out, size |-> e.size]
  BY <1>1 DEF IsContraction
<1> QED BY <1>1, <1>2, <1>3 DEF Shaped, IsContraction

\* Positions and axes are numbers from 1.
LEMMA Axes ==
  ASSUME NEW s, s \in Seq(ToSet(s))
  PROVE  /\ Len(s) \in Nat /\ DOMAIN s = 1..Len(s) /\ IsFiniteSet(DOMAIN s)
         /\ IsFiniteSet(ToSet(s))
<1>1. Len(s) \in Nat /\ DOMAIN s = 1..Len(s)
  OBVIOUS
<1>2. IsFiniteSet(DOMAIN s)
  BY <1>1, FS_Interval
<1>3. s \in Surjection(DOMAIN s, ToSet(s))
  BY DEF Surjection, ToSet
<1> QED BY <1>1, <1>2, <1>3, FS_Surjection

\* A contraction has finitely many operands and labels.
LEMMA LabelsFinite ==
  ASSUME NEW e, Shaped(e), NEW S \in SUBSET Positions(e)
  PROVE  IsFiniteSet(S) /\ IsFiniteSet(LabelsOf(e, S))
<1>1. IsFiniteSet(Positions(e))
  BY Axes DEF Shaped, Positions
<1>2. IsFiniteSet(S)
  BY <1>1, FS_Subset
<1> DEFINE of == [k \in S |-> ToSet(e.ops[k].labels)]
           all == {ToSet(e.ops[k].labels) : k \in S}
<1>3. of \in Surjection(S, all)
  BY DEF Surjection
<1>4. IsFiniteSet(all)
  <2> HIDE DEF of, all
  <2> QED BY <1>2, <1>3, FS_Surjection
<1>5. \A T \in all : IsFiniteSet(T)
  <2>1. ASSUME NEW k \in S PROVE IsFiniteSet(ToSet(e.ops[k].labels))
    <3>1. e.ops[k].labels \in Seq(ToSet(e.ops[k].labels))
      BY DEF Shaped, ShapedOperand
    <3> QED BY <3>1, Axes
  <2> QED BY <2>1
<1>6. IsFiniteSet(UNION all)
  <2> HIDE DEF all
  <2> QED BY <1>4, <1>5, FS_UNION
<1> QED BY <1>2, <1>6 DEF LabelsOf

\* The axes that remain of an operand.
LEMMA RemainingAxes ==
  ASSUME NEW op, ShapedOperand(op), NEW L
  PROVE  /\ DOMAIN op.labels \ AxesOf(op, L) \in SUBSET DOMAIN op.labels
         /\ Cardinality(DOMAIN op.labels \ AxesOf(op, L)) \in Nat
         /\ DOMAIN Remaining(op, L) = 1..Cardinality(DOMAIN op.labels \ AxesOf(op, L))
         /\ Remaining(op, L) \in Bijection(DOMAIN Remaining(op, L), DOMAIN op.labels \ AxesOf(op, L))
<1> DEFINE S == DOMAIN op.labels \ AxesOf(op, L)
<1>1. IsFiniteSet(DOMAIN op.labels) /\ DOMAIN op.labels \subseteq Int
  BY Axes DEF ShapedOperand
<1>2. IsFiniteSet(S)
  BY <1>1, FS_Subset
<1>3. S \in SUBSET Int
  BY <1>1
<1>4. Cardinality(S) \in Nat
  BY <1>2, FS_CardinalityType
<1>5. Ascending(S) \in Bijection(1..Cardinality(S), S)
  <2> HIDE DEF S
  <2>1. ASSUME NEW T, T = S PROVE Ascending(T) \in Bijection(1..Cardinality(T), T)
    BY <1>2, <1>3, <2>1, Numbering
  <2> QED BY <2>1
<1>6. DOMAIN Ascending(S) = 1..Cardinality(S)
  BY DEF Ascending
<1> QED BY <1>4, <1>5, <1>6 DEF Remaining

\* An operand that is summed over some labels keeps the others, in their order,
\* and a symmetry of their axes.
LEMMA ReducedOperand ==
  ASSUME NEW op, ShapedOperand(op), NEW L
  PROVE  /\ ShapedOperand(ReduceOperand(op, L))
         /\ ToSet(ReduceOperand(op, L).labels) = ToSet(op.labels) \ L
<1> DEFINE kept == Remaining(op, L)
           K == DOMAIN op.labels \ AxesOf(op, L)
           labels == [i \in DOMAIN kept |-> op.labels[kept[i]]]
           red == ReduceOperand(op, L)
<1>1. /\ K \in SUBSET DOMAIN op.labels
      /\ Cardinality(K) \in Nat /\ DOMAIN kept = 1..Cardinality(K)
      /\ kept \in Bijection(DOMAIN kept, K)
  BY RemainingAxes
<1>2. /\ kept \in [DOMAIN kept -> K]
      /\ \A a \in K : \E i \in DOMAIN kept : kept[i] = a
  <2> HIDE DEF kept, K
  <2> QED BY <1>1, Fun_BijectionProperties
<1>3. /\ red = [tensor |-> op.tensor, labels |-> labels, sym |-> ReduceGroup(op, L),
                whole |-> op.whole]
  <2>1. red = [op EXCEPT !.labels = labels, !.sym = ReduceGroup(op, L)]
    BY DEF ReduceOperand
  <2>2. op = [tensor |-> op.tensor, labels |-> op.labels, sym |-> op.sym, whole |-> op.whole]
    BY DEF ShapedOperand
  <2> HIDE DEF labels, red
  <2> QED BY <2>1, <2>2
<1>4. DOMAIN labels = 1..Cardinality(K)
  BY <1>1
<1>5. labels \in Seq(ToSet(labels))
  <2>1. labels \in [1..Cardinality(K) -> ToSet(labels)]
    BY <1>4 DEF ToSet
  <2> HIDE DEF labels, K
  <2> QED BY <2>1, <1>1
<1>6. ToSet(labels) = ToSet(op.labels) \ L
  <2>1. ASSUME NEW a \in K PROVE op.labels[a] \in ToSet(op.labels) \ L
    BY DEF ToSet, AxesOf
  <2>2. ASSUME NEW l \in ToSet(op.labels) \ L PROVE \E a \in K : op.labels[a] = l
    BY DEF ToSet, AxesOf
  <2> HIDE DEF K
  <2>3. ASSUME NEW l \in ToSet(labels) PROVE l \in ToSet(op.labels) \ L
    BY <2>1, <1>2 DEF ToSet
  <2>4. ASSUME NEW l \in ToSet(op.labels) \ L PROVE l \in ToSet(labels)
    BY <2>2, <1>2 DEF ToSet
  <2> QED BY <2>3, <2>4
<1>7. ReduceGroup(op, L) \subseteq [DOMAIN labels -> DOMAIN labels]
  <2>1. ToSet(kept) = K
    BY <1>2 DEF ToSet
  <2>2. ASSUME NEW g \in Stabilizer(AxisGroup(op), ToSet(kept)), NEW i \in DOMAIN kept
        PROVE  (CHOOSE j \in DOMAIN kept : kept[j] = g[kept[i]]) \in DOMAIN kept
    <3>1. g[kept[i]] \in K
      <4>1. PICK x : x \in AxisGroup(op) /\ Image(x, K) = K /\ g = Restrict(x, K)
        BY <2>1 DEF Stabilizer
      <4>2. kept[i] \in K
        BY <1>2
      <4> HIDE DEF K, kept
      <4> QED BY <4>1, <4>2 DEF Restrict, Image
    <3> HIDE DEF kept, K
    <3> QED BY <3>1, <1>2
  <2> HIDE DEF kept
  <2> QED BY <2>2 DEF ReduceGroup, kept
<1>8. /\ red.labels = labels /\ red.sym = ReduceGroup(op, L)
      /\ red = [tensor |-> red.tensor, labels |-> red.labels, sym |-> red.sym,
                whole |-> red.whole]
  BY <1>3
<1> HIDE DEF labels, red
<1> QED BY <1>5, <1>6, <1>7, <1>8 DEF ShapedOperand, red

\* What is left when labels of one operand have been summed has none of them.
LEMMA ResidualIsShaped ==
  ASSUME NEW e, Shaped(e)
  PROVE  /\ Shaped(Residual(e))
         /\ Positions(Residual(e)) = Positions(e) /\ Len(Residual(e).ops) = Len(e.ops)
         /\ \A k \in Positions(e) : Isolated(Residual(e), k) = {}
         /\ Residual(Residual(e)) = Residual(e)
<1> DEFINE r == Residual(e)
           ops == [k \in Positions(e) |-> IF Isolated(e, k) = {} THEN e.ops[k]
                                           ELSE ReduceOperand(e.ops[k], Isolated(e, k))]
<1>1. r = [ops |-> ops, same |-> e.same, out |-> e.out, size |-> e.size]
  BY DEF Residual, Shaped
<1>2. Len(e.ops) \in Nat /\ Positions(e) = 1..Len(e.ops)
  BY Axes DEF Shaped, Positions
<1>3. /\ r.ops = ops /\ r.same = e.same /\ r.out = e.out /\ r.size = e.size
      /\ r = [ops |-> r.ops, same |-> r.same, out |-> r.out, size |-> r.size]
  BY <1>1
<1>4. ASSUME NEW k \in Positions(e)
      PROVE  /\ ShapedOperand(ops[k])
             /\ ToSet(ops[k].labels) = ToSet(e.ops[k].labels) \ Isolated(e, k)
  <2>1. ShapedOperand(e.ops[k])
    BY DEF Shaped
  <2>2. CASE Isolated(e, k) = {}
    BY <2>1, <2>2
  <2>3. CASE Isolated(e, k) # {}
    BY <2>1, <2>3, ReducedOperand
  <2> QED BY <2>2, <2>3
<1>5. DOMAIN ops = 1..Len(e.ops)
  BY <1>2
<1> HIDE DEF r
<1>6. /\ Positions(r) = Positions(e) /\ Len(r.ops) = Len(e.ops)
      /\ r.ops \in Seq(ToSet(r.ops))
  <2>1. ops \in [1..Len(e.ops) -> ToSet(ops)]
    BY <1>5 DEF ToSet
  <2> HIDE DEF ops
  <2> QED BY <1>2, <1>3, <1>5, <2>1 DEF Positions
<1>7. Shaped(r)
  <2> HIDE DEF ops
  <2> QED BY <1>3, <1>4, <1>6 DEF Shaped
<1>8. ASSUME NEW K \in SUBSET Positions(e) PROVE LabelsOf(r, K) \subseteq LabelsOf(e, K)
  <2> HIDE DEF ops
  <2>1. ASSUME NEW k \in K PROVE ToSet(r.ops[k].labels) \subseteq ToSet(e.ops[k].labels)
    BY <1>3, <1>4
  <2> QED BY <2>1 DEF LabelsOf
<1>9. ASSUME NEW k \in Positions(e) PROVE Isolated(r, k) = {}
  <2> DEFINE others == Positions(e) \ {k}
  <2>1. SUFFICES ASSUME NEW l \in Isolated(r, k) PROVE FALSE
    OBVIOUS
  <2>2. /\ l \in LabelsOf(r, {k}) /\ l \notin e.out /\ l \notin LabelsOf(r, others)
    BY <1>3, <1>6 DEF Isolated
  <2>3. l \in ToSet(ops[k].labels)
    <3> HIDE DEF ops
    <3> QED BY <2>2, <1>3 DEF LabelsOf
  <2>4. l \in ToSet(e.ops[k].labels) /\ l \notin Isolated(e, k)
    <3> HIDE DEF ops
    <3> QED BY <2>3, <1>4
  <2>5. l \in LabelsOf(e, {k})
    BY <2>4 DEF LabelsOf
  <2>6. PICK j \in others : l \in ToSet(e.ops[j].labels)
    <3>1. l \in LabelsOf(e, others)
      BY <2>2, <2>4, <2>5 DEF Isolated
    <3> QED BY <3>1 DEF LabelsOf
  <2>7. l \notin Isolated(e, j)
    <3>1. l \in LabelsOf(e, Positions(e) \ {j})
      BY <2>4 DEF LabelsOf
    <3> QED BY <3>1 DEF Isolated
  <2>8. l \in ToSet(ops[j].labels)
    <3> HIDE DEF ops
    <3> QED BY <2>6, <2>7, <1>4
  <2>9. l \in LabelsOf(r, others)
    <3> HIDE DEF ops, others
    <3> QED BY <2>6, <2>8, <1>3 DEF LabelsOf
  <2> QED BY <2>2, <2>9
<1>10. Residual(r) = r
  <2>1. [k \in Positions(r) |-> IF Isolated(r, k) = {} THEN r.ops[k]
                                ELSE ReduceOperand(r.ops[k], Isolated(r, k))] = r.ops
    <3>1. DOMAIN r.ops = Positions(r)
      BY DEF Positions
    <3> QED BY <3>1, <1>3, <1>6, <1>9
  <2>2. r = [ops |-> r.ops, same |-> r.same, out |-> r.out, size |-> r.size]
    BY <1>3
  <2> QED BY <2>1, <2>2 DEF Residual
<1> QED BY <1>6, <1>7, <1>9, <1>10 DEF r

\* The symmetry of an intermediate result renames the labels that are left.
LEMMA OutputGroupRenames ==
  ASSUME NEW e, NEW S, NEW pi \in OutputGroup(e, S)
  PROVE  pi \in [FreeIn(e, S) -> FreeIn(e, S)]
<1> DEFINE V == FreeIn(e, S)
<1>1. PICK rho \in SubsetRenamings(e, S) : pi = Restrict(rho, V)
  BY DEF OutputGroup
<1>2. Image(rho, V) = V
  BY DEF SubsetRenamings
<1>3. pi = [l \in V |-> rho[l]]
  BY <1>1 DEF Restrict
<1>4. \A l \in V : rho[l] \in V
  <2> HIDE DEF V
  <2> QED BY <1>2 DEF Image
<1> QED BY <1>3, <1>4

\* A renaming of the labels of an array as a renaming of its axes.
LEMMA OnAxesFacts ==
  ASSUME NEW labels, NEW V, ToSet(labels) = V, NEW pi \in [V -> V]
  PROVE  /\ OnAxes(labels, pi) \in [DOMAIN labels -> DOMAIN labels]
         /\ \A a \in DOMAIN labels : labels[OnAxes(labels, pi)[a]] = pi[labels[a]]
<1>1. ASSUME NEW a \in DOMAIN labels
      PROVE  \E b \in DOMAIN labels : labels[b] = pi[labels[a]]
  BY DEF ToSet
<1> QED BY <1>1 DEF OnAxes

\* What stands for a subset of the operands has the labels that survive it.
LEMMA StepOperandIsShaped ==
  ASSUME NEW e, Shaped(e), NEW S \in SUBSET Positions(e), S # {}
  PROVE  /\ ShapedOperand(StepOperand(e, S))
         /\ ToSet(StepOperand(e, S).labels) = FreeIn(e, S)
<1> DEFINE k == CHOOSE j \in S : TRUE
           V == FreeIn(e, S)
           labels == IF Cardinality(S) = 1 THEN e.ops[k].labels ELSE SetToSeq(V)
           found == {OnAxes(labels, pi) : pi \in OutputGroup(e, S)}
           names == [i \in 1..Cardinality(S) |-> e.ops[Ascending(S)[i]].tensor[1]]
<1>1. StepOperand(e, S) = IF Cardinality(S) > 1 THEN Operand(names, labels, found)
                          ELSE IF SummedIn(e, S) # {} THEN ReduceOperand(e.ops[k], SummedIn(e, S))
                          ELSE [e.ops[k] EXCEPT !.sym = found]
  BY DEF StepOperand
<1>2. IsFiniteSet(S) /\ Cardinality(S) \in Nat /\ Cardinality(S) # 0
  BY LabelsFinite, FS_CardinalityType, FS_EmptySet
<1>3. IsFiniteSet(V)
  <2>1. IsFiniteSet(LabelsOf(e, S)) /\ V \in SUBSET LabelsOf(e, S)
    BY LabelsFinite DEF FreeIn
  <2> QED BY <2>1, FS_Subset
<1>4. k \in S /\ ShapedOperand(e.ops[k])
  BY DEF Shaped
<1>5. ASSUME ToSet(labels) = V
      PROVE  found \subseteq [DOMAIN labels -> DOMAIN labels]
  <2> HIDE DEF labels
  <2>1. ASSUME NEW pi \in OutputGroup(e, S)
        PROVE  OnAxes(labels, pi) \in [DOMAIN labels -> DOMAIN labels]
    BY <1>5, OutputGroupRenames, OnAxesFacts
  <2> QED BY <2>1
<1>6. CASE Cardinality(S) > 1
  <2>1. labels = SetToSeq(V)
    BY <1>6
  <2>2. ToSet(labels) = V
    BY <2>1, <1>3, Listing
  <2>3. labels \in Seq(ToSet(labels))
    BY <2>1, <2>2, <1>3, Listing
  <2>4. found \subseteq [DOMAIN labels -> DOMAIN labels]
    BY <2>2, <1>5
  <2>5. StepOperand(e, S) = Operand(names, labels, found)
    BY <1>1, <1>6
  <2> DEFINE op == StepOperand(e, S)
  <2> HIDE DEF labels, found, names, op
  <2>6. op = [tensor |-> names, labels |-> labels, sym |-> found,
              whole |-> [labels |-> labels, sym |-> found]]
    BY <2>5 DEF Operand, op
  <2>7. op.tensor = names /\ op.labels = labels /\ op.sym = found
        /\ op.whole = [labels |-> labels, sym |-> found]
    BY <2>6
  <2>8. op = [tensor |-> op.tensor, labels |-> op.labels, sym |-> op.sym, whole |-> op.whole]
    BY <2>6, <2>7
  <2>9. ShapedOperand(op)
    BY <2>3, <2>4, <2>7, <2>8 DEF ShapedOperand
  <2> QED BY <2>2, <2>7, <2>9 DEF op
<1>7. CASE Cardinality(S) = 1
  <2>1. S = {k}
    BY <1>2, <1>7, <1>4, FS_Singleton
  <2>2. LabelsOf(e, S) = ToSet(e.ops[k].labels)
    <3> HIDE DEF k
    <3> QED BY <2>1 DEF LabelsOf
  <2>3. labels = e.ops[k].labels
    BY <1>7
  <2>4. CASE SummedIn(e, S) # {}
    <3>1. StepOperand(e, S) = ReduceOperand(e.ops[k], SummedIn(e, S))
      BY <1>1, <1>7, <2>4
    <3>2. ToSet(e.ops[k].labels) \ SummedIn(e, S) = V
      BY <2>2 DEF SummedIn, FreeIn
    <3>3. ToSet(ReduceOperand(e.ops[k], SummedIn(e, S)).labels) = ToSet(e.ops[k].labels) \ SummedIn(e, S)
          /\ ShapedOperand(ReduceOperand(e.ops[k], SummedIn(e, S)))
      <4> HIDE DEF k
      <4> QED BY <1>4, ReducedOperand
    <3> QED BY <3>1, <3>2, <3>3
  <2>5. CASE SummedIn(e, S) = {}
    <3>1. StepOperand(e, S) = [e.ops[k] EXCEPT !.sym = found]
      BY <1>1, <1>7, <2>5
    <3>2. ToSet(labels) = V
      BY <2>2, <2>3, <2>5 DEF SummedIn, FreeIn
    <3>3. found \subseteq [DOMAIN labels -> DOMAIN labels]
      BY <1>5, <3>2
    <3> DEFINE op == StepOperand(e, S)
               old == e.ops[k]
    <3>4. /\ old = [tensor |-> old.tensor, labels |-> old.labels, sym |-> old.sym,
                    whole |-> old.whole]
          /\ old.labels \in Seq(ToSet(old.labels))
      BY <1>4 DEF ShapedOperand
    <3>5. op = [tensor |-> old.tensor, labels |-> old.labels, sym |-> found,
                whole |-> old.whole]
      <4> HIDE DEF found, op, old
      <4>1. op = [old EXCEPT !.sym = found]
        BY <3>1 DEF old, op
      <4> QED BY <4>1, <3>4
    <3> HIDE DEF found, op, old, labels
    <3>6. op.labels = labels
      BY <3>5, <2>3 DEF old
    <3>7. ShapedOperand(op)
      BY <3>3, <3>4, <3>5, <2>3, <3>6 DEF ShapedOperand, old
    <3> QED BY <3>2, <3>6, <3>7 DEF op
  <2> QED BY <2>4, <2>5
<1> QED BY <1>2, <1>6, <1>7

\* The next two operands of a path are a contraction with nothing to sum first.
LEMMA StepIsShaped ==
  ASSUME NEW e, Shaped(e), NEW S \in SUBSET Positions(e), NEW T \in SUBSET Positions(e),
         S # {}, T # {}, S \cap T = {}
  PROVE  /\ Shaped(Step(e, S, T))
         /\ Positions(Step(e, S, T)) = 1..2 /\ Len(Step(e, S, T).ops) = 2
         /\ \A k \in 1..2 : Isolated(Step(e, S, T), k) = {}
         /\ Residual(Step(e, S, T)) = Step(e, S, T)
<1> DEFINE a == StepOperand(e, S)
           b == StepOperand(e, T)
           same == IF Cardinality(S \cup T) = 2 /\ S \cup T \in Copies(e, S \cup T)
                   THEN {{1, 2}} ELSE {}
           s == Step(e, S, T)
<1>1. s = [ops |-> <<a, b>>, same |-> same, out |-> FreeIn(e, S \cup T), size |-> e.size]
  BY DEF Step
<1>2. /\ ShapedOperand(a) /\ ShapedOperand(b)
      /\ ToSet(a.labels) = FreeIn(e, S) /\ ToSet(b.labels) = FreeIn(e, T)
  BY StepOperandIsShaped
<1>3. same \subseteq SUBSET (1..2) /\ \A C, D \in same : C = D
  OBVIOUS
<1> HIDE DEF a, b, same, s
<1>4. /\ s.ops = <<a, b>> /\ s.same = same /\ s.out = FreeIn(e, S \cup T)
      /\ s = [ops |-> s.ops, same |-> s.same, out |-> s.out, size |-> s.size]
  BY <1>1
<1>5. Positions(s) = 1..2 /\ Len(s.ops) = 2 /\ s.ops[1] = a /\ s.ops[2] = b
  BY <1>4 DEF Positions
<1>6. s.ops \in Seq(ToSet(s.ops))
  <2>1. a \in ToSet(<<a, b>>) /\ b \in ToSet(<<a, b>>)
    <3>1. 1 \in DOMAIN <<a, b>> /\ 2 \in DOMAIN <<a, b>> /\ <<a, b>>[1] = a /\ <<a, b>>[2] = b
      OBVIOUS
    <3> QED BY <3>1 DEF ToSet
  <2> HIDE DEF ToSet
  <2> QED BY <2>1, <1>4
<1>7. Shaped(s)
  <2>1. \A k \in Positions(s) : ShapedOperand(s.ops[k])
    <3>1. \A k \in 1..2 : k = 1 \/ k = 2
      OBVIOUS
    <3> QED BY <3>1, <1>2, <1>5
  <2> QED BY <2>1, <1>3, <1>4, <1>5, <1>6 DEF Shaped
<1>8. LabelsOf(s, {1}) = FreeIn(e, S) /\ LabelsOf(s, {2}) = FreeIn(e, T)
  BY <1>2, <1>5 DEF LabelsOf
<1>9. Positions(s) \ {1} = {2} /\ Positions(s) \ {2} = {1}
  BY <1>5
<1>10. Isolated(s, 1) = {} /\ Isolated(s, 2) = {}
  <2>1. ASSUME NEW l \in FreeIn(e, S), l \notin FreeIn(e, S \cup T) PROVE l \in FreeIn(e, T)
    BY <2>1 DEF FreeIn, LabelsOf
  <2>2. ASSUME NEW l \in FreeIn(e, T), l \notin FreeIn(e, S \cup T) PROVE l \in FreeIn(e, S)
    BY <2>2 DEF FreeIn, LabelsOf
  <2> QED BY <2>1, <2>2, <1>4, <1>8, <1>9 DEF Isolated
<1>11. \A k \in 1..2 : Isolated(s, k) = {}
  <2>1. \A k \in 1..2 : k = 1 \/ k = 2
    OBVIOUS
  <2> QED BY <2>1, <1>10
<1>12. Residual(s) = s
  <2>1. [k \in Positions(s) |-> IF Isolated(s, k) = {} THEN s.ops[k]
                                ELSE ReduceOperand(s.ops[k], Isolated(s, k))] = s.ops
    <3>1. DOMAIN s.ops = Positions(s) /\ s.ops = [k \in DOMAIN s.ops |-> s.ops[k]]
      <4> HIDE DEF ToSet
      <4> QED BY <1>6 DEF Positions
    <3>2. \A k \in Positions(s) : Isolated(s, k) = {}
      BY <1>5, <1>11
    <3> QED BY <3>1, <3>2
  <2> QED BY <2>1, <1>4 DEF Residual
<1> QED BY <1>5, <1>7, <1>11, <1>12 DEF s

\* The expressions that are priced: those that were asked for, the steps of their
\* paths, and what is left of either.
Direct == Expressions \cup UNION {{Step(e, p[1], p[2]) :
                       p \in {q \in (SUBSET Positions(e)) \X (SUBSET Positions(e)) :
                                q[1] # {} /\ q[2] # {} /\ q[1] \cap q[2] = {}}} :
                 e \in {x \in Expressions : Len(x.ops) >= 3}}

\* What is priced on the way of a known contraction is known.
LEMMA KnownFacts ==
  /\ Expressions \subseteq Known
  /\ \A e \in Known : Shaped(e)
  /\ \A e \in Known : Len(e.ops) >= 3 => e \in Expressions
  /\ \A e \in Known : Len(e.ops) = 2 =>
       /\ Residual(e) \in Known /\ Positions(Residual(e)) = Positions(e)
       /\ Len(Residual(e).ops) = 2
       /\ \A k \in Positions(e) : Isolated(Residual(e), k) = {}
       /\ Residual(Residual(e)) = Residual(e)
  /\ \A e \in Known : Len(e.ops) >= 3 =>
       \A S, T \in SUBSET Positions(e) :
         S # {} /\ T # {} /\ S \cap T = {} => /\ Step(e, S, T) \in Known
                                               /\ Len(Step(e, S, T).ops) = 2
<1>1. Known = Direct \cup {Residual(e) : e \in {x \in Direct : Len(x.ops) = 2}}
  BY DEF Known, Direct
<1>2. ASSUME NEW s \in Direct, s \notin Expressions
      PROVE  \E e \in Expressions : \E S, T \in SUBSET Positions(e) :
               Len(e.ops) >= 3 /\ S # {} /\ T # {} /\ S \cap T = {} /\ s = Step(e, S, T)
  <2>1. PICK e \in Expressions : /\ Len(e.ops) >= 3
          /\ s \in {Step(e, p[1], p[2]) :
                       p \in {q \in (SUBSET Positions(e)) \X (SUBSET Positions(e)) :
                                q[1] # {} /\ q[2] # {} /\ q[1] \cap q[2] = {}}}
    BY <1>2 DEF Direct
  <2>2. PICK p \in (SUBSET Positions(e)) \X (SUBSET Positions(e)) :
          p[1] # {} /\ p[2] # {} /\ p[1] \cap p[2] = {} /\ s = Step(e, p[1], p[2])
    BY <2>1
  <2>3. p[1] \in SUBSET Positions(e) /\ p[2] \in SUBSET Positions(e)
    OBVIOUS
  <2> QED BY <2>1, <2>2, <2>3
<1>3. ASSUME NEW e \in Direct PROVE Shaped(e)
  <2>1. CASE e \in Expressions
    BY <2>1, ExpressionsAreShaped
  <2>2. CASE e \notin Expressions
    BY <2>2, <1>2, ExpressionsAreShaped, StepIsShaped
  <2> QED BY <2>1, <2>2
<1>4. ASSUME NEW e \in Known PROVE Shaped(e)
  <2>1. CASE e \in Direct
    BY <2>1, <1>3
  <2>2. CASE e \notin Direct
    <3>1. PICK d \in Direct : e = Residual(d)
      BY <2>2, <1>1
    <3> QED BY <3>1, <1>3, ResidualIsShaped
  <2> QED BY <2>1, <2>2
<1>5. ASSUME NEW e \in Known, Len(e.ops) >= 3 PROVE e \in Expressions
  <2>1. e \in Direct
    <3>1. SUFFICES ASSUME NEW d \in Direct, Len(d.ops) = 2, e = Residual(d) PROVE FALSE
      BY <1>1
    <3>2. Len(Residual(d).ops) = 2
      BY <3>1, <1>3, ResidualIsShaped
    <3> QED BY <3>1, <3>2, <1>5
  <2>2. SUFFICES ASSUME e \notin Expressions PROVE FALSE
    OBVIOUS
  <2>3. Len(e.ops) = 2
    <3>1. PICK d \in Expressions : \E S, T \in SUBSET Positions(d) :
            S # {} /\ T # {} /\ S \cap T = {} /\ e = Step(d, S, T)
      <4>1. \A s \in Direct : s \notin Expressions =>
              \E d \in Expressions : \E S, T \in SUBSET Positions(d) :
                Len(d.ops) >= 3 /\ S # {} /\ T # {} /\ S \cap T = {} /\ s = Step(d, S, T)
        BY <1>2
      <4>2. \E d \in Expressions : \E S, T \in SUBSET Positions(d) :
                Len(d.ops) >= 3 /\ S # {} /\ T # {} /\ S \cap T = {} /\ e = Step(d, S, T)
        BY <4>1, <2>1, <2>2
      <4> QED BY <4>2
    <3> QED BY <3>1, ExpressionsAreShaped, StepIsShaped
  <2> QED BY <2>3, <1>5
<1>6. ASSUME NEW e \in Known, Len(e.ops) = 2
      PROVE  /\ Residual(e) \in Known /\ Positions(Residual(e)) = Positions(e)
             /\ Len(Residual(e).ops) = 2
             /\ \A k \in Positions(e) : Isolated(Residual(e), k) = {}
             /\ Residual(Residual(e)) = Residual(e)
  <2>1. /\ Positions(Residual(e)) = Positions(e)
        /\ Len(Residual(e).ops) = 2
        /\ \A k \in Positions(e) : Isolated(Residual(e), k) = {}
        /\ Residual(Residual(e)) = Residual(e)
    BY <1>4, <1>6, ResidualIsShaped
  <2>2. Residual(e) \in Known
    <3>1. CASE e \in Direct
      BY <3>1, <1>1, <1>6
    <3>2. CASE e \notin Direct
      <4>1. PICK d \in Direct : e = Residual(d)
        BY <3>2, <1>1
      <4>2. Residual(e) = e
        BY <4>1, <1>3, ResidualIsShaped
      <4> QED BY <4>2
    <3> QED BY <3>1, <3>2
  <2> QED BY <2>1, <2>2
<1>7. ASSUME NEW e \in Known, Len(e.ops) >= 3, NEW S \in SUBSET Positions(e),
             NEW T \in SUBSET Positions(e), S # {}, T # {}, S \cap T = {}
      PROVE  Step(e, S, T) \in Known /\ Len(Step(e, S, T).ops) = 2
  <2>1. e \in Expressions /\ Shaped(e)
    BY <1>4, <1>5, <1>7
  <2>2. Step(e, S, T) \in Direct
    <3> DEFINE p == <<S, T>>
    <3>1. /\ p \in {q \in (SUBSET Positions(e)) \X (SUBSET Positions(e)) :
                                q[1] # {} /\ q[2] # {} /\ q[1] \cap q[2] = {}}
          /\ p[1] = S /\ p[2] = T
      BY <1>7
    <3> HIDE DEF p
    <3>2. Step(e, p[1], p[2]) \in Direct
      BY <3>1, <2>1, <1>7 DEF Direct
    <3> QED BY <3>1, <3>2
  <2> QED BY <2>1, <2>2, <1>1, <1>7, StepIsShaped
<1>8. Expressions \subseteq Known
  BY <1>1 DEF Direct
<1> QED BY <1>4, <1>5, <1>6, <1>7, <1>8

-----------------------------------------------------------------------------
(***************************************************************************)
(* The renamings that are detected are a group.                            *)
(***************************************************************************)
\* Copies of one object form classes.
LEMMA ClassFacts ==
  ASSUME NEW e, Shaped(e), NEW k \in Positions(e)
  PROVE  /\ Class(e, k) \subseteq Positions(e) /\ k \in Class(e, k)
         /\ Min(Class(e, k)) \in Class(e, k)
         /\ \A j \in Class(e, k) : Class(e, j) = Class(e, k)
         /\ \A j \in Class(e, k) : j = k \/ \E C \in e.same : j \in C /\ k \in C
         /\ Exchangeable(e) =>
              \A j \in Class(e, k) : DOMAIN e.ops[j].labels = DOMAIN e.ops[k].labels
<1>1. Class(e, k) \subseteq Positions(e) /\ k \in Class(e, k)
  BY DEF Class, Shaped
<1>2. Min(Class(e, k)) \in Class(e, k)
  <2>1. IsFiniteSet(Class(e, k))
    BY <1>1, LabelsFinite
  <2>2. Class(e, k) \subseteq Int
    <3>1. Positions(e) = 1..Len(e.ops) /\ Len(e.ops) \in Nat
      BY Axes DEF Shaped, Positions
    <3> QED BY <3>1, <1>1
  <2>3. ASSUME NEW T, T = Class(e, k) PROVE Min(T) \in T
    <3>1. T \in SUBSET Int /\ IsFiniteSet(T) /\ T # {}
      BY <1>1, <2>1, <2>2, <2>3
    <3> QED BY <3>1, LeastOfSet
  <2> QED BY <2>3
<1>3. \A j \in Class(e, k) : j = k \/ \E C \in e.same : j \in C /\ k \in C
  BY DEF Class
<1>4. ASSUME NEW j \in Class(e, k) PROVE Class(e, j) = Class(e, k)
  <2>1. CASE j = k
    BY <2>1
  <2>2. CASE j # k
    <3>1. PICK C \in e.same : j \in C /\ k \in C
      BY <1>3, <2>2
    <3>2. \A D \in e.same : j \in D => D = C
      BY <3>1 DEF Shaped
    <3>3. \A D \in e.same : k \in D => D = C
      BY <3>1 DEF Shaped
    <3>4. Class(e, j) = C /\ Class(e, k) = C
      BY <3>1, <3>2, <3>3 DEF Class
    <3> QED BY <3>4
  <2> QED BY <2>1, <2>2
<1>5. ASSUME Exchangeable(e), NEW j \in Class(e, k)
      PROVE  DOMAIN e.ops[j].labels = DOMAIN e.ops[k].labels
  <2>1. Len(e.ops[j].labels) = Len(e.ops[k].labels)
    BY <1>3, <1>5 DEF Exchangeable
  <2>2. /\ e.ops[j].labels \in Seq(ToSet(e.ops[j].labels))
        /\ e.ops[k].labels \in Seq(ToSet(e.ops[k].labels))
    BY <1>1 DEF Shaped, ShapedOperand
  <2>3. /\ DOMAIN e.ops[j].labels = 1..Len(e.ops[j].labels)
        /\ DOMAIN e.ops[k].labels = 1..Len(e.ops[k].labels)
    BY <2>2, Axes
  <2> QED BY <2>1, <2>3
<1> QED BY <1>1, <1>2, <1>3, <1>4, <1>5

\* The groups that act on the axes of the operands of a class.
ClassGroup(e, k) == AxisGroup(e.ops[Min(Class(e, k))])

\* The group of an operand's axes contains what was declared, and is closed.
LEMMA AxisGroupFacts ==
  ASSUME NEW op, ShapedOperand(op)
  PROVE  /\ AxisGroup(op) \subseteq [DOMAIN op.labels -> DOMAIN op.labels]
         /\ op.sym \subseteq AxisGroup(op)
         /\ Identity(DOMAIN op.labels) \in AxisGroup(op)
         /\ \A g, h \in AxisGroup(op) : Compose(g, h) \in AxisGroup(op)
<1>1. IsFiniteSet(DOMAIN op.labels)
  BY Axes DEF ShapedOperand
<1>2. op.sym \in SUBSET [DOMAIN op.labels -> DOMAIN op.labels]
  BY DEF ShapedOperand
<1> QED BY <1>1, <1>2, DiminoIsLeast, DiminoCloses DEF AxisGroup

\* Copies of one object share one group of the axes.
LEMMA ClassGroupFacts ==
  ASSUME NEW e, Shaped(e), Exchangeable(e), NEW k \in Positions(e)
  PROVE  /\ ClassGroup(e, k) \subseteq [DOMAIN e.ops[k].labels -> DOMAIN e.ops[k].labels]
         /\ Identity(DOMAIN e.ops[k].labels) \in ClassGroup(e, k)
         /\ \A g, h \in ClassGroup(e, k) : Compose(g, h) \in ClassGroup(e, k)
         /\ \A j \in Class(e, k) : ClassGroup(e, j) = ClassGroup(e, k)
<1> DEFINE m == Min(Class(e, k))
<1>1. m \in Class(e, k) /\ m \in Positions(e)
  BY ClassFacts
<1>2. DOMAIN e.ops[m].labels = DOMAIN e.ops[k].labels
  BY <1>1, ClassFacts
<1>3. ShapedOperand(e.ops[m])
  BY <1>1 DEF Shaped
<1>4. \A j \in Class(e, k) : ClassGroup(e, j) = ClassGroup(e, k)
  BY ClassFacts DEF ClassGroup
<1> QED BY <1>2, <1>3, <1>4, AxisGroupFacts DEF ClassGroup

\* A permutation of the rows moves operands within their classes and axes within
\* the group of the class.
Tops(e) ==
    {t \in Bijection(Positions(e), Positions(e)) : \A k \in Positions(e) : t[k] \in Class(e, k)}
IsBase(e, h) == DOMAIN h = Positions(e) /\ \A k \in Positions(e) : h[k] \in ClassGroup(e, k)
MoveRows(e, t, h) == [r \in Rows(e) |-> <<t[r[1]], h[r[1]][r[2]]>>]

\* The elements of the wreath product are these.
LEMMA WreathElements ==
  ASSUME NEW e
  PROVE  /\ \A s \in Wreath(e) : \E t \in Tops(e) : \E h : IsBase(e, h) /\ s = MoveRows(e, t, h)
         /\ \A t \in Tops(e) : \A h :
              h = [k \in Positions(e) |-> h[k]] /\ IsBase(e, h) => MoveRows(e, t, h) \in Wreath(e)
<1> DEFINE all == UNION {AxisGroup(e.ops[Min(Class(e, k))]) : k \in Positions(e)}
           bases == {h \in [Positions(e) -> all] :
                       \A k \in Positions(e) : h[k] \in AxisGroup(e.ops[Min(Class(e, k))])}
<1>1. Wreath(e) = {MoveRows(e, t, h) : t \in Tops(e), h \in bases}
  BY DEF Wreath, MoveRows, Tops
<1>2. \A h \in bases : IsBase(e, h)
  BY DEF IsBase, ClassGroup
<1>3. ASSUME NEW h, h = [k \in Positions(e) |-> h[k]], IsBase(e, h) PROVE h \in bases
  <2>1. \A k \in Positions(e) : h[k] \in AxisGroup(e.ops[Min(Class(e, k))])
    BY <1>3 DEF IsBase, ClassGroup
  <2>2. \A k \in Positions(e) : h[k] \in all
    BY <2>1
  <2> HIDE DEF all
  <2> QED BY <1>3, <2>1, <2>2
<1> HIDE DEF bases
<1> QED BY <1>1, <1>2, <1>3

\* A row is a position and an axis of the operand there.
LEMMA RowFacts ==
  ASSUME NEW e
  PROVE  /\ \A r \in Rows(e) : /\ r = <<r[1], r[2]>> /\ r[1] \in Positions(e)
                               /\ r[2] \in DOMAIN e.ops[r[1]].labels
         /\ \A k \in Positions(e) : \A a \in DOMAIN e.ops[k].labels : <<k, a>> \in Rows(e)
         /\ Labels(e) = {LabelAt(e, r) : r \in Rows(e)}
<1>1. \A r \in Rows(e) : /\ r = <<r[1], r[2]>> /\ r[1] \in Positions(e)
                         /\ r[2] \in DOMAIN e.ops[r[1]].labels
  BY DEF Rows
<1>2. \A k \in Positions(e) : \A a \in DOMAIN e.ops[k].labels : <<k, a>> \in Rows(e)
  BY DEF Rows
<1>3. ASSUME NEW l \in Labels(e) PROVE \E r \in Rows(e) : LabelAt(e, r) = l
  <2>1. PICK k \in Positions(e) : l \in ToSet(e.ops[k].labels)
    BY DEF Labels, LabelsOf
  <2>2. PICK a \in DOMAIN e.ops[k].labels : l = e.ops[k].labels[a]
    BY <2>1 DEF ToSet
  <2>3. <<k, a>> \in Rows(e) /\ LabelAt(e, <<k, a>>) = l
    BY <1>2, <2>2 DEF LabelAt
  <2> QED BY <2>3
<1>4. ASSUME NEW r \in Rows(e) PROVE LabelAt(e, r) \in Labels(e)
  BY <1>1 DEF Labels, LabelsOf, LabelAt, ToSet
<1> QED BY <1>1, <1>2, <1>3, <1>4

\* The permutations of the rows that are enumerated (enumerate_wreath) form a group.
LEMMA WreathIsGroup ==
  ASSUME NEW e, Shaped(e), Exchangeable(e)
  PROVE  /\ Wreath(e) \subseteq [Rows(e) -> Rows(e)]
         /\ Identity(Rows(e)) \in Wreath(e)
         /\ \A s, u \in Wreath(e) : Compose(s, u) \in Wreath(e)
<1>1. ASSUME NEW t \in Tops(e), NEW h, IsBase(e, h), NEW r \in Rows(e)
      PROVE  /\ MoveRows(e, t, h)[r] = <<t[r[1]], h[r[1]][r[2]]>>
             /\ <<t[r[1]], h[r[1]][r[2]]>> \in Rows(e)
  <2>1. r[1] \in Positions(e) /\ r[2] \in DOMAIN e.ops[r[1]].labels
    BY RowFacts
  <2>2. h[r[1]] \in [DOMAIN e.ops[r[1]].labels -> DOMAIN e.ops[r[1]].labels]
    BY <1>1, <2>1, ClassGroupFacts DEF IsBase
  <2>3. t[r[1]] \in Class(e, r[1]) /\ t[r[1]] \in Positions(e)
    BY <2>1, ClassFacts DEF Tops
  <2>4. DOMAIN e.ops[t[r[1]]].labels = DOMAIN e.ops[r[1]].labels
    BY <2>1, <2>3, ClassFacts
  <2> QED BY <2>1, <2>2, <2>3, <2>4, RowFacts DEF MoveRows
<1>2. ASSUME NEW s \in Wreath(e) PROVE s \in [Rows(e) -> Rows(e)]
  <2>1. PICK t \in Tops(e) : \E h : IsBase(e, h) /\ s = MoveRows(e, t, h)
    BY WreathElements
  <2>2. PICK h : IsBase(e, h) /\ s = MoveRows(e, t, h)
    BY <2>1
  <2> QED BY <2>2, <1>1 DEF MoveRows
<1>3. Identity(Rows(e)) \in Wreath(e)
  <2> DEFINE t == Identity(Positions(e))
             h == [k \in Positions(e) |-> Identity(DOMAIN e.ops[k].labels)]
  <2>1. t \in Tops(e)
    <3>1. t \in Bijection(Positions(e), Positions(e))
      BY DEF Identity, Bijection, Injection, Surjection, IsInjective
    <3>2. \A k \in Positions(e) : t[k] \in Class(e, k)
      BY ClassFacts DEF Identity
    <3> QED BY <3>1, <3>2 DEF Tops
  <2>2. IsBase(e, h)
    BY ClassGroupFacts DEF IsBase
  <2>3. MoveRows(e, t, h) \in Wreath(e)
    <3> HIDE DEF t
    <3> QED BY <2>1, <2>2, WreathElements
  <2>4. ASSUME NEW r \in Rows(e) PROVE MoveRows(e, t, h)[r] = r
    <3>1. r = <<r[1], r[2]>> /\ r[1] \in Positions(e) /\ r[2] \in DOMAIN e.ops[r[1]].labels
      BY RowFacts
    <3> QED BY <3>1 DEF MoveRows, Identity
  <2>5. MoveRows(e, t, h) = Identity(Rows(e))
    <3> HIDE DEF t, h
    <3> QED BY <2>4 DEF MoveRows, Identity
  <2> QED BY <2>3, <2>5
<1>4. ASSUME NEW s \in Wreath(e), NEW u \in Wreath(e) PROVE Compose(s, u) \in Wreath(e)
  <2>1. PICK ts \in Tops(e) : \E h : IsBase(e, h) /\ s = MoveRows(e, ts, h)
    BY WreathElements
  <2>2. PICK hs : IsBase(e, hs) /\ s = MoveRows(e, ts, hs)
    BY <2>1
  <2>3. PICK tu \in Tops(e) : \E h : IsBase(e, h) /\ u = MoveRows(e, tu, h)
    BY WreathElements
  <2>4. PICK hu : IsBase(e, hu) /\ u = MoveRows(e, tu, hu)
    BY <2>3
  <2> DEFINE t == [k \in Positions(e) |-> ts[tu[k]]]
             h == [k \in Positions(e) |-> Compose(hs[tu[k]], hu[k])]
  <2>5. ASSUME NEW k \in Positions(e)
        PROVE  /\ tu[k] \in Class(e, k) /\ tu[k] \in Positions(e)
               /\ t[k] \in Class(e, k)
               /\ hs[tu[k]] \in ClassGroup(e, k) /\ hu[k] \in ClassGroup(e, k)
    <3>1. tu[k] \in Class(e, k) /\ tu[k] \in Positions(e)
      BY ClassFacts DEF Tops
    <3>2. ts[tu[k]] \in Class(e, tu[k]) /\ Class(e, tu[k]) = Class(e, k)
      BY <3>1, ClassFacts DEF Tops
    <3>3. hs[tu[k]] \in ClassGroup(e, tu[k]) /\ hu[k] \in ClassGroup(e, k)
      BY <3>1, <2>2, <2>4 DEF IsBase
    <3>4. ClassGroup(e, tu[k]) = ClassGroup(e, k)
      BY <3>1, ClassGroupFacts
    <3> QED BY <3>1, <3>2, <3>3, <3>4
  <2>6. t \in Tops(e)
    <3>1. ts \in Bijection(Positions(e), Positions(e)) /\ tu \in Bijection(Positions(e), Positions(e))
      BY DEF Tops
    <3>2. t \in Bijection(Positions(e), Positions(e))
      BY <3>1, Fun_BijTransitive
    <3> HIDE DEF t
    <3> QED BY <3>2, <2>5 DEF Tops
  <2>7. IsBase(e, h)
    BY <2>5, ClassGroupFacts DEF IsBase
  <2>8. MoveRows(e, t, h) \in Wreath(e)
    <3> HIDE DEF t
    <3> QED BY <2>6, <2>7, WreathElements
  <2>9. ASSUME NEW r \in Rows(e) PROVE MoveRows(e, t, h)[r] = s[u[r]]
    <3>1. r[1] \in Positions(e) /\ r[2] \in DOMAIN e.ops[r[1]].labels
      BY RowFacts
    <3>2. u[r] = <<tu[r[1]], hu[r[1]][r[2]]>> /\ u[r] \in Rows(e)
      <4>1. /\ MoveRows(e, tu, hu)[r] = <<tu[r[1]], hu[r[1]][r[2]]>>
            /\ <<tu[r[1]], hu[r[1]][r[2]]>> \in Rows(e)
        BY <2>4, <1>1
      <4> QED BY <4>1, <2>4
    <3>3. s[u[r]] = <<ts[tu[r[1]]], hs[tu[r[1]]][hu[r[1]][r[2]]]>>
      <4>1. s[u[r]] = <<ts[u[r][1]], hs[u[r][1]][u[r][2]]>>
        <5>1. ASSUME NEW q \in Rows(e) PROVE s[q] = <<ts[q[1]], hs[q[1]][q[2]]>>
          <6>1. /\ MoveRows(e, ts, hs)[q] = <<ts[q[1]], hs[q[1]][q[2]]>>
                /\ <<ts[q[1]], hs[q[1]][q[2]]>> \in Rows(e)
            BY <2>2, <1>1
          <6> QED BY <6>1, <2>2
        <5> QED BY <5>1, <3>2
      <4> QED BY <4>1, <3>2
    <3>4. h[r[1]][r[2]] = hs[tu[r[1]]][hu[r[1]][r[2]]]
      <4>1. /\ hs[tu[r[1]]] \in [DOMAIN e.ops[r[1]].labels -> DOMAIN e.ops[r[1]].labels]
            /\ hu[r[1]] \in [DOMAIN e.ops[r[1]].labels -> DOMAIN e.ops[r[1]].labels]
        BY <3>1, <2>5, ClassGroupFacts
      <4>2. h[r[1]] = Compose(hs[tu[r[1]]], hu[r[1]])
        BY <3>1
      <4> HIDE DEF h
      <4> QED BY <4>1, <4>2, <3>1 DEF Compose
    <3>5. MoveRows(e, t, h)[r] = <<t[r[1]], h[r[1]][r[2]]>>
      BY <2>6, <2>7, <1>1
    <3> QED BY <3>1, <3>3, <3>4, <3>5
  <2>10. MoveRows(e, t, h) = Compose(s, u)
    <3>1. DOMAIN u = Rows(e)
      BY <1>2
    <3> HIDE DEF t, h
    <3> QED BY <3>1, <2>9 DEF MoveRows, Compose
  <2> QED BY <2>8, <2>10
<1> QED BY <1>2, <1>3, <1>4

\* A permutation of rows that takes equal labels to equal labels, and others to
\* others, induces a renaming.
LEMMA InducedFits ==
  ASSUME NEW e, NEW R, NEW sigma \in [R -> R]
  PROVE  IsRenaming(Induced(e, sigma)) <=>
              \A r, q \in R : LabelAt(e, r) = LabelAt(e, q)
                                <=> LabelAt(e, sigma[r]) = LabelAt(e, sigma[q])
<1> DEFINE I == Induced(e, sigma)
<1>1. I = {<<LabelAt(e, r), LabelAt(e, sigma[r])>> : r \in R}
  BY DEF Induced
<1>2. IsRenaming(I) <=> \A r, q \in R : LabelAt(e, r) = LabelAt(e, q)
                                <=> LabelAt(e, sigma[r]) = LabelAt(e, sigma[q])
  <2>1. ASSUME IsRenaming(I), NEW r \in R, NEW q \in R
        PROVE  LabelAt(e, r) = LabelAt(e, q) <=> LabelAt(e, sigma[r]) = LabelAt(e, sigma[q])
    <3>1. /\ <<LabelAt(e, r), LabelAt(e, sigma[r])>> \in I
          /\ <<LabelAt(e, q), LabelAt(e, sigma[q])>> \in I
      BY <1>1
    <3> HIDE DEF I
    <3> QED BY <3>1, <2>1 DEF IsRenaming
  <2>2. ASSUME \A r, q \in R : LabelAt(e, r) = LabelAt(e, q)
                                <=> LabelAt(e, sigma[r]) = LabelAt(e, sigma[q])
        PROVE  IsRenaming(I)
    <3> SUFFICES ASSUME NEW p \in I, NEW w \in I PROVE (p[1] = w[1]) = (p[2] = w[2])
      BY DEF IsRenaming
    <3>1. PICK r \in R : p = <<LabelAt(e, r), LabelAt(e, sigma[r])>>
      BY <1>1
    <3>2. PICK q \in R : w = <<LabelAt(e, q), LabelAt(e, sigma[q])>>
      BY <1>1
    <3>3. p[1] = w[1] <=> p[2] = w[2]
      BY <3>1, <3>2, <2>2
    <3> QED BY <3>3
  <2> QED BY <2>1, <2>2
<1> QED BY <1>2

\* Of two permutations of the rows that induce renamings, the composition does too.
LEMMA InducedFacts ==
  ASSUME NEW e, NEW R, NEW sigma \in [R -> R], IsRenaming(Induced(e, sigma)),
         NEW V, \A r \in R : LabelAt(e, r) \in V, \A l \in V : \E r \in R : LabelAt(e, r) = l
  PROVE  /\ AsRenaming(Induced(e, sigma)) \in [V -> V]
         /\ \A r \in R : AsRenaming(Induced(e, sigma))[LabelAt(e, r)] = LabelAt(e, sigma[r])
         /\ IsInjective(AsRenaming(Induced(e, sigma)))
<1> DEFINE I == Induced(e, sigma)
           pi == AsRenaming(I)
<1>1. I = {<<LabelAt(e, r), LabelAt(e, sigma[r])>> : r \in R}
  BY DEF Induced
<1>2. \A r, q \in R : LabelAt(e, r) = LabelAt(e, q)
                                <=> LabelAt(e, sigma[r]) = LabelAt(e, sigma[q])
  BY InducedFits
<1>3. {p[1] : p \in I} = V
  <2>1. ASSUME NEW p \in I PROVE p[1] \in V
    <3>1. PICK r \in R : p = <<LabelAt(e, r), LabelAt(e, sigma[r])>>
      BY <1>1
    <3> QED BY <3>1
  <2>2. ASSUME NEW r \in R PROVE \E p \in I : p[1] = LabelAt(e, r)
    <3>1. <<LabelAt(e, r), LabelAt(e, sigma[r])>> \in I
      BY <1>1
    <3> HIDE DEF I
    <3> QED BY <3>1
  <2> HIDE DEF I
  <2> QED BY <2>1, <2>2
<1>4. ASSUME NEW r \in R PROVE pi[LabelAt(e, r)] = LabelAt(e, sigma[r])
  <2> DEFINE p == CHOOSE w \in I : w[1] = LabelAt(e, r)
             q == <<LabelAt(e, r), LabelAt(e, sigma[r])>>
  <2>1. q \in I /\ q[1] = LabelAt(e, r) /\ q[2] = LabelAt(e, sigma[r])
    BY <1>1
  <2>2. p \in I /\ p[1] = LabelAt(e, r)
    BY <2>1
  <2>3. pi[LabelAt(e, r)] = p[2]
    BY <1>3 DEF AsRenaming
  <2> HIDE DEF p, q
  <2>4. IsRenaming(I)
    OBVIOUS
  <2> HIDE DEF I
  <2> QED BY <2>1, <2>2, <2>3, <2>4 DEF IsRenaming
<1>5. DOMAIN pi = V /\ pi = [l \in V |-> pi[l]]
  <2> HIDE DEF I
  <2>1. pi = [l \in {p[1] : p \in I} |-> (CHOOSE p \in I : p[1] = l)[2]]
    BY DEF AsRenaming
  <2>2. pi = [l \in V |-> (CHOOSE p \in I : p[1] = l)[2]]
    BY <2>1, <1>3
  <2> QED BY <2>2
<1> HIDE DEF pi, I
<1>6. pi \in [V -> V]
  BY <1>4, <1>5
<1>7. IsInjective(pi)
  <2> SUFFICES ASSUME NEW l \in V, NEW m \in V, pi[l] = pi[m] PROVE l = m
    BY <1>5 DEF IsInjective
  <2>1. PICK r \in R : l = LabelAt(e, r)
    OBVIOUS
  <2>2. PICK q \in R : m = LabelAt(e, q)
    OBVIOUS
  <2> QED BY <2>1, <2>2, <1>2, <1>4
<1> QED BY <1>4, <1>6, <1>7 DEF pi, I

\* The renamings that are detected (run_sigma_loop) form a group.
LEMMA RenamingsAreGroup ==
  ASSUME NEW e, Shaped(e), Exchangeable(e)
  PROVE  /\ IsFiniteSet(Labels(e))
         /\ Renamings(e) \subseteq [Labels(e) -> Labels(e)]
         /\ Identity(Labels(e)) \in Renamings(e)
         /\ \A g, h \in Renamings(e) : Compose(g, h) \in Renamings(e)
<1> DEFINE L == Labels(e)
           Fits(s) == \A r, q \in Rows(e) : LabelAt(e, r) = LabelAt(e, q)
                                <=> LabelAt(e, s[r]) = LabelAt(e, s[q])
<1>1. IsFiniteSet(L)
  BY LabelsFinite DEF Labels
<1>2. L = {LabelAt(e, r) : r \in Rows(e)}
  BY RowFacts
<1>3. ASSUME NEW s \in Wreath(e)
      PROVE  /\ s \in [Rows(e) -> Rows(e)]
             /\ IsRenaming(Induced(e, s)) <=> Fits(s)
             /\ Fits(s) => /\ AsRenaming(Induced(e, s)) \in [L -> L]
                           /\ \A r \in Rows(e) :
                                AsRenaming(Induced(e, s))[LabelAt(e, r)] = LabelAt(e, s[r])
  <2>1. s \in [Rows(e) -> Rows(e)]
    BY WreathIsGroup
  <2>2. IsRenaming(Induced(e, s)) <=> Fits(s)
    BY <2>1, InducedFits
  <2>3. /\ \A r \in Rows(e) : LabelAt(e, r) \in L
        /\ \A l \in L : \E r \in Rows(e) : LabelAt(e, r) = l
    BY <1>2
  <2>4. IsRenaming(Induced(e, s)) =>
          /\ AsRenaming(Induced(e, s)) \in [L -> L]
          /\ \A r \in Rows(e) : AsRenaming(Induced(e, s))[LabelAt(e, r)] = LabelAt(e, s[r])
    <3> HIDE DEF L
    <3> QED BY <2>1, <2>3, InducedFacts
  <2> HIDE DEF L, Fits
  <2> QED BY <2>1, <2>2, <2>4
<1>4. Renamings(e) = {AsRenaming(Induced(e, s)) : s \in {u \in Wreath(e) : Fits(u)}}
  <2>1. Renamings(e) =
          {AsRenaming(Induced(e, s)) : s \in {u \in Wreath(e) : IsRenaming(Induced(e, u))}}
    BY DEF Renamings
  <2>2. {u \in Wreath(e) : IsRenaming(Induced(e, u))} = {u \in Wreath(e) : Fits(u)}
    <3> HIDE DEF Fits
    <3> QED BY <1>3
  <2> QED BY <2>1, <2>2
<1>5. Renamings(e) \subseteq [L -> L]
  <2> HIDE DEF Fits, L
  <2> QED BY <1>3, <1>4
<1>6. Identity(L) \in Renamings(e)
  <2> DEFINE s == Identity(Rows(e))
             pi == AsRenaming(Induced(e, s))
  <2>1. s \in Wreath(e) /\ \A r \in Rows(e) : s[r] = r
    BY WreathIsGroup DEF Identity
  <2>2. Fits(s)
    <3> HIDE DEF s
    <3> QED BY <2>1
  <2> HIDE DEF s
  <2>3. /\ pi \in [L -> L]
        /\ \A r \in Rows(e) : pi[LabelAt(e, r)] = LabelAt(e, r)
    BY <2>1, <2>2, <1>3
  <2>4. pi = Identity(L)
    <3> HIDE DEF pi
    <3>1. \A l \in L : pi[l] = l
      BY <2>3, <1>2
    <3> HIDE DEF L
    <3> QED BY <3>1, <2>3 DEF Identity
  <2> QED BY <2>1, <2>2, <2>4, <1>4
<1>7. ASSUME NEW g \in Renamings(e), NEW h \in Renamings(e)
      PROVE  Compose(g, h) \in Renamings(e)
  <2>1. PICK s \in Wreath(e) : Fits(s) /\ g = AsRenaming(Induced(e, s))
    <3> HIDE DEF Fits
    <3> QED BY <1>4
  <2>2. PICK u \in Wreath(e) : Fits(u) /\ h = AsRenaming(Induced(e, u))
    <3> HIDE DEF Fits
    <3> QED BY <1>4
  <2> DEFINE c == Compose(s, u)
             pi == AsRenaming(Induced(e, c))
  <2>3. c \in Wreath(e) /\ \A r \in Rows(e) : c[r] = s[u[r]] /\ u[r] \in Rows(e)
    <3>1. s \in [Rows(e) -> Rows(e)] /\ u \in [Rows(e) -> Rows(e)] /\ c \in Wreath(e)
      BY WreathIsGroup
    <3> QED BY <3>1, ComposeFacts
  <2> HIDE DEF c
  <2>4. Fits(c)
    BY <2>1, <2>2, <2>3
  <2>5. /\ pi \in [L -> L]
        /\ \A r \in Rows(e) : pi[LabelAt(e, r)] = LabelAt(e, c[r])
    BY <2>3, <2>4, <1>3
  <2>6. g \in [L -> L] /\ h \in [L -> L]
    BY <1>5, <1>7
  <2>7. ASSUME NEW r \in Rows(e) PROVE pi[LabelAt(e, r)] = g[h[LabelAt(e, r)]]
    <3>1. h[LabelAt(e, r)] = LabelAt(e, u[r])
      BY <2>2, <1>3
    <3>2. g[LabelAt(e, u[r])] = LabelAt(e, s[u[r]])
      BY <2>1, <2>3, <1>3
    <3> QED BY <3>1, <3>2, <2>3, <2>5
  <2>8. pi = Compose(g, h)
    <3>1. \A l \in L : pi[l] = g[h[l]]
      BY <2>7, <1>2
    <3> HIDE DEF pi, L
    <3>2. Compose(g, h) \in [L -> L] /\ \A l \in L : Compose(g, h)[l] = g[h[l]]
      <4>1. \A a, b \in [L -> L] : /\ Compose(a, b) \in [L -> L]
                                   /\ \A l \in L : Compose(a, b)[l] = a[b[l]]
        BY ComposeFacts
      <4> QED BY <4>1, <2>6
    <3> QED BY <3>1, <3>2, <2>5
  <2> QED BY <2>3, <2>4, <2>8, <1>4
<1> QED BY <1>1, <1>5, <1>6, <1>7

\* The renamings that remain to be tried, of an expression that is priced.
LEMMA CandidatesAreRenamings ==
  ASSUME NEW e \in Known, Exchangeable(e)
  PROVE  /\ CandidatesOf[e] = Renamings(e) \ {Identity(Labels(e))}
         /\ CandidatesOf[e] \in SUBSET [Labels(e) -> Labels(e)]
         /\ IsFiniteSet(Labels(e))
<1>1. CandidatesOf[e] = Renamings(e) \ {Identity(Labels(e))}
  <2> HIDE DEF Known
  <2> QED BY DEF CandidatesOf, Candidates
<1>2. Shaped(e)
  BY KnownFacts
<1> QED BY <1>1, <1>2, RenamingsAreGroup

\* A renaming that does not make the group larger is in the group.
LEMMA RedundantIsGenerated ==
  ASSUME NEW L, IsFiniteSet(L), NEW gens \in SUBSET [L -> L], NEW g \in [L -> L],
         ~ Cardinality(Dimino(L, gens \cup {g})) > Cardinality(Dimino(L, gens))
  PROVE  g \in Dimino(L, gens)
<1> DEFINE D == Dimino(L, gens)
           E == Dimino(L, gens \cup {g})
<1>1. gens \cup {g} \in SUBSET [L -> L]
  OBVIOUS
<1>2. D \subseteq E
  <2>1. ASSUME NEW more, more = gens \cup {g} PROVE D \subseteq Dimino(L, more)
    BY <1>1, <2>1, DiminoGrows
  <2> QED BY <2>1
<1>3. g \in E /\ E \in SUBSET [L -> L]
  BY <1>1, DiminoIsLeast
<1>4. IsFiniteSet(E)
  <2> HIDE DEF E
  <2> QED BY <1>3, FunctionsFinite, FS_Subset
<1> HIDE DEF D, E
<1>5. Cardinality(D) <= Cardinality(E) /\ (Cardinality(E) = Cardinality(D) => E = D)
  BY <1>2, <1>4, FS_Subset
<1>6. IsFiniteSet(D)
  BY <1>2, <1>4, FS_Subset
<1>7. Cardinality(D) \in Nat /\ Cardinality(E) \in Nat
  BY <1>4, <1>6, FS_CardinalityType
<1>8. ~ Cardinality(E) > Cardinality(D)
  BY DEF D, E
<1>9. Cardinality(E) = Cardinality(D)
  BY <1>5, <1>7, <1>8
<1> QED BY <1>3, <1>5, <1>9 DEF D

\* While generators are selected every renaming is one that was kept, or generated
\* by them, or still to be tried.
Selecting(f) ==
    /\ Exchangeable(f.expr)
    /\ f.chosen \subseteq CandidatesOf[f.expr]
    /\ f.rest \subseteq CandidatesOf[f.expr]
    /\ CandidatesOf[f.expr] \subseteq f.rest \cup Dimino(Labels(f.expr), f.chosen)

\* When no candidate is left, the ones kept generate every renaming.
LEMMA SelectedGenerate ==
  ASSUME NEW f, f.expr \in Known, Selecting(f), f.rest = {}
  PROVE  /\ Dimino(Labels(f.expr), f.chosen) = Renamings(f.expr)
         /\ f.chosen \in Generating(f.expr)
<1> DEFINE e == f.expr
           L == Labels(e)
           R == Renamings(e)
           D == Dimino(L, f.chosen)
<1>1. /\ CandidatesOf[e] = R \ {Identity(L)} /\ CandidatesOf[e] \in SUBSET [L -> L]
      /\ IsFiniteSet(L)
  BY CandidatesAreRenamings DEF Selecting
<1>2. f.chosen \in SUBSET [L -> L] /\ f.chosen \subseteq CandidatesOf[e]
  BY <1>1 DEF Selecting
<1>3. /\ R \in SUBSET [L -> L] /\ Identity(L) \in R
      /\ \A g, h \in R : Compose(g, h) \in R
  BY KnownFacts, RenamingsAreGroup DEF Selecting
<1>4. D \subseteq R
  <2>1. f.chosen \cup {Identity(L)} \subseteq R
    BY <1>1, <1>2, <1>3
  <2>2. \A x \in R, g \in f.chosen : Compose(x, g) \in R
    BY <1>1, <1>2, <1>3
  <2> HIDE DEF R, L
  <2> QED BY <1>1, <1>2, <1>3, <2>1, <2>2, DiminoIsLeast
<1>5. R \subseteq D
  <2>1. Identity(L) \in D
    BY <1>1, <1>2, DiminoIsLeast
  <2>2. CandidatesOf[e] \subseteq D
    BY DEF Selecting
  <2> QED BY <1>1, <2>1, <2>2
<1>6. D = R
  BY <1>4, <1>5
<1> QED BY <1>2, <1>6 DEF Generating

-----------------------------------------------------------------------------
(***************************************************************************)
(* The frames of a call.                                                   *)
(***************************************************************************)
IsFrame(f) ==
    f = [expr |-> f.expr, limit |-> f.limit, at |-> f.at, chosen |-> f.chosen,
         rest |-> f.rest, seen |-> f.seen, scope |-> f.scope, extra |-> f.extra,
         fallback |-> f.fallback, dense |-> f.dense, parts |-> f.parts,
         merging |-> f.merging, saved |-> f.saved, inner |-> f.inner]

\* The operands of a path that have not been contracted yet are disjoint.
Apart(f) ==
    /\ f.parts \subseteq SUBSET Positions(f.expr) /\ {} \notin f.parts
    /\ \A S, T \in f.parts : S # T => S \cap T = {}
    /\ UNION f.parts = Positions(f.expr)

\* As long as every step was exact, what is left are sets of a path whose steps the
\* limit allows.
OnPath(e, limit, parts) ==
    \E tree \in SUBSET (SUBSET Positions(e)) : parts \subseteq tree /\ Path(e, limit, tree)

Walked(e, limit, parts, fallback) == ~ fallback => OnPath(e, limit, parts)

Merging(f) == \E S, T \in f.parts : S # T /\ f.merging = <<S, T>>

\* What was left of a contraction has been priced exactly only if its limit allowed.
Honoured(e, limit, price) == ~ price.fallback => <<e, limit>> \notin BeyondLimit

GoodFrame(f) ==
    /\ IsFrame(f) /\ f.expr \in Known /\ f.limit \in PartitionBudgets
    /\ f.at \in {"lookup", "select", "reduce", "walk", "override"}
    /\ f.at \in {"lookup", "select"} => f.inner = None
    /\ f.at = "select" => Selecting(f)
    /\ f.at = "reduce" => Len(f.expr.ops) = 2
    /\ f.at = "reduce" /\ f.inner # None => Honoured(Residual(f.expr), f.limit, f.inner)
    /\ f.at \in {"walk", "override"} => Len(f.expr.ops) >= 3
    /\ Apart(f)
    /\ Walked(f.expr, f.limit, f.parts, f.fallback)
    /\ f.at = "override" \/ (f.at = "walk" /\ f.inner # None) =>
           Merging(f) /\ Honoured(Step(f.expr, f.merging[1], f.merging[2]), f.limit, f.inner)

\* A frame waits for the one above it.
Linked(f, g) ==
    /\ f.inner = None /\ g.limit = f.limit
    /\ \/ f.at = "reduce" /\ g.expr = Residual(f.expr)
       \/ /\ f.at = "walk" /\ Merging(f)
          /\ g.expr = Step(f.expr, f.merging[1], f.merging[2])

GoodStack(s) ==
    /\ s \in Seq(ToSet(s))
    /\ \A i \in 1..Len(s) : GoodFrame(s[i])
    /\ \A i \in 1..(Len(s) - 1) : Linked(s[i], s[i + 1])

\* The top of a stack is a frame.
LEMMA StackFacts ==
  ASSUME NEW s, GoodStack(s), s # <<>>
  PROVE  Len(s) \in Nat \ {0} /\ DOMAIN s = 1..Len(s) /\ GoodFrame(s[Len(s)])
<1>1. s \in Seq(ToSet(s))
  BY DEF GoodStack
<1>2. Len(s) \in Nat /\ DOMAIN s = 1..Len(s) /\ Len(s) # 0
  <2> HIDE DEF ToSet
  <2> QED BY <1>1
<1> QED BY <1>2 DEF GoodStack

\* One frame is a stack.
LEMMA OneFrame ==
  ASSUME NEW f, GoodFrame(f)
  PROVE  GoodStack(<<f>>)
<1>1. Len(<<f>>) = 1 /\ <<f>>[1] = f /\ DOMAIN <<f>> = 1..1
  OBVIOUS
<1>2. <<f>> \in Seq(ToSet(<<f>>))
  <2>1. f \in ToSet(<<f>>)
    <3>1. 1 \in DOMAIN <<f>>
      OBVIOUS
    <3> QED BY <3>1, <1>1 DEF ToSet
  <2> HIDE DEF ToSet
  <2> QED BY <2>1
<1> QED BY <1>1, <1>2 DEF GoodStack

\* So is none.
LEMMA NoFrame == GoodStack(<<>>)
<1>1. Len(<<>>) = 0
  OBVIOUS
<1>2. <<>> \in Seq(ToSet(<<>>))
  OBVIOUS
<1> QED BY <1>1, <1>2 DEF GoodStack

\* A sequence is one of its own elements.
LEMMA OwnElements ==
  ASSUME NEW s, NEW n \in Nat, DOMAIN s = 1..n, s = [i \in 1..n |-> s[i]]
  PROVE  s \in Seq(ToSet(s)) /\ Len(s) = n
<1>1. \A i \in 1..n : s[i] \in ToSet(s)
  BY DEF ToSet
<1> HIDE DEF ToSet
<1>2. s \in [1..n -> ToSet(s)]
  BY <1>1
<1> QED BY <1>2

\* The top frame goes on.
LEMMA TopSet ==
  ASSUME NEW s, GoodStack(s), s # <<>>, NEW f, GoodFrame(f),
         f.expr = s[Len(s)].expr, f.limit = s[Len(s)].limit
  PROVE  /\ GoodStack([s EXCEPT ![Len(s)] = f])
         /\ Len([s EXCEPT ![Len(s)] = f]) = Len(s)
         /\ [s EXCEPT ![Len(s)] = f][Len(s)] = f
<1> DEFINE n == Len(s)
           r == [s EXCEPT ![n] = f]
<1>1. n \in Nat \ {0} /\ DOMAIN s = 1..n
  BY StackFacts
<1> HIDE DEF n
<1>2. DOMAIN r = 1..n /\ r = [i \in 1..n |-> r[i]]
  BY <1>1
<1>3. r[n] = f /\ \A i \in 1..n : i # n => r[i] = s[i]
  BY <1>1
<1> HIDE DEF r
<1>4. r \in Seq(ToSet(r)) /\ Len(r) = n
  BY <1>1, <1>2, OwnElements
<1>5. ASSUME NEW i \in 1..n PROVE GoodFrame(r[i])
  BY <1>3 DEF GoodStack, n
<1>6. ASSUME NEW i \in 1..(n - 1) PROVE Linked(r[i], r[i + 1])
  <2>1. Linked(s[i], s[i + 1]) /\ r[i] = s[i]
    <3>1. i \in 1..n /\ i # n
      BY <1>1
    <3> QED BY <3>1, <1>3 DEF GoodStack, n
  <2>2. CASE i + 1 = n
    BY <2>1, <2>2, <1>3 DEF Linked, n
  <2>3. CASE i + 1 # n
    <3>1. i + 1 \in 1..n
      BY <1>1
    <3>2. r[i + 1] = s[i + 1]
      BY <3>1, <2>3, <1>3
    <3> QED BY <2>1, <3>2
  <2> QED BY <2>2, <2>3
<1>7. GoodStack(r)
  BY <1>4, <1>5, <1>6 DEF GoodStack
<1> QED BY <1>3, <1>4, <1>7 DEF r, n

\* The top frame waits for a new one.
LEMMA TopPushed ==
  ASSUME NEW s, GoodStack(s), s # <<>>, NEW f, GoodFrame(f),
         f.expr = s[Len(s)].expr, f.limit = s[Len(s)].limit,
         NEW g, GoodFrame(g), Linked(f, g)
  PROVE  /\ GoodStack([s EXCEPT ![Len(s)] = f] \o <<g>>)
         /\ [s EXCEPT ![Len(s)] = f] \o <<g>> # <<>>
         /\ ([s EXCEPT ![Len(s)] = f] \o <<g>>)[Len([s EXCEPT ![Len(s)] = f] \o <<g>>)] = g
<1> DEFINE n == Len(s)
           q == [s EXCEPT ![n] = f]
           r == q \o <<g>>
<1>1. n \in Nat \ {0}
  BY StackFacts
<1>2. GoodStack(q) /\ Len(q) = n /\ q[n] = f
  BY TopSet
<1> HIDE DEF n, q
<1>3. q \in Seq(ToSet(q))
  BY <1>2 DEF GoodStack
<1>4. /\ Len(r) = n + 1 /\ DOMAIN r = 1..(n + 1) /\ r = [i \in 1..(n + 1) |-> r[i]]
      /\ r[n + 1] = g /\ \A i \in 1..n : r[i] = q[i]
  <2> HIDE DEF ToSet
  <2>1. q \in Seq(ToSet(q) \cup {g}) /\ <<g>> \in Seq(ToSet(q) \cup {g})
    BY <1>3
  <2> QED BY <2>1, <1>1, <1>2
<1> HIDE DEF r
<1>5. r \in Seq(ToSet(r))
  BY <1>1, <1>4, OwnElements
<1>6. ASSUME NEW i \in 1..(n + 1) PROVE GoodFrame(r[i])
  <2>1. CASE i = n + 1
    BY <2>1, <1>4
  <2>2. CASE i # n + 1
    <3>1. i \in 1..n
      BY <2>2, <1>1
    <3> QED BY <3>1, <1>2, <1>4 DEF GoodStack
  <2> QED BY <2>1, <2>2
<1>7. ASSUME NEW i \in 1..n PROVE Linked(r[i], r[i + 1])
  <2>1. CASE i = n
    BY <2>1, <1>2, <1>4
  <2>2. CASE i # n
    <3>1. i \in 1..(n - 1) /\ i + 1 \in 1..n
      BY <2>2, <1>1
    <3> QED BY <3>1, <1>2, <1>4 DEF GoodStack
  <2> QED BY <2>1, <2>2
<1>8. GoodStack(r)
  <2>1. Len(r) - 1 = n
    BY <1>1, <1>4
  <2> QED BY <2>1, <1>4, <1>5, <1>6, <1>7 DEF GoodStack
<1>9. r # <<>>
  BY <1>4, <1>1
<1> QED BY <1>4, <1>8, <1>9 DEF r, q, n

\* The top frame ends: the one below has its price.
LEMMA TopPopped ==
  ASSUME NEW s, GoodStack(s), s # <<>>, Len(s) # 1,
         NEW price, Honoured(s[Len(s)].expr, s[Len(s)].limit, price)
  PROVE  /\ GoodStack(HandedDown(s, price)) /\ HandedDown(s, price) # <<>>
         /\ HandedDown(s, price)[Len(HandedDown(s, price))].at \in {"reduce", "walk"}
<1> DEFINE n == Len(s) - 1
           old == s[n]
           f == [old EXCEPT !.inner = price]
           q == Front(s)
           r == HandedDown(s, price)
<1>1. Len(s) \in Nat \ {0} /\ DOMAIN s = 1..Len(s) /\ n \in Nat \ {0} /\ Len(s) = n + 1
  BY StackFacts
<1>2. s \in Seq(ToSet(s))
  BY DEF GoodStack
<1>3. /\ q = [i \in 1..n |-> s[i]]
  <2>1. q = SubSeq(s, 1, n)
    BY DEF Front
  <2> HIDE DEF n, ToSet
  <2> QED BY <2>1, <1>1, <1>2
<1>4. GoodFrame(old) /\ Linked(old, s[n + 1])
  BY <1>1 DEF GoodStack
<1>5. r = [q EXCEPT ![n] = f]
  <2>1. r = [q EXCEPT ![n] = [@ EXCEPT !.inner = price]]
    BY DEF HandedDown
  <2> HIDE DEF n, q, r
  <2>2. q[n] = old
    BY <1>1, <1>3
  <2> QED BY <2>1, <2>2
<1> HIDE DEF n, q, r
<1>6. GoodStack(q) /\ q # <<>> /\ Len(q) = n /\ q[n] = old
  <2>1. DOMAIN q = 1..n /\ q = [i \in 1..n |-> q[i]] /\ \A i \in 1..n : q[i] = s[i]
    BY <1>3
  <2>2. q \in Seq(ToSet(q)) /\ Len(q) = n
    BY <1>1, <2>1, OwnElements
  <2>3. \A i \in 1..n : GoodFrame(q[i])
    BY <1>1, <2>1 DEF GoodStack
  <2>4. \A i \in 1..(n - 1) : Linked(q[i], q[i + 1])
    <3>1. ASSUME NEW i \in 1..(n - 1) PROVE Linked(q[i], q[i + 1])
      <4>1. i \in 1..n /\ i + 1 \in 1..n /\ i \in 1..(Len(s) - 1)
        BY <1>1
      <4> QED BY <4>1, <2>1 DEF GoodStack
    <3> QED BY <3>1
  <2>5. q # <<>>
    BY <1>1, <2>2
  <2> QED BY <1>1, <2>1, <2>2, <2>3, <2>4, <2>5 DEF GoodStack
<1>7. /\ f = [expr |-> old.expr, limit |-> old.limit, at |-> old.at, chosen |-> old.chosen,
              rest |-> old.rest, seen |-> old.seen, scope |-> old.scope, extra |-> old.extra,
              fallback |-> old.fallback, dense |-> old.dense, parts |-> old.parts,
              merging |-> old.merging, saved |-> old.saved, inner |-> price]
  <2> HIDE DEF old
  <2> QED BY <1>4 DEF GoodFrame, IsFrame
<1> HIDE DEF f, old
<1>8. /\ f.expr = old.expr /\ f.limit = old.limit /\ f.at = old.at /\ f.parts = old.parts
      /\ f.merging = old.merging /\ f.inner = price /\ f.fallback = old.fallback /\ IsFrame(f)
  BY <1>7 DEF IsFrame
<1>9. f.at \in {"reduce", "walk"} /\ GoodFrame(f)
  <2>1. CASE old.at = "reduce" /\ s[n + 1].expr = Residual(old.expr)
    <3>1. Honoured(Residual(f.expr), f.limit, f.inner)
      BY <2>1, <1>1, <1>4, <1>8 DEF Linked
    <3> QED BY <3>1, <2>1, <1>4, <1>8 DEF GoodFrame, Apart
  <2>2. CASE /\ old.at = "walk" /\ Merging(old)
             /\ s[n + 1].expr = Step(old.expr, old.merging[1], old.merging[2])
    <3>1. Merging(f)
      BY <2>2, <1>8 DEF Merging
    <3>2. Honoured(Step(f.expr, f.merging[1], f.merging[2]), f.limit, f.inner)
      BY <2>2, <1>1, <1>4, <1>8 DEF Linked
    <3> QED BY <3>1, <3>2, <2>2, <1>4, <1>8 DEF GoodFrame, Apart
  <2> QED BY <2>1, <2>2, <1>4 DEF Linked
<1>10. GoodStack(r) /\ Len(r) = n /\ r[n] = f
  <2>1. r = [q EXCEPT ![Len(q)] = f] /\ q[Len(q)] = old
    BY <1>5, <1>6
  <2>2. /\ GoodStack([q EXCEPT ![Len(q)] = f])
        /\ Len([q EXCEPT ![Len(q)] = f]) = Len(q)
        /\ [q EXCEPT ![Len(q)] = f][Len(q)] = f
    <3>1. f.expr = q[Len(q)].expr /\ f.limit = q[Len(q)].limit
      BY <2>1, <1>8
    <3> QED BY <3>1, <1>6, <1>9, TopSet
  <2> QED BY <2>1, <2>2, <1>6
<1>11. r # <<>>
  BY <1>10, <1>1
<1> QED BY <1>9, <1>10, <1>11 DEF r, n

-----------------------------------------------------------------------------
(***************************************************************************)
(* The inductive invariant of the calls.                                   *)
(***************************************************************************)
SettingsOK ==
    /\ settings = [dimino |-> settings.dimino, partition |-> settings.partition]
    /\ settings.partition \in PartitionBudgets

Stacks ==
    /\ stack = [t \in Threads |-> stack[t]]
    /\ \A t \in Threads : GoodStack(stack[t])

\* A budget that will be set again was in force, or may be again.
Saved == \A t \in Threads : At(t, "override") => Top(t).saved \in inForce

Answers == answer = [t \in Threads |-> answer[t]] /\ LimitHonoured

Remembered == \A key \in DOMAIN cache : ~ cache[key].fallback => key \notin BeyondLimit

Inv ==
    /\ program \in Programs
    /\ SettingsOK /\ Stacks /\ Saved /\ Answers /\ Remembered
    /\ ConfigureSticks

\* The top frame of a thread prices an expression that is known.
LEMMA TopIsGood ==
  ASSUME Stacks, NEW t \in Threads, stack[t] # <<>>
  PROVE  /\ GoodStack(stack[t]) /\ GoodFrame(Top(t)) /\ IsFrame(Top(t))
         /\ Top(t).expr \in Known /\ Top(t).limit \in PartitionBudgets
         /\ Shaped(Top(t).expr)
<1>1. GoodStack(stack[t])
  BY DEF Stacks
<1>2. GoodFrame(Top(t))
  BY <1>1, StackFacts DEF Top
<1>3. IsFrame(Top(t)) /\ Top(t).expr \in Known /\ Top(t).limit \in PartitionBudgets
  BY <1>2 DEF GoodFrame
<1> QED BY <1>1, <1>2, <1>3, KnownFacts

\* A path begins with the operands.
LEMMA SinglesWalked ==
  ASSUME NEW e, NEW limit, NEW parts, parts = {{k} : k \in Positions(e)}
  PROVE  Walked(e, limit, parts, FALSE)
<1>1. \A P \in parts : P # {} /\ P \subseteq Positions(e) /\ Cardinality(P) = 1
  <2> SUFFICES ASSUME NEW k \in Positions(e)
               PROVE  {k} # {} /\ {k} \subseteq Positions(e) /\ Cardinality({k}) = 1
    OBVIOUS
  <2> QED BY FS_Singleton
<1>2. Path(e, limit, parts)
  BY <1>1 DEF Path
<1>3. parts \in SUBSET (SUBSET Positions(e))
  BY <1>1
<1> QED BY <1>2, <1>3 DEF Walked, OnPath

\* It goes on with a step the limit allows.
LEMMA PathGoesOn ==
  ASSUME NEW e, NEW limit, NEW parts, OnPath(e, limit, parts),
         NEW S \in parts, NEW T \in parts, S \cap T = {}, S # {},
         <<Step(e, S, T), limit>> \notin StepsBeyond,
         NEW next, next = (parts \ {S, T}) \cup {S \cup T}
  PROVE  OnPath(e, limit, next)
<1>2. PICK tree \in SUBSET (SUBSET Positions(e)) : parts \subseteq tree /\ Path(e, limit, tree)
  BY DEF OnPath
<1> DEFINE new == tree \cup {S \cup T}
<1>4. new \in SUBSET (SUBSET Positions(e)) /\ next \subseteq new /\ {} \notin new
  BY <1>2 DEF Path
<1>5. ASSUME NEW P \in new
      PROVE  \/ Cardinality(P) = 1
             \/ \E U, V \in new : /\ U \cap V = {} /\ U \cup V = P
                                 /\ <<Step(e, U, V), limit>> \notin StepsBeyond
  <2>1. CASE P = S \cup T
    <3>1. S \in new /\ T \in new
      BY <1>2
    <3> QED BY <2>1, <3>1
  <2>2. CASE P # S \cup T
    <3>1. P \in tree
      BY <2>2
    <3>2. \/ Cardinality(P) = 1
          \/ \E U, V \in tree : /\ U \cap V = {} /\ U \cup V = P
                               /\ <<Step(e, U, V), limit>> \notin StepsBeyond
      BY <3>1, <1>2 DEF Path
    <3> QED BY <3>2
  <2> QED BY <2>1, <2>2
<1>6. Path(e, limit, new)
  <2> HIDE DEF new
  <2> QED BY <1>4, <1>5 DEF Path
<1> QED BY <1>4, <1>6 DEF OnPath

\* Of a contraction without a path only its own price can be beyond a limit.
LEMMA SmallBeyond ==
  ASSUME NEW e, NEW limit, Len(e.ops) \in Nat, Len(e.ops) <= 2, <<e, limit>> \in BeyondLimit
  PROVE  <<e, limit>> \in StepsBeyond
<1>1. <<e, limit>> \notin PathsBeyond
  <2>1. ~ (Len(e.ops) >= 3)
    OBVIOUS
  <2> HIDE DEF Known
  <2> QED BY <2>1 DEF PathsBeyond
<1> QED BY <1>1 DEF BeyondLimit

\* The frame that a call or a caller starts with.
LEMMA NewFrame ==
  ASSUME NEW e \in Known, NEW limit \in PartitionBudgets
  PROVE  /\ GoodFrame(Frame(e, limit)) /\ Frame(e, limit).at = "lookup"
         /\ Frame(e, limit).expr = e /\ Frame(e, limit).limit = limit
<1> DEFINE f == Frame(e, limit)
<1>1. f = [expr |-> e, limit |-> limit, at |-> "lookup",
           chosen |-> {}, rest |-> {}, seen |-> 0, scope |-> 0,
           extra |-> 0, fallback |-> FALSE, dense |-> FALSE,
           parts |-> {{k} : k \in Positions(e)},
           merging |-> <<>>, saved |-> 0, inner |-> None]
  BY DEF Frame
<1> HIDE DEF f
<1>2. /\ f.expr = e /\ f.limit = limit /\ f.at = "lookup" /\ IsFrame(f)
      /\ f.parts = {{k} : k \in Positions(e)} /\ f.inner = None /\ f.fallback = FALSE
  <2> HIDE DEF None
  <2> QED BY <1>1 DEF IsFrame
<1>3. Apart(f)
  <2>1. ASSUME NEW S \in f.parts PROVE S \in SUBSET Positions(e) /\ S # {}
    BY <1>2
  <2>2. ASSUME NEW S \in f.parts, NEW T \in f.parts, S # T PROVE S \cap T = {}
    BY <1>2, <2>2
  <2>3. UNION f.parts = Positions(e)
    BY <1>2
  <2> QED BY <1>2, <2>1, <2>2, <2>3 DEF Apart
<1>4. Walked(e, limit, f.parts, FALSE)
  BY <1>2, SinglesWalked
<1>5. GoodFrame(f)
  BY <1>2, <1>3, <1>4 DEF GoodFrame
<1> QED BY <1>2, <1>5 DEF f

\* The thread goes on with its top frame.
LEMMA SetTopKeeps ==
  ASSUME Stacks, Saved, NEW t \in Threads, stack[t] # <<>>, NEW f, GoodFrame(f),
         f.expr = Top(t).expr, f.limit = Top(t).limit,
         f.at = "override" => f.saved \in inForce,
         SetTop(t, f), inForce' = inForce
  PROVE  Stacks' /\ Saved'
<1> DEFINE s == stack[t]
           r == [s EXCEPT ![Len(s)] = f]
<1>1. stack' = [stack EXCEPT ![t] = r] /\ stack = [u \in Threads |-> stack[u]]
  BY DEF SetTop, Stacks
<1>2. GoodStack(r) /\ Len(r) = Len(s) /\ r[Len(s)] = f
  BY TopIsGood, TopSet DEF Top
<1> HIDE DEF r
<1>3. stack'[t] = r /\ \A u \in Threads : u # t => stack'[u] = stack[u]
  BY <1>1
<1>4. stack' = [u \in Threads |-> stack'[u]]
  BY <1>1
<1>5. Stacks'
  BY <1>2, <1>3, <1>4 DEF Stacks
<1>6. ASSUME NEW u \in Threads, At(u, "override")'
      PROVE  Top(u)'.saved \in inForce
  <2>1. CASE u = t
    BY <2>1, <1>2, <1>3, <1>6 DEF At, Top
  <2>2. CASE u # t
    BY <2>2, <1>3, <1>6 DEF At, Top, Saved
  <2> QED BY <2>1, <2>2
<1> QED BY <1>5, <1>6 DEF Saved

\* The thread prices another expression first.
LEMMA PushKeeps ==
  ASSUME Stacks, Saved, NEW t \in Threads, stack[t] # <<>>, NEW f, GoodFrame(f),
         f.expr = Top(t).expr, f.limit = Top(t).limit,
         NEW g, GoodFrame(g), Linked(f, g), g.at # "override",
         Push(t, f, g), inForce' = inForce
  PROVE  Stacks' /\ Saved'
<1> DEFINE s == stack[t]
           r == [s EXCEPT ![Len(s)] = f] \o <<g>>
<1>1. stack' = [stack EXCEPT ![t] = r] /\ stack = [u \in Threads |-> stack[u]]
  BY DEF Push, Stacks
<1>2. GoodStack(r) /\ r # <<>> /\ r[Len(r)] = g
  BY TopIsGood, TopPushed DEF Top
<1> HIDE DEF r
<1>3. stack'[t] = r /\ \A u \in Threads : u # t => stack'[u] = stack[u]
  BY <1>1
<1>4. stack' = [u \in Threads |-> stack'[u]]
  BY <1>1
<1>5. Stacks'
  BY <1>2, <1>3, <1>4 DEF Stacks
<1>6. ASSUME NEW u \in Threads, At(u, "override")'
      PROVE  Top(u)'.saved \in inForce
  <2>1. CASE u = t
    BY <2>1, <1>2, <1>3, <1>6 DEF At, Top
  <2>2. CASE u # t
    BY <2>2, <1>3, <1>6 DEF At, Top, Saved
  <2> QED BY <2>1, <2>2
<1> QED BY <1>5, <1>6 DEF Saved

\* The call of a thread begins, or ends.
LEMMA StackSet ==
  ASSUME Stacks, Saved, NEW t \in Threads, NEW s, GoodStack(s),
         s # <<>> => s[Len(s)].at # "override",
         stack' = [stack EXCEPT ![t] = s], inForce' = inForce
  PROVE  Stacks' /\ Saved'
<1>1. stack = [u \in Threads |-> stack[u]]
  BY DEF Stacks
<1>2. stack'[t] = s /\ \A u \in Threads : u # t => stack'[u] = stack[u]
  BY <1>1
<1>3. stack' = [u \in Threads |-> stack'[u]]
  BY <1>1
<1>4. Stacks'
  BY <1>2, <1>3 DEF Stacks
<1>5. ASSUME NEW u \in Threads, At(u, "override")'
      PROVE  Top(u)'.saved \in inForce
  <2>1. CASE u = t
    BY <2>1, <1>2, <1>5 DEF At, Top
  <2>2. CASE u # t
    BY <2>2, <1>2, <1>5 DEF At, Top, Saved
  <2> QED BY <2>1, <2>2
<1> QED BY <1>4, <1>5 DEF Saved

\* A price is delivered to the caller.
LEMMA DeliverKeeps ==
  ASSUME Stacks, Saved, Answers, NEW t \in Threads, stack[t] # <<>>, NEW price,
         Honoured(Top(t).expr, Top(t).limit, price), Deliver(t, price), inForce' = inForce
  PROVE  Stacks' /\ Saved' /\ Answers'
<1>1. CASE Len(stack[t]) = 1
  <2>1. Stacks' /\ Saved'
    <3>1. stack' = [stack EXCEPT ![t] = <<>>]
      BY <1>1 DEF Deliver
    <3> QED BY <3>1, StackSet, NoFrame
  <2> DEFINE a == [kind |-> "price", expr |-> Top(t).expr, limit |-> Top(t).limit,
                   total |-> price.total, fallback |-> price.fallback, dense |-> price.dense]
  <2>2. answer' = [answer EXCEPT ![t] = a] /\ answer = [u \in Threads |-> answer[u]]
    BY <1>1 DEF Deliver, Answers
  <2>3. a.fallback = price.fallback /\ a.expr = Top(t).expr /\ a.limit = Top(t).limit
    OBVIOUS
  <2> HIDE DEF a
  <2>4. answer'[t] = a /\ \A u \in Threads : u # t => answer'[u] = answer[u]
    BY <2>2
  <2>5. answer' = [u \in Threads |-> answer'[u]]
    BY <2>2
  <2>6. LimitHonoured'
    <3> SUFFICES ASSUME NEW u \in Threads, answer'[u].kind = "price", ~ answer'[u].fallback
                 PROVE  <<answer'[u].expr, answer'[u].limit>> \notin BeyondLimit
      BY DEF LimitHonoured
    <3>1. CASE u = t
      BY <3>1, <2>3, <2>4 DEF Honoured
    <3>2. CASE u # t
      BY <3>2, <2>4 DEF Answers, LimitHonoured
    <3> QED BY <3>1, <3>2
  <2> QED BY <2>1, <2>5, <2>6 DEF Answers
<1>2. CASE Len(stack[t]) # 1
  <2> DEFINE r == HandedDown(stack[t], price)
  <2>1. stack' = [stack EXCEPT ![t] = r] /\ answer' = answer
    BY <1>2 DEF Deliver
  <2>2. GoodStack(r) /\ r # <<>> /\ r[Len(r)].at \in {"reduce", "walk"}
    BY <1>2, TopIsGood, TopPopped DEF Top
  <2> HIDE DEF r
  <2>3. Stacks' /\ Saved'
    BY <2>1, <2>2, StackSet
  <2>4. Answers'
    BY <2>1 DEF Answers, LimitHonoured
  <2> QED BY <2>3, <2>4
<1> QED BY <1>1, <1>2

\* A price is remembered, and delivered.
LEMMA StoreKeeps ==
  ASSUME Stacks, Saved, Answers, Remembered, NEW t \in Threads, stack[t] # <<>>, NEW price,
         Honoured(Top(t).expr, Top(t).limit, price), Store(t, price), inForce' = inForce
  PROVE  Stacks' /\ Saved' /\ Answers' /\ Remembered'
<1>1. Stacks' /\ Saved' /\ Answers'
  BY DeliverKeeps DEF Store
<1> DEFINE k == Key(Top(t))
<1>2. cache' = [key \in DOMAIN cache \cup {k} |-> IF key \in DOMAIN cache THEN cache[key] ELSE price]
  BY DEF Store
<1>3. Remembered'
  <2> SUFFICES ASSUME NEW key \in DOMAIN cache', ~ cache'[key].fallback
               PROVE  key \notin BeyondLimit
    BY DEF Remembered
  <2>1. CASE key \in DOMAIN cache
    BY <2>1, <1>2 DEF Remembered
  <2>2. CASE key \notin DOMAIN cache
    <3>1. key = k /\ cache'[key] = price
      BY <2>2, <1>2
    <3> QED BY <3>1 DEF Honoured, Key
  <2> QED BY <2>1, <2>2
<1> QED BY <1>1, <1>3

\* A price given up on claims nothing.
LEMMA BailKeeps ==
  ASSUME Stacks, Saved, Answers, Remembered, NEW t \in Threads, stack[t] # <<>>,
         Bail(t), inForce' = inForce
  PROVE  Stacks' /\ Saved' /\ Answers' /\ Remembered'
<1> DEFINE price == Priced(DensePrice(Top(t).expr), TRUE, TRUE)
<1>1. price.fallback
  BY DEF Priced
<1>2. Store(t, price)
  BY DEF Bail
<1> HIDE DEF price
<1> QED BY <1>1, <1>2, StoreKeeps DEF Honoured

\* An exception unwinds the whole call.
LEMMA RaiseKeeps ==
  ASSUME Stacks, Saved, Answers, Remembered, NEW t \in Threads,
         Raise(t), inForce' = inForce
  PROVE  Stacks' /\ Saved' /\ Answers' /\ Remembered'
<1>1. Stacks' /\ Saved'
  <2>1. stack' = [stack EXCEPT ![t] = <<>>]
    BY DEF Raise
  <2> QED BY <2>1, StackSet, NoFrame
<1>2. Remembered'
  BY DEF Raise, Remembered
<1>3. Answers'
  <2> DEFINE a == [kind |-> "error", expr |-> stack[t][1].expr]
  <2>1. answer' = [answer EXCEPT ![t] = a] /\ answer = [u \in Threads |-> answer[u]]
    BY DEF Raise, Answers
  <2>2. a.kind = "error"
    OBVIOUS
  <2> HIDE DEF a
  <2>3. answer'[t] = a /\ \A u \in Threads : u # t => answer'[u] = answer[u]
    BY <2>1
  <2>4. answer' = [u \in Threads |-> answer'[u]]
    BY <2>1
  <2> QED BY <2>2, <2>3, <2>4 DEF Answers, LimitHonoured
<1> QED BY <1>1, <1>2, <1>3

\* What is left of a contraction with nothing to sum first is the contraction.
LEMMA NothingIsolated ==
  ASSUME NEW e, Shaped(e), \A k \in Positions(e) : Isolated(e, k) = {}
  PROVE  Residual(e) = e
<1>1. e.ops = [k \in Positions(e) |-> e.ops[k]]
  <2>1. e.ops \in Seq(ToSet(e.ops))
    BY DEF Shaped
  <2> HIDE DEF ToSet
  <2> QED BY <2>1 DEF Positions
<1>2. [k \in Positions(e) |-> IF Isolated(e, k) = {} THEN e.ops[k]
                              ELSE ReduceOperand(e.ops[k], Isolated(e, k))] = e.ops
  BY <1>1
<1>3. e = [ops |-> e.ops, same |-> e.same, out |-> e.out, size |-> e.size]
  BY DEF Shaped
<1> QED BY <1>2, <1>3 DEF Residual

\* The price of what was closed is exact only if some generators allow it.
LEMMA ClosedIsHonoured ==
  ASSUME NEW f, f.expr \in Known, Selecting(f), f.rest = {},
         ~ Cardinality(Positions(f.expr)) >= 3,
         ~ (Cardinality(Positions(f.expr)) = 2
              /\ \E k \in Positions(f.expr) : Isolated(f.expr, k) # {}),
         NEW price, price.fallback = ContractionPrice(f.expr, f.chosen, f.limit).fallback
  PROVE  Honoured(f.expr, f.limit, price)
<1> DEFINE e == f.expr
<1>1. Shaped(e)
  BY KnownFacts
<1>2. Len(e.ops) \in Nat /\ Positions(e) = 1..Len(e.ops)
  BY <1>1, Axes DEF Shaped, Positions
<1>3. Cardinality(Positions(e)) = Len(e.ops)
  <2>1. ASSUME NEW n \in Nat PROVE Cardinality(1..n) = n
    BY FS_Interval
  <2> QED BY <1>2, <2>1
<1>4. Counted(e) = e
  <2>1. CASE Len(e.ops) = 2
    <3>1. \A k \in Positions(e) : Isolated(e, k) = {}
      BY <2>1, <1>3
    <3> QED BY <3>1, <2>1, <1>1, NothingIsolated DEF Counted
  <2>2. CASE Len(e.ops) # 2
    BY <2>2 DEF Counted
  <2> QED BY <2>1, <2>2
<1>5. f.chosen \in Generating(e)
  BY SelectedGenerate
<1>6. SUFFICES ASSUME <<e, f.limit>> \in BeyondLimit, ~ price.fallback PROVE FALSE
  BY DEF Honoured
<1>7. \A gens \in Generating(Counted(e)) : ContractionPrice(Counted(e), gens, f.limit).fallback
  <2>1. Len(e.ops) <= 2
    BY <1>2, <1>3
  <2> DEFINE limit == f.limit
  <2> HIDE DEF e, limit
  <2>2. <<e, limit>> \in StepsBeyond
    BY <1>2, <1>6, <2>1, SmallBeyond DEF limit
  <2> HIDE DEF Known
  <2> QED BY <2>2 DEF StepsBeyond, limit
<1> HIDE DEF e
<1>8. ContractionPrice(e, f.chosen, f.limit).fallback
  BY <1>4, <1>5, <1>7
<1> QED BY <1>6, <1>8 DEF e

Kept == SettingsOK /\ Stacks /\ Saved /\ Answers /\ Remembered /\ ConfigureSticks

\* The settings stay as they are.
LEMMA Steady ==
  ASSUME SettingsOK, ConfigureSticks, settings' = settings, inForce' = inForce
  PROVE  SettingsOK' /\ ConfigureSticks'
BY DEF SettingsOK, ConfigureSticks

\* configure() may come between any two steps of the calls.
LEMMA ConfigureKeeps ==
  ASSUME Kept, NEW t \in Threads, Configure(t)
  PROVE  Kept'
<1>1. stack' = stack /\ answer' = answer /\ cache' = cache
  BY DEF Configure
<1>2. Stacks' /\ Answers' /\ Remembered'
  BY <1>1 DEF Kept, Stacks, Answers, LimitHonoured, Remembered
<1>3. \A u \in Threads : At(u, "override")' <=> At(u, "override")
  BY <1>1 DEF At, Top
<1>4. \A u \in Threads : Top(u)' = Top(u)
  BY <1>1 DEF Top
<1>5. CASE \E b \in DiminoBudgets \ {settings.dimino} :
             /\ settings' = [settings EXCEPT !.dimino = b]
             /\ inForce' = {b} \cup {Top(u).saved : u \in {v \in Threads : At(v, "override")}}
  <2>1. PICK b \in DiminoBudgets \ {settings.dimino} :
             /\ settings' = [settings EXCEPT !.dimino = b]
             /\ inForce' = {b} \cup {Top(u).saved : u \in {v \in Threads : At(v, "override")}}
    BY <1>5
  <2>2. /\ settings' = [dimino |-> b, partition |-> settings.partition]
        /\ settings.partition \in PartitionBudgets
    BY <2>1 DEF Kept, SettingsOK
  <2>3. SettingsOK' /\ ConfigureSticks'
    BY <2>1, <2>2 DEF SettingsOK, ConfigureSticks
  <2>4. Saved'
    BY <2>1, <1>3, <1>4 DEF Saved
  <2> QED BY <2>3, <2>4, <1>2 DEF Kept
<1>6. CASE \E b \in PartitionBudgets \ {settings.partition} :
             settings' = [settings EXCEPT !.partition = b] /\ UNCHANGED inForce
  <2>1. PICK b \in PartitionBudgets \ {settings.partition} :
             settings' = [settings EXCEPT !.partition = b] /\ inForce' = inForce
    BY <1>6
  <2>2. settings' = [dimino |-> settings.dimino, partition |-> b]
    BY <2>1 DEF Kept, SettingsOK
  <2>3. SettingsOK' /\ ConfigureSticks'
    BY <2>1, <2>2 DEF Kept, SettingsOK, ConfigureSticks
  <2>4. Saved'
    BY <2>1, <1>3, <1>4 DEF Kept, Saved
  <2> QED BY <2>3, <2>4, <1>2 DEF Kept
<1> QED BY <1>5, <1>6 DEF Configure

\* A call begins with one frame.
LEMMA CallKeeps ==
  ASSUME Kept, program \in Programs, NEW t \in Threads, Call(t)
  PROVE  Kept'
<1>1. PICK e \in program : stack' = [stack EXCEPT ![t] = <<Frame(e, settings.partition)>>]
  BY DEF Call
<1>2. /\ answer' = [answer EXCEPT ![t] = None] /\ cache' = cache
      /\ settings' = settings /\ inForce' = inForce
  BY DEF Call
<1>3. e \in Known
  BY KnownFacts DEF Expressions
<1> DEFINE f == Frame(e, settings.partition)
<1>4. GoodFrame(f) /\ f.at = "lookup"
  BY <1>3, NewFrame DEF Kept, SettingsOK
<1> HIDE DEF f
<1>5. GoodStack(<<f>>) /\ <<f>>[Len(<<f>>)] = f
  BY <1>4, OneFrame
<1>6. Stacks' /\ Saved'
  BY <1>1, <1>2, <1>4, <1>5, StackSet DEF Kept, f
<1>7. Answers'
  <2>1. answer = [u \in Threads |-> answer[u]]
    BY DEF Kept, Answers
  <2>2. answer'[t] = None /\ \A u \in Threads : u # t => answer'[u] = answer[u]
    BY <1>2, <2>1
  <2>3. answer' = [u \in Threads |-> answer'[u]]
    BY <1>2, <2>1
  <2>4. None.kind # "price"
    BY DEF None
  <2> HIDE DEF None
  <2> QED BY <2>2, <2>3, <2>4 DEF Kept, Answers, LimitHonoured
<1>8. Remembered'
  BY <1>2 DEF Kept, Remembered
<1> QED BY <1>2, <1>6, <1>7, <1>8, Steady DEF Kept

\* A remembered price is handed out.
LEMMA HitKeeps ==
  ASSUME Kept, NEW t \in Threads, Hit(t)
  PROVE  Kept'
<1>1. /\ stack[t] # <<>> /\ Key(Top(t)) \in DOMAIN cache
      /\ Deliver(t, cache[Key(Top(t))])
      /\ settings' = settings /\ cache' = cache /\ inForce' = inForce
  BY DEF Hit, At
<1>2. Honoured(Top(t).expr, Top(t).limit, cache[Key(Top(t))])
  BY <1>1 DEF Kept, Remembered, Honoured, Key
<1>3. Stacks' /\ Saved' /\ Answers'
  BY <1>1, <1>2, DeliverKeeps DEF Kept
<1>4. Remembered'
  BY <1>1 DEF Kept, Remembered
<1> QED BY <1>1, <1>3, <1>4, Steady DEF Kept

\* The wreath product is enumerated, or refused.
LEMMA EnumerateKeeps ==
  ASSUME Kept, NEW t \in Threads, Enumerate(t)
  PROVE  Kept'
<1> DEFINE f == Top(t)
           candidates == CandidatesOf[f.expr]
           chosen == IF Cardinality(candidates) = 1 THEN candidates ELSE {}
           rest == IF Cardinality(candidates) = 1 THEN {} ELSE candidates
           g == [f EXCEPT !.at = "select", !.scope = settings.dimino, !.chosen = chosen,
                          !.rest = rest]
<1>1. /\ stack[t] # <<>> /\ f.at = "lookup" /\ settings' = settings /\ inForce' = inForce
  BY DEF Enumerate, At
<1>2. \/ Bail(t) \/ Raise(t)
      \/ Exchangeable(f.expr) /\ SetTop(t, g) /\ cache' = cache /\ answer' = answer
  BY DEF Enumerate
<1>3. /\ GoodFrame(f) /\ IsFrame(f) /\ f.expr \in Known
  BY <1>1, TopIsGood DEF Kept
<1>4. CASE Exchangeable(f.expr) /\ SetTop(t, g) /\ cache' = cache /\ answer' = answer
  <2> HIDE DEF f
  <2>1. candidates \in SUBSET [Labels(f.expr) -> Labels(f.expr)] /\ IsFiniteSet(Labels(f.expr))
    BY <1>3, <1>4, CandidatesAreRenamings
  <2> HIDE DEF candidates, chosen, rest
  <2>2. /\ g.expr = f.expr /\ g.limit = f.limit /\ g.at = "select" /\ IsFrame(g)
        /\ g.chosen = chosen /\ g.rest = rest
        /\ g.parts = f.parts /\ g.merging = f.merging /\ g.inner = f.inner
        /\ g.fallback = f.fallback
    <3>1. g = [expr |-> f.expr, limit |-> f.limit, at |-> "select", chosen |-> chosen,
         rest |-> rest, seen |-> f.seen, scope |-> settings.dimino, extra |-> f.extra,
         fallback |-> f.fallback, dense |-> f.dense, parts |-> f.parts,
         merging |-> f.merging, saved |-> f.saved, inner |-> f.inner]
      <4>1. g = [x \in DOMAIN f |-> IF x = "at" THEN "select"
                                    ELSE IF x = "scope" THEN settings.dimino
                                    ELSE IF x = "chosen" THEN chosen
                                    ELSE IF x = "rest" THEN rest ELSE f[x]]
        BY <1>3 DEF IsFrame
      <4> QED BY <4>1, <1>3 DEF IsFrame
    <3> HIDE DEF g
    <3> QED BY <3>1 DEF IsFrame
  <2> HIDE DEF g
  <2>3. candidates \subseteq Dimino(Labels(f.expr), candidates)
    BY <2>1, DiminoIsLeast
  <2>4. Selecting(g)
    <3>1. CASE Cardinality(candidates) = 1
      <4>1. g.chosen = candidates /\ g.rest = {}
        BY <3>1, <2>2 DEF chosen, rest
      <4> QED BY <4>1, <2>2, <2>3, <1>4 DEF Selecting, candidates
    <3>2. CASE Cardinality(candidates) # 1
      <4>1. g.chosen = {} /\ g.rest = candidates
        BY <3>2, <2>2 DEF chosen, rest
      <4> QED BY <4>1, <2>2, <1>4 DEF Selecting, candidates
    <3> QED BY <3>1, <3>2
  <2>5. GoodFrame(g)
    <3>1. f.inner = None
      BY <1>1, <1>3 DEF GoodFrame, f
    <3> QED BY <2>2, <2>4, <3>1, <1>3 DEF GoodFrame, Apart
  <2>6. Stacks' /\ Saved'
    BY <2>2, <2>5, <1>1, <1>4, SetTopKeeps DEF Kept, f
  <2>7. Answers' /\ Remembered'
    BY <1>4 DEF Kept, Answers, LimitHonoured, Remembered
  <2> QED BY <2>6, <2>7, <1>1, Steady DEF Kept
<1>5. CASE Bail(t)
  BY <1>1, <1>5, BailKeeps, Steady DEF Kept
<1>6. CASE Raise(t)
  BY <1>1, <1>6, RaiseKeeps, Steady DEF Kept
<1> QED BY <1>2, <1>4, <1>5, <1>6

\* A candidate is kept, passed over, or refused.
LEMMA SelectKeeps ==
  ASSUME Kept, NEW t \in Threads, Select(t)
  PROVE  Kept'
<1> DEFINE f == Top(t)
<1>1. stack[t] # <<>> /\ f.at = "select" /\ settings' = settings /\ inForce' = inForce
  BY DEF Select, At
<1>2. PICK g \in f.rest :
        \/ Bail(t)
        \/ /\ SetTop(t, [IF Grows(f, g) THEN With(f, g) ELSE f
                         EXCEPT !.rest = @ \ {g}, !.seen = @ + Cardinality(Closure(With(f, g)))])
           /\ cache' = cache /\ answer' = answer
  BY DEF Select
<1>3. /\ GoodFrame(f) /\ IsFrame(f) /\ f.expr \in Known
  BY <1>1, TopIsGood DEF Kept
<1>4. CASE Bail(t)
  BY <1>1, <1>4, BailKeeps, Steady DEF Kept
<1>5. CASE ~ Bail(t)
  <2> HIDE DEF f
  <2> DEFINE new == IF Grows(f, g) THEN f.chosen \cup {g} ELSE f.chosen
             n == Cardinality(Closure(With(f, g)))
             base == IF Grows(f, g) THEN With(f, g) ELSE f
             h == [base EXCEPT !.rest = @ \ {g}, !.seen = @ + n]
             L == Labels(f.expr)
             all == CandidatesOf[f.expr]
  <2>1. SetTop(t, h) /\ cache' = cache /\ answer' = answer
    BY <1>2, <1>5
  <2> HIDE DEF n
  <2>2. With(f, g) = [expr |-> f.expr, limit |-> f.limit, at |-> f.at, chosen |-> f.chosen \cup {g},
         rest |-> f.rest, seen |-> f.seen, scope |-> f.scope, extra |-> f.extra,
         fallback |-> f.fallback, dense |-> f.dense, parts |-> f.parts,
         merging |-> f.merging, saved |-> f.saved, inner |-> f.inner]
    BY <1>3 DEF IsFrame, With
  <2>3. h = [expr |-> f.expr, limit |-> f.limit, at |-> f.at, chosen |-> new,
         rest |-> f.rest \ {g}, seen |-> f.seen + n, scope |-> f.scope, extra |-> f.extra,
         fallback |-> f.fallback, dense |-> f.dense, parts |-> f.parts,
         merging |-> f.merging, saved |-> f.saved, inner |-> f.inner]
    <3>1. base = [expr |-> f.expr, limit |-> f.limit, at |-> f.at, chosen |-> new,
         rest |-> f.rest, seen |-> f.seen, scope |-> f.scope, extra |-> f.extra,
         fallback |-> f.fallback, dense |-> f.dense, parts |-> f.parts,
         merging |-> f.merging, saved |-> f.saved, inner |-> f.inner]
      <4>1. CASE Grows(f, g)
        BY <4>1, <2>2
      <4>2. CASE ~ Grows(f, g)
        BY <4>2, <1>3 DEF IsFrame
      <4> QED BY <4>1, <4>2
    <3> HIDE DEF base, new
    <3>2. h = [x \in DOMAIN base |-> IF x = "rest" THEN base.rest \ {g}
                                     ELSE IF x = "seen" THEN base.seen + n ELSE base[x]]
      BY <3>1
    <3> QED BY <3>1, <3>2, SMTT(30)
  <2> HIDE DEF h, new, base
  <2>4. /\ h.expr = f.expr /\ h.limit = f.limit /\ h.at = f.at /\ h.chosen = new
        /\ h.rest = f.rest \ {g} /\ h.parts = f.parts /\ h.merging = f.merging
        /\ h.inner = f.inner /\ h.fallback = f.fallback /\ IsFrame(h)
    BY <2>3 DEF IsFrame
  <2>5. Selecting(f)
    BY <1>1, <1>3 DEF GoodFrame, f
  <2>6. all \in SUBSET [L -> L] /\ IsFiniteSet(L) /\ g \in all /\ f.chosen \subseteq all
    <3>1. g \in f.rest
      BY <1>2 DEF f
    <3> QED BY <2>5, <3>1, <1>3, CandidatesAreRenamings DEF Selecting
  <2>7. new \in SUBSET all /\ f.chosen \subseteq new
    <3> HIDE DEF all
    <3> QED BY <2>6 DEF new
  <2> HIDE DEF L, all
  <2>8. Dimino(L, f.chosen) \subseteq Dimino(L, new)
    BY <2>6, <2>7, DiminoGrows
  <2>9. g \in Dimino(L, new)
    <3>1. CASE Grows(f, g)
      <4>1. g \in new
        BY <3>1 DEF new
      <4>2. new \in SUBSET [L -> L]
        BY <2>6, <2>7
      <4> QED BY <4>1, <4>2, <2>6, DiminoIsLeast
    <3>2. CASE ~ Grows(f, g)
      <4>1. Closure(f) = Dimino(L, f.chosen) /\ Closure(With(f, g)) = Dimino(L, f.chosen \cup {g})
        BY <2>2 DEF Closure, L
      <4>2. ~ Cardinality(Dimino(L, f.chosen \cup {g})) > Cardinality(Dimino(L, f.chosen))
        BY <3>2, <4>1 DEF Grows
      <4>3. g \in Dimino(L, f.chosen)
        <5>1. f.chosen \in SUBSET [L -> L] /\ g \in [L -> L]
          BY <2>6
        <5> QED BY <5>1, <4>2, <2>6, RedundantIsGenerated
      <4> QED BY <4>3, <2>8
    <3> QED BY <3>1, <3>2
  <2>10. Selecting(h)
    <3>1. all \subseteq f.rest \cup Dimino(L, f.chosen) /\ f.rest \subseteq all /\ Exchangeable(f.expr)
      BY <2>5 DEF Selecting, all, L
    <3>2. all \subseteq (f.rest \ {g}) \cup Dimino(L, new)
      BY <3>1, <2>8, <2>9
    <3>3. f.rest \ {g} \subseteq all
      BY <3>1
    <3> QED BY <3>1, <3>2, <3>3, <2>4, <2>7 DEF Selecting, all, L
  <2>11. GoodFrame(h)
    BY <2>4, <2>10, <1>1, <1>3 DEF GoodFrame, Apart, f
  <2>12. Stacks' /\ Saved'
    BY <2>1, <2>4, <2>11, <1>1, SetTopKeeps DEF Kept, f
  <2>13. Answers' /\ Remembered'
    BY <2>1 DEF Kept, Answers, LimitHonoured, Remembered
  <2> QED BY <2>12, <2>13, <1>1, Steady DEF Kept
<1> QED BY <1>4, <1>5

\* The group is closed, and the expression priced or taken apart.
LEMMA CloseKeeps ==
  ASSUME Kept, NEW t \in Threads, Close(t)
  PROVE  Kept'
<1> DEFINE f == Top(t)
           price == ContractionPrice(f.expr, f.chosen, f.limit)
           big == Cardinality(Positions(f.expr)) >= 3
           first == /\ Cardinality(Positions(f.expr)) = 2
                    /\ \E k \in Positions(f.expr) : Isolated(f.expr, k) # {}
<1>1. /\ stack[t] # <<>> /\ f.at = "select" /\ f.rest = {}
      /\ settings' = settings /\ inForce' = inForce
  BY DEF Close, At
<1>2. \/ Bail(t)
      \/ big /\ SetTop(t, [f EXCEPT !.at = "walk"]) /\ cache' = cache /\ answer' = answer
      \/ first /\ SetTop(t, [f EXCEPT !.at = "reduce"]) /\ cache' = cache /\ answer' = answer
      \/ ~ big /\ ~ first /\ Store(t, Priced(price.total, price.fallback, price.fallback))
  <2>1. \/ Bail(t)
        \/ IF big THEN SetTop(t, [f EXCEPT !.at = "walk"]) /\ UNCHANGED <<cache, answer>>
           ELSE IF first THEN SetTop(t, [f EXCEPT !.at = "reduce"]) /\ UNCHANGED <<cache, answer>>
           ELSE Store(t, Priced(price.total, price.fallback, price.fallback))
    BY DEF Close
  <2> HIDE DEF f, price, big, first
  <2> QED BY <2>1
<1>3. /\ GoodFrame(f) /\ IsFrame(f) /\ f.expr \in Known /\ Shaped(f.expr)
  BY <1>1, TopIsGood DEF Kept
<1>4. Selecting(f) /\ f.inner = None
  BY <1>1, <1>3 DEF GoodFrame
<1>5. Cardinality(Positions(f.expr)) = Len(f.expr.ops)
  <2>1. Len(f.expr.ops) \in Nat /\ Positions(f.expr) = 1..Len(f.expr.ops)
    BY <1>3, Axes DEF Shaped, Positions
  <2>2. ASSUME NEW n \in Nat PROVE Cardinality(1..n) = n
    BY FS_Interval
  <2> QED BY <2>1, <2>2
<1>6. CASE Bail(t)
  BY <1>1, <1>6, BailKeeps, Steady DEF Kept
<1>7. ASSUME NEW place \in {"walk", "reduce"}, place = "walk" => Len(f.expr.ops) >= 3,
             place = "reduce" => Len(f.expr.ops) = 2,
             SetTop(t, [f EXCEPT !.at = place]), cache' = cache, answer' = answer
      PROVE  Kept'
  <2> DEFINE g == [f EXCEPT !.at = place]
  <2> HIDE DEF f
  <2>1. g = [expr |-> f.expr, limit |-> f.limit, at |-> place, chosen |-> f.chosen,
         rest |-> f.rest, seen |-> f.seen, scope |-> f.scope, extra |-> f.extra,
         fallback |-> f.fallback, dense |-> f.dense, parts |-> f.parts,
         merging |-> f.merging, saved |-> f.saved, inner |-> f.inner]
    BY <1>3 DEF IsFrame
  <2> HIDE DEF g
  <2>2. /\ g.expr = f.expr /\ g.limit = f.limit /\ g.at = place /\ g.parts = f.parts
        /\ g.merging = f.merging /\ g.inner = None /\ g.fallback = f.fallback /\ IsFrame(g)
    BY <2>1, <1>4 DEF IsFrame
  <2>3. GoodFrame(g)
    <3>1. Apart(g)
      BY <2>2, <1>3 DEF GoodFrame, Apart
    <3>2. g.at = "walk" \/ g.at = "reduce"
      BY <2>2
    <3> QED BY <2>2, <3>1, <3>2, <1>3, <1>7 DEF GoodFrame
  <2>4. g.at # "override"
    BY <2>2
  <2>5. SetTop(t, g)
    BY <1>7 DEF g, f
  <2>6. Stacks' /\ Saved'
    BY <2>2, <2>3, <2>4, <2>5, <1>1, SetTopKeeps DEF Kept, f
  <2>7. Answers' /\ Remembered'
    BY <1>7 DEF Kept, Answers, LimitHonoured, Remembered
  <2> QED BY <2>6, <2>7, <1>1, Steady DEF Kept
<1>8. CASE big /\ SetTop(t, [f EXCEPT !.at = "walk"]) /\ cache' = cache /\ answer' = answer
  BY <1>5, <1>7, <1>8
<1>9. CASE first /\ SetTop(t, [f EXCEPT !.at = "reduce"]) /\ cache' = cache /\ answer' = answer
  BY <1>5, <1>7, <1>9
<1>10. CASE ~ big /\ ~ first /\ Store(t, Priced(price.total, price.fallback, price.fallback))
  <2> DEFINE p == Priced(price.total, price.fallback, price.fallback)
  <2>1. p.fallback = price.fallback
    <3> HIDE DEF price
    <3> QED BY DEF Priced
  <2>2. Store(t, p)
    BY <1>10
  <2> HIDE DEF p
  <2>3. Honoured(f.expr, f.limit, p)
    BY <2>1, <1>1, <1>3, <1>4, <1>10, ClosedIsHonoured
  <2>4. Stacks' /\ Saved' /\ Answers' /\ Remembered'
    BY <2>2, <2>3, <1>1, StoreKeeps DEF Kept
  <2> QED BY <2>4, <1>1, Steady DEF Kept
<1> QED BY <1>2, <1>6, <1>8, <1>9, <1>10

\* The residual contraction is priced first.
LEMMA ReduceKeeps ==
  ASSUME Kept, NEW t \in Threads, Reduce(t)
  PROVE  Kept'
<1> DEFINE f == Top(t)
           r == Residual(f.expr)
           g == Frame(r, f.limit)
<1>1. /\ stack[t] # <<>> /\ f.at = "reduce" /\ f.inner = None
      /\ settings' = settings /\ inForce' = inForce /\ cache' = cache /\ answer' = answer
  BY DEF Reduce, At
<1>2. PICK total, dense : Push(t, [f EXCEPT !.extra = total, !.dense = dense], g)
  <2>1. \E x : Push(t, [f EXCEPT !.extra = x.total, !.dense = x.dense], g)
    <3> HIDE DEF g
    <3> QED BY DEF Reduce, g
  <2> QED BY <2>1
<1>3. /\ GoodFrame(f) /\ IsFrame(f) /\ f.expr \in Known /\ f.limit \in PartitionBudgets
  BY <1>1, TopIsGood DEF Kept
<1>4. r \in Known
  BY <1>1, <1>3, KnownFacts DEF GoodFrame
<1> DEFINE h == [f EXCEPT !.extra = total, !.dense = dense]
<1> HIDE DEF f, r
<1>5. h = [x \in DOMAIN f |-> IF x = "extra" THEN total ELSE IF x = "dense" THEN dense ELSE f[x]]
  BY <1>3 DEF IsFrame
<1>6. /\ h.expr = f.expr /\ h.limit = f.limit /\ h.at = f.at /\ h.parts = f.parts
      /\ h.merging = f.merging /\ h.inner = f.inner /\ h.fallback = f.fallback /\ IsFrame(h)
  <2> HIDE DEF h
  <2> QED BY <1>3, <1>5 DEF IsFrame
<1> HIDE DEF h
<1>7. GoodFrame(h)
  BY <1>1, <1>3, <1>6 DEF GoodFrame, Apart
<1>8. GoodFrame(g) /\ g.at = "lookup" /\ g.expr = r /\ g.limit = f.limit
  BY <1>3, <1>4, NewFrame
<1>9. Linked(h, g)
  BY <1>1, <1>6, <1>8 DEF Linked, r
<1>10. Stacks' /\ Saved'
  <2>1. Push(t, h, g) /\ g.at # "override"
    BY <1>2, <1>8 DEF h, f
  <2> HIDE DEF g
  <2> QED BY <2>1, <1>1, <1>6, <1>7, <1>8, <1>9, PushKeeps DEF Kept, f
<1>11. Answers' /\ Remembered'
  BY <1>1 DEF Kept, Answers, LimitHonoured, Remembered
<1> QED BY <1>10, <1>11, <1>1, Steady DEF Kept

\* The residual's price and the reductions' are one.
LEMMA CombineKeeps ==
  ASSUME Kept, NEW t \in Threads, Combine(t)
  PROVE  Kept'
<1> DEFINE f == Top(t)
           e == f.expr
           p == Priced(f.inner.total + f.extra, f.inner.fallback, f.inner.dense \/ f.dense)
<1>1. /\ stack[t] # <<>> /\ f.at = "reduce" /\ f.inner # None /\ Store(t, p)
      /\ settings' = settings /\ inForce' = inForce
  BY DEF Combine, At
<1>2. /\ GoodFrame(f) /\ e \in Known
  BY <1>1, TopIsGood DEF Kept
<1>3. Len(e.ops) = 2 /\ Honoured(Residual(e), f.limit, f.inner)
  BY <1>1, <1>2 DEF GoodFrame
<1>4. p.fallback = f.inner.fallback
  <2> HIDE DEF f
  <2> QED BY DEF Priced
<1>5. /\ Residual(e) \in Known /\ Len(Residual(e).ops) = 2
      /\ Residual(Residual(e)) = Residual(e)
  BY <1>2, <1>3, KnownFacts
<1>6. Counted(Residual(e)) = Counted(e) /\ Residual(e) \in Single
  <2> HIDE DEF e, Known
  <2>1. Counted(e) = Residual(e)
    BY <1>3 DEF Counted
  <2>2. Counted(Residual(e)) = Residual(e)
    BY <1>5 DEF Counted
  <2>3. Residual(e) \in Single
    <3>1. ASSUME NEW r \in Known, Len(r.ops) = 2 PROVE r \in Single
      <4>1. Len(r.ops) <= 2
        BY <3>1
      <4> QED BY <4>1 DEF Single
    <3> QED BY <3>1, <1>5
  <2> QED BY <2>1, <2>2, <2>3
<1>7. Honoured(e, f.limit, p)
  <2> SUFFICES ASSUME ~ p.fallback, <<e, f.limit>> \in BeyondLimit PROVE FALSE
    BY DEF Honoured
  <2>1. <<Residual(e), f.limit>> \notin StepsBeyond
    BY <1>3, <1>4 DEF Honoured, BeyondLimit
  <2> DEFINE limit == f.limit
  <2> HIDE DEF p, e, limit
  <2>4. <<e, limit>> \in StepsBeyond
    <3>1. Len(e.ops) \in Nat /\ Len(e.ops) <= 2
      BY <1>3
    <3>2. <<e, limit>> \in BeyondLimit
      BY DEF limit
    <3> QED BY <3>1, <3>2, SmallBeyond
  <2>2. /\ Exchangeable(Counted(e)) /\ f.limit \in PartitionBudgets
        /\ \A gens \in Generating(Counted(e)) : ContractionPrice(Counted(e), gens, f.limit).fallback
    <3> HIDE DEF Single, f
    <3> QED BY <2>4 DEF StepsBeyond, limit
  <2>3. <<Residual(e), f.limit>> \in StepsBeyond
    <3> DEFINE q == <<Residual(e), f.limit>>
    <3>1. q \in {x \in Single : Exchangeable(Counted(x))} \X PartitionBudgets
      <4> HIDE DEF Single, f
      <4> QED BY <2>2, <1>6
    <3>2. q[1] = Residual(e) /\ q[2] = f.limit
      OBVIOUS
    <3> HIDE DEF q, Single, f
    <3>3. q \in StepsBeyond
      BY <3>1, <3>2, <2>2, <1>6 DEF StepsBeyond
    <3> QED BY <3>3 DEF q
  <2> QED BY <2>1, <2>3
<1>8. Stacks' /\ Saved' /\ Answers' /\ Remembered'
  <2> HIDE DEF p
  <2> QED BY <1>1, <1>7, StoreKeeps DEF Kept
<1> QED BY <1>8, <1>1, Steady DEF Kept

\* What a thread has changed nothing but its frames for.
LEMMA NothingElse ==
  ASSUME Answers, Remembered, cache' = cache, answer' = answer
  PROVE  Answers' /\ Remembered'
BY DEF Answers, LimitHonoured, Remembered

\* The next step of a path is priced first.
LEMMA ContractKeeps ==
  ASSUME Kept, NEW t \in Threads, Contract(t)
  PROVE  Kept'
<1> DEFINE f == Top(t)
           e == f.expr
<1>1. /\ stack[t] # <<>> /\ f.at = "walk" /\ f.inner = None
      /\ settings' = settings /\ inForce' = inForce
  BY DEF Contract, At
<1>2. PICK S \in f.parts, T \in f.parts :
        /\ Min(S) < Min(T)
        /\ \/ Raise(t)
           \/ /\ cache' = cache /\ answer' = answer
              /\ \E x : Push(t, [f EXCEPT !.extra = @ + x.total, !.dense = @ \/ x.dense,
                                          !.merging = <<S, T>>],
                             Frame(Step(e, S, T), f.limit))
  <2>1. PICK S \in f.parts, T \in f.parts :
          /\ Min(S) < Min(T)
          /\ IF \E P \in {S, T} : /\ Cardinality(P) = 1 /\ SummedIn(e, P) = {} /\ OracleRaises(e, P)
             THEN Raise(t)
             ELSE /\ UNCHANGED <<cache, answer>>
                  /\ \E x \in Reductions(e, [k \in Positions(e) |->
                        IF {k} \in {S, T} THEN SummedIn(e, {k}) ELSE {}]) :
                        Push(t, [f EXCEPT !.extra = @ + x.total, !.dense = @ \/ x.dense,
                                          !.merging = <<S, T>>],
                             Frame(Step(e, S, T), f.limit))
    BY DEF Contract
  <2> HIDE DEF f, e
  <2> QED BY <2>1
<1>3. /\ GoodFrame(f) /\ IsFrame(f) /\ e \in Known /\ f.limit \in PartitionBudgets /\ Shaped(e)
  BY <1>1, TopIsGood DEF Kept
<1>4. CASE Raise(t)
  BY <1>1, <1>4, RaiseKeeps, Steady DEF Kept
<1>5. CASE ~ Raise(t)
  <2> HIDE DEF f
  <2>1. PICK x : Push(t, [f EXCEPT !.extra = @ + x.total, !.dense = @ \/ x.dense,
                                   !.merging = <<S, T>>], Frame(Step(e, S, T), f.limit))
    BY <1>2, <1>5
  <2>2. cache' = cache /\ answer' = answer
    BY <1>2, <1>5
  <2>3. S # T
    <3>1. S \in SUBSET Positions(e) /\ S # {}
      BY <1>2, <1>3 DEF GoodFrame, Apart
    <3>2. IsFiniteSet(S)
      BY <3>1, <1>3, LabelsFinite
    <3>3. Positions(e) \subseteq Int
      <4>1. Positions(e) = 1..Len(e.ops)
        BY <1>3, Axes DEF Shaped, Positions
      <4> QED BY <4>1
    <3>4. S \in SUBSET Int
      BY <3>1, <3>3
    <3>5. Min(S) \in Int
      <4>1. ASSUME NEW U, U = S PROVE Min(U) \in U
        <5>1. U \in SUBSET Int /\ IsFiniteSet(U) /\ U # {}
          BY <4>1, <3>1, <3>2, <3>4
        <5> QED BY <5>1, LeastOfSet
      <4>2. Min(S) \in S
        BY <4>1
      <4> QED BY <4>2, <3>4
    <3>6. ~ (Min(S) < Min(S))
      BY <3>5
    <3> QED BY <3>6, <1>2
  <2>4. /\ S \in SUBSET Positions(e) /\ T \in SUBSET Positions(e) /\ S # {} /\ T # {}
        /\ S \cap T = {}
    BY <1>2, <1>3, <2>3 DEF GoodFrame, Apart
  <2>5. Len(e.ops) >= 3
    BY <1>1, <1>3 DEF GoodFrame, f
  <2>6. Step(e, S, T) \in Known
    BY <1>3, <2>4, <2>5, KnownFacts
  <2> DEFINE h == [f EXCEPT !.extra = @ + x.total, !.dense = @ \/ x.dense, !.merging = <<S, T>>]
             g == Frame(Step(e, S, T), f.limit)
  <2>7. /\ GoodFrame(g) /\ g.at = "lookup" /\ g.limit = f.limit
        /\ g.expr = Step(e, S, T)
    <3> HIDE DEF e
    <3> QED BY <2>6, <1>3, NewFrame
  <2>8. h = [y \in DOMAIN f |-> IF y = "extra" THEN f.extra + x.total
                               ELSE IF y = "dense" THEN f.dense \/ x.dense
                               ELSE IF y = "merging" THEN <<S, T>> ELSE f[y]]
    BY <1>3 DEF IsFrame
  <2>9. /\ h.expr = f.expr /\ h.limit = f.limit /\ h.at = f.at /\ h.parts = f.parts
        /\ h.merging = <<S, T>> /\ h.inner = f.inner /\ h.fallback = f.fallback /\ IsFrame(h)
    <3> HIDE DEF h
    <3> QED BY <1>3, <2>8 DEF IsFrame
  <2> HIDE DEF h
  <2>10. Merging(h)
    BY <1>2, <2>3, <2>9 DEF Merging, f
  <2>11. GoodFrame(h)
    <3>1. f.at = "walk" /\ f.inner = None
      BY <1>1 DEF f
    <3> HIDE DEF e
    <3> QED BY <3>1, <1>3, <2>9, <2>10 DEF GoodFrame, Apart
  <2>12. Linked(h, g)
    <3>1. f.at = "walk" /\ f.inner = None
      BY <1>1 DEF f
    <3>2. g.expr = Step(h.expr, h.merging[1], h.merging[2])
      <4>1. h.merging[1] = S /\ h.merging[2] = T /\ h.expr = e
        BY <2>9
      <4> HIDE DEF g, e
      <4> QED BY <4>1, <2>7
    <3> HIDE DEF g
    <3> QED BY <3>1, <3>2, <2>7, <2>9, <2>10 DEF Linked
  <2>13. Stacks' /\ Saved'
    <3>1. Push(t, h, g) /\ g.at # "override"
      BY <2>1, <2>7 DEF h
    <3> HIDE DEF g
    <3> QED BY <3>1, <1>1, <2>7, <2>9, <2>11, <2>12, PushKeeps DEF Kept, f
  <2>14. Answers' /\ Remembered'
    BY <2>2, NothingElse DEF Kept
  <2> QED BY <2>13, <2>14, <1>1, Steady DEF Kept
<1> QED BY <1>4, <1>5

\* The step is priced: its result takes the place of its operands.
LEMMA SettleKeeps ==
  ASSUME Stacks, Saved, NEW t \in Threads, stack[t] # <<>>,
         Top(t).at = "override" \/ (Top(t).at = "walk" /\ Top(t).inner # None),
         NEW joint, NEW budget, Settle(t, Top(t), joint, budget), inForce' = inForce
  PROVE  Stacks' /\ Saved'
<1> DEFINE f == Top(t)
           e == f.expr
           S == f.merging[1]
           T == f.merging[2]
           parts == (f.parts \ {S, T}) \cup {S \cup T}
<1>1. /\ GoodFrame(f) /\ IsFrame(f) /\ f.at \in {"walk", "override"}
      /\ Merging(f) /\ Honoured(Step(e, S, T), f.limit, f.inner)
  <2>1. GoodFrame(f) /\ IsFrame(f)
    BY TopIsGood
  <2> HIDE DEF f
  <2> QED BY <2>1 DEF GoodFrame, f
<1>2. S \in f.parts /\ T \in f.parts /\ S # T
  <2>1. PICK P \in f.parts, Q \in f.parts : P # Q /\ f.merging = <<P, Q>>
    BY <1>1 DEF Merging
  <2> HIDE DEF f
  <2> QED BY <2>1
<1> DEFINE fallback == FallbackSoFar(f)
<1>3. PICK extra, dense :
        SetTop(t, [f EXCEPT !.at = "walk", !.inner = None, !.merging = <<>>, !.saved = 0,
                            !.extra = extra, !.fallback = fallback, !.dense = dense,
                            !.parts = parts])
  BY DEF Settle
<1> HIDE DEF fallback
<1> DEFINE g == [f EXCEPT !.at = "walk", !.inner = None, !.merging = <<>>, !.saved = 0,
                            !.extra = extra, !.fallback = fallback, !.dense = dense,
                            !.parts = parts]
<1> HIDE DEF S, T, f
<1>4. /\ parts \subseteq SUBSET Positions(e) /\ {} \notin parts
      /\ \A P, Q \in parts : P # Q => P \cap Q = {}
      /\ UNION parts = Positions(e)
      /\ S \cap T = {} /\ S # {}
  <2>1. /\ f.parts \subseteq SUBSET Positions(e) /\ {} \notin f.parts
        /\ \A P, Q \in f.parts : P # Q => P \cap Q = {}
        /\ UNION f.parts = Positions(e)
    BY <1>1 DEF GoodFrame, Apart
  <2> HIDE DEF e
  <2>2. parts \subseteq SUBSET Positions(e) /\ {} \notin parts
    BY <2>1, <1>2
  <2>3. ASSUME NEW P \in f.parts \ {S, T} PROVE P \cap (S \cup T) = {}
    <3>1. P \in f.parts /\ P # S /\ P # T
      OBVIOUS
    <3>2. P \cap S = {} /\ P \cap T = {}
      BY <3>1, <2>1, <1>2
    <3> QED BY <3>2
  <2>4. ASSUME NEW P \in parts, NEW Q \in parts, P # Q PROVE P \cap Q = {}
    <3>1. CASE P = S \cup T
      <4>1. Q \in f.parts \ {S, T}
        BY <3>1, <2>4
      <4> QED BY <4>1, <3>1, <2>3
    <3>2. CASE Q = S \cup T
      <4>1. P \in f.parts \ {S, T}
        BY <3>2, <2>4
      <4> QED BY <4>1, <3>2, <2>3
    <3>3. CASE P # S \cup T /\ Q # S \cup T
      BY <3>3, <2>1, <2>4
    <3> QED BY <3>1, <3>2, <3>3
  <2>5. UNION parts = Positions(e)
    <3>1. UNION parts = UNION f.parts
      BY <1>2
    <3> QED BY <3>1, <2>1
  <2> QED BY <1>2, <2>1, <2>2, <2>4, <2>5
<1>9. Walked(e, f.limit, parts, fallback)
  <2> SUFFICES ASSUME ~ fallback PROVE OnPath(e, f.limit, parts)
    BY DEF Walked
  <2>1. ~ f.fallback /\ ~ f.inner.fallback
    BY DEF fallback, FallbackSoFar
  <2> DEFINE limit == f.limit
             price == f.inner
             from == f.parts
             step == Step(e, S, T)
  <2>2. OnPath(e, limit, from)
    BY <1>1, <2>1 DEF GoodFrame, Walked
  <2>3. parts = (from \ {S, T}) \cup {S \cup T} /\ S \in from /\ T \in from
    BY <1>2
  <2>4. Honoured(step, limit, price) /\ ~ price.fallback
    BY <1>1, <2>1
  <2> HIDE DEF e, limit, price, from, step, parts
  <2>5. <<step, limit>> \notin StepsBeyond
    BY <2>4 DEF Honoured, BeyondLimit
  <2>6. <<Step(e, S, T), limit>> \notin StepsBeyond
    BY <2>5 DEF step
  <2>7. OnPath(e, limit, parts)
    BY <1>4, <2>2, <2>3, <2>6, PathGoesOn
  <2> QED BY <2>7 DEF limit
<1> HIDE DEF parts
<1>5. g = [y \in DOMAIN f |-> IF y = "at" THEN "walk" ELSE IF y = "inner" THEN None
                             ELSE IF y = "merging" THEN <<>> ELSE IF y = "saved" THEN 0
                             ELSE IF y = "extra" THEN extra ELSE IF y = "fallback" THEN fallback
                             ELSE IF y = "dense" THEN dense ELSE IF y = "parts" THEN parts
                             ELSE f[y]]
  BY <1>1 DEF IsFrame
<1>6. /\ g.expr = f.expr /\ g.limit = f.limit /\ g.at = "walk" /\ g.parts = parts
      /\ g.inner = None /\ g.fallback = fallback /\ IsFrame(g)
  <2> HIDE DEF g
  <2> QED BY <1>1, <1>5 DEF IsFrame
<1> HIDE DEF g
<1>7. GoodFrame(g)
  <2>1. Apart(g)
    BY <1>4, <1>6 DEF Apart
  <2>2. Walked(g.expr, g.limit, g.parts, g.fallback)
    BY <1>6, <1>9
  <2> QED BY <2>1, <2>2, <1>1, <1>6 DEF GoodFrame
<1>8. SetTop(t, g) /\ g.at # "override"
  BY <1>3, <1>6 DEF g, f
<1> QED BY <1>6, <1>7, <1>8, SetTopKeeps DEF f

\* The step is settled at once, or saves the budget to override it.
LEMMA SettleStepKeeps ==
  ASSUME Kept, NEW t \in Threads, SettleStep(t)
  PROVE  Kept'
<1> DEFINE f == Top(t)
           g == [f EXCEPT !.at = "override", !.saved = settings.dimino]
<1>1. /\ stack[t] # <<>> /\ f.at = "walk" /\ f.inner # None
      /\ settings' = settings /\ inForce' = inForce
  BY DEF SettleStep, At
<1>2. \/ Raise(t)
      \/ (SetTop(t, g) \/ Settle(t, f, {}, settings.dimino)) /\ cache' = cache /\ answer' = answer
  BY DEF SettleStep
<1>3. GoodFrame(f) /\ IsFrame(f)
  BY <1>1, TopIsGood DEF Kept
<1>4. Merging(f) /\ Honoured(Step(f.expr, f.merging[1], f.merging[2]), f.limit, f.inner)
  BY <1>1, <1>3 DEF GoodFrame
<1>5. CASE Raise(t)
  BY <1>1, <1>5, RaiseKeeps, Steady DEF Kept
<1>6. CASE SetTop(t, g) /\ cache' = cache /\ answer' = answer
  <2> HIDE DEF f
  <2>1. g = [y \in DOMAIN f |-> IF y = "at" THEN "override"
                               ELSE IF y = "saved" THEN settings.dimino ELSE f[y]]
    BY <1>3 DEF IsFrame
  <2>2. /\ g.expr = f.expr /\ g.limit = f.limit /\ g.at = "override" /\ g.parts = f.parts
        /\ g.merging = f.merging /\ g.inner = f.inner /\ g.fallback = f.fallback
        /\ g.saved = settings.dimino /\ IsFrame(g)
    <3> HIDE DEF g
    <3> QED BY <1>3, <2>1 DEF IsFrame
  <2> HIDE DEF g
  <2>3. GoodFrame(g)
    <3>1. Merging(g)
      BY <1>4, <2>2 DEF Merging
    <3>2. f.at = "walk"
      BY <1>1 DEF f
    <3>3. Honoured(Step(g.expr, g.merging[1], g.merging[2]), g.limit, g.inner)
      BY <1>4, <2>2
    <3> QED BY <3>1, <3>2, <3>3, <2>2, <1>3 DEF GoodFrame, Apart
  <2>4. g.saved \in inForce
    BY <2>2 DEF Kept, ConfigureSticks
  <2>5. Stacks' /\ Saved'
    BY <1>1, <1>6, <2>2, <2>3, <2>4, SetTopKeeps DEF Kept, f
  <2>6. Answers' /\ Remembered'
    BY <1>6, NothingElse DEF Kept
  <2> QED BY <2>5, <2>6, <1>1, Steady DEF Kept
<1>7. CASE Settle(t, f, {}, settings.dimino) /\ cache' = cache /\ answer' = answer
  <2>1. Stacks' /\ Saved'
    BY <1>1, <1>7, SettleKeeps DEF Kept
  <2>2. Answers' /\ Remembered'
    BY <1>7, NothingElse DEF Kept
  <2> QED BY <2>1, <2>2, <1>1, Steady DEF Kept
<1> QED BY <1>2, <1>5, <1>6, <1>7

\* The saved budget is set again.
LEMMA RestoreKeeps ==
  ASSUME Kept, NEW t \in Threads, Restore(t)
  PROVE  Kept'
<1> DEFINE f == Top(t)
<1>1. /\ stack[t] # <<>> /\ f.at = "override" /\ At(t, "override")
      /\ settings' = [settings EXCEPT !.dimino = f.saved]
      /\ cache' = cache /\ answer' = answer /\ inForce' = inForce
  BY DEF Restore, At, PutBack
<1>2. PICK joint : Settle(t, f, joint, f.saved)
  BY DEF Restore
<1>4. f.saved \in inForce
  BY <1>1 DEF Kept, Saved
<1>5. Stacks' /\ Saved'
  BY <1>1, <1>2, SettleKeeps DEF Kept
<1>6. Answers' /\ Remembered'
  BY <1>1, NothingElse DEF Kept
<1>7. settings' = [dimino |-> f.saved, partition |-> settings.partition]
  BY <1>1 DEF Kept, SettingsOK
<1>8. SettingsOK' /\ ConfigureSticks'
  <2> HIDE DEF f
  <2> QED BY <1>1, <1>4, <1>7 DEF Kept, SettingsOK, ConfigureSticks
<1> QED BY <1>5, <1>6, <1>8 DEF Kept

\* The path is priced.
LEMMA FinishKeeps ==
  ASSUME Kept, NEW t \in Threads, Finish(t)
  PROVE  Kept'
<1> DEFINE f == Top(t)
           p == Priced(f.extra, f.fallback, f.dense)
<1>1. /\ stack[t] # <<>> /\ f.at = "walk" /\ Store(t, p) /\ Cardinality(f.parts) = 1
      /\ settings' = settings /\ inForce' = inForce
  BY DEF Finish, At
<1>2. GoodFrame(f)
  BY <1>1, TopIsGood DEF Kept
<1>3. Len(f.expr.ops) >= 3
  BY <1>1, <1>2 DEF GoodFrame
<1>4. Honoured(f.expr, f.limit, p)
  <2>1. Shaped(f.expr)
    BY <1>1, TopIsGood DEF Kept
  <2>2. Len(f.expr.ops) \in Nat
    BY <2>1, Axes DEF Shaped
  <2>3. ~ (Len(f.expr.ops) <= 2)
    BY <1>3, <2>2
  <2>4. f.expr \notin Single
    <3> HIDE DEF f, Known
    <3> QED BY <2>3 DEF Single
  <2>5. <<f.expr, f.limit>> \notin StepsBeyond
    <3> HIDE DEF f, Single
    <3> QED BY <2>4 DEF StepsBeyond
  <2>6. f.parts = {Positions(f.expr)}
    <3>1. f.parts \subseteq SUBSET Positions(f.expr) /\ UNION f.parts = Positions(f.expr)
      BY <1>2 DEF GoodFrame, Apart
    <3>2. IsFiniteSet(f.parts)
      <4>1. IsFiniteSet(Positions(f.expr))
        BY <2>1, LabelsFinite
      <4>2. IsFiniteSet(SUBSET Positions(f.expr))
        BY <4>1, FS_SUBSET
      <4> QED BY <3>1, <4>2, FS_Subset
    <3>3. PICK P : f.parts = {P}
      BY <1>1, <3>2, FS_Singleton
    <3> HIDE DEF f
    <3> QED BY <3>1, <3>3
  <2>7. p.fallback = f.fallback
    <3> HIDE DEF f
    <3> QED BY DEF Priced
  <2>8. Walked(f.expr, f.limit, f.parts, f.fallback)
    BY <1>2 DEF GoodFrame
  <2> DEFINE e == f.expr
             limit == f.limit
  <2> HIDE DEF e, limit, p
  <2>9. ~ p.fallback => <<e, limit>> \notin PathsBeyond
    <3> SUFFICES ASSUME ~ p.fallback PROVE <<e, limit>> \notin PathsBeyond
      OBVIOUS
    <3>1. PICK tree \in SUBSET (SUBSET Positions(e)) : {Positions(e)} \subseteq tree /\ Path(e, limit, tree)
      BY <2>6, <2>7, <2>8 DEF Walked, OnPath, e, limit
    <3>2. \E r \in SUBSET (SUBSET Positions(e)) : Positions(e) \in r /\ Path(e, limit, r)
      BY <3>1
    <3> HIDE DEF Known
    <3> QED BY <3>2 DEF PathsBeyond
  <2> QED BY <2>5, <2>9 DEF Honoured, BeyondLimit, e, limit
<1>5. Stacks' /\ Saved' /\ Answers' /\ Remembered'
  <2> HIDE DEF p
  <2> QED BY <1>1, <1>4, StoreKeeps DEF Kept
<1> QED BY <1>5, <1>1, Steady DEF Kept

-----------------------------------------------------------------------------
(***************************************************************************)
(* What holds of every behaviour.                                          *)
(***************************************************************************)
LEMMA InvInit ==
  ASSUME Init
  PROVE  Inv
<1>1. SettingsOK
  BY DEF Init, SettingsOK
<1>2. Stacks
  <2>1. stack = [t \in Threads |-> <<>>]
    BY DEF Init
  <2> QED BY <2>1, NoFrame DEF Stacks
<1>3. Saved
  BY DEF Init, Saved, At
<1>4. Answers
  <2>1. answer = [t \in Threads |-> None]
    BY DEF Init
  <2>2. None.kind # "price"
    BY DEF None
  <2> HIDE DEF None
  <2> QED BY <2>1, <2>2 DEF Answers, LimitHonoured
<1>5. Remembered
  <2>1. cache = << >>
    BY DEF Init
  <2> QED BY <2>1 DEF Remembered
<1>6. program \in Programs /\ ConfigureSticks
  BY DEF Init, ConfigureSticks
<1> QED BY <1>1, <1>2, <1>3, <1>4, <1>5, <1>6 DEF Inv

\* Every step keeps the invariant.
LEMMA InvNext ==
  ASSUME Inv, [Next]_vars
  PROVE  Inv'
<1>1. CASE UNCHANGED vars
  BY <1>1 DEF Inv, vars, SettingsOK, Stacks, Saved, At, Top, Answers, LimitHonoured,
              Remembered, ConfigureSticks
<1>2. ASSUME program' = program, NEW t \in Threads, Configure(t) \/ Call(t) \/ Work(t)
      PROVE  Inv'
  <2>1. Kept /\ program \in Programs
    BY DEF Inv, Kept
  <2>2. Kept'
    BY <2>1, <1>2, ConfigureKeeps, CallKeeps, HitKeeps, EnumerateKeeps, SelectKeeps, CloseKeeps,
       ReduceKeeps, CombineKeeps, ContractKeeps, SettleStepKeeps, RestoreKeeps, FinishKeeps
       DEF Work
  <2> QED BY <2>1, <2>2, <1>2 DEF Inv, Kept
<1> QED BY <1>1, <1>2 DEF Next, Idle

\* Calls are frames that wait for each other as the code does, what is remembered
\* and answered respects the limit it was computed with, and a saved budget was set.
THEOREM CallsAreNested == Spec => []Inv
<1>1. Init => Inv
  BY InvInit
<1>2. Inv /\ [Next]_vars => Inv'
  BY InvNext
<1> QED BY <1>1, <1>2, PTL DEF Spec

\* A budget that was configured stays in force, unless the one before was saved.
THEOREM ConfigurationSticks == Spec => []ConfigureSticks
<1>1. Inv => ConfigureSticks
  BY DEF Inv
<1> QED BY <1>1, CallsAreNested, PTL

\* No count is answered that needed more partitions than the call was allowed, for the
\* contraction or for a step of its path.
THEOREM LimitsAreHonoured == Spec => []LimitHonoured
<1>1. Inv => LimitHonoured
  BY DEF Inv, Answers
<1> QED BY <1>1, CallsAreNested, PTL

\* The generators that are kept generate what was detected, in whatever order they
\* were tried.
THEOREM KeptGeneratorsSuffice == Spec => []GeneratorsSuffice
<1>1. Inv => GeneratorsSuffice
  <2> SUFFICES ASSUME Inv, NEW t \in Threads, Closing(t)
               PROVE  Dimino(Labels(Top(t).expr), Top(t).chosen) = Renamings(Top(t).expr)
    BY DEF GeneratorsSuffice
  <2>1. stack[t] # <<>> /\ Top(t).at = "select" /\ Top(t).rest = {}
    BY DEF Closing, At
  <2>2. GoodFrame(Top(t)) /\ Top(t).expr \in Known
    BY <2>1, TopIsGood DEF Inv
  <2> QED BY <2>1, <2>2, SelectedGenerate DEF GoodFrame
<1> QED BY <1>1, CallsAreNested, PTL

-----------------------------------------------------------------------------
(***************************************************************************)
(* What is detected is true of every product.                              *)
(***************************************************************************)
\* What is known of a contraction none of whose operands was summed before: the
\* symmetry in use is generated by the declared one and exchanges axes of one size,
\* and copies of one object have its extents and its symmetry.
Truthful(e) ==
    /\ \A k \in Positions(e) :
         /\ e.ops[k].whole.labels = e.ops[k].labels
         /\ e.ops[k].whole.sym \subseteq Bijection(DOMAIN e.ops[k].labels, DOMAIN e.ops[k].labels)
         /\ AxisGroup(e.ops[k]) \subseteq Dimino(DOMAIN e.ops[k].labels, e.ops[k].whole.sym)
         /\ \A g \in AxisGroup(e.ops[k]) : \A a \in DOMAIN e.ops[k].labels :
              e.size[e.ops[k].labels[g[a]]] = e.size[e.ops[k].labels[a]]
    /\ \A C \in e.same : \A j, k \in C :
         /\ e.ops[j].tensor = e.ops[k].tensor
         /\ e.ops[j].whole.sym = e.ops[k].whole.sym
         /\ \A a \in DOMAIN e.ops[j].labels :
              e.size[e.ops[j].labels[a]] = e.size[e.ops[k].labels[a]]

\* Sets that a bijection carries to each other are as large.
LEMMA AsMany ==
  ASSUME NEW P, NEW Q, IsFiniteSet(P), NEW t \in Bijection(P, Q),
         NEW U \in SUBSET P, NEW V \in SUBSET Q, \A k \in P : k \in U <=> t[k] \in V
  PROVE  Cardinality(U) = Cardinality(V)
<1> DEFINE s == [k \in U |-> t[k]]
<1>1. IsFiniteSet(U)
  BY FS_Subset
<1>2. /\ t \in [P -> Q] /\ \A j, k \in P : t[j] = t[k] => j = k
      /\ \A q \in Q : \E k \in P : t[k] = q
  BY DEF Bijection, Injection, Surjection, IsInjective
<1>3. s \in [U -> V] /\ \A j, k \in U : s[j] = s[k] => j = k
  BY <1>2
<1>4. ASSUME NEW q \in V PROVE \E k \in U : s[k] = q
  BY <1>2
<1> HIDE DEF s
<1>5. s \in Bijection(U, V)
  BY <1>3, <1>4 DEF Bijection, Injection, Surjection, IsInjective
<1>6. ExistsBijection(U, V)
  BY <1>5 DEF ExistsBijection
<1> QED BY <1>1, <1>6, FS_Bijection

\* A renaming moves operands within their classes, and their axes within the group.
LEMMA RenamingMoves ==
  ASSUME NEW e, Shaped(e), Exchangeable(e), NEW pi \in Renamings(e)
  PROVE  \E t \in Tops(e) : \E h : IsBase(e, h) /\
            \A k \in Positions(e) : \A a \in DOMAIN e.ops[k].labels :
              pi[e.ops[k].labels[a]] = e.ops[t[k]].labels[h[k][a]]
<1>1. PICK s \in Wreath(e) : IsRenaming(Induced(e, s)) /\ pi = AsRenaming(Induced(e, s))
  <2>1. Renamings(e) =
          {AsRenaming(Induced(e, s)) : s \in {u \in Wreath(e) : IsRenaming(Induced(e, u))}}
    BY DEF Renamings
  <2> QED BY <2>1
<1>2. s \in [Rows(e) -> Rows(e)]
  BY WreathIsGroup
<1>3. PICK t \in Tops(e) : \E h : IsBase(e, h) /\ s = MoveRows(e, t, h)
  BY WreathElements
<1>4. PICK h : IsBase(e, h) /\ s = MoveRows(e, t, h)
  BY <1>3
<1>5. /\ \A r \in Rows(e) : LabelAt(e, r) \in Labels(e)
      /\ \A l \in Labels(e) : \E r \in Rows(e) : LabelAt(e, r) = l
  BY RowFacts
<1>6. \A r \in Rows(e) : pi[LabelAt(e, r)] = LabelAt(e, s[r])
  BY <1>1, <1>2, <1>5, InducedFacts
<1>7. ASSUME NEW k \in Positions(e), NEW a \in DOMAIN e.ops[k].labels
      PROVE  pi[e.ops[k].labels[a]] = e.ops[t[k]].labels[h[k][a]]
  <2>1. <<k, a>> \in Rows(e)
    BY RowFacts
  <2>2. s[<<k, a>>] = <<t[k], h[k][a]>>
    BY <2>1, <1>4 DEF MoveRows
  <2>3. pi[LabelAt(e, <<k, a>>)] = LabelAt(e, <<t[k], h[k][a]>>)
    BY <2>1, <2>2, <1>6
  <2> QED BY <2>3 DEF LabelAt
<1> QED BY <1>4, <1>7

\* What an operand reads at an index, and the entry it is then.
Read(op, x) == [l \in ToSet(op.labels) |-> x[l]]
Once(symbol) == [s \in {symbol} |-> 1]

\* An operand that was not summed is one entry of its tensor.
LEMMA WholeEntry ==
  ASSUME NEW op, op.whole.labels = op.labels, NEW x, NEW size
  PROVE  Entry(op, x, size) = Once(Symbol(op, Read(op, x)))
<1> DEFINE z == Read(op, x)
           gone == ToSet(op.whole.labels) \ ToSet(op.labels)
           terms == {[l \in ToSet(op.whole.labels) |-> IF l \in gone THEN y[l] ELSE x[l]]
                       : y \in Labelings(size, gone)}
<1>1. Entry(op, x, size) = [s \in {Symbol(op, w) : w \in terms} |->
                              Cardinality({w \in terms : Symbol(op, w) = s})]
  BY DEF Entry
<1>2. gone = {}
  OBVIOUS
<1>3. \E y : y \in Labelings(size, {})
  <2> DEFINE y == [l \in {} |-> 0]
  <2>1. y \in [{} -> 1..0]
    OBVIOUS
  <2>2. y \in Labelings(size, {})
    BY <2>1 DEF Labelings
  <2> QED BY <2>2
<1>4. terms = {z}
  <2> HIDE DEF gone
  <2>1. \A y : [l \in ToSet(op.whole.labels) |-> IF l \in gone THEN y[l] ELSE x[l]] = z
    BY <1>2 DEF Read
  <2> HIDE DEF z
  <2> QED BY <2>1, <1>2, <1>3
<1> HIDE DEF terms, z
<1>5. {Symbol(op, w) : w \in terms} = {Symbol(op, z)}
  BY <1>4
<1>6. \A s \in {Symbol(op, z)} : {w \in terms : Symbol(op, w) = s} = {z}
  BY <1>4
<1>7. Cardinality({z}) = 1
  BY FS_Singleton
<1>8. Entry(op, x, size) = [s \in {Symbol(op, z)} |-> 1]
  BY <1>1, <1>5, <1>6, <1>7
<1> QED BY <1>8 DEF Once, z

\* Two operands that are one tensor, read at indices that an element of the
\* declared group takes to each other.
SameEntry(o, y, p, x, h) ==
    /\ IsFiniteSet(DOMAIN o.labels) /\ DOMAIN p.labels = DOMAIN o.labels
    /\ o.whole.labels = o.labels /\ p.whole.labels = p.labels
    /\ o.tensor = p.tensor /\ o.whole.sym = p.whole.sym
    /\ o.whole.sym \subseteq Bijection(DOMAIN o.labels, DOMAIN o.labels)
    /\ h \in Dimino(DOMAIN o.labels, o.whole.sym)
    /\ \A a \in DOMAIN o.labels : y[o.labels[a]] = x[p.labels[h[a]]]

\* They are one symbol.
LEMMA SymbolsAgree ==
  ASSUME NEW o, NEW p, NEW h, NEW x, NEW y, SameEntry(o, y, p, x, h)
  PROVE  Symbol(o, Read(o, y)) = Symbol(p, Read(p, x))
<1> DEFINE L == DOMAIN o.labels
<1>0. /\ IsFiniteSet(L) /\ DOMAIN p.labels = L
      /\ o.whole.labels = o.labels /\ p.whole.labels = p.labels
      /\ o.tensor = p.tensor /\ o.whole.sym = p.whole.sym
      /\ o.whole.sym \in SUBSET Bijection(L, L)
      /\ h \in Dimino(L, o.whole.sym)
      /\ \A a \in L : y[o.labels[a]] = x[p.labels[h[a]]]
  BY DEF SameEntry
<1> DEFINE z == Read(o, y)
           w == Read(p, x)
           D == Dimino(L, o.whole.sym)
           Orbit(q, v) == {[a \in L |-> v[q.labels[g[a]]]] : g \in D}
           A == Orbit(o, z)
           B == Orbit(p, w)
<1>1. ASSUME NEW q, NEW v, DOMAIN q.labels = L, q.whole.labels = q.labels,
             q.whole.sym = o.whole.sym
      PROVE  Symbol(q, v) = <<q.tensor, Orbit(q, v)>>
  <2> DEFINE M == q.whole.labels
             T == {[a \in DOMAIN M |-> v[M[g[a]]]] : g \in Dimino(DOMAIN M, q.whole.sym)}
  <2>1. Symbol(q, v) = <<q.tensor, T>>
    BY DEF Symbol
  <2>2. M = q.labels /\ DOMAIN M = L /\ Dimino(DOMAIN M, q.whole.sym) = D
    BY <1>1
  <2> HIDE DEF M, D
  <2>3. T = Orbit(q, v)
    <3>1. \A g : [a \in DOMAIN M |-> v[M[g[a]]]] = [a \in L |-> v[q.labels[g[a]]]]
      BY <2>2
    <3> QED BY <3>1, <2>2, <1>1
  <2> QED BY <2>1, <2>3
<1>2. D \subseteq [L -> L] /\ \A g \in D : Compose(h, g) \in D
  <2>1. D \subseteq Bijection(L, L)
    BY <1>0, DiminoPermutes
  <2>2. {Compose(h, g) : g \in D} = D
    BY <1>0, DiminoCancels
  <2> HIDE DEF D
  <2> QED BY <2>1, <2>2 DEF Bijection, Injection
<1>3. \A f \in D : \E g \in D : f = Compose(h, g)
  <2>1. {Compose(h, g) : g \in D} = D
    BY <1>0, DiminoCancels
  <2> HIDE DEF D
  <2> QED BY <2>1
<1>4. ASSUME NEW g \in D
      PROVE  [a \in L |-> z[o.labels[g[a]]]] = [a \in L |-> w[p.labels[Compose(h, g)[a]]]]
  <2>1. h \in [L -> L] /\ g \in [L -> L]
    BY <1>0, <1>2
  <2> SUFFICES ASSUME NEW a \in L PROVE z[o.labels[g[a]]] = w[p.labels[Compose(h, g)[a]]]
    OBVIOUS
  <2>2. g[a] \in L /\ h[g[a]] \in L /\ Compose(h, g)[a] = h[g[a]]
    <3> HIDE DEF D
    <3> QED BY <2>1 DEF Compose
  <2>3. o.labels[g[a]] \in ToSet(o.labels) /\ p.labels[h[g[a]]] \in ToSet(p.labels)
    BY <1>0, <2>2 DEF ToSet
  <2>4. z[o.labels[g[a]]] = y[o.labels[g[a]]] /\ w[p.labels[h[g[a]]]] = x[p.labels[h[g[a]]]]
    BY <2>3 DEF Read
  <2> QED BY <1>0, <2>2, <2>4
<1>5. Symbol(o, z) = <<o.tensor, A>> /\ Symbol(p, w) = <<p.tensor, B>>
  <2> HIDE DEF D, z, w, Orbit
  <2> QED BY <1>0, <1>1
<1> HIDE DEF D, z, w
<1>6. A \subseteq B
  <2> SUFFICES ASSUME NEW g \in D PROVE [a \in L |-> z[o.labels[g[a]]]] \in B
    OBVIOUS
  <2> QED BY <1>2, <1>4
<1>7. B \subseteq A
  <2> SUFFICES ASSUME NEW f \in D PROVE [a \in L |-> w[p.labels[f[a]]]] \in A
    OBVIOUS
  <2>1. PICK g \in D : f = Compose(h, g)
    BY <1>3
  <2>2. [a \in L |-> w[p.labels[f[a]]]] = [a \in L |-> z[o.labels[g[a]]]]
    BY <2>1, <1>4
  <2> QED BY <2>2
<1> HIDE DEF A, B
<1>8. A = B
  BY <1>6, <1>7
<1>9. Symbol(o, z) = Symbol(p, w)
  BY <1>0, <1>5, <1>8
<1> QED BY <1>9 DEF z, w

\* Copies of one object, as they stand in their class.
LEMMA ClassIsOneTensor ==
  ASSUME NEW e, Shaped(e), Exchangeable(e), Truthful(e),
         NEW k \in Positions(e), NEW j \in Class(e, k)
  PROVE  /\ j \in Positions(e) /\ DOMAIN e.ops[j].labels = DOMAIN e.ops[k].labels
         /\ e.ops[j].tensor = e.ops[k].tensor /\ e.ops[j].whole.sym = e.ops[k].whole.sym
         /\ \A a \in DOMAIN e.ops[k].labels :
              e.size[e.ops[j].labels[a]] = e.size[e.ops[k].labels[a]]
<1>1. /\ j \in Positions(e) /\ DOMAIN e.ops[j].labels = DOMAIN e.ops[k].labels
      /\ j = k \/ \E C \in e.same : j \in C /\ k \in C
  BY ClassFacts
<1>2. CASE j = k
  BY <1>1, <1>2
<1>3. CASE \E C \in e.same : j \in C /\ k \in C
  BY <1>1, <1>3 DEF Truthful
<1> QED BY <1>1, <1>2, <1>3

\* The group of a class moves axes of one size, within what was declared.
LEMMA ClassGroupIsDeclared ==
  ASSUME NEW e, Shaped(e), Exchangeable(e), Truthful(e),
         NEW k \in Positions(e), NEW g \in ClassGroup(e, k)
  PROVE  /\ g \in Dimino(DOMAIN e.ops[k].labels, e.ops[k].whole.sym)
         /\ g \in [DOMAIN e.ops[k].labels -> DOMAIN e.ops[k].labels]
         /\ \A a \in DOMAIN e.ops[k].labels :
              e.size[e.ops[k].labels[g[a]]] = e.size[e.ops[k].labels[a]]
<1> DEFINE m == Min(Class(e, k))
<1>1. m \in Class(e, k)
  BY ClassFacts
<1>2. g \in AxisGroup(e.ops[m])
  BY DEF ClassGroup
<1> HIDE DEF m
<1>3. /\ m \in Positions(e) /\ DOMAIN e.ops[m].labels = DOMAIN e.ops[k].labels
      /\ e.ops[m].whole.sym = e.ops[k].whole.sym
      /\ \A a \in DOMAIN e.ops[k].labels :
              e.size[e.ops[m].labels[a]] = e.size[e.ops[k].labels[a]]
  BY <1>1, ClassIsOneTensor
<1>4. /\ AxisGroup(e.ops[m]) \subseteq Dimino(DOMAIN e.ops[m].labels, e.ops[m].whole.sym)
      /\ \A a \in DOMAIN e.ops[m].labels :
           e.size[e.ops[m].labels[g[a]]] = e.size[e.ops[m].labels[a]]
  BY <1>2, <1>3 DEF Truthful
<1>5. g \in [DOMAIN e.ops[k].labels -> DOMAIN e.ops[k].labels]
  BY ClassGroupFacts
<1>6. ASSUME NEW a \in DOMAIN e.ops[k].labels
      PROVE  e.size[e.ops[k].labels[g[a]]] = e.size[e.ops[k].labels[a]]
  <2>1. g[a] \in DOMAIN e.ops[k].labels
    BY <1>5
  <2>2. /\ e.size[e.ops[m].labels[g[a]]] = e.size[e.ops[k].labels[g[a]]]
        /\ e.size[e.ops[m].labels[a]] = e.size[e.ops[k].labels[a]]
    BY <2>1, <1>3
  <2> QED BY <2>2, <1>3, <1>4
<1> QED BY <1>2, <1>3, <1>4, <1>5, <1>6

\* Operands that change places within their classes, axes within their group: the
\* same entries are multiplied.
LEMMA ProductsAgree ==
  ASSUME NEW e, Shaped(e), Exchangeable(e), Truthful(e),
         NEW t \in Tops(e), NEW h, IsBase(e, h), NEW x, NEW y,
         \A k \in Positions(e) : \A a \in DOMAIN e.ops[k].labels :
           y[e.ops[k].labels[a]] = x[e.ops[t[k]].labels[h[k][a]]]
  PROVE  Product(e, x) = Product(e, y)
<1> DEFINE P == Positions(e)
           fx == [k \in P |-> Entry(e.ops[k], x, e.size)]
           fy == [k \in P |-> Entry(e.ops[k], y, e.size)]
<1>1. /\ Product(e, x) = [s \in {fx[k] : k \in P} |-> Cardinality({k \in P : fx[k] = s})]
      /\ Product(e, y) = [s \in {fy[k] : k \in P} |-> Cardinality({k \in P : fy[k] = s})]
  BY DEF Product
<1>2. t \in Bijection(P, P) /\ \A k \in P : t[k] \in Class(e, k)
  BY DEF Tops
<1>3. IsFiniteSet(P)
  <2>1. P \in SUBSET Positions(e)
    OBVIOUS
  <2> QED BY <2>1, LabelsFinite
<1>4. ASSUME NEW k \in P PROVE fy[k] = fx[t[k]]
  <2> DEFINE o == e.ops[k]
             p == e.ops[t[k]]
             L == DOMAIN o.labels
  <2>1. t[k] \in Class(e, k)
    BY <1>2
  <2>2. /\ t[k] \in P /\ DOMAIN p.labels = L /\ p.tensor = o.tensor
        /\ p.whole.sym = o.whole.sym
    BY <2>1, ClassIsOneTensor
  <2>3. h[k] \in Dimino(L, o.whole.sym)
    <3>1. h[k] \in ClassGroup(e, k)
      BY DEF IsBase
    <3> QED BY <3>1, ClassGroupIsDeclared
  <2>4. /\ o.whole.labels = o.labels /\ p.whole.labels = p.labels
        /\ o.whole.sym \subseteq Bijection(L, L)
    BY <2>2 DEF Truthful
  <2>5. IsFiniteSet(L)
    <3>1. o.labels \in Seq(ToSet(o.labels))
      BY DEF Shaped, ShapedOperand
    <3> QED BY <3>1, Axes
  <2>6. \A a \in L : y[o.labels[a]] = x[p.labels[h[k][a]]]
    OBVIOUS
  <2>7. fy[k] = Entry(o, y, e.size) /\ fx[t[k]] = Entry(p, x, e.size)
    BY <2>2
  <2> HIDE DEF o, p, L, fx, fy
  <2>8. Symbol(o, Read(o, y)) = Symbol(p, Read(p, x))
    <3>1. DOMAIN o.labels = L /\ o.tensor = p.tensor /\ o.whole.sym = p.whole.sym
      BY <2>2 DEF L
    <3>2. /\ DOMAIN p.labels = L /\ o.whole.labels = o.labels /\ p.whole.labels = p.labels
          /\ o.whole.sym \subseteq Bijection(L, L) /\ IsFiniteSet(L)
      BY <2>2, <2>4, <2>5
    <3>3. SameEntry(o, y, p, x, h[k])
      BY <3>1, <3>2, <2>3, <2>6 DEF SameEntry
    <3> QED BY <3>3, SymbolsAgree
  <2>9. /\ Entry(o, y, e.size) = Once(Symbol(o, Read(o, y)))
        /\ Entry(p, x, e.size) = Once(Symbol(p, Read(p, x)))
    BY <2>4, WholeEntry
  <2> QED BY <2>7, <2>8, <2>9
<1> HIDE DEF P, fx, fy
<1>5. /\ t \in [P -> P] /\ \A q \in P : \E k \in P : t[k] = q
  BY <1>2, Fun_BijectionProperties
<1>6. {fx[k] : k \in P} = {fy[k] : k \in P}
  BY <1>4, <1>5
<1>7. ASSUME NEW s
      PROVE  Cardinality({k \in P : fx[k] = s}) = Cardinality({k \in P : fy[k] = s})
  <2> DEFINE U == {k \in P : fy[k] = s}
             V == {k \in P : fx[k] = s}
  <2>1. U \in SUBSET P /\ V \in SUBSET P
    OBVIOUS
  <2>2. \A k \in P : k \in U <=> t[k] \in V
    BY <1>4, <1>5
  <2> HIDE DEF U, V
  <2>3. Cardinality(U) = Cardinality(V)
    BY <2>1, <2>2, <1>2, <1>3, AsMany
  <2> QED BY <2>3 DEF U, V
<1> QED BY <1>1, <1>6, <1>7, ZenonT(60)

\* A renaming that is detected leaves the sizes of the labels and every product as
\* they are.
LEMMA RenamingHolds ==
  ASSUME NEW e, Shaped(e), Exchangeable(e), Truthful(e), NEW pi \in Renamings(e)
  PROVE  /\ \A l \in Labels(e) : e.size[pi[l]] = e.size[l]
         /\ \A x : Product(e, x) = Product(e, [l \in Labels(e) |-> x[pi[l]]])
         /\ HoldsPointwise(e, pi)
<1>1. PICK t \in Tops(e) : \E h : IsBase(e, h) /\
            \A k \in Positions(e) : \A a \in DOMAIN e.ops[k].labels :
              pi[e.ops[k].labels[a]] = e.ops[t[k]].labels[h[k][a]]
  BY RenamingMoves
<1>2. PICK h : IsBase(e, h) /\
            \A k \in Positions(e) : \A a \in DOMAIN e.ops[k].labels :
              pi[e.ops[k].labels[a]] = e.ops[t[k]].labels[h[k][a]]
  BY <1>1
<1>3. ASSUME NEW k \in Positions(e), NEW a \in DOMAIN e.ops[k].labels
      PROVE  /\ e.ops[k].labels[a] \in Labels(e)
             /\ e.size[pi[e.ops[k].labels[a]]] = e.size[e.ops[k].labels[a]]
  <2>1. t[k] \in Class(e, k) /\ h[k] \in ClassGroup(e, k)
    BY <1>2 DEF Tops, IsBase
  <2>2. /\ h[k] \in [DOMAIN e.ops[k].labels -> DOMAIN e.ops[k].labels]
        /\ e.size[e.ops[k].labels[h[k][a]]] = e.size[e.ops[k].labels[a]]
    BY <2>1, ClassGroupIsDeclared
  <2>3. h[k][a] \in DOMAIN e.ops[k].labels
    BY <2>2
  <2>4. e.size[e.ops[t[k]].labels[h[k][a]]] = e.size[e.ops[k].labels[h[k][a]]]
    BY <2>1, <2>3, ClassIsOneTensor
  <2>5. e.ops[k].labels[a] \in Labels(e)
    BY DEF Labels, LabelsOf, ToSet
  <2> QED BY <1>2, <2>2, <2>4, <2>5
<1>4. ASSUME NEW l \in Labels(e) PROVE e.size[pi[l]] = e.size[l]
  <2>1. PICK k \in Positions(e) : \E a \in DOMAIN e.ops[k].labels : l = e.ops[k].labels[a]
    BY DEF Labels, LabelsOf, ToSet
  <2> QED BY <2>1, <1>3
<1>5. ASSUME NEW x PROVE Product(e, x) = Product(e, [l \in Labels(e) |-> x[pi[l]]])
  <2> DEFINE y == [l \in Labels(e) |-> x[pi[l]]]
  <2>1. \A k \in Positions(e) : \A a \in DOMAIN e.ops[k].labels :
           y[e.ops[k].labels[a]] = x[e.ops[t[k]].labels[h[k][a]]]
    BY <1>2, <1>3
  <2> HIDE DEF y
  <2>2. Product(e, x) = Product(e, y)
    BY <2>1, <1>2, ProductsAgree
  <2> QED BY <2>2 DEF y
<1>6. DOMAIN pi = Labels(e)
  BY RenamingsAreGroup
<1> QED BY <1>4, <1>5, <1>6 DEF HoldsPointwise

\* What the generators leave alone, the group leaves alone.
LEMMA GroupPreserves ==
  ASSUME NEW L, IsFiniteSet(L), NEW gens \in SUBSET [L -> L], NEW f,
         \A g \in gens : \A a \in L : f[g[a]] = f[a]
  PROVE  \A g \in Dimino(L, gens) : g \in [L -> L] /\ \A a \in L : f[g[a]] = f[a]
<1> DEFINE H == {g \in [L -> L] : \A a \in L : f[g[a]] = f[a]}
<1>1. gens \cup {Identity(L)} \subseteq H
  BY DEF Identity
<1>2. ASSUME NEW x \in H, NEW g \in gens PROVE Compose(x, g) \in H
  <2>1. g \in [L -> L] /\ x \in [L -> L]
    OBVIOUS
  <2>2. Compose(x, g) \in [L -> L] /\ \A a \in L : Compose(x, g)[a] = x[g[a]]
    BY <2>1 DEF Compose
  <2>3. \A a \in L : g[a] \in L /\ f[x[g[a]]] = f[g[a]] /\ f[g[a]] = f[a]
    BY <2>1
  <2> QED BY <2>2, <2>3
<1>3. H \in SUBSET [L -> L]
  OBVIOUS
<1> HIDE DEF H
<1>4. Dimino(L, gens) \subseteq H
  BY <1>1, <1>2, <1>3, DiminoIsLeast
<1> QED BY <1>4 DEF H

\* The contractions that are asked for.
LEMMA ExpressionFacts ==
  ASSUME NEW e \in Expressions
  PROVE  /\ Shaped(e) /\ Exchangeable(e) /\ e.out \subseteq Labels(e)
         /\ e.size \in [DOMAIN e.size -> Nat]
         /\ \A k \in Positions(e) :
              /\ e.ops[k].whole = [labels |-> e.ops[k].labels, sym |-> e.ops[k].sym]
              /\ ToSet(e.ops[k].labels) \subseteq DOMAIN e.size
              /\ IsFiniteSet(DOMAIN e.ops[k].labels)
              /\ e.ops[k].sym \subseteq Bijection(DOMAIN e.ops[k].labels, DOMAIN e.ops[k].labels)
              /\ \A g \in Dimino(DOMAIN e.ops[k].labels, e.ops[k].sym) :
                   /\ g \in [DOMAIN e.ops[k].labels -> DOMAIN e.ops[k].labels]
                   /\ \A a \in DOMAIN e.ops[k].labels :
                        e.size[e.ops[k].labels[g[a]]] = e.size[e.ops[k].labels[a]]
         /\ \A C \in e.same : \A j, k \in C :
              /\ j \in Positions(e) /\ k \in Positions(e)
              /\ DOMAIN e.ops[j].labels = DOMAIN e.ops[k].labels
              /\ e.ops[j].tensor = e.ops[k].tensor /\ e.ops[j].sym = e.ops[k].sym
              /\ \A a \in DOMAIN e.ops[j].labels :
                   e.size[e.ops[j].labels[a]] = e.size[e.ops[k].labels[a]]
         /\ Len(e.ops) >= 3 => \A k \in Positions(e) : IsInjective(e.ops[k].labels)
<1>1. IsContraction(e)
  BY ContractionAssumption
<1>2. Shaped(e)
  BY ExpressionsAreShaped
<1>3. Exchangeable(e)
  BY <1>1 DEF IsContraction, Exchangeable
<1>4. ASSUME NEW k \in Positions(e)
      PROVE  /\ e.ops[k].whole = [labels |-> e.ops[k].labels, sym |-> e.ops[k].sym]
             /\ ToSet(e.ops[k].labels) \subseteq DOMAIN e.size
             /\ IsFiniteSet(DOMAIN e.ops[k].labels)
             /\ e.ops[k].sym \subseteq Bijection(DOMAIN e.ops[k].labels, DOMAIN e.ops[k].labels)
             /\ \A g \in Dimino(DOMAIN e.ops[k].labels, e.ops[k].sym) :
                  /\ g \in [DOMAIN e.ops[k].labels -> DOMAIN e.ops[k].labels]
                  /\ \A a \in DOMAIN e.ops[k].labels :
                       e.size[e.ops[k].labels[g[a]]] = e.size[e.ops[k].labels[a]]
  <2> DEFINE op == e.ops[k]
             L == DOMAIN op.labels
             f == [a \in L |-> e.size[op.labels[a]]]
  <2>1. IsOperand(op, e.size)
    BY <1>1 DEF IsContraction
  <2>2. op.whole = [labels |-> op.labels, sym |-> op.sym]
    <3> HIDE DEF op
    <3>1. op = Operand(op.tensor, op.labels, op.sym)
      BY <2>1 DEF IsOperand
    <3> QED BY <3>1 DEF Operand
  <2>3. ToSet(op.labels) \subseteq DOMAIN e.size
    <3>1. op.labels \in Seq(DOMAIN e.size)
      BY <2>1 DEF IsOperand
    <3> HIDE DEF op
    <3> QED BY <3>1 DEF ToSet
  <2>4. IsFiniteSet(L)
    <3>1. op.labels \in Seq(ToSet(op.labels))
      BY <1>2 DEF Shaped, ShapedOperand
    <3> QED BY <3>1, Axes
  <2>5. op.sym \subseteq Bijection(L, L)
    BY <2>1 DEF IsOperand
  <2>6. op.sym \in SUBSET [L -> L]
    BY <2>5 DEF Bijection, Injection
  <2>7. \A g \in op.sym : \A a \in L : g[a] \in L /\ e.size[op.labels[g[a]]] = e.size[op.labels[a]]
    BY <2>1, <2>6 DEF IsOperand
  <2>8. \A g \in Dimino(L, op.sym) : g \in [L -> L] /\ \A a \in L : f[g[a]] = f[a]
    <3>1. \A g \in op.sym : \A a \in L : f[g[a]] = f[a]
      BY <2>7
    <3> HIDE DEF f, L, op
    <3> QED BY <3>1, <2>4, <2>6, GroupPreserves
  <2>9. \A g \in Dimino(L, op.sym) :
          g \in [L -> L] /\ \A a \in L : e.size[op.labels[g[a]]] = e.size[op.labels[a]]
    <3> SUFFICES ASSUME NEW g \in Dimino(L, op.sym), NEW a \in L
                 PROVE  g \in [L -> L] /\ e.size[op.labels[g[a]]] = e.size[op.labels[a]]
      BY <2>8
    <3>1. g \in [L -> L] /\ f[g[a]] = f[a]
      BY <2>8
    <3>2. g[a] \in L
      BY <3>1
    <3> QED BY <3>1, <3>2
  <2> QED BY <2>2, <2>3, <2>4, <2>5, <2>9
<1>5. ASSUME NEW C \in e.same, NEW j \in C, NEW k \in C
      PROVE  /\ j \in Positions(e) /\ k \in Positions(e)
             /\ DOMAIN e.ops[j].labels = DOMAIN e.ops[k].labels
             /\ e.ops[j].tensor = e.ops[k].tensor /\ e.ops[j].sym = e.ops[k].sym
             /\ \A a \in DOMAIN e.ops[j].labels :
                  e.size[e.ops[j].labels[a]] = e.size[e.ops[k].labels[a]]
  <2>1. j \in Positions(e) /\ k \in Positions(e)
    BY <1>1 DEF IsContraction
  <2>2. /\ e.ops[j].labels \in Seq(ToSet(e.ops[j].labels))
        /\ e.ops[k].labels \in Seq(ToSet(e.ops[k].labels))
    BY <2>1, <1>2 DEF Shaped, ShapedOperand
  <2>3. /\ DOMAIN e.ops[j].labels = 1..Len(e.ops[j].labels)
        /\ DOMAIN e.ops[k].labels = 1..Len(e.ops[k].labels)
    BY <2>2, Axes
  <2>4. Len(e.ops[j].labels) = Len(e.ops[k].labels)
    BY <1>1 DEF IsContraction
  <2>5. DOMAIN e.ops[j].labels = DOMAIN e.ops[k].labels
    BY <2>3, <2>4
  <2>6. e.ops[j].tensor = e.ops[k].tensor /\ e.ops[j].sym = e.ops[k].sym
    BY <1>1 DEF IsContraction
  <2>7. \A a \in DOMAIN e.ops[j].labels :
          e.size[e.ops[j].labels[a]] = e.size[e.ops[k].labels[a]]
    BY <1>1 DEF IsContraction
  <2> QED BY <2>1, <2>5, <2>6, <2>7
<1>6. /\ e.out \subseteq Labels(e) /\ e.size \in [DOMAIN e.size -> Nat]
      /\ Len(e.ops) >= 3 => \A k \in Positions(e) : IsInjective(e.ops[k].labels)
  BY <1>1 DEF IsContraction
<1> QED BY <1>2, <1>3, <1>4, <1>5, <1>6

\* Every contraction that is asked for is truthful.
LEMMA ExpressionsAreTruthful ==
  ASSUME NEW e \in Expressions
  PROVE  Truthful(e)
<1>1. ASSUME NEW k \in Positions(e)
      PROVE  /\ e.ops[k].whole.labels = e.ops[k].labels
             /\ e.ops[k].whole.sym = e.ops[k].sym
             /\ AxisGroup(e.ops[k]) = Dimino(DOMAIN e.ops[k].labels, e.ops[k].sym)
  <2>1. e.ops[k].whole = [labels |-> e.ops[k].labels, sym |-> e.ops[k].sym]
    BY ExpressionFacts
  <2> QED BY <2>1 DEF AxisGroup
<1>2. \A C \in e.same : \A k \in C : k \in Positions(e)
  BY ExpressionFacts
<1>3. ASSUME NEW k \in Positions(e)
      PROVE  /\ e.ops[k].whole.labels = e.ops[k].labels
             /\ e.ops[k].whole.sym \subseteq Bijection(DOMAIN e.ops[k].labels, DOMAIN e.ops[k].labels)
             /\ AxisGroup(e.ops[k]) \subseteq Dimino(DOMAIN e.ops[k].labels, e.ops[k].whole.sym)
             /\ \A g \in AxisGroup(e.ops[k]) : \A a \in DOMAIN e.ops[k].labels :
                  e.size[e.ops[k].labels[g[a]]] = e.size[e.ops[k].labels[a]]
  <2> DEFINE op == e.ops[k]
             L == DOMAIN op.labels
  <2>1. /\ op.whole.labels = op.labels /\ op.whole.sym = op.sym
        /\ AxisGroup(op) = Dimino(L, op.sym)
    BY <1>1
  <2>2. /\ op.sym \subseteq Bijection(L, L)
        /\ \A g \in Dimino(L, op.sym) : \A a \in L : e.size[op.labels[g[a]]] = e.size[op.labels[a]]
    BY ExpressionFacts
  <2> HIDE DEF op
  <2>3. \A g \in AxisGroup(op) : \A a \in L : e.size[op.labels[g[a]]] = e.size[op.labels[a]]
    BY <2>1, <2>2
  <2>4. AxisGroup(op) \subseteq Dimino(L, op.whole.sym) /\ op.whole.sym \subseteq Bijection(L, L)
    BY <2>1, <2>2
  <2> QED BY <2>1, <2>3, <2>4 DEF op
<1>4. ASSUME NEW C \in e.same, NEW j \in C, NEW k \in C
      PROVE  /\ e.ops[j].tensor = e.ops[k].tensor
             /\ e.ops[j].whole.sym = e.ops[k].whole.sym
             /\ \A a \in DOMAIN e.ops[j].labels :
                  e.size[e.ops[j].labels[a]] = e.size[e.ops[k].labels[a]]
  BY <1>1, <1>2, ExpressionFacts
<1> QED BY <1>3, <1>4 DEF Truthful

\* There are finitely many rows.
LEMMA RowsFinite ==
  ASSUME NEW e, Shaped(e), NEW S \in SUBSET Positions(e)
  PROVE  /\ IsFiniteSet(Rows(e)) /\ IsFiniteSet(RowsIn(e, S))
         /\ \A r \in RowsIn(e, S) : /\ r = <<r[1], r[2]>> /\ r[1] \in S
                                    /\ r[2] \in DOMAIN e.ops[r[1]].labels
                                    /\ LabelAt(e, r) \in LabelsOf(e, S)
         /\ \A k \in S : \A a \in DOMAIN e.ops[k].labels :
              <<k, a>> \in RowsIn(e, S) /\ LabelAt(e, <<k, a>>) = e.ops[k].labels[a]
         /\ \A l \in LabelsOf(e, S) : \E r \in RowsIn(e, S) : LabelAt(e, r) = l
<1> DEFINE P == Positions(e)
           of == [k \in P |-> {<<k, a>> : a \in DOMAIN e.ops[k].labels}]
           all == {of[k] : k \in P}
<1>1. IsFiniteSet(P)
  <2>1. P \in SUBSET Positions(e)
    OBVIOUS
  <2> QED BY <2>1, LabelsFinite
<1>2. ASSUME NEW k \in P PROVE IsFiniteSet(of[k])
  <2> DEFINE D == DOMAIN e.ops[k].labels
             row == [a \in D |-> <<k, a>>]
  <2>1. IsFiniteSet(D)
    <3>1. e.ops[k].labels \in Seq(ToSet(e.ops[k].labels))
      BY DEF Shaped, ShapedOperand
    <3> QED BY <3>1, Axes
  <2>2. of[k] = {<<k, a>> : a \in D}
    OBVIOUS
  <2> HIDE DEF D, of
  <2>3. row \in Surjection(D, of[k])
    BY <2>2 DEF Surjection
  <2> HIDE DEF row
  <2> QED BY <2>1, <2>3, FS_Surjection
<1>3. IsFiniteSet(all)
  <2> HIDE DEF of, P
  <2> DEFINE sur == [k \in P |-> of[k]]
  <2>1. sur \in Surjection(P, all)
    BY DEF Surjection
  <2> HIDE DEF sur, all
  <2> QED BY <1>1, <2>1, FS_Surjection
<1>4. Rows(e) = UNION all
  <2>1. all = {{<<k, a>> : a \in DOMAIN e.ops[k].labels} : k \in P}
    OBVIOUS
  <2> QED BY <2>1 DEF Rows
<1>5. IsFiniteSet(Rows(e))
  <2>1. \A T \in all : IsFiniteSet(T)
    BY <1>2
  <2> HIDE DEF all
  <2> QED BY <2>1, <1>3, <1>4, FS_UNION
<1>6. RowsIn(e, S) \in SUBSET Rows(e)
  BY DEF RowsIn
<1>7. IsFiniteSet(RowsIn(e, S))
  BY <1>5, <1>6, FS_Subset
<1>8. ASSUME NEW r \in RowsIn(e, S)
      PROVE  /\ r = <<r[1], r[2]>> /\ r[1] \in S
             /\ r[2] \in DOMAIN e.ops[r[1]].labels /\ LabelAt(e, r) \in LabelsOf(e, S)
  <2>1. r \in Rows(e) /\ r[1] \in S
    BY DEF RowsIn
  <2>2. r = <<r[1], r[2]>> /\ r[2] \in DOMAIN e.ops[r[1]].labels
    BY <2>1, RowFacts
  <2> QED BY <2>1, <2>2 DEF LabelAt, LabelsOf, ToSet
<1>9. ASSUME NEW k \in S, NEW a \in DOMAIN e.ops[k].labels
      PROVE  <<k, a>> \in RowsIn(e, S) /\ LabelAt(e, <<k, a>>) = e.ops[k].labels[a]
  <2>1. <<k, a>> \in Rows(e)
    BY RowFacts
  <2> QED BY <2>1 DEF RowsIn, LabelAt
<1>10. ASSUME NEW l \in LabelsOf(e, S) PROVE \E r \in RowsIn(e, S) : LabelAt(e, r) = l
  <2>1. PICK k \in S : \E a \in DOMAIN e.ops[k].labels : e.ops[k].labels[a] = l
    BY DEF LabelsOf, ToSet
  <2> QED BY <2>1, <1>9
<1> QED BY <1>5, <1>7, <1>8, <1>9, <1>10

\* Copies of one object within a subset.
LEMMA CopiesFacts ==
  ASSUME NEW e \in Expressions, NEW S \in SUBSET Positions(e), NEW C \in Copies(e, S)
  PROVE  /\ C \subseteq S /\ \E D \in e.same : C = D \cap S
         /\ Cardinality(C) >= 2
         /\ Min(C) \in C
<1>1. C \subseteq S /\ Cardinality(C) >= 2 /\ \E D \in e.same : C = D \cap S
  BY DEF Copies
<1>2. IsFiniteSet(S)
  BY ExpressionFacts, LabelsFinite
<1>3. IsFiniteSet(C) /\ C # {}
  <2>1. IsFiniteSet(C)
    BY <1>1, <1>2, FS_Subset
  <2>2. ASSUME C = {} PROVE FALSE
    <3>1. Cardinality(C) = 0
      BY <2>2, FS_EmptySet
    <3> QED BY <3>1, <1>1
  <2> QED BY <2>1, <2>2
<1>4. Positions(e) \subseteq Int
  <2>1. e.ops \in Seq(ToSet(e.ops))
    BY ExpressionFacts DEF Shaped
  <2>2. DOMAIN e.ops = 1..Len(e.ops) /\ Len(e.ops) \in Nat
    BY <2>1, Axes
  <2> QED BY <2>2 DEF Positions
<1>5. \A T : T = C => T \in SUBSET Int /\ IsFiniteSet(T) /\ T # {}
  BY <1>1, <1>3, <1>4
<1>6. Min(C) \in C
  <2>1. ASSUME NEW T, T = C PROVE Min(T) \in T
    <3>1. T \in SUBSET Int /\ IsFiniteSet(T) /\ T # {}
      BY <2>1, <1>5
    <3> QED BY <3>1, LeastOfSet
  <2> QED BY <2>1
<1> QED BY <1>1, <1>6

\* The declared symmetry of an operand moves its rows, to rows of one size.
LEMMA OwnMoves ==
  ASSUME NEW e \in Expressions, NEW S \in SUBSET Positions(e), NEW s \in OwnSymmetry(e, S)
  PROVE  /\ s \in [RowsIn(e, S) -> RowsIn(e, S)]
         /\ \A r \in RowsIn(e, S) : e.size[LabelAt(e, s[r])] = e.size[LabelAt(e, r)]
         /\ \E k \in S : \E g \in e.ops[k].sym :
              s = [r \in RowsIn(e, S) |-> IF r[1] = k THEN <<k, g[r[2]]>> ELSE r]
<1> DEFINE R == RowsIn(e, S)
<1>1. PICK k \in S : \E g \in e.ops[k].sym :
        s = [r \in R |-> IF r[1] = k THEN <<k, g[r[2]]>> ELSE r]
  BY DEF OwnSymmetry
<1>2. PICK g \in e.ops[k].sym : s = [r \in R |-> IF r[1] = k THEN <<k, g[r[2]]>> ELSE r]
  BY <1>1
<1>3. /\ g \in [DOMAIN e.ops[k].labels -> DOMAIN e.ops[k].labels]
      /\ \A a \in DOMAIN e.ops[k].labels :
           e.size[e.ops[k].labels[g[a]]] = e.size[e.ops[k].labels[a]]
  <2>1. g \in Dimino(DOMAIN e.ops[k].labels, e.ops[k].sym)
    <3>1. /\ IsFiniteSet(DOMAIN e.ops[k].labels)
          /\ e.ops[k].sym \subseteq Bijection(DOMAIN e.ops[k].labels, DOMAIN e.ops[k].labels)
      BY ExpressionFacts
    <3>2. e.ops[k].sym \in SUBSET [DOMAIN e.ops[k].labels -> DOMAIN e.ops[k].labels]
      BY <3>1 DEF Bijection, Injection
    <3> QED BY <3>1, <3>2, DiminoIsLeast
  <2> QED BY <2>1, ExpressionFacts
<1>4. Shaped(e)
  BY ExpressionFacts
<1>5. ASSUME NEW r \in R
      PROVE  s[r] \in R /\ e.size[LabelAt(e, s[r])] = e.size[LabelAt(e, r)]
  <2>1. /\ r = <<r[1], r[2]>> /\ r[1] \in S /\ r[2] \in DOMAIN e.ops[r[1]].labels
    BY <1>4, RowsFinite
  <2>2. CASE r[1] = k
    <3>1. s[r] = <<k, g[r[2]]>> /\ g[r[2]] \in DOMAIN e.ops[k].labels
      BY <1>2, <1>3, <2>1, <2>2
    <3>2. s[r] \in R /\ LabelAt(e, s[r]) = e.ops[k].labels[g[r[2]]]
      BY <3>1, <1>4, RowsFinite
    <3>3. LabelAt(e, r) = e.ops[k].labels[r[2]]
      BY <2>2 DEF LabelAt
    <3> QED BY <3>2, <3>3, <1>3, <2>1, <2>2
  <2>3. CASE r[1] # k
    BY <1>2, <2>3
  <2> QED BY <2>2, <2>3
<1>6. DOMAIN s = R /\ s = [r \in R |-> s[r]]
  BY <1>2
<1> QED BY <1>1, <1>5, <1>6

\* So do copies that change places.
LEMMA SwapMoves ==
  ASSUME NEW e \in Expressions, NEW S \in SUBSET Positions(e), NEW s \in CopySwaps(e, S)
  PROVE  /\ s \in [RowsIn(e, S) -> RowsIn(e, S)]
         /\ \A r \in RowsIn(e, S) : e.size[LabelAt(e, s[r])] = e.size[LabelAt(e, r)]
         /\ \E D \in e.same : \E j, k \in D \cap S : j # k /\ s = SwapOf(e, S, <<j, k>>)
<1> DEFINE R == RowsIn(e, S)
<1>1. PICK C \in Copies(e, S) : \E p \in OfOneRank(e, C) : s = SwapOf(e, S, p)
  BY DEF CopySwaps
<1>2. PICK p \in OfOneRank(e, C) : s = SwapOf(e, S, p)
  BY <1>1
<1>3. p \in C \X C /\ p[1] < p[2]
  BY DEF OfOneRank
<1>4. PICK D \in e.same : C = D \cap S
  BY CopiesFacts
<1> DEFINE j == p[1]
           k == p[2]
<1>5. j \in D \cap S /\ k \in D \cap S /\ p = <<j, k>>
  BY <1>3, <1>4
<1>6. j # k
  <2>1. j \in Int /\ k \in Int
    <3>1. Positions(e) \subseteq Int
      <4>1. e.ops \in Seq(ToSet(e.ops))
        BY ExpressionFacts DEF Shaped
      <4>2. DOMAIN e.ops = 1..Len(e.ops) /\ Len(e.ops) \in Nat
        BY <4>1, Axes
      <4> QED BY <4>2 DEF Positions
    <3> QED BY <3>1, <1>5
  <2> QED BY <2>1, <1>3
<1>7. /\ DOMAIN e.ops[j].labels = DOMAIN e.ops[k].labels
      /\ \A a \in DOMAIN e.ops[j].labels :
           e.size[e.ops[j].labels[a]] = e.size[e.ops[k].labels[a]]
  BY <1>5, ExpressionFacts
<1>8. s = [r \in R |-> IF r[1] = j THEN <<k, r[2]>> ELSE IF r[1] = k THEN <<j, r[2]>> ELSE r]
  BY <1>2 DEF SwapOf
<1> HIDE DEF j, k
<1>9. Shaped(e)
  BY ExpressionFacts
<1>10. ASSUME NEW r \in R
      PROVE  s[r] \in R /\ e.size[LabelAt(e, s[r])] = e.size[LabelAt(e, r)]
  <2>1. /\ r = <<r[1], r[2]>> /\ r[1] \in S /\ r[2] \in DOMAIN e.ops[r[1]].labels
        /\ LabelAt(e, r) = e.ops[r[1]].labels[r[2]]
    BY <1>9, RowsFinite DEF LabelAt
  <2>2. CASE r[1] = j
    <3>1. s[r] = <<k, r[2]>> /\ r[2] \in DOMAIN e.ops[k].labels
      BY <1>7, <1>8, <2>1, <2>2
    <3>2. s[r] \in R /\ LabelAt(e, s[r]) = e.ops[k].labels[r[2]]
      BY <3>1, <1>5, <1>9, RowsFinite
    <3> QED BY <3>2, <1>7, <2>1, <2>2
  <2>3. CASE r[1] # j /\ r[1] = k
    <3>1. s[r] = <<j, r[2]>> /\ r[2] \in DOMAIN e.ops[j].labels
      BY <1>7, <1>8, <2>1, <2>3
    <3>2. s[r] \in R /\ LabelAt(e, s[r]) = e.ops[j].labels[r[2]]
      BY <3>1, <1>5, <1>9, RowsFinite
    <3> QED BY <3>1, <3>2, <1>7, <2>1, <2>3
  <2>4. CASE r[1] # j /\ r[1] # k
    BY <1>8, <2>4
  <2> QED BY <2>2, <2>3, <2>4
<1>11. DOMAIN s = R /\ s = [r \in R |-> s[r]]
  BY <1>8
<1> QED BY <1>2, <1>5, <1>6, <1>10, <1>11

\* Copies that are relabelled together move rows too.
LEMMA RelabelMoves ==
  ASSUME NEW e \in Expressions, NEW S \in SUBSET Positions(e), NEW s \in CopyRelabels(e, S)
  PROVE  s \in [RowsIn(e, S) -> RowsIn(e, S)]
<1> DEFINE R == RowsIn(e, S)
           Axis(C) == AxesOf(e.ops[Min(C)], SummedIn(e, S))
<1>1. PICK C \in Copies(e, S) :
        /\ \A j, k \in C : e.ops[j].labels = e.ops[k].labels
        /\ \E p \in {q \in Axis(C) \X Axis(C) : q[1] < q[2]} :
             s = [r \in R |->
                   IF r[1] \notin C THEN r
                   ELSE IF r[2] = p[1] THEN <<r[1], p[2]>>
                   ELSE IF r[2] = p[2] THEN <<r[1], p[1]>> ELSE r]
  BY DEF CopyRelabels
<1>2. PICK p \in Axis(C) \X Axis(C) :
             s = [r \in R |->
                   IF r[1] \notin C THEN r
                   ELSE IF r[2] = p[1] THEN <<r[1], p[2]>>
                   ELSE IF r[2] = p[2] THEN <<r[1], p[1]>> ELSE r]
  BY <1>1
<1>3. Min(C) \in C /\ C \subseteq S
  BY CopiesFacts
<1>4. \A k \in C : p[1] \in DOMAIN e.ops[k].labels /\ p[2] \in DOMAIN e.ops[k].labels
  <2>1. p[1] \in DOMAIN e.ops[Min(C)].labels /\ p[2] \in DOMAIN e.ops[Min(C)].labels
    BY DEF AxesOf
  <2> QED BY <2>1, <1>1, <1>3
<1>5. Shaped(e)
  BY ExpressionFacts
<1>6. ASSUME NEW r \in R PROVE s[r] \in R
  <2>1. r[1] \in S
    BY <1>5, RowsFinite
  <2>2. CASE r[1] \in C
    <3>1. <<r[1], p[1]>> \in R /\ <<r[1], p[2]>> \in R
      BY <2>1, <2>2, <1>4, <1>5, RowsFinite
    <3> QED BY <3>1, <1>2
  <2>3. CASE r[1] \notin C
    BY <2>3, <1>2
  <2> QED BY <2>2, <2>3
<1>7. DOMAIN s = R /\ s = [r \in R |-> s[r]]
  BY <1>2
<1> QED BY <1>6, <1>7

-----------------------------------------------------------------------------
(***************************************************************************)
(* The symmetry of a result.                                               *)
(***************************************************************************)
\* A finite set of integers has a greatest element.
LEMMA GreatestOfSet ==
  ASSUME NEW S \in SUBSET Int, IsFiniteSet(S), S # {}
  PROVE  Max(S) \in S /\ \A y \in S : Max(S) >= y
<1> DEFINE below(x) == {y \in S : x >= y}
           all == {below(x) : x \in S}
<1>1. all \in SUBSET (SUBSET S)
  OBVIOUS
<1>2. all # {}
  <2>1. PICK x \in S : TRUE
    OBVIOUS
  <2>2. below(x) \in all
    OBVIOUS
  <2> HIDE DEF below
  <2> QED BY <2>2
<1>3. PICK s \in all : \A t \in all : s \subseteq t => s = t
  <2>1. ASSUME NEW U, U = S PROVE \E s \in all : \A t \in all : s \subseteq t => s = t
    <3>1. IsFiniteSet(U) /\ all \in SUBSET (SUBSET U)
      BY <1>1, <2>1
    <3> HIDE DEF all
    <3> QED BY <1>2, <3>1, MaximalSubset
  <2> QED BY <2>1
<1>4. PICK x \in S : s = below(x)
  OBVIOUS
<1>5. ASSUME NEW y \in S PROVE x >= y
  <2>1. SUFFICES ASSUME y > x PROVE FALSE
    OBVIOUS
  <2>2. s \subseteq below(y) /\ y \notin s
    <3>1. \A z \in S : x >= z => y >= z
      BY <2>1
    <3>2. ~ (x >= y)
      BY <2>1
    <3> QED BY <3>1, <3>2, <1>4
  <2>3. y \in below(y)
    OBVIOUS
  <2>4. below(y) \in all
    OBVIOUS
  <2> HIDE DEF below, all
  <2> QED BY <2>2, <2>3, <2>4, <1>3
<1> QED BY <1>5 DEF Max

\* There are finitely many indices.
LEMMA LabelingsFinite ==
  ASSUME NEW L, IsFiniteSet(L), NEW size, \A l \in L : size[l] \in Nat
  PROVE  IsFiniteSet(Labelings(size, L))
<1> DEFINE all == {size[l] : l \in L}
           top == IF L = {} THEN 0 ELSE Max(all)
<1>1. IsFiniteSet(all)
  <2> DEFINE sur == [l \in L |-> size[l]]
  <2>1. sur \in Surjection(L, all)
    BY DEF Surjection
  <2> HIDE DEF sur, all
  <2> QED BY <2>1, FS_Surjection
<1>2. top \in Int
  <2>1. CASE L = {}
    BY <2>1
  <2>2. CASE L # {}
    <3>1. all \subseteq Int /\ all # {}
      BY <2>2
    <3>2. ASSUME NEW U, U = all PROVE Max(U) \in Int
      <4>1. U \in SUBSET Int /\ IsFiniteSet(U) /\ U # {}
        BY <1>1, <3>1, <3>2
      <4> QED BY <4>1, GreatestOfSet
    <3> QED BY <2>2, <3>2
  <2> QED BY <2>1, <2>2
<1> HIDE DEF top
<1>3. IsFiniteSet(1..top)
  BY <1>2, FS_Interval
<1>4. IsFiniteSet([L -> 1..top])
  BY <1>3, FunctionsFinite
<1>5. Labelings(size, L) \in SUBSET [L -> 1..top]
  BY DEF Labelings, top
<1> QED BY <1>4, <1>5, FS_Subset

\* An index that is read through a renaming of labels of one size is an index.
LEMMA LabelingMoved ==
  ASSUME NEW L, NEW size, NEW pi \in [L -> L], \A l \in L : size[pi[l]] = size[l],
         NEW x \in Labelings(size, L)
  PROVE  [l \in L |-> x[pi[l]]] \in Labelings(size, L)
<1> DEFINE top == IF L = {} THEN 0 ELSE Max({size[l] : l \in L})
<1>1. Labelings(size, L) = {z \in [L -> 1..top] : \A l \in L : z[l] <= size[l]}
  BY DEF Labelings
<1> HIDE DEF top
<1>2. x \in [L -> 1..top] /\ \A l \in L : x[l] <= size[l]
  BY <1>1
<1>3. \A l \in L : pi[l] \in L /\ x[pi[l]] \in 1..top /\ x[pi[l]] <= size[pi[l]]
  BY <1>2
<1> QED BY <1>1, <1>3

\* The group of the axes of an operand is the one of its class.
LEMMA OwnClassGroup ==
  ASSUME NEW e \in Expressions, NEW k \in Positions(e)
  PROVE  ClassGroup(e, k) = AxisGroup(e.ops[k])
<1> DEFINE m == Min(Class(e, k))
<1>1. Shaped(e) /\ Exchangeable(e)
  BY ExpressionFacts
<1>2. m \in Class(e, k)
  BY <1>1, ClassFacts
<1> HIDE DEF m
<1>3. m = k \/ \E C \in e.same : m \in C /\ k \in C
  BY <1>1, <1>2, ClassFacts
<1>4. DOMAIN e.ops[m].labels = DOMAIN e.ops[k].labels /\ e.ops[m].sym = e.ops[k].sym
  BY <1>3, ExpressionFacts
<1>5. AxisGroup(e.ops[m]) = AxisGroup(e.ops[k])
  BY <1>4 DEF AxisGroup
<1> QED BY <1>5 DEF ClassGroup, m

\* What the declared symmetry of one operand does to the rows is in the wreath
\* product.
LEMMA OwnInWreath ==
  ASSUME NEW e \in Expressions, NEW s \in OwnSymmetry(e, Positions(e))
  PROVE  s \in Wreath(e)
<1> DEFINE P == Positions(e)
<1>1. Shaped(e) /\ Exchangeable(e) /\ P \in SUBSET Positions(e)
  BY ExpressionFacts
<1>2. PICK k \in P : \E g \in e.ops[k].sym :
        s = [r \in RowsIn(e, P) |-> IF r[1] = k THEN <<k, g[r[2]]>> ELSE r]
  BY <1>1, OwnMoves
<1>3. PICK g \in e.ops[k].sym :
        s = [r \in RowsIn(e, P) |-> IF r[1] = k THEN <<k, g[r[2]]>> ELSE r]
  BY <1>2
<1>4. RowsIn(e, P) = Rows(e)
  BY RowFacts DEF RowsIn
<1> DEFINE t == Identity(P)
           h == [j \in P |-> IF j = k THEN g ELSE Identity(DOMAIN e.ops[j].labels)]
<1>5. t \in Tops(e) /\ \A j \in P : t[j] = j
  <2>1. t \in Bijection(P, P)
    BY DEF Identity, Bijection, Injection, Surjection, IsInjective
  <2>2. \A j \in P : t[j] = j /\ j \in Class(e, j)
    BY DEF Identity, Class
  <2> QED BY <2>1, <2>2 DEF Tops
<1>6. IsBase(e, h)
  <2>1. \A j \in P : Identity(DOMAIN e.ops[j].labels) \in ClassGroup(e, j)
    BY <1>1, ClassGroupFacts
  <2>2. g \in ClassGroup(e, k)
    <3>1. ShapedOperand(e.ops[k])
      BY <1>1 DEF Shaped
    <3>2. g \in AxisGroup(e.ops[k])
      BY <3>1, AxisGroupFacts
    <3> QED BY <3>2, OwnClassGroup
  <2> QED BY <2>1, <2>2 DEF IsBase
<1>7. h = [j \in P |-> h[j]]
  OBVIOUS
<1>8. ASSUME NEW r \in Rows(e)
      PROVE  <<t[r[1]], h[r[1]][r[2]]>> = IF r[1] = k THEN <<k, g[r[2]]>> ELSE r
  <2>1. r = <<r[1], r[2]>> /\ r[1] \in P /\ r[2] \in DOMAIN e.ops[r[1]].labels
    BY RowFacts
  <2>2. CASE r[1] = k
    BY <2>1, <2>2, <1>5
  <2>3. CASE r[1] # k
    <3>1. h[r[1]] = Identity(DOMAIN e.ops[r[1]].labels)
      BY <2>1, <2>3
    <3>2. h[r[1]][r[2]] = r[2]
      BY <2>1, <3>1 DEF Identity
    <3>3. t[r[1]] = r[1]
      BY <2>1, <1>5
    <3> HIDE DEF t, h
    <3> QED BY <2>1, <2>3, <3>2, <3>3
  <2> QED BY <2>2, <2>3
<1> HIDE DEF t, h
<1>9. MoveRows(e, t, h) = s
  BY <1>3, <1>4, <1>8 DEF MoveRows
<1>10. MoveRows(e, t, h) \in Wreath(e)
  BY <1>5, <1>6, <1>7, WreathElements
<1> QED BY <1>9, <1>10

\* So is an exchange of copies.
LEMMA SwapInWreath ==
  ASSUME NEW e \in Expressions, NEW s \in CopySwaps(e, Positions(e))
  PROVE  s \in Wreath(e)
<1> DEFINE P == Positions(e)
<1>1. Shaped(e) /\ Exchangeable(e) /\ P \in SUBSET Positions(e)
  BY ExpressionFacts
<1>2. PICK D \in e.same : \E j, k \in D \cap P : j # k /\ s = SwapOf(e, P, <<j, k>>)
  BY <1>1, SwapMoves
<1>3. PICK j \in D \cap P, k \in D \cap P : j # k /\ s = SwapOf(e, P, <<j, k>>)
  BY <1>2
<1>4. RowsIn(e, P) = Rows(e)
  BY RowFacts DEF RowsIn
<1>5. s = [r \in Rows(e) |-> IF r[1] = j THEN <<k, r[2]>> ELSE IF r[1] = k THEN <<j, r[2]>> ELSE r]
  BY <1>3, <1>4 DEF SwapOf
<1> DEFINE t == [i \in P |-> IF i = j THEN k ELSE IF i = k THEN j ELSE i]
           h == [i \in P |-> Identity(DOMAIN e.ops[i].labels)]
<1>6. t \in Tops(e)
  <2>1. t \in Bijection(P, P)
    <3>1. t \in [P -> P] /\ \A i \in P : t[t[i]] = i
      BY <1>3
    <3> HIDE DEF t, P
    <3>2. (\A a, b \in P : t[a] = t[b] => a = b) /\ \A b \in P : \E a \in P : t[a] = b
      BY <3>1
    <3> QED BY <3>1, <3>2, Fun_IsBij
  <2>2. \A i \in P : t[i] \in Class(e, i)
    <3>1. \A i \in P : i \in Class(e, i)
      BY DEF Class
    <3>2. k \in Class(e, j) /\ j \in Class(e, k)
      BY <1>3 DEF Class
    <3> QED BY <3>1, <3>2
  <2> QED BY <2>1, <2>2 DEF Tops
<1>7. IsBase(e, h)
  <2>1. \A i \in P : Identity(DOMAIN e.ops[i].labels) \in ClassGroup(e, i)
    BY <1>1, ClassGroupFacts
  <2> QED BY <2>1 DEF IsBase
<1>8. h = [i \in P |-> h[i]]
  OBVIOUS
<1>9. ASSUME NEW r \in Rows(e)
      PROVE  <<t[r[1]], h[r[1]][r[2]]>> = s[r]
  <2>1. r = <<r[1], r[2]>> /\ r[1] \in P /\ r[2] \in DOMAIN e.ops[r[1]].labels
    BY RowFacts
  <2>2. h[r[1]][r[2]] = r[2]
    BY <2>1 DEF Identity
  <2>3. t[r[1]] = IF r[1] = j THEN k ELSE IF r[1] = k THEN j ELSE r[1]
    BY <2>1
  <2> HIDE DEF t, h
  <2> QED BY <2>1, <2>2, <2>3, <1>5
<1>10. s = [r \in Rows(e) |-> s[r]]
  BY <1>5
<1> HIDE DEF t, h
<1>11. MoveRows(e, t, h) = s
  BY <1>9, <1>10 DEF MoveRows
<1>12. MoveRows(e, t, h) \in Wreath(e)
  BY <1>6, <1>7, <1>8, WreathElements
<1> QED BY <1>11, <1>12

\* Where no copies are relabelled together, the oracle's renamings of a whole
\* contraction are among those that are detected.
LEMMA OracleIsDetected ==
  ASSUME NEW e \in Expressions, CopyRelabels(e, Positions(e)) = {},
         NEW pi \in SubsetRenamings(e, Positions(e))
  PROVE  pi \in Renamings(e) /\ Image(pi, e.out) = e.out /\ FreeIn(e, Positions(e)) = e.out
<1> DEFINE P == Positions(e)
           R == Rows(e)
           gens == OwnSymmetry(e, P) \cup CopySwaps(e, P) \cup CopyRelabels(e, P)
<1>1. Shaped(e) /\ Exchangeable(e) /\ P \in SUBSET Positions(e)
  BY ExpressionFacts
<1>2. RowsIn(e, P) = R
  BY RowFacts DEF RowsIn
<1>3. IsFiniteSet(R)
  BY <1>1, RowsFinite
<1>4. /\ Wreath(e) \in SUBSET [R -> R] /\ Identity(R) \in Wreath(e)
      /\ \A s, u \in Wreath(e) : Compose(s, u) \in Wreath(e)
  BY <1>1, WreathIsGroup
<1>5. gens \subseteq Wreath(e)
  BY OwnInWreath, SwapInWreath
<1>6. gens \in SUBSET [R -> R]
  BY <1>4, <1>5
<1>7. RowGroup(e, P) = Dimino(R, gens)
  BY <1>2 DEF RowGroup
<1> HIDE DEF gens, R
<1>8. Dimino(R, gens) \subseteq Wreath(e)
  <2>1. gens \cup {Identity(R)} \subseteq Wreath(e) /\ \A x \in Wreath(e), g \in gens : Compose(x, g) \in Wreath(e)
    BY <1>4, <1>5
  <2> QED BY <2>1, <1>3, <1>4, <1>6, DiminoIsLeast
<1>9. pi \in Renamings(e) /\ Image(pi, FreeIn(e, P)) = FreeIn(e, P)
  BY <1>7, <1>8 DEF SubsetRenamings, Renamings
<1>10. FreeIn(e, P) = e.out
  <2>1. e.out \subseteq Labels(e)
    BY ExpressionFacts
  <2>2. LabelsOf(e, P \ P) = {}
    BY DEF LabelsOf
  <2> QED BY <2>1, <2>2 DEF FreeIn, Labels
<1> QED BY <1>9, <1>10

\* A renaming that keeps the products and the output labels keeps the result.
LEMMA CellsAgree ==
  ASSUME NEW e, IsFiniteSet(Labels(e)), e.out \subseteq Labels(e),
         \A l \in Labels(e) : e.size[l] \in Nat,
         NEW pi \in [Labels(e) -> Labels(e)], IsInjective(pi), Image(pi, e.out) = e.out,
         \A l \in Labels(e) : e.size[pi[l]] = e.size[l],
         \A x : Product(e, x) = Product(e, [l \in Labels(e) |-> x[pi[l]]]),
         NEW v, NEW w, w = [l \in e.out |-> v[pi[l]]], v = [l \in e.out |-> v[l]]
  PROVE  Cell(e, v) = Cell(e, w)
<1> DEFINE L == Labels(e)
           V == e.out
           X == Labelings(e.size, L)
           A == {x \in X : Restrict(x, V) = v}
           B == {x \in X : Restrict(x, V) = w}
           F(x) == [l \in L |-> x[pi[l]]]
           t == [x \in A |-> F(x)]
<1> DEFINE Of(T) == {Product(e, x) : x \in T}
           Times(T, p) == Cardinality({x \in T : Product(e, x) = p})
<1>1. /\ Cell(e, v) = [p \in Of(A) |-> Times(A, p)]
      /\ Cell(e, w) = [p \in Of(B) |-> Times(B, p)]
  BY DEF Cell
<1>2. \A l \in V : l \in L /\ pi[l] \in V
  BY DEF Image
<1>3. pi \in Bijection(L, L)
  <2>1. pi \in Injection(L, L)
    BY DEF Injection
  <2>2. pi \in Surjection(L, L)
    <3>1. IsFiniteSet(L)
      OBVIOUS
    <3> HIDE DEF L
    <3> QED BY <2>1, <3>1, FS_Injection
  <2> QED BY <2>1, <2>2 DEF Bijection
<1> DEFINE inv == [l \in L |-> CHOOSE m \in L : pi[m] = l]
<1>4. /\ inv \in [L -> L] /\ \A l \in L : pi[inv[l]] = l /\ inv[pi[l]] = l
  <2>1. \A l \in L : \E m \in L : pi[m] = l
    BY <1>3, Fun_BijectionProperties
  <2>2. \A a, b \in L : pi[a] = pi[b] => a = b
    BY <1>3, Fun_BijectionProperties
  <2>3. \A l \in L : inv[l] \in L /\ pi[inv[l]] = l
    BY <2>1
  <2>4. inv = [l \in L |-> inv[l]] /\ \A l \in L : pi[l] \in L
    OBVIOUS
  <2> HIDE DEF inv, L
  <2> QED BY <2>2, <2>3, <2>4
<1>5. \A l \in V : inv[l] \in V
  <2> SUFFICES ASSUME NEW l \in V PROVE inv[l] \in V
    OBVIOUS
  <2>1. PICK m \in V : l = pi[m]
    BY DEF Image
  <2>2. inv[pi[m]] = m
    BY <1>2, <1>4
  <2> HIDE DEF inv
  <2> QED BY <2>1, <2>2
<1> HIDE DEF inv
<1>6. ASSUME NEW x \in A PROVE F(x) \in B
  <2>1. F(x) \in X
    BY LabelingMoved
  <2>2. Restrict(x, V) = v
    OBVIOUS
  <2>3. \A l \in V : x[l] = v[l]
    BY <2>2 DEF Restrict
  <2>4. \A l \in V : F(x)[l] = w[l]
    BY <2>3, <1>2
  <2>5. Restrict(F(x), V) = w
    BY <2>4 DEF Restrict
  <2> QED BY <2>1, <2>5
<1>7. ASSUME NEW y \in B PROVE \E x \in A : F(x) = y
  <2> DEFINE x == [l \in L |-> y[inv[l]]]
  <2>1. x \in X
    <3>1. \A l \in L : e.size[inv[l]] = e.size[l]
      BY <1>4
    <3>2. y \in X
      OBVIOUS
    <3> QED BY <3>1, <3>2, <1>4, LabelingMoved
  <2>2. \A l \in V : y[l] = w[l]
    <3>1. Restrict(y, V) = w
      OBVIOUS
    <3> QED BY <3>1 DEF Restrict
  <2>3. ASSUME NEW l \in V PROVE x[l] = v[l]
    <3>1. x[l] = y[inv[l]] /\ inv[l] \in V /\ pi[inv[l]] = l
      BY <1>2, <1>4, <1>5
    <3>2. w[inv[l]] = v[pi[inv[l]]]
      BY <3>1
    <3> QED BY <3>1, <3>2, <2>2
  <2>4. Restrict(x, V) = v
    BY <2>3 DEF Restrict
  <2>5. F(x) = y
    <3>1. y = [l \in L |-> y[l]]
      BY DEF Labelings
    <3>2. \A l \in L : x[pi[l]] = y[l]
      BY <1>4
    <3> HIDE DEF x
    <3> QED BY <3>1, <3>2
  <2> HIDE DEF x
  <2> QED BY <2>1, <2>4, <2>5
<1>8. ASSUME NEW x \in A, NEW y \in A, F(x) = F(y) PROVE x = y
  <2>1. x = [l \in L |-> x[l]] /\ y = [l \in L |-> y[l]]
    BY DEF Labelings
  <2>2. \A l \in L : x[l] = F(x)[inv[l]] /\ y[l] = F(y)[inv[l]]
    BY <1>4
  <2>3. F(x) = F(y)
    BY <1>8
  <2> HIDE DEF F
  <2>4. \A l \in L : x[l] = y[l]
    BY <2>2, <2>3
  <2> QED BY <2>1, <2>4
<1>9. IsFiniteSet(A)
  <2>1. IsFiniteSet(X)
    BY LabelingsFinite
  <2>2. A \in SUBSET X
    OBVIOUS
  <2> HIDE DEF A, X
  <2> QED BY <2>1, <2>2, FS_Subset
<1>10. \A x \in A : Product(e, x) = Product(e, F(x))
  OBVIOUS
<1> HIDE DEF A, B, F, L
<1>11. t \in Bijection(A, B)
  <2>1. t \in [A -> B]
    BY <1>6
  <2>2. (\A x, y \in A : t[x] = t[y] => x = y) /\ \A y \in B : \E x \in A : t[x] = y
    BY <1>7, <1>8
  <2> HIDE DEF t
  <2> QED BY <2>1, <2>2, Fun_IsBij
<1>12. Of(A) = Of(B)
  BY <1>6, <1>7, <1>10
<1>13. ASSUME NEW p
       PROVE  Times(A, p) = Times(B, p)
  <2> DEFINE U == {x \in A : Product(e, x) = p}
             W == {x \in B : Product(e, x) = p}
  <2>1. U \in SUBSET A /\ W \in SUBSET B
    OBVIOUS
  <2>2. \A x \in A : x \in U <=> t[x] \in W
    BY <1>6, <1>10
  <2> HIDE DEF U, W, t
  <2>3. Cardinality(U) = Cardinality(W)
    BY <2>1, <2>2, <1>9, <1>11, AsMany
  <2> QED BY <2>3 DEF U, W
<1> HIDE DEF Of, Times
<1> QED BY <1>1, <1>12, <1>13

\* The symmetry the oracle gives the result of a contraction holds of it.
LEMMA NothingFalselyTagged == FalselyTagged = {}
<1> SUFFICES ASSUME NEW e \in Expressions, CopyRelabels(e, Positions(e)) = {},
                    NEW rho \in OutputGroup(e, Positions(e)),
                    NEW v \in Labelings(e.size, e.out)
             PROVE  Cell(e, v) = Cell(e, [l \in e.out |-> v[rho[l]]])
  BY DEF FalselyTagged, HoldsOfResult
<1> DEFINE L == Labels(e)
           w == [l \in e.out |-> v[rho[l]]]
<1>1. PICK pi \in SubsetRenamings(e, Positions(e)) : rho = Restrict(pi, FreeIn(e, Positions(e)))
  BY DEF OutputGroup
<1>2. pi \in Renamings(e) /\ Image(pi, e.out) = e.out /\ rho = Restrict(pi, e.out)
  BY <1>1, OracleIsDetected
<1>3. /\ Shaped(e) /\ Exchangeable(e) /\ Truthful(e) /\ e.out \subseteq L
      /\ e.size \in [DOMAIN e.size -> Nat]
  BY ExpressionFacts, ExpressionsAreTruthful
<1>4. IsFiniteSet(L) /\ pi \in [L -> L]
  BY <1>2, <1>3, RenamingsAreGroup
<1>5. IsInjective(pi)
  <2>1. PICK s \in Wreath(e) : IsRenaming(Induced(e, s)) /\ pi = AsRenaming(Induced(e, s))
    <3>1. Renamings(e) =
          {AsRenaming(Induced(e, s)) : s \in {u \in Wreath(e) : IsRenaming(Induced(e, u))}}
      BY DEF Renamings
    <3> QED BY <3>1, <1>2
  <2>2. s \in [Rows(e) -> Rows(e)]
    BY <1>3, WreathIsGroup
  <2>3. /\ \A r \in Rows(e) : LabelAt(e, r) \in L
        /\ \A l \in L : \E r \in Rows(e) : LabelAt(e, r) = l
    BY RowFacts
  <2> HIDE DEF L
  <2> QED BY <2>1, <2>2, <2>3, InducedFacts
<1>6. /\ \A l \in L : e.size[pi[l]] = e.size[l]
      /\ \A x : Product(e, x) = Product(e, [l \in L |-> x[pi[l]]])
  BY <1>2, <1>3, RenamingHolds
<1>7. \A l \in L : e.size[l] \in Nat
  <2>1. \A k \in Positions(e) : ToSet(e.ops[k].labels) \subseteq DOMAIN e.size
    BY ExpressionFacts
  <2>2. L \subseteq DOMAIN e.size
    BY <2>1 DEF Labels, LabelsOf
  <2> QED BY <1>3, <2>2
<1>8. w = [l \in e.out |-> v[pi[l]]]
  BY <1>2 DEF Restrict
<1>9. v = [l \in e.out |-> v[l]]
  BY DEF Labelings
<1> HIDE DEF w
<1>10. Cell(e, v) = Cell(e, w)
  BY <1>2, <1>3, <1>4, <1>5, <1>6, <1>7, <1>8, <1>9, CellsAgree
<1> QED BY <1>10 DEF w

\* The tag of a result is true: entries of the result that it calls equal add up the
\* same products, where no copies are relabelled together
\* (_infer_multi_operand_output_symmetry).
THEOREM ResultSymmetryIsTrue == Spec => []ResultSymmetryHolds
<1>1. ResultSymmetryHolds
  BY NothingFalselyTagged DEF ResultSymmetryHolds
<1> QED BY <1>1, PTL

-----------------------------------------------------------------------------
(***************************************************************************)
(* The steps of a path are truthful.                                       *)
(***************************************************************************)
\* Copies whose summed axes are exchanged together (the third source of the oracle,
\* which compares the labels of the copies and no sizes) have axes of one size
\* there.
RelabelsKeepSizes ==
    \A e \in Expressions : Len(e.ops) >= 3 =>
        \A S \in SUBSET Positions(e) : \A s \in CopyRelabels(e, S) : \A r \in RowsIn(e, S) :
            e.size[LabelAt(e, s[r])] = e.size[LabelAt(e, r)]

\* A reduction remembers what the operand was before.
LEMMA WholeIsKept ==
  ASSUME NEW op, ShapedOperand(op), NEW L
  PROVE  ReduceOperand(op, L).whole = op.whole
<1> DEFINE labels == [i \in DOMAIN Remaining(op, L) |-> op.labels[Remaining(op, L)[i]]]
<1>1. ReduceOperand(op, L) = [op EXCEPT !.labels = labels, !.sym = ReduceGroup(op, L)]
  BY DEF ReduceOperand
<1>2. op = [tensor |-> op.tensor, labels |-> op.labels, sym |-> op.sym, whole |-> op.whole]
  BY DEF ShapedOperand
<1> HIDE DEF labels
<1> QED BY <1>1, <1>2

\* The oracle moves rows to rows of one size.
LEMMA RowsKeepSizes ==
  ASSUME RelabelsKeepSizes, NEW e \in Expressions, Len(e.ops) >= 3,
         NEW S \in SUBSET Positions(e), NEW s \in RowGroup(e, S)
  PROVE  /\ s \in [RowsIn(e, S) -> RowsIn(e, S)]
         /\ \A r \in RowsIn(e, S) : e.size[LabelAt(e, s[r])] = e.size[LabelAt(e, r)]
<1> DEFINE R == RowsIn(e, S)
           f == [r \in R |-> e.size[LabelAt(e, r)]]
           gens == OwnSymmetry(e, S) \cup CopySwaps(e, S) \cup CopyRelabels(e, S)
<1>1. IsFiniteSet(R)
  BY ExpressionFacts, RowsFinite
<1>2. ASSUME NEW g \in gens
      PROVE  g \in [R -> R] /\ \A r \in R : e.size[LabelAt(e, g[r])] = e.size[LabelAt(e, r)]
  <2>1. CASE g \in OwnSymmetry(e, S)
    BY <2>1, OwnMoves
  <2>2. CASE g \in CopySwaps(e, S)
    BY <2>2, SwapMoves
  <2>3. CASE g \in CopyRelabels(e, S)
    BY <2>3, RelabelMoves DEF RelabelsKeepSizes
  <2> QED BY <2>1, <2>2, <2>3
<1>3. \A g \in gens : \A r \in R : f[g[r]] = f[r]
  <2> SUFFICES ASSUME NEW g \in gens, NEW r \in R PROVE f[g[r]] = f[r]
    OBVIOUS
  <2>1. g[r] \in R /\ e.size[LabelAt(e, g[r])] = e.size[LabelAt(e, r)]
    <3> HIDE DEF gens
    <3> QED BY <1>2
  <2> QED BY <2>1
<1>4. gens \in SUBSET [R -> R]
  <2> HIDE DEF gens
  <2> QED BY <1>2
<1>5. s \in Dimino(R, gens)
  BY DEF RowGroup
<1>6. s \in [R -> R] /\ \A r \in R : f[s[r]] = f[r]
  <2> HIDE DEF f, gens, R
  <2> QED BY <1>1, <1>3, <1>4, <1>5, GroupPreserves
<1>7. ASSUME NEW r \in R PROVE e.size[LabelAt(e, s[r])] = e.size[LabelAt(e, r)]
  <2>1. s[r] \in R /\ f[s[r]] = f[r]
    BY <1>6
  <2> QED BY <2>1
<1> QED BY <1>6, <1>7

\* The symmetry of an intermediate result permutes its labels, and comes from a
\* movement of the rows.
LEMMA OutputGroupFacts ==
  ASSUME NEW e \in Expressions, NEW S \in SUBSET Positions(e), NEW rho \in OutputGroup(e, S)
  PROVE  /\ rho \in Bijection(FreeIn(e, S), FreeIn(e, S))
         /\ \E s \in RowGroup(e, S) :
              s \in [RowsIn(e, S) -> RowsIn(e, S)] /\
              \A r \in RowsIn(e, S) :
                LabelAt(e, r) \in FreeIn(e, S) => rho[LabelAt(e, r)] = LabelAt(e, s[r])
<1> DEFINE R == RowsIn(e, S)
           V == FreeIn(e, S)
           W == LabelsOf(e, S)
<1>1. PICK pi \in SubsetRenamings(e, S) : rho = Restrict(pi, V)
  BY DEF OutputGroup
<1>2. PICK s \in RowGroup(e, S) : /\ IsRenaming(Induced(e, s)) /\ pi = AsRenaming(Induced(e, s))
                                  /\ Image(pi, V) = V
  BY DEF SubsetRenamings
<1>3. s \in [R -> R]
  <2>1. Shaped(e)
    BY ExpressionFacts
  <2>2. IsFiniteSet(R)
    BY <2>1, RowsFinite
  <2> DEFINE gens == OwnSymmetry(e, S) \cup CopySwaps(e, S) \cup CopyRelabels(e, S)
  <2>3. gens \in SUBSET [R -> R]
    BY OwnMoves, SwapMoves, RelabelMoves
  <2>4. s \in Dimino(R, gens)
    BY DEF RowGroup
  <2> HIDE DEF gens, R
  <2> QED BY <2>2, <2>3, <2>4, DiminoIsLeast
<1>4. /\ \A r \in R : LabelAt(e, r) \in W
      /\ \A l \in W : \E r \in R : LabelAt(e, r) = l
  BY ExpressionFacts, RowsFinite
<1>5. /\ pi \in [W -> W] /\ IsInjective(pi)
      /\ \A r \in R : pi[LabelAt(e, r)] = LabelAt(e, s[r])
  <2> HIDE DEF R, W
  <2> QED BY <1>2, <1>3, <1>4, InducedFacts
<1>6. V \subseteq W
  BY DEF FreeIn
<1>7. /\ \A l \in V : pi[l] \in V /\ rho[l] = pi[l]
      /\ \A m \in V : \E l \in V : pi[l] = m
      /\ \A l, m \in V : pi[l] = pi[m] => l = m
  <2>1. \A l \in V : rho[l] = pi[l]
    BY <1>1 DEF Restrict
  <2>2. (\A l \in V : pi[l] \in V) /\ \A m \in V : \E l \in V : pi[l] = m
    <3> HIDE DEF V
    <3> QED BY <1>2 DEF Image
  <2>3. \A l, m \in V : pi[l] = pi[m] => l = m
    <3> HIDE DEF V, W
    <3> QED BY <1>5, <1>6 DEF IsInjective
  <2> QED BY <2>1, <2>2, <2>3
<1>8. rho = [l \in V |-> rho[l]]
  BY <1>1 DEF Restrict
<1> HIDE DEF V, W, R
<1>9. rho \in [V -> V]
  BY <1>7, <1>8
<1>10. (\A l, m \in V : rho[l] = rho[m] => l = m) /\ \A m \in V : \E l \in V : rho[l] = m
  BY <1>7
<1>11. rho \in Bijection(V, V)
  BY <1>9, <1>10, Fun_IsBij
<1>12. \A r \in R : LabelAt(e, r) \in V => rho[LabelAt(e, r)] = LabelAt(e, s[r])
  BY <1>5, <1>7
<1> QED BY <1>2, <1>3, <1>11, <1>12 DEF V, R

\* A permutation of distinct labels permutes the axes.
LEMMA AxesPermuted ==
  ASSUME NEW labels, IsInjective(labels), NEW V, ToSet(labels) = V, NEW rho \in Bijection(V, V)
  PROVE  /\ OnAxes(labels, rho) \in Bijection(DOMAIN labels, DOMAIN labels)
         /\ \A a \in DOMAIN labels : labels[OnAxes(labels, rho)[a]] = rho[labels[a]]
<1> DEFINE L == DOMAIN labels
           g == OnAxes(labels, rho)
<1>1. rho \in [V -> V] /\ (\A l, m \in V : rho[l] = rho[m] => l = m) /\ \A m \in V : \E l \in V : rho[l] = m
  BY Fun_BijectionProperties
<1>2. g \in [L -> L] /\ \A a \in L : labels[g[a]] = rho[labels[a]]
  BY <1>1, OnAxesFacts
<1>3. /\ \A a \in L : labels[a] \in V
      /\ \A l \in V : \E a \in L : labels[a] = l
      /\ \A a, b \in L : labels[a] = labels[b] => a = b
  BY DEF ToSet, IsInjective
<1> HIDE DEF g
<1>4. \A a, b \in L : g[a] = g[b] => a = b
  BY <1>1, <1>2, <1>3
<1>5. \A b \in L : \E a \in L : g[a] = b
  <2> SUFFICES ASSUME NEW b \in L PROVE \E a \in L : g[a] = b
    OBVIOUS
  <2>1. PICK l \in V : rho[l] = labels[b]
    BY <1>1, <1>3
  <2>2. PICK a \in L : labels[a] = l
    BY <1>3
  <2>3. labels[g[a]] = labels[b] /\ g[a] \in L
    BY <1>2, <2>1, <2>2
  <2> QED BY <2>3, <1>3
<1>6. g \in Bijection(L, L)
  BY <1>2, <1>4, <1>5, Fun_IsBij
<1> QED BY <1>2, <1>6 DEF g

\* An entry of the tensor of another operand.
EntryOf(op, other) ==
    /\ op.labels = other.labels /\ op.tensor = other.tensor /\ op.whole.sym = other.sym

\* What stands for a subset, where nothing was summed before the step.
LEMMA WholeOperand ==
  ASSUME NEW e \in Expressions, Len(e.ops) >= 3, NEW S \in SUBSET Positions(e), S # {},
         NEW op, op = StepOperand(e, S), op.whole.labels = op.labels
  PROVE  /\ IsInjective(op.labels) /\ ToSet(op.labels) = FreeIn(e, S)
         /\ IsFiniteSet(DOMAIN op.labels)
         /\ \A g \in op.sym : \E rho \in OutputGroup(e, S) : g = OnAxes(op.labels, rho)
         /\ op.whole.sym = op.sym \/ \E k \in Positions(e) : S = {k}
         /\ \A k : S = {k} => EntryOf(op, e.ops[k])
<1> DEFINE k == CHOOSE j \in S : TRUE
           V == FreeIn(e, S)
           labels == IF Cardinality(S) = 1 THEN e.ops[k].labels ELSE SetToSeq(V)
           found == {OnAxes(labels, pi) : pi \in OutputGroup(e, S)}
           names == [i \in 1..Cardinality(S) |-> e.ops[Ascending(S)[i]].tensor[1]]
           old == e.ops[k]
<1>1. op = IF Cardinality(S) > 1 THEN Operand(names, labels, found)
           ELSE IF SummedIn(e, S) # {} THEN ReduceOperand(e.ops[k], SummedIn(e, S))
           ELSE [e.ops[k] EXCEPT !.sym = found]
  BY DEF StepOperand
<1>2. Shaped(e)
  BY ExpressionFacts
<1>3. IsFiniteSet(S) /\ Cardinality(S) \in Nat /\ Cardinality(S) # 0
  BY <1>2, LabelsFinite, FS_CardinalityType, FS_EmptySet
<1>4. IsFiniteSet(V)
  <2>1. IsFiniteSet(LabelsOf(e, S)) /\ V \in SUBSET LabelsOf(e, S)
    BY <1>2, LabelsFinite DEF FreeIn
  <2> QED BY <2>1, FS_Subset
<1>5. k \in S /\ k \in Positions(e)
  OBVIOUS
<1>6. ToSet(op.labels) = V
  BY <1>2, StepOperandIsShaped
<1>7. ShapedOperand(old) /\ IsInjective(old.labels) /\ IsFiniteSet(DOMAIN old.labels)
      /\ old.whole = [labels |-> old.labels, sym |-> old.sym]
  <2> HIDE DEF k
  <2>1. ShapedOperand(e.ops[k])
    BY <1>2, <1>5 DEF Shaped
  <2> QED BY <2>1, <1>5, ExpressionFacts
<1>8. \A g \in found : \E rho \in OutputGroup(e, S) : g = OnAxes(labels, rho)
  OBVIOUS
<1>9. CASE Cardinality(S) > 1
  <2>1. labels = SetToSeq(V)
    BY <1>9
  <2>2. op = Operand(names, labels, found)
    BY <1>1, <1>9
  <2>3. IsInjective(SetToSeq(V)) /\ IsFiniteSet(DOMAIN SetToSeq(V))
    <3>1. IsInjective(SetToSeq(V)) /\ DOMAIN SetToSeq(V) = 1..Cardinality(V)
      BY <1>4, Listing
    <3>2. Cardinality(V) \in Nat
      BY <1>4, FS_CardinalityType
    <3>3. IsFiniteSet(1..Cardinality(V))
      BY <3>2, FS_Interval
    <3> QED BY <3>1, <3>3
  <2>4. ASSUME NEW j, S = {j} PROVE FALSE
    <3>1. Cardinality(S) = 1
      BY <2>4, FS_Singleton
    <3> QED BY <3>1, <1>9
  <2> HIDE DEF labels, found, names
  <2>5. op.labels = labels /\ op.sym = found /\ op.whole.sym = found
    BY <2>2 DEF Operand
  <2> QED BY <2>1, <2>3, <2>4, <2>5, <1>6, <1>8
<1>10. CASE ~ Cardinality(S) > 1
  <2>1. Cardinality(S) = 1
    BY <1>10, <1>3
  <2>2. S = {k}
    BY <2>1, <1>3, <1>5, FS_Singleton
  <2>3. LabelsOf(e, S) = ToSet(old.labels)
    <3> HIDE DEF k
    <3> QED BY <2>2 DEF LabelsOf
  <2>4. labels = old.labels
    BY <2>1
  <2>5. SummedIn(e, S) = {}
    <3> SUFFICES ASSUME SummedIn(e, S) # {} PROVE FALSE
      OBVIOUS
    <3>1. op = ReduceOperand(old, SummedIn(e, S))
      BY <1>1, <1>10
    <3> HIDE DEF old
    <3>2. ToSet(op.labels) = ToSet(old.labels) \ SummedIn(e, S) /\ op.whole = old.whole
      BY <3>1, <1>7, ReducedOperand, WholeIsKept
    <3>3. op.labels = old.labels
      BY <3>2, <1>7
    <3>4. SummedIn(e, S) \subseteq ToSet(old.labels)
      BY <2>3 DEF SummedIn
    <3>5. ToSet(old.labels) = ToSet(old.labels) \ SummedIn(e, S)
      BY <3>2, <3>3
    <3> QED BY <3>4, <3>5
  <2>6. op = [old EXCEPT !.sym = found]
    BY <1>1, <1>10, <2>5
  <2>7. old = [tensor |-> old.tensor, labels |-> old.labels, sym |-> old.sym, whole |-> old.whole]
    BY <1>7 DEF ShapedOperand
  <2>8. \A j : S = {j} => e.ops[j] = old
    BY <2>2
  <2> HIDE DEF old, found, labels
  <2>9. /\ op.labels = old.labels /\ op.tensor = old.tensor /\ op.sym = found
        /\ op.whole.sym = old.sym
    BY <2>6, <2>7, <1>7
  <2>10. \A j : S = {j} => EntryOf(op, e.ops[j])
    BY <2>8, <2>9 DEF EntryOf
  <2>11. \E j \in Positions(e) : S = {j}
    BY <2>2, <1>5
  <2>12. \A g \in op.sym : \E rho \in OutputGroup(e, S) : g = OnAxes(op.labels, rho)
    BY <2>4, <2>9, <1>8
  <2>13. IsInjective(op.labels) /\ IsFiniteSet(DOMAIN op.labels)
    BY <2>9, <1>7
  <2> HIDE DEF k, V
  <2> QED BY <2>10, <2>11, <2>12, <2>13, <1>6 DEF V
<1> QED BY <1>9, <1>10

\* Alone, an operand is moved within its declared symmetry.
LEMMA AloneMoves ==
  ASSUME NEW e \in Expressions, NEW k \in Positions(e), NEW S, S = {k},
         NEW s \in RowGroup(e, S)
  PROVE  \E g \in Dimino(DOMAIN e.ops[k].labels, e.ops[k].sym) :
            \A a \in DOMAIN e.ops[k].labels : s[<<k, a>>] = <<k, g[a]>>
<1> DEFINE L == DOMAIN e.ops[k].labels
           sym == e.ops[k].sym
           D == Dimino(L, sym)
           R == RowsIn(e, S)
           gens == OwnSymmetry(e, S) \cup CopySwaps(e, S) \cup CopyRelabels(e, S)
           H == {u \in [R -> R] : \E g \in D : \A a \in L : u[<<k, a>>] = <<k, g[a]>>}
<1>1. Shaped(e) /\ S \in SUBSET Positions(e)
  BY ExpressionFacts
<1>2. IsFiniteSet(L) /\ sym \in SUBSET [L -> L]
  BY ExpressionFacts DEF Bijection, Injection
<1>3. /\ D \in SUBSET [L -> L] /\ sym \subseteq D /\ Identity(L) \in D
      /\ \A g, h \in D : Compose(g, h) \in D
  <2> HIDE DEF L, sym
  <2> QED BY <1>2, DiminoIsLeast, DiminoCloses
<1>4. IsFiniteSet(R) /\ \A a \in L : <<k, a>> \in R
  BY <1>1, RowsFinite
<1>5. Copies(e, S) = {}
  <2> SUFFICES ASSUME NEW C \in Copies(e, S) PROVE FALSE
    OBVIOUS
  <2>1. C \subseteq S /\ Cardinality(C) >= 2
    BY DEF Copies
  <2>2. IsFiniteSet(S) /\ Cardinality(S) = 1
    BY FS_Singleton
  <2>3. IsFiniteSet(C) /\ Cardinality(C) <= Cardinality(S)
    BY <2>1, <2>2, FS_Subset
  <2>4. Cardinality(C) \in Nat
    BY <2>3, FS_CardinalityType
  <2> QED BY <2>1, <2>2, <2>3, <2>4
<1>6. CopySwaps(e, S) = {} /\ CopyRelabels(e, S) = {}
  BY <1>5 DEF CopySwaps, CopyRelabels
<1>7. ASSUME NEW u \in gens PROVE u \in H
  <2>1. u \in OwnSymmetry(e, S)
    BY <1>6
  <2>2. u \in [R -> R]
    BY <2>1, <1>1, OwnMoves
  <2>3. PICK g \in sym : u = [r \in R |-> IF r[1] = k THEN <<k, g[r[2]]>> ELSE r]
    BY <2>1 DEF OwnSymmetry
  <2>4. \A a \in L : u[<<k, a>>] = <<k, g[a]>>
    BY <2>3, <1>4
  <2>5. g \in D
    BY <1>3
  <2> HIDE DEF D, R, L
  <2> QED BY <2>2, <2>4, <2>5
<1>8. Identity(R) \in H
  <2>1. Identity(R) \in [R -> R]
    BY ComposeFacts
  <2>2. \A a \in L : Identity(R)[<<k, a>>] = <<k, Identity(L)[a]>>
    BY <1>4 DEF Identity
  <2> HIDE DEF D, R, L
  <2> QED BY <2>1, <2>2, <1>3
<1>9. ASSUME NEW x \in H, NEW u \in H PROVE Compose(x, u) \in H
  <2> HIDE DEF D, R, L
  <2>1. x \in [R -> R] /\ u \in [R -> R]
    OBVIOUS
  <2>2. PICK g \in D : \A a \in L : x[<<k, a>>] = <<k, g[a]>>
    OBVIOUS
  <2>3. PICK h \in D : \A a \in L : u[<<k, a>>] = <<k, h[a]>>
    OBVIOUS
  <2> HIDE DEF H
  <2>4. Compose(x, u) \in [R -> R] /\ \A r \in R : Compose(x, u)[r] = x[u[r]]
    BY <2>1, ComposeFacts
  <2>5. g \in [L -> L] /\ h \in [L -> L] /\ Compose(g, h) \in D
    BY <1>3
  <2>6. \A a \in L : h[a] \in L /\ Compose(g, h)[a] = g[h[a]]
    BY <2>5, ComposeFacts
  <2>7. \A a \in L : Compose(x, u)[<<k, a>>] = <<k, Compose(g, h)[a]>>
    BY <2>2, <2>3, <2>4, <2>6, <1>4
  <2> QED BY <2>4, <2>5, <2>7 DEF H
<1>10. H \in SUBSET [R -> R]
  OBVIOUS
<1>11. s \in Dimino(R, gens)
  BY DEF RowGroup
<1> HIDE DEF H, gens, R, D, L
<1>12. gens \in SUBSET [R -> R] /\ gens \cup {Identity(R)} \subseteq H
  BY <1>7, <1>8, <1>10
<1>13. \A x \in H, g \in gens : Compose(x, g) \in H
  BY <1>9, <1>12
<1>14. s \in H
  BY <1>4, <1>10, <1>11, <1>12, <1>13, DiminoIsLeast
<1> QED BY <1>14 DEF H, D, L

\* What stands for a subset has the symmetry of its tensor.
LEMMA WholeOperandTruthful ==
  ASSUME RelabelsKeepSizes,
         NEW e \in Expressions, Len(e.ops) >= 3, NEW S \in SUBSET Positions(e), S # {},
         NEW op, op = StepOperand(e, S), op.whole.labels = op.labels
  PROVE  /\ op.whole.sym \subseteq Bijection(DOMAIN op.labels, DOMAIN op.labels)
         /\ AxisGroup(op) \subseteq Dimino(DOMAIN op.labels, op.whole.sym)
         /\ \A g \in AxisGroup(op) : \A a \in DOMAIN op.labels :
              e.size[op.labels[g[a]]] = e.size[op.labels[a]]
<1> DEFINE L == DOMAIN op.labels
           V == FreeIn(e, S)
           f == [a \in L |-> e.size[op.labels[a]]]
<1>1. /\ IsInjective(op.labels) /\ ToSet(op.labels) = V /\ IsFiniteSet(L)
      /\ \A g \in op.sym : \E rho \in OutputGroup(e, S) : g = OnAxes(op.labels, rho)
      /\ op.whole.sym = op.sym \/ \E k \in Positions(e) : S = {k}
      /\ \A k : S = {k} => EntryOf(op, e.ops[k])
  BY WholeOperand
<1>2. ASSUME NEW a \in L
      PROVE  op.labels[a] \in V /\ \E r \in RowsIn(e, S) : LabelAt(e, r) = op.labels[a]
  <2>1. op.labels[a] \in V
    BY <1>1 DEF ToSet
  <2>2. op.labels[a] \in LabelsOf(e, S)
    BY <2>1 DEF FreeIn
  <2>3. Shaped(e)
    BY ExpressionFacts
  <2> QED BY <2>1, <2>2, <2>3, RowsFinite
<1>3. ASSUME NEW g \in op.sym
      PROVE  /\ g \in Bijection(L, L)
             /\ \A a \in L : e.size[op.labels[g[a]]] = e.size[op.labels[a]]
  <2>1. PICK rho \in OutputGroup(e, S) : g = OnAxes(op.labels, rho)
    BY <1>1
  <2>2. PICK s \in RowGroup(e, S) :
          rho \in Bijection(V, V) /\
          \A r \in RowsIn(e, S) : LabelAt(e, r) \in V => rho[LabelAt(e, r)] = LabelAt(e, s[r])
    BY OutputGroupFacts
  <2>3. rho \in Bijection(V, V)
    BY OutputGroupFacts
  <2>4. g \in Bijection(L, L) /\ \A a \in L : op.labels[g[a]] = rho[op.labels[a]]
    <3> HIDE DEF V
    <3> QED BY <2>1, <2>3, <1>1, AxesPermuted
  <2>5. ASSUME NEW a \in L PROVE e.size[op.labels[g[a]]] = e.size[op.labels[a]]
    <3>1. PICK r \in RowsIn(e, S) : LabelAt(e, r) = op.labels[a] /\ op.labels[a] \in V
      BY <1>2
    <3>2. e.size[LabelAt(e, s[r])] = e.size[LabelAt(e, r)]
      BY RowsKeepSizes
    <3>3. rho[op.labels[a]] = LabelAt(e, s[r])
      BY <2>2, <3>1
    <3> QED BY <2>4, <3>1, <3>2, <3>3
  <2> QED BY <2>4, <2>5
<1>4. op.sym \in SUBSET [L -> L] /\ op.sym \subseteq Bijection(L, L)
  BY <1>3 DEF Bijection, Injection
<1>5. \A g \in AxisGroup(op) : g \in [L -> L] /\ \A a \in L : f[g[a]] = f[a]
  <2>1. \A g \in op.sym : \A a \in L : f[g[a]] = f[a]
    <3> SUFFICES ASSUME NEW g \in op.sym, NEW a \in L PROVE f[g[a]] = f[a]
      OBVIOUS
    <3>1. g[a] \in L
      BY <1>4
    <3> QED BY <3>1, <1>3
  <2>2. AxisGroup(op) = Dimino(L, op.sym)
    BY DEF AxisGroup
  <2> HIDE DEF f, L
  <2> QED BY <2>1, <2>2, <1>1, <1>4, GroupPreserves
<1>6. \A g \in AxisGroup(op) : \A a \in L : e.size[op.labels[g[a]]] = e.size[op.labels[a]]
  <2> SUFFICES ASSUME NEW g \in AxisGroup(op), NEW a \in L
               PROVE  e.size[op.labels[g[a]]] = e.size[op.labels[a]]
    OBVIOUS
  <2>1. g \in [L -> L] /\ f[g[a]] = f[a]
    BY <1>5
  <2>2. g[a] \in L
    BY <2>1
  <2> QED BY <2>1, <2>2
<1>7. CASE op.whole.sym = op.sym
  BY <1>4, <1>6, <1>7 DEF AxisGroup
<1>8. CASE \E k \in Positions(e) : S = {k}
  <2>1. PICK k \in Positions(e) : S = {k}
    BY <1>8
  <2>2. op.labels = e.ops[k].labels /\ op.whole.sym = e.ops[k].sym
    BY <1>1, <2>1 DEF EntryOf
  <2>3. op.whole.sym \in SUBSET Bijection(L, L)
    <3>1. e.ops[k].sym \subseteq Bijection(DOMAIN e.ops[k].labels, DOMAIN e.ops[k].labels)
      BY ExpressionFacts
    <3> QED BY <2>2, <3>1
  <2> DEFINE D == Dimino(L, op.whole.sym)
  <2>4. /\ D \in SUBSET [L -> L] /\ Identity(L) \in D /\ \A g, h \in D : Compose(g, h) \in D
    <3>1. op.whole.sym \in SUBSET [L -> L]
      BY <2>3 DEF Bijection, Injection
    <3> HIDE DEF L
    <3> QED BY <3>1, <1>1, DiminoIsLeast, DiminoCloses
  <2>5. ASSUME NEW g \in op.sym PROVE g \in D
    <3>1. PICK rho \in OutputGroup(e, S) : g = OnAxes(op.labels, rho)
      BY <1>1
    <3>2. PICK s \in RowGroup(e, S) :
            \A r \in RowsIn(e, S) : LabelAt(e, r) \in V => rho[LabelAt(e, r)] = LabelAt(e, s[r])
      BY OutputGroupFacts
    <3>3. rho \in Bijection(V, V)
      BY OutputGroupFacts
    <3>4. g \in [L -> L] /\ \A a \in L : op.labels[g[a]] = rho[op.labels[a]]
      <4>1. g \in Bijection(L, L) /\ \A a \in L : op.labels[g[a]] = rho[op.labels[a]]
        <5> HIDE DEF V
        <5> QED BY <3>1, <3>3, <1>1, AxesPermuted
      <4> QED BY <4>1 DEF Bijection, Injection
    <3>5. PICK h \in Dimino(DOMAIN e.ops[k].labels, e.ops[k].sym) :
            \A a \in DOMAIN e.ops[k].labels : s[<<k, a>>] = <<k, h[a]>>
      BY <2>1, AloneMoves
    <3>6. h \in D /\ \A a \in L : s[<<k, a>>] = <<k, h[a]>>
      BY <2>2, <3>5
    <3>7. h \in [L -> L]
      BY <3>6, <2>4
    <3>8. ASSUME NEW a \in L PROVE g[a] = h[a]
      <4>1. <<k, a>> \in RowsIn(e, S) /\ LabelAt(e, <<k, a>>) = op.labels[a]
        <5>1. Shaped(e) /\ k \in S /\ a \in DOMAIN e.ops[k].labels
          BY <2>1, <2>2, ExpressionFacts
        <5>2. <<k, a>> \in RowsIn(e, S) /\ LabelAt(e, <<k, a>>) = e.ops[k].labels[a]
          BY <5>1, RowsFinite
        <5> QED BY <5>2, <2>2
      <4>2. rho[op.labels[a]] = LabelAt(e, <<k, h[a]>>)
        BY <4>1, <1>2, <3>2, <3>6
      <4>3. LabelAt(e, <<k, h[a]>>) = op.labels[h[a]]
        BY <2>2 DEF LabelAt
      <4>4. op.labels[g[a]] = op.labels[h[a]] /\ g[a] \in L /\ h[a] \in L
        BY <3>4, <3>7, <4>2, <4>3
      <4> QED BY <4>4, <1>1 DEF IsInjective
    <3>9. g = h
      BY <3>4, <3>7, <3>8
    <3> QED BY <3>6, <3>9
  <2>6. AxisGroup(op) \subseteq D
    <3>1. AxisGroup(op) = Dimino(L, op.sym)
      BY DEF AxisGroup
    <3> HIDE DEF D, L
    <3>2. op.sym \cup {Identity(L)} \subseteq D /\ \A x \in D, g \in op.sym : Compose(x, g) \in D
      BY <2>4, <2>5
    <3> QED BY <3>1, <3>2, <2>4, <1>1, <1>4, DiminoIsLeast
  <2> QED BY <1>6, <2>3, <2>6
<1> QED BY <1>1, <1>7, <1>8

\* A step whose operands are whole is truthful.
LEMMA StepIsTruthful ==
  ASSUME RelabelsKeepSizes, NEW e \in Expressions, Len(e.ops) >= 3,
         NEW S \in SUBSET Positions(e), NEW T \in SUBSET Positions(e),
         S # {}, T # {}, S \cap T = {}, Whole(Step(e, S, T))
  PROVE  Truthful(Step(e, S, T))
<1> DEFINE st == Step(e, S, T)
           a == StepOperand(e, S)
           b == StepOperand(e, T)
<1>1. Shaped(e)
  BY ExpressionFacts
<1>2. /\ st.ops = <<a, b>> /\ st.size = e.size
      /\ st.same = IF Cardinality(S \cup T) = 2 /\ S \cup T \in Copies(e, S \cup T)
                   THEN {{1, 2}} ELSE {}
  BY DEF Step
<1>3. Positions(st) = 1..2
  BY <1>1, StepIsShaped
<1>a. a = StepOperand(e, S)
  OBVIOUS
<1>b. b = StepOperand(e, T)
  OBVIOUS
<1> HIDE DEF a, b, st
<1>4. /\ st.ops[1] = a /\ st.ops[2] = b /\ \A k \in Positions(st) : k = 1 \/ k = 2
      /\ 1 \in Positions(st) /\ 2 \in Positions(st)
  BY <1>2, <1>3
<1>5. a.whole.labels = a.labels /\ b.whole.labels = b.labels
  BY <1>4 DEF Whole, st
<1>6. ASSUME NEW op, op = a \/ op = b
      PROVE  /\ op.whole.labels = op.labels
             /\ op.whole.sym \subseteq Bijection(DOMAIN op.labels, DOMAIN op.labels)
             /\ AxisGroup(op) \subseteq Dimino(DOMAIN op.labels, op.whole.sym)
             /\ \A g \in AxisGroup(op) : \A i \in DOMAIN op.labels :
                  e.size[op.labels[g[i]]] = e.size[op.labels[i]]
  BY <1>5, <1>6, WholeOperandTruthful DEF a, b
<1>7. ASSUME NEW C \in st.same, NEW j \in C, NEW k \in C
      PROVE  /\ st.ops[j].tensor = st.ops[k].tensor
             /\ st.ops[j].whole.sym = st.ops[k].whole.sym
             /\ \A i \in DOMAIN st.ops[j].labels :
                  e.size[st.ops[j].labels[i]] = e.size[st.ops[k].labels[i]]
  <2>1. Cardinality(S \cup T) = 2 /\ S \cup T \in Copies(e, S \cup T) /\ C = {1, 2}
    BY <1>2
  <2>2. \E m, n \in Positions(e) : S = {m} /\ T = {n}
    <3>1. IsFiniteSet(S) /\ IsFiniteSet(T)
      BY <1>1, LabelsFinite
    <3>2. /\ Cardinality(S) \in Nat /\ Cardinality(T) \in Nat
          /\ Cardinality(S) # 0 /\ Cardinality(T) # 0
      BY <3>1, FS_CardinalityType, FS_EmptySet
    <3>3. Cardinality(S \cup T) = Cardinality(S) + Cardinality(T) - Cardinality(S \cap T)
      BY <3>1, FS_Union
    <3>4. Cardinality(S \cap T) = 0
      BY FS_EmptySet
    <3>5. Cardinality(S) = 1 /\ Cardinality(T) = 1
      BY <2>1, <3>2, <3>3, <3>4
    <3>6. (\E m : S = {m}) /\ \E n : T = {n}
      BY <3>1, <3>5, FS_Singleton
    <3> QED BY <3>6
  <2>3. PICK m \in Positions(e), n \in Positions(e) : S = {m} /\ T = {n}
    BY <2>2
  <2>4. PICK D \in e.same : S \cup T \subseteq D
    BY <2>1 DEF Copies
  <2>5. m \in D /\ n \in D
    BY <2>3, <2>4
  <2>6. /\ a.labels = e.ops[m].labels /\ a.tensor = e.ops[m].tensor /\ a.whole.sym = e.ops[m].sym
        /\ b.labels = e.ops[n].labels /\ b.tensor = e.ops[n].tensor /\ b.whole.sym = e.ops[n].sym
    <3>1. \A i : S = {i} => EntryOf(a, e.ops[i])
      BY <1>a, <1>5, WholeOperand
    <3>2. \A i : T = {i} => EntryOf(b, e.ops[i])
      BY <1>b, <1>5, WholeOperand
    <3> QED BY <2>3, <3>1, <3>2 DEF EntryOf
  <2>7. ASSUME NEW p \in D, NEW q \in D
        PROVE  /\ e.ops[p].tensor = e.ops[q].tensor /\ e.ops[p].sym = e.ops[q].sym
               /\ \A i \in DOMAIN e.ops[p].labels :
                    e.size[e.ops[p].labels[i]] = e.size[e.ops[q].labels[i]]
    BY ExpressionFacts
  <2>8. (j = 1 \/ j = 2) /\ (k = 1 \/ k = 2)
    BY <2>1
  <2> DEFINE At1(i) == IF i = 1 THEN m ELSE n
  <2>9. \A i : i = 1 \/ i = 2 =>
          /\ st.ops[i].labels = e.ops[At1(i)].labels /\ st.ops[i].tensor = e.ops[At1(i)].tensor
          /\ st.ops[i].whole.sym = e.ops[At1(i)].sym /\ At1(i) \in D
    BY <1>4, <2>5, <2>6
  <2> HIDE DEF At1
  <2> DEFINE p == At1(j)
             q == At1(k)
  <2>10. /\ st.ops[j].labels = e.ops[p].labels /\ st.ops[j].tensor = e.ops[p].tensor
         /\ st.ops[j].whole.sym = e.ops[p].sym /\ p \in D
         /\ st.ops[k].labels = e.ops[q].labels /\ st.ops[k].tensor = e.ops[q].tensor
         /\ st.ops[k].whole.sym = e.ops[q].sym /\ q \in D
    BY <2>8, <2>9
  <2> HIDE DEF p, q
  <2> QED BY <2>7, <2>10
<1>8. ASSUME NEW k \in Positions(st)
      PROVE  /\ st.ops[k].whole.labels = st.ops[k].labels
             /\ st.ops[k].whole.sym \subseteq Bijection(DOMAIN st.ops[k].labels, DOMAIN st.ops[k].labels)
             /\ AxisGroup(st.ops[k]) \subseteq Dimino(DOMAIN st.ops[k].labels, st.ops[k].whole.sym)
             /\ \A g \in AxisGroup(st.ops[k]) : \A i \in DOMAIN st.ops[k].labels :
                  e.size[st.ops[k].labels[g[i]]] = e.size[st.ops[k].labels[i]]
  <2>1. st.ops[k] = a \/ st.ops[k] = b
    BY <1>4
  <2> QED BY <2>1, <1>6
<1>9. st.size = e.size
  BY <1>2
<1>10. Truthful(st)
  BY <1>7, <1>8, <1>9 DEF Truthful
<1> QED BY <1>10 DEF st

\* So is every contraction that is priced, when its operands are whole.
LEMMA KnownAreTruthful ==
  ASSUME RelabelsKeepSizes, NEW e \in Known, Whole(e)
  PROVE  Truthful(e)
<1>1. ASSUME NEW d \in Expressions, Len(d.ops) >= 3, NEW S \in SUBSET Positions(d),
             NEW T \in SUBSET Positions(d), S # {}, T # {}, S \cap T = {},
             e = Step(d, S, T)
      PROVE  Truthful(e)
  BY <1>1, StepIsTruthful
<1>2. \A d \in Direct : d \in Expressions \/
        \E x \in Expressions : \E S, T \in SUBSET Positions(x) :
          Len(x.ops) >= 3 /\ S # {} /\ T # {} /\ S \cap T = {} /\ d = Step(x, S, T)
  <2> SUFFICES ASSUME NEW d \in Direct, d \notin Expressions
               PROVE  \E x \in Expressions : \E S, T \in SUBSET Positions(x) :
                        Len(x.ops) >= 3 /\ S # {} /\ T # {} /\ S \cap T = {} /\ d = Step(x, S, T)
    OBVIOUS
  <2>1. PICK x \in Expressions : /\ Len(x.ops) >= 3
          /\ d \in {Step(x, p[1], p[2]) :
                       p \in {q \in (SUBSET Positions(x)) \X (SUBSET Positions(x)) :
                                q[1] # {} /\ q[2] # {} /\ q[1] \cap q[2] = {}}}
    BY DEF Direct
  <2>2. PICK p \in (SUBSET Positions(x)) \X (SUBSET Positions(x)) :
          p[1] # {} /\ p[2] # {} /\ p[1] \cap p[2] = {} /\ d = Step(x, p[1], p[2])
    BY <2>1
  <2>3. p[1] \in SUBSET Positions(x) /\ p[2] \in SUBSET Positions(x)
    OBVIOUS
  <2> QED BY <2>1, <2>2, <2>3
<1>3. CASE e \in Direct
  BY <1>1, <1>2, <1>3, ExpressionsAreTruthful
<1>4. CASE e \notin Direct
  <2>1. PICK d \in Direct : e = Residual(d) /\ Len(d.ops) = 2
    BY <1>4 DEF Known, Direct
  <2>2. CASE d \in Expressions
    <3>1. Shaped(d)
      BY <2>2, ExpressionFacts
    <3>2. \A k \in Positions(d) : Isolated(d, k) = {}
      <4> SUFFICES ASSUME NEW k \in Positions(d), Isolated(d, k) # {} PROVE FALSE
        OBVIOUS
      <4> DEFINE old == d.ops[k]
                 red == ReduceOperand(old, Isolated(d, k))
      <4>1. ShapedOperand(old) /\ old.whole.labels = old.labels
        <5>1. old.whole = [labels |-> old.labels, sym |-> old.sym]
          BY <2>2, ExpressionFacts
        <5> QED BY <3>1, <5>1 DEF Shaped
      <4>2. e.ops[k] = red /\ k \in Positions(e)
        <5> DEFINE ops == [i \in Positions(d) |-> IF Isolated(d, i) = {} THEN d.ops[i]
                                                  ELSE ReduceOperand(d.ops[i], Isolated(d, i))]
        <5>1. e = [d EXCEPT !.ops = ops]
          BY <2>1 DEF Residual
        <5>2. d = [ops |-> d.ops, same |-> d.same, out |-> d.out, size |-> d.size]
          BY <3>1 DEF Shaped
        <5>3. ops[k] = red
          OBVIOUS
        <5> HIDE DEF ops
        <5>4. e.ops = ops
          BY <5>1, <5>2
        <5>5. Positions(e) = Positions(d)
          BY <2>1, <3>1, ResidualIsShaped
        <5> QED BY <5>3, <5>4, <5>5
      <4> HIDE DEF old
      <4>3. ToSet(red.labels) = ToSet(old.labels) \ Isolated(d, k) /\ red.whole = old.whole
        BY <4>1, ReducedOperand, WholeIsKept
      <4> HIDE DEF red
      <4>4. red.whole.labels = red.labels
        BY <4>2 DEF Whole
      <4>5. ToSet(old.labels) = ToSet(old.labels) \ Isolated(d, k)
        BY <4>1, <4>3, <4>4
      <4>6. Isolated(d, k) \subseteq ToSet(old.labels)
        BY DEF Isolated, LabelsOf, old
      <4> QED BY <4>5, <4>6
    <3>3. e = d
      BY <2>1, <3>1, <3>2, NothingIsolated
    <3> QED BY <2>2, <3>3, ExpressionsAreTruthful
  <2>3. CASE d \notin Expressions
    <3>1. PICK x \in Expressions : \E S, T \in SUBSET Positions(x) :
            Len(x.ops) >= 3 /\ S # {} /\ T # {} /\ S \cap T = {} /\ d = Step(x, S, T)
      BY <1>2, <2>3
    <3>2. Residual(d) = d
      BY <3>1, ExpressionsAreShaped, StepIsShaped
    <3>3. e = d
      BY <2>1, <3>2
    <3> QED BY <3>1, <3>3, <1>1
  <2> QED BY <2>2, <2>3
<1> QED BY <1>3, <1>4

\* No renaming is detected that changes a product.
LEMMA NothingFalselyDetected ==
  ASSUME RelabelsKeepSizes
  PROVE  FalselyDetected = {}
<1> SUFFICES ASSUME NEW e \in DOMAIN CandidatesOf, Whole(e), NEW pi \in CandidatesOf[e]
             PROVE  HoldsPointwise(e, pi)
  BY DEF FalselyDetected
<1>1. e \in Known /\ Exchangeable(e)
  BY DEF CandidatesOf
<1>2. pi \in Renamings(e)
  BY <1>1, CandidatesAreRenamings
<1>3. Shaped(e) /\ Truthful(e)
  BY <1>1, KnownFacts, KnownAreTruthful
<1> QED BY <1>1, <1>2, <1>3, RenamingHolds

\* Every renaming that is detected, of a contraction, of a step of its path or of what
\* is left of either, leaves every product of whole operands as it is.
THEOREM DetectedRenamingsHold ==
  ASSUME RelabelsKeepSizes
  PROVE  Spec => []DetectedHolds
<1>1. DetectedHolds
  BY NothingFalselyDetected DEF DetectedHolds
<1> QED BY <1>1, PTL
=============================================================================
