-------------------------- MODULE TensorTagsProofs --------------------------
(***************************************************************************)
(* Theorems about the rules of TensorTags: each operation keeps true tags  *)
(* true, whatever the rank, shape, data and group of the array; then that  *)
(* no chain of operations makes a false tag as long as no step was taken   *)
(* whose rule is wrong, that moving axes loses no symmetry, and that every *)
(* tag is a group of the axes its array has.                               *)
(***************************************************************************)
EXTENDS TensorTags, FiniteSetTheorems, FunctionTheorems, TLAPS

-----------------------------------------------------------------------------
(***************************************************************************)
(* Moving axes, flipping, destinations and elementwise functions.          *)
(***************************************************************************)
\* AntiFunction() of an injective function is its inverse.
LEMMA AntiFunctionInverts ==
  ASSUME NEW f, \A a, b \in DOMAIN f : f[a] = f[b] => a = b
  PROVE  /\ AntiFunction(f) \in [Range(f) -> DOMAIN f]
         /\ \A a \in DOMAIN f : AntiFunction(f)[f[a]] = a
         /\ \A b \in Range(f) : f[AntiFunction(f)[b]] = b
<1>1. ASSUME NEW b \in Range(f)
      PROVE  AntiFunction(f)[b] \in DOMAIN f /\ f[AntiFunction(f)[b]] = b
  <2>1. PICK a \in DOMAIN f : f[a] = b
    BY DEF Range
  <2> QED BY <2>1 DEF AntiFunction, Inverse
<1>2. ASSUME NEW a \in DOMAIN f PROVE AntiFunction(f)[f[a]] = a
  <2>1. f[a] \in Range(f)
    BY DEF Range
  <2> QED BY <2>1, <1>1
<1>3. AntiFunction(f) = [b \in Range(f) |-> AntiFunction(f)[b]]
  BY DEF AntiFunction, Inverse
<1> QED BY <1>1, <1>2, <1>3

\* A reordering of the axes and its inverse undo each other.
LEMMA OrderInverts ==
  ASSUME NEW A, NEW order \in Bijection(A, A)
  PROVE  /\ AntiFunction(order) \in [A -> A]
         /\ \A a \in A : AntiFunction(order)[order[a]] = a
         /\ \A a \in A : order[AntiFunction(order)[a]] = a
<1>1. order \in [A -> A] /\ \A a, b \in A : order[a] = order[b] => a = b
  BY DEF Bijection, Injection, IsInjective
<1>2. Range(order) = A
  BY DEF Bijection, Surjection, Range
<1> QED BY <1>1, <1>2, AntiFunctionInverts

\* The index tuples of a shape.
LEMMA CellsOfShape ==
  ASSUME NEW s \in Seq(Nat), NEW c
  PROVE  c \in Cells(s) <=>
           /\ c = [k \in Axes(s) |-> c[k]]
           /\ \A k \in Axes(s) : c[k] \in 0 .. s[k] - 1
<1> DEFINE R == UNION {0 .. s[k] - 1 : k \in Axes(s)}
<1>1. ASSUME c \in Cells(s)
      PROVE  /\ c = [k \in Axes(s) |-> c[k]]
             /\ \A k \in Axes(s) : c[k] \in 0 .. s[k] - 1
  <2>1. c \in [Axes(s) -> R] /\ \A k \in Axes(s) : c[k] < s[k]
    BY <1>1 DEF Cells
  <2>2. ASSUME NEW k \in Axes(s) PROVE c[k] \in 0 .. s[k] - 1
    <3>1. s[k] \in Nat
      BY DEF Axes
    <3>2. c[k] \in Nat
      BY <2>1 DEF Axes
    <3> QED BY <3>1, <3>2, <2>1
  <2> QED BY <2>1, <2>2
<1>2. ASSUME c = [k \in Axes(s) |-> c[k]],
             \A k \in Axes(s) : c[k] \in 0 .. s[k] - 1
      PROVE  c \in Cells(s)
  <2>1. \A k \in Axes(s) : c[k] \in R /\ c[k] < s[k]
    BY <1>2 DEF Axes
  <2>2. c \in [Axes(s) -> R]
    BY <1>2, <2>1
  <2> QED BY <2>1, <2>2 DEF Cells
<1> QED BY <1>1, <1>2

\* A permutation of axes of equal extents maps cells to cells.
LEMMA PermutedCells ==
  ASSUME NEW s \in Seq(Nat), NEW D \in SUBSET Axes(s), NEW p \in [D -> D],
         Permuted(s, p) = s, NEW c \in Cells(s)
  PROVE  Permuted(c, p) \in Cells(s)
<1>1. /\ c = [k \in Axes(s) |-> c[k]]
      /\ \A k \in Axes(s) : c[k] \in 0 .. s[k] - 1
  BY CellsOfShape
<1>2. \A k \in D : s[p[k]] = s[k]
  BY DEF Permuted, Axes
<1>3. Permuted(c, p) = [k \in Axes(s) |-> IF k \in D THEN c[p[k]] ELSE c[k]]
  BY <1>1 DEF Permuted
<1>4. \A k \in Axes(s) : Permuted(c, p)[k] \in 0 .. s[k] - 1
  BY <1>1, <1>2, <1>3
<1>5. Permuted(c, p) = [k \in Axes(s) |-> Permuted(c, p)[k]]
  BY <1>3
<1> HIDE DEF Permuted
<1> QED BY <1>4, <1>5, CellsOfShape

-----------------------------------------------------------------------------
\* remap_group_axes(): a renamed permutation does to the new names what the
\* permutation did to the old ones.
LEMMA RenamedPermutes ==
  ASSUME NEW p, NEW to, \A a, b \in DOMAIN p : to[a] = to[b] => a = b
  PROVE  /\ \A b : b \in DOMAIN Renamed(p, to) <=> \E a \in DOMAIN p : b = to[a]
         /\ \A a \in DOMAIN p : Renamed(p, to)[to[a]] = to[p[a]]
<1> DEFINE f == [a \in DOMAIN p |-> to[a]]
<1>1. /\ AntiFunction(f) \in [Range(f) -> DOMAIN p]
      /\ \A a \in DOMAIN p : AntiFunction(f)[to[a]] = a
  <2>1. DOMAIN f = DOMAIN p /\ \A a \in DOMAIN p : f[a] = to[a]
    OBVIOUS
  <2>2. \A a, b \in DOMAIN f : f[a] = f[b] => a = b
    BY <2>1
  <2> HIDE DEF f
  <2> QED BY <2>1, <2>2, AntiFunctionInverts
<1>2. Range(f) = {to[a] : a \in DOMAIN p}
  BY DEF Range
<1>3. Renamed(p, to)
        = [b \in {to[a] : a \in DOMAIN p} |-> to[p[AntiFunction(f)[b]]]]
  BY <1>1, <1>2 DEF Renamed
<1> QED BY <1>1, <1>3

\* A renamed permutation is a permutation.
LEMMA RenamedInjective ==
  ASSUME NEW p, NEW to, \A a, b \in DOMAIN p : to[a] = to[b] => a = b,
         \A a \in DOMAIN p : p[a] \in DOMAIN p,
         \A a, b \in DOMAIN p : p[a] = p[b] => a = b
  PROVE  \A x, y \in DOMAIN Renamed(p, to) :
           Renamed(p, to)[x] = Renamed(p, to)[y] => x = y
<1>1. /\ \A b : b \in DOMAIN Renamed(p, to) <=> \E a \in DOMAIN p : b = to[a]
      /\ \A a \in DOMAIN p : Renamed(p, to)[to[a]] = to[p[a]]
  BY RenamedPermutes
<1> DEFINE q == Renamed(p, to)
<1>2. SUFFICES ASSUME NEW x \in DOMAIN q, NEW y \in DOMAIN q, q[x] = q[y]
               PROVE  x = y
  OBVIOUS
<1>3. PICK a \in DOMAIN p, b \in DOMAIN p : x = to[a] /\ y = to[b]
  BY <1>1
<1>4. to[p[a]] = to[p[b]]
  BY <1>1, <1>2, <1>3
<1>5. p[a] = p[b]
  BY <1>4
<1> QED BY <1>3, <1>5

\* The shape of the transposed array.
LEMMA TransposedShapes ==
  ASSUME NEW s \in Seq(Nat), NEW order \in Bijection(Axes(s), Axes(s))
  PROVE  /\ TransposedShape(s, order) \in Seq(Nat)
         /\ Axes(TransposedShape(s, order)) = Axes(s)
         /\ \A k \in Axes(s) : TransposedShape(s, order)[k] = s[order[k]]
<1>1. \A k \in Axes(s) : s[order[k]] \in Nat
  BY DEF Axes, Bijection, Injection
<1>2. TransposedShape(s, order) = [k \in 1 .. Len(s) |-> s[order[k]]]
  BY DEF TransposedShape, Axes
<1> QED BY <1>1, <1>2 DEF Axes

\* Each cell of the transposed array is a cell of the array.
LEMMA UnmovedCells ==
  ASSUME NEW s \in Seq(Nat), NEW order \in Bijection(Axes(s), Axes(s)),
         NEW c \in Cells(TransposedShape(s, order))
  PROVE  /\ Unmoved(c, order) \in Cells(s)
         /\ Unmoved(c, order)
              = [a \in Axes(s) |-> c[AntiFunction(order)[a]]]
<1> DEFINE back == AntiFunction(order)
<1>1. back \in [Axes(s) -> Axes(s)] /\ \A a \in Axes(s) : order[back[a]] = a
  BY OrderInverts
<1>2. DOMAIN order = Axes(s)
  BY DEF Bijection, Injection
<1>3. Unmoved(c, order) = [a \in Axes(s) |-> c[back[a]]]
  BY <1>2 DEF Unmoved
<1>4. \A k \in Axes(s) : c[k] \in 0 .. s[order[k]] - 1
  <2> DEFINE t == TransposedShape(s, order)
  <2>1. /\ t \in Seq(Nat) /\ Axes(t) = Axes(s)
        /\ \A k \in Axes(s) : t[k] = s[order[k]]
    BY TransposedShapes
  <2>2. \A k \in Axes(t) : c[k] \in 0 .. t[k] - 1
    <3>1. c \in Cells(t)
      OBVIOUS
    <3> HIDE DEF t
    <3> QED BY <2>1, <3>1, CellsOfShape
  <2> QED BY <2>1, <2>2
<1>5. \A a \in Axes(s) : c[back[a]] \in 0 .. s[a] - 1
  <2> HIDE DEF back
  <2> QED BY <1>1, <1>4
<1>6. Unmoved(c, order) \in Cells(s)
  <2> HIDE DEF back
  <2> QED BY <1>3, <1>5, CellsOfShape
<1> QED BY <1>3, <1>6

-----------------------------------------------------------------------------
\* A symmetry of the data is renamed with the axes.
LEMMA TransposedSymmetry ==
  ASSUME NEW s \in Seq(Nat), NEW val, DOMAIN val = Cells(s),
         NEW D \in SUBSET Axes(s), NEW p \in [D -> D], Symmetric(s, val, p),
         NEW order \in Bijection(Axes(s), Axes(s))
  PROVE  /\ Symmetric(TransposedShape(s, order), TransposedData(s, val, order),
                      Renamed(p, AntiFunction(order)))
         /\ \A E : (\A b : b \in E <=> \E a \in D : b = AntiFunction(order)[a])
                    => Renamed(p, AntiFunction(order)) \in [E -> E]
<1> DEFINE A == Axes(s)
           back == AntiFunction(order)
           q == Renamed(p, back)
           E == {back[a] : a \in D}
           t == TransposedShape(s, order)
<1>1. /\ back \in [A -> A]
      /\ \A a \in A : back[order[a]] = a /\ order[back[a]] = a
  BY OrderInverts
<1>2. order \in [A -> A]
  BY DEF Bijection, Injection
<1>3. DOMAIN q = E /\ \A a \in D : q[back[a]] = back[p[a]]
  <2>1. \A a, b \in A : back[a] = back[b] => a = b
    BY <1>1
  <2>2. DOMAIN p = D /\ \A a, b \in DOMAIN p : back[a] = back[b] => a = b
    BY <2>1
  <2>3. /\ \A b : b \in DOMAIN Renamed(p, back)
                   <=> \E a \in DOMAIN p : b = back[a]
        /\ \A a \in DOMAIN p : Renamed(p, back)[back[a]] = back[p[a]]
    <3> HIDE DEF back
    <3> QED BY <2>2, RenamedPermutes
  <2>4. \A b : b \in DOMAIN q <=> b \in E
    BY <2>2, <2>3
  <2>5. DOMAIN q = E
    <3> HIDE DEF q, E
    <3> QED BY <2>4, Zenon
  <2>6. \A a \in D : q[back[a]] = back[p[a]]
    BY <2>2, <2>3
  <2> QED BY <2>5, <2>6
<1>4. \A k \in A : k \in E <=> order[k] \in D
  <2> HIDE DEF back
  <2> QED BY <1>1, <1>2
<1>5. \A k \in E : q[k] = back[p[order[k]]] /\ q[k] \in E /\ k \in A
  <2> HIDE DEF back, q
  <2> QED BY <1>1, <1>3, <1>4
<1>6. /\ t \in Seq(Nat) /\ Axes(t) = A /\ DOMAIN t = A
      /\ \A k \in A : t[k] = s[order[k]]
  BY TransposedShapes DEF TransposedShape
<1>7. \A a \in D : s[p[a]] = s[a]
  BY DEF Symmetric, Permuted, Axes
<1>8. Permuted(t, q) = t
  <2>1. \A k \in E : t[q[k]] = t[k]
    <3> SUFFICES ASSUME NEW k \in E PROVE t[q[k]] = t[k]
      OBVIOUS
    <3>1. order[k] \in D /\ p[order[k]] \in D /\ k \in A
      BY <1>4, <1>5
    <3>2. order[q[k]] = p[order[k]] /\ q[k] \in A
      <4> HIDE DEF back, q
      <4> QED BY <3>1, <1>1, <1>5
    <3> HIDE DEF t, q
    <3> QED BY <3>1, <3>2, <1>6, <1>7
  <2>2. t = [k \in A |-> t[k]]
    BY <1>6 DEF TransposedShape
  <2> HIDE DEF t, q, E
  <2> QED BY <2>1, <2>2, <1>3, <1>6 DEF Permuted
<1>9. q \in [E -> E]
  BY <1>3, <1>5 DEF Renamed
<1>10. DOMAIN TransposedData(s, val, order) = Cells(t)
  BY DEF TransposedData
<1>11. ASSUME NEW c \in Cells(t)
       PROVE  /\ Permuted(c, q) \in Cells(t)
              /\ val[Unmoved(Permuted(c, q), order)] = val[Unmoved(c, order)]
  <2>1. Permuted(c, q) \in Cells(t)
    <3>1. E \in SUBSET Axes(t)
      BY <1>5, <1>6
    <3> HIDE DEF t, q, E
    <3> QED BY <3>1, <1>6, <1>8, <1>9, PermutedCells
  <2>2. /\ Unmoved(c, order) = [a \in A |-> c[back[a]]]
        /\ Unmoved(c, order) \in Cells(s)
        /\ Unmoved(Permuted(c, q), order) = [a \in A |-> Permuted(c, q)[back[a]]]
    BY <2>1, UnmovedCells
  <2>3. c = [k \in A |-> c[k]]
    <3> HIDE DEF t
    <3> QED BY <1>6, CellsOfShape
  <2>4. \A a \in A : Permuted(c, q)[back[a]]
                       = IF a \in D THEN c[back[p[a]]] ELSE c[back[a]]
    <3>1. \A k \in A : Permuted(c, q)[k] = IF k \in E THEN c[q[k]] ELSE c[k]
      <4> HIDE DEF q, E
      <4> QED BY <2>3, <1>3 DEF Permuted
    <3>2. \A a \in A : back[a] \in A /\ (back[a] \in E <=> a \in D)
      <4> HIDE DEF back, E
      <4> QED BY <1>1, <1>4
    <3> HIDE DEF back, q, E
    <3> QED BY <3>1, <3>2, <1>3
  <2>5. Permuted(Unmoved(c, order), p)
          = [a \in A |-> IF a \in D THEN c[back[p[a]]] ELSE c[back[a]]]
    <3> HIDE DEF back, A
    <3> QED BY <2>2 DEF Permuted, A
  <2>6. Unmoved(Permuted(c, q), order) = Permuted(Unmoved(c, order), p)
    <3> HIDE DEF back, q, A
    <3> QED BY <2>2, <2>4, <2>5
  <2> QED BY <2>1, <2>2, <2>6 DEF Symmetric
<1>12. \A c \in Cells(t) : TransposedData(s, val, order)[Permuted(c, q)]
                             = TransposedData(s, val, order)[c]
  <2>1. \A c \in Cells(t) :
          TransposedData(s, val, order)[c] = val[Unmoved(c, order)]
    BY DEF TransposedData
  <2> HIDE DEF t, q
  <2> QED BY <2>1, <1>11
<1>13. Symmetric(t, TransposedData(s, val, order), q)
  <2> HIDE DEF t, q
  <2> QED BY <1>8, <1>10, <1>12 DEF Symmetric
<1>14. ASSUME NEW F, \A b : b \in F <=> \E a \in D : b = back[a]
       PROVE  q \in [F -> F]
  <2>1. \A b : b \in F <=> b \in E
    BY <1>14
  <2>2. F = E
    <3> HIDE DEF E
    <3> QED BY <2>1, Zenon
  <2> QED BY <1>9, <2>2
<1> QED BY <1>13, <1>14

\* transport_transpose() and its like: a group that is true of an array is, with
\* its axes renamed, true of the array with its axes moved.
THEOREM TransposeKeepsTruth ==
  ASSUME NEW s \in Seq(Nat), NEW val, DOMAIN val = Cells(s),
         NEW g, g # None, WellFormed(g), HoldsFor(g, s, val),
         NEW order \in Bijection(Axes(s), Axes(s))
  PROVE  /\ WellFormed(TransportTranspose(g, order))
         /\ HoldsFor(TransportTranspose(g, order), TransposedShape(s, order),
                     TransposedData(s, val, order))
<1> DEFINE back == AntiFunction(order)
           h == TransportTranspose(g, order)
<1>1. /\ h.axes = [i \in DOMAIN g.axes |-> back[g.axes[i]]]
      /\ h.perms = {Renamed(p, back) : p \in g.perms}
  BY DEF TransportTranspose, Remap
<1>2. Support(g) \subseteq Axes(s) /\ \A p \in g.perms : Symmetric(s, val, p)
  BY DEF HoldsFor
<1>3. Support(h) \subseteq Axes(TransposedShape(s, order))
  <2>1. back \in [Axes(s) -> Axes(s)]
    BY OrderInverts
  <2>2. \A i \in DOMAIN g.axes : g.axes[i] \in Axes(s)
    BY <1>2 DEF Support, Range
  <2>3. Support(h) \subseteq Axes(s)
    <3> HIDE DEF h, back
    <3> QED BY <1>1, <2>1, <2>2 DEF Support, Range
  <2> QED BY <2>3, TransposedShapes
<1>4. h.axes \in Seq(Nat)
  <2>1. back \in [Axes(s) -> Axes(s)] /\ Axes(s) \subseteq Nat
    <3>1. Axes(s) \subseteq Nat
      BY DEF Axes
    <3> QED BY <3>1, OrderInverts
  <2>2. \A i \in DOMAIN g.axes : g.axes[i] \in Axes(s)
    BY <1>2 DEF Support, Range
  <2>3. g.axes \in Seq(Nat)
    BY DEF WellFormed
  <2>4. /\ DOMAIN g.axes = 1 .. Len(g.axes) /\ Len(g.axes) \in Nat
        /\ \A i \in 1 .. Len(g.axes) : back[g.axes[i]] \in Nat
    <3> HIDE DEF back
    <3> QED BY <2>1, <2>2, <2>3
  <2> HIDE DEF h, back
  <2> QED BY <1>1, <2>4
<1>5. \A b : b \in Support(h) <=> \E a \in Support(g) : b = back[a]
  <2> HIDE DEF h, back
  <2> QED BY <1>1 DEF Support, Range
<1>6. ASSUME NEW p \in g.perms
      PROVE  /\ Symmetric(TransposedShape(s, order), TransposedData(s, val, order),
                          Renamed(p, back))
             /\ Renamed(p, back) \in [Support(h) -> Support(h)]
             /\ \A a, b \in Support(h) :
                  Renamed(p, back)[a] = Renamed(p, back)[b] => a = b
  <2>0. \A a, b \in Support(g) : p[a] = p[b] => a = b
    BY DEF WellFormed
  <2>1. p \in [Support(g) -> Support(g)]
    BY DEF WellFormed
  <2>2. Symmetric(TransposedShape(s, order), TransposedData(s, val, order),
                  Renamed(p, back))
    BY <1>2, <2>1, TransposedSymmetry
  <2>3. \A F : (\A b : b \in F <=> \E a \in Support(g) : b = back[a])
                => Renamed(p, back) \in [F -> F]
    BY <1>2, <2>1, TransposedSymmetry
  <2>4. Renamed(p, back) \in [Support(h) -> Support(h)]
    <3> HIDE DEF h, back
    <3> QED BY <1>5, <2>3
  <2>5. \A a, b \in Axes(s) : back[a] = back[b] => a = b
    BY OrderInverts
  <2>6. /\ \A a, b \in DOMAIN p : back[a] = back[b] => a = b
        /\ \A a \in DOMAIN p : p[a] \in DOMAIN p
        /\ \A a, b \in DOMAIN p : p[a] = p[b] => a = b
    <3> HIDE DEF back
    <3> QED BY <1>2, <2>0, <2>1, <2>5
  <2>7. \A x, y \in DOMAIN Renamed(p, back) :
          Renamed(p, back)[x] = Renamed(p, back)[y] => x = y
    <3> HIDE DEF back
    <3> QED BY <2>6, RenamedInjective
  <2> HIDE DEF h, back
  <2> QED BY <2>2, <2>4, <2>7
<1> HIDE DEF back
<1>7. WellFormed(h)
  <2> HIDE DEF h
  <2> QED BY <1>1, <1>4, <1>6 DEF WellFormed
<1>8. HoldsFor(h, TransposedShape(s, order), TransposedData(s, val, order))
  <2> HIDE DEF h
  <2> QED BY <1>1, <1>3, <1>6 DEF HoldsFor
<1> QED BY <1>7, <1>8

\* Naming the values of an array keeps what is equal equal.
LEMMA NamedKeepsEquality ==
  ASSUME NEW val, NEW c \in DOMAIN val, NEW d \in DOMAIN val, val[c] = val[d]
  PROVE  Named(val)[c] = Named(val)[d]
<1> DEFINE graph == {<<x, val[x]>> : x \in DOMAIN val}
<1>1. \A e \in graph : (<<c, e[2]>> \in graph) <=> (<<d, e[2]>> \in graph)
  OBVIOUS
<1>2. (CHOOSE e \in graph : <<c, e[2]>> \in graph)
        = (CHOOSE e \in graph : <<d, e[2]>> \in graph)
  BY <1>1
<1>3. \A x \in DOMAIN val :
        Named(val)[x] = (CHOOSE e \in graph : <<x, e[2]>> \in graph)[1]
  BY DEF Named
<1> HIDE DEF graph
<1> QED BY <1>2, <1>3

-----------------------------------------------------------------------------
\* A tag that is true of the data is true of it with its values named.
LEMMA NamedHolds ==
  ASSUME NEW s \in Seq(Nat), NEW val, DOMAIN val = Cells(s),
         NEW g, WellFormed(g), HoldsFor(g, s, val)
  PROVE  HoldsFor(g, s, Named(val))
<1>1. DOMAIN Named(val) = DOMAIN val
  BY DEF Named
<1>2. ASSUME NEW p \in g.perms PROVE Symmetric(s, Named(val), p)
  <2>1. p \in [Support(g) -> Support(g)] /\ Support(g) \in SUBSET Axes(s)
    BY DEF WellFormed, HoldsFor
  <2>2. Permuted(s, p) = s /\ \A c \in DOMAIN val : val[Permuted(c, p)] = val[c]
    BY DEF HoldsFor, Symmetric
  <2>3. \A c \in DOMAIN val : Permuted(c, p) \in DOMAIN val
    BY <2>1, <2>2, PermutedCells
  <2>4. \A c \in DOMAIN val : Named(val)[Permuted(c, p)] = Named(val)[c]
    BY <2>2, <2>3, NamedKeepsEquality
  <2> QED BY <1>1, <2>2, <2>4 DEF Symmetric
<1> QED BY <1>2 DEF HoldsFor

-----------------------------------------------------------------------------
\* An array whose tag is true: its shape and its data fit each other, and its
\* group is well formed and holds for them.
TrueOf(x) ==
  /\ DOMAIN x = {"shape", "val", "tag", "kind", "sound"}
  /\ x.shape \in Seq(Nat)
  /\ DOMAIN x.val = Cells(x.shape)
  /\ x.kind = "plain" => x.tag = None
  /\ x.tag # None => WellFormed(x.tag) /\ HoldsFor(x.tag, x.shape, x.val)

\* What an operation makes of true symmetry is an array with a true tag.
LEMMA MadeIsTrue ==
  ASSUME NEW s \in Seq(Nat), NEW val, DOMAIN val = Cells(s), NEW sound,
         NEW g, g # None => WellFormed(g) /\ HoldsFor(g, s, val)
  PROVE  TrueOf(Made(s, val, g, sound))
<1>1. DOMAIN Named(val) = Cells(s)
  BY DEF Named
<1>2. g # None => WellFormed(g) /\ HoldsFor(g, s, Named(val))
  BY NamedHolds
<1> QED BY <1>1, <1>2 DEF Made, TrueOf

\* fnp.transpose, swapaxes, moveaxis and matrix_transpose, in any number and
\* order: an array with a true tag becomes an array with a true tag.
THEOREM TransposeKeepsTags ==
  ASSUME TrueOf(array), NEW order \in Bijection(All, All), Transpose(order)
  PROVE  TrueOf(array') /\ EveryTagTrue'
<1> DEFINE t == TransposedShape(array.shape, order)
           data == TransposedData(array.shape, array.val, order)
           h == TransportTranspose(array.tag, order)
<1>1. array' = Made(t, data, h, TRUE /\ array.sound)
  BY DEF Transpose, Makes
<1>2. DOMAIN data = Cells(t) /\ t \in Seq(Nat)
  BY TransposedShapes DEF TransposedData, TrueOf, All
<1>3. CASE array.tag = None
  <2>1. h = None
    BY <1>3 DEF TransportTranspose, Remap
  <2> HIDE DEF h, t, data
  <2> QED BY <1>1, <1>2, <2>1, MadeIsTrue DEF TrueOf, EveryTagTrue
<1>4. CASE array.tag # None
  <2>1. WellFormed(h) /\ HoldsFor(h, t, data)
    BY <1>4, TransposeKeepsTruth DEF TrueOf, All
  <2> HIDE DEF h, t, data
  <2> QED BY <1>1, <1>2, <2>1, MadeIsTrue DEF TrueOf, EveryTagTrue
<1> QED BY <1>3, <1>4

-----------------------------------------------------------------------------
\* transport_flip(): a permutation that maps flipped axes to flipped axes, and
\* kept ones to kept ones, is still a symmetry after the flip.
LEMMA FlippedSymmetry ==
  ASSUME NEW s \in Seq(Nat), NEW val, DOMAIN val = Cells(s),
         NEW D \in SUBSET Axes(s), NEW p \in [D -> D], Symmetric(s, val, p),
         NEW F, \A a \in D : a \in F <=> p[a] \in F
  PROVE  Symmetric(s, FlippedData(s, val, F), p)
<1> DEFINE Mirror(c) == [k \in Axes(s) |-> IF k \in F THEN s[k] - 1 - c[k] ELSE c[k]]
<1>1. /\ \A k \in Axes(s) : s[k] \in Nat
      /\ \A k \in D : s[p[k]] = s[k]
      /\ Permuted(s, p) = s
      /\ \A c \in Cells(s) : val[Permuted(c, p)] = val[c]
  BY DEF Symmetric, Permuted, Axes
<1>2. ASSUME NEW c \in Cells(s)
      PROVE  /\ Permuted(c, p) \in Cells(s)
             /\ Mirror(c) \in Cells(s)
             /\ Mirror(Permuted(c, p)) = Permuted(Mirror(c), p)
  <2>1. /\ c = [k \in Axes(s) |-> c[k]]
        /\ \A k \in Axes(s) : c[k] \in 0 .. s[k] - 1
    BY CellsOfShape
  <2>2. Permuted(c, p) \in Cells(s)
    BY <1>1, PermutedCells
  <2>3. \A k \in Axes(s) : Mirror(c)[k] \in 0 .. s[k] - 1
    BY <1>1, <2>1
  <2>4. Mirror(c) \in Cells(s)
    <3>1. Mirror(c) = [k \in Axes(s) |-> Mirror(c)[k]]
      OBVIOUS
    <3> HIDE DEF Mirror
    <3> QED BY <2>3, <3>1, CellsOfShape
  <2>5. Permuted(c, p) = [k \in Axes(s) |-> IF k \in D THEN c[p[k]] ELSE c[k]]
    BY <2>1 DEF Permuted
  <2>6. Permuted(Mirror(c), p)
          = [k \in Axes(s) |-> IF k \in D THEN Mirror(c)[p[k]] ELSE Mirror(c)[k]]
    BY DEF Permuted
  <2>7. \A k \in Axes(s) : Mirror(Permuted(c, p))[k] = Permuted(Mirror(c), p)[k]
    <3>1. ASSUME NEW k \in D
          PROVE  Mirror(Permuted(c, p))[k] = Permuted(Mirror(c), p)[k]
      <4>1. k \in Axes(s) /\ p[k] \in Axes(s) /\ s[p[k]] = s[k]
        BY <1>1
      <4>2. Permuted(c, p)[k] = c[p[k]] /\ (k \in F <=> p[k] \in F)
        BY <2>5, <4>1
      <4>3. /\ Mirror(Permuted(c, p))[k]
                 = IF k \in F THEN s[k] - 1 - c[p[k]] ELSE c[p[k]]
            /\ Permuted(Mirror(c), p)[k]
                 = IF p[k] \in F THEN s[p[k]] - 1 - c[p[k]] ELSE c[p[k]]
        BY <2>6, <4>1, <4>2
      <4> QED BY <4>1, <4>2, <4>3
    <3>2. ASSUME NEW k \in Axes(s) \ D
          PROVE  Mirror(Permuted(c, p))[k] = Permuted(Mirror(c), p)[k]
      BY <2>5, <2>6
    <3> QED BY <3>1, <3>2
  <2> QED BY <2>2, <2>4, <2>5, <2>6, <2>7
<1>3. /\ DOMAIN FlippedData(s, val, F) = Cells(s)
      /\ \A c \in Cells(s) : FlippedData(s, val, F)[c] = val[Mirror(c)]
  BY DEF FlippedData
<1> HIDE DEF Mirror
<1> QED BY <1>1, <1>2, <1>3 DEF Symmetric

\* fnp.flip: whichever axes are flipped, a true tag becomes a true tag.
THEOREM FlipKeepsTags ==
  ASSUME TrueOf(array), NEW F \in SUBSET All, Flip(F)
  PROVE  TrueOf(array') /\ EveryTagTrue'
<1> DEFINE s == array.shape
           g == array.tag
           data == FlippedData(s, array.val, F)
           h == TransportFlip(g, F)
<1>1. array' = Made(s, data, h, TRUE /\ array.sound)
  BY DEF Flip, Makes
<1>2. DOMAIN data = Cells(s) /\ s \in Seq(Nat)
  BY DEF FlippedData, TrueOf
<1>3. ASSUME h # None
      PROVE  WellFormed(h) /\ HoldsFor(h, s, data)
  <2>1. /\ g # None /\ WellFormed(g) /\ HoldsFor(g, s, array.val)
    BY <1>3 DEF TransportFlip, TrueOf
  <2>2. /\ h.axes = g.axes /\ h.perms \subseteq g.perms
        /\ \/ F \cap Support(g) \in {{}, Support(g)}
           \/ h.perms = Stabilizing(g, F)
    BY <1>3, <2>1 DEF TransportFlip, Group, Stabilizing
  <2>3. Support(h) = Support(g)
    BY <2>2 DEF Support
  <2>4. ASSUME NEW p \in h.perms
        PROVE  Symmetric(s, data, p)
    <3>1. /\ p \in [Support(g) -> Support(g)]
          /\ \A a, b \in Support(g) : p[a] = p[b] => a = b
          /\ Symmetric(s, array.val, p)
      BY <2>1, <2>2 DEF WellFormed, HoldsFor
    <3>2. \A a \in Support(g) : a \in F <=> p[a] \in F
      <4>1. CASE F \cap Support(g) \in {{}, Support(g)}
        <5> HIDE DEF g
        <5> QED BY <3>1, <4>1
      <4>2. CASE h.perms = Stabilizing(g, F)
        <5>1. {p[a] : a \in F \cap Support(g)} = F \cap Support(g)
          BY <4>2 DEF Stabilizing
        <5> HIDE DEF g
        <5> QED BY <3>1, <5>1
      <4> QED BY <2>2, <4>1, <4>2
    <3>3. Support(g) \in SUBSET Axes(s) /\ DOMAIN array.val = Cells(s)
      BY <2>1 DEF HoldsFor, TrueOf
    <3> QED BY <1>2, <3>1, <3>2, <3>3, FlippedSymmetry
  <2>5. Support(h) \subseteq Axes(s)
    BY <2>1, <2>3 DEF HoldsFor
  <2> HIDE DEF h, data
  <2> QED BY <2>1, <2>2, <2>3, <2>4, <2>5 DEF WellFormed, HoldsFor
<1> HIDE DEF h, data, s
<1> QED BY <1>1, <1>2, <1>3, MadeIsTrue DEF TrueOf, EveryTagTrue

-----------------------------------------------------------------------------
\* _prepare_symmetric_out() and _wrap_result(): whatever symmetry a rule claims
\* for a result, right or wrong, a destination (out=) that had a true tag has a
\* true tag after the call, or none: its data is checked before it is tagged.
THEOREM DestinationsKeepTags ==
  ASSUME NEW d, TrueOf(d), NEW op, NEW s, NEW val, DOMAIN val = Cells(s),
         NEW g, g # None => WellFormed(g), Into(op, d, s, val, g)
  PROVE  TrueOf(array') /\ EveryTagTrue'
<1> DEFINE kept == Prepared(d, g)
<1>1. d.shape = s /\ s \in Seq(Nat)
  BY DEF Into, TrueOf
<1>2. PICK finite \in BOOLEAN :
        array' = IF Refuses(d, g) THEN d ELSE Written(d, val, g, finite)
  BY DEF Into
<1>3. kept \in {g, None}
  BY DEF Prepared
<1>4. DOMAIN Named(val) = Cells(s)
  BY DEF Named
<1>5. TrueOf(Written(d, val, g, finite))
  <2> HIDE DEF kept
  <2>1. CASE d.kind = "plain"
    <3>1. Written(d, val, g, finite)
            = [d EXCEPT !.val = Named(val), !.sound = TRUE]
      BY <2>1 DEF Written
    <3> QED BY <2>1, <3>1, <1>1, <1>4 DEF TrueOf
  <2>2. CASE d.kind # "plain" /\ (kept = None \/ ~ finite)
    <3>1. Written(d, val, g, finite)
            = [d EXCEPT !.val = Named(val), !.tag = None, !.sound = TRUE]
      BY <2>2 DEF Written, kept
    <3> QED BY <2>2, <3>1, <1>1, <1>4 DEF TrueOf
  <2>3. CASE d.kind # "plain" /\ kept # None /\ finite
    <3>1. Written(d, val, g, finite)
            = IF HoldsFor(kept, s, val)
                THEN [d EXCEPT !.val = Named(val), !.tag = kept, !.sound = TRUE]
                ELSE d
      BY <2>3, <1>1 DEF Written, kept
    <3>2. CASE HoldsFor(kept, s, val)
      <4>1. WellFormed(kept)
        BY <1>3, <2>3
      <4>2. HoldsFor(kept, s, Named(val))
        BY <1>1, <3>2, <4>1, NamedHolds
      <4> QED BY <2>3, <3>1, <3>2, <4>1, <4>2, <1>1, <1>4 DEF TrueOf
    <3> QED BY <3>1, <3>2
  <2> QED BY <2>1, <2>2, <2>3
<1>6. TrueOf(array')
  BY <1>2, <1>5
<1> QED BY <1>6 DEF TrueOf, EveryTagTrue

\* _counted_unary: with or without a destination, the result of an elementwise
\* function has a true tag if the array and the destinations have.
THEOREM UnaryKeepsTags ==
  ASSUME TrueOf(array), \A d \in Destinations : TrueOf(d), Unary
  PROVE  TrueOf(array') /\ EveryTagTrue'
<1> DEFINE s == array.shape
           g == array.tag
<1>1. /\ s \in Seq(Nat) /\ DOMAIN array.val = Cells(s)
      /\ g # None => WellFormed(g) /\ HoldsFor(g, s, array.val)
  BY DEF TrueOf
<1>2. CASE Makes("unary", s, array.val, g, TRUE)
  <2>1. array' = Made(s, array.val, g, TRUE /\ array.sound)
    BY <1>2 DEF Makes
  <2> QED BY <1>1, <2>1, MadeIsTrue DEF TrueOf, EveryTagTrue
<1>3. CASE \E d \in Destinations \cup {array} : Into("out", d, s, array.val, g)
  <2>1. PICK d \in Destinations \cup {array} : Into("out", d, s, array.val, g)
    BY <1>3
  <2>2. TrueOf(d)
    OBVIOUS
  <2> QED BY <1>1, <2>1, <2>2, DestinationsKeepTags
<1> QED BY <1>2, <1>3 DEF Unary, Delivers

-----------------------------------------------------------------------------
(***************************************************************************)
(* Groups restricted, renumbered and intersected, and data read along      *)
(* axes: repeat, roll, split, concatenate and stack.                       *)
(***************************************************************************)
\* How many of the numbers K are at most a.
Place(K, a) == Cardinality({b \in K : b <= a})

\* A finite set of numbers is numbered by the order of its members.
LEMMA PlacesNumber ==
  ASSUME NEW K \in SUBSET Nat, IsFiniteSet(K)
  PROVE  /\ Cardinality(K) \in Nat
         /\ \A a \in K : Place(K, a) \in 1 .. Cardinality(K)
         /\ \A a, b \in K : a < b => Place(K, a) < Place(K, b)
         /\ \A i \in 1 .. Cardinality(K) : \E a \in K : Place(K, a) = i
<1> DEFINE n == Cardinality(K)
           Low(a) == {b \in K : b <= a}
<1>1. n \in Nat
  BY FS_CardinalityType
<1>2. ASSUME NEW a \in K
      PROVE  IsFiniteSet(Low(a)) /\ Cardinality(Low(a)) \in 1 .. n
  <2>1. Low(a) \in SUBSET K /\ a \in Low(a)
    OBVIOUS
  <2>2. IsFiniteSet(Low(a)) /\ Cardinality(Low(a)) <= n
    <3> HIDE DEF Low
    <3> QED BY <2>1, FS_Subset
  <2>3. Cardinality(Low(a)) \in Nat /\ Cardinality(Low(a)) # 0
    <3> HIDE DEF Low
    <3> QED BY <2>1, <2>2, FS_CardinalityType, FS_EmptySet
  <2> HIDE DEF Low
  <2> QED BY <1>1, <2>2, <2>3
<1>3. ASSUME NEW a \in K, NEW b \in K, a < b
      PROVE  Cardinality(Low(a)) < Cardinality(Low(b))
  <2>0. \A c \in K : c \in Nat
    OBVIOUS
  <2>1. Low(a) \in SUBSET Low(b) /\ b \in Low(b) /\ b \notin Low(a)
    <3>1. a \in Nat /\ b \in Nat /\ a < b
      BY <1>3, <2>0
    <3>2. \A c \in K : c <= a => c <= b
      BY <2>0, <3>1
    <3>3. b <= b /\ ~ (b <= a)
      BY <3>1
    <3> QED BY <3>2, <3>3
  <2>2. /\ Cardinality(Low(a)) <= Cardinality(Low(b))
        /\ Cardinality(Low(b)) # Cardinality(Low(a))
    <3> HIDE DEF Low
    <3> QED BY <1>2, <2>1, FS_Subset
  <2>3. Cardinality(Low(a)) \in 1 .. n /\ Cardinality(Low(b)) \in 1 .. n
    BY <1>2
  <2> HIDE DEF Low
  <2> QED BY <1>1, <2>2, <2>3
<1>4. \A a \in K : Place(K, a) = Cardinality(Low(a))
  BY DEF Place
<1> HIDE DEF Low
<1> DEFINE f == [a \in K |-> Place(K, a)]
<1>5. \A a, b \in K : a # b => Place(K, a) # Place(K, b)
  <2> SUFFICES ASSUME NEW a \in K, NEW b \in K, a # b
               PROVE  Place(K, a) # Place(K, b)
    OBVIOUS
  <2>1. a < b \/ b < a
    OBVIOUS
  <2>2. Place(K, a) \in 1 .. n /\ Place(K, b) \in 1 .. n
    BY <1>2, <1>4
  <2>3. Place(K, a) < Place(K, b) \/ Place(K, b) < Place(K, a)
    BY <2>1, <1>3, <1>4
  <2> QED BY <2>2, <2>3
<1>6. f \in Injection(K, 1 .. n)
  <2>1. f \in [K -> 1 .. n]
    BY <1>2, <1>4
  <2> QED BY <2>1, <1>5 DEF Injection, IsInjective
<1>7. IsFiniteSet(1 .. n) /\ Cardinality(1 .. n) = n
  BY <1>1, FS_Interval
<1>8. f \in Surjection(K, 1 .. n)
  <2> HIDE DEF f
  <2> QED BY <1>6, <1>7, FS_Injection
<1> QED BY <1>1, <1>2, <1>3, <1>4, <1>8 DEF Surjection

\* Removing() renumbers the axes that are left by their order.
LEMMA RemovingNumbers ==
  ASSUME NEW s, Len(s) \in Nat, NEW K
  PROVE  /\ Cardinality(Axes(s) \ K) \in Nat
         /\ Removing(s, K) \in [Axes(s) \ K -> 1 .. Cardinality(Axes(s) \ K)]
         /\ \A a, b \in Axes(s) \ K :
              a < b => Removing(s, K)[a] < Removing(s, K)[b]
         /\ \A a, b \in Axes(s) \ K : Removing(s, K)[a] = Removing(s, K)[b] => a = b
         /\ \A k \in 1 .. Cardinality(Axes(s) \ K) :
              \E a \in Axes(s) \ K : Removing(s, K)[a] = k
<1> DEFINE A == Axes(s) \ K
<1>1. A \in SUBSET Nat /\ IsFiniteSet(A)
  <2>1. IsFiniteSet(Axes(s))
    BY FS_Interval DEF Axes
  <2>2. A \in SUBSET Axes(s) /\ Axes(s) \in SUBSET Nat
    BY DEF Axes
  <2> QED BY <2>1, <2>2, FS_Subset
<1>2. \A a \in A : {b \in 1 .. a : b \notin K} = {b \in A : b <= a}
  BY DEF Axes
<1>3. Removing(s, K) = [a \in A |-> Place(A, a)]
  BY <1>2 DEF Removing, Place
<1>4. /\ Cardinality(A) \in Nat
      /\ \A a \in A : Place(A, a) \in 1 .. Cardinality(A)
      /\ \A a, b \in A : a < b => Place(A, a) < Place(A, b)
      /\ \A i \in 1 .. Cardinality(A) : \E a \in A : Place(A, a) = i
  <2> HIDE DEF A
  <2> QED BY <1>1, PlacesNumber
<1>5. ASSUME NEW a \in A, NEW b \in A, Place(A, a) = Place(A, b)
      PROVE  a = b
  <2> HIDE DEF A
  <2>1. Place(A, a) \in Nat /\ ~ (a < b) /\ ~ (b < a)
    BY <1>4, <1>5
  <2>2. a \in Nat /\ b \in Nat
    BY <1>1
  <2> QED BY <2>1, <2>2
<1>6. /\ Removing(s, K) \in [A -> 1 .. Cardinality(A)]
      /\ \A a \in A : Removing(s, K)[a] = Place(A, a)
  <2> HIDE DEF A
  <2> QED BY <1>3, <1>4
<1>7. \A a, b \in A : a < b => Removing(s, K)[a] < Removing(s, K)[b]
  BY <1>4, <1>6
<1>8. \A a, b \in A : Removing(s, K)[a] = Removing(s, K)[b] => a = b
  BY <1>5, <1>6
<1>9. \A k \in 1 .. Cardinality(A) : \E a \in A : Removing(s, K)[a] = k
  BY <1>4, <1>6
<1> QED BY <1>4, <1>6, <1>7, <1>8, <1>9

\* What is left of a tuple keeps its place among what is left.
LEMMA WithoutKeeps ==
  ASSUME NEW s \in Seq(Nat), NEW K
  PROVE  /\ Without(s, K) \in Seq(Nat)
         /\ Len(Without(s, K)) = Cardinality(Axes(s) \ K)
         /\ Axes(Without(s, K)) = 1 .. Cardinality(Axes(s) \ K)
         /\ \A a \in Axes(s) \ K : /\ Removing(s, K)[a] \in Axes(Without(s, K))
                                   /\ Without(s, K)[Removing(s, K)[a]] = s[a]
<1> DEFINE A == Axes(s) \ K
           n == Cardinality(A)
           r == Removing(s, K)
           At(k) == CHOOSE a \in A : r[a] = k
<1>0. Len(s) \in Nat
  OBVIOUS
<1>1. /\ n \in Nat /\ r \in [A -> 1 .. n]
      /\ \A a, b \in A : r[a] = r[b] => a = b
      /\ \A k \in 1 .. n : \E a \in A : r[a] = k
  BY <1>0, RemovingNumbers
<1>2. Without(s, K) = [k \in 1 .. n |-> s[At(k)]]
  BY <1>1 DEF Without
<1>3. \A k \in 1 .. n : At(k) \in A /\ r[At(k)] = k
  BY <1>1
<1>4. \A a \in A : At(r[a]) = a
  BY <1>1, <1>3
<1>5. \A a \in A : s[a] \in Nat
  BY DEF Axes
<1> HIDE DEF A, n, r, At
<1>6. Without(s, K) \in Seq(Nat) /\ Len(Without(s, K)) = n
  <2>1. \A k \in 1 .. n : s[At(k)] \in Nat
    BY <1>3, <1>5
  <2> QED BY <1>1, <1>2, <2>1
<1>7. \A a \in A : r[a] \in 1 .. n /\ Without(s, K)[r[a]] = s[a]
  BY <1>1, <1>2, <1>4
<1> QED BY <1>6, <1>7 DEF Axes, A, n, r

-----------------------------------------------------------------------------
\* What is left of a group that acts on the axes K.
LEMMA ProjectFits ==
  ASSUME NEW g, WellFormed(g), NEW perms \in SUBSET g.perms,
         NEW K \in SUBSET Support(g), \A p \in perms : \A a \in K : p[a] \in K,
         NEW h, h = Project(g, perms, K), h # None
  PROVE  /\ WellFormed(h)
         /\ \A a : a \in Support(h) <=> a \in K
         /\ \A q \in h.perms : \E p \in perms : q = [a \in K |-> p[a]]
<1> DEFINE N == {i \in DOMAIN g.axes : g.axes[i] \notin K}
           t == Without(g.axes, N)
           r == Removing(g.axes, N)
<1>1. h.axes = t /\ h.perms = {Restrict(p, K) : p \in perms}
  BY DEF Project, Group
<1>2. g.axes \in Seq(Nat) /\ DOMAIN g.axes = Axes(g.axes)
  BY DEF WellFormed, Axes
<1>3. /\ t \in Seq(Nat)
      /\ \A i \in Axes(g.axes) \ N : r[i] \in Axes(t) /\ t[r[i]] = g.axes[i]
      /\ \A k \in Axes(t) : \E i \in Axes(g.axes) \ N : r[i] = k
  <2>1. Len(g.axes) \in Nat
    BY <1>2
  <2> DEFINE A == Axes(g.axes) \ N
  <2>2. /\ t \in Seq(Nat) /\ Axes(t) = 1 .. Cardinality(A)
        /\ \A i \in A : r[i] \in Axes(t) /\ t[r[i]] = g.axes[i]
    <3> HIDE DEF N
    <3> QED BY <1>2, WithoutKeeps
  <2>3. \A k \in 1 .. Cardinality(A) : \E i \in A : r[i] = k
    <3> HIDE DEF N
    <3> QED BY <2>1, RemovingNumbers
  <2> HIDE DEF t, r, A
  <2> QED BY <2>2, <2>3 DEF A
<1>4. ASSUME NEW a PROVE a \in Support(h) <=> a \in K
  <2>1. ASSUME a \in K PROVE a \in Support(h)
    <3>1. PICK i \in DOMAIN g.axes : g.axes[i] = a
      BY <2>1 DEF Support, Range
    <3>2. i \in Axes(g.axes) \ N
      BY <1>2, <2>1, <3>1
    <3>3. r[i] \in Axes(t) /\ t[r[i]] = a
      BY <1>3, <3>1, <3>2
    <3>4. DOMAIN t = Axes(t)
      BY <1>3 DEF Axes
    <3> HIDE DEF t, r
    <3> QED BY <1>1, <3>3, <3>4 DEF Support, Range
  <2>2. ASSUME a \in Support(h) PROVE a \in K
    <3>1. DOMAIN t = Axes(t)
      BY <1>3 DEF Axes
    <3>2. PICK k \in Axes(t) : t[k] = a
      <4> HIDE DEF t
      <4> QED BY <1>1, <2>2, <3>1 DEF Support, Range
    <3>3. PICK i \in Axes(g.axes) \ N : r[i] = k
      BY <1>3
    <3>4. g.axes[i] = a /\ g.axes[i] \in K
      BY <1>2, <1>3, <3>2, <3>3
    <3> QED BY <3>4
  <2> QED BY <2>1, <2>2
<1>5. \A q \in h.perms : \E p \in perms : q = [a \in K |-> p[a]]
  BY <1>1 DEF Restrict
<1>6. Support(h) = K
  BY <1>4
<1>7. ASSUME NEW q \in h.perms
      PROVE  /\ q \in [K -> K]
             /\ \A a, b \in K : q[a] = q[b] => a = b
  <2>1. PICK p \in perms : q = [a \in K |-> p[a]]
    BY <1>5
  <2>2. \A a, b \in Support(g) : p[a] = p[b] => a = b
    BY DEF WellFormed
  <2> QED BY <2>1, <2>2
<1>8. h.axes \in Seq(Nat)
  BY <1>1, <1>3
<1> QED BY <1>4, <1>5, <1>6, <1>7, <1>8 DEF WellFormed

\* q does to the axes to[a] what p does to the axes a of D.
Carries(D, to, p, q) ==
  /\ \A b : b \in DOMAIN q <=> \E a \in D : b = to[a]
  /\ \A a \in D : q[to[a]] = to[p[a]]

\* remap_group_axes() of a group whose axes get different names.
LEMMA RemapFits ==
  ASSUME NEW g, WellFormed(g), NEW n \in Nat,
         NEW to, \A a \in Support(g) : to[a] \in 1 .. n,
         \A a, b \in Support(g) : to[a] = to[b] => a = b,
         NEW h, h = Remap(g, to), h # None
  PROVE  /\ WellFormed(h)
         /\ \A b : b \in Support(h) <=> \E a \in Support(g) : b = to[a]
         /\ \A q \in h.perms : \E p \in g.perms : Carries(Support(g), to, p, q)
<1>1. /\ h.axes = [i \in DOMAIN g.axes |-> to[g.axes[i]]]
      /\ h.perms = {Renamed(p, to) : p \in g.perms}
  BY DEF Remap
<1>2. \A b : b \in Support(h) <=> \E a \in Support(g) : b = to[a]
  BY <1>1 DEF Support, Range
<1>3. h.axes \in Seq(Nat)
  <2>1. /\ DOMAIN g.axes = 1 .. Len(g.axes) /\ Len(g.axes) \in Nat
        /\ \A i \in DOMAIN g.axes : g.axes[i] \in Support(g)
    BY DEF WellFormed, Support, Range
  <2>2. \A i \in 1 .. Len(g.axes) : to[g.axes[i]] \in Nat
    BY <2>1
  <2> QED BY <1>1, <2>1, <2>2
<1>4. ASSUME NEW p \in g.perms
      PROVE  /\ Carries(Support(g), to, p, Renamed(p, to))
             /\ Renamed(p, to) \in [Support(h) -> Support(h)]
             /\ \A a, b \in Support(h) :
                  Renamed(p, to)[a] = Renamed(p, to)[b] => a = b
  <2> DEFINE q == Renamed(p, to)
  <2>1. /\ p \in [Support(g) -> Support(g)]
        /\ \A a, b \in Support(g) : p[a] = p[b] => a = b
    BY DEF WellFormed
  <2>2. /\ \A b : b \in DOMAIN q <=> \E a \in Support(g) : b = to[a]
        /\ \A a \in Support(g) : q[to[a]] = to[p[a]]
    BY <2>1, RenamedPermutes
  <2>3. \A x, y \in DOMAIN q : q[x] = q[y] => x = y
    BY <2>1, RenamedInjective
  <2>4. DOMAIN q = Support(h)
    <3>1. \A b : b \in DOMAIN q <=> b \in Support(h)
      BY <1>2, <2>2
    <3> HIDE DEF q
    <3> QED BY <3>1
  <2>5. \A b \in Support(h) : q[b] \in Support(h)
    <3> HIDE DEF q
    <3> QED BY <1>2, <2>1, <2>2
  <2>6. q = [b \in DOMAIN q |-> q[b]]
    BY DEF Renamed
  <2>7. q \in [Support(h) -> Support(h)]
    <3> HIDE DEF q
    <3> QED BY <2>4, <2>5, <2>6
  <2> HIDE DEF q
  <2> QED BY <2>2, <2>3, <2>4, <2>7 DEF Carries, q
<1>5. WellFormed(h)
  BY <1>1, <1>3, <1>4 DEF WellFormed
<1> QED BY <1>1, <1>2, <1>4, <1>5

-----------------------------------------------------------------------------
\* Every cell of shape out is read from a cell of shape s.  Index a of what is read
\* depends on index to[a] of the cell alone where a is in A, and is fixed elsewhere;
\* axes that p exchanges are read alike.
Reads(s, out, A, to, p, from) ==
  /\ \A c \in Cells(out) : from[c] \in Cells(s)
  /\ \A c, d \in Cells(out) : \A a \in Axes(s) \ A :
       from[c][a] = from[d][a] /\ (a \in DOMAIN p => from[c][a] = from[d][p[a]])
  /\ \A c, d \in Cells(out) : \A a \in A :
       /\ c[to[a]] = d[to[a]] => from[c][a] = from[d][a]
       /\ a \in DOMAIN p /\ c[to[a]] = d[to[p[a]]] => from[c][a] = from[d][p[a]]

\* The axes that are read are exchanged among themselves, and have equal extents.
Keeps(out, D, A, to, p) ==
  /\ \A a \in D : a \in A <=> p[a] \in A
  /\ \A a \in D \cap A : out[to[p[a]]] = out[to[a]]

\* The axes A of shape s become the axes to[a] of shape out.
Moves(s, out, A, to) ==
  /\ s \in Seq(Nat) /\ out \in Seq(Nat) /\ A \in SUBSET Axes(s)
  /\ \A a \in A : to[a] \in Axes(out)
  /\ \A a, b \in A : to[a] = to[b] => a = b

\* Permutation p of axes D, a symmetry of one array, and what it becomes in another.
Becomes(s, val, out, data, D, E, p, q) ==
  /\ DOMAIN val = Cells(s) /\ DOMAIN data = Cells(out)
  /\ D \in SUBSET Axes(s) /\ p \in [D -> D] /\ Symmetric(s, val, p)
  /\ E \in SUBSET Axes(out) /\ q \in [E -> E]

\* A symmetry of an array is, with its axes renamed, one of what is read from it.
LEMMA ReadSymmetry ==
  ASSUME NEW s, NEW val, NEW out, NEW data, NEW D, NEW E, NEW p, NEW q,
         NEW A, NEW to, NEW from,
         Moves(s, out, A, to), Becomes(s, val, out, data, D, E, p, q),
         Keeps(out, D, A, to, p), Carries(D \cap A, to, p, q),
         Reads(s, out, A, to, p, from), \A c \in Cells(out) : data[c] = val[from[c]]
  PROVE  Symmetric(out, data, q)
<1> SUFFICES ASSUME s \in Seq(Nat), out \in Seq(Nat), A \in SUBSET Axes(s),
                    \A a \in A : to[a] \in Axes(out),
                    \A a, b \in A : to[a] = to[b] => a = b,
                    DOMAIN val = Cells(s), DOMAIN data = Cells(out),
                    D \in SUBSET Axes(s), p \in [D -> D], Symmetric(s, val, p),
                    E \in SUBSET Axes(out), q \in [E -> E]
             PROVE  Symmetric(out, data, q)
  BY DEF Moves, Becomes
<1>1. /\ \A b : b \in E <=> \E a \in D \cap A : b = to[a]
      /\ \A a \in D \cap A : q[to[a]] = to[p[a]]
      /\ \A a \in D \cap A : p[a] \in D \cap A /\ out[to[p[a]]] = out[to[a]]
  BY DEF Carries, Keeps
<1>2. Permuted(out, q) = out
  <2>1. \A b \in E : out[q[b]] = out[b]
    BY <1>1
  <2>2. DOMAIN out = Axes(out)
    BY DEF Axes
  <2>3. out = [b \in DOMAIN out |-> out[b]]
    OBVIOUS
  <2> QED BY <2>1, <2>2, <2>3 DEF Permuted
<1>3. ASSUME NEW c \in Cells(out)
      PROVE  Permuted(c, q) \in Cells(out) /\ data[Permuted(c, q)] = data[c]
  <2> DEFINE d == Permuted(c, q)
  <2>1. d \in Cells(out)
    BY <1>2, PermutedCells
  <2>2. \A b \in Axes(out) : d[b] = IF b \in E THEN c[q[b]] ELSE c[b]
    <3>1. c = [b \in Axes(out) |-> c[b]]
      BY CellsOfShape
    <3> QED BY <3>1 DEF Permuted
  <2>3. from[c] \in Cells(s) /\ from[d] \in Cells(s)
    <3> HIDE DEF d
    <3> QED BY <2>1 DEF Reads
  <2>4. /\ from[c] = [a \in Axes(s) |-> from[c][a]]
        /\ from[d] = [a \in Axes(s) |-> from[d][a]]
    <3> HIDE DEF d
    <3> QED BY <2>3, CellsOfShape
  <2>5. ASSUME NEW a \in Axes(s)
        PROVE  from[d][a] = IF a \in D THEN from[c][p[a]] ELSE from[c][a]
    <3>1. CASE a \notin A
      <4>1. from[d][a] = from[c][a] /\ (a \in D => from[d][a] = from[c][p[a]])
        <5> HIDE DEF d
        <5> QED BY <2>1, <3>1 DEF Reads
      <4> QED BY <4>1
    <3>2. CASE a \in A /\ a \in D
      <4>1. to[a] \in E /\ q[to[a]] = to[p[a]] /\ to[a] \in Axes(out)
        BY <1>1, <3>2
      <4>2. d[to[a]] = c[to[p[a]]]
        <5> HIDE DEF d
        <5> QED BY <2>2, <4>1
      <4>3. from[d][a] = from[c][p[a]]
        <5> HIDE DEF d
        <5> QED BY <2>1, <3>2, <4>2 DEF Reads
      <4> QED BY <3>2, <4>3
    <3>3. CASE a \in A /\ a \notin D
      <4>0. \A b \in A : to[a] = to[b] => a = b
        BY <3>3
      <4>1. to[a] \notin E /\ to[a] \in Axes(out)
        BY <1>1, <3>3, <4>0
      <4>2. d[to[a]] = c[to[a]]
        <5> HIDE DEF d
        <5> QED BY <2>2, <4>1
      <4>3. from[d][a] = from[c][a]
        <5> HIDE DEF d
        <5> QED BY <2>1, <3>3, <4>2 DEF Reads
      <4> QED BY <3>3, <4>3
    <3> QED BY <3>1, <3>2, <3>3
  <2>6. Permuted(from[c], p)
          = [a \in Axes(s) |-> IF a \in D THEN from[c][p[a]] ELSE from[c][a]]
    BY <2>4 DEF Permuted
  <2>7. from[d] = Permuted(from[c], p)
    <3> HIDE DEF d
    <3>1. [a \in Axes(s) |-> from[d][a]]
            = [a \in Axes(s) |-> IF a \in D THEN from[c][p[a]] ELSE from[c][a]]
      BY <2>5
    <3> QED BY <2>4, <2>6, <3>1
  <2>8. val[from[d]] = val[from[c]]
    <3> HIDE DEF d
    <3> QED BY <2>3, <2>7 DEF Symmetric
  <2> HIDE DEF d
  <2> QED BY <2>1, <2>8 DEF d
<1> QED BY <1>2, <1>3 DEF Symmetric

\* The data of an array of shape out is read from one of shape s.
IsRead(s, val, out, data, from) ==
  /\ DOMAIN val = Cells(s) /\ DOMAIN data = Cells(out)
  /\ \A c \in Cells(out) : data[c] = val[from[c]]

\* Every permutation of h is one of g with its axes renamed.
Derives(s, out, A, to, from, g, h) ==
  \A q \in h.perms : \E p \in g.perms : /\ Carries(Support(g) \cap A, to, p, q)
                                        /\ Keeps(out, Support(g), A, to, p)
                                        /\ Reads(s, out, A, to, p, from)

\* The same of a group.
LEMMA ReadHolds ==
  ASSUME NEW s, NEW val, NEW out, NEW data, NEW A, NEW to, NEW from, NEW g, NEW h,
         Moves(s, out, A, to), IsRead(s, val, out, data, from),
         Derives(s, out, A, to, from, g, h), WellFormed(g), HoldsFor(g, s, val),
         WellFormed(h), Support(h) \subseteq Axes(out)
  PROVE  HoldsFor(h, out, data)
<1>1. ASSUME NEW q \in h.perms PROVE Symmetric(out, data, q)
  <2>1. PICK p \in g.perms : /\ Carries(Support(g) \cap A, to, p, q)
                             /\ Keeps(out, Support(g), A, to, p)
                             /\ Reads(s, out, A, to, p, from)
    BY DEF Derives
  <2>2. Becomes(s, val, out, data, Support(g), Support(h), p, q)
    BY DEF Becomes, WellFormed, HoldsFor, IsRead
  <2>3. \A c \in Cells(out) : data[c] = val[from[c]]
    BY DEF IsRead
  <2> QED BY <2>1, <2>2, <2>3, ReadSymmetry
<1> QED BY <1>1 DEF HoldsFor

-----------------------------------------------------------------------------
\* Where a permutation of some axes takes an axis.
Image(p, k) == IF k \in DOMAIN p THEN p[k] ELSE k

\* Permutations of some of n axes that do the same.
Alike(p, q, n) == \A k \in 1 .. n : Image(p, k) = Image(q, k)

\* What h exchanges, g exchanges.
Within(h, g, n) == \A q \in h.perms : \E p \in g.perms : Alike(p, q, n)

\* Permutations that do the same are symmetries of the same arrays.
LEMMA AlikeSymmetric ==
  ASSUME NEW s \in Seq(Nat), NEW val, DOMAIN val = Cells(s), NEW p, NEW q,
         Alike(p, q, Len(s)), Symmetric(s, val, p)
  PROVE  Symmetric(s, val, q)
<1>1. ASSUME NEW c, DOMAIN c = Axes(s) PROVE Permuted(c, p) = Permuted(c, q)
  <2>1. \A k \in Axes(s) : c[Image(p, k)] = c[Image(q, k)]
    BY DEF Alike, Axes
  <2>2. /\ Permuted(c, p) = [k \in Axes(s) |-> c[Image(p, k)]]
        /\ Permuted(c, q) = [k \in Axes(s) |-> c[Image(q, k)]]
    <3>1. /\ \A k \in Axes(s) : (IF k \in DOMAIN p THEN c[p[k]] ELSE c[k]) = c[Image(p, k)]
          /\ \A k \in Axes(s) : (IF k \in DOMAIN q THEN c[q[k]] ELSE c[k]) = c[Image(q, k)]
      BY DEF Image
    <3> QED BY <1>1, <3>1 DEF Permuted
  <2>3. [k \in Axes(s) |-> c[Image(p, k)]] = [k \in Axes(s) |-> c[Image(q, k)]]
    BY <2>1
  <2> QED BY <2>2, <2>3
<1>2. DOMAIN s = Axes(s)
  BY DEF Axes
<1>3. \A c \in Cells(s) : DOMAIN c = Axes(s)
  BY DEF Cells
<1>4. Permuted(s, q) = s
  BY <1>1, <1>2 DEF Symmetric
<1>5. \A c \in DOMAIN val : val[Permuted(c, q)] = val[c]
  BY <1>1, <1>3 DEF Symmetric
<1> QED BY <1>4, <1>5 DEF Symmetric

\* A group within one that holds for an array holds for it.
LEMMA WithinHolds ==
  ASSUME NEW s \in Seq(Nat), NEW val, DOMAIN val = Cells(s),
         NEW g, HoldsFor(g, s, val),
         NEW h, Support(h) \subseteq Axes(s), Within(h, g, Len(s))
  PROVE  HoldsFor(h, s, val)
<1>1. ASSUME NEW q \in h.perms PROVE Symmetric(s, val, q)
  BY AlikeSymmetric DEF HoldsFor, Within
<1> QED BY <1>1 DEF HoldsFor

\* restrict() of permutations that leave the other axes where they are.
LEMMA ProjectWithin ==
  ASSUME NEW g, WellFormed(g), NEW n \in Nat, NEW perms \in SUBSET g.perms,
         NEW K \in SUBSET Support(g), \A p \in perms : \A a \in K : p[a] \in K,
         \A p \in perms : \A a \in Support(g) \ K : p[a] = a,
         NEW h, h = Project(g, perms, K), h # None
  PROVE  Within(h, g, n)
<1>1. ASSUME NEW q \in h.perms PROVE \E p \in g.perms : Alike(p, q, n)
  <2>0. \A f \in h.perms : \E p \in perms : f = [a \in K |-> p[a]]
    BY DEF Project, Group, Restrict
  <2>1. PICK p \in perms : q = [a \in K |-> p[a]]
    BY <2>0
  <2>2. p \in g.perms /\ DOMAIN p = Support(g)
    BY DEF WellFormed
  <2>3. \A k : Image(p, k) = Image(q, k)
    BY <2>1, <2>2 DEF Image
  <2> QED BY <2>2, <2>3 DEF Alike
<1> QED BY <1>1 DEF Within

\* The permutations of a group that map all axes but one to themselves.
Sparing(g, a) == RestrictTo(g, Support(g) \ {a})

\* restrict_group_to_axes() to all axes but one, which therefore stays.
LEMMA SparingFits ==
  ASSUME NEW g, g # None, NEW n \in Nat, Fits(g, n), NEW a, Sparing(g, a) # None
  PROVE  /\ WellFormed(Sparing(g, a)) /\ Support(Sparing(g, a)) \subseteq Support(g)
         /\ a \notin Support(Sparing(g, a)) /\ Within(Sparing(g, a), g, n)
<1> DEFINE h == Sparing(g, a)
<1>0. h = RestrictTo(g, Support(g) \ {a}) /\ h # None /\ WellFormed(g)
  BY DEF Sparing, Fits
<1> HIDE DEF h
<1> DEFINE K == Support(g) \ {a}
           perms == Stabilizing(g, K)
<1>1. /\ h = Project(g, perms, K) /\ K \cap Support(g) = K
      /\ perms \in SUBSET g.perms /\ K \in SUBSET Support(g)
  BY <1>0 DEF RestrictTo, Stabilizing
<1>2. ASSUME NEW p \in perms
      PROVE  /\ \A b \in K : p[b] \in K
             /\ \A b \in Support(g) \ K : p[b] = b
  <2>1. {p[b] : b \in K} = K
    BY <1>1 DEF Stabilizing
  <2>2. /\ p \in [Support(g) -> Support(g)]
        /\ \A b, c \in Support(g) : p[b] = p[c] => b = c
    BY <1>0, <1>1 DEF WellFormed
  <2>3. \A b \in K : p[b] \in K
    BY <2>1
  <2>4. ASSUME NEW b \in Support(g) \ K PROVE p[b] = b
    <3>1. b = a /\ p[b] \in Support(g)
      BY <2>2
    <3>2. CASE p[b] \in K
      <4>1. PICK c \in K : p[c] = p[b]
        BY <2>1, <3>2
      <4> QED BY <2>2, <4>1
    <3> QED BY <3>1, <3>2
  <2> QED BY <2>3, <2>4
<1> HIDE DEF K, perms
<1>3. /\ WellFormed(h)
      /\ \A b : b \in Support(h) <=> b \in K
  BY <1>0, <1>1, <1>2, ProjectFits
<1>4. Within(h, g, n)
  BY <1>0, <1>1, <1>2, ProjectWithin
<1> QED BY <1>3, <1>4 DEF K, h

\* intersect_groups() keeps what both groups exchange.
LEMMA IntersectFits ==
  ASSUME NEW g, g # None, WellFormed(g), NEW n \in Nat, Support(g) \subseteq 1 .. n,
         NEW h, h # None, WellFormed(h), Support(h) \subseteq 1 .. n,
         NEW r, r = Intersect(g, h, n), r # None
  PROVE  /\ WellFormed(r) /\ Support(r) \subseteq 1 .. n
         /\ Within(r, g, n) /\ Within(r, h, n)
<1>1. CASE g.axes = h.axes
  <2>1. r.axes = g.axes /\ r.perms = g.perms \cap h.perms
    BY <1>1 DEF Intersect, Group
  <2>2. Support(r) = Support(g)
    BY <2>1 DEF Support
  <2>3. Within(r, g, n) /\ Within(r, h, n)
    BY <2>1 DEF Within, Alike
  <2> QED BY <2>1, <2>2, <2>3 DEF WellFormed
<1>2. CASE g.axes # h.axes
  <2>1. /\ r.axes = [a \in 1 .. n |-> a]
        /\ r.perms = {Embed(p, n) : p \in g.perms} \cap {Embed(p, n) : p \in h.perms}
    BY <1>2 DEF Intersect, Group
  <2>2. Support(r) = 1 .. n /\ r.axes \in Seq(Nat)
    BY <2>1 DEF Support, Range
  <2>3. ASSUME NEW f, WellFormed(f), Support(f) \subseteq 1 .. n, NEW p \in f.perms
        PROVE  /\ Alike(p, Embed(p, n), n)
               /\ Embed(p, n) \in [1 .. n -> 1 .. n]
               /\ \A a, b \in 1 .. n : Embed(p, n)[a] = Embed(p, n)[b] => a = b
    <3>1. /\ p \in [Support(f) -> Support(f)]
          /\ \A a, b \in Support(f) : p[a] = p[b] => a = b
      BY <2>3 DEF WellFormed
    <3>2. \A a \in 1 .. n : Embed(p, n)[a] = IF a \in Support(f) THEN p[a] ELSE a
      BY <3>1 DEF Embed
    <3>3. Alike(p, Embed(p, n), n)
      BY <3>1 DEF Alike, Image, Embed
    <3>4. DOMAIN Embed(p, n) = 1 .. n /\ Embed(p, n) = [a \in 1 .. n |-> Embed(p, n)[a]]
      BY DEF Embed
    <3>5. \A a \in 1 .. n : Embed(p, n)[a] \in 1 .. n
      BY <2>3, <3>1, <3>2
    <3>6. \A a, b \in 1 .. n : Embed(p, n)[a] = Embed(p, n)[b] => a = b
      BY <3>1, <3>2
    <3> QED BY <3>3, <3>4, <3>5, <3>6
  <2>4. ASSUME NEW q \in r.perms
        PROVE  /\ q \in [1 .. n -> 1 .. n]
               /\ \A a, b \in 1 .. n : q[a] = q[b] => a = b
               /\ \E p \in g.perms : Alike(p, q, n)
               /\ \E p \in h.perms : Alike(p, q, n)
    <3>1. PICK p1 \in g.perms, p2 \in h.perms : q = Embed(p1, n) /\ q = Embed(p2, n)
      BY <2>1
    <3> QED BY <2>3, <3>1
  <2>5. WellFormed(r)
    <3>1. Support(r) = 1 .. n
      BY <2>2
    <3>2. ASSUME NEW q \in r.perms
          PROVE  /\ q \in [Support(r) -> Support(r)]
                 /\ \A a, b \in Support(r) : q[a] = q[b] => a = b
      BY <2>4, <3>1, ZenonT(60)
    <3> QED BY <2>2, <3>2 DEF WellFormed
  <2>6. Within(r, g, n) /\ Within(r, h, n)
    BY <2>4 DEF Within
  <2> QED BY <2>2, <2>5, <2>6
<1> QED BY <1>1, <1>2

-----------------------------------------------------------------------------
\* The axes a group exchanges have one extent.
LEMMA ExtentsAgree ==
  ASSUME NEW s \in Seq(Nat), NEW val, NEW g, WellFormed(g), HoldsFor(g, s, val),
         NEW p \in g.perms, NEW a \in Support(g)
  PROVE  p[a] \in Support(g) /\ s[p[a]] = s[a]
<1>1. p \in [Support(g) -> Support(g)] /\ Support(g) \subseteq Axes(s)
  BY DEF WellFormed, HoldsFor
<1>2. Permuted(s, p) = s
  BY DEF HoldsFor, Symmetric
<1> QED BY <1>1, <1>2 DEF Permuted, Axes

\* What is read along the axes A is read alike along the axes that g exchanges, and
\* these keep having one extent.
ReadsAlike(s, out, A, to, from, g) ==
  /\ Support(g) \subseteq A
  /\ \A p \in g.perms : Reads(s, out, A, to, p, from)
  /\ \A p \in g.perms : \A a \in Support(g) : out[to[p[a]]] = out[to[a]]

\* A group with its axes renamed holds for what is read along them.
LEMMA RemapHolds ==
  ASSUME NEW s, NEW val, NEW out, NEW data, NEW A, NEW to, NEW from, NEW g, NEW h,
         Moves(s, out, A, to), IsRead(s, val, out, data, from),
         ReadsAlike(s, out, A, to, from, g), WellFormed(g), HoldsFor(g, s, val),
         h = Remap(g, to), h # None
  PROVE  HoldsFor(h, out, data)
<1>1. /\ s \in Seq(Nat) /\ out \in Seq(Nat) /\ A \in SUBSET Axes(s)
      /\ \A a \in A : to[a] \in Axes(out)
      /\ \A a, b \in A : to[a] = to[b] => a = b
  BY DEF Moves
<1>2. Support(g) \subseteq A /\ Support(g) \cap A = Support(g)
  BY DEF ReadsAlike
<1>3. /\ WellFormed(h)
      /\ \A b : b \in Support(h) <=> \E a \in Support(g) : b = to[a]
      /\ \A q \in h.perms : \E p \in g.perms : Carries(Support(g), to, p, q)
  <2>1. Len(out) \in Nat /\ Axes(out) = 1 .. Len(out)
    BY <1>1 DEF Axes
  <2>2. /\ \A a \in Support(g) : to[a] \in 1 .. Len(out)
        /\ \A a, b \in Support(g) : to[a] = to[b] => a = b
    BY <1>1, <1>2, <2>1
  <2> QED BY <2>1, <2>2, RemapFits
<1>4. Support(h) \subseteq Axes(out)
  BY <1>1, <1>2, <1>3
<1>5. ASSUME NEW p \in g.perms PROVE Keeps(out, Support(g), A, to, p)
  BY <1>2 DEF WellFormed, Keeps, ReadsAlike
<1>6. \A p \in g.perms : Reads(s, out, A, to, p, from)
  BY DEF ReadsAlike
<1>7. Derives(s, out, A, to, from, g, h)
  BY <1>2, <1>3, <1>5, <1>6 DEF Derives
<1> QED BY <1>3, <1>4, <1>7, ReadHolds

\* An array of shape out is read from one of shape s, otherwise along axis a only.
Along(s, val, out, data, a, f) ==
  /\ s \in Seq(Nat) /\ out \in Seq(Nat) /\ Len(out) = Len(s) /\ a \in Axes(s)
  /\ \A k \in Axes(s) \ {a} : out[k] = s[k]
  /\ \A i \in 0 .. out[a] - 1 : f[i] \in 0 .. s[a] - 1
  /\ DOMAIN val = Cells(s) /\ DOMAIN data = Cells(out)
  /\ \A c \in Cells(out) : data[c] = val[[c EXCEPT ![a] = f[c[a]]]]

\* A group holds for what is read otherwise along an axis it does not act on.
LEMMA AlongHolds ==
  ASSUME NEW s, NEW val, NEW out, NEW data, NEW a, NEW f, NEW g,
         Along(s, val, out, data, a, f),
         WellFormed(g), HoldsFor(g, s, val), a \notin Support(g)
  PROVE  HoldsFor(g, out, data)
<1> DEFINE A == Axes(s)
           to == [k \in A |-> k]
           from == [c \in Cells(out) |-> [c EXCEPT ![a] = f[c[a]]]]
<1>0. /\ s \in Seq(Nat) /\ out \in Seq(Nat) /\ Len(out) = Len(s) /\ a \in Axes(s)
      /\ \A k \in Axes(s) \ {a} : out[k] = s[k]
      /\ \A i \in 0 .. out[a] - 1 : f[i] \in 0 .. s[a] - 1
      /\ DOMAIN val = Cells(s) /\ DOMAIN data = Cells(out)
      /\ \A c \in Cells(out) : data[c] = val[[c EXCEPT ![a] = f[c[a]]]]
  BY DEF Along
<1>1. Axes(out) = A
  BY <1>0 DEF Axes
<1>2. Support(g) \subseteq A /\ Support(g) \cap A = Support(g)
  BY DEF HoldsFor
<1>3. Moves(s, out, A, to)
  BY <1>0, <1>1 DEF Moves
<1>4. ASSUME NEW c \in Cells(out)
      PROVE  /\ from[c] \in Cells(s)
             /\ \A k \in A : from[c][k] = IF k = a THEN f[c[a]] ELSE c[k]
  <2>1. /\ c = [k \in A |-> c[k]]
        /\ \A k \in A : c[k] \in 0 .. out[k] - 1
    BY <1>0, <1>1, CellsOfShape
  <2>2. from[c] = [k \in A |-> IF k = a THEN f[c[a]] ELSE c[k]]
    <3>1. [c EXCEPT ![a] = f[c[a]]] = [k \in A |-> IF k = a THEN f[c[a]] ELSE c[k]]
      BY <2>1
    <3> QED BY <3>1
  <2>3. \A k \in A : from[c][k] \in 0 .. s[k] - 1
    BY <1>0, <2>1, <2>2
  <2>4. from[c] = [k \in Axes(s) |-> from[c][k]]
    BY <2>2
  <2>5. from[c] \in Cells(s)
    <3> HIDE DEF from
    <3> QED BY <1>0, <2>3, <2>4, CellsOfShape
  <2> QED BY <2>2, <2>5
<1>5. ASSUME NEW p \in g.perms
      PROVE  /\ Carries(Support(g) \cap A, to, p, p)
             /\ Keeps(out, Support(g), A, to, p)
             /\ Reads(s, out, A, to, p, from)
  <2>1. p \in [Support(g) -> Support(g)]
    BY DEF WellFormed
  <2>2. \A b \in Support(g) : p[b] \in Support(g) /\ s[p[b]] = s[b]
    BY <1>0, ExtentsAgree
  <2>3. Carries(Support(g) \cap A, to, p, p)
    BY <1>2, <2>1 DEF Carries
  <2>4. Keeps(out, Support(g), A, to, p)
    BY <1>0, <1>2, <2>1, <2>2 DEF Keeps
  <2>5. Reads(s, out, A, to, p, from)
    <3> HIDE DEF from
    <3> QED BY <1>2, <1>4, <2>1 DEF Reads
  <2> QED BY <2>3, <2>4, <2>5
<1>6. IsRead(s, val, out, data, from)
  BY <1>0 DEF IsRead
<1>7. Support(g) \subseteq Axes(out)
  BY <1>1, <1>2
<1>8. Derives(s, out, A, to, from, g, g)
  BY <1>5 DEF Derives
<1> HIDE DEF A, to, from
<1> QED BY <1>3, <1>6, <1>7, <1>8, ReadHolds

-----------------------------------------------------------------------------
\* What an operation makes is honest if its rule is right where it is said to be.
LEMMA MakesHonest ==
  ASSUME NEW op, NEW s \in Seq(Nat), NEW val, DOMAIN val = Cells(s),
         NEW g, Fits(g, Len(s)), NEW right,
         right /\ array.sound /\ g # None => HoldsFor(g, s, val),
         Makes(op, s, val, g, right)
  PROVE  Honest(array')
<1>1. array' = Made(s, val, g, right /\ array.sound)
  BY DEF Makes
<1>2. DOMAIN Named(val) = Cells(s)
  BY DEF Named
<1>3. right /\ array.sound /\ g # None => HoldsFor(g, s, Named(val))
  BY NamedHolds DEF Fits
<1> DEFINE x == Made(s, val, g, right /\ array.sound)
<1>4. /\ DOMAIN x = {"shape", "val", "tag", "kind", "sound"}
      /\ x.shape = s /\ x.val = Named(val) /\ x.tag = g
      /\ x.sound <=> right /\ array.sound
      /\ x.kind = "plain" => g = None
  BY DEF Made
<1> HIDE DEF x
<1> QED BY <1>1, <1>2, <1>3, <1>4 DEF Honest, Typed, x

\* fnp.roll and fnp.repeat: only a tag that leaves the axis alone is kept.
THEOREM AlongKeepsTags ==
  ASSUME Honest(array), NEW a \in All, Roll(a) \/ Repeat(a)
  PROVE  Honest(array')
<1> DEFINE s == array.shape
           g == TransportAlong(array.tag, a)
<1>1. /\ s \in Seq(Nat) /\ DOMAIN array.val = Cells(s) /\ a \in Axes(s)
      /\ Fits(g, Len(s))
      /\ g # None => g = array.tag /\ a \notin Support(g)
  BY DEF Honest, Typed, TransportAlong, All, Fits
<1>2. ASSUME array.sound, g # None
      PROVE  WellFormed(g) /\ HoldsFor(g, s, array.val) /\ a \notin Support(g)
  BY <1>1, <1>2 DEF Honest, Fits
<1> HIDE DEF g
<1>3. CASE Roll(a)
  <2> DEFINE f == [i \in 0 .. s[a] - 1 |-> (i + 1) % s[a]]
             data == [c \in Cells(s) |-> array.val[[c EXCEPT ![a] = (@ + 1) % s[a]]]]
  <2>1. Makes("roll", s, data, g, TRUE)
    BY <1>3 DEF Roll, g
  <2>2. s[a] \in Nat /\ \A i \in 0 .. s[a] - 1 : f[i] = (i + 1) % s[a] /\ f[i] \in 0 .. s[a] - 1
    <3>1. s[a] \in Nat
      BY <1>1 DEF Axes
    <3> QED BY <3>1
  <2>3. ASSUME NEW c \in Cells(s) PROVE data[c] = array.val[[c EXCEPT ![a] = f[c[a]]]]
    <3>1. c[a] \in 0 .. s[a] - 1 /\ c = [k \in Axes(s) |-> c[k]]
      BY <1>1, CellsOfShape
    <3>2. [c EXCEPT ![a] = (@ + 1) % s[a]] = [c EXCEPT ![a] = f[c[a]]]
      BY <3>1, <2>2
    <3> QED BY <3>2
  <2>4. DOMAIN data = Cells(s)
    OBVIOUS
  <2> HIDE DEF f, data, s
  <2>5. array.sound /\ g # None => HoldsFor(g, s, data)
    <3>1. Along(s, array.val, s, data, a, f)
      BY <1>1, <2>2, <2>3, <2>4 DEF Along
    <3> QED BY <1>2, <3>1, AlongHolds
  <2> QED BY <1>1, <2>1, <2>4, <2>5, MakesHonest
<1>4. CASE Repeat(a)
  <2> DEFINE f == [i \in 0 .. 2 * s[a] - 1 |-> i \div 2]
             out == [s EXCEPT ![a] = 2 * @]
             data == [c \in Cells(out) |-> array.val[[c EXCEPT ![a] = @ \div 2]]]
  <2>1. Makes("repeat", out, data, g, TRUE)
    BY <1>4 DEF Repeat, g
  <2>2. s[a] \in Nat /\ \A i \in 0 .. 2 * s[a] - 1 : f[i] = i \div 2 /\ f[i] \in 0 .. s[a] - 1
    <3>1. s[a] \in Nat
      BY <1>1 DEF Axes
    <3> QED BY <3>1
  <2>3. /\ out \in Seq(Nat) /\ Len(out) = Len(s) /\ Axes(out) = Axes(s)
        /\ out[a] = 2 * s[a] /\ \A k \in Axes(s) \ {a} : out[k] = s[k]
    BY <1>1, <2>2 DEF Axes
  <2>4. ASSUME NEW c \in Cells(out) PROVE data[c] = array.val[[c EXCEPT ![a] = f[c[a]]]]
    <3>1. c[a] \in 0 .. 2 * s[a] - 1 /\ c = [k \in Axes(s) |-> c[k]]
      <4> HIDE DEF out
      <4> QED BY <1>1, <2>3, CellsOfShape
    <3>2. [c EXCEPT ![a] = @ \div 2] = [c EXCEPT ![a] = f[c[a]]]
      BY <3>1, <2>2
    <3> QED BY <3>2
  <2>5. DOMAIN data = Cells(out)
    OBVIOUS
  <2> HIDE DEF f, data, s, out
  <2>6. array.sound /\ g # None => HoldsFor(g, out, data)
    <3>1. Along(s, array.val, out, data, a, f)
      BY <1>1, <2>2, <2>3, <2>4, <2>5 DEF Along
    <3> QED BY <1>2, <3>1, AlongHolds
  <2> QED BY <1>1, <2>1, <2>3, <2>5, <2>6, MakesHonest
<1> QED BY <1>3, <1>4

\* fnp.split and its like: permutations that map the axes but one to themselves
\* leave that one alone, which may be cut.
THEOREM SplitKeepsTags ==
  ASSUME Honest(array), NEW a \in All, NEW hi \in 1 .. array.shape[a],
         NEW lo \in 0 .. hi - 1, Split(a, lo, hi)
  PROVE  Honest(array')
<1> DEFINE s == array.shape
           g == array.tag
           h == TransportSplit(g, a)
           out == [s EXCEPT ![a] = hi - lo]
           f == [i \in 0 .. hi - lo - 1 |-> i + lo]
           data == [c \in Cells(out) |-> array.val[[c EXCEPT ![a] = @ + lo]]]
<1>1. /\ s \in Seq(Nat) /\ DOMAIN array.val = Cells(s) /\ a \in Axes(s)
      /\ Len(s) \in Nat /\ Axes(s) = 1 .. Len(s)
      /\ g # None => WellFormed(g) /\ Support(g) \subseteq 1 .. Len(s)
  BY DEF Honest, Typed, All, Fits, Axes
<1>2. Makes("split", out, data, h, TRUE)
  BY DEF Split
<1>3. s[a] \in Nat /\ hi \in Nat /\ lo \in Nat /\ lo < hi /\ hi <= s[a]
  BY <1>1
<1>4. /\ out \in Seq(Nat) /\ Len(out) = Len(s) /\ Axes(out) = Axes(s)
      /\ out[a] = hi - lo /\ \A k \in Axes(s) \ {a} : out[k] = s[k]
  BY <1>1, <1>3 DEF Axes
<1>5. ASSUME h # None
      PROVE  /\ g # None /\ WellFormed(h) /\ Support(h) \subseteq 1 .. Len(s)
             /\ a \notin Support(h) /\ Within(h, g, Len(s))
  <2>1. g # None /\ h = Sparing(g, a) /\ Fits(g, Len(s))
    BY <1>1, <1>5 DEF TransportSplit, Sparing, Fits
  <2> HIDE DEF g, h, s
  <2>2. /\ WellFormed(h) /\ Support(h) \subseteq Support(g)
        /\ a \notin Support(h) /\ Within(h, g, Len(s))
    BY <1>1, <1>5, <2>1, SparingFits
  <2> QED BY <1>1, <2>1, <2>2
<1>6. DOMAIN data = Cells(out)
  OBVIOUS
<1>7. ASSUME array.sound, h # None PROVE HoldsFor(h, out, data)
  <2>1. HoldsFor(g, s, array.val)
    BY <1>5, <1>7 DEF Honest
  <2>2. HoldsFor(h, s, array.val)
    <3> HIDE DEF h
    <3> QED BY <1>1, <1>5, <1>7, <2>1, WithinHolds
  <2>3. ASSUME NEW c \in Cells(out)
        PROVE  data[c] = array.val[[c EXCEPT ![a] = f[c[a]]]]
    <3>1. c[a] \in 0 .. hi - lo - 1 /\ c = [k \in Axes(s) |-> c[k]]
      <4> HIDE DEF out
      <4> QED BY <1>1, <1>4, CellsOfShape, SMTT(30)
    <3>2. [c EXCEPT ![a] = @ + lo] = [c EXCEPT ![a] = f[c[a]]]
      BY <3>1
    <3> QED BY <3>2
  <2>4. \A i \in 0 .. hi - lo - 1 : f[i] \in 0 .. s[a] - 1
    BY <1>3
  <2>5. Along(s, array.val, out, data, a, f)
    <3> HIDE DEF f, data, out
    <3> QED BY <1>1, <1>4, <1>6, <2>3, <2>4 DEF Along
  <2> HIDE DEF f, data, out, h
  <2> QED BY <1>5, <1>7, <2>2, <2>5, AlongHolds
<1>8. Fits(h, Len(out))
  BY <1>4, <1>5 DEF Fits
<1> HIDE DEF data, out, h
<1> QED BY <1>2, <1>4, <1>6, <1>7, <1>8, MakesHonest

\* Both operands of fnp.concatenate keep the axis that is joined where it is, if the
\* rule finds that axis.
LEMMA ConcatenateRule ==
  ASSUME NEW n \in Nat, NEW axis, NEW g, NEW h, Fits(g, n), Fits(h, n),
         NEW r, r = TransportConcatenate(g, h, n, axis), r # None
  PROVE  /\ g # None /\ h # None /\ WellFormed(r) /\ Support(r) \subseteq 1 .. n
         /\ \A q \in r.perms : /\ \E p \in g.perms : Alike(p, q, n)
                               /\ \E p \in h.perms : Alike(p, q, n)
         /\ \A j \in 1 .. n : TakenOff(g, n, axis) = j =>
              \A q \in r.perms : Image(q, j) = j
<1> DEFINE g1 == Sparing(g, TakenOff(g, n, axis))
           h1 == Sparing(h, TakenOff(h, n, axis))
<1>1. g # None /\ h # None /\ r = Intersect(g1, h1, n)
  BY DEF TransportConcatenate, Sparing
<1>2. g1 # None /\ h1 # None
  BY <1>1 DEF Intersect
<1>3. /\ WellFormed(g1) /\ Support(g1) \subseteq Support(g) /\ Within(g1, g, n)
      /\ TakenOff(g, n, axis) \notin Support(g1)
  BY <1>1, <1>2, SparingFits
<1>4. WellFormed(h1) /\ Support(h1) \subseteq Support(h) /\ Within(h1, h, n)
  BY <1>1, <1>2, SparingFits
<1> HIDE DEF g1, h1
<1>5. /\ WellFormed(r) /\ Support(r) \subseteq 1 .. n
      /\ Within(r, g1, n) /\ Within(r, h1, n)
  <2>1. Support(g1) \subseteq 1 .. n /\ Support(h1) \subseteq 1 .. n
    BY <1>1, <1>3, <1>4 DEF Fits
  <2> QED BY <1>1, <1>2, <1>3, <1>4, <2>1, IntersectFits
<1>6. ASSUME NEW q \in r.perms
      PROVE  /\ \E p \in g.perms : Alike(p, q, n)
             /\ \E p \in h.perms : Alike(p, q, n)
  <2>1. PICK p1 \in g1.perms, p2 \in h1.perms : Alike(p1, q, n) /\ Alike(p2, q, n)
    BY <1>5 DEF Within
  <2>2. PICK p3 \in g.perms, p4 \in h.perms : Alike(p3, p1, n) /\ Alike(p4, p2, n)
    BY <1>3, <1>4 DEF Within
  <2> QED BY <2>1, <2>2 DEF Alike
<1>7. ASSUME NEW j \in 1 .. n, TakenOff(g, n, axis) = j, NEW q \in r.perms
      PROVE  Image(q, j) = j
  <2>1. PICK p \in g1.perms : Alike(p, q, n)
    BY <1>5 DEF Within
  <2>2. DOMAIN p = Support(g1)
    BY <1>3 DEF WellFormed
  <2>3. Image(p, j) = j
    BY <1>3, <1>7, <2>2 DEF Image
  <2> QED BY <2>1, <2>3 DEF Alike
<1> QED BY <1>1, <1>5, <1>6, <1>7

\* The extents of a shape, and of one with another extent along axis j.
LEMMA ShapeFacts ==
  ASSUME NEW s \in Seq(Nat)
  PROVE  /\ Len(s) \in Nat /\ Axes(s) = 1 .. Len(s) /\ DOMAIN s = Axes(s)
         /\ Axes(s) \subseteq Nat /\ \A k \in Axes(s) : s[k] \in Nat
         /\ s = [k \in Axes(s) |-> s[k]]
  BY DEF Axes

\* A shape with another extent on one axis.
LEMMA ResizedShape ==
  ASSUME NEW s \in Seq(Nat), NEW j \in Axes(s), NEW x \in Nat
  PROVE  /\ [s EXCEPT ![j] = x] \in Seq(Nat)
         /\ Len([s EXCEPT ![j] = x]) = Len(s)
         /\ Axes([s EXCEPT ![j] = x]) = Axes(s)
         /\ [s EXCEPT ![j] = x][j] = x
         /\ \A k \in Axes(s) \ {j} : [s EXCEPT ![j] = x][k] = s[k]
  BY DEF Axes

\* A permuted tuple, index by index.
LEMMA PermutedImage ==
  ASSUME NEW c, NEW q
  PROVE  /\ Permuted(c, q) = [k \in DOMAIN c |-> c[Image(q, k)]]
         /\ \A k \in DOMAIN c : Permuted(c, q)[k] = c[Image(q, k)]
<1>1. \A k \in DOMAIN c : (IF k \in DOMAIN q THEN c[q[k]] ELSE c[k]) = c[Image(q, k)]
  BY DEF Image
<1> QED BY <1>1 DEF Permuted

\* The data of fnp.concatenate() along axis j: where index j is below s[j] that of
\* the first operand, elsewhere that of the second.
Joins(s, val, t, more, j, out, data) ==
  /\ s \in Seq(Nat) /\ t \in Seq(Nat) /\ Len(t) = Len(s) /\ j \in Axes(s)
  /\ \A k \in Axes(s) \ {j} : t[k] = s[k]
  /\ out = [s EXCEPT ![j] = @ + t[j]]
  /\ DOMAIN val = Cells(s) /\ DOMAIN more = Cells(t) /\ DOMAIN data = Cells(out)
  /\ \A c \in Cells(out) :
       data[c] = IF c[j] < s[j] THEN <<1, val[c]>>
                 ELSE <<2, more[[c EXCEPT ![j] = @ - s[j]]]>>

\* A symmetry of both operands that leaves the joined axis alone is one of the result.
LEMMA JoinedSymmetry ==
  ASSUME NEW s, NEW val, NEW t, NEW more, NEW j, NEW out, NEW data,
         Joins(s, val, t, more, j, out, data),
         NEW E \in SUBSET Axes(s), NEW q \in [E -> E],
         \A a, b \in E : q[a] = q[b] => a = b, Image(q, j) = j,
         Symmetric(s, val, q), Symmetric(t, more, q)
  PROVE  Symmetric(out, data, q)
<1>0. /\ s \in Seq(Nat) /\ t \in Seq(Nat) /\ Len(t) = Len(s) /\ j \in Axes(s)
      /\ \A k \in Axes(s) \ {j} : t[k] = s[k]
      /\ out = [s EXCEPT ![j] = @ + t[j]]
      /\ DOMAIN val = Cells(s) /\ DOMAIN more = Cells(t) /\ DOMAIN data = Cells(out)
      /\ \A c \in Cells(out) :
           data[c] = IF c[j] < s[j] THEN <<1, val[c]>>
                     ELSE <<2, more[[c EXCEPT ![j] = @ - s[j]]]>>
  BY DEF Joins
<1> DEFINE A == Axes(s)
<1>1. /\ A = Axes(t) /\ DOMAIN s = A /\ s[j] \in Nat /\ t[j] \in Nat
      /\ \A k \in A : s[k] \in Nat
  <2>1. /\ Len(s) \in Nat /\ Axes(s) = 1 .. Len(s) /\ DOMAIN s = Axes(s)
        /\ \A k \in Axes(s) : s[k] \in Nat
    BY <1>0, ShapeFacts
  <2>2. Axes(t) = 1 .. Len(t) /\ \A k \in Axes(t) : t[k] \in Nat
    BY <1>0, ShapeFacts
  <2> QED BY <1>0, <2>1, <2>2
<1>2. /\ out \in Seq(Nat) /\ Axes(out) = A /\ DOMAIN out = A
      /\ out[j] = s[j] + t[j] /\ \A k \in A \ {j} : out[k] = s[k]
  <2>1. out = [k \in A |-> IF k = j THEN s[j] + t[j] ELSE s[k]]
    BY <1>0, <1>1
  <2>2. out \in Seq(Nat) /\ Len(out) = Len(s)
    BY <1>0, <1>1
  <2> QED BY <1>0, <2>1, <2>2 DEF Axes
<1> HIDE DEF A
<1>3. \A k \in A : Image(q, k) \in A /\ (Image(q, k) = j <=> k = j)
  BY <1>0 DEF Image, A
<1>4. Permuted(out, q) = out
  <2>1. \A k \in A : s[Image(q, k)] = s[k]
    BY <1>1, PermutedImage DEF Symmetric
  <2>2. \A k \in A : out[Image(q, k)] = out[k]
    BY <1>0, <1>2, <1>3, <2>1
  <2>3. [k \in A |-> out[Image(q, k)]] = [k \in A |-> out[k]]
    BY <2>2
  <2>4. out = [k \in A |-> out[k]]
    BY <1>2
  <2>5. Permuted(out, q) = [k \in A |-> out[Image(q, k)]]
    BY <1>2, PermutedImage
  <2> QED BY <2>3, <2>4, <2>5
<1>5. ASSUME NEW c \in Cells(out) PROVE data[Permuted(c, q)] = data[c]
  <2> DEFINE d == Permuted(c, q)
  <2>1. /\ c = [k \in A |-> c[k]] /\ DOMAIN c = A
        /\ \A k \in A : c[k] \in 0 .. out[k] - 1
    BY <1>2, CellsOfShape
  <2>2. d \in Cells(out)
    <3>1. E \in SUBSET Axes(out)
      BY <1>2 DEF A
    <3> QED BY <1>2, <1>4, <3>1, PermutedCells
  <2>3. d = [k \in A |-> c[Image(q, k)]] /\ d[j] = c[j]
    <3>1. d = [k \in A |-> c[Image(q, k)]]
      BY <2>1, PermutedImage
    <3>2. j \in A /\ Image(q, j) = j
      BY <1>0 DEF A
    <3> HIDE DEF d
    <3> QED BY <3>1, <3>2
  <2>4. CASE c[j] < s[j]
    <3>1. c \in Cells(s)
      <4>1. c[j] \in 0 .. s[j] - 1
        <5>1. j \in A
          BY <1>0 DEF A
        <5>2. c[j] \in 0 .. (s[j] + t[j]) - 1
          BY <1>2, <2>1, <5>1
        <5> QED BY <1>1, <2>4, <5>2
      <4>2. \A k \in A : c[k] \in 0 .. s[k] - 1
        BY <1>2, <2>1, <4>1
      <4> QED BY <1>0, <2>1, <4>2, CellsOfShape DEF A
    <3>2. val[d] = val[c]
      BY <1>0, <3>1 DEF Symmetric
    <3>3. data[d] = <<1, val[d]>> /\ data[c] = <<1, val[c]>>
      <4> HIDE DEF d
      <4> QED BY <1>0, <2>2, <2>3, <2>4
    <3> QED BY <3>2, <3>3
  <2>5. CASE ~ (c[j] < s[j])
    <3> DEFINE e == [c EXCEPT ![j] = @ - s[j]]
    <3>1. e = [k \in A |-> IF k = j THEN c[j] - s[j] ELSE c[k]]
      BY <2>1
    <3>2. e \in Cells(t)
      <4>1. \A k \in A : e[k] \in 0 .. t[k] - 1
        <5> HIDE DEF e
        <5>1. c[j] - s[j] \in 0 .. t[j] - 1
          BY <1>0, <1>1, <1>2, <2>1, <2>5, SMTT(30) DEF A
        <5>2. \A k \in A \ {j} : c[k] \in 0 .. t[k] - 1
          BY <1>0, <1>1, <1>2, <2>1 DEF A
        <5> QED BY <3>1, <5>1, <5>2
      <4>2. e = [k \in A |-> e[k]]
        BY <3>1
      <4> HIDE DEF e
      <4> QED BY <1>0, <1>1, <4>1, <4>2, CellsOfShape DEF A
    <3>3. [d EXCEPT ![j] = @ - s[j]] = Permuted(e, q)
      <4>1. DOMAIN e = A
        BY <3>1
      <4>2. Permuted(e, q) = [k \in A |-> e[Image(q, k)]]
        <5> HIDE DEF e
        <5> QED BY <4>1, PermutedImage
      <4>3. [d EXCEPT ![j] = @ - s[j]]
              = [k \in A |-> IF k = j THEN c[j] - s[j] ELSE c[Image(q, k)]]
        <5> HIDE DEF d
        <5> QED BY <2>3
      <4>4. \A k \in A : e[Image(q, k)] = IF k = j THEN c[j] - s[j] ELSE c[Image(q, k)]
        <5> HIDE DEF e
        <5> QED BY <1>3, <3>1
      <4>5. [k \in A |-> e[Image(q, k)]]
              = [k \in A |-> IF k = j THEN c[j] - s[j] ELSE c[Image(q, k)]]
        <5> HIDE DEF e
        <5> QED BY <4>4
      <4> HIDE DEF e, d
      <4> QED BY <4>2, <4>3, <4>5
    <3>4. more[Permuted(e, q)] = more[e]
      <4> HIDE DEF e
      <4> QED BY <1>0, <3>2 DEF Symmetric
    <3>5. /\ data[d] = <<2, more[[d EXCEPT ![j] = @ - s[j]]]>>
          /\ data[c] = <<2, more[e]>>
      <4>1. \A x \in Cells(out) : ~ (x[j] < s[j])
              => data[x] = <<2, more[[x EXCEPT ![j] = @ - s[j]]]>>
        BY <1>0
      <4>2. ~ (d[j] < s[j])
        <5> HIDE DEF d
        <5> QED BY <2>3, <2>5
      <4> HIDE DEF d
      <4> QED BY <2>2, <2>5, <4>1, <4>2
    <3>6. data[d] = data[c]
      <4> HIDE DEF d, e
      <4> QED BY <3>3, <3>4, <3>5
    <3> QED BY <3>6
  <2> QED BY <2>4, <2>5
<1> QED BY <1>0, <1>4, <1>5 DEF Symmetric

\* fnp.concatenate: where both groups are taken off the axis that is joined, the tag
\* of the result is true.
THEOREM ConcatenateKeepsTags ==
  ASSUME Honest(array), NEW other, Honest(other),
         NEW axis \in -Rank .. Rank - 1, Concatenate(other, axis)
  PROVE  Honest(array')
<1> DEFINE s == array.shape
           t == other.shape
           n == Len(s)
           j == (axis % n) + 1
           out == [s EXCEPT ![j] = @ + t[j]]
           r == TransportConcatenate(array.tag, other.tag, n, axis)
           data == [c \in Cells(out) |->
                      IF c[j] < s[j] THEN <<1, array.val[c]>>
                      ELSE <<2, other.val[[c EXCEPT ![j] = @ - s[j]]]>>]
           right == /\ other.sound
                    /\ FindsJoinedAxis(array.tag, n, axis)
                    /\ FindsJoinedAxis(other.tag, n, axis)
<1>1. /\ s \in Seq(Nat) /\ t \in Seq(Nat) /\ n \in Nat
      /\ DOMAIN array.val = Cells(s) /\ DOMAIN other.val = Cells(t)
      /\ Fits(array.tag, n) /\ Fits(other.tag, Len(t))
  BY DEF Honest, Typed
<1>2. /\ Len(t) = n /\ \A k \in Axes(s) \ {j} : t[k] = s[k]
      /\ Makes("concatenate", out, data, r, right)
  BY DEF Concatenate
<1>3. j \in 1 .. n /\ j \in Axes(s)
  <2>1. n \in Nat /\ axis \in -n .. n - 1
    BY <1>1 DEF Rank
  <2>2. axis \in Int /\ n > 0
    BY <2>1
  <2>3. axis % n \in 0 .. n - 1
    <3> HIDE DEF n
    <3> QED BY <2>1, <2>2
  <2>4. j \in 1 .. n
    <3> HIDE DEF n
    <3> QED BY <2>1, <2>3
  <2> QED BY <2>4 DEF Axes
<1>4. out \in Seq(Nat) /\ Len(out) = n /\ Axes(out) = Axes(s) /\ Axes(s) = 1 .. n
  <2> HIDE DEF j, s, t
  <2>1. /\ Axes(s) = 1 .. Len(s) /\ \A k \in Axes(s) : s[k] \in Nat
        /\ Axes(t) = 1 .. Len(t) /\ \A k \in Axes(t) : t[k] \in Nat
    BY <1>1, ShapeFacts
  <2>2. s[j] + t[j] \in Nat
    BY <1>2, <1>3, <2>1
  <2> QED BY <1>1, <1>3, <2>1, <2>2, ResizedShape
<1>5. Joins(s, array.val, t, other.val, j, out, data)
  <2> HIDE DEF j, s, t
  <2> QED BY <1>1, <1>2, <1>3 DEF Joins, n
<1> HIDE DEF data, out, j
<1>6. Fits(r, Len(out))
  <2>1. r # None => WellFormed(r) /\ Support(r) \subseteq 1 .. n
    <3> HIDE DEF n
    <3> QED BY <1>1, <1>2, ConcatenateRule
  <2> HIDE DEF r
  <2> QED BY <1>4, <2>1 DEF Fits
<1>7. ASSUME right, array.sound, r # None PROVE HoldsFor(r, out, data)
  <2>1. /\ array.tag # None /\ other.tag # None
        /\ WellFormed(r) /\ Support(r) \subseteq 1 .. n
        /\ \A q \in r.perms : /\ \E p \in array.tag.perms : Alike(p, q, n)
                              /\ \E p \in other.tag.perms : Alike(p, q, n)
        /\ \A i \in 1 .. n : TakenOff(array.tag, n, axis) = i =>
             \A q \in r.perms : Image(q, i) = i
    <3> DEFINE g == array.tag
               h == other.tag
    <3>1. n \in Nat /\ Fits(g, n) /\ Fits(h, n)
      BY <1>1, <1>2
    <3>2. r = TransportConcatenate(g, h, n, axis) /\ r # None
      BY <1>7
    <3> HIDE DEF n, g, h, r
    <3>3. /\ g # None /\ h # None
          /\ WellFormed(r) /\ Support(r) \subseteq 1 .. n
          /\ \A q \in r.perms : /\ \E p \in g.perms : Alike(p, q, n)
                                /\ \E p \in h.perms : Alike(p, q, n)
          /\ \A i \in 1 .. n : TakenOff(g, n, axis) = i =>
               \A q \in r.perms : Image(q, i) = i
      BY <3>1, <3>2, ConcatenateRule
    <3> QED BY <3>3 DEF g, h
  <2>2. TakenOff(array.tag, n, axis) = j
    BY <1>7, <2>1 DEF FindsJoinedAxis, j
  <2>3. HoldsFor(array.tag, s, array.val) /\ HoldsFor(other.tag, t, other.val)
    BY <1>7, <2>1 DEF Honest
  <2> HIDE DEF r, right
  <2>4. ASSUME NEW q \in r.perms PROVE Symmetric(out, data, q)
    <3>1. Image(q, j) = j
      BY <1>3, <2>1, <2>2
    <3>2. Symmetric(s, array.val, q)
      <4>1. PICK p \in array.tag.perms : Alike(p, q, Len(s))
        BY <2>1
      <4>2. Symmetric(s, array.val, p)
        BY <2>3 DEF HoldsFor
      <4> QED BY <1>1, <4>1, <4>2, AlikeSymmetric
    <3>3. Symmetric(t, other.val, q)
      <4>1. PICK p \in other.tag.perms : Alike(p, q, Len(t))
        BY <1>2, <2>1
      <4>2. Symmetric(t, other.val, p)
        BY <2>3 DEF HoldsFor
      <4> QED BY <1>1, <4>1, <4>2, AlikeSymmetric
    <3>4. /\ Support(r) \in SUBSET Axes(s) /\ q \in [Support(r) -> Support(r)]
          /\ \A a, b \in Support(r) : q[a] = q[b] => a = b
      BY <1>4, <2>1 DEF WellFormed
    <3> QED BY <1>5, <3>1, <3>2, <3>3, <3>4, JoinedSymmetry
  <2> QED BY <1>4, <2>1, <2>4 DEF HoldsFor
<1>8. DOMAIN data = Cells(out)
  BY DEF data
<1> HIDE DEF r, right
<1> QED BY <1>2, <1>4, <1>6, <1>7, <1>8, MakesHonest

-----------------------------------------------------------------------------
\* Shape out is shape s with the axes N put in between; axis a of s becomes to[a].
Inserts(s, N, out, to) ==
  /\ s \in Seq(Nat) /\ out \in Seq(Nat) /\ N \in SUBSET Axes(out)
  /\ Cardinality(Axes(out) \ N) = Len(s)
  /\ \A b \in Axes(out) \ N : out[b] = s[Removing(out, N)[b]]
  /\ \A a \in Axes(s) : to[a] \in Axes(out) \ N /\ Removing(out, N)[to[a]] = a

\* The cell of the old array is the cell of the new one without the new axes.
LEMMA InsertedCells ==
  ASSUME NEW s, NEW N, NEW out, NEW to, Inserts(s, N, out, to)
  PROVE  /\ Moves(s, out, Axes(s), to)
         /\ \A a \in Axes(s) : to[a] \notin N /\ out[to[a]] = s[a]
         /\ \A c \in Cells(out) : /\ Without(c, N) \in Cells(s)
                                  /\ \A a \in Axes(s) : Without(c, N)[a] = c[to[a]]
<1>0. /\ s \in Seq(Nat) /\ out \in Seq(Nat) /\ N \in SUBSET Axes(out)
      /\ Cardinality(Axes(out) \ N) = Len(s)
      /\ \A b \in Axes(out) \ N : out[b] = s[Removing(out, N)[b]]
      /\ \A a \in Axes(s) : to[a] \in Axes(out) \ N /\ Removing(out, N)[to[a]] = a
  BY DEF Inserts
<1>1. Axes(s) = 1 .. Len(s) /\ Len(s) \in Nat /\ DOMAIN s = Axes(s)
  BY <1>0, ShapeFacts
<1>2. Moves(s, out, Axes(s), to)
  BY <1>0 DEF Moves
<1>3. \A a \in Axes(s) : to[a] \notin N /\ out[to[a]] = s[a]
  BY <1>0
<1>4. ASSUME NEW c \in Cells(out)
      PROVE  /\ Without(c, N) \in Cells(s)
             /\ \A a \in Axes(s) : Without(c, N)[a] = c[to[a]]
  <2>1. /\ c = [k \in Axes(out) |-> c[k]]
        /\ \A k \in Axes(out) : c[k] \in 0 .. out[k] - 1
    BY <1>0, CellsOfShape
  <2>2. c \in Seq(Nat) /\ Axes(c) = Axes(out)
    <3>1. Axes(out) = 1 .. Len(out) /\ Len(out) \in Nat /\ \A k \in Axes(out) : out[k] \in Nat
      BY <1>0, ShapeFacts
    <3>2. \A k \in 1 .. Len(out) : c[k] \in Nat
      BY <2>1, <3>1
    <3>3. c \in Seq(Nat) /\ Len(c) = Len(out)
      BY <2>1, <3>1, <3>2
    <3> QED BY <3>1, <3>3 DEF Axes
  <2>3. Removing(c, N) = Removing(out, N)
    BY <2>2 DEF Removing
  <2>4. /\ Without(c, N) \in Seq(Nat) /\ Axes(Without(c, N)) = Axes(s)
        /\ \A b \in Axes(out) \ N : Without(c, N)[Removing(out, N)[b]] = c[b]
    <3>1. /\ Without(c, N) \in Seq(Nat)
          /\ Axes(Without(c, N)) = 1 .. Cardinality(Axes(c) \ N)
          /\ \A b \in Axes(c) \ N : Without(c, N)[Removing(c, N)[b]] = c[b]
      BY <2>2, WithoutKeeps
    <3> QED BY <1>0, <1>1, <2>2, <2>3, <3>1
  <2>5. \A a \in Axes(s) : Without(c, N)[a] = c[to[a]]
    BY <1>0, <2>4
  <2>6. \A a \in Axes(s) : Without(c, N)[a] \in 0 .. s[a] - 1
    BY <1>0, <1>3, <2>1, <2>5
  <2>7. Without(c, N) = [a \in Axes(s) |-> Without(c, N)[a]]
    BY <2>4, ShapeFacts
  <2>8. Without(c, N) \in Cells(s)
    BY <1>0, <2>6, <2>7, CellsOfShape
  <2> QED BY <2>5, <2>8
<1> QED BY <1>2, <1>3, <1>4

\* The tag of an array with axes put in between fits it and leaves them alone.
LEMMA InsertedFits ==
  ASSUME NEW s, NEW N, NEW out, NEW to, Inserts(s, N, out, to),
         NEW g, g # None, Fits(g, Len(s)), Remap(g, to) # None
  PROVE  /\ WellFormed(Remap(g, to))
         /\ Support(Remap(g, to)) \subseteq Axes(out) \ N
<1>0. /\ Moves(s, out, Axes(s), to)
      /\ \A a \in Axes(s) : to[a] \notin N
  BY InsertedCells
<1>1. /\ \A a \in Axes(s) : to[a] \in Axes(out) \ N
      /\ \A a, b \in Axes(s) : to[a] = to[b] => a = b
      /\ Len(out) \in Nat /\ Axes(out) = 1 .. Len(out) /\ Axes(s) = 1 .. Len(s)
  BY <1>0, ShapeFacts DEF Moves
<1>2. /\ WellFormed(g) /\ Support(g) \subseteq Axes(s)
      /\ \A a \in Support(g) : to[a] \in 1 .. Len(out)
      /\ \A a, b \in Support(g) : to[a] = to[b] => a = b
  BY <1>1 DEF Fits
<1>3. /\ WellFormed(Remap(g, to))
      /\ \A b : b \in Support(Remap(g, to)) <=> \E a \in Support(g) : b = to[a]
  BY <1>1, <1>2, RemapFits
<1> QED BY <1>1, <1>2, <1>3

\* The values data of shape out are those of val read without the axes N.
Unfolds(s, val, N, out, data) ==
  /\ DOMAIN val = Cells(s) /\ DOMAIN data = Cells(out)
  /\ \A c \in Cells(out) : data[c] = val[Without(c, N)]

\* And is true of it.
LEMMA InsertedHolds ==
  ASSUME NEW s, NEW val, NEW N, NEW out, NEW to, NEW data, NEW g,
         Inserts(s, N, out, to), Unfolds(s, val, N, out, data),
         WellFormed(g), HoldsFor(g, s, val), Remap(g, to) # None
  PROVE  HoldsFor(Remap(g, to), out, data)
<1> DEFINE from == [c \in Cells(out) |-> Without(c, N)]
           A == Axes(s)
<1>0. /\ Moves(s, out, Axes(s), to)
      /\ \A a \in Axes(s) : to[a] \notin N /\ out[to[a]] = s[a]
      /\ \A c \in Cells(out) : /\ Without(c, N) \in Cells(s)
                               /\ \A a \in Axes(s) : Without(c, N)[a] = c[to[a]]
  BY InsertedCells
<1>1. /\ Moves(s, out, A, to) /\ s \in Seq(Nat)
      /\ \A a \in A : out[to[a]] = s[a]
      /\ \A c \in Cells(out) : /\ Without(c, N) \in Cells(s)
                               /\ \A a \in A : Without(c, N)[a] = c[to[a]]
  BY <1>0 DEF Inserts
<1>2. IsRead(s, val, out, data, from)
  BY DEF IsRead, Unfolds
<1>3. Support(g) \subseteq A
  BY DEF HoldsFor
<1>4. ASSUME NEW p \in g.perms
      PROVE  /\ Reads(s, out, A, to, p, from)
             /\ \A a \in Support(g) : out[to[p[a]]] = out[to[a]]
  <2>1. DOMAIN p = Support(g) /\ \A a \in Support(g) : p[a] \in A /\ s[p[a]] = s[a]
    BY <1>1, <1>3, ExtentsAgree, SMTT(30) DEF WellFormed
  <2>2. Reads(s, out, A, to, p, from)
    BY <1>1, <1>3, <2>1 DEF Reads
  <2> QED BY <1>1, <1>3, <2>1, <2>2
<1>5. ReadsAlike(s, out, A, to, from, g)
  BY <1>3, <1>4 DEF ReadsAlike
<1> HIDE DEF from, A
<1> QED BY <1>1, <1>2, <1>5, RemapHolds

\* The axes N are added to shape s.
Expands(s, N, out) ==
  /\ s \in Seq(Nat) /\ IsFiniteSet(N) /\ N \subseteq 1 .. Len(s) + Cardinality(N)
  /\ out = Inserted(s, N)

Expanded(s, N, out) ==
  /\ out \in Seq(Nat) /\ Len(out) = Len(s) + Cardinality(N)
  /\ N \in SUBSET Axes(out) /\ Cardinality(Axes(out) \ N) = Len(s)
  /\ \A b \in Axes(out) \ N : out[b] = s[Removing(out, N)[b]]
  /\ \A b \in N : out[b] = 1

\* Inserted() puts axes of extent one in between.
LEMMA InsertedShape ==
  ASSUME NEW s, NEW N, NEW out, Expands(s, N, out)
  PROVE  Expanded(s, N, out)
<1> DEFINE m == Len(s) + Cardinality(N)
           At(k) == Cardinality({j \in 1 .. k : j \notin N})
<1>0. /\ s \in Seq(Nat) /\ IsFiniteSet(N) /\ N \subseteq 1 .. m
      /\ out = Inserted(s, N)
  BY DEF Expands
<1>1. /\ Cardinality(N) \in Nat /\ m \in Nat /\ Len(s) \in Nat
      /\ Axes(s) = 1 .. Len(s) /\ \A k \in Axes(s) : s[k] \in Nat
  BY <1>0, FS_CardinalityType, ShapeFacts
<1>2. Cardinality((1 .. m) \ N) = Len(s)
  <2>1. IsFiniteSet(1 .. m) /\ Cardinality(1 .. m) = m
    BY <1>1, FS_Interval, SMTT(30)
  <2>2. (1 .. m) \cap N = N
    BY <1>0
  <2>3. Cardinality((1 .. m) \ N) = m - Cardinality(N)
    <3> DEFINE I == 1 .. m
    <3>1. IsFiniteSet(I) /\ Cardinality(I) = m /\ I \cap N = N
      BY <2>1, <2>2
    <3> HIDE DEF I, m
    <3>2. Cardinality(I \ N) = Cardinality(I) - Cardinality(I \cap N)
      BY <3>1, FS_Difference
    <3> QED BY <3>1, <3>2 DEF I
  <2> QED BY <1>1, <2>3
<1>3. out = [k \in 1 .. m |-> IF k \in N THEN 1 ELSE s[At(k)]]
  BY <1>0 DEF Inserted
<1>4. \A k \in (1 .. m) \ N : At(k) \in Axes(s)
  <2> DEFINE t == [k \in 1 .. m |-> 0]
  <2>1. Len(t) = m /\ Axes(t) = 1 .. m
    BY <1>1 DEF Axes
  <2>2. Removing(t, N) \in [Axes(t) \ N -> 1 .. Cardinality(Axes(t) \ N)]
    <3>1. Len(t) \in Nat
      BY <1>1, <2>1
    <3> HIDE DEF t
    <3> QED BY <3>1, RemovingNumbers
  <2>3. \A k \in (1 .. m) \ N : Removing(t, N)[k] = At(k)
    BY <2>1 DEF Removing
  <2> HIDE DEF t, At, m
  <2> QED BY <1>1, <1>2, <2>1, <2>2, <2>3
<1> HIDE DEF m, At
<1>5. out \in Seq(Nat) /\ Len(out) = m /\ Axes(out) = 1 .. m
  <2>1. \A k \in 1 .. m : (IF k \in N THEN 1 ELSE s[At(k)]) \in Nat
    BY <1>1, <1>4
  <2>2. out \in Seq(Nat) /\ Len(out) = m
    BY <1>1, <1>3, <2>1
  <2> QED BY <2>2 DEF Axes
<1>6. \A b \in Axes(out) \ N : Removing(out, N)[b] = At(b)
  BY DEF Removing, At
<1>7. N \in SUBSET Axes(out)
  BY <1>0, <1>5 DEF m
<1> QED BY <1>0, <1>1, <1>2, <1>3, <1>5, <1>6, <1>7 DEF m, Expanded

\* Axis k, of extent x, is added to shape s.
Widens(s, k, x, out) ==
  /\ s \in Seq(Nat) /\ k \in 1 .. Len(s) + 1 /\ x \in Nat
  /\ out = [Inserted(s, {k}) EXCEPT ![k] = x]

\* The axes from k on move up by one when axis k is put in.
LEMMA OneInserted ==
  ASSUME NEW s, NEW k, NEW x, NEW out, Widens(s, k, x, out), NEW n, n = Len(out)
  PROVE  /\ Inserts(s, {k}, out, [a \in 1 .. n |-> IF a < k THEN a ELSE a + 1])
         /\ n = Len(s) + 1
<1> DEFINE t == Inserted(s, {k})
           to == [a \in 1 .. n |-> IF a < k THEN a ELSE a + 1]
<1>0. s \in Seq(Nat) /\ k \in 1 .. Len(s) + 1 /\ x \in Nat /\ out = [t EXCEPT ![k] = x]
  BY DEF Widens
<1>1. Len(s) \in Nat /\ Axes(s) = 1 .. Len(s) /\ k \in Nat
  BY <1>0, ShapeFacts
<1>2. IsFiniteSet({k}) /\ Cardinality({k}) = 1
  BY FS_Singleton
<1>3. /\ t \in Seq(Nat) /\ Len(t) = Len(s) + 1
      /\ k \in Axes(t) /\ Cardinality(Axes(t) \ {k}) = Len(s)
      /\ \A b \in Axes(t) \ {k} : t[b] = s[Removing(t, {k})[b]]
  <2> DEFINE K == {k}
  <2>1. Expands(s, K, t)
    BY <1>0, <1>1, <1>2 DEF Expands
  <2>2. Cardinality(K) = 1 /\ k \in K
    BY <1>2
  <2> HIDE DEF t, K, to
  <2>3. /\ t \in Seq(Nat) /\ Len(t) = Len(s) + Cardinality(K)
        /\ K \in SUBSET Axes(t) /\ Cardinality(Axes(t) \ K) = Len(s)
        /\ \A b \in Axes(t) \ K : t[b] = s[Removing(t, K)[b]]
    <3>1. Expanded(s, K, t)
      BY <2>1, InsertedShape
    <3> QED BY <3>1 DEF Expanded
  <2> QED BY <2>2, <2>3 DEF K
<1>4. /\ out \in Seq(Nat) /\ Axes(out) = Axes(t) /\ n = Len(s) + 1
      /\ \A b \in Axes(t) \ {k} : out[b] = t[b]
  <2>1. out = [t EXCEPT ![k] = x]
    BY <1>0
  <2> HIDE DEF t, to
  <2>2. t \in Seq(Nat) /\ k \in Axes(t)
    BY <1>3
  <2>3. /\ Len(t) \in Nat /\ DOMAIN t = 1 .. Len(t)
        /\ Axes(t) = 1 .. Len(t) /\ \A b \in 1 .. Len(t) : t[b] \in Nat
    BY <2>2, ShapeFacts
  <2>4. /\ out = [b \in 1 .. Len(t) |-> IF b = k THEN x ELSE t[b]]
        /\ \A b \in 1 .. Len(t) : (IF b = k THEN x ELSE t[b]) \in Nat
    BY <1>0, <2>1, <2>3
  <2>5. out \in Seq(Nat) /\ Len(out) = Len(t)
    BY <2>3, <2>4
  <2>6. \A b \in Axes(t) \ {k} : out[b] = t[b]
    BY <2>3, <2>4
  <2> QED BY <1>3, <2>5, <2>6 DEF Axes
<1>5. Removing(out, {k}) = Removing(t, {k})
  BY <1>4 DEF Removing
<1>6. Axes(out) = 1 .. n /\ n \in Nat
  BY <1>4, ShapeFacts
<1>7. ASSUME NEW b \in Axes(out) \ {k}
      PROVE  Removing(out, {k})[b] = IF b < k THEN b ELSE b - 1
  <2>1. Removing(out, {k})[b] = Cardinality({j \in 1 .. b : j \notin {k}})
    BY DEF Removing
  <2>0. b \in Nat /\ 1 <= b /\ 1 \in Int /\ b \in Int /\ k \in Nat /\ 1 <= k
    BY <1>0, <1>6
  <2>2. IsFiniteSet(1 .. b) /\ Cardinality(1 .. b) = b
    <3>1. IsFiniteSet(1 .. b) /\ Cardinality(1 .. b) = IF 1 > b THEN 0 ELSE b - 1 + 1
      BY <2>0, FS_Interval
    <3> QED BY <2>0, <3>1
  <2>3. {j \in 1 .. b : j \notin {k}} = (1 .. b) \ {k}
    OBVIOUS
  <2>4. Cardinality((1 .. b) \ {k})
          = IF k \in 1 .. b THEN Cardinality(1 .. b) - 1 ELSE Cardinality(1 .. b)
    BY <2>2, FS_RemoveElement
  <2>5. k \in 1 .. b <=> ~ (b < k)
    BY <2>0
  <2> QED BY <2>0, <2>1, <2>2, <2>3, <2>4, <2>5
<1>8. ASSUME NEW a \in Axes(s)
      PROVE  to[a] \in Axes(out) \ {k} /\ Removing(out, {k})[to[a]] = a
  <2>1. a \in Nat /\ a \in 1 .. n /\ a + 1 \in 1 .. n
    BY <1>1, <1>4
  <2>2. CASE a < k
    <3>1. to[a] = a /\ a # k
      BY <1>1, <2>1, <2>2
    <3> HIDE DEF to
    <3> QED BY <1>6, <1>7, <2>1, <2>2, <3>1
  <2>3. CASE ~ (a < k)
    <3>1. to[a] = a + 1 /\ a + 1 # k /\ ~ (a + 1 < k) /\ (a + 1) - 1 = a
      BY <1>1, <2>1, <2>3
    <3> HIDE DEF to
    <3> QED BY <1>6, <1>7, <2>1, <3>1
  <2> QED BY <2>2, <2>3
<1>9. \A b \in Axes(out) \ {k} : out[b] = s[Removing(out, {k})[b]]
  <2> HIDE DEF t
  <2> QED BY <1>3, <1>4, <1>5
<1> HIDE DEF to, t
<1>10. Inserts(s, {k}, out, to)
  <2>1. {k} \in SUBSET Axes(out) /\ Cardinality(Axes(out) \ {k}) = Len(s)
    BY <1>3, <1>4
  <2>2. s \in Seq(Nat) /\ out \in Seq(Nat)
    BY <1>0, <1>4
  <2> QED BY <1>8, <1>9, <2>1, <2>2 DEF Inserts
<1> QED BY <1>4, <1>10 DEF to

\* Array data pairs the cells of d1 and d2, or takes its own from either by axis k,
\* which q leaves where it is.
Pairs(out, d1, d2, data, q, k) ==
  /\ out \in Seq(Nat)
  /\ DOMAIN d1 = Cells(out) /\ DOMAIN d2 = Cells(out) /\ DOMAIN data = Cells(out)
  /\ \/ \A c \in Cells(out) : data[c] = <<d1[c], d2[c]>>
     \/ /\ k \in Axes(out) /\ Image(q, k) = k
        /\ \A c \in Cells(out) : data[c] = IF c[k] = 0 THEN <<1, d1[c]>> ELSE <<2, d2[c]>>
  /\ \A c \in Cells(out) : Permuted(c, q) \in Cells(out)

\* A symmetry of two arrays is one of the array made of both.
LEMMA PairedSymmetry ==
  ASSUME NEW out, NEW d1, NEW d2, NEW data, NEW q, NEW k, Pairs(out, d1, d2, data, q, k),
         Symmetric(out, d1, q), Symmetric(out, d2, q)
  PROVE  Symmetric(out, data, q)
<1>0. /\ out \in Seq(Nat)
      /\ DOMAIN d1 = Cells(out) /\ DOMAIN d2 = Cells(out) /\ DOMAIN data = Cells(out)
      /\ \/ \A c \in Cells(out) : data[c] = <<d1[c], d2[c]>>
         \/ /\ k \in Axes(out) /\ Image(q, k) = k
            /\ \A c \in Cells(out) : data[c] = IF c[k] = 0 THEN <<1, d1[c]>> ELSE <<2, d2[c]>>
      /\ \A c \in Cells(out) : Permuted(c, q) \in Cells(out)
  BY DEF Pairs
<1>1. ASSUME NEW c \in Cells(out) PROVE data[Permuted(c, q)] = data[c]
  <2> DEFINE d == Permuted(c, q)
  <2>1. d \in Cells(out) /\ d1[d] = d1[c] /\ d2[d] = d2[c]
    BY <1>0 DEF Symmetric
  <2>2. k \in Axes(out) /\ Image(q, k) = k => d[k] = c[k]
    <3>1. \A a \in DOMAIN c : d[a] = c[Image(q, a)]
      BY PermutedImage
    <3>2. DOMAIN c = Axes(out)
      BY <1>0, CellsOfShape
    <3> QED BY <3>1, <3>2
  <2> HIDE DEF d
  <2> QED BY <1>0, <2>1, <2>2 DEF d
<1> QED BY <1>0, <1>1 DEF Symmetric

\* Cells of a shape are cells when permuted by a group that fits it.
LEMMA FittingCells ==
  ASSUME NEW out \in Seq(Nat), NEW d1, DOMAIN d1 = Cells(out), NEW r, WellFormed(r),
         Support(r) \subseteq Axes(out), NEW q \in r.perms, Symmetric(out, d1, q)
  PROVE  \A c \in Cells(out) : Permuted(c, q) \in Cells(out)
<1>1. /\ Support(r) \in SUBSET Axes(out) /\ q \in [Support(r) -> Support(r)]
      /\ Permuted(out, q) = out
  BY DEF WellFormed, Symmetric
<1> QED BY <1>1, PermutedCells

\* fnp.stack keeps what both operands have, with the new axis out of the way.
THEOREM StackKeepsTags ==
  ASSUME Honest(array), NEW other, Honest(other),
         NEW k \in 1 .. Rank + 1, Stack(other, k)
  PROVE  Honest(array')
<1> DEFINE s == array.shape
           out == [Inserted(s, {k}) EXCEPT ![k] = 2]
           n == Len(out)
           after == [a \in 1 .. n |-> IF a < k THEN a ELSE a + 1]
           d1 == [c \in Cells(out) |-> array.val[Without(c, {k})]]
           d2 == [c \in Cells(out) |-> other.val[Without(c, {k})]]
           data == [c \in Cells(out) |-> IF c[k] = 0 THEN <<1, d1[c]>> ELSE <<2, d2[c]>>]
           g == Remap(array.tag, after)
           h == Remap(other.tag, after)
           r == TransportStack(array.tag, other.tag, n, k)
<1>1. /\ s \in Seq(Nat) /\ Len(s) \in Nat /\ other.shape = s
      /\ DOMAIN array.val = Cells(s) /\ DOMAIN other.val = Cells(s)
      /\ Fits(array.tag, Len(s)) /\ Fits(other.tag, Len(s))
  BY DEF Stack, Honest, Typed
<1>2. Makes("stack", out, data, r, other.sound)
  <2>1. data = [c \in Cells(out) |->
                  IF c[k] = 0 THEN <<1, array.val[Without(c, {k})]>>
                  ELSE <<2, other.val[Without(c, {k})]>>]
    OBVIOUS
  <2> HIDE DEF data
  <2> QED BY <2>1 DEF Stack
<1>3. Inserts(s, {k}, out, after)
  <2>1. Widens(s, k, 2, out)
    BY <1>1 DEF Rank, Widens
  <2> HIDE DEF out, s
  <2> QED BY <2>1, OneInserted
<1>4. /\ out \in Seq(Nat) /\ n \in Nat /\ Axes(out) = 1 .. n /\ k \in Axes(out)
  <2> HIDE DEF out, after
  <2>1. out \in Seq(Nat) /\ k \in Axes(out)
    BY <1>3 DEF Inserts
  <2> QED BY <2>1, ShapeFacts
<1>5. /\ DOMAIN d1 = Cells(out) /\ DOMAIN d2 = Cells(out) /\ DOMAIN data = Cells(out)
      /\ \A c \in Cells(out) : /\ d1[c] = array.val[Without(c, {k})]
                               /\ d2[c] = other.val[Without(c, {k})]
                               /\ data[c] = IF c[k] = 0 THEN <<1, d1[c]>> ELSE <<2, d2[c]>>
  <2> HIDE DEF out
  <2> QED OBVIOUS
<1> HIDE DEF out, after, d1, d2, data
<1>6. r # None => array.tag # None /\ other.tag # None /\ g # None /\ h # None
                  /\ r = Intersect(g, h, n)
  BY DEF TransportStack, Intersect, after, Remap
<1>7. ASSUME r # None
      PROVE  /\ WellFormed(r) /\ Support(r) \subseteq 1 .. n
             /\ Within(r, g, n) /\ Within(r, h, n)
             /\ WellFormed(g) /\ k \notin Support(g)
  <2> HIDE DEF r
  <2>1. WellFormed(g) /\ Support(g) \subseteq Axes(out) \ {k}
    BY <1>1, <1>3, <1>6, <1>7, InsertedFits
  <2>2. WellFormed(h) /\ Support(h) \subseteq Axes(out) \ {k}
    BY <1>1, <1>3, <1>6, <1>7, InsertedFits
  <2>3. Support(g) \subseteq 1 .. n /\ Support(h) \subseteq 1 .. n /\ k \notin Support(g)
    BY <1>4, <2>1, <2>2
  <2> HIDE DEF g, h
  <2>4. /\ WellFormed(r) /\ Support(r) \subseteq 1 .. n
        /\ Within(r, g, n) /\ Within(r, h, n)
    BY <1>4, <1>6, <1>7, <2>1, <2>2, <2>3, IntersectFits
  <2> QED BY <2>1, <2>3, <2>4
<1>8. Fits(r, Len(out))
  <2> HIDE DEF r
  <2> QED BY <1>7 DEF Fits
<1>9. ASSUME other.sound, array.sound, r # None PROVE HoldsFor(r, out, data)
  <2>1. HoldsFor(g, out, d1)
    <3>1. WellFormed(array.tag) /\ HoldsFor(array.tag, s, array.val)
      BY <1>1, <1>6, <1>9 DEF Honest, Fits
    <3>2. Unfolds(s, array.val, {k}, out, d1)
      BY <1>1, <1>5 DEF Unfolds
    <3> QED BY <1>3, <1>6, <1>9, <3>1, <3>2, InsertedHolds
  <2>2. HoldsFor(h, out, d2)
    <3>1. WellFormed(other.tag) /\ HoldsFor(other.tag, s, other.val)
      BY <1>1, <1>6, <1>9 DEF Honest, Fits
    <3>2. Unfolds(s, other.val, {k}, out, d2)
      BY <1>1, <1>5 DEF Unfolds
    <3> QED BY <1>3, <1>6, <1>9, <3>1, <3>2, InsertedHolds
  <2> HIDE DEF g, h, r
  <2>3. ASSUME NEW q \in r.perms PROVE Symmetric(out, data, q)
    <3>1. PICK p1 \in g.perms, p2 \in h.perms : Alike(p1, q, n) /\ Alike(p2, q, n)
      BY <1>7, <1>9 DEF Within
    <3>2. Symmetric(out, d1, p1) /\ Symmetric(out, d2, p2)
      BY <2>1, <2>2, <3>1 DEF HoldsFor
    <3>3. Symmetric(out, d1, q)
      BY <1>4, <1>5, <3>1, <3>2, AlikeSymmetric
    <3>4. Symmetric(out, d2, q)
      BY <1>4, <1>5, <3>1, <3>2, AlikeSymmetric
    <3>5. Image(q, k) = k
      <4>1. Image(p1, k) = k
        BY <1>7, <1>9, <3>1 DEF Image, WellFormed
      <4> QED BY <1>4, <3>1, <4>1 DEF Alike
    <3>6. \A c \in Cells(out) : Permuted(c, q) \in Cells(out)
      BY <1>4, <1>5, <1>7, <1>9, <3>3, FittingCells
    <3>7. Pairs(out, d1, d2, data, q, k)
      BY <1>4, <1>5, <3>5, <3>6 DEF Pairs
    <3> QED BY <3>3, <3>4, <3>7, PairedSymmetry
  <2> QED BY <1>4, <1>7, <1>9, <2>3 DEF HoldsFor
<1> HIDE DEF g, h, r, n, s
<1> QED BY <1>2, <1>4, <1>5, <1>8, <1>9, MakesHonest

-----------------------------------------------------------------------------
(***************************************************************************)
(* Removing axes and putting them in front: getitem, squeeze and tile; two *)
(* groups at once.                                                         *)
(***************************************************************************)
\* The data of an array of shape out without the axes K; of axis k of shape s the
\* sized[k] cells kept[k] are left, the first of them if the axis is removed.
Picks(s, val, K, sized, kept, out, data) ==
  /\ s \in Seq(Nat) /\ sized \in Seq(Nat) /\ Len(sized) = Len(s) /\ K \in SUBSET Axes(s)
  /\ out = Without(sized, K)
  /\ \A k \in Axes(s) : \A x \in 0 .. sized[k] - 1 : kept[k][x] \in 0 .. s[k] - 1
  /\ \A k \in K : 0 < sized[k]
  /\ DOMAIN val = Cells(s) /\ DOMAIN data = Cells(out)
  /\ \A c \in Cells(out) :
       data[c] = val[[k \in Axes(s) |-> kept[k][IF k \in K THEN 0 ELSE c[Removing(s, K)[k]]]]]

\* A group that acts on whole axes that stay.
Spares(g, s, K, sized, kept) ==
  /\ WellFormed(g) /\ Support(g) \subseteq Axes(s) \ K
  /\ \A a \in Support(g) : sized[a] = s[a] /\ \A x \in 0 .. s[a] - 1 : kept[a][x] = x

\* What is left of a shape when axes are removed.
LEMMA RemovedShape ==
  ASSUME NEW s \in Seq(Nat), NEW sized \in Seq(Nat), Len(sized) = Len(s),
         NEW K \in SUBSET Axes(s), NEW out, out = Without(sized, K)
  PROVE  /\ Moves(s, out, Axes(s) \ K, Removing(s, K))
         /\ \A a \in Axes(s) \ K : out[Removing(s, K)[a]] = sized[a]
<1> DEFINE A == Axes(s) \ K
<1>1. Axes(sized) = Axes(s) /\ Removing(sized, K) = Removing(s, K) /\ Len(s) \in Nat
  BY DEF Axes, Removing
<1>2. /\ out \in Seq(Nat) /\ Axes(out) = 1 .. Cardinality(A)
      /\ \A a \in A : out[Removing(s, K)[a]] = sized[a]
  <2>1. /\ out \in Seq(Nat) /\ Axes(out) = 1 .. Cardinality(Axes(sized) \ K)
        /\ \A a \in Axes(sized) \ K : out[Removing(sized, K)[a]] = sized[a]
    BY WithoutKeeps
  <2> QED BY <1>1, <2>1
<1>3. /\ \A a \in A : Removing(s, K)[a] \in 1 .. Cardinality(A)
      /\ \A a, b \in A : Removing(s, K)[a] = Removing(s, K)[b] => a = b
  <2>1. /\ Removing(s, K) \in [A -> 1 .. Cardinality(A)]
        /\ \A a, b \in A : Removing(s, K)[a] = Removing(s, K)[b] => a = b
    BY <1>1, RemovingNumbers
  <2> HIDE DEF A
  <2> QED BY <2>1
<1> QED BY <1>2, <1>3 DEF Moves

\* Such a group fits the result and holds for it.
LEMMA PicksHolds ==
  ASSUME NEW s, NEW val, NEW K, NEW sized, NEW kept, NEW out, NEW data, NEW g, NEW h,
         Picks(s, val, K, sized, kept, out, data), Spares(g, s, K, sized, kept),
         h = Remap(g, Removing(s, K)), h # None
  PROVE  /\ WellFormed(h) /\ Support(h) \subseteq Axes(out)
         /\ HoldsFor(g, s, val) => HoldsFor(h, out, data)
<1> DEFINE A == Axes(s) \ K
           to == Removing(s, K)
           Src(c) == [k \in Axes(s) |-> kept[k][IF k \in K THEN 0 ELSE c[to[k]]]]
           from == [c \in Cells(out) |-> Src(c)]
<1>0. /\ s \in Seq(Nat) /\ sized \in Seq(Nat) /\ Len(sized) = Len(s) /\ K \in SUBSET Axes(s)
      /\ out = Without(sized, K)
      /\ \A k \in Axes(s) : \A x \in 0 .. sized[k] - 1 : kept[k][x] \in 0 .. s[k] - 1
      /\ \A k \in K : 0 < sized[k]
      /\ DOMAIN val = Cells(s) /\ DOMAIN data = Cells(out)
      /\ \A c \in Cells(out) : data[c] = val[Src(c)]
  BY DEF Picks
<1>1. Moves(s, out, A, to) /\ \A a \in A : out[to[a]] = sized[a]
  <2>1. /\ s \in Seq(Nat) /\ sized \in Seq(Nat) /\ Len(sized) = Len(s)
        /\ K \in SUBSET Axes(s) /\ out = Without(sized, K)
    BY <1>0
  <2> QED BY <2>1, RemovedShape
<1>2. /\ out \in Seq(Nat) /\ A \in SUBSET Axes(s)
      /\ \A a \in A : to[a] \in Axes(out)
      /\ \A a, b \in A : to[a] = to[b] => a = b
  <2> HIDE DEF to, A
  <2> QED BY <1>1 DEF Moves
<1>3. /\ WellFormed(g)
      /\ \A a \in Support(g) : /\ a \in A /\ sized[a] = s[a]
                               /\ \A x \in 0 .. s[a] - 1 : kept[a][x] = x
  BY DEF Spares
<1>4. \A c \in Cells(out) : from[c] = Src(c)
  OBVIOUS
<1>5. ASSUME NEW c \in Cells(out)
      PROVE  /\ from[c] \in Cells(s)
             /\ \A k \in K : from[c][k] = kept[k][0]
             /\ \A k \in A : from[c][k] = kept[k][c[to[k]]] /\ c[to[k]] \in 0 .. sized[k] - 1
  <2>1. \A b \in Axes(out) : c[b] \in 0 .. out[b] - 1
    BY <1>2, CellsOfShape
  <2>2. /\ \A k \in K : from[c][k] = kept[k][0]
        /\ \A k \in A : from[c][k] = kept[k][c[to[k]]]
        /\ from[c] = [k \in Axes(s) |-> from[c][k]]
    <3>1. from[c] = Src(c)
      BY <1>4
    <3> HIDE DEF from, to
    <3> QED BY <1>0, <3>1
  <2>5. ASSUME NEW k \in A PROVE c[to[k]] \in 0 .. sized[k] - 1
    <3>1. to[k] \in Axes(out) /\ out[to[k]] = sized[k]
      BY <1>1, <1>2
    <3> HIDE DEF to
    <3> QED BY <2>1, <3>1
  <2>3. ASSUME NEW k \in Axes(s) PROVE from[c][k] \in 0 .. s[k] - 1
    <3>0. \A x \in 0 .. sized[k] - 1 : kept[k][x] \in 0 .. s[k] - 1
      BY <1>0
    <3>1. CASE k \in K
      <4>1. from[c][k] = kept[k][0] /\ 0 < sized[k] /\ sized[k] \in Nat
        <5>1. k \in Axes(sized)
          BY <1>0 DEF Axes
        <5> QED BY <1>0, <2>2, <3>1, <5>1, ShapeFacts
      <4>2. 0 \in 0 .. sized[k] - 1
        BY <4>1
      <4> HIDE DEF from
      <4> QED BY <3>0, <4>1, <4>2
    <3>2. CASE k \in A
      <4>1. from[c][k] = kept[k][c[to[k]]]
        BY <2>2, <3>2
      <4>2. c[to[k]] \in 0 .. sized[k] - 1
        BY <2>5, <3>2
      <4> HIDE DEF from, to
      <4> QED BY <3>0, <4>1, <4>2
    <3> QED BY <3>1, <3>2
  <2>4. from[c] \in Cells(s)
    <3> HIDE DEF from
    <3> QED BY <1>0, <2>2, <2>3, CellsOfShape
  <2> HIDE DEF from, to, A
  <2> QED BY <2>2, <2>4, <2>5
<1> HIDE DEF to, from, A
<1>6. WellFormed(h) /\ Support(h) \subseteq Axes(out)
  <2>1. Len(out) \in Nat /\ Axes(out) = 1 .. Len(out)
    BY <1>2, ShapeFacts
  <2>2. /\ \A a \in Support(g) : to[a] \in 1 .. Len(out)
        /\ \A a, b \in Support(g) : to[a] = to[b] => a = b
        /\ h = Remap(g, to)
    BY <1>2, <1>3, <2>1 DEF to
  <2>3. WellFormed(h) /\ \A b : b \in Support(h) <=> \E a \in Support(g) : b = to[a]
    BY <1>3, <2>1, <2>2, RemapFits
  <2> QED BY <2>1, <2>2, <2>3
<1>7. ASSUME HoldsFor(g, s, val) PROVE HoldsFor(h, out, data)
  <2>1. IsRead(s, val, out, data, from)
    BY <1>0, <1>4 DEF IsRead, to
  <2>2. ASSUME NEW p \in g.perms
        PROVE  /\ Reads(s, out, A, to, p, from)
               /\ \A a \in Support(g) : out[to[p[a]]] = out[to[a]]
    <3>1. /\ DOMAIN p = Support(g)
          /\ \A a \in Support(g) : p[a] \in Support(g) /\ s[p[a]] = s[a]
      <4>1. DOMAIN p = Support(g)
        BY <1>3 DEF WellFormed
      <4> QED BY <1>0, <1>3, <1>7, <4>1, ExtentsAgree
    <3>2. \A a \in Support(g) : out[to[p[a]]] = out[to[a]]
      BY <1>1, <1>3, <3>1
    <3>3. \A c, d \in Cells(out) : \A a \in Axes(s) \ A :
            from[c][a] = from[d][a] /\ a \notin DOMAIN p
      <4>1. \A a \in Axes(s) \ A : a \in K
        BY DEF A
      <4> QED BY <1>3, <1>5, <3>1, <4>1
    <3>4. \A c, d \in Cells(out) : \A a \in A :
            /\ c[to[a]] = d[to[a]] => from[c][a] = from[d][a]
            /\ a \in DOMAIN p /\ c[to[a]] = d[to[p[a]]] => from[c][a] = from[d][p[a]]
      <4>1. \A c \in Cells(out) : \A a \in A :
              from[c][a] = kept[a][c[to[a]]] /\ c[to[a]] \in 0 .. sized[a] - 1
        BY <1>5
      <4>2. \A a \in Support(g) : a \in A /\ p[a] \in Support(g)
        BY <1>3, <3>1
      <4>3. \A c \in Cells(out) : \A a \in Support(g) : from[c][a] = c[to[a]]
        BY <1>3, <4>1
      <4>4. \A c, d \in Cells(out) : \A a \in A : c[to[a]] = d[to[a]] => from[c][a] = from[d][a]
        BY <4>1
      <4>5. \A c, d \in Cells(out) : \A a \in Support(g) :
              c[to[a]] = d[to[p[a]]] => from[c][a] = from[d][p[a]]
        BY <4>2, <4>3
      <4> QED BY <3>1, <4>4, <4>5
    <3>5. \A c \in Cells(out) : from[c] \in Cells(s)
      BY <1>5
    <3>6. Reads(s, out, A, to, p, from)
      BY <3>3, <3>4, <3>5 DEF Reads
    <3> QED BY <3>2, <3>6
  <2>3. ReadsAlike(s, out, A, to, from, g)
    BY <1>3, <2>2 DEF ReadsAlike
  <2>4. h = Remap(g, to)
    BY DEF to
  <2> QED BY <1>1, <1>3, <1>7, <2>1, <2>3, <2>4, RemapHolds
<1> QED BY <1>6, <1>7
\* Group h is what the rule for slices leaves of the group g of an array.
Sliced(s, val, g, removed, resized, h) ==
  /\ s \in Seq(Nat) /\ DOMAIN val = Cells(s) /\ Fits(g, Len(s))
  /\ h = SliceGroup(g, removed, resized) /\ h # None

\* propagate_symmetry_slice(): removed axes stay where they are, so they may be
\* indexed differently, and the group acts on no axis that is cut.
LEMMA SliceRule ==
  ASSUME NEW s, NEW val, NEW g, NEW removed, NEW resized, NEW h,
         Sliced(s, val, g, removed, resized, h)
  PROVE  /\ WellFormed(h) /\ Support(h) \subseteq Axes(s) \ (removed \cup resized)
         /\ HoldsFor(g, s, val) => HoldsFor(h, s, val)
         /\ g # None
<1> DEFINE K == Support(g) \ removed
           perms == Fixing(g, removed)
<1>1. /\ g # None /\ WellFormed(g) /\ Support(g) \subseteq 1 .. Len(s)
      /\ h = Project(g, perms, K) /\ resized \cap Support(g) = {}
      /\ Len(s) \in Nat /\ Axes(s) = 1 .. Len(s)
      /\ s \in Seq(Nat) /\ DOMAIN val = Cells(s) /\ h # None
  BY DEF Sliced, SliceGroup, Fits, Axes
<1>2. /\ perms \in SUBSET g.perms
      /\ \A p \in perms : \A a \in Support(g) \ K : p[a] = a
  BY DEF Fixing
<1>3. \A p \in perms : \A a \in K : p[a] \in K
  <2> SUFFICES ASSUME NEW p \in perms, NEW a \in K PROVE p[a] \in K
    OBVIOUS
  <2>1. /\ p \in [Support(g) -> Support(g)]
        /\ \A b, c \in Support(g) : p[b] = p[c] => b = c
    BY <1>1, <1>2 DEF WellFormed
  <2>2. \A b \in Support(g) \ K : p[b] = b
    BY <1>2
  <2>3. a \in Support(g) /\ p[a] \in Support(g)
    BY <2>1
  <2>4. p[a] \notin K => p[p[a]] = p[a]
    BY <2>2, <2>3
  <2> HIDE DEF perms, K
  <2> QED BY <2>1, <2>3, <2>4
<1>4. K \in SUBSET Support(g)
  OBVIOUS
<1> HIDE DEF perms, K
<1>5. WellFormed(h) /\ \A a : a \in Support(h) <=> a \in K
  <2>1. WellFormed(g) /\ h = Project(g, perms, K) /\ h # None /\ perms \in SUBSET g.perms
    BY <1>1, <1>2
  <2> QED BY <1>3, <1>4, <2>1, ProjectFits
<1>6. Within(h, g, Len(s))
  BY <1>1, <1>2, <1>3, <1>4, ProjectWithin
<1>7. Support(h) \subseteq Axes(s) \ (removed \cup resized)
  BY <1>1, <1>5 DEF K
<1>8. ASSUME HoldsFor(g, s, val) PROVE HoldsFor(h, s, val)
  BY <1>1, <1>6, <1>7, <1>8, WithinHolds
<1> QED BY <1>1, <1>5, <1>7, <1>8

\* What a key leaves of an axis are cells of it, and the whole axis is left in order.
LEMMA CutFacts ==
  ASSUME NEW n \in Nat, NEW c \in Cuts(n)
  PROVE  /\ c.size \in Nat
         /\ \A x \in 0 .. c.size - 1 : c.kept[x] \in 0 .. n - 1
         /\ c.all => c.size = n /\ \A x \in 0 .. n - 1 : c.kept[x] = x
<1>1. CASE c = [all |-> TRUE, size |-> n, kept |-> [x \in 0 .. n - 1 |-> x]]
  <2>1. c.size = n /\ \A x \in 0 .. n - 1 : c.kept[x] = x
    BY <1>1
  <2> QED BY <2>1
<1>2. CASE c # [all |-> TRUE, size |-> n, kept |-> [x \in 0 .. n - 1 |-> x]]
  <2>1. /\ \A x \in 0 .. c.size - 1 : c.kept[x] \in 0 .. n - 1
        /\ \E start \in 0 .. n - 1, step \in (-n .. n) \ {0}, size \in 1 .. n :
             c = [all |-> FALSE, size |-> size,
                  kept |-> [x \in 0 .. size - 1 |-> start + step * x]]
    BY <1>2 DEF Cuts
  <2>2. c.all = FALSE /\ c.size \in 1 .. n
    BY <2>1
  <2> QED BY <2>1, <2>2
<1> QED BY <1>1, <1>2

\* x[key]: what is left of a tag when axes are removed by integers and others are
\* cut by slices, of any start and step, forwards or backwards, that leave a cell.
THEOREM GetItemKeepsTags ==
  ASSUME Honest(array), NEW cut, \A a \in All : cut[a] \in Cuts(array.shape[a]),
         NEW at \in SUBSET {a \in All : cut[a].size = 1 /\ ~ cut[a].all}, GetItem(at, cut)
  PROVE  Honest(array')
<1> DEFINE s == array.shape
           sized == [k \in Axes(s) |-> cut[k].size]
           kept == [k \in Axes(s) |-> cut[k].kept]
           out == Without(sized, at)
           resized == {k \in Axes(s) \ at : ~ cut[k].all}
           Src(c) == [k \in Axes(s) |-> kept[k][IF k \in at THEN 0 ELSE c[Removing(s, at)[k]]]]
           data == [c \in Cells(out) |-> array.val[Src(c)]]
           g == SliceGroup(array.tag, at, resized)
           h == Remap(g, Removing(s, at))
<1>1. /\ s \in Seq(Nat) /\ DOMAIN array.val = Cells(s) /\ Fits(array.tag, Len(s))
      /\ at \in SUBSET Axes(s) /\ Len(s) \in Nat /\ Axes(s) = 1 .. Len(s)
  BY DEF Honest, Typed, All, Axes
<1>2. Makes("getitem", out, data, h, TRUE)
  <2> DEFINE D(c) == Extended(s, at, c, Zeros(s))
             From(c) == [k \in Axes(s) |-> cut[k].kept[D(c)[k]]]
  <2>1. \A c : From(c) = Src(c)
    <3> SUFFICES ASSUME NEW c PROVE From(c) = Src(c)
      OBVIOUS
    <3>1. \A k \in Axes(s) : D(c)[k] = IF k \in at THEN 0 ELSE c[Removing(s, at)[k]]
      BY DEF Extended, Zeros
    <3>2. \A k \in Axes(s) : kept[k] = cut[k].kept
      OBVIOUS
    <3> HIDE DEF D, kept
    <3> QED BY <3>1, <3>2
  <2>2. Makes("getitem", out, [c \in Cells(out) |-> array.val[From(c)]], h, TRUE)
    BY DEF GetItem
  <2>3. [c \in Cells(out) |-> array.val[From(c)]] = data
    <3> HIDE DEF From, Src, out
    <3> QED BY <2>1
  <2> HIDE DEF From, data, out, h
  <2> QED BY <2>2, <2>3
<1>3. ASSUME NEW k \in Axes(s)
      PROVE  /\ sized[k] = cut[k].size /\ cut[k].size \in Nat /\ (k \in at => 0 < sized[k])
             /\ \A x \in 0 .. sized[k] - 1 : kept[k][x] \in 0 .. s[k] - 1
             /\ cut[k].all => sized[k] = s[k] /\ \A x \in 0 .. s[k] - 1 : kept[k][x] = x
  <2>1. cut[k] \in Cuts(s[k]) /\ s[k] \in Nat /\ (k \in at => cut[k].size = 1)
    BY <1>1, ShapeFacts DEF All
  <2>2. /\ cut[k].size \in Nat
        /\ \A x \in 0 .. cut[k].size - 1 : cut[k].kept[x] \in 0 .. s[k] - 1
        /\ cut[k].all => /\ cut[k].size = s[k]
                         /\ \A x \in 0 .. s[k] - 1 : cut[k].kept[x] = x
    BY <2>1, CutFacts
  <2>3. sized[k] = cut[k].size /\ kept[k] = cut[k].kept
    OBVIOUS
  <2> HIDE DEF kept, sized
  <2> QED BY <2>1, <2>2, <2>3
<1>4. sized \in Seq(Nat) /\ Len(sized) = Len(s)
  <2>1. \A k \in 1 .. Len(s) : cut[k].size \in Nat
    BY <1>1, <1>3
  <2> QED BY <1>1, <2>1
<1>5. DOMAIN data = Cells(out) /\ \A c \in Cells(out) : data[c] = array.val[Src(c)]
  OBVIOUS
<1>6. Picks(s, array.val, at, sized, kept, out, data)
  <2>1. \A k \in Axes(s) : \A x \in 0 .. sized[k] - 1 : kept[k][x] \in 0 .. s[k] - 1
    BY <1>3
  <2>2. \A k \in at : 0 < sized[k]
    <3>1. \A k \in Axes(s) : k \in at => 0 < sized[k]
      BY <1>3
    <3> HIDE DEF sized
    <3> QED BY <1>1, <3>1
  <2>3. out = Without(sized, at)
    OBVIOUS
  <2>4. \A c \in Cells(out) :
          data[c] = array.val[[k \in Axes(s) |->
                                 kept[k][IF k \in at THEN 0 ELSE c[Removing(s, at)[k]]]]]
    BY <1>5
  <2> HIDE DEF sized, kept, data, out
  <2> QED BY <1>1, <1>4, <1>5, <2>1, <2>2, <2>3, <2>4 DEF Picks
<1>7. ASSUME h # None
      PROVE  /\ WellFormed(h) /\ Support(h) \subseteq Axes(out)
             /\ HoldsFor(array.tag, s, array.val) => HoldsFor(h, out, data)
             /\ array.tag # None
  <2>1. g # None
    BY <1>7 DEF Remap
  <2> DEFINE tag == array.tag
             val == array.val
             to == Removing(s, at)
  <2>2. /\ Fits(tag, Len(s)) /\ DOMAIN val = Cells(s)
        /\ g = SliceGroup(tag, at, resized) /\ h = Remap(g, to)
    BY <1>1
  <2>3. Picks(s, val, at, sized, kept, out, data)
    BY <1>6
  <2>4. \A k \in Axes(s) \ (at \cup resized) :
          sized[k] = s[k] /\ \A x \in 0 .. s[k] - 1 : kept[k][x] = x
    <3>1. \A k \in Axes(s) \ (at \cup resized) : cut[k].all
      BY DEF resized
    <3> HIDE DEF kept, sized, resized
    <3> QED BY <1>3, <3>1
  <2> HIDE DEF g, h, tag, val, s, resized, kept, sized, out, data
  <2>5. /\ WellFormed(g) /\ Support(g) \subseteq Axes(s) \ (at \cup resized)
        /\ HoldsFor(tag, s, val) => HoldsFor(g, s, val)
        /\ tag # None
    <3>1. Sliced(s, val, tag, at, resized, g)
      BY <1>1, <2>1, <2>2 DEF Sliced
    <3> QED BY <3>1, SliceRule
  <2>6. Spares(g, s, at, sized, kept)
    BY <2>4, <2>5 DEF Spares
  <2>7. h = Remap(g, Removing(s, at))
    BY <2>2 DEF to
  <2>8. /\ WellFormed(h) /\ Support(h) \subseteq Axes(out)
        /\ HoldsFor(g, s, val) => HoldsFor(h, out, data)
    BY <1>7, <2>3, <2>6, <2>7, PicksHolds
  <2> QED BY <2>5, <2>8 DEF tag, val
<1> HIDE DEF sized, kept, data, h, g
<1>8. out \in Seq(Nat)
  BY <1>4, WithoutKeeps
<1> HIDE DEF out, s
<1>9. Fits(h, Len(out))
  BY <1>7, <1>8, ShapeFacts DEF Fits
<1>10. array.sound /\ h # None => HoldsFor(h, out, data)
  BY <1>7 DEF Honest, s
<1> QED BY <1>2, <1>5, <1>8, <1>9, <1>10, MakesHonest
\* squeeze: a tag that does not act on the axes that are dropped is kept.
THEOREM SqueezeKeepsTags ==
  ASSUME Honest(array), NEW K \in SUBSET All, Squeeze(K)
  PROVE  Honest(array')
<1> DEFINE s == array.shape
           g == array.tag
           val == array.val
           kept == [k \in Axes(s) |-> [x \in 0 .. s[k] - 1 |-> x]]
           out == Without(s, K)
           Src(c) == [k \in Axes(s) |-> kept[k][IF k \in K THEN 0 ELSE c[Removing(s, K)[k]]]]
           data == [c \in Cells(out) |-> val[Extended(s, K, c, Zeros(s))]]
           h == TransportSqueeze(g, s, K)
<1>1. /\ s \in Seq(Nat) /\ DOMAIN val = Cells(s) /\ Fits(g, Len(s))
      /\ K \in SUBSET Axes(s) /\ Len(s) \in Nat /\ Axes(s) = 1 .. Len(s)
      /\ \A k \in Axes(s) : s[k] \in Nat
  BY DEF Honest, Typed, All, Axes
<1>2. Makes("squeeze", out, data, h, TRUE) /\ \A k \in K : s[k] = 1
  BY DEF Squeeze
<1>3. out \in Seq(Nat)
  BY <1>1, WithoutKeeps
<1>10. \A k \in Axes(s) : \A x \in 0 .. s[k] - 1 : kept[k][x] = x
  OBVIOUS
<1>4. ASSUME NEW c \in Cells(out) PROVE data[c] = val[Src(c)]
  <2>1. ASSUME NEW k \in Axes(s) \ K PROVE c[Removing(s, K)[k]] \in 0 .. s[k] - 1
    <3>1. Removing(s, K)[k] \in Axes(out) /\ out[Removing(s, K)[k]] = s[k]
      <4>1. s \in Seq(Nat) /\ out = Without(s, K)
        BY <1>1
      <4> HIDE DEF out, s
      <4>2. \A a \in Axes(s) \ K : /\ Removing(s, K)[a] \in Axes(Without(s, K))
                                  /\ Without(s, K)[Removing(s, K)[a]] = s[a]
        BY <4>1, WithoutKeeps
      <4> QED BY <4>1, <4>2
    <3>2. \A b \in Axes(out) : c[b] \in 0 .. out[b] - 1
      <4>1. out \in Seq(Nat) /\ c \in Cells(out)
        BY <1>3
      <4> HIDE DEF out
      <4> QED BY <4>1, CellsOfShape
    <3> HIDE DEF out, s
    <3> QED BY <3>1, <3>2
  <2>2. \A k \in K : 0 \in 0 .. s[k] - 1
    BY <1>2
  <2>3. \A k \in Axes(s) :
          (IF k \in K THEN 0 ELSE c[Removing(s, K)[k]])
            = kept[k][IF k \in K THEN 0 ELSE c[Removing(s, K)[k]]]
    <3> HIDE DEF kept, s
    <3> QED BY <1>10, <2>1, <2>2
  <2>4. Extended(s, K, c, Zeros(s)) = Src(c)
    <3>1. \A k \in Axes(s) : Zeros(s)[k] = 0
      BY DEF Zeros
    <3> HIDE DEF kept, s
    <3> QED BY <2>3, <3>1 DEF Extended
  <2> HIDE DEF Src, kept
  <2> QED BY <2>4
<1>5. DOMAIN data = Cells(out)
  OBVIOUS
<1>6. Picks(s, val, K, s, kept, out, data)
  <2>1. \A c \in Cells(out) :
          data[c] = val[[k \in Axes(s) |-> kept[k][IF k \in K THEN 0 ELSE c[Removing(s, K)[k]]]]]
    BY <1>4
  <2>2. \A k \in Axes(s) : \A x \in 0 .. s[k] - 1 : kept[k][x] \in 0 .. s[k] - 1
    BY <1>10
  <2>3. \A k \in K : 0 < s[k]
    BY <1>2
  <2>4. out = Without(s, K)
    OBVIOUS
  <2> HIDE DEF kept, s, data, out, val
  <2> QED BY <1>1, <1>5, <2>1, <2>2, <2>3, <2>4 DEF Picks
<1> HIDE DEF data, Src
<1>7. ASSUME h # None
      PROVE  /\ g # None /\ WellFormed(h) /\ Support(h) \subseteq Axes(out)
             /\ HoldsFor(g, s, val) => HoldsFor(h, out, data)
  <2>1. g # None /\ K \cap Support(g) = {} /\ h = Remap(g, Removing(s, K))
    BY <1>7 DEF TransportSqueeze
  <2> HIDE DEF kept, s, out, val, g, h
  <2>2. Spares(g, s, K, s, kept)
    BY <1>1, <1>10, <2>1 DEF Spares, Fits
  <2> QED BY <1>6, <1>7, <2>1, <2>2, PicksHolds
<1>8. Fits(h, Len(out))
  <2> HIDE DEF h, out
  <2> QED BY <1>3, <1>7, ShapeFacts DEF Fits
<1>9. array.sound /\ h # None => HoldsFor(h, out, data)
  BY <1>7 DEF Honest
<1> HIDE DEF h, out, kept, s, val, g
<1> QED BY <1>2, <1>3, <1>5, <1>8, <1>9, MakesHonest

\* The data of an array tiled to shape out.
Tiles(s, val, n, reps, out, data) ==
  /\ s \in Seq(Nat) /\ n \in Nat /\ out \in Seq(Nat) /\ Len(out) = Len(s) + n
  /\ \A k \in Axes(s) : reps[k + n] \in Nat /\ out[k + n] = s[k] * reps[k + n]
  /\ DOMAIN val = Cells(s) /\ DOMAIN data = Cells(out)
  /\ \A c \in Cells(out) : data[c] = val[[k \in Axes(s) |-> c[k + n] % s[k]]]

\* A group whose axes are repeated equally often holds for the tiled array.
LEMMA TilesHolds ==
  ASSUME NEW s, NEW val, NEW n, NEW reps, NEW out, NEW data, NEW g, NEW h,
         Tiles(s, val, n, reps, out, data), WellFormed(g), HoldsFor(g, s, val),
         \A p \in g.perms : \A a \in Support(g) : reps[p[a] + n] = reps[a + n],
         h = Remap(g, Shifted(1 .. Len(s), n)), h # None
  PROVE  HoldsFor(h, out, data)
<1> DEFINE A == Axes(s)
           to == Shifted(1 .. Len(s), n)
           from == [c \in Cells(out) |-> [k \in Axes(s) |-> c[k + n] % s[k]]]
<1>0. /\ s \in Seq(Nat) /\ n \in Nat /\ out \in Seq(Nat) /\ Len(out) = Len(s) + n
      /\ \A k \in Axes(s) : reps[k + n] \in Nat /\ out[k + n] = s[k] * reps[k + n]
      /\ DOMAIN val = Cells(s) /\ DOMAIN data = Cells(out)
      /\ \A c \in Cells(out) : data[c] = val[[k \in Axes(s) |-> c[k + n] % s[k]]]
  BY DEF Tiles
<1>1. /\ Len(s) \in Nat /\ A = 1 .. Len(s) /\ Axes(out) = 1 .. Len(out)
      /\ \A k \in A : s[k] \in Nat
  BY <1>0, ShapeFacts
<1>2. \A a \in A : to[a] = a + n /\ a + n \in Axes(out) /\ a \in Nat
  BY <1>0, <1>1 DEF Shifted
<1>3. Moves(s, out, A, to)
  <2> HIDE DEF to, A
  <2>1. \A a, b \in A : to[a] = to[b] => a = b
    BY <1>0, <1>2
  <2> QED BY <1>0, <1>2, <2>1 DEF Moves, A
<1>4. ASSUME NEW c \in Cells(out)
      PROVE  /\ from[c] \in Cells(s)
             /\ \A a \in A : from[c][a] = c[to[a]] % s[a]
  <2>1. \A b \in Axes(out) : c[b] \in 0 .. out[b] - 1
    BY <1>0, CellsOfShape
  <2>2. \A a \in A : from[c][a] = c[to[a]] % s[a] /\ from[c][a] = c[a + n] % s[a]
    BY <1>2
  <2>3. ASSUME NEW a \in A PROVE from[c][a] \in 0 .. s[a] - 1
    <3>1. c[a + n] \in 0 .. out[a + n] - 1 /\ out[a + n] = s[a] * reps[a + n]
      BY <1>0, <1>2, <2>1
    <3>2. s[a] \in Nat /\ reps[a + n] \in Nat
      BY <1>0, <1>1
    <3>3. s[a] = 0 => s[a] * reps[a + n] = 0
      BY <3>2
    <3>4. s[a] > 0 /\ c[a + n] \in Nat
      <4> HIDE DEF from, to, A
      <4> QED BY <3>1, <3>2, <3>3
    <3>5. c[a + n] % s[a] \in 0 .. s[a] - 1
      BY <3>2, <3>4
    <3> QED BY <2>2, <3>5
  <2>4. from[c] = [a \in Axes(s) |-> from[c][a]]
    OBVIOUS
  <2>5. from[c] \in Cells(s)
    <3> HIDE DEF from
    <3> QED BY <1>0, <2>3, <2>4, CellsOfShape
  <2> HIDE DEF from, to
  <2> QED BY <2>2, <2>5
<1> HIDE DEF to, from
<1>5. IsRead(s, val, out, data, from)
  BY <1>0 DEF IsRead, from
<1>6. ASSUME NEW p \in g.perms
      PROVE  /\ Reads(s, out, A, to, p, from)
             /\ \A a \in Support(g) : out[to[p[a]]] = out[to[a]]
  <2>1. /\ DOMAIN p = Support(g)
        /\ \A a \in Support(g) : a \in A /\ p[a] \in A /\ s[p[a]] = s[a]
    <3>1. DOMAIN p = Support(g) /\ Support(g) \subseteq A
      BY DEF WellFormed, HoldsFor
    <3> QED BY <1>0, <3>1, ExtentsAgree
  <2>2. Reads(s, out, A, to, p, from)
    <3>1. \A c, d \in Cells(out) : \A a \in A :
            /\ c[to[a]] = d[to[a]] => from[c][a] = from[d][a]
            /\ a \in DOMAIN p /\ c[to[a]] = d[to[p[a]]] => from[c][a] = from[d][p[a]]
      <4> HIDE DEF A
      <4> QED BY <1>4, <2>1
    <3> QED BY <1>4, <3>1 DEF Reads
  <2>3. ASSUME NEW a \in Support(g) PROVE out[to[p[a]]] = out[to[a]]
    <3>1. reps[p[a] + n] = reps[a + n] /\ s[p[a]] = s[a] /\ p[a] \in A /\ a \in A
      BY <2>1
    <3>2. out[to[p[a]]] = s[p[a]] * reps[p[a] + n] /\ out[to[a]] = s[a] * reps[a + n]
      BY <1>0, <1>2, <3>1
    <3> QED BY <3>1, <3>2
  <2> QED BY <2>2, <2>3
<1>7. ReadsAlike(s, out, A, to, from, g)
  <2>1. Support(g) \subseteq A
    BY DEF HoldsFor
  <2> QED BY <1>6, <2>1 DEF ReadsAlike
<1>8. h = Remap(g, to)
  BY DEF to
<1> HIDE DEF A
<1> QED BY <1>3, <1>5, <1>7, <1>8, RemapHolds
\* fnp.tile: a tag whose axes are repeated equally often moves behind the new axes.
THEOREM TileKeepsTags ==
  ASSUME Honest(array), NEW m \in Rank .. Rank + 1, NEW reps \in [1 .. m -> 1 .. 2],
         Tile(reps)
  PROVE  Honest(array')
<1> DEFINE s == array.shape
           g == array.tag
           val == array.val
           n == Len(reps) - Len(s)
           long == Aligned(s, Len(reps))
           out == [k \in Axes(long) |-> long[k] * reps[k]]
           data == [c \in Cells(out) |-> val[[k \in Axes(s) |-> c[k + n] % s[k]]]]
           h == TransportTile(g, n, reps)
<1>1. /\ s \in Seq(Nat) /\ DOMAIN val = Cells(s) /\ Fits(g, Len(s))
      /\ Len(s) \in Nat /\ Axes(s) = 1 .. Len(s) /\ \A k \in Axes(s) : s[k] \in Nat
  BY DEF Honest, Typed, Axes
<1>2. /\ Len(reps) = m /\ m \in Nat /\ n \in Nat /\ m = Len(s) + n
      /\ \A k \in 1 .. m : reps[k] \in Nat
  BY <1>1 DEF Rank
<1>3. Makes("tile", out, data, h, TRUE)
  BY DEF Tile, Rank
<1>4. /\ Axes(long) = 1 .. m
      /\ \A k \in 1 .. m : long[k] \in Nat
      /\ \A k \in Axes(s) : k + n \in 1 .. m /\ long[k + n] = s[k]
  <2> HIDE DEF s, n
  <2>1. long = [k \in 1 .. m |-> IF k + Len(s) <= m THEN 1 ELSE s[k + Len(s) - m]]
    BY <1>2 DEF Aligned
  <2>2. Axes(long) = 1 .. m
    BY <1>2, <2>1 DEF Axes
  <2>3. \A k \in Axes(s) : k + n \in 1 .. m /\ ~ (k + n + Len(s) <= m) /\ k + n + Len(s) - m = k
    BY <1>1, <1>2, SMTT(30)
  <2>4. \A k \in 1 .. m : ~ (k + Len(s) <= m) => k + Len(s) - m \in Axes(s)
    BY <1>1, <1>2
  <2> HIDE DEF long
  <2> QED BY <1>1, <2>1, <2>2, <2>3, <2>4
<1>5. /\ out \in Seq(Nat) /\ Len(out) = m
      /\ \A k \in Axes(s) : reps[k + n] \in Nat /\ out[k + n] = s[k] * reps[k + n]
  <2> HIDE DEF long, s, n
  <2>1. out = [k \in 1 .. m |-> long[k] * reps[k]]
    BY <1>4
  <2>2. \A k \in 1 .. m : long[k] * reps[k] \in Nat
    BY <1>2, <1>4
  <2>3. out \in Seq(Nat) /\ Len(out) = m
    BY <1>2, <2>1, <2>2
  <2> HIDE DEF out
  <2> QED BY <1>2, <1>4, <2>1, <2>3
<1>6. DOMAIN data = Cells(out) /\ Tiles(s, val, n, reps, out, data)
  <2>1. DOMAIN data = Cells(out)
        /\ \A c \in Cells(out) : data[c] = val[[k \in Axes(s) |-> c[k + n] % s[k]]]
    OBVIOUS
  <2> HIDE DEF data, out, n, s, val
  <2> QED BY <1>1, <1>2, <1>5, <2>1 DEF Tiles
<1>7. ASSUME h # None
      PROVE  /\ g # None /\ WellFormed(g) /\ h = Remap(g, Shifted(1 .. Len(s), n))
             /\ \A p \in g.perms : \A a \in Support(g) : reps[p[a] + n] = reps[a + n]
  <2>1. Len(reps) - n = Len(s)
    BY <1>1, <1>2
  <2> HIDE DEF n, s, g
  <2> QED BY <1>1, <1>7, <2>1 DEF TransportTile, Fits
<1> HIDE DEF data, out, n, h, long
<1>8. Fits(h, Len(out))
  <2> SUFFICES ASSUME h # None PROVE WellFormed(h) /\ Support(h) \subseteq 1 .. m
    BY <1>5 DEF Fits
  <2> DEFINE to == Shifted(1 .. Len(s), n)
  <2>1. /\ \A a \in Support(g) : to[a] \in 1 .. m
        /\ \A a, b \in Support(g) : to[a] = to[b] => a = b
    <3> HIDE DEF s, g
    <3>1. \A a \in Support(g) : a \in 1 .. Len(s)
      BY <1>1, <1>7 DEF Fits
    <3>2. \A a \in 1 .. Len(s) : to[a] = a + n
      BY DEF Shifted
    <3> HIDE DEF to
    <3> QED BY <1>1, <1>2, <3>1, <3>2
  <2> HIDE DEF to, s, g
  <2>2. h = Remap(g, to) /\ WellFormed(g)
    BY <1>7 DEF to
  <2>3. WellFormed(h) /\ \A b : b \in Support(h) <=> \E a \in Support(g) : b = to[a]
    BY <1>2, <2>1, <2>2, RemapFits
  <2> QED BY <2>1, <2>3
<1>9. ASSUME array.sound, h # None PROVE HoldsFor(h, out, data)
  <2>1. HoldsFor(g, s, val)
    BY <1>7, <1>9 DEF Honest
  <2> HIDE DEF s, g, val
  <2> QED BY <1>6, <1>7, <1>9, <2>1, TilesHolds
<1> HIDE DEF s, g, val
<1> QED BY <1>3, <1>5, <1>6, <1>8, <1>9, MakesHonest

-----------------------------------------------------------------------------
\* The groups g and h act on different axes of a shape.
Apart(g, h, out) ==
  /\ WellFormed(g) /\ WellFormed(h)
  /\ Support(g) \subseteq Axes(out) /\ Support(h) \subseteq Axes(out)
  /\ Support(g) \cap Support(h) = {}

\* A product of permutations of different axes does one after the other.
LEMMA ProductSymmetry ==
  ASSUME NEW out \in Seq(Nat), NEW data, DOMAIN data = Cells(out),
         NEW D \in SUBSET Axes(out), NEW E \in SUBSET Axes(out), D \cap E = {},
         NEW p \in [D -> D], NEW q \in [E -> E],
         Symmetric(out, data, p), Symmetric(out, data, q)
  PROVE  Symmetric(out, data, Both(p, q))
<1> DEFINE f == [a \in D \cup E |-> IF a \in D THEN p[a] ELSE q[a]]
<1>1. DOMAIN out = Axes(out) /\ Permuted(out, p) = out /\ Permuted(out, q) = out
  BY DEF Axes, Symmetric
<1>2. ASSUME NEW c, DOMAIN c = Axes(out)
      PROVE  Permuted(c, f) = Permuted(Permuted(c, p), q)
  <2>1. Permuted(c, p) = [k \in Axes(out) |-> IF k \in D THEN c[p[k]] ELSE c[k]]
    BY <1>2 DEF Permuted
  <2>2. Permuted(Permuted(c, p), q)
          = [k \in Axes(out) |-> IF k \in E THEN Permuted(c, p)[q[k]] ELSE Permuted(c, p)[k]]
    BY <2>1 DEF Permuted
  <2>3. Permuted(c, f) = [k \in Axes(out) |-> IF k \in D \cup E THEN c[f[k]] ELSE c[k]]
    BY <1>2 DEF Permuted
  <2>4. \A k \in Axes(out) :
          (IF k \in D \cup E THEN c[f[k]] ELSE c[k])
            = IF k \in E THEN Permuted(c, p)[q[k]] ELSE Permuted(c, p)[k]
    BY <2>1
  <2> HIDE DEF f
  <2> QED BY <2>2, <2>3, <2>4
<1> HIDE DEF f
<1>3. Permuted(out, f) = out
  BY <1>1, <1>2
<1>4. ASSUME NEW c \in Cells(out) PROVE data[Permuted(c, f)] = data[c]
  <2>1. DOMAIN c = Axes(out)
    BY CellsOfShape
  <2>2. Permuted(c, p) \in Cells(out)
    BY <1>1, PermutedCells
  <2> QED BY <1>2, <2>1, <2>2 DEF Symmetric
<1>5. Symmetric(out, data, f)
  BY <1>3, <1>4 DEF Symmetric
<1> QED BY <1>5 DEF f, Both

\* direct_product_groups() of groups on different axes.
LEMMA DirectProductFits ==
  ASSUME NEW g, g # None, NEW h, h # None, NEW out \in Seq(Nat), Apart(g, h, out),
         NEW r, r = DirectProduct(g, h)
  PROVE  /\ r # None => WellFormed(r) /\ Support(r) \subseteq Axes(out)
         /\ \A data : /\ DOMAIN data = Cells(out)
                      /\ HoldsFor(g, out, data) /\ HoldsFor(h, out, data)
                      => HoldsFor(r, out, data)
<1> DEFINE D == Support(g)
           E == Support(h)
<1>1. /\ g.axes \in Seq(Nat) /\ h.axes \in Seq(Nat)
      /\ D \in SUBSET Axes(out) /\ E \in SUBSET Axes(out) /\ D \cap E = {}
      /\ \A p \in g.perms : p \in [D -> D] /\ \A a, b \in D : p[a] = p[b] => a = b
      /\ \A q \in h.perms : q \in [E -> E] /\ \A a, b \in E : q[a] = q[b] => a = b
  BY DEF Apart, WellFormed
<1>2. /\ r.axes = g.axes \o h.axes
      /\ r.perms = {Both(p, q) : p \in g.perms, q \in h.perms}
  <2>1. r = Factors(g, h)
    BY DEF DirectProduct
  <2> DEFINE P == {Both(p, q) : p \in g.perms, q \in h.perms}
             t == g.axes \o h.axes
  <2>2. Factors(g, h) = [axes |-> t, perms |-> P]
    BY DEF Factors
  <2> HIDE DEF P, t
  <2>3. r.axes = t /\ r.perms = P
    BY <2>1, <2>2
  <2> QED BY <2>3 DEF P, t
<1>3. r.axes \in Seq(Nat) /\ Support(r) = D \cup E
  <2>1. r.axes \in Seq(Nat)
    BY <1>1, <1>2
  <2> DEFINE u == g.axes
             v == h.axes
  <2>2. ASSUME NEW a PROVE a \in Range(u \o v) <=> a \in Range(u) \/ a \in Range(v)
    <3> HIDE DEF u, v
    <3>1. u \in Seq(Nat) /\ v \in Seq(Nat) /\ Len(u) \in Nat /\ Len(v) \in Nat
      BY <1>1 DEF u, v
    <3>2. /\ DOMAIN (u \o v) = 1 .. Len(u) + Len(v)
          /\ DOMAIN u = 1 .. Len(u) /\ DOMAIN v = 1 .. Len(v)
          /\ \A i \in 1 .. Len(u) : (u \o v)[i] = u[i]
          /\ \A i \in 1 .. Len(v) : (u \o v)[i + Len(u)] = v[i]
      BY <3>1
    <3>3. ASSUME a \in Range(u \o v) PROVE a \in Range(u) \/ a \in Range(v)
      <4>1. PICK i \in 1 .. Len(u) + Len(v) : (u \o v)[i] = a
        BY <3>2, <3>3 DEF Range
      <4>2. CASE i <= Len(u)
        BY <3>1, <3>2, <4>1, <4>2, SMTT(30) DEF Range
      <4>3. CASE ~ (i <= Len(u))
        <5>1. i - Len(u) \in 1 .. Len(v) /\ (i - Len(u)) + Len(u) = i
          BY <3>1, <4>1, <4>3
        <5>2. v[i - Len(u)] = a
          BY <3>2, <4>1, <5>1
        <5> QED BY <3>2, <5>1, <5>2 DEF Range
      <4> QED BY <4>2, <4>3
    <3>4. ASSUME a \in Range(u) PROVE a \in Range(u \o v)
      <4>1. PICK i \in 1 .. Len(u) : u[i] = a
        BY <3>2, <3>4 DEF Range
      <4>2. i \in 1 .. Len(u) + Len(v) /\ (u \o v)[i] = a
        BY <3>1, <3>2, <4>1
      <4> QED BY <3>2, <4>2 DEF Range
    <3>5. ASSUME a \in Range(v) PROVE a \in Range(u \o v)
      <4>1. PICK i \in 1 .. Len(v) : v[i] = a
        BY <3>2, <3>5 DEF Range
      <4>2. i + Len(u) \in 1 .. Len(u) + Len(v) /\ (u \o v)[i + Len(u)] = a
        BY <3>1, <3>2, <4>1
      <4> QED BY <3>2, <4>2 DEF Range
    <3> QED BY <3>3, <3>4, <3>5
  <2>3. Support(r) = D \cup E
    <3>1. \A a : a \in Support(r) <=> a \in D \cup E
      BY <1>2, <2>2 DEF Support
    <3> HIDE DEF D, E
    <3> QED BY <3>1
  <2> QED BY <2>1, <2>3
<1>4. ASSUME NEW p \in g.perms, NEW q \in h.perms
      PROVE  /\ Both(p, q) \in [D \cup E -> D \cup E]
             /\ \A a, b \in D \cup E : Both(p, q)[a] = Both(p, q)[b] => a = b
  <2> HIDE DEF D, E
  <2>1. p \in [D -> D] /\ \A a, b \in D : p[a] = p[b] => a = b
    BY <1>1
  <2>2. q \in [E -> E] /\ \A a, b \in E : q[a] = q[b] => a = b
    BY <1>1
  <2> QED BY <1>1, <2>1, <2>2 DEF Both
<1>5. WellFormed(r) /\ Support(r) \subseteq Axes(out)
  <2> HIDE DEF D, E
  <2>1. ASSUME NEW f \in r.perms
        PROVE  f \in [D \cup E -> D \cup E] /\ \A a, b \in D \cup E : f[a] = f[b] => a = b
    <3>1. PICK p \in g.perms, q \in h.perms : f = Both(p, q)
      BY <1>2
    <3> QED BY <1>4, <3>1
  <2>2. r.axes \in Seq(Nat) /\ Support(r) = D \cup E /\ D \cup E \subseteq Axes(out)
    BY <1>1, <1>3
  <2> QED BY <2>1, <2>2 DEF WellFormed
<1>6. ASSUME NEW data, DOMAIN data = Cells(out), HoldsFor(g, out, data), HoldsFor(h, out, data)
      PROVE  HoldsFor(r, out, data)
  <2>1. ASSUME NEW p \in g.perms, NEW q \in h.perms PROVE Symmetric(out, data, Both(p, q))
    <3>1. Symmetric(out, data, p) /\ Symmetric(out, data, q)
      BY <1>6 DEF HoldsFor
    <3> HIDE DEF D, E
    <3>2. p \in [D -> D] /\ q \in [E -> E]
      BY <1>1
    <3> QED BY <1>1, <1>6, <3>1, <3>2, ProductSymmetry
  <2> HIDE DEF D, E
  <2> QED BY <1>2, <1>5, <2>1 DEF HoldsFor
<1> QED BY <1>5, <1>6

-----------------------------------------------------------------------------
(***************************************************************************)
(* Axes of extent one: expand_dims.                                        *)
(***************************************************************************)
\* Sorted() lists a finite set of axes.
LEMMA SortedLists ==
  ASSUME NEW K \in SUBSET Nat, IsFiniteSet(K)
  PROVE  Sorted(K) \in Seq(Nat) /\ Range(Sorted(K)) = K
<1> DEFINE n == Cardinality(K)
           At(i) == CHOOSE a \in K : Place(K, a) = i
<1>1. /\ n \in Nat
      /\ \A a \in K : Place(K, a) \in 1 .. n
      /\ \A a, b \in K : a < b => Place(K, a) < Place(K, b)
      /\ \A i \in 1 .. n : \E a \in K : Place(K, a) = i
  BY PlacesNumber
<1>2. Sorted(K) = [i \in 1 .. n |-> At(i)]
  BY DEF Sorted, Place
<1>3. \A i \in 1 .. n : At(i) \in K /\ Place(K, At(i)) = i
  BY <1>1
<1>4. \A a, b \in K : Place(K, a) = Place(K, b) => a = b
  <2> SUFFICES ASSUME NEW a \in K, NEW b \in K, Place(K, a) = Place(K, b) PROVE a = b
    OBVIOUS
  <2>1. Place(K, a) \in Nat /\ ~ (a < b) /\ ~ (b < a) /\ a \in Nat /\ b \in Nat
    BY <1>1
  <2> QED BY <2>1
<1>5. \A a \in K : Place(K, a) \in 1 .. n /\ At(Place(K, a)) = a
  BY <1>1, <1>3, <1>4
<1> HIDE DEF At, n
<1>6. Sorted(K) \in Seq(Nat)
  <2>1. \A i \in 1 .. n : At(i) \in Nat
    BY <1>3
  <2> QED BY <1>1, <1>2, <2>1
<1>7. \A a : a \in Range(Sorted(K)) <=> a \in K
  BY <1>2, <1>3, <1>5, ZenonT(30) DEF Range
<1> QED BY <1>6, <1>7

\* What an array holds does not depend on the axes N.
Indifferent(out, N, data) ==
  \A c, d \in Cells(out) : (\A k \in Axes(out) \ N : c[k] = d[k]) => data[c] = data[d]

\* Axes the data does not depend on can be exchanged if they have one extent.
LEMMA ByExtentFits ==
  ASSUME NEW out \in Seq(Nat), NEW N \in SUBSET Axes(out), NEW h, h = ByExtent(out, N),
         h # None
  PROVE  /\ WellFormed(h) /\ Support(h) \subseteq N
         /\ \A data : DOMAIN data = Cells(out) /\ Indifferent(out, N, data)
                        => HoldsFor(h, out, data)
<1> DEFINE L == {a \in N : \E b \in N \ {a} : out[a] = out[b]}
<1>1. /\ h.axes = Sorted(L)
      /\ h.perms = {p \in Bijection(L, L) : \A a \in L : out[p[a]] = out[a]}
  BY DEF ByExtent, Group
<1>2. L \in SUBSET Axes(out) /\ L \subseteq N /\ Axes(out) = 1 .. Len(out) /\ Len(out) \in Nat
  BY ShapeFacts
<1> HIDE DEF L
<1>3. L \in SUBSET Nat /\ IsFiniteSet(L)
  <2>1. IsFiniteSet(1 .. Len(out))
    BY <1>2, FS_Interval
  <2>2. IsFiniteSet(L)
    BY <1>2, <2>1, FS_Subset
  <2> QED BY <1>2, <2>2
<1>4. h.axes \in Seq(Nat) /\ Support(h) = L
  BY <1>1, <1>3, SortedLists DEF Support
<1>5. ASSUME NEW p \in h.perms
      PROVE  /\ p \in [L -> L] /\ \A a, b \in L : p[a] = p[b] => a = b
             /\ \A a \in L : out[p[a]] = out[a]
  BY <1>1 DEF Bijection, Injection, IsInjective
<1>6. WellFormed(h)
  BY <1>4, <1>5 DEF WellFormed
<1>7. ASSUME NEW data, DOMAIN data = Cells(out), Indifferent(out, N, data), NEW p \in h.perms
      PROVE  Symmetric(out, data, p)
  <2>1. Permuted(out, p) = out
    <3>1. \A k \in Axes(out) : (IF k \in DOMAIN p THEN out[p[k]] ELSE out[k]) = out[k]
      BY <1>5
    <3>2. out = [k \in Axes(out) |-> out[k]] /\ DOMAIN out = Axes(out)
      BY ShapeFacts
    <3> QED BY <3>1, <3>2 DEF Permuted
  <2>2. ASSUME NEW c \in Cells(out) PROVE data[Permuted(c, p)] = data[c]
    <3>1. Permuted(c, p) \in Cells(out)
      BY <1>2, <1>5, <2>1, PermutedCells
    <3>2. \A k \in Axes(out) \ N : Permuted(c, p)[k] = c[k]
      <4>1. DOMAIN c = Axes(out)
        BY CellsOfShape
      <4>2. \A k \in Axes(out) \ N : k \notin DOMAIN p
        BY <1>2, <1>5
      <4> QED BY <4>1, <4>2 DEF Permuted
    <3> QED BY <1>7, <3>1, <3>2 DEF Indifferent
  <2> QED BY <1>7, <2>1, <2>2 DEF Symmetric
<1>8. Support(h) \subseteq N /\ Support(h) \subseteq Axes(out)
  BY <1>2, <1>4
<1> QED BY <1>6, <1>7, <1>8 DEF HoldsFor

\* Group r is that of the axes N, which were added, next to the group g of others.
Adds(g, out, N, r) ==
  /\ out \in Seq(Nat) /\ N \in SUBSET Axes(out)
  /\ g # None => WellFormed(g) /\ Support(g) \subseteq Axes(out) \ N
  /\ r \in {DirectProduct(ByExtent(out, N), g), DirectProduct(g, ByExtent(out, N))}

\* The tag of an array with axes added, inserted_axes_symmetry() and broadcast_group().
LEMMA AddsHolds ==
  ASSUME NEW g, NEW out, NEW N, NEW r, Adds(g, out, N, r), r # None
  PROVE  /\ WellFormed(r) /\ Support(r) \subseteq Axes(out)
         /\ \A data : /\ DOMAIN data = Cells(out) /\ Indifferent(out, N, data)
                      /\ g # None => HoldsFor(g, out, data)
                      => HoldsFor(r, out, data)
<1> DEFINE h == ByExtent(out, N)
<1>1. /\ out \in Seq(Nat) /\ N \in SUBSET Axes(out)
      /\ g # None => WellFormed(g) /\ Support(g) \subseteq Axes(out) \ N
      /\ r \in {DirectProduct(h, g), DirectProduct(g, h)}
  BY DEF Adds
<1>2. h # None => /\ WellFormed(h) /\ Support(h) \subseteq N
                  /\ \A data : DOMAIN data = Cells(out) /\ Indifferent(out, N, data)
                                 => HoldsFor(h, out, data)
  BY <1>1, ByExtentFits
<1> HIDE DEF h
<1>3. CASE h = None
  <2>1. r = g
    BY <1>1, <1>3 DEF DirectProduct
  <2> QED BY <1>1, <2>1
<1>4. CASE h # None /\ g = None
  <2>1. r = h
    BY <1>1, <1>4 DEF DirectProduct
  <2> QED BY <1>1, <1>2, <1>4, <2>1
<1>5. CASE h # None /\ g # None
  <2>1. Apart(g, h, out) /\ Apart(h, g, out)
    BY <1>1, <1>2, <1>5 DEF Apart
  <2>2. /\ WellFormed(r) /\ Support(r) \subseteq Axes(out)
        /\ \A data : /\ DOMAIN data = Cells(out)
                     /\ HoldsFor(g, out, data) /\ HoldsFor(h, out, data)
                     => HoldsFor(r, out, data)
    <3>1. CASE r = DirectProduct(g, h)
      BY <1>1, <1>5, <2>1, <3>1, DirectProductFits
    <3>2. CASE r = DirectProduct(h, g)
      BY <1>1, <1>5, <2>1, <3>2, DirectProductFits
    <3> QED BY <1>1, <3>1, <3>2
  <2> QED BY <1>2, <1>5, <2>2
<1> QED BY <1>3, <1>4, <1>5

\* fnp.expand_dims: the old axes move, the new ones can be exchanged.
THEOREM ExpandDimsKeepsTags ==
  ASSUME Honest(array), NEW N, IsFiniteSet(N), N \subseteq 1 .. Rank + Cardinality(N),
         ExpandDims(N)
  PROVE  Honest(array')
<1> DEFINE s == array.shape
           val == array.val
           tag == array.tag
           out == Inserted(s, N)
           old == Removing(out, N)
           to == AntiFunction(old)
           data == [c \in Cells(out) |-> val[Without(c, N)]]
           g == Remap(tag, to)
           r == TransportExpandDims(tag, s, N)
<1>1. /\ s \in Seq(Nat) /\ DOMAIN val = Cells(s) /\ Fits(tag, Len(s))
      /\ Len(s) \in Nat /\ Axes(s) = 1 .. Len(s)
  BY DEF Honest, Typed, Axes
<1>2. Makes("expand_dims", out, data, r, TRUE)
  BY DEF ExpandDims
<1>3. Expanded(s, N, out)
  <2>1. Expands(s, N, out)
    BY <1>1 DEF Expands, Rank
  <2> HIDE DEF out, s
  <2> QED BY <2>1, InsertedShape
<1>4. DOMAIN data = Cells(out) /\ Unfolds(s, val, N, out, data)
  <2>1. DOMAIN data = Cells(out) /\ \A c \in Cells(out) : data[c] = val[Without(c, N)]
    OBVIOUS
  <2> HIDE DEF data, out
  <2> QED BY <1>1, <2>1 DEF Unfolds
<1>5. r = DirectProduct(g, ByExtent(out, N))
  BY DEF TransportExpandDims
<1> HIDE DEF data, r, out
<1>6. /\ out \in Seq(Nat) /\ N \in SUBSET Axes(out) /\ Len(out) \in Nat
      /\ Cardinality(Axes(out) \ N) = Len(s)
      /\ \A b \in Axes(out) \ N : out[b] = s[old[b]]
  <2> HIDE DEF s, old
  <2> QED BY <1>3, ShapeFacts DEF Expanded, old
<1>7. Inserts(s, N, out, to)
  <2> DEFINE B == Axes(out) \ N
  <2>1. /\ old \in [B -> 1 .. Len(s)]
        /\ \A a, b \in B : old[a] = old[b] => a = b
        /\ \A k \in 1 .. Len(s) : \E a \in B : old[a] = k
    BY <1>6, RemovingNumbers
  <2> HIDE DEF old, B, s
  <2>2. /\ to \in [Range(old) -> DOMAIN old]
        /\ \A b \in Range(old) : old[to[b]] = b
    BY <2>1, AntiFunctionInverts
  <2>3. \A a \in 1 .. Len(s) : a \in Range(old)
    BY <2>1 DEF Range
  <2>4. \A a \in Axes(s) : to[a] \in B /\ old[to[a]] = a
    BY <1>1, <2>1, <2>2, <2>3
  <2> HIDE DEF to
  <2> QED BY <1>1, <1>6, <2>4 DEF Inserts, old, B
<1> HIDE DEF to, old
<1>8. ASSUME g # None
      PROVE  /\ WellFormed(g) /\ Support(g) \subseteq Axes(out) \ N
             /\ array.sound => HoldsFor(g, out, data)
  <2>1. tag # None /\ WellFormed(tag) /\ (array.sound => HoldsFor(tag, s, val))
    BY <1>1, <1>8 DEF Remap, Honest, Fits
  <2> HIDE DEF tag, s, val
  <2> QED BY <1>1, <1>4, <1>7, <1>8, <2>1, InsertedFits, InsertedHolds
<1>9. Adds(g, out, N, r)
  <2> HIDE DEF g
  <2> QED BY <1>5, <1>6, <1>8 DEF Adds
<1>10. Indifferent(out, N, data)
  <2> SUFFICES ASSUME NEW c \in Cells(out), NEW d \in Cells(out),
                      \A k \in Axes(out) \ N : c[k] = d[k]
               PROVE  data[c] = data[d]
    BY DEF Indifferent
  <2> HIDE DEF s, val
  <2>1. /\ Moves(s, out, Axes(s), to) /\ \A a \in Axes(s) : to[a] \notin N
        /\ \A e \in Cells(out) : /\ Without(e, N) \in Cells(s)
                                 /\ \A a \in Axes(s) : Without(e, N)[a] = e[to[a]]
    BY <1>7, InsertedCells
  <2>2. \A a \in Axes(s) : Without(c, N)[a] = Without(d, N)[a]
    BY <2>1 DEF Moves
  <2>3. Without(c, N) = Without(d, N)
    <3> DEFINE u == Without(c, N)
               v == Without(d, N)
    <3>1. u \in Cells(s) /\ v \in Cells(s) /\ \A a \in Axes(s) : u[a] = v[a]
      BY <2>1, <2>2
    <3> HIDE DEF u, v
    <3>2. u = [a \in Axes(s) |-> u[a]] /\ v = [a \in Axes(s) |-> v[a]]
      BY <1>1, <3>1, CellsOfShape
    <3>3. [a \in Axes(s) |-> u[a]] = [a \in Axes(s) |-> v[a]]
      BY <3>1
    <3>4. u = v
      BY <3>2, <3>3
    <3> QED BY <3>4 DEF u, v
  <2> QED BY <1>4, <2>3 DEF Unfolds
<1> HIDE DEF g
<1>11. Fits(r, Len(out))
  BY <1>6, <1>9, AddsHolds, ShapeFacts DEF Fits
<1>12. array.sound /\ r # None => HoldsFor(r, out, data)
  BY <1>4, <1>8, <1>9, <1>10, AddsHolds
<1> HIDE DEF s, val, tag
<1> QED BY <1>2, <1>4, <1>6, <1>11, <1>12, MakesHonest

-----------------------------------------------------------------------------
(***************************************************************************)
(* Stretched axes: broadcast_to.                                           *)
(***************************************************************************)
\* Shape s is stretched to shape out, with axes put in front.
Stretches(s, out) ==
  /\ s \in Seq(Nat) /\ out \in Seq(Nat) /\ Len(s) <= Len(out)
  /\ \A k \in Axes(s) : s[k] = 1 \/ out[k + (Len(out) - Len(s))] = s[k]

\* The array data of shape out is val of shape s, stretched.
Broadcasts(s, val, out, data) ==
  /\ Stretches(s, out)
  /\ DOMAIN val = Cells(s) /\ DOMAIN data = Cells(out)
  /\ \A c \in Cells(out) : data[c] = val[Narrowed(s, c)]

\* The cell that is read for a cell of the stretched shape.
LEMMA NarrowedCells ==
  ASSUME NEW s, NEW out, Stretches(s, out), NEW c \in Cells(out)
  PROVE  /\ Narrowed(s, c) \in Cells(s)
         /\ \A a \in Axes(s) :
              Narrowed(s, c)[a] = IF s[a] = 1 THEN 0 ELSE c[a + (Len(out) - Len(s))]
<1> DEFINE n == Len(out) - Len(s)
           e == Narrowed(s, c)
<1>1. /\ s \in Seq(Nat) /\ out \in Seq(Nat) /\ Len(s) <= Len(out)
      /\ \A k \in Axes(s) : s[k] = 1 \/ out[k + n] = s[k]
  BY DEF Stretches
<1>2. /\ Len(s) \in Nat /\ Len(out) \in Nat /\ Axes(s) = 1 .. Len(s) /\ Axes(out) = 1 .. Len(out)
      /\ \A k \in Axes(s) : s[k] \in Nat
  BY <1>1, ShapeFacts
<1>3. \A k \in Axes(out) : c[k] \in 0 .. out[k] - 1
  BY <1>1, CellsOfShape
<1>4. Len(c) = Len(out)
  <2>1. c = [k \in 1 .. Len(out) |-> c[k]]
    BY <1>1, <1>2, CellsOfShape
  <2>2. \A k \in 1 .. Len(out) : c[k] \in Nat
    BY <1>2, <1>3
  <2> QED BY <1>2, <2>1, <2>2
<1>5. \A k \in Axes(s) : k + n \in Axes(out) /\ k + Len(c) - Len(s) = k + n
  BY <1>1, <1>2, <1>4
<1>6. /\ e = [k \in Axes(s) |-> IF s[k] = 1 THEN 0 ELSE c[k + Len(c) - Len(s)]]
  BY DEF Narrowed
<1>7. \A a \in Axes(s) : e[a] = IF s[a] = 1 THEN 0 ELSE c[a + n]
  <2> HIDE DEF e, n
  <2> QED BY <1>5, <1>6
<1>8. ASSUME NEW a \in Axes(s) PROVE e[a] \in 0 .. s[a] - 1
  <2>1. CASE s[a] = 1
    BY <1>7, <2>1
  <2>2. CASE s[a] # 1
    <3>1. e[a] = c[a + n] /\ out[a + n] = s[a] /\ a + n \in Axes(out)
      BY <1>1, <1>5, <1>7, <2>2
    <3> HIDE DEF e, n
    <3> QED BY <1>3, <3>1
  <2> QED BY <2>1, <2>2
<1>9. e = [a \in Axes(s) |-> e[a]]
  BY <1>6
<1>10. e \in Cells(s)
  <2> HIDE DEF e
  <2> QED BY <1>1, <1>8, <1>9, CellsOfShape
<1> QED BY <1>7, <1>10

\* The axes of a group that are not stretched, acted on as in the stretched array.
Stretched(g, s, out) ==
  LET kept == IF g = None \/ Cardinality(Unstretched(g, s, out)) < 2 THEN None
              ELSE Project(g, g.perms, Unstretched(g, s, out))
  IN  Remap(kept, Shifted(1 .. Len(s), Len(out) - Len(s)))

\* broadcast_group(), the old axes: what it accepts it carries over.
LEMMA StretchedHolds ==
  ASSUME NEW s, NEW val, NEW out, NEW data, NEW g, NEW h,
         Broadcasts(s, val, out, data), Fits(g, Len(s)), BroadcastAccepts(g, s, out),
         h = Stretched(g, s, out), h # None
  PROVE  /\ g # None /\ WellFormed(h)
         /\ Support(h) \subseteq Axes(out) \ (1 .. Len(out) - Len(s))
         /\ HoldsFor(g, s, val) => HoldsFor(h, out, data)
<1> DEFINE n == Len(out) - Len(s)
           U == Unstretched(g, s, out)
           A == {a \in Axes(s) : s[a] = 1 => out[a + n] = 1}
           to == Shifted(1 .. Len(s), n)
           from == [c \in Cells(out) |-> Narrowed(s, c)]
           k == Project(g, g.perms, U)
<1>1. /\ Stretches(s, out) /\ s \in Seq(Nat) /\ out \in Seq(Nat) /\ Len(s) <= Len(out)
      /\ \A a \in Axes(s) : s[a] = 1 \/ out[a + n] = s[a]
      /\ DOMAIN val = Cells(s) /\ DOMAIN data = Cells(out)
      /\ \A c \in Cells(out) : data[c] = val[Narrowed(s, c)]
  BY DEF Broadcasts, Stretches
<1>2. /\ Len(s) \in Nat /\ Len(out) \in Nat /\ n \in Nat
      /\ Axes(s) = 1 .. Len(s) /\ Axes(out) = 1 .. Len(out)
  BY <1>1, ShapeFacts
<1>3. /\ g # None /\ ~ (Cardinality(U) < 2) /\ h = Remap(k, to) /\ k # None
      /\ WellFormed(g) /\ Support(g) \subseteq Axes(s)
  BY <1>2 DEF Stretched, Remap, Fits
<1>4. U = Support(g) \cap A
  <2>1. \A a \in Support(g) : a + Len(out) - Len(s) = a + n
    BY <1>2, <1>3
  <2> HIDE DEF n
  <2> QED BY <1>3, <2>1 DEF Unstretched
<1>5. ASSUME NEW p \in g.perms
      PROVE  /\ p \in [Support(g) -> Support(g)]
             /\ \A a, b \in Support(g) : p[a] = p[b] => a = b
             /\ {p[a] : a \in U} = U
             /\ \A a \in Support(g) : s[p[a]] = s[a]
  <2>1. Cardinality(U) >= 2
    <3>1. IsFiniteSet(1 .. Len(s)) /\ U \subseteq 1 .. Len(s)
      BY <1>2, <1>3, <1>4, FS_Interval
    <3> HIDE DEF U
    <3>2. Cardinality(U) \in Nat
      BY <3>1, FS_Subset, FS_CardinalityType
    <3> QED BY <1>3, <3>2
  <2>2. Permuted(s, p) = s /\ {p[a] : a \in U} = U
    BY <1>3, <2>1 DEF BroadcastAccepts
  <2>3. /\ p \in [Support(g) -> Support(g)]
        /\ \A a, b \in Support(g) : p[a] = p[b] => a = b
    BY <1>3 DEF WellFormed
  <2>4. \A a \in Support(g) : s[p[a]] = s[a]
    <3>1. \A a \in Axes(s) : Permuted(s, p)[a] = IF a \in DOMAIN p THEN s[p[a]] ELSE s[a]
      <4>1. DOMAIN s = Axes(s)
        BY <1>1, ShapeFacts
      <4> QED BY <4>1 DEF Permuted
    <3> QED BY <1>3, <2>2, <2>3, <3>1
  <2> QED BY <2>2, <2>3, <2>4
<1> HIDE DEF U, A, to, n, k, from
<1>6. \A p \in g.perms : \A a \in Support(g) : a \in A <=> p[a] \in A
  <2> SUFFICES ASSUME NEW p \in g.perms, NEW a \in Support(g) PROVE a \in A <=> p[a] \in A
    OBVIOUS
  <2>1. /\ p[a] \in Support(g) /\ {p[b] : b \in U} = U
        /\ \A b \in U : p[a] = p[b] => a = b
    BY <1>4, <1>5
  <2>2. a \in U <=> p[a] \in U
    BY <2>1
  <2> QED BY <1>4, <2>1, <2>2
<1>7. /\ WellFormed(k) /\ \A a : a \in Support(k) <=> a \in U
      /\ \A q \in k.perms : \E p \in g.perms : q = [a \in U |-> p[a]]
  <2> DEFINE ps == g.perms
  <2>1. \A p \in ps : \A a \in U : p[a] \in U
    BY <1>4, <1>5, <1>6
  <2>2. U \in SUBSET Support(g) /\ ps \in SUBSET g.perms
    BY <1>4
  <2>3. k = Project(g, ps, U) /\ k # None /\ WellFormed(g)
    BY <1>3 DEF k
  <2> HIDE DEF ps
  <2>4. /\ WellFormed(k) /\ \A a : a \in Support(k) <=> a \in U
        /\ \A q \in k.perms : \E p \in ps : q = [a \in U |-> p[a]]
    BY <2>1, <2>2, <2>3, ProjectFits
  <2> QED BY <2>4 DEF ps
<1>8. /\ \A a \in Axes(s) : to[a] = a + n /\ a + n \in Axes(out) \ (1 .. n)
      /\ \A a, b \in Axes(s) : to[a] = to[b] => a = b
  <2>1. \A a \in 1 .. Len(s) : to[a] = a + n
    BY DEF to, Shifted
  <2>2. \A a \in 1 .. Len(s) : a + n \in (1 .. Len(out)) \ (1 .. n)
    BY <1>2 DEF n
  <2> QED BY <1>2, <2>1, <2>2
<1>9. \A a \in U : a \in Axes(s)
  BY <1>3, <1>4
<1>10. /\ WellFormed(h)
       /\ \A b : b \in Support(h) <=> \E a \in Support(k) : b = to[a]
       /\ \A q \in h.perms : \E p \in k.perms : Carries(Support(k), to, p, q)
  <2>1. /\ \A a \in Support(k) : to[a] \in 1 .. Len(out)
        /\ \A a, b \in Support(k) : to[a] = to[b] => a = b
    BY <1>2, <1>7, <1>8, <1>9
  <2>2. WellFormed(k) /\ h = Remap(k, to) /\ Len(out) \in Nat
    BY <1>2, <1>3, <1>7
  <2> QED BY <2>1, <2>2, RemapFits
<1>11. Support(h) \subseteq Axes(out) \ (1 .. n)
  BY <1>7, <1>8, <1>9, <1>10
<1>12. ASSUME HoldsFor(g, s, val) PROVE HoldsFor(h, out, data)
  <2>1. Moves(s, out, A, to)
    <3>1. A \in SUBSET Axes(s)
      BY DEF A
    <3> QED BY <1>1, <1>8, <3>1 DEF Moves
  <2>2. IsRead(s, val, out, data, from)
    BY <1>1 DEF IsRead, from
  <2>3. \A c \in Cells(out) :
          /\ from[c] \in Cells(s)
          /\ \A a \in Axes(s) : from[c][a] = IF s[a] = 1 THEN 0 ELSE c[to[a]]
    <3> SUFFICES ASSUME NEW c \in Cells(out)
                 PROVE  /\ from[c] \in Cells(s)
                        /\ \A a \in Axes(s) : from[c][a] = IF s[a] = 1 THEN 0 ELSE c[to[a]]
      OBVIOUS
    <3>1. from[c] = Narrowed(s, c)
      BY DEF from
    <3> QED BY <1>1, <1>8, <3>1, NarrowedCells DEF n
  <2>4. ASSUME NEW q \in h.perms
        PROVE  \E p \in g.perms : /\ Carries(Support(g) \cap A, to, p, q)
                                  /\ Keeps(out, Support(g), A, to, p)
                                  /\ Reads(s, out, A, to, p, from)
    <3>1. PICK f \in k.perms : Carries(Support(k), to, f, q)
      BY <1>10
    <3>2. PICK p \in g.perms : f = [a \in U |-> p[a]]
      BY <1>7
    <3>3. /\ DOMAIN p = Support(g)
          /\ \A a \in Support(g) : p[a] \in Support(g) /\ s[p[a]] = s[a]
      BY <1>5
    <3>4. Carries(Support(g) \cap A, to, p, q)
      BY <1>4, <1>7, <3>1, <3>2, ZenonT(30) DEF Carries
    <3>5. Keeps(out, Support(g), A, to, p)
      <4>1. ASSUME NEW a \in Support(g) \cap A PROVE out[to[p[a]]] = out[to[a]]
        <5>1. /\ a \in A /\ p[a] \in A /\ s[p[a]] = s[a]
              /\ a \in Axes(s) /\ p[a] \in Axes(s)
          BY <1>3, <1>6, <3>3
        <5>2. \A b \in A : b \in Axes(s) => out[b + n] = s[b]
          BY <1>1 DEF A
        <5> QED BY <1>8, <5>1, <5>2
      <4> QED BY <1>6, <4>1 DEF Keeps
    <3>6. Reads(s, out, A, to, p, from)
      <4>1. \A c, d \in Cells(out) : \A a \in Axes(s) \ A :
              from[c][a] = from[d][a] /\ (a \in DOMAIN p => from[c][a] = from[d][p[a]])
        <5>1. \A a \in Axes(s) \ A : s[a] = 1 /\ (a \in DOMAIN p => p[a] \in Axes(s) /\ s[p[a]] = 1)
          BY <1>3, <3>3 DEF A
        <5> QED BY <2>3, <5>1
      <4>2. \A c, d \in Cells(out) : \A a \in A :
              /\ c[to[a]] = d[to[a]] => from[c][a] = from[d][a]
              /\ a \in DOMAIN p /\ c[to[a]] = d[to[p[a]]] => from[c][a] = from[d][p[a]]
        <5>1. \A a \in A : a \in Axes(s)
          BY DEF A
        <5>2. \A a \in DOMAIN p : p[a] \in Axes(s) /\ s[p[a]] = s[a]
          BY <1>3, <3>3
        <5> QED BY <2>3, <5>1, <5>2
      <4> QED BY <2>3, <4>1, <4>2 DEF Reads
    <3> QED BY <3>4, <3>5, <3>6
  <2>5. Derives(s, out, A, to, from, g, h)
    BY <2>4 DEF Derives
  <2>6. Support(h) \subseteq Axes(out)
    BY <1>11
  <2> QED BY <1>3, <1>10, <1>12, <2>1, <2>2, <2>5, <2>6, ReadHolds
<1> QED BY <1>3, <1>10, <1>11, <1>12 DEF n
\* broadcast_group(): the tag of a stretched array.
LEMMA BroadcastHolds ==
  ASSUME NEW s, NEW val, NEW out, NEW data, NEW g, NEW b,
         Broadcasts(s, val, out, data), Fits(g, Len(s)), BroadcastAccepts(g, s, out),
         b = BroadcastGroup(g, s, out), b # None
  PROVE  /\ WellFormed(b) /\ Support(b) \subseteq Axes(out)
         /\ (g # None => HoldsFor(g, s, val)) => HoldsFor(b, out, data)
<1> DEFINE n == Len(out) - Len(s)
           N == 1 .. n
           h == Stretched(g, s, out)
<1>1. /\ Stretches(s, out) /\ s \in Seq(Nat) /\ out \in Seq(Nat) /\ Len(s) <= Len(out)
      /\ DOMAIN val = Cells(s) /\ DOMAIN data = Cells(out)
      /\ \A c \in Cells(out) : data[c] = val[Narrowed(s, c)]
  BY DEF Broadcasts, Stretches
<1>2. /\ Len(s) \in Nat /\ Len(out) \in Nat /\ n \in Nat
      /\ Axes(s) = 1 .. Len(s) /\ Axes(out) = 1 .. Len(out)
  BY <1>1, ShapeFacts
<1>3. b = DirectProduct(ByExtent(out, N), h)
  BY DEF BroadcastGroup, Stretched
<1>4. h # None => /\ g # None /\ WellFormed(h)
                  /\ Support(h) \subseteq Axes(out) \ N
                  /\ HoldsFor(g, s, val) => HoldsFor(h, out, data)
  BY StretchedHolds
<1> HIDE DEF h
<1>5. N \in SUBSET Axes(out)
  BY <1>1, <1>2
<1>6. Indifferent(out, N, data)
  <2> SUFFICES ASSUME NEW c \in Cells(out), NEW d \in Cells(out),
                      \A k \in Axes(out) \ N : c[k] = d[k]
               PROVE  data[c] = data[d]
    BY DEF Indifferent
  <2> DEFINE u == Narrowed(s, c)
             v == Narrowed(s, d)
  <2>1. /\ u \in Cells(s) /\ \A a \in Axes(s) : u[a] = IF s[a] = 1 THEN 0 ELSE c[a + n]
        /\ v \in Cells(s) /\ \A a \in Axes(s) : v[a] = IF s[a] = 1 THEN 0 ELSE d[a + n]
    BY <1>1, NarrowedCells
  <2>2. \A a \in Axes(s) : a + n \in Axes(out) \ N
    BY <1>1, <1>2
  <2> HIDE DEF u, v, n
  <2>3. \A a \in Axes(s) : u[a] = v[a]
    BY <2>1, <2>2
  <2>4. u = [a \in Axes(s) |-> u[a]] /\ v = [a \in Axes(s) |-> v[a]]
    BY <1>1, <2>1, CellsOfShape
  <2>5. [a \in Axes(s) |-> u[a]] = [a \in Axes(s) |-> v[a]]
    BY <2>3
  <2>6. u = v
    BY <2>4, <2>5
  <2>7. data[c] = val[u] /\ data[d] = val[v]
    BY <1>1 DEF u, v
  <2> QED BY <2>6, <2>7
<1> HIDE DEF N
<1>7. Adds(h, out, N, b)
  BY <1>1, <1>3, <1>4, <1>5 DEF Adds
<1> QED BY <1>1, <1>4, <1>6, <1>7, AddsHolds

\* The larger of two lengths.
LEMMA MaxOfTwo ==
  ASSUME NEW m \in Nat, NEW n \in Nat
  PROVE  /\ Max({m, n}) \in {m, n} /\ m <= Max({m, n}) /\ n <= Max({m, n})
<1> DEFINE S == {m, n}
<1>1. \E x \in S : \A y \in S : x >= y
  <2>1. CASE m >= n
    <3>1. \A y \in S : m >= y
      BY <2>1
    <3> QED BY <3>1
  <2>2. CASE ~ (m >= n)
    <3>1. \A y \in S : n >= y
      BY <2>2
    <3> QED BY <3>1
  <2> QED BY <2>1, <2>2
<1> DEFINE x == CHOOSE z \in S : \A y \in S : z >= y
<1>2. x \in S /\ \A y \in S : x >= y
  <2> HIDE DEF S
  <2> QED BY <1>1
<1>3. Max({m, n}) = x
  BY DEF Max
<1> HIDE DEF x
<1>4. x \in {m, n} /\ x >= m /\ x >= n
  BY <1>2
<1>5. x \in Nat
  BY <1>4
<1> QED BY <1>3, <1>4, <1>5

\* A shape with axes of extent one put in front, up to n.
LEMMA AlignedShape ==
  ASSUME NEW s \in Seq(Nat), NEW n \in Nat, Len(s) <= n
  PROVE  /\ \A k \in 1 .. n : Aligned(s, n)[k] \in Nat
         /\ \A k \in Axes(s) : /\ k + (n - Len(s)) \in 1 .. n
                               /\ Aligned(s, n)[k + (n - Len(s))] = s[k]
<1>1. Len(s) \in Nat /\ Axes(s) = 1 .. Len(s) /\ \A k \in Axes(s) : s[k] \in Nat
  BY ShapeFacts
<1>2. Aligned(s, n) = [k \in 1 .. n |-> IF k + Len(s) <= n THEN 1 ELSE s[k + Len(s) - n]]
  BY DEF Aligned
<1>3. \A k \in 1 .. n : ~ (k + Len(s) <= n) => k + Len(s) - n \in Axes(s)
  BY <1>1
<1>4. ASSUME NEW k \in Axes(s)
      PROVE  /\ k + (n - Len(s)) \in 1 .. n
             /\ ~ ((k + (n - Len(s))) + Len(s) <= n)
             /\ (k + (n - Len(s))) + Len(s) - n = k
  BY <1>1, SMTT(30)
<1>5. \A k \in 1 .. n : Aligned(s, n)[k] \in Nat
  <2>1. ASSUME NEW k \in 1 .. n
        PROVE  Aligned(s, n)[k] \in Nat
    <3>1. Aligned(s, n)[k] = IF k + Len(s) <= n THEN 1 ELSE s[k + Len(s) - n]
      BY <1>2
    <3>2. CASE k + Len(s) <= n
      BY <3>1, <3>2
    <3>3. CASE ~ (k + Len(s) <= n)
      BY <3>1, <3>3, <1>1, <1>3
    <3> QED BY <3>2, <3>3
  <2> QED BY <2>1
<1>6. ASSUME NEW k \in Axes(s)
      PROVE  /\ k + (n - Len(s)) \in 1 .. n
             /\ Aligned(s, n)[k + (n - Len(s))] = s[k]
  <2> DEFINE j == k + (n - Len(s))
  <2>1. j \in 1 .. n /\ ~ (j + Len(s) <= n) /\ j + Len(s) - n = k
    BY <1>4
  <2> HIDE DEF j
  <2>2. Aligned(s, n)[j] = IF j + Len(s) <= n THEN 1 ELSE s[j + Len(s) - n]
    BY <2>1, <1>2
  <2>3. Aligned(s, n)[j] = s[k]
    BY <2>1, <2>2
  <2> QED BY <2>1, <2>3 DEF j
<1> QED BY <1>5, <1>6

\* Two arrays that can be broadcast are stretched to the shape of the result.
LEMMA BroadcastStretches ==
  ASSUME NEW s \in Seq(Nat), NEW t \in Seq(Nat), Compatible(s, t),
         NEW out, out = BroadcastShape(s, t)
  PROVE  Stretches(s, out) /\ Stretches(t, out)
<1> DEFINE n == Max({Len(s), Len(t)})
           u == Aligned(s, n)
           v == Aligned(t, n)
<1>1. Len(s) \in Nat /\ Len(t) \in Nat
  BY ShapeFacts
<1>2. n \in Nat /\ Len(s) <= n /\ Len(t) <= n
  BY <1>1, MaxOfTwo
<1>3. /\ out = [k \in 1 .. n |-> IF u[k] = 1 THEN v[k] ELSE u[k]]
      /\ \A k \in 1 .. n : u[k] = v[k] \/ 1 \in {u[k], v[k]}
  BY DEF BroadcastShape, Compatible
<1> HIDE DEF n
<1>4. /\ \A k \in 1 .. n : u[k] \in Nat
      /\ \A k \in Axes(s) : k + (n - Len(s)) \in 1 .. n /\ u[k + (n - Len(s))] = s[k]
  BY <1>2, AlignedShape
<1>5. /\ \A k \in 1 .. n : v[k] \in Nat
      /\ \A k \in Axes(t) : k + (n - Len(t)) \in 1 .. n /\ v[k + (n - Len(t))] = t[k]
  BY <1>2, AlignedShape
<1> HIDE DEF u, v
<1>6. out \in Seq(Nat) /\ Len(out) = n
  <2>1. \A k \in 1 .. n : (IF u[k] = 1 THEN v[k] ELSE u[k]) \in Nat
    BY <1>4, <1>5
  <2> QED BY <1>2, <1>3, <2>1
<1>7. \A k \in 1 .. n : /\ u[k] = 1 \/ out[k] = u[k]
                        /\ v[k] = 1 \/ out[k] = v[k]
  BY <1>3
<1>8. \A k \in Axes(s) : s[k] = 1 \/ out[k + (n - Len(s))] = s[k]
  BY <1>4, <1>7
<1>9. \A k \in Axes(t) : t[k] = 1 \/ out[k + (n - Len(t))] = t[k]
  BY <1>5, <1>7
<1> QED BY <1>2, <1>6, <1>8, <1>9 DEF Stretches

\* fnp.broadcast_to: what the rule accepts keeps a true tag.
THEOREM BroadcastToKeepsTags ==
  ASSUME Honest(array), NEW out \in Seq(Nat), BroadcastTo(out)
  PROVE  Honest(array')
<1> DEFINE s == array.shape
           val == array.val
           g == array.tag
           data == [c \in Cells(out) |-> val[Narrowed(s, c)]]
           b == BroadcastGroup(g, s, out)
<1>1. s \in Seq(Nat) /\ DOMAIN val = Cells(s) /\ Fits(g, Len(s))
  BY DEF Honest, Typed
<1>2. /\ Makes("broadcast_to", out, data, b, TRUE)
      /\ Compatible(s, out) /\ out = BroadcastShape(s, out) /\ BroadcastAccepts(g, s, out)
  BY DEF BroadcastTo
<1>3. DOMAIN data = Cells(out) /\ Broadcasts(s, val, out, data)
  <2>1. DOMAIN data = Cells(out) /\ \A c \in Cells(out) : data[c] = val[Narrowed(s, c)]
    OBVIOUS
  <2> HIDE DEF s, val, data
  <2>2. Stretches(s, out)
    BY <1>1, <1>2, BroadcastStretches
  <2> QED BY <1>1, <2>1, <2>2 DEF Broadcasts
<1> HIDE DEF data
<1>4. b # None => /\ WellFormed(b) /\ Support(b) \subseteq Axes(out)
                  /\ (g # None => HoldsFor(g, s, val)) => HoldsFor(b, out, data)
  <2> HIDE DEF s, val, g
  <2> QED BY <1>1, <1>2, <1>3, BroadcastHolds DEF b
<1>5. Fits(b, Len(out))
  <2> HIDE DEF b
  <2> QED BY <1>4, ShapeFacts DEF Fits
<1>6. array.sound /\ b # None => HoldsFor(b, out, data)
  BY <1>4 DEF Honest
<1> HIDE DEF b, s, val, g
<1> QED BY <1>2, <1>3, <1>5, <1>6, MakesHonest


-----------------------------------------------------------------------------
(***************************************************************************)
(* Results with destinations, and elementwise functions of two arrays.     *)
(***************************************************************************)
\* A destination stays honest whatever symmetry is claimed for the result.
LEMMA IntoHonest ==
  ASSUME NEW d, Honest(d), NEW op, NEW s, NEW val, DOMAIN val = Cells(s),
         NEW g, Fits(g, Len(s)), Into(op, d, s, val, g)
  PROVE  Honest(array')
<1> DEFINE kept == Prepared(d, g)
<1>1. d.shape = s /\ s \in Seq(Nat) /\ Typed(d)
  BY DEF Into, Honest, Typed
<1>2. PICK finite \in BOOLEAN :
        array' = IF Refuses(d, g) THEN d ELSE Written(d, val, g, finite)
  BY DEF Into
<1>3. kept \in {g, None}
  BY DEF Prepared
<1>4. DOMAIN Named(val) = Cells(s)
  BY DEF Named
<1> HIDE DEF kept
<1>5. Honest(Written(d, val, g, finite))
  <2>1. CASE d.kind = "plain"
    <3>1. Written(d, val, g, finite)
            = [d EXCEPT !.val = Named(val), !.sound = TRUE]
      BY <2>1 DEF Written
    <3> QED BY <2>1, <3>1, <1>1, <1>4 DEF Honest, Typed
  <2>2. CASE d.kind # "plain" /\ (kept = None \/ ~ finite)
    <3>1. Written(d, val, g, finite)
            = [d EXCEPT !.val = Named(val), !.tag = None, !.sound = TRUE]
      BY <2>2 DEF Written, kept
    <3> QED BY <2>2, <3>1, <1>1, <1>4 DEF Honest, Typed, Fits
  <2>3. CASE d.kind # "plain" /\ kept # None /\ finite
    <3>1. Written(d, val, g, finite)
            = IF HoldsFor(kept, s, val)
                THEN [d EXCEPT !.val = Named(val), !.tag = kept, !.sound = TRUE]
                ELSE d
      BY <2>3, <1>1 DEF Written, kept
    <3>2. CASE HoldsFor(kept, s, val)
      <4>1. WellFormed(kept) /\ Fits(kept, Len(s))
        BY <1>3, <2>3 DEF Fits
      <4>2. HoldsFor(kept, s, Named(val))
        BY <1>1, <3>2, <4>1, NamedHolds
      <4> QED BY <2>3, <3>1, <3>2, <4>1, <4>2, <1>1, <1>4 DEF Honest, Typed
    <3> QED BY <3>1, <3>2
  <2> QED BY <2>1, <2>2, <2>3
<1> QED BY <1>2, <1>5

\* The result of a counted operation, new or in a destination.
LEMMA DeliversHonest ==
  ASSUME Honest(array), \A d \in Destinations : Honest(d),
         NEW op, NEW s \in Seq(Nat), NEW val, DOMAIN val = Cells(s),
         NEW g, Fits(g, Len(s)), NEW right,
         right /\ array.sound /\ g # None => HoldsFor(g, s, val),
         Delivers(op, s, val, g, right)
  PROVE  Honest(array')
<1>1. CASE Makes(op, s, val, g, right)
  BY <1>1, MakesHonest
<1>2. CASE \E d \in Destinations \cup {array} : Into("out", d, s, val, g)
  <2>1. PICK d \in Destinations \cup {array} : Into("out", d, s, val, g)
    BY <1>2
  <2>2. Honest(d)
    OBVIOUS
  <2> QED BY <2>1, <2>2, IntoHonest
<1> QED BY <1>1, <1>2 DEF Delivers

\* An elementwise function.
LEMMA UnaryHonest ==
  ASSUME Honest(array), \A d \in Destinations : Honest(d), Unary
  PROVE  Honest(array')
<1>1. /\ array.shape \in Seq(Nat) /\ DOMAIN array.val = Cells(array.shape)
      /\ Fits(array.tag, Len(array.shape))
      /\ array.sound /\ array.tag # None => HoldsFor(array.tag, array.shape, array.val)
  BY DEF Honest, Typed
<1> QED BY <1>1, DeliversHonest DEF Unary

\* Moving axes.
LEMMA TransposeHonest ==
  ASSUME Honest(array), NEW order \in Bijection(All, All), Transpose(order)
  PROVE  Honest(array')
<1> DEFINE s == array.shape
           g == array.tag
           t == TransposedShape(s, order)
           data == TransposedData(s, array.val, order)
           h == TransportTranspose(g, order)
           back == AntiFunction(order)
<1>1. /\ s \in Seq(Nat) /\ DOMAIN array.val = Cells(s) /\ Fits(g, Len(s))
      /\ array.sound /\ g # None => HoldsFor(g, s, array.val)
  BY DEF Honest, Typed
<1>2. /\ Makes("transpose", t, data, h, TRUE)
      /\ order \in Bijection(Axes(s), Axes(s)) /\ DOMAIN data = Cells(t)
  BY DEF Transpose, All, TransposedData
<1>3. t \in Seq(Nat) /\ Axes(t) = Axes(s)
  BY <1>1, <1>2, TransposedShapes
<1>4. /\ Len(s) \in Nat /\ Axes(s) = 1 .. Len(s) /\ Len(t) \in Nat /\ Axes(t) = 1 .. Len(t)
  BY <1>1, <1>3, ShapeFacts
<1>5. array.sound /\ h # None => HoldsFor(h, t, data)
  <2>1. h # None => g # None
    BY DEF TransportTranspose, Remap
  <2>2. array.sound /\ h # None => HoldsFor(g, s, array.val) /\ WellFormed(g)
    BY <1>1, <2>1 DEF Fits
  <2> HIDE DEF s, g
  <2> QED BY <1>1, <1>2, <2>1, <2>2, TransposeKeepsTruth DEF h, t, data
<1>6. Fits(h, Len(t))
  <2> SUFFICES ASSUME h # None PROVE WellFormed(h) /\ Support(h) \subseteq 1 .. Len(t)
    BY DEF Fits
  <2>1. h = Remap(g, back) /\ g # None
    BY DEF TransportTranspose, Remap
  <2>2. WellFormed(g) /\ Support(g) \subseteq Axes(s)
    BY <1>1, <1>4, <2>1 DEF Fits
  <2>3. back \in [Axes(s) -> Axes(s)] /\ \A a, b \in Axes(s) : back[a] = back[b] => a = b
    BY <1>1, <1>2, OrderInverts
  <2> HIDE DEF s, g, t, back, h
  <2>4. /\ \A a \in Support(g) : back[a] \in 1 .. Len(s)
        /\ \A a, b \in Support(g) : back[a] = back[b] => a = b
    BY <1>4, <2>2, <2>3
  <2>5. /\ WellFormed(h)
        /\ \A b : b \in Support(h) <=> \E a \in Support(g) : b = back[a]
    BY <1>4, <2>1, <2>2, <2>4, RemapFits
  <2> QED BY <1>3, <1>4, <2>4, <2>5
<1> HIDE DEF s, g, t, data, h, back
<1> QED BY <1>2, <1>3, <1>5, <1>6, MakesHonest

\* Flipping axes.
LEMMA FlipHonest ==
  ASSUME Honest(array), NEW F \in SUBSET All, Flip(F)
  PROVE  Honest(array')
<1> DEFINE s == array.shape
           g == array.tag
           data == FlippedData(s, array.val, F)
           h == TransportFlip(g, F)
<1>1. /\ s \in Seq(Nat) /\ DOMAIN array.val = Cells(s) /\ Fits(g, Len(s))
      /\ array.sound /\ g # None => HoldsFor(g, s, array.val)
  BY DEF Honest, Typed
<1>2. Makes("flip", s, data, h, TRUE) /\ DOMAIN data = Cells(s)
  BY DEF Flip, FlippedData
<1>3. ASSUME h # None
      PROVE  /\ g # None /\ WellFormed(h) /\ Support(h) = Support(g)
             /\ h.perms \subseteq g.perms
             /\ \A p \in h.perms : \A a \in Support(g) : a \in F <=> p[a] \in F
  <2>1. g # None /\ WellFormed(g)
    BY <1>1, <1>3 DEF TransportFlip, Fits
  <2>2. /\ h.axes = g.axes /\ h.perms \subseteq g.perms
        /\ \/ F \cap Support(g) \in {{}, Support(g)}
           \/ h.perms = Stabilizing(g, F)
    BY <1>3, <2>1 DEF TransportFlip, Group, Stabilizing
  <2>3. Support(h) = Support(g)
    BY <2>2 DEF Support
  <2> HIDE DEF g, h
  <2>4. ASSUME NEW p \in h.perms
        PROVE  \A a \in Support(g) : a \in F <=> p[a] \in F
    <3>1. /\ p \in [Support(g) -> Support(g)]
          /\ \A a, b \in Support(g) : p[a] = p[b] => a = b
      BY <2>1, <2>2 DEF WellFormed
    <3>2. CASE F \cap Support(g) \in {{}, Support(g)}
      BY <3>1, <3>2
    <3>3. CASE h.perms = Stabilizing(g, F)
      <4>1. {p[a] : a \in F \cap Support(g)} = F \cap Support(g)
        BY <3>3 DEF Stabilizing
      <4> QED BY <3>1, <4>1
    <3> QED BY <2>2, <3>2, <3>3
  <2> QED BY <2>1, <2>2, <2>3, <2>4 DEF WellFormed
<1> HIDE DEF h
<1>4. Fits(h, Len(s))
  BY <1>1, <1>3 DEF Fits
<1>5. ASSUME array.sound, h # None PROVE HoldsFor(h, s, data)
  <2>1. HoldsFor(g, s, array.val) /\ WellFormed(g)
    BY <1>1, <1>3, <1>5 DEF Fits
  <2>2. Support(h) \subseteq Axes(s)
    BY <1>3, <1>5, <2>1 DEF HoldsFor
  <2>3. ASSUME NEW p \in h.perms PROVE Symmetric(s, data, p)
    <3>1. p \in [Support(g) -> Support(g)] /\ Symmetric(s, array.val, p)
      BY <1>3, <1>5, <2>1 DEF WellFormed, HoldsFor
    <3>2. Support(g) \in SUBSET Axes(s)
      BY <1>3, <1>5, <2>2
    <3>3. \A a \in Support(g) : a \in F <=> p[a] \in F
      BY <1>3, <1>5
    <3> HIDE DEF s, g
    <3> QED BY <1>1, <3>1, <3>2, <3>3, FlippedSymmetry DEF data
  <2> QED BY <2>2, <2>3 DEF HoldsFor
<1> HIDE DEF s, g, data
<1> QED BY <1>1, <1>2, <1>4, <1>5, MakesHonest

\* A group that holds for two arrays holds for the pairs of their values.
LEMMA PairsHold ==
  ASSUME NEW out \in Seq(Nat), NEW d1, NEW d2, NEW data,
         DOMAIN d1 = Cells(out), DOMAIN d2 = Cells(out), DOMAIN data = Cells(out),
         \A c \in Cells(out) : data[c] = <<d1[c], d2[c]>>,
         NEW r, WellFormed(r), HoldsFor(r, out, d1), HoldsFor(r, out, d2)
  PROVE  HoldsFor(r, out, data)
<1>1. Support(r) \subseteq Axes(out)
  BY DEF HoldsFor
<1>2. ASSUME NEW q \in r.perms PROVE Symmetric(out, data, q)
  <2>1. Symmetric(out, d1, q) /\ Symmetric(out, d2, q)
    BY DEF HoldsFor
  <2>2. \A c \in Cells(out) : Permuted(c, q) \in Cells(out)
    BY <1>1, <2>1, FittingCells
  <2>3. Pairs(out, d1, d2, data, q, 0)
    BY <2>2 DEF Pairs
  <2> QED BY <2>1, <2>3, PairedSymmetry
<1> QED BY <1>1, <1>2 DEF HoldsFor

\* A scalar is broadcast to an array that is symmetric in every way.
LEMMA ScalarHolds ==
  ASSUME NEW s \in Seq(Nat), Len(s) = 0, NEW val, NEW out \in Seq(Nat), NEW data,
         Broadcasts(s, val, out, data), NEW r, NEW more, WellFormed(r),
         DOMAIN more = Cells(out), HoldsFor(r, out, more)
  PROVE  HoldsFor(r, out, data)
<1>1. Support(r) \subseteq Axes(out) /\ DOMAIN data = Cells(out)
  BY DEF HoldsFor, Broadcasts
<1>2. Axes(s) = {}
  <2>1. Axes(s) = 1 .. 0
    BY ShapeFacts
  <2> QED BY <2>1
<1>3. \A c, d \in Cells(out) : Narrowed(s, c) = Narrowed(s, d)
  BY <1>2 DEF Narrowed
<1>4. \A c, d \in Cells(out) : data[c] = data[d]
  BY <1>3 DEF Broadcasts
<1>5. ASSUME NEW q \in r.perms PROVE Symmetric(out, data, q)
  <2>1. Symmetric(out, more, q)
    BY DEF HoldsFor
  <2>2. \A c \in Cells(out) : Permuted(c, q) \in Cells(out)
    BY <1>1, <2>1, FittingCells
  <2> QED BY <1>1, <1>4, <2>1, <2>2 DEF Symmetric
<1> QED BY <1>1, <1>5 DEF HoldsFor

\* The groups of two operands, aligned with the result, fit its shape and hold.
LEMMA AlignedHolds ==
  ASSUME NEW x, Honest(x), NEW out, NEW data, Broadcasts(x.shape, x.val, out, data),
         BroadcastAccepts(x.tag, x.shape, out), NEW g, g = AlignedGroup(x, out), g # None
  PROVE  /\ WellFormed(g) /\ Support(g) \subseteq Axes(out)
         /\ x.sound => HoldsFor(g, out, data)
<1>1. Fits(x.tag, Len(x.shape)) /\ (x.sound /\ x.tag # None => HoldsFor(x.tag, x.shape, x.val))
  BY DEF Honest, Typed
<1>2. g = BroadcastGroup(x.tag, x.shape, out)
  BY DEF AlignedGroup
<1>3. /\ WellFormed(g) /\ Support(g) \subseteq Axes(out)
      /\ (x.tag # None => HoldsFor(x.tag, x.shape, x.val)) => HoldsFor(g, out, data)
  BY <1>1, <1>2, BroadcastHolds
<1> QED BY <1>1, <1>3

\* A group for the result of an elementwise function of two operands.
Aligns(x, y, out, d1, d2, r) ==
  /\ Honest(x) /\ Honest(y)
  /\ Broadcasts(x.shape, x.val, out, d1) /\ Broadcasts(y.shape, y.val, out, d2)
  /\ BroadcastAccepts(x.tag, x.shape, out) /\ BroadcastAccepts(y.tag, y.shape, out)
  /\ r = PointwiseSymmetry(x, y, out) /\ r # None

\* _pointwise_symmetry(): it holds for both operands unless one lost its group.
LEMMA PointwiseHolds ==
  ASSUME NEW x, NEW y, NEW out, NEW d1, NEW d2, NEW r, Aligns(x, y, out, d1, d2, r)
  PROVE  /\ WellFormed(r) /\ Support(r) \subseteq Axes(out)
         /\ x.sound /\ y.sound /\ AlignsAll(x, y, out)
              => HoldsFor(r, out, d1) /\ HoldsFor(r, out, d2)
<1> DEFINE g == AlignedGroup(x, out)
           h == AlignedGroup(y, out)
           n == Len(out)
<1>1. /\ out \in Seq(Nat) /\ DOMAIN d1 = Cells(out) /\ DOMAIN d2 = Cells(out)
      /\ x.shape \in Seq(Nat) /\ y.shape \in Seq(Nat)
  BY DEF Aligns, Broadcasts, Stretches
<1>2. g # None => /\ WellFormed(g) /\ Support(g) \subseteq Axes(out)
                  /\ x.sound => HoldsFor(g, out, d1)
  BY AlignedHolds DEF Aligns
<1>3. h # None => /\ WellFormed(h) /\ Support(h) \subseteq Axes(out)
                  /\ y.sound => HoldsFor(h, out, d2)
  BY AlignedHolds DEF Aligns
<1>4. ~ Dense(x) /\ ~ Dense(y) /\ r # None
  BY DEF Aligns, PointwiseSymmetry
<1>5. r = IF None \in {g, h} THEN (IF g = None THEN h ELSE g) ELSE Intersect(g, h, n)
  BY <1>4 DEF Aligns, PointwiseSymmetry
<1>6. n \in Nat /\ Axes(out) = 1 .. n
  BY <1>1, ShapeFacts
<1>7. AlignsAll(x, y, out) => (x.tag # None => g # None) /\ (y.tag # None => h # None)
  BY DEF AlignsAll
<1>8. /\ AlignsAll(x, y, out) /\ g = None => Len(x.shape) = 0
      /\ AlignsAll(x, y, out) /\ h = None => Len(y.shape) = 0
  BY <1>1, <1>4, <1>7, ShapeFacts DEF Dense
<1> HIDE DEF g, h
<1>9. CASE g = None
  <2>1. r = h /\ h # None
    BY <1>4, <1>5, <1>9
  <2>2. ASSUME y.sound, AlignsAll(x, y, out) PROVE HoldsFor(r, out, d1)
    BY <1>1, <1>3, <1>8, <1>9, <2>1, <2>2, ScalarHolds DEF Aligns
  <2> QED BY <1>3, <2>1, <2>2
<1>10. CASE g # None /\ h = None
  <2>1. r = g
    BY <1>5, <1>10
  <2>2. ASSUME x.sound, AlignsAll(x, y, out) PROVE HoldsFor(r, out, d2)
    BY <1>1, <1>2, <1>8, <1>10, <2>1, <2>2, ScalarHolds DEF Aligns
  <2> QED BY <1>2, <1>10, <2>1, <2>2
<1>11. CASE g # None /\ h # None
  <2>1. r = Intersect(g, h, n)
    BY <1>5, <1>11
  <2>2. /\ WellFormed(r) /\ Support(r) \subseteq 1 .. n
        /\ Within(r, g, n) /\ Within(r, h, n)
    BY <1>2, <1>3, <1>4, <1>6, <1>11, <2>1, IntersectFits
  <2>3. x.sound => HoldsFor(r, out, d1)
    BY <1>1, <1>2, <1>6, <1>11, <2>2, WithinHolds
  <2>4. y.sound => HoldsFor(r, out, d2)
    BY <1>1, <1>3, <1>6, <1>11, <2>2, WithinHolds
  <2> QED BY <1>6, <2>2, <2>3, <2>4
<1> QED BY <1>9, <1>10, <1>11

\* An elementwise function of two operands.
THEOREM BinaryKeepsTags ==
  ASSUME Honest(array), \A d \in Destinations : Honest(d),
         NEW other, Honest(other), Binary(other)
  PROVE  Honest(array')
<1> DEFINE out == BroadcastShape(array.shape, other.shape)
           d1 == [c \in Cells(out) |-> array.val[Narrowed(array.shape, c)]]
           d2 == [c \in Cells(out) |-> other.val[Narrowed(other.shape, c)]]
           data == [c \in Cells(out) |-> <<array.val[Narrowed(array.shape, c)],
                                          other.val[Narrowed(other.shape, c)]>>]
           r == PointwiseSymmetry(array, other, out)
           right == other.sound /\ AlignsAll(array, other, out)
<1>1. /\ array.shape \in Seq(Nat) /\ DOMAIN array.val = Cells(array.shape)
      /\ other.shape \in Seq(Nat) /\ DOMAIN other.val = Cells(other.shape)
  BY DEF Honest, Typed
<1>2. /\ Delivers("binary", out, data, r, right)
      /\ Compatible(array.shape, other.shape)
      /\ BroadcastAccepts(array.tag, array.shape, out)
      /\ BroadcastAccepts(other.tag, other.shape, out)
  BY DEF Binary
<1>3. Stretches(array.shape, out) /\ Stretches(other.shape, out)
  BY <1>1, <1>2, BroadcastStretches
<1> HIDE DEF out
<1>4. /\ DOMAIN d1 = Cells(out) /\ DOMAIN d2 = Cells(out) /\ DOMAIN data = Cells(out)
      /\ \A c \in Cells(out) : /\ d1[c] = array.val[Narrowed(array.shape, c)]
                               /\ d2[c] = other.val[Narrowed(other.shape, c)]
                               /\ data[c] = <<d1[c], d2[c]>>
  OBVIOUS
<1> HIDE DEF d1, d2, data, r, right
<1>5. Broadcasts(array.shape, array.val, out, d1) /\ Broadcasts(other.shape, other.val, out, d2)
  BY <1>1, <1>3, <1>4 DEF Broadcasts
<1>6. out \in Seq(Nat) /\ Len(out) \in Nat /\ Axes(out) = 1 .. Len(out)
  BY <1>3, ShapeFacts DEF Stretches
<1>7. r # None => Aligns(array, other, out, d1, d2, r)
  BY <1>2, <1>5 DEF Aligns, r
<1>8. r # None => /\ WellFormed(r) /\ Support(r) \subseteq Axes(out)
                  /\ array.sound /\ right => HoldsFor(r, out, d1) /\ HoldsFor(r, out, d2)
  BY <1>7, PointwiseHolds DEF right
<1>9. Fits(r, Len(out))
  BY <1>6, <1>8 DEF Fits
<1>10. right /\ array.sound /\ r # None => HoldsFor(r, out, data)
  BY <1>4, <1>6, <1>8, PairsHold
<1> QED BY <1>2, <1>4, <1>6, <1>9, <1>10, DeliversHonest

-----------------------------------------------------------------------------
(***************************************************************************)
(* Reductions: cells of one orbit are made of as many equal cells.         *)
(***************************************************************************)
\* An array has finitely many cells.
LEMMA CellsFinite ==
  ASSUME NEW s \in Seq(Nat)
  PROVE  IsFiniteSet(Cells(s))
<1> DEFINE A == Axes(s)
           S == {0 .. s[k] - 1 : k \in A}
           U == UNION S
           f == [k \in A |-> 0 .. s[k] - 1]
           h == [c \in Cells(s) |-> {<<k, c[k]>> : k \in A}]
<1>1. /\ Len(s) \in Nat /\ A = 1 .. Len(s) /\ \A k \in A : s[k] \in Nat
  BY ShapeFacts
<1>2. IsFiniteSet(A)
  BY <1>1, FS_Interval
<1>3. f \in Surjection(A, S)
  <2>1. f \in [A -> S] /\ \A t \in S : \E k \in A : f[k] = t
    OBVIOUS
  <2> HIDE DEF f, S, A
  <2> QED BY <2>1, Fun_IsSurj
<1>4. IsFiniteSet(S)
  <2> HIDE DEF f, S, A
  <2> QED BY <1>2, <1>3, FS_Surjection
<1>5. \A t \in S : IsFiniteSet(t)
  <2>1. ASSUME NEW k \in A PROVE IsFiniteSet(0 .. s[k] - 1)
    <3>1. 0 \in Int /\ s[k] - 1 \in Int
      BY <1>1
    <3> QED BY <3>1, FS_Interval
  <2> QED BY <2>1
<1>6. IsFiniteSet(U)
  <2> HIDE DEF S
  <2> QED BY <1>4, <1>5, FS_UNION
<1>7. IsFiniteSet(SUBSET (A \X U))
  <2> HIDE DEF A, U
  <2> QED BY <1>2, <1>6, FS_Product, FS_SUBSET
<1>8. \A c \in Cells(s) : c \in [A -> U]
  BY DEF Cells
<1>9. h \in Injection(Cells(s), SUBSET (A \X U))
  <2>1. ASSUME NEW c \in Cells(s) PROVE {<<k, c[k]>> : k \in A} \in SUBSET (A \X U)
    <3> HIDE DEF A, U
    <3> QED BY <1>8
  <2>2. ASSUME NEW c \in Cells(s), NEW d \in Cells(s),
               {<<k, c[k]>> : k \in A} = {<<k, d[k]>> : k \in A}
        PROVE  c = d
    <3> HIDE DEF A, U
    <3>1. ASSUME NEW k \in A PROVE c[k] = d[k]
      <4>1. <<k, c[k]>> \in {<<j, d[j]>> : j \in A}
        BY <2>2
      <4> QED BY <4>1
    <3>2. c = [k \in A |-> c[k]] /\ d = [k \in A |-> d[k]]
      BY <1>8
    <3>3. [k \in A |-> c[k]] = [k \in A |-> d[k]]
      BY <3>1
    <3> QED BY <3>2, <3>3
  <2>3. h \in [Cells(s) -> SUBSET (A \X U)]
    BY <2>1
  <2>4. \A c, d \in Cells(s) : h[c] = h[d] => c = d
    BY <2>2
  <2> HIDE DEF h, A, U
  <2> QED BY <2>3, <2>4, Fun_IsInj
<1> HIDE DEF h, A, U
<1> QED BY <1>7, <1>9, FS_Injection

\* A permutation of some of the axes has an inverse.
LEMMA PermutationOnto ==
  ASSUME NEW n \in Nat, NEW E \in SUBSET (1 .. n), NEW p \in [E -> E],
         \A a, b \in E : p[a] = p[b] => a = b
  PROVE  \A b \in E : \E a \in E : p[a] = b
<1>1. IsFiniteSet(E)
  <2>1. IsFiniteSet(1 .. n)
    BY FS_Interval
  <2> QED BY <2>1, FS_Subset
<1>2. p \in Injection(E, E)
  BY Fun_IsInj
<1>3. p \in Surjection(E, E)
  BY <1>1, <1>2, FS_Injection
<1> QED BY <1>3 DEF Surjection

-----------------------------------------------------------------------------
\* Function f pairs the cells D with the cells E, equal ones with equal ones.
Matches(val, K, D, E, f) ==
  /\ f \in Bijection(D, E)
  /\ \A d \in D : val[f[d]] = val[d]
  /\ \A k \in K, d \in D : f[d][k] = d[k]

\* Over one axis, cells in the same places with the same values reduce alike.
LEMMA PlacesReduce ==
  ASSUME NEW val, NEW K, NEW D, NEW E, NEW f, Matches(val, K, D, E, f),
         Cardinality(K) = 1
  PROVE  Reduced(val, K, D) = Reduced(val, K, E)
<1> DEFINE I(S) == {d[k] : k \in K, d \in S}
           V(S, i) == {val[d] : d \in {e \in S : \E k \in K : e[k] = i}}
<1>1. /\ \A d \in D : f[d] \in E /\ val[f[d]] = val[d] /\ \A k \in K : f[d][k] = d[k]
      /\ \A e \in E : \E d \in D : f[d] = e
  BY Fun_BijectionProperties DEF Matches
<1>2. I(D) = I(E)
  BY <1>1
<1>3. ASSUME NEW i PROVE V(D, i) = V(E, i)
  <2>1. ASSUME NEW x \in V(D, i) PROVE x \in V(E, i)
    <3>1. PICK d \in D, k \in K : d[k] = i /\ x = val[d]
      OBVIOUS
    <3>2. f[d] \in E /\ f[d][k] = i /\ x = val[f[d]]
      BY <1>1, <3>1
    <3> QED BY <3>2
  <2>2. ASSUME NEW x \in V(E, i) PROVE x \in V(D, i)
    <3>1. PICK e \in E, k \in K : e[k] = i /\ x = val[e]
      OBVIOUS
    <3>2. PICK d \in D : f[d] = e
      BY <1>1
    <3>3. d[k] = i /\ x = val[d]
      BY <1>1, <3>1, <3>2
    <3> QED BY <3>3
  <2> HIDE DEF V
  <2> QED BY <2>1, <2>2
<1>4. Reduced(val, K, D) = [i \in I(D) |-> V(D, i)]
  BY DEF Reduced
<1>5. Reduced(val, K, E) = [i \in I(E) |-> V(E, i)]
  BY DEF Reduced
<1> HIDE DEF I, V
<1>6. [i \in I(D) |-> V(D, i)] = [i \in I(E) |-> V(E, i)]
  BY <1>2, <1>3
<1> QED BY <1>4, <1>5, <1>6

\* Over several axes, the same values the same number of times reduce alike.
LEMMA CountsReduce ==
  ASSUME NEW val, NEW K, NEW D, IsFiniteSet(D), NEW E, NEW f, Matches(val, {}, D, E, f),
         Cardinality(K) # 1
  PROVE  Reduced(val, K, D) = Reduced(val, K, E)
<1> DEFINE V(S) == {val[d] : d \in S}
           At(S, v) == {d \in S : val[d] = v}
           N(S, v) == Cardinality(At(S, v))
<1>1. /\ f \in [D -> E]
      /\ \A a, b \in D : f[a] = f[b] => a = b
      /\ \A d \in D : f[d] \in E /\ val[f[d]] = val[d]
      /\ \A e \in E : \E d \in D : f[d] = e
  BY Fun_BijectionProperties DEF Matches
<1>2. V(D) = V(E)
  BY <1>1
<1>3. ASSUME NEW v PROVE N(D, v) = N(E, v)
  <2> DEFINE S == At(D, v)
             T == At(E, v)
             h == [d \in S |-> f[d]]
  <2>1. IsFiniteSet(S)
    BY FS_Subset
  <2>2. /\ h \in [S -> T] /\ \A a, b \in S : h[a] = h[b] => a = b
        /\ \A e \in T : \E d \in S : h[d] = e
    BY <1>1
  <2> HIDE DEF S, T, h
  <2>3. h \in Bijection(S, T)
    BY <2>2, Fun_IsBij
  <2>4. ExistsBijection(S, T)
    BY <2>3, Fun_ExistsBij
  <2>5. Cardinality(S) = Cardinality(T)
    BY <2>1, <2>4, FS_Bijection
  <2> QED BY <2>5 DEF S, T
<1>4. Reduced(val, K, D) = [v \in V(D) |-> N(D, v)]
  BY DEF Reduced
<1>5. Reduced(val, K, E) = [v \in V(E) |-> N(E, v)]
  BY DEF Reduced
<1> HIDE DEF V, N
<1>6. [v \in V(D) |-> N(D, v)] = [v \in V(E) |-> N(E, v)]
  BY <1>2, <1>3
<1> QED BY <1>4, <1>5, <1>6

-----------------------------------------------------------------------------
\* Shape out is shape s with the axes K reduced; axis a becomes axis to[a].
Reduces(s, K, out, to) ==
  /\ Moves(s, out, Axes(s) \ K, to) /\ K \in SUBSET Axes(s)
  /\ \A a \in Axes(s) \ K : out[to[a]] = s[a]

\* Permutation p of the axes S maps reduced axes to reduced axes, and q does to the
\* axes of the result what p does to the axes that are left.
Turns(s, K, out, to, val, S, p, q) ==
  /\ Reduces(s, K, out, to)
  /\ DOMAIN val = Cells(s) /\ Symmetric(s, val, p)
  /\ S \in SUBSET Axes(s) /\ p \in [S -> S] /\ \A a, b \in S : p[a] = p[b] => a = b
  /\ {p[a] : a \in K \cap S} = K \cap S
  /\ Carries(S \ K, to, p, q)

\* It moves axes that are left among themselves, as q does.
LEMMA TurnedAxes ==
  ASSUME NEW s, NEW K, NEW out, NEW to, NEW val, NEW S, NEW p, NEW q,
         Turns(s, K, out, to, val, S, p, q)
  PROVE  /\ \A a \in Axes(s) \ K : /\ Image(p, a) \in Axes(s) \ K
                                   /\ Image(q, to[a]) = to[Image(p, a)]
         /\ \A a \in Axes(s) : Image(p, a) \in Axes(s)
         /\ \A k \in K : K = {k} => Image(p, k) = k
         /\ \A a \in Axes(s) : \E b \in Axes(s) :
              Image(p, b) = a /\ (a \in S <=> b \in S) /\ (a \in K <=> b \in K)
<1>1. /\ S \in SUBSET Axes(s) /\ p \in [S -> S] /\ \A a, b \in S : p[a] = p[b] => a = b
      /\ {p[a] : a \in K \cap S} = K \cap S
      /\ \A a, b \in Axes(s) \ K : to[a] = to[b] => a = b
      /\ \A b : b \in DOMAIN q <=> \E a \in S \ K : b = to[a]
      /\ \A a \in S \ K : q[to[a]] = to[p[a]]
      /\ s \in Seq(Nat) /\ K \in SUBSET Axes(s)
  BY DEF Turns, Reduces, Moves, Carries
<1>2. /\ \A a \in S : Image(p, a) = p[a] /\ p[a] \in S
      /\ \A a \in Axes(s) \ S : Image(p, a) = a
  BY <1>1 DEF Image
<1>3. \A a \in S : a \in K <=> p[a] \in K
  BY <1>1
<1>4. ASSUME NEW a \in Axes(s) \ K
      PROVE  /\ Image(p, a) \in Axes(s) \ K
             /\ Image(q, to[a]) = to[Image(p, a)]
  <2>1. CASE a \in S
    <3>1. to[a] \in DOMAIN q /\ q[to[a]] = to[p[a]]
      BY <1>1, <2>1
    <3>2. Image(q, to[a]) = to[p[a]]
      BY <3>1 DEF Image
    <3> QED BY <1>1, <1>2, <1>3, <2>1, <3>2
  <2>2. CASE a \notin S
    <3>1. to[a] \notin DOMAIN q
      BY <1>1, <2>2
    <3>2. Image(q, to[a]) = to[a]
      BY <3>1 DEF Image
    <3> QED BY <1>2, <2>2, <3>2
  <2> QED BY <2>1, <2>2
<1>5. \A a \in Axes(s) : Image(p, a) \in Axes(s)
  BY <1>1, <1>2
<1>6. ASSUME NEW k \in K, K = {k} PROVE Image(p, k) = k
  <2>1. CASE k \in S
    BY <1>2, <1>3, <1>6, <2>1
  <2>2. CASE k \notin S
    BY <1>1, <1>2, <2>2
  <2> QED BY <2>1, <2>2
<1>7. ASSUME NEW a \in Axes(s)
      PROVE  \E b \in Axes(s) :
               Image(p, b) = a /\ (a \in S <=> b \in S) /\ (a \in K <=> b \in K)
  <2>1. CASE a \in S
    <3>1. Len(s) \in Nat /\ Axes(s) = 1 .. Len(s)
      BY <1>1, ShapeFacts
    <3> DEFINE n == Len(s)
    <3>2. n \in Nat /\ S \in SUBSET (1 .. n)
      BY <1>1, <3>1
    <3>3. p \in [S -> S] /\ \A x, y \in S : p[x] = p[y] => x = y
      BY <1>1
    <3> HIDE DEF n
    <3>5. \A c \in S : \E b \in S : p[b] = c
      BY <3>2, <3>3, PermutationOnto
    <3>4. PICK b \in S : p[b] = a
      BY <2>1, <3>5
    <3> QED BY <1>1, <1>2, <1>3, <2>1, <3>4
  <2>2. CASE a \notin S
    BY <1>2, <2>2
  <2> QED BY <2>1, <2>2
<1> QED BY <1>4, <1>5, <1>6, <1>7

\* A cell permuted by p is the cell read by Image().
LEMMA TurnedCells ==
  ASSUME NEW s \in Seq(Nat), NEW S \in SUBSET Axes(s), NEW p \in [S -> S],
         Permuted(s, p) = s, NEW d \in Cells(s)
  PROVE  /\ Permuted(d, p) \in Cells(s)
         /\ \A k \in Axes(s) : Permuted(d, p)[k] = d[Image(p, k)]
<1>1. DOMAIN d = Axes(s)
  BY CellsOfShape
<1>2. Permuted(d, p) \in Cells(s)
  BY PermutedCells
<1>3. \A k \in DOMAIN d : Permuted(d, p)[k] = d[Image(p, k)]
  BY PermutedImage
<1> QED BY <1>1, <1>2, <1>3

\* The axes, no more than one, whose index a reduction over K may look at.
Looks(L, K) == L = {} \/ (L = K /\ \E k \in K : K = {k})

\* Function f turns the cells D, reduced to cell c, into the cells E.
TurnsCells(s, K, out, to, p, q, c, D, E, f) ==
  /\ c \in Cells(out) /\ Permuted(c, q) \in Cells(out)
  /\ D = Reducing(s, K, to, c) /\ E = Reducing(s, K, to, Permuted(c, q))
  /\ f = [d \in D |-> Permuted(d, p)]

\* The cells a cell of the result is made of are turned into those of another.
LEMMA ReducingMatches ==
  ASSUME NEW s, NEW K, NEW out, NEW to, NEW val, NEW S, NEW p, NEW q,
         Turns(s, K, out, to, val, S, p, q),
         NEW c, NEW D, NEW E, NEW f, TurnsCells(s, K, out, to, p, q, c, D, E, f),
         NEW L, Looks(L, K)
  PROVE  Matches(val, L, D, E, f)
<1> DEFINE A == Axes(s) \ K
           z == Permuted(c, q)
<1>0. /\ c \in Cells(out) /\ z \in Cells(out)
      /\ D = Reducing(s, K, to, c) /\ E = Reducing(s, K, to, z)
      /\ f = [d \in D |-> Permuted(d, p)]
  BY DEF TurnsCells
<1>1. /\ s \in Seq(Nat) /\ out \in Seq(Nat) /\ K \in SUBSET Axes(s)
      /\ \A a \in A : to[a] \in Axes(out)
      /\ DOMAIN val = Cells(s) /\ Symmetric(s, val, p)
      /\ S \in SUBSET Axes(s) /\ p \in [S -> S]
  BY DEF Turns, Reduces, Moves
<1>2. Permuted(s, p) = s /\ \A d \in Cells(s) : val[Permuted(d, p)] = val[d]
  BY <1>1 DEF Symmetric
<1>3. /\ \A a \in A : Image(p, a) \in A /\ Image(q, to[a]) = to[Image(p, a)]
      /\ \A a \in Axes(s) : Image(p, a) \in Axes(s)
      /\ \A k \in K : K = {k} => Image(p, k) = k
      /\ \A a \in Axes(s) : \E b \in Axes(s) :
           Image(p, b) = a /\ (a \in S <=> b \in S) /\ (a \in K <=> b \in K)
  BY TurnedAxes
<1>4. ASSUME NEW d \in Cells(s)
      PROVE  /\ Permuted(d, p) \in Cells(s)
             /\ \A k \in Axes(s) : Permuted(d, p)[k] = d[Image(p, k)]
  BY <1>1, <1>2, TurnedCells
<1>5. \A a \in A : z[to[a]] = c[to[Image(p, a)]]
  <2>1. DOMAIN c = Axes(out)
    BY <1>0, <1>1, CellsOfShape
  <2>2. \A k \in DOMAIN c : z[k] = c[Image(q, k)]
    BY PermutedImage
  <2> QED BY <1>1, <1>3, <2>1, <2>2
<1>6. /\ \A d : d \in D <=> d \in Cells(s) /\ \A a \in A : d[a] = c[to[a]]
      /\ \A d : d \in E <=> d \in Cells(s) /\ \A a \in A : d[a] = z[to[a]]
  BY <1>0 DEF Reducing
<1> HIDE DEF A, z
<1>7. ASSUME NEW d \in D PROVE f[d] \in E /\ f[d] = Permuted(d, p)
  <2>1. f[d] = Permuted(d, p) /\ d \in Cells(s)
    BY <1>0, <1>6
  <2>2. \A a \in A : f[d][a] = z[to[a]]
    <3>1. ASSUME NEW a \in A PROVE f[d][a] = z[to[a]]
      <4>1. a \in Axes(s)
        BY DEF A
      <4>2. f[d][a] = d[Image(p, a)]
        BY <1>4, <2>1, <4>1
      <4>3. d[Image(p, a)] = c[to[Image(p, a)]]
        <5>1. Image(p, a) \in A
          BY <1>3 DEF A
        <5> QED BY <1>6, <5>1
      <4> QED BY <1>5, <4>2, <4>3
    <3> QED BY <3>1
  <2> QED BY <1>4, <1>6, <2>1, <2>2
<1>8. ASSUME NEW d \in D, NEW e \in D, f[d] = f[e] PROVE d = e
  <2>1. d \in Cells(s) /\ e \in Cells(s) /\ Permuted(d, p) = Permuted(e, p)
    BY <1>6, <1>7, <1>8
  <2>2. ASSUME NEW k \in Axes(s) PROVE d[k] = e[k]
    <3>1. PICK b \in Axes(s) : Image(p, b) = k
      BY <1>3
    <3>2. Permuted(d, p)[b] = d[k] /\ Permuted(e, p)[b] = e[k]
      BY <1>4, <2>1, <3>1
    <3> QED BY <2>1, <3>2
  <2>3. d = [k \in Axes(s) |-> d[k]] /\ e = [k \in Axes(s) |-> e[k]]
    BY <1>1, <2>1, CellsOfShape
  <2>4. [k \in Axes(s) |-> d[k]] = [k \in Axes(s) |-> e[k]]
    BY <2>2
  <2> QED BY <2>3, <2>4
<1>9. ASSUME NEW e \in E PROVE \E d \in D : f[d] = e
  <2> DEFINE r == [b \in S |-> CHOOSE a \in S : p[a] = b]
  <2>1. \A b \in S : r[b] \in S /\ p[r[b]] = b
    <3>1. \A b \in S : \E a \in S : p[a] = b
      BY <1>1, <1>3 DEF Image
    <3> QED BY <3>1
  <2>2. r \in [S -> S]
    BY <2>1
  <2>3. \A a \in S : r[p[a]] = a
    <3>1. \A a, b \in S : p[a] = p[b] => a = b
      BY DEF Turns
    <3> HIDE DEF r
    <3> QED BY <1>1, <2>1, <3>1
  <2> HIDE DEF r
  <2>4. Permuted(s, r) = s
    <3>1. DOMAIN s = Axes(s)
      BY <1>1 DEF Axes
    <3>2. \A k \in Axes(s) : s[k] = s[Image(p, k)]
      BY <1>2, <3>1, PermutedImage
    <3>3. \A k \in Axes(s) : s[Image(r, k)] = s[k]
      BY <1>1, <2>1, <2>2, <3>2 DEF Image
    <3>4. \A k \in Axes(s) : Permuted(s, r)[k] = s[k]
      BY <3>1, <3>3, PermutedImage
    <3>5. Permuted(s, r) = [k \in Axes(s) |-> Permuted(s, r)[k]]
      BY <3>1 DEF Permuted
    <3>6. s = [k \in Axes(s) |-> s[k]]
      BY <1>1, <3>1
    <3>7. [k \in Axes(s) |-> Permuted(s, r)[k]] = [k \in Axes(s) |-> s[k]]
      BY <3>4
    <3> QED BY <3>5, <3>6, <3>7
  <2> DEFINE d == Permuted(e, r)
  <2>5. e \in Cells(s)
    BY <1>6
  <2>6. d \in Cells(s) /\ \A k \in Axes(s) : d[k] = e[Image(r, k)]
    BY <1>1, <2>2, <2>4, <2>5, TurnedCells
  <2> HIDE DEF d
  <2>7. \A k \in Axes(s) : Image(r, Image(p, k)) = k /\ Image(p, Image(r, k)) = k
    BY <1>1, <2>1, <2>2, <2>3 DEF Image
  <2>8. d \in D
    <3>1. ASSUME NEW a \in A PROVE d[a] = c[to[a]]
      <4>1. a \in Axes(s)
        BY DEF A
      <4>2. PICK b \in Axes(s) : Image(p, b) = a /\ (a \in K <=> b \in K)
        BY <1>3, <4>1
      <4>3. b \in A
        BY <4>2 DEF A
      <4>4. Image(r, a) = b
        BY <2>7, <4>2
      <4>5. e[b] = z[to[b]] /\ z[to[b]] = c[to[a]]
        BY <1>5, <1>6, <4>2, <4>3
      <4> QED BY <2>6, <4>1, <4>4, <4>5
    <3> QED BY <1>6, <2>6, <3>1
  <2>9. f[d] = e
    <3>1. f[d] = Permuted(d, p) /\ Permuted(d, p) \in Cells(s)
      BY <1>4, <1>7, <2>6, <2>8
    <3>2. ASSUME NEW k \in Axes(s) PROVE f[d][k] = e[k]
      <4>1. f[d][k] = d[Image(p, k)]
        BY <1>4, <2>6, <3>1
      <4>2. Image(p, k) \in Axes(s) /\ Image(r, Image(p, k)) = k
        BY <1>3, <2>7
      <4> QED BY <2>6, <4>1, <4>2
    <3>3. e = [k \in Axes(s) |-> e[k]] /\ f[d] = [k \in Axes(s) |-> f[d][k]]
      <4>1. \A x \in Cells(s) : x = [k \in Axes(s) |-> x[k]]
        BY <1>1, CellsOfShape
      <4>2. f[d] \in Cells(s)
        BY <3>1
      <4> QED BY <2>5, <4>1, <4>2
    <3>4. [k \in Axes(s) |-> f[d][k]] = [k \in Axes(s) |-> e[k]]
      BY <3>2
    <3> QED BY <3>3, <3>4
  <2> QED BY <2>8, <2>9
<1>10. f \in Bijection(D, E)
  <2>1. f \in [D -> E]
    BY <1>0, <1>7
  <2>2. \A a, b \in D : f[a] = f[b] => a = b
    BY <1>8
  <2>3. \A t \in E : \E d \in D : f[d] = t
    BY <1>9
  <2> QED BY <2>1, <2>2, <2>3, Fun_IsBij
<1>11. \A d \in D : val[f[d]] = val[d]
  BY <1>2, <1>6, <1>7
<1>12. ASSUME NEW k \in L, NEW d \in D PROVE f[d][k] = d[k]
  <2>1. k \in K /\ K = {k} /\ k \in Axes(s)
    BY <1>1, <1>12 DEF Looks
  <2>2. Image(p, k) = k
    BY <1>3, <2>1
  <2>3. d \in Cells(s) /\ f[d] = Permuted(d, p)
    BY <1>6, <1>7
  <2>4. Permuted(d, p)[k] = d[Image(p, k)]
    BY <1>4, <2>1, <2>3
  <2> QED BY <2>2, <2>3, <2>4
<1> QED BY <1>10, <1>11, <1>12 DEF Matches

-----------------------------------------------------------------------------
\* The tag of a result over the axes K, and what each permutation of it comes from.
ReducesTag(s, K, out, to, g, h) ==
  /\ Reduces(s, K, out, to) /\ g # None /\ Fits(g, Len(s))
  /\ h = Remap(Project(g, Stabilizing(g, K), Support(g) \ K), to) /\ h # None

\* reduce_group(): the setwise stabilizer of the reduced axes, on the others.
LEMMA ReduceRule ==
  ASSUME NEW s, NEW K, NEW out, NEW to, NEW g, NEW h, ReducesTag(s, K, out, to, g, h)
  PROVE  /\ WellFormed(h) /\ Support(h) \subseteq Axes(out)
         /\ \A q \in h.perms : \E p \in g.perms :
              /\ {p[a] : a \in K \cap Support(g)} = K \cap Support(g)
              /\ Carries(Support(g) \ K, to, p, q)
<1> DEFINE L == Support(g) \ K
           perms == Stabilizing(g, K)
           m == Project(g, perms, L)
<1>1. /\ s \in Seq(Nat) /\ out \in Seq(Nat)
      /\ \A a \in Axes(s) \ K : to[a] \in Axes(out)
      /\ \A a, b \in Axes(s) \ K : to[a] = to[b] => a = b
      /\ g # None /\ WellFormed(g) /\ Support(g) \subseteq 1 .. Len(s)
      /\ h = Remap(m, to) /\ h # None
  BY DEF ReducesTag, Reduces, Moves, Fits
<1>2. Axes(s) = 1 .. Len(s) /\ Axes(out) = 1 .. Len(out) /\ Len(out) \in Nat
  BY <1>1, ShapeFacts
<1>3. m # None /\ m = Project(g, perms, L)
  BY <1>1 DEF Remap
<1>4. /\ perms \in SUBSET g.perms
      /\ \A p \in perms : {p[a] : a \in K \cap Support(g)} = K \cap Support(g)
  BY DEF Stabilizing
<1>5. ASSUME NEW p \in perms, NEW a \in L PROVE p[a] \in L
  <2>1. /\ p \in [Support(g) -> Support(g)]
        /\ \A b, c \in Support(g) : p[b] = p[c] => b = c
    BY <1>1, <1>4 DEF WellFormed
  <2>2. {p[b] : b \in K \cap Support(g)} = K \cap Support(g)
    BY <1>4
  <2>3. a \in Support(g) /\ a \notin K
    OBVIOUS
  <2>4. p[a] \in K => \E b \in K \cap Support(g) : p[b] = p[a]
    BY <2>1, <2>2, <2>3
  <2> HIDE DEF perms, L
  <2>5. p[a] \notin K
    BY <2>1, <2>3, <2>4
  <2> QED BY <2>1, <2>3, <2>5 DEF L
<1>6. L \in SUBSET Support(g) /\ \A p \in perms : \A a \in L : p[a] \in L
  BY <1>5
<1> HIDE DEF perms
<1>7. /\ WellFormed(m) /\ \A a : a \in Support(m) <=> a \in L
      /\ \A f \in m.perms : \E p \in perms : f = [a \in L |-> p[a]]
  <2> HIDE DEF L, m
  <2>1. WellFormed(g) /\ perms \in SUBSET g.perms /\ L \in SUBSET Support(g)
    BY <1>1, <1>4, <1>6
  <2>2. \A p \in perms : \A a \in L : p[a] \in L
    BY <1>6
  <2>3. WellFormed(m) /\ \A a : a \in Support(m) <=> a \in L
    BY <1>3, <2>1, <2>2, ProjectFits
  <2>4. \A f \in m.perms : \E p \in perms : f = [a \in L |-> p[a]]
    BY <1>3, <2>1, <2>2, ProjectFits
  <2> QED BY <2>3, <2>4
<1>8. /\ \A a \in L : to[a] \in Axes(out)
      /\ \A a, b \in L : to[a] = to[b] => a = b
  BY <1>1, <1>2
<1> HIDE DEF L, m
<1> DEFINE n == Len(out)
<1>9. /\ n \in Nat /\ \A a \in Support(m) : to[a] \in 1 .. n
      /\ \A a, b \in Support(m) : to[a] = to[b] => a = b
  BY <1>2, <1>7, <1>8
<1> HIDE DEF n
<1>10. /\ WellFormed(h)
       /\ \A b : b \in Support(h) <=> \E a \in Support(m) : b = to[a]
       /\ \A q \in h.perms : \E f \in m.perms : Carries(Support(m), to, f, q)
  BY <1>1, <1>7, <1>9, RemapFits
<1>11. Support(h) \subseteq Axes(out)
  BY <1>7, <1>8, <1>10
<1>12. ASSUME NEW q \in h.perms
       PROVE  \E p \in g.perms : /\ {p[a] : a \in K \cap Support(g)} = K \cap Support(g)
                                 /\ Carries(L, to, p, q)
  <2>1. PICK f \in m.perms : Carries(Support(m), to, f, q)
    BY <1>10
  <2>2. PICK p \in perms : f = [a \in L |-> p[a]]
    BY <1>7
  <2>3. Carries(L, to, p, q)
    BY <1>7, <2>1, <2>2 DEF Carries
  <2>4. p \in g.perms /\ {p[a] : a \in K \cap Support(g)} = K \cap Support(g)
    BY <1>4
  <2> QED BY <2>3, <2>4
<1> QED BY <1>10, <1>11, <1>12 DEF L

\* Array data of shape out is val of shape s reduced over the axes K.
IsReduced(s, val, K, out, to, data) ==
  /\ DOMAIN val = Cells(s) /\ DOMAIN data = Cells(out)
  /\ \A c \in Cells(out) : data[c] = Reduced(val, K, Reducing(s, K, to, c))

\* That tag is true of the result.
LEMMA ReducedHolds ==
  ASSUME NEW s, NEW val, NEW K, NEW out, NEW to, NEW data, NEW g, NEW h,
         ReducesTag(s, K, out, to, g, h), IsReduced(s, val, K, out, to, data),
         HoldsFor(g, s, val)
  PROVE  HoldsFor(h, out, data)
<1> DEFINE S == Support(g)
<1>1. /\ s \in Seq(Nat) /\ out \in Seq(Nat) /\ K \in SUBSET Axes(s)
      /\ Reduces(s, K, out, to) /\ WellFormed(g) /\ S \in SUBSET Axes(s)
      /\ DOMAIN val = Cells(s) /\ DOMAIN data = Cells(out)
  BY DEF ReducesTag, Reduces, Moves, Fits, HoldsFor, IsReduced
<1>2. /\ WellFormed(h) /\ Support(h) \subseteq Axes(out)
      /\ \A q \in h.perms : \E p \in g.perms :
           {p[a] : a \in K \cap S} = K \cap S /\ Carries(S \ K, to, p, q)
  BY ReduceRule
<1> HIDE DEF S
<1>3. ASSUME NEW q \in h.perms PROVE Symmetric(out, data, q)
  <2>1. PICK p \in g.perms : {p[a] : a \in K \cap S} = K \cap S /\ Carries(S \ K, to, p, q)
    BY <1>2
  <2>2. Symmetric(s, val, p) /\ p \in [S -> S] /\ \A a, b \in S : p[a] = p[b] => a = b
    BY <1>1 DEF HoldsFor, WellFormed, S
  <2>3. Turns(s, K, out, to, val, S, p, q)
    BY <1>1, <2>1, <2>2 DEF Turns
  <2>4. Permuted(out, q) = out
    <3>1. DOMAIN out = Axes(out)
      BY <1>1 DEF Axes
    <3>2. ASSUME NEW b \in Axes(out) PROVE out[Image(q, b)] = out[b]
      <4>1. CASE b \in DOMAIN q
        <5>1. PICK a \in S \ K : b = to[a]
          BY <2>1, <4>1 DEF Carries
        <5>2. a \in Axes(s) \ K /\ p[a] \in S
          BY <1>1, <2>2, <5>1
        <5>3. Image(p, a) = p[a] /\ Image(p, a) \in Axes(s) \ K
              /\ Image(q, to[a]) = to[Image(p, a)]
          BY <2>2, <2>3, <5>1, <5>2, TurnedAxes DEF Image
        <5>4. out[to[a]] = s[a] /\ out[to[p[a]]] = s[p[a]]
          BY <1>1, <5>2, <5>3 DEF Reduces
        <5>5. s[p[a]] = s[a]
          BY <1>1, <5>1, ExtentsAgree DEF S
        <5> QED BY <5>1, <5>3, <5>4, <5>5
      <4>2. CASE b \notin DOMAIN q
        BY <4>2 DEF Image
      <4> QED BY <4>1, <4>2
    <3>3. Permuted(out, q) = [k \in Axes(out) |-> out[Image(q, k)]]
      BY <3>1, PermutedImage
    <3>4. out = [k \in Axes(out) |-> out[k]]
      BY <1>1, <3>1
    <3>5. [k \in Axes(out) |-> out[Image(q, k)]] = [k \in Axes(out) |-> out[k]]
      BY <3>2
    <3> QED BY <3>3, <3>4, <3>5
  <2>5. q \in [Support(h) -> Support(h)]
    BY <1>2 DEF WellFormed
  <2>6. ASSUME NEW c \in Cells(out) PROVE data[Permuted(c, q)] = data[c]
    <3> DEFINE z == Permuted(c, q)
               D == Reducing(s, K, to, c)
               E == Reducing(s, K, to, z)
               f == [d \in D |-> Permuted(d, p)]
    <3>1. z \in Cells(out)
      <4>1. Support(h) \in SUBSET Axes(out)
        BY <1>2
      <4> QED BY <1>1, <2>4, <2>5, <4>1, PermutedCells
    <3>2. data[z] = Reduced(val, K, E) /\ data[c] = Reduced(val, K, D)
      <4> HIDE DEF z
      <4> QED BY <3>1 DEF IsReduced
    <3>3. ASSUME NEW L, Looks(L, K)
          PROVE  Matches(val, L, D, E, f)
      <4>1. TurnsCells(s, K, out, to, p, q, c, D, E, f)
        BY <3>1 DEF TurnsCells
      <4> HIDE DEF D, E, f, z
      <4> QED BY <2>3, <3>3, <4>1, ReducingMatches
    <3>4. IsFiniteSet(D)
      <4>1. D \in SUBSET Cells(s)
        BY DEF Reducing
      <4> HIDE DEF D
      <4> QED BY <1>1, <4>1, CellsFinite, FS_Subset
    <3> HIDE DEF D, E, f
    <3>5. CASE Cardinality(K) = 1
      <4>1. IsFiniteSet(K)
        <5>1. Len(s) \in Nat /\ Axes(s) = 1 .. Len(s)
          BY <1>1, ShapeFacts
        <5>2. IsFiniteSet(Axes(s))
          BY <5>1, FS_Interval
        <5> QED BY <1>1, <5>2, FS_Subset
      <4>2. \E k \in K : K = {k}
        BY <3>5, <4>1, FS_Singleton
      <4>3. Matches(val, K, D, E, f)
        BY <3>3, <4>2 DEF Looks
      <4>4. Reduced(val, K, D) = Reduced(val, K, E)
        BY <3>5, <4>3, PlacesReduce
      <4> QED BY <3>2, <4>4
    <3>6. CASE Cardinality(K) # 1
      <4>1. Matches(val, {}, D, E, f)
        <5>1. Looks({}, K)
          BY DEF Looks
        <5> QED BY <3>3, <5>1
      <4>2. Reduced(val, K, D) = Reduced(val, K, E)
        BY <3>4, <3>6, <4>1, CountsReduce
      <4> QED BY <3>2, <4>2
    <3> QED BY <3>5, <3>6
  <2> QED BY <1>1, <2>4, <2>6 DEF Symmetric
<1> QED BY <1>2, <1>3 DEF HoldsFor

\* A group with its axes renumbered, as reduce_group() leaves it.
LEMMA ReduceGroupIs ==
  ASSUME NEW g, NEW s, NEW K, NEW keepdims, NEW to, to = Renumbered(s, K, keepdims),
         NEW h, h = ReduceGroup(g, s, K, keepdims), h # None
  PROVE  g # None /\ h = Remap(Project(g, Stabilizing(g, K), Support(g) \ K), to)
BY DEF ReduceGroup

\* The shape of the result of a reduction, with or without keepdims.
LEMMA ReducedShapes ==
  ASSUME NEW s \in Seq(Nat), NEW K \in SUBSET Axes(s), NEW keepdims \in BOOLEAN,
         NEW out, out = ReducedShape(s, K, keepdims),
         NEW to, to = Renumbered(s, K, keepdims)
  PROVE  Reduces(s, K, out, to)
<1>1. /\ Len(s) \in Nat /\ Axes(s) = 1 .. Len(s) /\ \A k \in Axes(s) : s[k] \in Nat
  BY ShapeFacts
<1>2. CASE keepdims
  <2>1. /\ out = [k \in 1 .. Len(s) |-> IF k \in K THEN 1 ELSE s[k]]
        /\ to = [a \in Axes(s) |-> a]
    BY <1>1, <1>2 DEF ReducedShape, Renumbered
  <2>2. out \in Seq(Nat) /\ Axes(out) = Axes(s)
    <3>1. \A k \in 1 .. Len(s) : (IF k \in K THEN 1 ELSE s[k]) \in Nat
      BY <1>1
    <3> QED BY <1>1, <2>1, <3>1 DEF Axes
  <2>3. \A a \in Axes(s) : to[a] = a
    BY <2>1
  <2>4. \A a \in Axes(s) \ K : out[to[a]] = s[a]
    BY <1>1, <2>1, <2>3
  <2> QED BY <2>2, <2>3, <2>4 DEF Reduces, Moves
<1>3. CASE ~ keepdims
  <2>1. out = Without(s, K) /\ to = Removing(s, K)
    BY <1>3 DEF ReducedShape, Renumbered
  <2>2. /\ Moves(s, out, Axes(s) \ K, to)
        /\ \A a \in Axes(s) \ K : out[to[a]] = s[a]
    <3>1. PICK sized : sized = s
      OBVIOUS
    <3>2. sized \in Seq(Nat) /\ Len(sized) = Len(s) /\ out = Without(sized, K)
      BY <2>1, <3>1
    <3>3. /\ Moves(s, out, Axes(s) \ K, Removing(s, K))
          /\ \A a \in Axes(s) \ K : out[Removing(s, K)[a]] = sized[a]
      BY <3>2, RemovedShape
    <3> QED BY <2>1, <3>1, <3>3
  <2> QED BY <2>2 DEF Reduces
<1> QED BY <1>2, <1>3

\* A counted reduction: whichever axes are reduced and whether they are kept, the
\* tag of the result, new or in a destination, is true.
THEOREM ReduceKeepsTags ==
  ASSUME Honest(array), \A d \in Destinations : Honest(d),
         NEW K \in SUBSET All, NEW keepdims \in BOOLEAN, Reduce(K, keepdims)
  PROVE  Honest(array')
<1> DEFINE s == array.shape
           val == array.val
           g == array.tag
           out == ReducedShape(s, K, keepdims)
           to == Renumbered(s, K, keepdims)
           data == [c \in Cells(out) |-> Reduced(val, K, Reducing(s, K, to, c))]
           h == ReduceGroup(g, s, K, keepdims)
<1>1. /\ s \in Seq(Nat) /\ DOMAIN val = Cells(s) /\ Fits(g, Len(s))
      /\ K \in SUBSET Axes(s) /\ (array.sound /\ g # None => HoldsFor(g, s, val))
  BY DEF Honest, Typed, All
<1>2. Delivers("reduce", out, data, h, TRUE)
  BY DEF Reduce
<1>3. DOMAIN data = Cells(out) /\ IsReduced(s, val, K, out, to, data)
  <2>1. /\ DOMAIN data = Cells(out)
        /\ \A c \in Cells(out) : data[c] = Reduced(val, K, Reducing(s, K, to, c))
    OBVIOUS
  <2> HIDE DEF data
  <2> QED BY <1>1, <2>1 DEF IsReduced
<1> HIDE DEF data, s, val, g
<1>4. Reduces(s, K, out, to)
  BY <1>1, ReducedShapes
<1>5. out \in Seq(Nat) /\ Len(out) \in Nat /\ Axes(out) = 1 .. Len(out)
  <2>1. out \in Seq(Nat)
    BY <1>4 DEF Reduces, Moves
  <2> QED BY <2>1, ShapeFacts
<1>6. h # None => ReducesTag(s, K, out, to, g, h)
  <2>1. h # None => g # None /\ h = Remap(Project(g, Stabilizing(g, K), Support(g) \ K), to)
    BY ReduceGroupIs
  <2> HIDE DEF h, out, to
  <2> QED BY <1>1, <1>4, <2>1 DEF ReducesTag
<1> HIDE DEF h, out, to
<1>7. Fits(h, Len(out))
  <2>1. h # None => WellFormed(h) /\ Support(h) \subseteq Axes(out)
    BY <1>6, ReduceRule
  <2> QED BY <1>5, <2>1 DEF Fits
<1>8. array.sound /\ h # None => HoldsFor(h, out, data)
  <2>1. array.sound /\ h # None => HoldsFor(g, s, val)
    BY <1>1, <1>6 DEF ReducesTag
  <2> QED BY <1>3, <1>6, <2>1, ReducedHolds
<1> QED BY <1>2, <1>3, <1>5, <1>7, <1>8, DeliversHonest

-----------------------------------------------------------------------------
\* Each cell of array data has the values of val up to it along axis a.
Scanned(s, val, a, data) ==
  /\ s \in Seq(Nat) /\ a \in Axes(s) /\ DOMAIN val = Cells(s) /\ DOMAIN data = Cells(s)
  /\ \A c \in Cells(s) : data[c] = [i \in 0 .. c[a] |-> val[[c EXCEPT ![a] = i]]]

\* A symmetry that leaves the axis alone is one of a cumulative reduction.
LEMMA ScannedSymmetry ==
  ASSUME NEW s, NEW val, NEW a, NEW data, Scanned(s, val, a, data),
         NEW S \in SUBSET Axes(s), NEW q \in [S -> S],
         \A b, c \in S : q[b] = q[c] => b = c, Image(q, a) = a, Symmetric(s, val, q)
  PROVE  Symmetric(s, data, q)
<1>1. /\ s \in Seq(Nat) /\ a \in Axes(s) /\ DOMAIN val = Cells(s) /\ DOMAIN data = Cells(s)
      /\ \A c \in Cells(s) : data[c] = [i \in 0 .. c[a] |-> val[[c EXCEPT ![a] = i]]]
      /\ Permuted(s, q) = s /\ \A c \in Cells(s) : val[Permuted(c, q)] = val[c]
  BY DEF Scanned, Symmetric
<1>2. ASSUME NEW c \in Cells(s) PROVE data[Permuted(c, q)] = data[c]
  <2>0. /\ Permuted(c, q) \in Cells(s)
        /\ \A k \in Axes(s) : Permuted(c, q)[k] = c[Image(q, k)]
    <3>1. s \in Seq(Nat) /\ Permuted(s, q) = s /\ c \in Cells(s)
      BY <1>1
    <3>2. DOMAIN c = Axes(s)
      BY <3>1, CellsOfShape
    <3>3. \A k \in DOMAIN c : Permuted(c, q)[k] = c[Image(q, k)]
      BY PermutedImage
    <3>4. Permuted(c, q) \in Cells(s)
      BY <3>1, PermutedCells
    <3> QED BY <3>2, <3>3, <3>4
  <2> DEFINE z == Permuted(c, q)
  <2>1. z \in Cells(s) /\ \A k \in Axes(s) : z[k] = c[Image(q, k)]
    BY <2>0
  <2>2. z[a] = c[a]
    BY <1>1, <2>1
  <2> HIDE DEF z
  <2>3. ASSUME NEW i \in 0 .. c[a]
        PROVE  val[[z EXCEPT ![a] = i]] = val[[c EXCEPT ![a] = i]]
    <3> DEFINE d == [c EXCEPT ![a] = i]
               e == [z EXCEPT ![a] = i]
    <3>1. /\ c = [k \in Axes(s) |-> c[k]] /\ z = [k \in Axes(s) |-> z[k]]
          /\ \A k \in Axes(s) : c[k] \in 0 .. s[k] - 1
      BY <1>1, <2>1, CellsOfShape
    <3>2. /\ d = [k \in Axes(s) |-> IF k = a THEN i ELSE c[k]]
          /\ e = [k \in Axes(s) |-> IF k = a THEN i ELSE z[k]]
      BY <3>1
    <3> HIDE DEF d, e
    <3>3. s[a] \in Nat /\ c[a] \in 0 .. s[a] - 1
      BY <1>1, <3>1, ShapeFacts
    <3>4. i \in 0 .. s[a] - 1
      BY <3>3
    <3>5. d \in Cells(s)
      <4>1. \A k \in Axes(s) : d[k] \in 0 .. s[k] - 1
        BY <3>1, <3>2, <3>4
      <4>2. d = [k \in Axes(s) |-> d[k]]
        BY <3>2
      <4> QED BY <1>1, <4>1, <4>2, CellsOfShape
    <3>6. Permuted(d, q) \in Cells(s) /\ \A k \in Axes(s) : Permuted(d, q)[k] = d[Image(q, k)]
      BY <1>1, <3>5, TurnedCells
    <3>7. ASSUME NEW k \in Axes(s) PROVE Permuted(d, q)[k] = e[k]
      <4>1. Image(q, k) \in Axes(s) /\ (Image(q, k) = a <=> k = a)
        BY <1>1 DEF Image
      <4> QED BY <2>1, <3>2, <3>6, <4>1
    <3>8. Permuted(d, q) = e
      <4>1. \A x \in Cells(s) : x = [k \in Axes(s) |-> x[k]]
        BY <1>1, CellsOfShape
      <4>2. Permuted(d, q) = [k \in Axes(s) |-> Permuted(d, q)[k]]
        BY <3>6, <4>1
      <4>3. e = [k \in Axes(s) |-> e[k]]
        BY <3>2
      <4>4. [k \in Axes(s) |-> Permuted(d, q)[k]] = [k \in Axes(s) |-> e[k]]
        BY <3>7
      <4> QED BY <4>2, <4>3, <4>4
    <3>9. val[e] = val[d]
      BY <1>1, <3>5, <3>8
    <3> QED BY <3>9 DEF d, e
  <2>4. /\ data[z] = [i \in 0 .. z[a] |-> val[[z EXCEPT ![a] = i]]]
        /\ data[c] = [i \in 0 .. c[a] |-> val[[c EXCEPT ![a] = i]]]
    BY <1>1, <2>1
  <2>5. [i \in 0 .. z[a] |-> val[[z EXCEPT ![a] = i]]]
          = [i \in 0 .. c[a] |-> val[[c EXCEPT ![a] = i]]]
    BY <2>2, <2>3
  <2> QED BY <2>4, <2>5 DEF z
<1> QED BY <1>1, <1>2 DEF Symmetric

\* A cumulative reduction: the tag of the result is true and leaves its axis alone.
THEOREM ScanKeepsTags ==
  ASSUME Honest(array), \A d \in Destinations : Honest(d), NEW a \in All, Scan(a)
  PROVE  Honest(array')
<1> DEFINE s == array.shape
           val == array.val
           g == array.tag
           K == {a}
           to == Renumbered(s, K, TRUE)
           data == [c \in Cells(s) |-> [i \in 0 .. c[a] |-> val[[c EXCEPT ![a] = i]]]]
           h == ReduceGroup(g, s, K, TRUE)
<1>1. /\ s \in Seq(Nat) /\ DOMAIN val = Cells(s) /\ Fits(g, Len(s))
      /\ a \in Axes(s) /\ (array.sound /\ g # None => HoldsFor(g, s, val))
  BY DEF Honest, Typed, All
<1>2. Delivers("scan", s, data, h, TRUE)
  BY DEF Scan
<1>3. DOMAIN data = Cells(s) /\ Scanned(s, val, a, data)
  <2>1. /\ DOMAIN data = Cells(s)
        /\ \A c \in Cells(s) : data[c] = [i \in 0 .. c[a] |-> val[[c EXCEPT ![a] = i]]]
    OBVIOUS
  <2> HIDE DEF data, s, val
  <2> QED BY <1>1, <2>1 DEF Scanned
<1> HIDE DEF data, s, val, g
<1>4. \A b \in Axes(s) : to[b] = b
  BY DEF Renumbered
<1>5. Reduces(s, K, s, to)
  BY <1>1, <1>4 DEF Reduces, Moves
<1>6. Len(s) \in Nat /\ Axes(s) = 1 .. Len(s)
  BY <1>1, ShapeFacts
<1>8. a \in K /\ \A b \in K : b = a
  OBVIOUS
<1> HIDE DEF K
<1>7. h # None => ReducesTag(s, K, s, to, g, h)
  <2>1. h # None => g # None /\ h = Remap(Project(g, Stabilizing(g, K), Support(g) \ K), to)
    BY DEF ReduceGroup
  <2> HIDE DEF h, to
  <2> QED BY <1>1, <1>5, <2>1 DEF ReducesTag
<1> HIDE DEF h, to
<1>9. h # None => /\ WellFormed(h) /\ Support(h) \subseteq Axes(s)
                  /\ \A q \in h.perms : \E p \in g.perms :
                       /\ {p[b] : b \in K \cap Support(g)} = K \cap Support(g)
                       /\ Carries(Support(g) \ K, to, p, q)
  BY <1>7, ReduceRule
<1>10. Fits(h, Len(s))
  BY <1>6, <1>9 DEF Fits
<1>11. ASSUME array.sound, h # None PROVE HoldsFor(h, s, data)
  <2>1. g # None /\ WellFormed(g) /\ HoldsFor(g, s, val) /\ Support(g) \subseteq Axes(s)
    BY <1>1, <1>7, <1>11 DEF ReducesTag, Fits, HoldsFor
  <2>2. ASSUME NEW q \in h.perms PROVE Symmetric(s, data, q)
    <3> DEFINE S == Support(h)
    <3>1. /\ S \in SUBSET Axes(s) /\ q \in [S -> S]
          /\ \A b, c \in S : q[b] = q[c] => b = c
      BY <1>9, <1>11 DEF WellFormed
    <3>2. PICK p \in g.perms : /\ {p[b] : b \in K \cap Support(g)} = K \cap Support(g)
                               /\ Carries(Support(g) \ K, to, p, q)
      BY <1>9, <1>11
    <3>3. p \in [Support(g) -> Support(g)] /\ Symmetric(s, val, p)
      BY <2>1 DEF WellFormed, HoldsFor
    <3>4. /\ \A b : b \in DOMAIN q <=> b \in Support(g) /\ b # a
          /\ \A b \in Support(g) : b # a => q[b] = p[b]
      <4>1. /\ \A b : b \in DOMAIN q <=> \E c \in Support(g) \ K : b = to[c]
            /\ \A b \in Support(g) \ K : q[to[b]] = to[p[b]]
        BY <3>2 DEF Carries
      <4>2. \A b \in Support(g) : to[b] = b /\ p[b] \in Support(g) /\ to[p[b]] = p[b]
        BY <1>4, <2>1, <3>3
      <4> QED BY <1>8, <4>1, <4>2
    <3>5. a \in Support(g) => p[a] = a
      BY <1>8, <3>2
    <3>6. Alike(p, q, Len(s)) /\ Image(q, a) = a
      BY <3>3, <3>4, <3>5 DEF Alike, Image
    <3>7. Symmetric(s, val, q)
      BY <1>1, <3>3, <3>6, AlikeSymmetric
    <3> HIDE DEF S
    <3> QED BY <1>3, <3>1, <3>6, <3>7, ScannedSymmetry
  <2> QED BY <1>9, <1>11, <2>2 DEF HoldsFor
<1> QED BY <1>1, <1>2, <1>3, <1>10, <1>11, DeliversHonest

-----------------------------------------------------------------------------
(***************************************************************************)
(* Least failures, and the two functions that are defined by recursion.    *)
(* What would be an induction over numbers is the search for a least       *)
(* number that fails.                                                      *)
(***************************************************************************)
\* A finite set of numbers has a least member.
LEMMA LeastMember ==
  ASSUME NEW K \in SUBSET Nat, IsFiniteSet(K), K # {}
  PROVE  \E a \in K : \A b \in K : a <= b
<1>1. /\ Cardinality(K) \in Nat
      /\ \A a \in K : Place(K, a) \in 1 .. Cardinality(K)
      /\ \A a, b \in K : a < b => Place(K, a) < Place(K, b)
      /\ \A i \in 1 .. Cardinality(K) : \E a \in K : Place(K, a) = i
  BY PlacesNumber
<1>2. Cardinality(K) # 0
  BY FS_EmptySet
<1>3. 1 \in 1 .. Cardinality(K)
  BY <1>1, <1>2
<1>4. PICK a \in K : Place(K, a) = 1
  BY <1>1, <1>3
<1>5. ASSUME NEW b \in K PROVE a <= b
  <2>1. Place(K, b) \in Nat /\ ~ (Place(K, b) < 1)
    BY <1>1
  <2>2. ~ (b < a)
    BY <1>1, <1>4, <2>1
  <2> QED BY <2>2
<1> QED BY <1>5

\* What can fail for some number up to n fails for a least one.
LEMMA LeastFailure ==
  ASSUME NEW n \in Nat, NEW B \in SUBSET (0 .. n), B # {}
  PROVE  \E m \in B : \A k \in B : m <= k
<1>1. IsFiniteSet(B)
  <2>1. IsFiniteSet(0 .. n)
    BY FS_Interval
  <2> QED BY <2>1, FS_Subset
<1>2. B \in SUBSET Nat
  OBVIOUS
<1> QED BY <1>1, <1>2, LeastMember

\* A function that starts with b and goes on by the steps E.
Goes(f, n, b, E) ==
  /\ f \in [0 .. n -> Nat] /\ f[0] = b
  /\ \A k \in 1 .. n : f[k] = E[k][f[k - 1]]

\* Steps from number to number lead to such a function.
LEMMA StepsLead ==
  ASSUME NEW n \in Nat, NEW b \in Nat, NEW E, \A k \in 1 .. n : \A x \in Nat : E[k][x] \in Nat
  PROVE  \E f : Goes(f, n, b, E)
<1> DEFINE B == {m \in 0 .. n : ~ \E f : Goes(f, m, b, E)}
<1>1. SUFFICES ASSUME B # {} PROVE FALSE
  <2>1. n \in 0 .. n
    OBVIOUS
  <2>2. n \notin B
    BY <1>1
  <2> QED BY <2>1, <2>2
<1>2. PICK m \in B : \A k \in B : m <= k
  <2>1. B \in SUBSET (0 .. n)
    OBVIOUS
  <2> HIDE DEF B
  <2> QED BY <1>1, <2>1, LeastFailure
<1>3. m \in 0 .. n /\ ~ \E f : Goes(f, m, b, E)
  OBVIOUS
<1>4. CASE m = 0
  <2> DEFINE f == [k \in 0 .. 0 |-> b]
  <2>1. f \in [0 .. 0 -> Nat] /\ f[0] = b
    OBVIOUS
  <2> HIDE DEF f
  <2>2. Goes(f, 0, b, E)
    BY <2>1 DEF Goes
  <2> QED BY <1>3, <1>4, <2>2
<1>5. CASE m # 0
  <2>1. m \in 1 .. n /\ m - 1 \in 0 .. n /\ ~ (m <= m - 1)
    BY <1>3, <1>5
  <2>2. m - 1 \notin B
    BY <1>2, <2>1
  <2>3. PICK f : Goes(f, m - 1, b, E)
    BY <2>1, <2>2
  <2>4. /\ f \in [0 .. m - 1 -> Nat] /\ f[0] = b
        /\ \A k \in 1 .. m - 1 : f[k] = E[k][f[k - 1]]
    BY <2>3 DEF Goes
  <2> DEFINE h == [k \in 0 .. m |-> IF k = m THEN E[m][f[m - 1]] ELSE f[k]]
  <2>5. f[m - 1] \in Nat /\ E[m][f[m - 1]] \in Nat
    BY <2>1, <2>4
  <2>6. \A k \in 0 .. m : h[k] = IF k = m THEN E[m][f[m - 1]] ELSE f[k]
    OBVIOUS
  <2>7. h \in [0 .. m -> Nat]
    <3>1. \A k \in 0 .. m : (IF k = m THEN E[m][f[m - 1]] ELSE f[k]) \in Nat
      BY <2>1, <2>4, <2>5
    <3> QED BY <3>1
  <2> HIDE DEF h
  <2>8. h[0] = b
    BY <2>1, <2>4, <2>6
  <2>9. ASSUME NEW k \in 1 .. m PROVE h[k] = E[k][h[k - 1]]
    <3>1. h[k - 1] = f[k - 1]
      BY <2>1, <2>6
    <3>2. CASE k = m
      BY <2>1, <2>6, <3>1, <3>2
    <3>3. CASE k # m
      <4>1. k \in 1 .. m - 1 /\ h[k] = f[k]
        BY <2>1, <2>6, <3>3
      <4> QED BY <2>4, <3>1, <4>1
    <3> QED BY <3>2, <3>3
  <2>10. Goes(h, m, b, E)
    BY <2>7, <2>8, <2>9 DEF Goes
  <2> QED BY <1>3, <2>10
<1> QED BY <1>4, <1>5

\* Products() multiplies axis after axis.
LEMMA ProductsAre ==
  ASSUME NEW s \in Seq(Nat), NEW K
  PROVE  /\ Products(s, K)[0] = 1
         /\ \A k \in 0 .. Len(s) : Products(s, K)[k] \in Nat
         /\ \A k \in 1 .. Len(s) :
              Products(s, K)[k] = Products(s, K)[k - 1] * (IF k \in K THEN s[k] ELSE 1)
<1> DEFINE n == Len(s)
           x(k) == IF k \in K THEN s[k] ELSE 1
           E == [k \in 1 .. n |-> [y \in Nat |-> y * x(k)]]
           Is(f) == f = [k \in 0 .. n |-> IF k = 0 THEN 1 ELSE f[k - 1] * x(k)]
           g == Products(s, K)
<1>1. n \in Nat /\ \A k \in 1 .. n : x(k) \in Nat
  BY ShapeFacts
<1>2. g = CHOOSE f : Is(f)
  BY DEF Products
<1> HIDE DEF n, x
<1>3. \A k \in 1 .. n : \A y \in Nat : E[k][y] = y * x(k) /\ y * x(k) \in Nat
  BY <1>1
<1> HIDE DEF E
<1>4. PICK f : Goes(f, n, 1, E)
  <2>1. \A k \in 1 .. n : \A y \in Nat : E[k][y] \in Nat
    BY <1>3
  <2> QED BY <1>1, <2>1, StepsLead
<1>5. /\ f \in [0 .. n -> Nat] /\ f[0] = 1
      /\ \A k \in 1 .. n : f[k] = E[k][f[k - 1]] /\ f[k - 1] \in Nat
  BY <1>1, <1>4 DEF Goes
<1>6. Is(f)
  <2>1. \A k \in 0 .. n : f[k] = IF k = 0 THEN 1 ELSE f[k - 1] * x(k)
    <3>1. ASSUME NEW k \in 1 .. n PROVE f[k] = f[k - 1] * x(k)
      <4>1. f[k] = E[k][f[k - 1]] /\ f[k - 1] \in Nat
        BY <1>5
      <4>2. E[k][f[k - 1]] = f[k - 1] * x(k)
        BY <1>3, <4>1
      <4> QED BY <4>1, <4>2
    <3> QED BY <1>1, <1>5, <3>1
  <2>2. f = [k \in 0 .. n |-> f[k]]
    BY <1>5
  <2> QED BY <2>1, <2>2
<1>7. Is(g)
  <2> HIDE DEF Is
  <2> QED BY <1>2, <1>6
<1>8. /\ DOMAIN g = 0 .. n
      /\ \A k \in 0 .. n : g[k] = IF k = 0 THEN 1 ELSE g[k - 1] * x(k)
  <2> HIDE DEF g
  <2> QED BY <1>7
<1> HIDE DEF g, Is
<1>9. g[0] = 1 /\ \A k \in 1 .. n : g[k] = g[k - 1] * x(k)
  BY <1>1, <1>8
<1>10. \A k \in 0 .. n : g[k] \in Nat
  <2> DEFINE B == {m \in 0 .. n : g[m] \notin Nat}
  <2>1. SUFFICES ASSUME B # {} PROVE FALSE
    OBVIOUS
  <2>2. PICK m \in B : \A k \in B : m <= k
    <3>1. B \in SUBSET (0 .. n)
      OBVIOUS
    <3> HIDE DEF B
    <3> QED BY <1>1, <2>1, <3>1, LeastFailure
  <2>3. m \in 1 .. n /\ m - 1 \in 0 .. n /\ ~ (m <= m - 1)
    BY <1>1, <1>9
  <2>4. g[m - 1] \in Nat
    BY <2>2, <2>3
  <2>5. g[m] \in Nat
    BY <1>1, <1>9, <2>3, <2>4
  <2> QED BY <2>5
<1> QED BY <1>9, <1>10 DEF g, n, x

\* Offsets() goes on from axis to axis.
LEMMA OffsetsAre ==
  ASSUME NEW s \in Seq(Nat), NEW c, \A k \in Axes(s) : c[k] \in Nat
  PROVE  /\ Offsets(s, c)[0] = 0
         /\ \A k \in 0 .. Len(s) : Offsets(s, c)[k] \in Nat
         /\ \A k \in 1 .. Len(s) : Offsets(s, c)[k] = Offsets(s, c)[k - 1] * s[k] + c[k]
<1> DEFINE n == Len(s)
           x(k) == s[k]
           y(k) == c[k]
           E == [k \in 1 .. n |-> [z \in Nat |-> z * x(k) + y(k)]]
           Is(f) == f = [k \in 0 .. n |-> IF k = 0 THEN 0 ELSE f[k - 1] * x(k) + y(k)]
           g == Offsets(s, c)
<1>1. n \in Nat /\ \A k \in 1 .. n : x(k) \in Nat /\ y(k) \in Nat
  BY ShapeFacts
<1>2. g = CHOOSE f : Is(f)
  BY DEF Offsets
<1> HIDE DEF n, x, y
<1>3. \A k \in 1 .. n : \A z \in Nat : E[k][z] = z * x(k) + y(k) /\ z * x(k) + y(k) \in Nat
  BY <1>1
<1> HIDE DEF E
<1>4. PICK f : Goes(f, n, 0, E)
  <2>1. \A k \in 1 .. n : \A z \in Nat : E[k][z] \in Nat
    BY <1>3
  <2> QED BY <1>1, <2>1, StepsLead
<1>5. /\ f \in [0 .. n -> Nat] /\ f[0] = 0
      /\ \A k \in 1 .. n : f[k] = E[k][f[k - 1]] /\ f[k - 1] \in Nat
  BY <1>1, <1>4 DEF Goes
<1>6. Is(f)
  <2>1. \A k \in 0 .. n : f[k] = IF k = 0 THEN 0 ELSE f[k - 1] * x(k) + y(k)
    <3>1. ASSUME NEW k \in 1 .. n PROVE f[k] = f[k - 1] * x(k) + y(k)
      <4>1. f[k] = E[k][f[k - 1]] /\ f[k - 1] \in Nat
        BY <1>5
      <4>2. E[k][f[k - 1]] = f[k - 1] * x(k) + y(k)
        BY <1>3, <4>1
      <4> QED BY <4>1, <4>2
    <3> QED BY <1>1, <1>5, <3>1
  <2>2. f = [k \in 0 .. n |-> f[k]]
    BY <1>5
  <2> QED BY <2>1, <2>2
<1>7. Is(g)
  <2> HIDE DEF Is
  <2> QED BY <1>2, <1>6
<1>8. /\ DOMAIN g = 0 .. n
      /\ \A k \in 0 .. n : g[k] = IF k = 0 THEN 0 ELSE g[k - 1] * x(k) + y(k)
  <2> HIDE DEF g
  <2> QED BY <1>7
<1> HIDE DEF g, Is
<1>9. g[0] = 0 /\ \A k \in 1 .. n : g[k] = g[k - 1] * x(k) + y(k)
  BY <1>1, <1>8
<1>10. \A k \in 0 .. n : g[k] \in Nat
  <2> DEFINE B == {m \in 0 .. n : g[m] \notin Nat}
  <2>1. SUFFICES ASSUME B # {} PROVE FALSE
    OBVIOUS
  <2>2. PICK m \in B : \A k \in B : m <= k
    <3>1. B \in SUBSET (0 .. n)
      OBVIOUS
    <3> HIDE DEF B
    <3> QED BY <1>1, <2>1, <3>1, LeastFailure
  <2>3. m \in 1 .. n /\ m - 1 \in 0 .. n /\ ~ (m <= m - 1)
    BY <1>1, <1>9
  <2>4. g[m - 1] \in Nat
    BY <2>2, <2>3
  <2>5. g[m] \in Nat
    <3>1. g[m] = g[m - 1] * x(m) + y(m)
      BY <1>9, <2>3
    <3>2. x(m) \in Nat /\ y(m) \in Nat
      BY <1>1, <2>3
    <3> QED BY <2>4, <3>1, <3>2, SMTT(30)
  <2> QED BY <2>5
<1> QED BY <1>9, <1>10 DEF g, n, x, y

-----------------------------------------------------------------------------
(***************************************************************************)
(* Division, and counting in mixed extents.                                *)
(***************************************************************************)
\* What holds at a, and at each number for which it held just before, holds up to n.
LEMMA StepByStep ==
  ASSUME NEW a \in Nat, NEW n \in Nat, a <= n, NEW B, a \in B,
         \A k \in a + 1 .. n : k - 1 \in B => k \in B
  PROVE  \A k \in a .. n : k \in B
<1> DEFINE F == {k \in a .. n : k \notin B}
<1>1. SUFFICES ASSUME F # {} PROVE FALSE
  OBVIOUS
<1>2. PICK m \in F : \A k \in F : m <= k
  <2>1. F \in SUBSET (0 .. n)
    OBVIOUS
  <2> HIDE DEF F
  <2> QED BY <1>1, <2>1, LeastFailure
<1>3. m \in a + 1 .. n /\ m - 1 \in a .. n /\ ~ (m <= m - 1) /\ m \notin B
  OBVIOUS
<1>4. m - 1 \in B
  BY <1>2, <1>3
<1> QED BY <1>3, <1>4

\* z is a times t and the rest x.
Divides(z, a, t, x) ==
  a \in Nat /\ t \in Nat /\ x \in Nat /\ x < t /\ z = a * t + x

\* No smaller quotient is right as well.
LEMMA DividesFirst ==
  ASSUME NEW z, NEW t, NEW a, NEW x, NEW b, NEW y, Divides(z, a, t, x), Divides(z, b, t, y)
  PROVE  ~ (a < b)
<1>1. /\ a \in Nat /\ b \in Nat /\ t \in Nat /\ x \in Nat /\ y \in Nat
      /\ x < t /\ a * t + x = b * t + y
  BY DEF Divides
<1>2. SUFFICES ASSUME a < b PROVE FALSE
  OBVIOUS
<1>3. PICK d \in Nat : b = a + 1 + d
  <2>1. b - a - 1 \in Nat /\ b = a + 1 + (b - a - 1)
    BY <1>1, <1>2
  <2> QED BY <2>1
<1>4. b * t = a * t + t + d * t
  BY <1>1, <1>3
<1>5. d * t \in Nat /\ a * t \in Nat
  BY <1>1
<1> QED BY <1>1, <1>4, <1>5

\* Division has one result.
LEMMA DividesOnce ==
  ASSUME NEW z, NEW t, NEW a, NEW x, NEW b, NEW y, Divides(z, a, t, x), Divides(z, b, t, y)
  PROVE  a = b /\ x = y
<1>1. ~ (a < b) /\ ~ (b < a)
  BY DividesFirst
<1>2. /\ a \in Nat /\ b \in Nat /\ t \in Nat /\ x \in Nat /\ y \in Nat
      /\ a * t + x = b * t + y
  BY DEF Divides
<1>3. a = b
  BY <1>1, <1>2
<1>4. a * t \in Nat
  BY <1>2
<1> QED BY <1>2, <1>3, <1>4

\* Division has a result.
LEMMA Division ==
  ASSUME NEW x \in Nat, NEW m \in Nat, m # 0
  PROVE  \E q \in Nat, r \in 0 .. m - 1 : x = q * m + r
<1> DEFINE B == {z \in 0 .. x : \E q \in Nat, r \in 0 .. m - 1 : z = q * m + r}
<1>1. 0 \in B
  <2>1. 0 = 0 * m + 0 /\ 0 \in 0 .. m - 1 /\ 0 \in 0 .. x
    OBVIOUS
  <2> QED BY <2>1
<1>2. ASSUME NEW k \in 0 + 1 .. x, k - 1 \in B PROVE k \in B
  <2>1. PICK q \in Nat, r \in 0 .. m - 1 : k - 1 = q * m + r
    BY <1>2
  <2>2. k \in 0 .. x /\ q * m \in Nat
    OBVIOUS
  <2>3. CASE r + 1 < m
    <3>1. r + 1 \in 0 .. m - 1 /\ k = q * m + (r + 1)
      BY <2>1, <2>2, <2>3
    <3> QED BY <2>2, <3>1
  <2>4. CASE ~ (r + 1 < m)
    <3>1. k = q * m + m
      BY <2>1, <2>2, <2>4
    <3>2. q + 1 \in Nat /\ 0 \in 0 .. m - 1 /\ k = (q + 1) * m + 0
      BY <3>1
    <3> QED BY <2>2, <3>2
  <2> QED BY <2>3, <2>4
<1>3. \A k \in 0 .. x : k \in B
  <2> HIDE DEF B
  <2> QED BY <1>1, <1>2, StepByStep
<1>4. x \in 0 .. x
  OBVIOUS
<1> QED BY <1>3, <1>4

\* A digit below its extent stays within the next multiple.
LEMMA DigitBelow ==
  ASSUME NEW x \in Nat, NEW t \in Nat, NEW c \in Nat, NEW m \in Nat, x < t, c < m
  PROVE  x * m + c < t * m
<1>1. PICK d \in Nat : t = x + 1 + d
  <2>1. t - x - 1 \in Nat /\ t = x + 1 + (t - x - 1)
    OBVIOUS
  <2> QED BY <2>1
<1>2. t * m = x * m + m + d * m
  BY <1>1
<1>3. d * m \in Nat /\ x * m \in Nat
  OBVIOUS
<1> QED BY <1>2, <1>3

-----------------------------------------------------------------------------
\* From axis a on, u goes on by extents x and digits y; t is the product of extents.
Counts(u, t, x, y, a, n) ==
  /\ a \in Nat /\ n \in Nat /\ a <= n
  /\ u[a] \in Nat /\ t[a] = 1
  /\ \A k \in a + 1 .. n : /\ x[k] \in Nat /\ y[k] \in Nat
                           /\ u[k] = u[k - 1] * x[k] + y[k]
                           /\ t[k] = t[k - 1] * x[k]

\* Counts and products are numbers.
LEMMA CountsStay ==
  ASSUME NEW u, NEW t, NEW x, NEW y, NEW a, NEW n, Counts(u, t, x, y, a, n)
  PROVE  \A k \in a .. n : u[k] \in Nat /\ t[k] \in Nat
<1> DEFINE B == {k \in a .. n : u[k] \in Nat /\ t[k] \in Nat}
<1>1. a \in Nat /\ n \in Nat /\ a <= n /\ a \in B
  BY DEF Counts
<1>2. ASSUME NEW k \in a + 1 .. n, k - 1 \in B PROVE k \in B
  <2>1. u[k - 1] \in Nat /\ t[k - 1] \in Nat /\ k \in a .. n
    BY <1>1, <1>2
  <2>2. /\ x[k] \in Nat /\ y[k] \in Nat
        /\ u[k] = u[k - 1] * x[k] + y[k] /\ t[k] = t[k - 1] * x[k]
    BY DEF Counts
  <2>3. u[k] \in Nat
    BY <2>1, <2>2
  <2>4. t[k] \in Nat
    BY <2>1, <2>2
  <2> QED BY <2>1, <2>3, <2>4
<1>3. \A k \in a .. n : k \in B
  <2> HIDE DEF B
  <2> QED BY <1>1, <1>2, StepByStep
<1> QED BY <1>3

\* With digits below their extents, what is counted from axis a on is less than t.
LEMMA CountsBelow ==
  ASSUME NEW u, NEW t, NEW x, NEW y, NEW a, NEW n, Counts(u, t, x, y, a, n),
         \A k \in a + 1 .. n : y[k] < x[k]
  PROVE  \A k \in a .. n : \E r \in Nat : r < t[k] /\ u[k] = u[a] * t[k] + r
<1> DEFINE B == {k \in a .. n : \E r \in Nat : r < t[k] /\ u[k] = u[a] * t[k] + r}
<1>1. a \in Nat /\ n \in Nat /\ a <= n /\ u[a] \in Nat /\ t[a] = 1
  BY DEF Counts
<1>2. a \in B
  <2>1. 0 < t[a] /\ u[a] = u[a] * t[a] + 0
    BY <1>1
  <2> QED BY <1>1, <2>1
<1>3. ASSUME NEW k \in a + 1 .. n, k - 1 \in B PROVE k \in B
  <2>1. PICK r \in Nat : r < t[k - 1] /\ u[k - 1] = u[a] * t[k - 1] + r
    BY <1>3
  <2>2. k - 1 \in a .. n /\ k \in a .. n
    BY <1>1, <1>3
  <2>3. t[k - 1] \in Nat
    BY <2>2, CountsStay
  <2>4. /\ x[k] \in Nat /\ y[k] \in Nat /\ y[k] < x[k]
        /\ u[k] = u[k - 1] * x[k] + y[k] /\ t[k] = t[k - 1] * x[k]
    BY DEF Counts
  <2>5. r * x[k] + y[k] < t[k]
    BY <2>1, <2>3, <2>4, DigitBelow
  <2>6. r * x[k] + y[k] \in Nat
    BY <2>4
  <2>7. u[k] = u[a] * t[k] + (r * x[k] + y[k])
    BY <1>1, <2>1, <2>3, <2>4
  <2> QED BY <2>2, <2>5, <2>6, <2>7
<1>4. \A k \in a .. n : k \in B
  <2> HIDE DEF B
  <2> QED BY <1>1, <1>2, <1>3, StepByStep
<1> QED BY <1>4

\* The same digits after axis a move the count by a multiple of t.
LEMMA CountsMove ==
  ASSUME NEW u, NEW v, NEW t, NEW x, NEW y, NEW a, NEW n,
         Counts(u, t, x, y, a, n), Counts(v, t, x, y, a, n)
  PROVE  \A k \in a .. n : u[k] + v[a] * t[k] = v[k] + u[a] * t[k]
<1> DEFINE B == {k \in a .. n : u[k] + v[a] * t[k] = v[k] + u[a] * t[k]}
<1>1. a \in Nat /\ n \in Nat /\ a <= n /\ u[a] \in Nat /\ v[a] \in Nat /\ t[a] = 1
  BY DEF Counts
<1>2. a \in B
  BY <1>1
<1>3. ASSUME NEW k \in a + 1 .. n, k - 1 \in B PROVE k \in B
  <2>1. k - 1 \in a .. n /\ k \in a .. n
    BY <1>1, <1>3
  <2>2. u[k - 1] \in Nat /\ v[k - 1] \in Nat /\ t[k - 1] \in Nat
    BY <2>1, CountsStay
  <2>3. /\ x[k] \in Nat /\ y[k] \in Nat
        /\ u[k] = u[k - 1] * x[k] + y[k] /\ v[k] = v[k - 1] * x[k] + y[k]
        /\ t[k] = t[k - 1] * x[k]
    BY DEF Counts
  <2>4. u[k - 1] + v[a] * t[k - 1] = v[k - 1] + u[a] * t[k - 1]
    BY <1>3
  <2>5. (u[k - 1] + v[a] * t[k - 1]) * x[k] = (v[k - 1] + u[a] * t[k - 1]) * x[k]
    BY <2>4
  <2>6. u[k] + v[a] * t[k] = (u[k - 1] + v[a] * t[k - 1]) * x[k] + y[k]
    BY <1>1, <2>2, <2>3
  <2>7. v[k] + u[a] * t[k] = (v[k - 1] + u[a] * t[k - 1]) * x[k] + y[k]
    BY <1>1, <2>2, <2>3
  <2> QED BY <2>1, <2>5, <2>6, <2>7
<1>4. \A k \in a .. n : k \in B
  <2> HIDE DEF B
  <2> QED BY <1>1, <1>2, <1>3, StepByStep
<1> QED BY <1>4

-----------------------------------------------------------------------------
(***************************************************************************)
(* Positions in row-major order.                                           *)
(***************************************************************************)
\* What one step along axis a is worth in row-major positions.
Stride(s, a) == Products(s, a + 1 .. Len(s))[Len(s)]

\* Positions, and the number of cells, count by the strides of the later axes.
LEMMA PositionsCount ==
  ASSUME NEW s \in Seq(Nat), NEW c, \A k \in Axes(s) : c[k] \in Nat, NEW a \in 0 .. Len(s),
         NEW t, t = Products(s, a + 1 .. Len(s))
  PROVE  /\ Counts(Offsets(s, c), t, s, c, a, Len(s))
         /\ Counts(Products(s, Axes(s)), t, s, [k \in Axes(s) |-> 0], a, Len(s))
<1> DEFINE n == Len(s)
           L == a + 1 .. n
<1>1. /\ n \in Nat /\ a \in Nat /\ a <= n /\ Axes(s) = 1 .. n
      /\ \A k \in Axes(s) : s[k] \in Nat
  BY ShapeFacts
<1>2. /\ t[0] = 1
      /\ \A k \in 1 .. n : t[k] = t[k - 1] * (IF k \in L THEN s[k] ELSE 1)
  <2>1. PICK K : K = L
    OBVIOUS
  <2>2. t = Products(s, K)
    BY <2>1
  <2>3. /\ Products(s, K)[0] = 1
        /\ \A k \in 1 .. Len(s) :
             Products(s, K)[k] = Products(s, K)[k - 1] * (IF k \in K THEN s[k] ELSE 1)
    BY ProductsAre
  <2> QED BY <2>1, <2>2, <2>3
<1>3. t[a] = 1
  <2> DEFINE B == {k \in 0 .. a : t[k] = 1}
  <2>1. 0 \in B
    BY <1>1, <1>2
  <2>2. ASSUME NEW k \in 0 + 1 .. a, k - 1 \in B PROVE k \in B
    <3>1. k \in 0 .. a /\ k \in 1 .. n /\ k \notin L
      BY <1>1
    <3>2. t[k] = t[k - 1] * 1 /\ t[k - 1] = 1
      BY <1>2, <2>2, <3>1
    <3> QED BY <3>1, <3>2
  <2>3. \A k \in 0 .. a : k \in B
    <3>1. 0 \in Nat /\ a \in Nat /\ 0 <= a
      BY <1>1
    <3> HIDE DEF B, n
    <3> QED BY <2>1, <2>2, <3>1, StepByStep
  <2>4. a \in 0 .. a
    BY <1>1
  <2> QED BY <2>3, <2>4
<1>4. \A k \in a + 1 .. n : k \in 1 .. n /\ t[k] = t[k - 1] * s[k]
  BY <1>1, <1>2
<1>5. /\ \A k \in 0 .. n : Offsets(s, c)[k] \in Nat
      /\ \A k \in 1 .. n : Offsets(s, c)[k] = Offsets(s, c)[k - 1] * s[k] + c[k]
  BY OffsetsAre
<1>6. /\ \A k \in 0 .. n : Products(s, Axes(s))[k] \in Nat
      /\ \A k \in 1 .. n : Products(s, Axes(s))[k]
           = Products(s, Axes(s))[k - 1] * (IF k \in Axes(s) THEN s[k] ELSE 1)
  BY ProductsAre
<1>7. Counts(Offsets(s, c), t, s, c, a, n)
  <2>1. Offsets(s, c)[a] \in Nat
    BY <1>1, <1>5
  <2>2. \A k \in a + 1 .. n : /\ s[k] \in Nat /\ c[k] \in Nat
                              /\ Offsets(s, c)[k] = Offsets(s, c)[k - 1] * s[k] + c[k]
                              /\ t[k] = t[k - 1] * s[k]
    BY <1>1, <1>4, <1>5
  <2> QED BY <1>1, <1>3, <2>1, <2>2 DEF Counts
<1>8. Counts(Products(s, Axes(s)), t, s, [k \in Axes(s) |-> 0], a, n)
  <2> DEFINE Q == Products(s, Axes(s))
             z == [k \in Axes(s) |-> 0]
  <2>1. Q[a] \in Nat
    BY <1>1, <1>6
  <2>2. ASSUME NEW k \in a + 1 .. n
        PROVE  s[k] \in Nat /\ z[k] \in Nat /\ Q[k] = Q[k - 1] * s[k] + z[k]
    <3>1. k \in 1 .. n /\ k - 1 \in 0 .. n /\ k \in Axes(s)
      BY <1>1
    <3>2. Q[k] = Q[k - 1] * s[k] /\ Q[k - 1] \in Nat /\ z[k] = 0 /\ s[k] \in Nat
      BY <1>1, <1>6, <3>1
    <3>3. Q[k - 1] * s[k] \in Nat
      BY <3>2
    <3> QED BY <3>2, <3>3
  <2> HIDE DEF Q, z
  <2>3. Counts(Q, t, s, z, a, n)
    BY <1>1, <1>3, <1>4, <2>1, <2>2 DEF Counts
  <2> QED BY <2>3 DEF Q, z
<1> QED BY <1>7, <1>8

\* The number of cells is that of the axes up to a, times the stride of a.
LEMMA SizeSplits ==
  ASSUME NEW s \in Seq(Nat), NEW a \in Axes(s)
  PROVE  /\ Products(s, Axes(s))[a - 1] \in Nat /\ Stride(s, a) \in Nat /\ s[a] \in Nat
         /\ Size(s) = (Products(s, Axes(s))[a - 1] * s[a]) * Stride(s, a)
<1> DEFINE n == Len(s)
           Q == Products(s, Axes(s))
           t == Products(s, a + 1 .. n)
           z == [k \in Axes(s) |-> 0]
           o == [k \in 0 .. n |-> 0]
<1>1. /\ n \in Nat /\ Axes(s) = 1 .. n /\ a \in 0 .. n /\ a \in 1 .. n
      /\ a - 1 \in 0 .. n /\ n \in a .. n /\ s[a] \in Nat
  BY ShapeFacts
<1>2. Counts(Q, t, s, z, a, n)
  <2>1. \A k \in Axes(s) : z[k] \in Nat
    OBVIOUS
  <2> HIDE DEF t, n
  <2> QED BY <1>1, <2>1, PositionsCount DEF t, n
<1>3. Counts(o, t, s, z, a, n)
  <2>1. a \in Nat /\ a <= n /\ o[a] \in Nat
    BY <1>1
  <2>2. ASSUME NEW k \in a + 1 .. n PROVE o[k] = o[k - 1] * s[k] + z[k] /\ z[k] \in Nat
    <3>1. o[k] = 0 /\ o[k - 1] = 0 /\ z[k] = 0 /\ s[k] \in Nat
      BY <1>1, ShapeFacts
    <3>2. 0 = 0 * s[k] + 0
      BY <3>1
    <3> QED BY <3>1, <3>2
  <2> HIDE DEF o, t, n, Q, z
  <2> QED BY <1>1, <1>2, <2>1, <2>2 DEF Counts
<1>4. Q[n] + o[a] * t[n] = o[n] + Q[a] * t[n] /\ t[n] \in Nat
  <2> HIDE DEF o, t, n, Q, z
  <2> QED BY <1>1, <1>2, <1>3, CountsMove, CountsStay
<1>5. o[a] = 0 /\ o[n] = 0
  BY <1>1
<1>6. /\ Q[a - 1] \in Nat /\ Q[a] \in Nat /\ Q[n] \in Nat
      /\ Q[a] = Q[a - 1] * (IF a \in Axes(s) THEN s[a] ELSE 1)
  BY <1>1, ProductsAre, SMTT(30)
<1>7. Size(s) = Q[n] /\ Stride(s, a) = t[n]
  BY DEF Size, Stride
<1> HIDE DEF o, t, n, Q, z
<1>8. Q[n] = Q[a] * t[n]
  BY <1>4, <1>5, <1>6
<1> QED BY <1>1, <1>4, <1>6, <1>7, <1>8 DEF Q

\* The index along axis a is a digit of the position, for every axis.
LEMMA DigitsPlace ==
  ASSUME NEW s \in Seq(Nat), NEW c \in Cells(s)
  PROVE  /\ Offset(s, c) \in Nat /\ Offset(s, c) < Size(s)
         /\ \A a \in Axes(s) : \E h \in Nat, r \in Nat :
              r < Stride(s, a) /\ Offset(s, c) = (h * s[a] + c[a]) * Stride(s, a) + r
<1> DEFINE n == Len(s)
           u == Offsets(s, c)
<1>1. /\ n \in Nat /\ Axes(s) = 1 .. n /\ \A k \in Axes(s) : s[k] \in Nat
  BY ShapeFacts
<1>2. \A k \in Axes(s) : c[k] \in Nat /\ c[k] < s[k]
  <2>1. \A k \in Axes(s) : c[k] \in 0 .. s[k] - 1
    BY CellsOfShape
  <2> QED BY <1>1, <2>1
<1>3. /\ u[0] = 0 /\ \A k \in 0 .. n : u[k] \in Nat
      /\ \A k \in 1 .. n : u[k] = u[k - 1] * s[k] + c[k]
  BY <1>2, OffsetsAre
<1>4. Offset(s, c) = u[n] /\ u[n] \in Nat
  BY <1>1, <1>3 DEF Offset
<1>5. ASSUME NEW a \in 0 .. n
      PROVE  \E r \in Nat : /\ r < Products(s, a + 1 .. n)[n]
                            /\ u[n] = u[a] * Products(s, a + 1 .. n)[n] + r
  <2>1. PICK t : t = Products(s, a + 1 .. n)
    OBVIOUS
  <2>2. Counts(u, t, s, c, a, n)
    BY <1>1, <1>2, <2>1, PositionsCount
  <2>3. n \in a .. n /\ \A k \in a + 1 .. n : c[k] < s[k]
    BY <1>1, <1>2
  <2> HIDE DEF u, n
  <2>4. \E r \in Nat : r < t[n] /\ u[n] = u[a] * t[n] + r
    BY <2>2, <2>3, CountsBelow
  <2> QED BY <2>1, <2>4
<1>6. u[n] < Size(s)
  <2>1. PICK r \in Nat : /\ r < Products(s, 0 + 1 .. n)[n]
                         /\ u[n] = u[0] * Products(s, 0 + 1 .. n)[n] + r
    BY <1>1, <1>5
  <2>2. Products(s, 0 + 1 .. n)[n] = Size(s)
    BY <1>1 DEF Size
  <2>3. Size(s) \in Nat
    BY <1>1, ProductsAre DEF Size
  <2> HIDE DEF u, n
  <2> QED BY <1>3, <2>1, <2>2, <2>3
<1>7. ASSUME NEW a \in Axes(s)
      PROVE  \E h \in Nat, r \in Nat :
               r < Stride(s, a) /\ u[n] = (h * s[a] + c[a]) * Stride(s, a) + r
  <2>1. a \in 0 .. n /\ a \in 1 .. n /\ a - 1 \in 0 .. n
    BY <1>1
  <2>2. PICK r \in Nat : r < Stride(s, a) /\ u[n] = u[a] * Stride(s, a) + r
    BY <1>5, <2>1 DEF Stride
  <2>3. u[a - 1] \in Nat /\ u[a] = u[a - 1] * s[a] + c[a]
    BY <1>3, <2>1
  <2> QED BY <2>2, <2>3
<1> QED BY <1>4, <1>6, <1>7

-----------------------------------------------------------------------------
\* Cells at one position have one index on axes of one extent and stride.
LEMMA DigitsAgree ==
  ASSUME NEW s \in Seq(Nat), NEW d \in Cells(s), NEW a \in Axes(s),
         NEW out \in Seq(Nat), NEW c \in Cells(out), NEW b \in Axes(out),
         out[b] = s[a], Stride(out, b) = Stride(s, a), Offset(out, c) = Offset(s, d)
  PROVE  c[b] = d[a]
<1> DEFINE m == s[a]
           t == Stride(s, a)
           x == d[a]
           y == c[b]
<1>1. PICK h \in Nat, r \in Nat : r < t /\ Offset(s, d) = (h * m + x) * t + r
  BY DigitsPlace
<1>2. PICK i \in Nat, e \in Nat : e < t /\ Offset(s, d) = (i * m + y) * t + e
  BY DigitsPlace, SMTT(30)
<1>3. t \in Nat /\ m \in Nat
  BY SizeSplits
<1>4. x \in 0 .. m - 1 /\ y \in 0 .. m - 1
  BY CellsOfShape
<1> HIDE DEF m, t, x, y
<1>5. x \in Nat /\ y \in Nat /\ x < m /\ y < m
  BY <1>3, <1>4
<1>6. h * m + x \in Nat /\ i * m + y \in Nat
  <2>1. h * m \in Nat /\ i * m \in Nat
    BY <1>3
  <2> QED BY <1>5, <2>1, SMTT(30)
<1>7. h * m + x = i * m + y
  <2>1. Divides(Offset(s, d), h * m + x, t, r)
    BY <1>1, <1>3, <1>6 DEF Divides
  <2>2. Divides(Offset(s, d), i * m + y, t, e)
    BY <1>2, <1>3, <1>6 DEF Divides
  <2> QED BY <2>1, <2>2, DividesOnce
<1>8. x = y
  <2>1. x \in Nat /\ y \in Nat /\ m \in Nat /\ x < m /\ y < m
    BY <1>3, <1>5
  <2>2. Divides(h * m + x, h, m, x)
    BY <2>1 DEF Divides
  <2>3. Divides(h * m + x, i, m, y)
    BY <1>7, <2>1 DEF Divides
  <2> QED BY <2>2, <2>3, DividesOnce
<1> QED BY <1>8 DEF x, y

\* A position has one cell.
LEMMA OneCell ==
  ASSUME NEW s \in Seq(Nat), NEW c \in Cells(s), NEW d \in Cells(s),
         Offset(s, c) = Offset(s, d)
  PROVE  c = d
<1>1. \A a \in Axes(s) : c[a] = d[a]
  BY DigitsAgree
<1>2. [k \in Axes(s) |-> c[k]] = [k \in Axes(s) |-> d[k]]
  BY <1>1
<1> QED BY <1>2, CellsOfShape

\* The position of the first indices depends on nothing but these.
LEMMA PrefixPosition ==
  ASSUME NEW s \in Seq(Nat), NEW c, NEW d, \A k \in Axes(s) : c[k] \in Nat /\ d[k] \in Nat,
         NEW a \in 0 .. Len(s), \A k \in 1 .. a : c[k] = d[k]
  PROVE  Offsets(s, c)[a] = Offsets(s, d)[a]
<1> DEFINE n == Len(s)
           u == Offsets(s, c)
           v == Offsets(s, d)
           B == {k \in 0 .. a : u[k] = v[k]}
<1>1. n \in Nat /\ a \in Nat /\ a <= n
  BY ShapeFacts
<1>2. u[0] = 0 /\ \A k \in 1 .. n : u[k] = u[k - 1] * s[k] + c[k]
  BY OffsetsAre
<1>3. v[0] = 0 /\ \A k \in 1 .. n : v[k] = v[k - 1] * s[k] + d[k]
  BY OffsetsAre
<1>4. 0 \in B
  BY <1>1, <1>2, <1>3
<1>5. ASSUME NEW k \in 0 + 1 .. a, k - 1 \in B PROVE k \in B
  <2>1. k \in 0 .. a /\ k \in 1 .. n /\ k \in 1 .. a
    BY <1>1
  <2>2. u[k] = u[k - 1] * s[k] + c[k] /\ v[k] = v[k - 1] * s[k] + d[k] /\ c[k] = d[k]
    BY <1>2, <1>3, <2>1
  <2>3. u[k - 1] = v[k - 1]
    BY <1>5
  <2> HIDE DEF u, v
  <2> QED BY <2>1, <2>2, <2>3
<1>6. \A k \in 0 .. a : k \in B
  <2>1. 0 \in Nat /\ 0 <= a
    BY <1>1
  <2> HIDE DEF B, n
  <2> QED BY <1>1, <1>4, <1>5, <2>1, StepByStep
<1>7. a \in 0 .. a
  BY <1>1
<1> QED BY <1>6, <1>7

\* Another index along axis a moves the position by its stride.
LEMMA OneDigit ==
  ASSUME NEW s \in Seq(Nat), NEW c, NEW e, \A k \in Axes(s) : c[k] \in Nat /\ e[k] \in Nat,
         NEW a \in Axes(s), \A k \in Axes(s) \ {a} : e[k] = c[k]
  PROVE  /\ Offset(s, c) \in Nat /\ Offset(s, e) \in Nat
         /\ Offset(s, e) + c[a] * Stride(s, a) = Offset(s, c) + e[a] * Stride(s, a)
<1> DEFINE n == Len(s)
           u == Offsets(s, c)
           v == Offsets(s, e)
           t == Products(s, a + 1 .. n)
<1>1. /\ n \in Nat /\ Axes(s) = 1 .. n /\ a \in Nat /\ a \in 0 .. n /\ a \in 1 .. n
      /\ a - 1 \in 0 .. n /\ n \in a .. n /\ n \in 0 .. n /\ s[a] \in Nat
  BY ShapeFacts
<1>2. /\ \A k \in 0 .. n : u[k] \in Nat
      /\ \A k \in 1 .. n : u[k] = u[k - 1] * s[k] + c[k]
  BY OffsetsAre
<1>3. /\ \A k \in 0 .. n : v[k] \in Nat
      /\ \A k \in 1 .. n : v[k] = v[k - 1] * s[k] + e[k]
  BY OffsetsAre
<1>4. Counts(u, t, s, c, a, n)
  BY <1>1, PositionsCount
<1>5. Counts(v, t, s, c, a, n)
  <2>1. Counts(v, t, s, e, a, n)
    BY <1>1, PositionsCount
  <2>2. \A k \in a + 1 .. n : e[k] = c[k]
    BY <1>1
  <2> HIDE DEF u, v, t, n
  <2> QED BY <2>1, <2>2 DEF Counts
<1>6. u[a - 1] = v[a - 1]
  <2>1. \A k \in 1 .. a - 1 : c[k] = e[k]
    BY <1>1
  <2> QED BY <1>1, <2>1, PrefixPosition
<1>7. Offset(s, c) = u[n] /\ Offset(s, e) = v[n] /\ Stride(s, a) = t[n]
  BY DEF Offset, Stride
<1> HIDE DEF u, v, t, n
<1>8. v[n] + u[a] * t[n] = u[n] + v[a] * t[n] /\ t[n] \in Nat
  BY <1>1, <1>4, <1>5, CountsMove, CountsStay
<1>9. /\ u[a] = u[a - 1] * s[a] + c[a] /\ v[a] = u[a - 1] * s[a] + e[a]
      /\ u[a - 1] \in Nat /\ u[n] \in Nat /\ v[n] \in Nat
  BY <1>1, <1>2, <1>3, <1>6
<1>10. v[n] + c[a] * t[n] = u[n] + e[a] * t[n]
  <2> DEFINE x == u[a - 1] * s[a]
  <2>1. x \in Nat /\ c[a] \in Nat /\ e[a] \in Nat
    <3>1. c[a] \in Nat /\ e[a] \in Nat
      OBVIOUS
    <3>2. u[a - 1] \in Nat /\ s[a] \in Nat
      BY <1>1, <1>9
    <3>3. u[a - 1] * s[a] \in Nat
      BY <3>2
    <3> QED BY <3>1, <3>3
  <2>2. u[a] = x + c[a] /\ v[a] = x + e[a]
    BY <1>9
  <2> HIDE DEF x
  <2>3. v[n] + (x + c[a]) * t[n] = u[n] + (x + e[a]) * t[n]
    BY <1>8, <2>2
  <2> DEFINE p == c[a]
             q == e[a]
             w == t[n]
             z == v[n]
             r == u[n]
  <2>4. /\ z + (x + p) * w = r + (x + q) * w
        /\ x \in Nat /\ p \in Nat /\ q \in Nat /\ w \in Nat /\ z \in Nat /\ r \in Nat
    BY <1>8, <1>9, <2>1, <2>3
  <2> HIDE DEF p, q, w, z, r
  <2>5. (x + p) * w = x * w + p * w /\ (x + q) * w = x * w + q * w
    BY <2>4
  <2>6. x * w \in Nat /\ p * w \in Nat /\ q * w \in Nat
    BY <2>4
  <2>7. z + p * w = r + q * w
    BY <2>4, <2>5, <2>6
  <2> QED BY <2>7 DEF p, q, w, z, r
<1> QED BY <1>7, <1>9, <1>10

\* Axes of one extent that the same number of cells comes before have one stride.
LEMMA StridesAgree ==
  ASSUME NEW s \in Seq(Nat), NEW a \in Axes(s), NEW out \in Seq(Nat), NEW b \in Axes(out),
         out[b] = s[a], Products(out, Axes(out))[b - 1] = Products(s, Axes(s))[a - 1],
         Size(out) = Size(s), Size(s) # 0
  PROVE  Stride(out, b) = Stride(s, a)
<1> DEFINE x == Products(s, Axes(s))[a - 1]
           m == s[a]
           t == Stride(s, a)
           v == Stride(out, b)
<1>1. x \in Nat /\ m \in Nat /\ t \in Nat /\ Size(s) = (x * m) * t
  BY SizeSplits
<1>2. v \in Nat /\ Size(s) = (x * m) * v
  BY SizeSplits
<1> HIDE DEF x, m, t, v
<1> DEFINE y == x * m
<1>3. y \in Nat
  BY <1>1
<1>4. y # 0
  <2>1. CASE y = 0
    <3>1. Size(s) = 0 * t
      BY <1>1, <2>1
    <3> QED BY <1>1, <3>1
  <2> QED BY <2>1
<1>5. y * t = y * v
  BY <1>1, <1>2
<1> HIDE DEF y
<1>6. t * y + 0 = v * y + 0 /\ 0 < y
  BY <1>1, <1>2, <1>3, <1>4, <1>5
<1>7. t = v
  <2>1. Divides(t * y + 0, t, y, 0) /\ Divides(t * y + 0, v, y, 0)
    BY <1>1, <1>2, <1>3, <1>6 DEF Divides
  <2> QED BY <2>1, DividesOnce
<1> QED BY <1>7 DEF t, v

-----------------------------------------------------------------------------
(***************************************************************************)
(* The cell at a position, and the axes of a group in order.               *)
(***************************************************************************)
\* The first k indices of d are in range and give the position x.
Reaches(s, k, d, x) ==
  /\ d \in [Axes(s) -> Nat] /\ \A i \in 1 .. k : d[i] < s[i]
  /\ Offsets(s, d)[k] = x

\* One more index in range.
LEMMA NextIndex ==
  ASSUME NEW s \in Seq(Nat), NEW k \in 1 .. Len(s), NEW d, NEW q, Reaches(s, k - 1, d, q),
         NEW r \in Nat, r < s[k]
  PROVE  \E e : Reaches(s, k, e, q * s[k] + r)
<1> DEFINE e == [i \in Axes(s) |-> IF i = k THEN r ELSE d[i]]
<1>1. /\ Len(s) \in Nat /\ Axes(s) = 1 .. Len(s) /\ k \in Axes(s) /\ k \in 1 .. k
      /\ 1 .. k - 1 \subseteq Axes(s) /\ 1 .. k \subseteq Axes(s)
      /\ k - 1 \in 0 .. Len(s) /\ k \in Nat
  BY ShapeFacts
<1>2. /\ d \in [Axes(s) -> Nat] /\ \A i \in 1 .. k - 1 : d[i] < s[i]
      /\ Offsets(s, d)[k - 1] = q
  BY DEF Reaches
<1>3. e \in [Axes(s) -> Nat] /\ \A i \in Axes(s) : e[i] = IF i = k THEN r ELSE d[i]
  BY <1>2
<1> HIDE DEF e
<1>4. \A i \in 1 .. k - 1 : e[i] = d[i]
  <2>1. \A i \in 1 .. k - 1 : i \in Axes(s) /\ i # k
    BY <1>1
  <2> QED BY <1>3, <2>1
<1>5. Offsets(s, e)[k - 1] = q
  <2>1. \A i \in Axes(s) : e[i] \in Nat /\ d[i] \in Nat
    BY <1>2, <1>3
  <2> QED BY <1>1, <1>2, <1>4, <2>1, PrefixPosition, ZenonT(30)
<1>6. Offsets(s, e)[k] = Offsets(s, e)[k - 1] * s[k] + e[k]
  BY <1>3, OffsetsAre
<1>7. e[k] = r
  BY <1>1, <1>3
<1>8. \A i \in 1 .. k : e[i] < s[i]
  <2>1. \A i \in 1 .. k : i = k \/ i \in 1 .. k - 1
    BY <1>1
  <2> QED BY <1>2, <1>4, <1>7, <2>1
<1>9. Offsets(s, e)[k] = q * s[k] + r
  BY <1>5, <1>6, <1>7
<1> QED BY <1>3, <1>8, <1>9 DEF Reaches

\* Every position is that of a cell.
LEMMA CellAt ==
  ASSUME NEW s \in Seq(Nat), NEW z \in Nat, z < Size(s)
  PROVE  \E d \in Cells(s) : Offset(s, d) = z
<1> DEFINE n == Len(s)
           Q == Products(s, Axes(s))
           B == {k \in 0 .. n : \A x \in Nat : x < Q[k] => \E d : Reaches(s, k, d, x)}
<1>1. n \in Nat /\ Axes(s) = 1 .. n /\ \A k \in Axes(s) : s[k] \in Nat
  BY ShapeFacts
<1>2. /\ Q[0] = 1 /\ \A k \in 0 .. n : Q[k] \in Nat
      /\ \A k \in 1 .. n : Q[k] = Q[k - 1] * s[k]
  <2>1. PICK K : K = Axes(s)
    OBVIOUS
  <2>2. /\ Products(s, K)[0] = 1 /\ \A k \in 0 .. n : Products(s, K)[k] \in Nat
        /\ \A k \in 1 .. n :
             Products(s, K)[k] = Products(s, K)[k - 1] * (IF k \in K THEN s[k] ELSE 1)
    BY ProductsAre
  <2> QED BY <1>1, <2>1, <2>2
<1>3. 0 \in B
  <2>1. ASSUME NEW x \in Nat, x < 1 PROVE \E d : Reaches(s, 0, d, x)
    <3> DEFINE d == [k \in Axes(s) |-> 0]
    <3>1. d \in [Axes(s) -> Nat] /\ \A k \in Axes(s) : d[k] \in Nat
      OBVIOUS
    <3> HIDE DEF d
    <3>2. Offsets(s, d)[0] = 0 /\ x = 0
      BY <2>1, <3>1, OffsetsAre
    <3>3. Reaches(s, 0, d, x)
      BY <3>1, <3>2 DEF Reaches
    <3> QED BY <3>3
  <2> QED BY <1>1, <1>2, <2>1
<1>4. ASSUME NEW k \in 0 + 1 .. n, k - 1 \in B PROVE k \in B
  <2>1. k \in 0 .. n /\ k \in 1 .. n /\ k - 1 \in 0 .. n
    BY <1>1
  <2>2. Q[k] = Q[k - 1] * s[k] /\ Q[k - 1] \in Nat /\ s[k] \in Nat
    BY <1>1, <1>2, <2>1
  <2>3. \A x \in Nat : x < Q[k - 1] => \E d : Reaches(s, k - 1, d, x)
    BY <1>4
  <2> HIDE DEF Q
  <2>4. ASSUME NEW x \in Nat, x < Q[k] PROVE \E d : Reaches(s, k, d, x)
    <3>1. s[k] # 0
      <4>1. CASE s[k] = 0
        <5>1. Q[k] = Q[k - 1] * 0
          BY <2>2, <4>1
        <5> QED BY <2>2, <2>4, <5>1
      <4> QED BY <4>1
    <3>2. PICK q \in Nat, r \in 0 .. s[k] - 1 : x = q * s[k] + r
      BY <2>2, <3>1, Division
    <3>3. q < Q[k - 1]
      <4>1. SUFFICES ASSUME ~ (q < Q[k - 1]) PROVE FALSE
        OBVIOUS
      <4>2. PICK e \in Nat : q = Q[k - 1] + e
        <5>1. q - Q[k - 1] \in Nat /\ q = Q[k - 1] + (q - Q[k - 1])
          BY <2>2, <4>1, SMTT(30)
        <5> QED BY <5>1
      <4> DEFINE w == Q[k - 1]
                 m == s[k]
      <4>3. /\ w \in Nat /\ m \in Nat /\ r \in Nat /\ q = w + e
            /\ x = q * m + r /\ x < w * m
        BY <2>2, <2>4, <3>2, <4>2
      <4> HIDE DEF w, m
      <4>4. q * m = w * m + e * m
        BY <4>3
      <4>5. e * m \in Nat /\ w * m \in Nat
        BY <4>3
      <4> QED BY <4>3, <4>4, <4>5
    <3>4. PICK d : Reaches(s, k - 1, d, q)
      BY <2>3, <3>3
    <3>5. r \in Nat /\ r < s[k]
      BY <2>2
    <3>6. \E e : Reaches(s, k, e, q * s[k] + r)
      BY <2>1, <3>4, <3>5, NextIndex
    <3> QED BY <3>2, <3>6
  <2> QED BY <2>1, <2>4
<1>5. \A k \in 0 .. n : k \in B
  <2>1. 0 \in Nat /\ 0 <= n
    BY <1>1
  <2> HIDE DEF B, n
  <2> QED BY <1>1, <1>3, <1>4, <2>1, StepByStep
<1>6. z < Q[n] /\ n \in 0 .. n
  BY <1>1 DEF Size
<1>7. PICK d : Reaches(s, n, d, z)
  <2> HIDE DEF Q, n
  <2> QED BY <1>5, <1>6
<1>8. d \in [Axes(s) -> Nat] /\ (\A i \in Axes(s) : d[i] < s[i]) /\ Offsets(s, d)[n] = z
  BY <1>1, <1>7 DEF Reaches
<1>9. d \in Cells(s)
  <2>1. d = [k \in Axes(s) |-> d[k]]
    BY <1>8
  <2>2. \A k \in Axes(s) : d[k] \in 0 .. s[k] - 1
    BY <1>1, <1>8
  <2> QED BY <2>1, <2>2, CellsOfShape
<1>10. Offset(s, d) = z
  BY <1>8 DEF Offset
<1> QED BY <1>9, <1>10

-----------------------------------------------------------------------------
\* The axes of a group are listed in order.
LEMMA SortedIncreases ==
  ASSUME NEW K \in SUBSET Nat, IsFiniteSet(K)
  PROVE  /\ Len(Sorted(K)) \in Nat /\ Axes(Sorted(K)) = 1 .. Len(Sorted(K))
         /\ \A k \in Axes(Sorted(K)) : Sorted(K)[k] \in K
         /\ \A a \in K : \E k \in Axes(Sorted(K)) : Sorted(K)[k] = a
         /\ \A i, j \in Axes(Sorted(K)) : i < j => Sorted(K)[i] < Sorted(K)[j]
<1> DEFINE n == Cardinality(K)
<1>1. /\ n \in Nat
      /\ \A a \in K : Place(K, a) \in 1 .. n
      /\ \A a, b \in K : a < b => Place(K, a) < Place(K, b)
      /\ \A i \in 1 .. n : \E a \in K : Place(K, a) = i
  BY PlacesNumber
<1>2. \A i \in 1 .. n : Sorted(K)[i] \in K /\ Place(K, Sorted(K)[i]) = i
  <2>1. \A i \in 1 .. n :
          Sorted(K)[i] = CHOOSE a \in K : Cardinality({b \in K : b <= a}) = i
    BY DEF Sorted
  <2>2. \A i \in 1 .. n : Sorted(K)[i] = CHOOSE a \in K : Place(K, a) = i
    BY <2>1 DEF Place
  <2> QED BY <1>1, <2>2
<1>3. Len(Sorted(K)) = n
  <2>1. Sorted(K) \in Seq(Nat) /\ DOMAIN Sorted(K) = 1 .. n
    BY SortedLists DEF Sorted
  <2> QED BY <1>1, <2>1
<1>4. ASSUME NEW a \in K PROVE \E k \in 1 .. n : Sorted(K)[k] = a
  <2>1. Place(K, a) \in 1 .. n
    BY <1>1
  <2>2. /\ Sorted(K)[Place(K, a)] \in K
        /\ Place(K, Sorted(K)[Place(K, a)]) = Place(K, a)
    BY <1>2, <2>1
  <2>3. Sorted(K)[Place(K, a)] = a
    <3>1. PICK b \in K : b = Sorted(K)[Place(K, a)]
      BY <2>2
    <3>2. Place(K, b) = Place(K, a) /\ Place(K, a) \in Nat
      BY <2>1, <2>2, <3>1
    <3>3. ~ (a < b) /\ ~ (b < a)
      BY <1>1, <3>2
    <3>4. a \in Nat /\ b \in Nat
      OBVIOUS
    <3> QED BY <3>1, <3>3, <3>4
  <2> QED BY <2>1, <2>3
<1>5. ASSUME NEW i \in 1 .. n, NEW j \in 1 .. n, i < j PROVE Sorted(K)[i] < Sorted(K)[j]
  <2>1. /\ Sorted(K)[i] \in K /\ Sorted(K)[j] \in K
        /\ Place(K, Sorted(K)[i]) = i /\ Place(K, Sorted(K)[j]) = j
    BY <1>2
  <2>2. Sorted(K)[i] # Sorted(K)[j]
    BY <1>5, <2>1
  <2>3. ~ (Sorted(K)[j] < Sorted(K)[i])
    <3>1. CASE Sorted(K)[j] < Sorted(K)[i]
      <4>1. Place(K, Sorted(K)[j]) < Place(K, Sorted(K)[i])
        BY <1>1, <2>1, <3>1
      <4>2. j < i
        BY <2>1, <4>1
      <4> QED BY <1>5, <4>2
    <3> QED BY <3>1
  <2>4. Sorted(K)[i] \in Nat /\ Sorted(K)[j] \in Nat
    BY <2>1
  <2> QED BY <2>2, <2>3, <2>4
<1> QED BY <1>1, <1>2, <1>3, <1>4, <1>5 DEF Axes

-----------------------------------------------------------------------------
(***************************************************************************)
(* The walk of transport_reshape().                                        *)
(***************************************************************************)
\* A lists axes of shape s in order.
ListsAxes(A, s) ==
  /\ s \in Seq(Nat) /\ Len(A) \in Nat /\ Axes(A) = 1 .. Len(A)
  /\ \A k \in 1 .. Len(A) : A[k] \in Axes(s)
  /\ \A i, j \in 1 .. Len(A) : i < j => A[i] < A[j]
  /\ \A a : a \in Range(A) <=> \E k \in 1 .. Len(A) : a = A[k]

\* The axes of a group, listed in order, are axes of the shape.
LEMMA SupportListed ==
  ASSUME NEW s \in Seq(Nat), NEW K \in SUBSET Axes(s)
  PROVE  /\ ListsAxes(Sorted(K), s)
         /\ \A a \in K : \E k \in 1 .. Len(Sorted(K)) : Sorted(K)[k] = a
         /\ \A k \in 1 .. Len(Sorted(K)) : Sorted(K)[k] \in K
<1>1. K \in SUBSET Nat /\ IsFiniteSet(K)
  <2>1. Axes(s) = 1 .. Len(s) /\ Len(s) \in Nat /\ Axes(s) \subseteq Nat
    BY ShapeFacts
  <2>2. IsFiniteSet(1 .. Len(s))
    BY <2>1, FS_Interval
  <2> QED BY <2>1, <2>2, FS_Subset
<1>2. PICK A : A = Sorted(K)
  OBVIOUS
<1>3. /\ Len(A) \in Nat /\ Axes(A) = 1 .. Len(A)
      /\ \A k \in 1 .. Len(A) : A[k] \in K
      /\ \A a \in K : \E k \in 1 .. Len(A) : A[k] = a
      /\ \A i, j \in 1 .. Len(A) : i < j => A[i] < A[j]
  BY <1>1, <1>2, SortedIncreases
<1>4. \A a : a \in Range(A) <=> \E k \in 1 .. Len(A) : a = A[k]
  <2>1. Range(A) = K
    BY <1>1, <1>2, SortedLists
  <2> QED BY <1>3, <2>1
<1> QED BY <1>2, <1>3, <1>4 DEF ListsAxes

\* What the walk multiplies up to the k-th block axis is what comes before it.
LEMMA PassedIs ==
  ASSUME NEW s, NEW A, ListsAxes(A, s), NEW m, \A k \in 1 .. Len(A) : s[A[k]] = m,
         NEW k \in 1 .. Len(A)
  PROVE  Passed(s, A, m, k) = Products(s, Axes(s))[A[k] - 1]
<1> DEFINE n == Len(A)
           l == Len(s)
           Q == Products(s, Axes(s))
           R == Products(s, Axes(s) \ Range(A))
           x == [i \in Axes(A) |-> m]
           M == Products(x, Axes(A))
           Between(j, i) == (j = 0 \/ A[j] <= i) /\ (j = n \/ i < A[j + 1])
           B == {i \in 0 .. l : \A j \in 0 .. n : Between(j, i) => Q[i] = R[i] * M[j]}
<1>1. /\ s \in Seq(Nat) /\ n \in Nat /\ Axes(A) = 1 .. n
      /\ \A i \in 1 .. n : A[i] \in Axes(s)
      /\ \A i, j \in 1 .. n : i < j => A[i] < A[j]
      /\ \A a : a \in Range(A) <=> \E i \in 1 .. n : a = A[i]
  BY DEF ListsAxes
<1>2. l \in Nat /\ Axes(s) = 1 .. l /\ \A i \in Axes(s) : s[i] \in Nat
  BY <1>1, ShapeFacts
<1>3. /\ Q[0] = 1 /\ \A i \in 0 .. l : Q[i] \in Nat
      /\ \A i \in 1 .. l : Q[i] = Q[i - 1] * s[i]
  <2>1. PICK K : K = Axes(s)
    OBVIOUS
  <2>2. /\ Products(s, K)[0] = 1 /\ \A i \in 0 .. l : Products(s, K)[i] \in Nat
        /\ \A i \in 1 .. l :
             Products(s, K)[i] = Products(s, K)[i - 1] * (IF i \in K THEN s[i] ELSE 1)
    BY <1>1, ProductsAre
  <2> QED BY <1>2, <2>1, <2>2
<1>4. /\ R[0] = 1 /\ \A i \in 0 .. l : R[i] \in Nat
      /\ \A i \in 1 .. l : R[i] = R[i - 1] * (IF i \in Range(A) THEN 1 ELSE s[i])
  <2>1. PICK K : K = Axes(s) \ Range(A)
    OBVIOUS
  <2>2. /\ Products(s, K)[0] = 1 /\ \A i \in 0 .. l : Products(s, K)[i] \in Nat
        /\ \A i \in 1 .. l :
             Products(s, K)[i] = Products(s, K)[i - 1] * (IF i \in K THEN s[i] ELSE 1)
    BY <1>1, ProductsAre
  <2>3. \A i \in 1 .. l : i \in K <=> i \notin Range(A)
    BY <1>2, <2>1
  <2> QED BY <2>1, <2>2, <2>3
<1>5. m \in Nat
  BY <1>1, <1>2
<1>6. /\ M[0] = 1 /\ \A i \in 0 .. n : M[i] \in Nat
      /\ \A i \in 1 .. n : M[i] = M[i - 1] * m
  <2>1. x \in Seq(Nat) /\ Len(x) = n /\ \A i \in 1 .. n : x[i] = m
    <3>1. x = [i \in 1 .. n |-> m]
      BY <1>1
    <3> QED BY <1>1, <1>5, <3>1
  <2>2. PICK K : K = Axes(A)
    OBVIOUS
  <2> HIDE DEF x
  <2>3. /\ Products(x, K)[0] = 1 /\ \A i \in 0 .. n : Products(x, K)[i] \in Nat
        /\ \A i \in 1 .. n :
             Products(x, K)[i] = Products(x, K)[i - 1] * (IF i \in K THEN x[i] ELSE 1)
    BY <2>1, ProductsAre
  <2> QED BY <1>1, <2>1, <2>2, <2>3
<1> HIDE DEF Q, R, M, x, n, l
<1>7. 0 \in B
  <2>1. ASSUME NEW j \in 0 .. n, Between(j, 0) PROVE j = 0
    <3>1. \A i \in 1 .. n : A[i] \in Nat /\ ~ (A[i] <= 0)
      BY <1>1, <1>2
    <3> QED BY <1>1, <2>1, <3>1
  <2>2. Q[0] = R[0] * M[0]
    BY <1>3, <1>4, <1>6
  <2>3. \A j \in 0 .. n : Between(j, 0) => Q[0] = R[0] * M[j]
    BY <2>1, <2>2
  <2>4. 0 \in 0 .. l
    BY <1>2
  <2> HIDE DEF Between
  <2> QED BY <2>3, <2>4
<1>8. ASSUME NEW i \in 0 + 1 .. l, i - 1 \in B PROVE i \in B
  <2>1. i \in 1 .. l /\ i \in 0 .. l /\ i - 1 \in 0 .. l /\ i \in Axes(s) /\ i \in Nat
    BY <1>2
  <2>2. ASSUME NEW j \in 0 .. n, Between(j, i) PROVE Q[i] = R[i] * M[j]
    <3>1. \A h \in 1 .. n : A[h] \in Nat
      BY <1>1, <1>2
    <3>2. Q[i] = Q[i - 1] * s[i]
      BY <1>3, <2>1
    <3>3. R[i] = R[i - 1] * (IF i \in Range(A) THEN 1 ELSE s[i])
      BY <1>4, <2>1
    <3>4. /\ Q[i - 1] \in Nat /\ R[i - 1] \in Nat /\ s[i] \in Nat /\ M[j] \in Nat
      BY <1>2, <1>3, <1>4, <1>6, <2>1
    <3>5. CASE i \in Range(A)
      <4>1. PICK h \in 1 .. n : i = A[h]
        BY <1>1, <3>5
      <4>2. h = j
        <5>1. ~ (h < j)
          <6>1. CASE h < j
            <7>1. j \in 1 .. n
              BY <1>1, <6>1
            <7>2. A[h] < A[j] /\ A[j] <= i
              BY <1>1, <2>2, <6>1, <7>1
            <7> QED BY <2>1, <3>1, <4>1, <7>1, <7>2
          <6> QED BY <6>1
        <5>2. ~ (j < h)
          <6>1. CASE j < h
            <7>1. j + 1 \in 1 .. n /\ j # n
              BY <1>1, <6>1
            <7>2. i < A[j + 1] /\ A[j + 1] \in Nat
              BY <2>2, <3>1, <7>1
            <7>3. j + 1 = h \/ j + 1 < h
              BY <1>1, <6>1
            <7>4. j + 1 < h => A[j + 1] < A[h]
              BY <1>1, <7>1
            <7> QED BY <2>1, <4>1, <7>2, <7>3, <7>4
          <6> QED BY <6>1
        <5> QED BY <1>1, <5>1, <5>2
      <4>3. j \in 1 .. n /\ i = A[j] /\ j - 1 \in 0 .. n
        BY <1>1, <4>1, <4>2
      <4>4. Between(j - 1, i - 1)
        <5>1. j - 1 # 0 => j - 1 \in 1 .. n /\ A[j - 1] < A[j]
          BY <1>1, <4>3
        <5>2. j - 1 # 0 => A[j - 1] <= i - 1
          BY <2>1, <3>1, <4>3, <5>1
        <5>3. i - 1 < A[(j - 1) + 1]
          <6>1. (j - 1) + 1 = j
            BY <1>1
          <6> QED BY <2>1, <4>3, <6>1
        <5> QED BY <5>2, <5>3
      <4>5. Q[i - 1] = R[i - 1] * M[j - 1]
        BY <1>8, <4>3, <4>4
      <4>6. M[j] = M[j - 1] * m /\ M[j - 1] \in Nat /\ s[i] = m
        <5>1. \A h1 \in 1 .. Len(A) : s[A[h1]] = m
          OBVIOUS
        <5> QED BY <1>6, <4>3, <5>1 DEF n
      <4>7. R[i] = R[i - 1]
        BY <3>3, <3>4, <3>5
      <4>8. Q[i] = (R[i - 1] * M[j - 1]) * m
        BY <3>2, <4>5, <4>6
      <4> DEFINE u == R[i - 1]
                 v == M[j - 1]
      <4>9. u \in Nat /\ v \in Nat /\ Q[i] = (u * v) * m
        BY <3>4, <4>6, <4>8
      <4>10. R[i] = u /\ M[j] = v * m
        BY <4>6, <4>7
      <4> HIDE DEF u, v
      <4>11. (u * v) * m = u * (v * m)
        BY <1>5, <4>9
      <4> QED BY <4>9, <4>10, <4>11
    <3>6. CASE i \notin Range(A)
      <4>1. \A h \in 1 .. n : A[h] # i
        BY <1>1, <3>6
      <4>2. Between(j, i - 1)
        <5>1. j # 0 => j \in 1 .. n
          BY <1>1
        <5>2. j # 0 => A[j] <= i - 1
          BY <2>1, <2>2, <3>1, <4>1, <5>1
        <5>3. j # n => i - 1 < A[j + 1]
          <6>1. j # n => j + 1 \in 1 .. n
            BY <1>1
          <6> QED BY <2>1, <2>2, <3>1, <6>1
        <5> QED BY <5>2, <5>3
      <4>3. Q[i - 1] = R[i - 1] * M[j]
        BY <1>8, <4>2
      <4>4. R[i] = R[i - 1] * s[i]
        BY <3>3, <3>6
      <4>5. Q[i] = (R[i - 1] * M[j]) * s[i]
        BY <3>2, <4>3
      <4> DEFINE u == R[i - 1]
                 v == M[j]
                 w == s[i]
      <4>6. u \in Nat /\ v \in Nat /\ w \in Nat
        BY <3>4
      <4>7. Q[i] = (u * v) * w /\ R[i] = u * w
        BY <4>4, <4>5
      <4> HIDE DEF u, v, w
      <4>8. (u * v) * w = (u * w) * v
        BY <4>6
      <4>9. Q[i] = R[i] * v
        BY <4>7, <4>8
      <4> QED BY <4>9 DEF v
    <3> QED BY <3>5, <3>6
  <2> QED BY <2>1, <2>2
<1>9. \A i \in 0 .. l : i \in B
  <2>1. 0 \in Nat /\ 0 <= l
    BY <1>2
  <2> HIDE DEF B
  <2> QED BY <1>2, <1>7, <1>8, <2>1, StepByStep
<1>10. /\ A[k] - 1 \in 0 .. l /\ k - 1 \in 0 .. n /\ k \in 1 .. n /\ A[k] \in Nat
       /\ (k - 1) + 1 = k /\ A[k] - 1 < A[k]
  BY <1>1, <1>2 DEF n
<1>11. Between(k - 1, A[k] - 1)
  <2>1. k - 1 # 0 => k - 1 \in 1 .. n /\ A[k - 1] < A[k] /\ A[k - 1] \in Nat
    BY <1>1, <1>2, <1>10
  <2>2. k - 1 # 0 => A[k - 1] <= A[k] - 1
    BY <1>10, <2>1
  <2> QED BY <1>10, <2>2
<1>12. Q[A[k] - 1] = R[A[k] - 1] * M[k - 1]
  BY <1>9, <1>10, <1>11
<1>13. Passed(s, A, m, k) = R[A[k] - 1] * M[k - 1]
  BY DEF Passed, R, M, x
<1> QED BY <1>12, <1>13 DEF Q

-----------------------------------------------------------------------------
(***************************************************************************)
(* Permuting indices one axis at a time.                                   *)
(***************************************************************************)
\* Different axes of shape s, which q moves to axes of s.
Chosen(s, q, o, n) ==
  /\ s \in Seq(Nat) /\ n \in Nat
  /\ \A k \in 1 .. n : o[k] \in Axes(s) /\ Image(q, o[k]) \in Axes(s)
  /\ \A i, j \in 1 .. n : o[i] = o[j] => i = j

\* Cell c with the first k of the axes o permuted.
Partly(c, q, o, k) ==
  [b \in DOMAIN c |-> IF \E j \in 1 .. k : b = o[j] THEN c[Image(q, b)] ELSE c[b]]

\* To permute one axis more moves the position by its stride.
LEMMA PartlyMoves ==
  ASSUME NEW s, NEW q, NEW o, NEW n, Chosen(s, q, o, n), NEW c \in Cells(s), NEW k \in 1 .. n
  PROVE  /\ Offset(s, Partly(c, q, o, k - 1)) \in Nat /\ Offset(s, Partly(c, q, o, k)) \in Nat
         /\ Offset(s, Partly(c, q, o, k)) + c[o[k]] * Stride(s, o[k])
              = Offset(s, Partly(c, q, o, k - 1)) + c[Image(q, o[k])] * Stride(s, o[k])
<1> DEFINE x == Partly(c, q, o, k - 1)
           y == Partly(c, q, o, k)
           a == o[k]
<1>1. /\ s \in Seq(Nat) /\ n \in Nat
      /\ \A i \in 1 .. n : o[i] \in Axes(s) /\ Image(q, o[i]) \in Axes(s)
      /\ \A i, j \in 1 .. n : o[i] = o[j] => i = j
  BY DEF Chosen
<1>2. /\ c = [i \in Axes(s) |-> c[i]] /\ \A i \in Axes(s) : c[i] \in 0 .. s[i] - 1
  BY <1>1, CellsOfShape
<1>3. DOMAIN c = Axes(s) /\ \A i \in Axes(s) : c[i] \in Nat
  <2>1. \A i \in Axes(s) : s[i] \in Nat
    BY <1>1, ShapeFacts
  <2> QED BY <1>2, <2>1
<1>4. a \in Axes(s) /\ Image(q, a) \in Axes(s)
  BY <1>1
<1>5. \A b \in Axes(s) : /\ x[b] = IF \E j \in 1 .. k - 1 : b = o[j] THEN c[Image(q, b)] ELSE c[b]
                         /\ y[b] = IF \E j \in 1 .. k : b = o[j] THEN c[Image(q, b)] ELSE c[b]
  BY <1>3 DEF Partly
<1> HIDE DEF x, y
<1>6. \A b \in Axes(s) : x[b] \in Nat /\ y[b] \in Nat
  <2>1. ASSUME NEW b \in Axes(s), \E j \in 1 .. k : b = o[j] PROVE c[Image(q, b)] \in Nat
    <3>1. PICK j \in 1 .. k : b = o[j]
      BY <2>1
    <3>2. j \in 1 .. n
      BY <1>1
    <3> QED BY <1>1, <1>3, <3>1, <3>2
  <2>2. \A b \in Axes(s) : (\E j \in 1 .. k - 1 : b = o[j]) => \E j \in 1 .. k : b = o[j]
    BY <1>1
  <2> QED BY <1>3, <1>5, <2>1, <2>2
<1>7. ASSUME NEW b \in Axes(s) \ {a} PROVE y[b] = x[b]
  <2>1. (\E j \in 1 .. k : b = o[j]) <=> \E j \in 1 .. k - 1 : b = o[j]
    <3>1. \A j \in 1 .. k : j = k \/ j \in 1 .. k - 1
      BY <1>1
    <3>2. \A j \in 1 .. k - 1 : j \in 1 .. k
      BY <1>1
    <3> QED BY <3>1, <3>2
  <2> QED BY <1>5, <2>1
<1>8. x[a] = c[a]
  <2>1. \A j \in 1 .. k - 1 : a # o[j]
    <3>1. \A j \in 1 .. k - 1 : j \in 1 .. n /\ j # k
      BY <1>1
    <3> QED BY <1>1, <3>1
  <2> QED BY <1>4, <1>5, <2>1
<1>9. y[a] = c[Image(q, a)]
  <2>1. k \in 1 .. k
    BY <1>1
  <2> QED BY <1>4, <1>5, <2>1
<1> HIDE DEF a
<1>10. /\ Offset(s, x) \in Nat /\ Offset(s, y) \in Nat
       /\ Offset(s, y) + x[a] * Stride(s, a) = Offset(s, x) + y[a] * Stride(s, a)
  BY <1>1, <1>4, <1>6, <1>7, OneDigit
<1> QED BY <1>8, <1>9, <1>10 DEF x, y, a

\* From no axis permuted to all of them.
LEMMA PartlyEnds ==
  ASSUME NEW s, NEW q, NEW o, NEW n, Chosen(s, q, o, n), NEW c \in Cells(s),
         \A b \in Axes(s) : (\A k \in 1 .. n : b # o[k]) => Image(q, b) = b
  PROVE  Partly(c, q, o, 0) = c /\ Partly(c, q, o, n) = Permuted(c, q)
<1>1. c = [i \in Axes(s) |-> c[i]] /\ DOMAIN c = Axes(s)
  <2>1. c = [i \in Axes(s) |-> c[i]]
    BY CellsOfShape DEF Chosen
  <2> QED BY <2>1
<1>2. Partly(c, q, o, 0) = c
  <2>1. \A b \in DOMAIN c : ~ \E j \in 1 .. 0 : b = o[j]
    OBVIOUS
  <2>2. Partly(c, q, o, 0) = [b \in DOMAIN c |-> c[b]]
    BY <2>1 DEF Partly
  <2> QED BY <1>1, <2>2
<1>3. Partly(c, q, o, n) = Permuted(c, q)
  <2>1. ASSUME NEW b \in DOMAIN c
        PROVE  (IF \E j \in 1 .. n : b = o[j] THEN c[Image(q, b)] ELSE c[b]) = c[Image(q, b)]
    BY <1>1
  <2>2. Partly(c, q, o, n) = [b \in DOMAIN c |-> c[Image(q, b)]]
    BY <2>1 DEF Partly
  <2> QED BY <2>2, PermutedImage
<1> QED BY <1>2, <1>3

\* Axes of two shapes at the same places, and permutations that move them alike.
Parallel(s, out, A, o, n, p, q) ==
  /\ Chosen(s, p, A, n) /\ Chosen(out, q, o, n)
  /\ \A k \in 1 .. n : /\ out[o[k]] = s[A[k]] /\ Stride(out, o[k]) = Stride(s, A[k])
                       /\ \E j \in 1 .. n : Image(p, A[k]) = A[j] /\ Image(q, o[k]) = o[j]
  /\ \A a \in Axes(s) : (\A k \in 1 .. n : a # A[k]) => Image(p, a) = a
  /\ \A b \in Axes(out) : (\A k \in 1 .. n : b # o[k]) => Image(q, b) = b

\* Cells at one position are permuted to cells at one position.
LEMMA PermutedPositions ==
  ASSUME NEW s, NEW out, NEW A, NEW o, NEW n, NEW p, NEW q, Parallel(s, out, A, o, n, p, q),
         NEW d \in Cells(s), NEW c \in Cells(out), Offset(out, c) = Offset(s, d)
  PROVE  Offset(out, Permuted(c, q)) = Offset(s, Permuted(d, p))
<1>1. /\ Chosen(s, p, A, n) /\ Chosen(out, q, o, n)
      /\ s \in Seq(Nat) /\ out \in Seq(Nat) /\ n \in Nat
      /\ \A k \in 1 .. n : A[k] \in Axes(s) /\ o[k] \in Axes(out)
  BY DEF Parallel, Chosen
<1>2. \A k \in 1 .. n : c[o[k]] = d[A[k]]
  <2>1. ASSUME NEW k \in 1 .. n PROVE c[o[k]] = d[A[k]]
    <3>1. /\ A[k] \in Axes(s) /\ o[k] \in Axes(out)
          /\ out[o[k]] = s[A[k]] /\ Stride(out, o[k]) = Stride(s, A[k])
      BY <1>1 DEF Parallel
    <3> QED BY <1>1, <3>1, DigitsAgree, SMTT(30)
  <2> QED BY <2>1
<1> DEFINE B == {k \in 0 .. n : Offset(out, Partly(c, q, o, k)) = Offset(s, Partly(d, p, A, k))}
<1>3. /\ Partly(c, q, o, 0) = c /\ Partly(c, q, o, n) = Permuted(c, q)
      /\ Partly(d, p, A, 0) = d /\ Partly(d, p, A, n) = Permuted(d, p)
  <2>1. Partly(c, q, o, 0) = c /\ Partly(c, q, o, n) = Permuted(c, q)
    BY PartlyEnds DEF Parallel
  <2>2. Partly(d, p, A, 0) = d /\ Partly(d, p, A, n) = Permuted(d, p)
    BY PartlyEnds DEF Parallel
  <2> QED BY <2>1, <2>2
<1>4. 0 \in B
  BY <1>1, <1>3
<1>5. ASSUME NEW k \in 0 + 1 .. n, k - 1 \in B PROVE k \in B
  <2>1. k \in 1 .. n /\ k \in 0 .. n
    BY <1>1
  <2>2. PICK j \in 1 .. n : Image(p, A[k]) = A[j] /\ Image(q, o[k]) = o[j]
    BY <2>1 DEF Parallel
  <2>3. /\ Offset(out, Partly(c, q, o, k - 1)) \in Nat /\ Offset(out, Partly(c, q, o, k)) \in Nat
        /\ Offset(out, Partly(c, q, o, k)) + c[o[k]] * Stride(out, o[k])
             = Offset(out, Partly(c, q, o, k - 1)) + c[Image(q, o[k])] * Stride(out, o[k])
    BY <1>1, <2>1, PartlyMoves
  <2>4. /\ Offset(s, Partly(d, p, A, k - 1)) \in Nat /\ Offset(s, Partly(d, p, A, k)) \in Nat
        /\ Offset(s, Partly(d, p, A, k)) + d[A[k]] * Stride(s, A[k])
             = Offset(s, Partly(d, p, A, k - 1)) + d[Image(p, A[k])] * Stride(s, A[k])
    BY <1>1, <2>1, PartlyMoves
  <2>5. c[o[k]] = d[A[k]] /\ c[Image(q, o[k])] = d[Image(p, A[k])]
    BY <1>2, <2>1, <2>2
  <2>6. Stride(out, o[k]) = Stride(s, A[k])
    BY <2>1 DEF Parallel
  <2>7. Offset(out, Partly(c, q, o, k - 1)) = Offset(s, Partly(d, p, A, k - 1))
    BY <1>5
  <2>8. /\ d[A[k]] \in Nat /\ d[Image(p, A[k])] \in Nat /\ Stride(s, A[k]) \in Nat
    <3>1. A[k] \in Axes(s) /\ A[j] \in Axes(s)
      BY <1>1, <2>1
    <3>2. \A a \in Axes(s) : d[a] \in 0 .. s[a] - 1 /\ s[a] \in Nat
      BY <1>1, CellsOfShape, ShapeFacts
    <3>3. Stride(s, A[k]) \in Nat
      BY <1>1, <3>1, SizeSplits
    <3> QED BY <2>2, <3>1, <3>2, <3>3
  <2> DEFINE v == d[A[k]] * Stride(s, A[k])
             w == d[Image(p, A[k])] * Stride(s, A[k])
             e == Offset(out, Partly(c, q, o, k))
             f == Offset(s, Partly(d, p, A, k))
             z == Offset(s, Partly(d, p, A, k - 1))
  <2>9. v \in Nat /\ w \in Nat
    BY <2>8
  <2>10. e + v = z + w /\ f + v = z + w /\ e \in Nat /\ f \in Nat /\ z \in Nat
    BY <2>3, <2>4, <2>5, <2>6, <2>7
  <2>11. e = f
    <3> HIDE DEF v, w, e, f, z
    <3> QED BY <2>9, <2>10
  <2> QED BY <2>1, <2>11
<1>6. \A k \in 0 .. n : k \in B
  <2>1. 0 \in Nat /\ 0 <= n
    BY <1>1
  <2> HIDE DEF B
  <2> QED BY <1>1, <1>4, <1>5, <2>1, StepByStep
<1>7. n \in B
  <2>1. n \in 0 .. n
    BY <1>1
  <2> QED BY <1>6, <2>1
<1> QED BY <1>3, <1>7

-----------------------------------------------------------------------------
(***************************************************************************)
(* The first place for each axis.                                          *)
(***************************************************************************)
\* o is a place for each of the axes A of extent m.
Finds(s, A, m, out, o) ==
  /\ \A k \in 1 .. Len(A) : /\ o[k] \in Axes(out) /\ out[o[k]] = m
                            /\ Products(out, Axes(out))[o[k] - 1] = Passed(s, A, m, k)
  /\ \A i, j \in 1 .. Len(A) : o[i] = o[j] => i = j

\* In order, the places of different axes differ.
LEMMA PlacesFind ==
  ASSUME NEW s, NEW A, ListsAxes(A, s), NEW m, NEW out \in Seq(Nat),
         NEW o \in Places(s, A, m, out)
  PROVE  Finds(s, A, m, out, o)
<1> DEFINE n == Len(A)
<1>1. n \in Nat
  BY DEF ListsAxes
<1>2. /\ o \in [1 .. n -> Axes(out)]
      /\ \A k \in 1 .. n : /\ out[o[k]] = m
                           /\ Products(out, Axes(out))[o[k] - 1] = Passed(s, A, m, k)
      /\ \A k \in 1 .. n - 1 : o[k] < o[k + 1]
  BY DEF Places
<1>3. \A k \in 1 .. n : o[k] \in Nat
  BY <1>2, ShapeFacts
<1>4. ASSUME NEW i \in 1 .. n, NEW j \in 1 .. n, i < j PROVE o[i] < o[j]
  <2> DEFINE B == {k \in i + 1 .. n : o[i] < o[k]}
  <2>1. i + 1 \in B
    <3>1. i \in 1 .. n - 1 /\ i + 1 \in i + 1 .. n
      BY <1>1, <1>4
    <3> QED BY <1>2, <3>1
  <2>2. ASSUME NEW k \in (i + 1) + 1 .. n, k - 1 \in B PROVE k \in B
    <3>1. k - 1 \in 1 .. n - 1 /\ k - 1 \in 1 .. n /\ k \in 1 .. n /\ k \in i + 1 .. n
          /\ (k - 1) + 1 = k
      BY <1>1
    <3>2. o[k - 1] < o[k]
      <4>1. o[k - 1] < o[(k - 1) + 1]
        BY <1>2, <3>1
      <4> QED BY <3>1, <4>1
    <3>3. o[i] < o[k - 1]
      BY <2>2
    <3>4. o[i] \in Nat /\ o[k - 1] \in Nat /\ o[k] \in Nat
      BY <1>3, <3>1
    <3> QED BY <3>1, <3>2, <3>3, <3>4
  <2>3. \A k \in i + 1 .. n : k \in B
    <3>1. i + 1 \in Nat /\ i + 1 <= n
      BY <1>1, <1>4
    <3> HIDE DEF B, n
    <3> QED BY <1>1, <2>1, <2>2, <3>1, StepByStep
  <2>4. j \in i + 1 .. n
    BY <1>1, <1>4
  <2> QED BY <2>3, <2>4
<1>5. ASSUME NEW i \in 1 .. n, NEW j \in 1 .. n, o[i] = o[j] PROVE i = j
  <2>1. ~ (i < j)
    <3>1. i < j => o[i] < o[j]
      BY <1>4
    <3> QED BY <1>3, <1>5, <3>1
  <2>2. ~ (j < i)
    <3>1. j < i => o[j] < o[i]
      BY <1>4
    <3> QED BY <1>3, <1>5, <3>1
  <2> QED BY <1>1, <2>1, <2>2
<1> QED BY <1>2, <1>5 DEF Finds

\* The first place for each axis is a place.
LEMMA FirstIsPlace ==
  ASSUME NEW s, NEW A, ListsAxes(A, s), NEW m, NEW out \in Seq(Nat),
         NEW P, P = Places(s, A, m, out), P # {}
  PROVE  First(P, Len(A)) \in P
<1> DEFINE n == Len(A)
           Least(k, i) == (\E r \in P : i = r[k]) /\ \A r \in P : i <= r[k]
           f == [k \in 1 .. n |-> CHOOSE i : Least(k, i)]
<1>1. n \in Nat
  BY DEF ListsAxes
<1>2. \A r \in P :
        /\ r \in [1 .. n -> Axes(out)]
        /\ \A k \in 1 .. n : /\ out[r[k]] = m
                             /\ Products(out, Axes(out))[r[k] - 1] = Passed(s, A, m, k)
        /\ \A k \in 1 .. n - 1 : r[k] < r[k + 1]
        /\ Products(out, r[n] + 1 .. Len(out))[Len(out)]
             = Products(s, A[n] + 1 .. Len(s))[Len(s)]
  BY DEF Places
<1>3. Len(out) \in Nat /\ Axes(out) = 1 .. Len(out) /\ Axes(out) \subseteq Nat
  BY ShapeFacts
<1>4. SUFFICES \E o \in P : \A r \in P : \A k \in 1 .. n : o[k] <= r[k]
  BY DEF First
<1>5. CASE n = 0
  BY <1>5
<1>6. CASE n # 0
  <2>1. ASSUME NEW k \in 1 .. n PROVE Least(k, f[k])
    <3> DEFINE K == {r[k] : r \in P}
    <3>1. K \in SUBSET (0 .. Len(out)) /\ K # {}
      BY <1>2, <1>3
    <3>2. PICK i \in K : \A b \in K : i <= b
      <4> HIDE DEF K
      <4> QED BY <1>3, <3>1, LeastFailure
    <3>3. Least(k, i)
      BY <3>2
    <3>4. f[k] = CHOOSE j : Least(k, j)
      OBVIOUS
    <3> HIDE DEF Least, f
    <3> QED BY <3>3, <3>4
  <2>2. f = [k \in 1 .. n |-> f[k]]
    <3> HIDE DEF Least
    <3>1. DOMAIN f = 1 .. n /\ \A k \in 1 .. n : f[k] = CHOOSE i : Least(k, i)
      OBVIOUS
    <3>2. [k \in 1 .. n |-> f[k]] = [k \in 1 .. n |-> CHOOSE i : Least(k, i)]
      BY <3>1, Zenon
    <3> QED BY <3>2, Zenon
  <2> HIDE DEF f
  <2>3. \A k \in 1 .. n : f[k] \in Axes(out) /\ f[k] \in Nat
    BY <1>2, <1>3, <2>1
  <2>4. f \in [1 .. n -> Axes(out)]
    BY <2>2, <2>3
  <2>5. \A k \in 1 .. n : /\ out[f[k]] = m
                          /\ Products(out, Axes(out))[f[k] - 1] = Passed(s, A, m, k)
    <3>1. ASSUME NEW k \in 1 .. n
          PROVE  /\ out[f[k]] = m
                 /\ Products(out, Axes(out))[f[k] - 1] = Passed(s, A, m, k)
      <4>1. PICK r \in P : f[k] = r[k]
        BY <2>1
      <4>2. out[r[k]] = m /\ Products(out, Axes(out))[r[k] - 1] = Passed(s, A, m, k)
        BY <1>2
      <4> QED BY <4>1, <4>2
    <3> QED BY <3>1
  <2>6. ASSUME NEW k \in 1 .. n - 1 PROVE f[k] < f[k + 1]
    <3>1. k \in 1 .. n /\ k + 1 \in 1 .. n
      BY <1>1
    <3>2. PICK r \in P : f[k + 1] = r[k + 1]
      BY <2>1, <3>1
    <3>3. f[k] <= r[k]
      BY <2>1, <3>1
    <3>4. r[k] < r[k + 1] /\ r[k] \in Nat
      BY <1>2, <1>3, <3>1
    <3> QED BY <2>3, <3>1, <3>2, <3>3, <3>4
  <2>7. Products(out, f[n] + 1 .. Len(out))[Len(out)]
          = Products(s, A[n] + 1 .. Len(s))[Len(s)]
    <3>1. n \in 1 .. n
      BY <1>1, <1>6
    <3>2. PICK r \in P : f[n] = r[n]
      BY <2>1, <3>1
    <3>3. Products(out, r[n] + 1 .. Len(out))[Len(out)]
            = Products(s, A[n] + 1 .. Len(s))[Len(s)]
      BY <1>2
    <3> QED BY <3>2, <3>3
  <2>8. f \in P
    BY <2>4, <2>5, <2>6, <2>7 DEF Places
  <2>9. \A r \in P : \A k \in 1 .. n : f[k] <= r[k]
    BY <2>1
  <2> QED BY <2>8, <2>9
<1> QED BY <1>5, <1>6

-----------------------------------------------------------------------------
(***************************************************************************)
(* Reshaped arrays.                                                        *)
(***************************************************************************)
\* h is the group g of shape s, its axes A carried to their places o by to.
Carried(g, s, out, A, o, to, h) ==
  /\ s \in Seq(Nat) /\ out \in Seq(Nat) /\ g # None /\ Fits(g, Len(s)) /\ h # None
  /\ ListsAxes(A, s)
  /\ \A a \in Support(g) : \E k \in 1 .. Len(A) : A[k] = a
  /\ \A k \in 1 .. Len(A) : A[k] \in Support(g) /\ o[k] \in Axes(out) /\ to[A[k]] = o[k]
  /\ \A i, j \in 1 .. Len(A) : o[i] = o[j] => i = j
  /\ h = Remap(g, to)

\* The group that is carried to the places fits the new shape.
LEMMA CarriedFits ==
  ASSUME NEW g, NEW s, NEW out, NEW A, NEW o, NEW to, NEW h, Carried(g, s, out, A, o, to, h)
  PROVE  /\ WellFormed(h) /\ Support(h) \subseteq Axes(out)
         /\ \A b : b \in Support(h) <=> \E a \in Support(g) : b = to[a]
         /\ \A q \in h.perms : \E p \in g.perms : Carries(Support(g), to, p, q)
<1>1. /\ WellFormed(g) /\ Support(g) \subseteq 1 .. Len(s) /\ h # None /\ h = Remap(g, to)
      /\ out \in Seq(Nat)
  BY DEF Carried, Fits
<1>2. \A a \in Support(g) : to[a] \in Axes(out)
  BY DEF Carried
<1>3. \A a, b \in Support(g) : to[a] = to[b] => a = b
  BY DEF Carried
<1>4. Len(out) \in Nat /\ Axes(out) = 1 .. Len(out)
  BY <1>1, ShapeFacts
<1>5. /\ WellFormed(h)
      /\ \A b : b \in Support(h) <=> \E a \in Support(g) : b = to[a]
      /\ \A q \in h.perms : \E p \in g.perms : Carries(Support(g), to, p, q)
  <2>1. \A a \in Support(g) : to[a] \in 1 .. Len(out)
    BY <1>2, <1>4
  <2> QED BY <1>1, <1>3, <1>4, <2>1, RemapFits
<1> QED BY <1>2, <1>5

\* The permutations of g and of h move the axes and their places alike.
LEMMA CarriedParallel ==
  ASSUME NEW g, NEW s, NEW out, NEW A, NEW o, NEW to, NEW h, Carried(g, s, out, A, o, to, h),
         NEW p \in g.perms, NEW q, Carries(Support(g), to, p, q),
         \A k \in 1 .. Len(A) : out[o[k]] = s[A[k]] /\ Stride(out, o[k]) = Stride(s, A[k])
  PROVE  Parallel(s, out, A, o, Len(A), p, q)
<1> DEFINE n == Len(A)
           S == Support(g)
<1>1. /\ s \in Seq(Nat) /\ out \in Seq(Nat) /\ S \subseteq Axes(s)
      /\ \A a \in S : \E k \in 1 .. n : A[k] = a
      /\ \A k \in 1 .. n : A[k] \in S /\ o[k] \in Axes(out) /\ to[A[k]] = o[k]
      /\ \A i, j \in 1 .. n : o[i] = o[j] => i = j
  <2>1. s \in Seq(Nat) /\ Support(g) \subseteq 1 .. Len(s)
    BY DEF Carried, Fits
  <2>2. Axes(s) = 1 .. Len(s)
    BY <2>1, ShapeFacts
  <2> QED BY <2>1, <2>2 DEF Carried
<1>2. n \in Nat /\ \A i, j \in 1 .. n : A[i] = A[j] => i = j
  <2>1. n \in Nat /\ \A i \in 1 .. n : A[i] \in Axes(s)
    BY DEF Carried, ListsAxes
  <2>2. \A i, j \in 1 .. n : i < j => A[i] < A[j]
    BY DEF Carried, ListsAxes
  <2>3. \A i \in 1 .. n : A[i] \in Nat
    BY <1>1, <2>1, ShapeFacts
  <2>4. ASSUME NEW i \in 1 .. n, NEW j \in 1 .. n, A[i] = A[j] PROVE i = j
    <3>1. ~ (i < j) /\ ~ (j < i)
      <4>1. i < j => A[i] < A[j]
        BY <2>2
      <4>2. j < i => A[j] < A[i]
        BY <2>2
      <4>3. A[i] \in Nat
        BY <2>3
      <4> QED BY <2>4, <4>1, <4>2, <4>3
    <3> QED BY <2>1, <3>1
  <2> QED BY <2>1, <2>4
<1>3. DOMAIN p = S /\ \A a \in S : p[a] \in S
  <2>1. WellFormed(g)
    BY DEF Carried, Fits
  <2>2. p \in [S -> S]
    BY <2>1 DEF WellFormed
  <2> HIDE DEF S
  <2> QED BY <2>2
<1>4. /\ \A b : b \in DOMAIN q <=> \E a \in S : b = to[a]
      /\ \A a \in S : q[to[a]] = to[p[a]]
  BY DEF Carries
<1> HIDE DEF S, n
<1>5. ASSUME NEW k \in 1 .. n
      PROVE  /\ Image(p, A[k]) \in S /\ Image(q, o[k]) = to[Image(p, A[k])]
  <2>1. A[k] \in DOMAIN p /\ p[A[k]] \in S
    BY <1>1, <1>3
  <2>2. o[k] \in DOMAIN q /\ q[o[k]] = to[p[A[k]]]
    BY <1>1, <1>4
  <2> QED BY <2>1, <2>2 DEF Image
<1>6. \A a \in S : to[a] \in Axes(out)
  BY <1>1
<1>7. Chosen(s, p, A, n)
  BY <1>1, <1>2, <1>5 DEF Chosen
<1>8. Chosen(out, q, o, n)
  <2>1. ASSUME NEW k \in 1 .. n PROVE o[k] \in Axes(out) /\ Image(q, o[k]) \in Axes(out)
    <3>1. Image(p, A[k]) \in S /\ Image(q, o[k]) = to[Image(p, A[k])]
      BY <1>5
    <3>2. to[Image(p, A[k])] \in Axes(out)
      BY <1>6, <3>1
    <3>3. o[k] \in Axes(out)
      BY <1>1
    <3> QED BY <3>1, <3>2, <3>3
  <2> QED BY <1>1, <1>2, <2>1 DEF Chosen
<1>9. \A k \in 1 .. n : \E j \in 1 .. n : Image(p, A[k]) = A[j] /\ Image(q, o[k]) = o[j]
  <2>1. ASSUME NEW k \in 1 .. n
        PROVE  \E j \in 1 .. n : Image(p, A[k]) = A[j] /\ Image(q, o[k]) = o[j]
    <3>1. PICK j \in 1 .. n : A[j] = Image(p, A[k])
      BY <1>1, <1>5
    <3>2. Image(q, o[k]) = o[j]
      <4>1. Image(q, o[k]) = to[Image(p, A[k])]
        BY <1>5
      <4>2. Image(q, o[k]) = to[A[j]]
        BY <3>1, <4>1
      <4>3. to[A[j]] = o[j]
        BY <1>1
      <4> QED BY <4>2, <4>3
    <3> QED BY <3>1, <3>2
  <2> QED BY <2>1
<1>10. ASSUME NEW a \in Axes(s), \A k \in 1 .. n : a # A[k] PROVE Image(p, a) = a
  <2>1. a \notin DOMAIN p
    BY <1>1, <1>3, <1>10
  <2> QED BY <2>1 DEF Image
<1>11. ASSUME NEW b \in Axes(out), \A k \in 1 .. n : b # o[k] PROVE Image(q, b) = b
  <2>1. b \notin DOMAIN q
    <3>1. \A a \in S : b # to[a]
      BY <1>1, <1>11
    <3> QED BY <1>4, <3>1
  <2> QED BY <2>1 DEF Image
<1>12. \A k \in 1 .. n : out[o[k]] = s[A[k]] /\ Stride(out, o[k]) = Stride(s, A[k])
  BY DEF n
<1> QED BY <1>7, <1>8, <1>9, <1>10, <1>11, <1>12 DEF Parallel, n

\* The data of a reshaped array, cell by cell in row-major order.
Reshapes(s, val, out, data) ==
  /\ s \in Seq(Nat) /\ out \in Seq(Nat) /\ Size(out) = Size(s)
  /\ DOMAIN val = Cells(s) /\ DOMAIN data = Cells(out)
  /\ \A c \in Cells(out) :
       data[c] = val[CHOOSE d \in Cells(s) : Offset(s, d) = Offset(out, c)]

\* A cell of the result is read from the one cell at its position.
LEMMA ReshapedReads ==
  ASSUME NEW s, NEW val, NEW out, NEW data, Reshapes(s, val, out, data),
         NEW c \in Cells(out)
  PROVE  /\ \E d \in Cells(s) : Offset(s, d) = Offset(out, c)
         /\ \A d \in Cells(s) : Offset(s, d) = Offset(out, c) => data[c] = val[d]
<1>1. s \in Seq(Nat) /\ out \in Seq(Nat) /\ Size(out) = Size(s)
  BY DEF Reshapes
<1> DEFINE e == CHOOSE d \in Cells(s) : Offset(s, d) = Offset(out, c)
<1>2. \E d \in Cells(s) : Offset(s, d) = Offset(out, c)
  <2>1. Offset(out, c) \in Nat /\ Offset(out, c) < Size(s)
    BY <1>1, DigitsPlace
  <2> QED BY <1>1, <2>1, CellAt
<1>3. e \in Cells(s) /\ Offset(s, e) = Offset(out, c)
  BY <1>2
<1>4. data[c] = val[e]
  BY DEF Reshapes
<1> HIDE DEF e
<1>5. \A d \in Cells(s) : Offset(s, d) = Offset(out, c) => d = e
  BY <1>1, <1>3, OneCell
<1> QED BY <1>2, <1>4, <1>5

\* Cells that are exchanged in the result are read from cells that are exchanged.
LEMMA ReshapedSymmetry ==
  ASSUME NEW s, NEW val, NEW out, NEW data, Reshapes(s, val, out, data),
         NEW S \in SUBSET Axes(s), NEW p \in [S -> S], Symmetric(s, val, p),
         NEW q, NEW A, NEW o, NEW n, Parallel(s, out, A, o, n, p, q),
         NEW c \in Cells(out), Permuted(c, q) \in Cells(out)
  PROVE  data[Permuted(c, q)] = data[c]
<1>1. s \in Seq(Nat) /\ out \in Seq(Nat) /\ DOMAIN val = Cells(s)
  BY DEF Reshapes
<1>2. PICK d \in Cells(s) : Offset(s, d) = Offset(out, c)
  BY ReshapedReads
<1>3. data[c] = val[d]
  BY <1>2, ReshapedReads
<1>4. Permuted(s, p) = s /\ val[Permuted(d, p)] = val[d]
  BY <1>1 DEF Symmetric
<1>5. Permuted(d, p) \in Cells(s)
  BY <1>1, <1>4, PermutedCells
<1>6. Offset(out, Permuted(c, q)) = Offset(s, Permuted(d, p))
  BY <1>2, PermutedPositions
<1>7. data[Permuted(c, q)] = val[Permuted(d, p)]
  BY <1>5, <1>6, ReshapedReads
<1> QED BY <1>3, <1>4, <1>7

-----------------------------------------------------------------------------
\* The axes A have one extent, and their places come after as many cells as they.
InPlace(s, out, A, o) ==
  /\ \A k \in 1 .. Len(A) :
       /\ out[o[k]] = s[A[k]]
       /\ Products(out, Axes(out))[o[k] - 1] = Products(s, Axes(s))[A[k] - 1]
  /\ \A i, j \in 1 .. Len(A) : s[A[i]] = s[A[j]]

\* What is carried to places of the same extents and strides is true of the result.
LEMMA ReshapedHolds ==
  ASSUME NEW g, NEW s, NEW val, NEW out, NEW data, NEW A, NEW o, NEW to, NEW h,
         Carried(g, s, out, A, o, to, h), InPlace(s, out, A, o),
         Reshapes(s, val, out, data), HoldsFor(g, s, val)
  PROVE  HoldsFor(h, out, data)
<1> DEFINE S == Support(g)
           T == Support(h)
<1>1. /\ s \in Seq(Nat) /\ out \in Seq(Nat) /\ Size(out) = Size(s)
      /\ DOMAIN val = Cells(s) /\ DOMAIN data = Cells(out)
  BY DEF Reshapes
<1>2. /\ WellFormed(h) /\ T \subseteq Axes(out)
      /\ \A b : b \in T <=> \E a \in S : b = to[a]
      /\ \A q \in h.perms : \E p \in g.perms : Carries(S, to, p, q)
  BY CarriedFits
<1>3. /\ WellFormed(g) /\ S \subseteq Axes(s)
  <2>1. WellFormed(g) /\ Support(g) \subseteq 1 .. Len(s)
    BY DEF Carried, Fits
  <2> QED BY <1>1, <2>1, ShapeFacts
<1>4. \A a \in S : \E k \in 1 .. Len(A) : a = A[k] /\ to[a] = o[k]
  BY DEF Carried
<1>5. ASSUME NEW q \in h.perms PROVE Symmetric(out, data, q)
  <2>1. PICK p \in g.perms : Carries(S, to, p, q)
    BY <1>2
  <2>2. p \in [S -> S] /\ Symmetric(s, val, p)
    BY <1>3 DEF WellFormed, HoldsFor
  <2>3. q \in [T -> T]
    BY <1>2 DEF WellFormed
  <2>4. \A a \in S : q[to[a]] = to[p[a]]
    BY <2>1 DEF Carries
  <2> HIDE DEF S, T
  <2>5. Permuted(out, q) = out
    <3>1. \A a, b \in S : out[to[a]] = out[to[b]]
      <4>1. ASSUME NEW a \in S, NEW b \in S PROVE out[to[a]] = out[to[b]]
        <5>1. PICK i \in 1 .. Len(A) : a = A[i] /\ to[a] = o[i]
          BY <1>4
        <5>2. PICK j \in 1 .. Len(A) : b = A[j] /\ to[b] = o[j]
          BY <1>4
        <5>3. out[o[i]] = s[A[i]] /\ out[o[j]] = s[A[j]] /\ s[A[i]] = s[A[j]]
          BY DEF InPlace
        <5> QED BY <5>1, <5>2, <5>3
      <4> QED BY <4>1
    <3>2. \A b \in T : out[q[b]] = out[b]
      <4>1. ASSUME NEW b \in T PROVE out[q[b]] = out[b]
        <5>1. PICK a \in S : b = to[a]
          BY <1>2
        <5>2. p[a] \in S
          BY <2>2
        <5> QED BY <2>4, <3>1, <5>1, <5>2
      <4> QED BY <4>1
    <3>3. DOMAIN q = T
      BY <2>3
    <3>4. \A k \in Axes(out) : out[Image(q, k)] = out[k]
      BY <3>2, <3>3 DEF Image
    <3>5. out = [k \in Axes(out) |-> out[k]] /\ DOMAIN out = Axes(out)
      BY <1>1, ShapeFacts
    <3>6. Permuted(out, q) = [k \in Axes(out) |-> out[Image(q, k)]]
      BY <3>5, PermutedImage
    <3>7. [k \in Axes(out) |-> out[Image(q, k)]] = [k \in Axes(out) |-> out[k]]
      BY <3>4
    <3> QED BY <3>5, <3>6, <3>7
  <2>6. ASSUME NEW c \in Cells(out) PROVE data[Permuted(c, q)] = data[c]
    <3>1. Permuted(c, q) \in Cells(out)
      BY <1>1, <1>2, <2>3, <2>5, PermutedCells
    <3>2. Size(s) # 0
      <4>1. Offset(out, c) \in Nat /\ Offset(out, c) < Size(s)
        BY <1>1, DigitsPlace
      <4> QED BY <4>1
    <3>3. ASSUME NEW k \in 1 .. Len(A)
          PROVE  out[o[k]] = s[A[k]] /\ Stride(out, o[k]) = Stride(s, A[k])
      <4>1. /\ out[o[k]] = s[A[k]]
            /\ Products(out, Axes(out))[o[k] - 1] = Products(s, Axes(s))[A[k] - 1]
        BY DEF InPlace
      <4>2. A[k] \in Axes(s) /\ o[k] \in Axes(out)
        BY DEF Carried, ListsAxes
      <4> QED BY <1>1, <3>2, <4>1, <4>2, StridesAgree
    <3>4. Parallel(s, out, A, o, Len(A), p, q)
      BY <2>1, <3>3, CarriedParallel DEF S
    <3> QED BY <1>3, <2>2, <3>1, <3>4, ReshapedSymmetry
  <2> QED BY <1>1, <2>5, <2>6 DEF Symmetric
<1> QED BY <1>2, <1>5 DEF HoldsFor

\* transport_reshape() carries every axis of the group to a place of its own, with
\* as many cells before it if all of them have one extent.
LEMMA ReshapeRule ==
  ASSUME NEW s \in Seq(Nat), NEW out \in Seq(Nat), NEW g, Fits(g, Len(s)),
         NEW h, h = TransportReshape(g, s, out), h # None
  PROVE  \E A, o, to : /\ Carried(g, s, out, A, o, to, h)
                       /\ SameExtents(g, s) => InPlace(s, out, A, o)
<1>1. g # None
  BY DEF TransportReshape
<1> DEFINE S == Support(g)
           A == Sorted(S)
           m == s[g.axes[1]]
           P == Places(s, A, m, out)
           o == First(P, Len(A))
           to == [a \in S |-> o[CHOOSE k \in Axes(A) : A[k] = a]]
<1>2. P # {} /\ h = Remap(g, to)
  BY <1>1 DEF TransportReshape
<1>3. S \subseteq Axes(s) /\ WellFormed(g)
  BY <1>1, ShapeFacts DEF Fits
<1>4. /\ ListsAxes(A, s)
      /\ \A a \in S : \E k \in 1 .. Len(A) : A[k] = a
      /\ \A k \in 1 .. Len(A) : A[k] \in S
  <2> HIDE DEF S
  <2> QED BY <1>3, SupportListed
<1>5. \A a \in S : to[a] = o[CHOOSE k \in Axes(A) : A[k] = a]
  OBVIOUS
<1> HIDE DEF to, o, P, m, A, S
<1>6. o \in P
  BY <1>2, <1>4, FirstIsPlace DEF o, P
<1>7. Finds(s, A, m, out, o)
  BY <1>4, <1>6, PlacesFind DEF P
<1>8. /\ Axes(A) = 1 .. Len(A) /\ \A i, j \in 1 .. Len(A) : A[i] = A[j] => i = j
  <2>1. /\ Len(A) \in Nat /\ Axes(A) = 1 .. Len(A)
        /\ \A i, j \in 1 .. Len(A) : i < j => A[i] < A[j]
        /\ \A i \in 1 .. Len(A) : A[i] \in Axes(s)
    BY <1>4 DEF ListsAxes
  <2>2. ASSUME NEW i \in 1 .. Len(A), NEW j \in 1 .. Len(A), A[i] = A[j] PROVE i = j
    <3>1. i < j => A[i] < A[j]
      BY <2>1
    <3>2. j < i => A[j] < A[i]
      BY <2>1
    <3>3. A[i] \in Nat
      BY <2>1, ShapeFacts
    <3> QED BY <2>1, <2>2, <3>1, <3>2, <3>3
  <2> QED BY <2>1, <2>2
<1>9. ASSUME NEW k \in 1 .. Len(A) PROVE to[A[k]] = o[k]
  <2>1. (CHOOSE i \in 1 .. Len(A) : A[i] = A[k]) = k
    BY <1>8
  <2>2. A[k] \in S
    BY <1>4
  <2> QED BY <1>5, <1>8, <2>1, <2>2
<1>10. Carried(g, s, out, A, o, to, h)
  <2>1. /\ \A k \in 1 .. Len(A) : o[k] \in Axes(out)
        /\ \A i, j \in 1 .. Len(A) : o[i] = o[j] => i = j
    BY <1>7 DEF Finds
  <2> QED BY <1>1, <1>2, <1>4, <1>9, <2>1 DEF Carried, S
<1>11. ASSUME SameExtents(g, s) PROVE InPlace(s, out, A, o)
  <2>1. \A a, b \in S : s[a] = s[b]
    BY <1>1, <1>11 DEF SameExtents, S
  <2>2. ASSUME NEW k \in 1 .. Len(A) PROVE s[A[k]] = m
    <3>1. A[k] \in S
      BY <1>4
    <3>2. g.axes[1] \in S
      <4>1. g.axes \in Seq(Nat) /\ S = {g.axes[i] : i \in DOMAIN g.axes}
        BY <1>3 DEF WellFormed, S, Support, Range
      <4>2. Len(g.axes) \in Nat /\ DOMAIN g.axes = 1 .. Len(g.axes)
        BY <4>1
      <4>3. Len(g.axes) # 0
        BY <3>1, <4>1, <4>2
      <4>4. 1 \in DOMAIN g.axes
        BY <4>2, <4>3
      <4> QED BY <4>1, <4>4
    <3> QED BY <2>1, <3>1, <3>2 DEF m
  <2>3. ASSUME NEW k \in 1 .. Len(A)
        PROVE  /\ out[o[k]] = s[A[k]]
               /\ Products(out, Axes(out))[o[k] - 1] = Products(s, Axes(s))[A[k] - 1]
    <3>1. out[o[k]] = m /\ Products(out, Axes(out))[o[k] - 1] = Passed(s, A, m, k)
      BY <1>7 DEF Finds
    <3>2. Passed(s, A, m, k) = Products(s, Axes(s))[A[k] - 1]
      BY <1>4, <2>2, PassedIs
    <3> QED BY <2>2, <3>1, <3>2
  <2> QED BY <2>2, <2>3 DEF InPlace
<1> QED BY <1>10, <1>11

\* A reshape keeps tags true if all axes of the group have one extent.
THEOREM ReshapeKeepsTags ==
  ASSUME Honest(array), NEW out \in Seq(Nat), Reshape(out)
  PROVE  Honest(array')
<1> DEFINE s == array.shape
           val == array.val
           g == array.tag
           h == TransportReshape(g, s, out)
           data == [c \in Cells(out) |->
                      val[CHOOSE d \in Cells(s) : Offset(s, d) = Offset(out, c)]]
<1>1. /\ s \in Seq(Nat) /\ DOMAIN val = Cells(s) /\ Fits(g, Len(s))
      /\ array.sound /\ g # None => HoldsFor(g, s, val)
  BY DEF Honest, Typed
<1>2. /\ Size(out) = Size(s)
      /\ Makes("reshape", out, data, h, SameExtents(g, s))
  BY DEF Reshape
<1>3. Reshapes(s, val, out, data)
  BY <1>1, <1>2 DEF Reshapes
<1>4. g # None \/ h = None
  BY DEF TransportReshape
<1>5. DOMAIN data = Cells(out)
  OBVIOUS
<1> HIDE DEF s, val, g, h, data
<1>6. CASE h = None
  <2>1. Fits(h, Len(out)) /\ (SameExtents(g, s) /\ array.sound /\ h # None => HoldsFor(h, out, data))
    BY <1>6 DEF Fits
  <2> QED BY <1>2, <1>5, <2>1, MakesHonest
<1>7. CASE h # None
  <2>1. PICK A, o, to : /\ Carried(g, s, out, A, o, to, h)
                        /\ SameExtents(g, s) => InPlace(s, out, A, o)
    <3>1. h = TransportReshape(g, s, out)
      BY DEF h
    <3> QED BY <1>1, <1>7, <3>1, ReshapeRule
  <2>2. Fits(h, Len(out))
    <3>1. WellFormed(h) /\ Support(h) \subseteq Axes(out)
      BY <2>1, CarriedFits
    <3> QED BY <3>1, ShapeFacts DEF Fits
  <2>3. ASSUME SameExtents(g, s), array.sound PROVE HoldsFor(h, out, data)
    <3>1. HoldsFor(g, s, val)
      BY <1>1, <1>4, <1>7, <2>3
    <3> QED BY <1>3, <2>1, <2>3, <3>1, ReshapedHolds
  <2> QED BY <1>2, <1>5, <2>2, <2>3, MakesHonest
<1> QED BY <1>6, <1>7

-----------------------------------------------------------------------------
(***************************************************************************)
(* Chains of operations.                                                   *)
(***************************************************************************)
\* Every operation keeps the array honest.
LEMMA NextHonest ==
  ASSUME Honest(array), Next
  PROVE  Honest(array')
<1>1. \A S, x : x \in Asked(S) => x \in S
  BY DEF Asked
<1>2. \A x \in Destinations : Honest(x)
  BY ArraysAssumption
<1>3. \A x \in Starts \cup {array} : Honest(x)
  BY ArraysAssumption
<1>4. ASSUME NEW order \in Asked(Bijection(All, All)), Transpose(order)
      PROVE  Honest(array')
  <2>1. order \in Bijection(All, All)
    BY <1>1
  <2> QED BY <1>4, <2>1, TransposeHonest
<1>5. ASSUME NEW out \in Asked(Shapes), Reshape(out) \/ BroadcastTo(out)
      PROVE  Honest(array')
  <2>1. out \in Seq(Nat)
    <3>1. out \in Shapes
      BY <1>1
    <3> QED BY <3>1, ShapesAssumption
  <2> QED BY <1>5, <2>1, ReshapeKeepsTags, BroadcastToKeepsTags
<1>6. ASSUME NEW N \in Asked(SUBSET (1 .. MaxRank)),
             N \subseteq 1 .. Rank + Cardinality(N), ExpandDims(N)
      PROVE  Honest(array')
  <2>1. N \in SUBSET (1 .. MaxRank)
    BY <1>1
  <2>2. IsFiniteSet(N)
    <3>1. IsFiniteSet(1 .. MaxRank)
      BY BoundsAssumption, FS_Interval
    <3> QED BY <2>1, <3>1, FS_Subset
  <2> QED BY <1>6, <2>2, ExpandDimsKeepsTags
<1>7. ASSUME NEW K \in Asked(SUBSET All \ {{}}),
             \/ Squeeze(K)
             \/ Flip(K)
             \/ \E keepdims \in BOOLEAN : Reduce(K, keepdims)
      PROVE  Honest(array')
  <2>1. K \in SUBSET All
    BY <1>1
  <2>2. CASE Squeeze(K)
    BY <2>1, <2>2, SqueezeKeepsTags
  <2>3. CASE Flip(K)
    BY <2>1, <2>3, FlipHonest
  <2>4. CASE \E keepdims \in BOOLEAN : Reduce(K, keepdims)
    BY <1>2, <2>1, <2>4, ReduceKeepsTags
  <2> QED BY <1>7, <2>2, <2>3, <2>4
<1>8. ASSUME NEW other \in Asked(Starts \cup {array}),
             \/ \E axis \in -Rank .. Rank - 1 : Concatenate(other, axis)
             \/ \E k \in 1 .. Rank + 1 : Stack(other, k)
             \/ Binary(other)
      PROVE  Honest(array')
  <2>1. Honest(other)
    <3>1. other \in Starts \cup {array}
      BY <1>1
    <3> QED BY <1>3, <3>1
  <2>2. CASE \E axis \in -Rank .. Rank - 1 : Concatenate(other, axis)
    BY <2>1, <2>2, ConcatenateKeepsTags
  <2>3. CASE \E k \in 1 .. Rank + 1 : Stack(other, k)
    BY <2>1, <2>3, StackKeepsTags
  <2>4. CASE Binary(other)
    BY <1>2, <2>1, <2>4, BinaryKeepsTags
  <2> QED BY <1>8, <2>2, <2>3, <2>4
<1>9. ASSUME NEW a \in Asked(All),
             \/ \E hi \in 1 .. array.shape[a] : \E lo \in 0 .. hi - 1 : Split(a, lo, hi)
             \/ Repeat(a)
             \/ Roll(a)
             \/ Scan(a)
      PROVE  Honest(array')
  <2>1. a \in All
    BY <1>1
  <2>2. CASE \E hi \in 1 .. array.shape[a] : \E lo \in 0 .. hi - 1 : Split(a, lo, hi)
    BY <2>1, <2>2, SplitKeepsTags
  <2>3. CASE Repeat(a) \/ Roll(a)
    BY <2>1, <2>3, AlongKeepsTags
  <2>4. CASE Scan(a)
    BY <1>2, <2>1, <2>4, ScanKeepsTags
  <2> QED BY <1>9, <2>2, <2>3, <2>4
<1>10. ASSUME NEW cut, \A a \in All : cut[a] \in Cuts(array.shape[a]),
              NEW at \in SUBSET {a \in All : cut[a].size = 1 /\ ~ cut[a].all}, GetItem(at, cut)
       PROVE  Honest(array')
  BY <1>10, GetItemKeepsTags
<1>11. ASSUME NEW n \in Asked(Rank .. Rank + 1), NEW reps \in [1 .. n -> 1 .. 2], Tile(reps)
       PROVE  Honest(array')
  <2>1. n \in Rank .. Rank + 1
    BY <1>1
  <2> QED BY <1>11, <2>1, TileKeepsTags
<1>12. CASE Unary
  BY <1>2, <1>12, UnaryHonest
<1>13. QED
  BY <1>4, <1>5, <1>6, <1>7, <1>8, <1>9, <1>10, <1>11, <1>12 DEF Next

\* However operations are chained, on arrays of any rank, extents and data and with
\* any groups, the tag fits its array, and is true of it as long as no step was taken
\* whose rule is wrong (_symmetry_transport.py, _symmetry_utils.py).
THEOREM ArraysStayHonest == Spec => []Honest(array)
<1>1. Init => Honest(array)
  BY ArraysAssumption DEF Init
<1>2. Honest(array) /\ [Next]_vars => Honest(array)'
  <2> SUFFICES ASSUME Honest(array), [Next]_vars PROVE Honest(array')
    OBVIOUS
  <2>1. CASE Next
    BY <2>1, NextHonest
  <2>2. CASE UNCHANGED vars
    BY <2>2 DEF vars
  <2> QED BY <2>1, <2>2
<1> QED BY <1>1, <1>2, PTL DEF Spec

\* No chain of operations ends in an array whose tag exchanges cells that differ, or
\* axes of two extents, unless one of its steps has a rule that is wrong.
THEOREM TagsStayTrue == Spec => []TagsTrue
<1>1. Honest(array) => TagsTrue
  BY DEF Honest, TagsTrue, EveryTagTrue
<1> QED BY <1>1, ArraysStayHonest, PTL

-----------------------------------------------------------------------------
(***************************************************************************)
(* Symmetry that is never lost: the order of a group after axes moved.     *)
(***************************************************************************)
\* Permutations of a finite set are finitely many.
LEMMA FunctionsFinite ==
  ASSUME NEW S, IsFiniteSet(S), NEW P, \A p \in P : p \in [S -> S]
  PROVE  IsFiniteSet(P)
<1> DEFINE graph == [p \in P |-> {<<a, p[a]>> : a \in S}]
<1>1. IsFiniteSet(SUBSET (S \X S))
  BY FS_Product, FS_SUBSET
<1>2. graph \in Injection(P, SUBSET (S \X S))
  <2>1. graph \in [P -> SUBSET (S \X S)]
    OBVIOUS
  <2>2. ASSUME NEW p \in P, NEW q \in P, graph[p] = graph[q] PROVE p = q
    <3>1. \A a \in S : p[a] = q[a]
      <4> SUFFICES ASSUME NEW a \in S PROVE p[a] = q[a]
        OBVIOUS
      <4>1. <<a, p[a]>> \in graph[p]
        OBVIOUS
      <4>2. <<a, p[a]>> \in graph[q]
        BY <2>2, <4>1
      <4>3. PICK b \in S : <<a, p[a]>> = <<b, q[b]>>
        BY <4>2
      <4> QED BY <4>3
    <3>2. p \in [S -> S] /\ q \in [S -> S]
      OBVIOUS
    <3> HIDE DEF graph
    <3> QED BY <3>1, <3>2
  <2> HIDE DEF graph
  <2> QED BY <2>1, <2>2 DEF Injection, IsInjective
<1> HIDE DEF graph
<1> QED BY <1>1, <1>2, FS_Injection

\* A group has finitely many permutations.
LEMMA PermsFinite ==
  ASSUME NEW g, WellFormed(g)
  PROVE  IsFiniteSet(g.perms) /\ Cardinality(g.perms) \in Nat
<1>1. IsFiniteSet(Support(g))
  <2>1. g.axes \in Seq(Nat)
    BY DEF WellFormed
  <2>2. DOMAIN g.axes = 1 .. Len(g.axes) /\ Len(g.axes) \in Nat
    BY <2>1
  <2>3. IsFiniteSet(DOMAIN g.axes)
    BY <2>2, FS_Interval
  <2>4. g.axes \in Surjection(DOMAIN g.axes, Support(g))
    <3>1. g.axes = [i \in DOMAIN g.axes |-> g.axes[i]]
      BY <2>1
    <3>2. /\ \A i \in DOMAIN g.axes : g.axes[i] \in Support(g)
          /\ \A a \in Support(g) : \E i \in DOMAIN g.axes : g.axes[i] = a
      BY DEF Support, Range
    <3> QED BY <3>1, <3>2 DEF Surjection
  <2> QED BY <2>3, <2>4, FS_Surjection
<1>2. \A p \in g.perms : p \in [Support(g) -> Support(g)]
  BY DEF WellFormed
<1>3. IsFiniteSet(g.perms)
  BY <1>1, <1>2, FunctionsFinite
<1> QED BY <1>3, FS_CardinalityType

\* Permutations stay different when their axes get different names.
LEMMA RenamedDiffer ==
  ASSUME NEW S, NEW to, \A a, b \in S : to[a] = to[b] => a = b,
         NEW p \in [S -> S], NEW q \in [S -> S], Renamed(p, to) = Renamed(q, to)
  PROVE  p = q
<1>1. \A a \in S : Renamed(p, to)[to[a]] = to[p[a]]
  BY RenamedPermutes
<1>2. \A a \in S : Renamed(q, to)[to[a]] = to[q[a]]
  BY RenamedPermutes
<1>3. \A a \in S : to[p[a]] = to[q[a]] /\ p[a] \in S /\ q[a] \in S
  BY <1>1, <1>2
<1>4. \A a \in S : p[a] = q[a]
  BY <1>3
<1> QED BY <1>4

\* remap_group_axes() keeps the order of a group.
LEMMA RemapOrder ==
  ASSUME NEW g, g # None => WellFormed(g),
         NEW to, g # None => \A a, b \in Support(g) : to[a] = to[b] => a = b,
         Remap(g, to) = None => g = None
  PROVE  Order(Remap(g, to)) = Order(g)
<1>1. CASE g = None
  BY <1>1 DEF Remap
<1>2. CASE g # None
  <2> DEFINE P == g.perms
             Q == {Renamed(p, to) : p \in P}
             f == [p \in P |-> Renamed(p, to)]
  <2>1. Remap(g, to) # None /\ Remap(g, to).perms = Q
    BY <1>2 DEF Remap
  <2>2. IsFiniteSet(P)
    BY <1>2, PermsFinite
  <2>3. f \in Surjection(P, Q)
    BY DEF Surjection
  <2>4. ASSUME NEW p \in P, NEW q \in P, f[p] = f[q] PROVE p = q
    <3>1. p \in [Support(g) -> Support(g)] /\ q \in [Support(g) -> Support(g)]
      BY <1>2 DEF WellFormed
    <3>2. Renamed(p, to) = Renamed(q, to)
      BY <2>4
    <3> QED BY <1>2, <3>1, <3>2, RenamedDiffer
  <2> HIDE DEF P, Q, f
  <2>5. f \in Injection(P, Q)
    BY <2>3, <2>4 DEF Injection, Surjection, IsInjective
  <2>6. Cardinality(Q) = Cardinality(P)
    BY <2>2, <2>3, <2>5, FS_Surjection
  <2> QED BY <1>2, <2>1, <2>6 DEF Order, P
<1> QED BY <1>1, <1>2

\* A record of axes and permutations of some of the first MaxRank axes is a group.
LEMMA IsGroup ==
  ASSUME NEW n \in Nat, n <= MaxRank, NEW S \in SUBSET (1 .. n),
         NEW x, NEW P, x \in Seq(Nat), \A p \in P : p \in [S -> S],
         NEW g, g = [axes |-> x, perms |-> P]
  PROVE  g # None
<1>1. S \in SUBSET (1 .. MaxRank)
  BY BoundsAssumption
<1>2. P \in SUBSET UNION {[T -> T] : T \in SUBSET (1 .. MaxRank)}
  BY <1>1
<1>3. g \in Groups
  BY <1>2 DEF Groups
<1> QED BY <1>3, NoneAssumption

\* A renamed permutation permutes the new names.
LEMMA RenamedFunction ==
  ASSUME NEW S, NEW to, \A a, b \in S : to[a] = to[b] => a = b, NEW p \in [S -> S],
         NEW T, \A b : b \in T <=> \E a \in S : b = to[a]
  PROVE  Renamed(p, to) \in [T -> T]
<1> DEFINE q == Renamed(p, to)
<1>1. q = [x \in DOMAIN q |-> q[x]]
  BY DEF Renamed
<1>2. /\ \A b : b \in DOMAIN q <=> \E a \in S : b = to[a]
      /\ \A a \in S : q[to[a]] = to[p[a]]
  BY RenamedPermutes
<1> HIDE DEF q
<1>3. DOMAIN q = T
  <2>1. \A b : b \in DOMAIN q <=> b \in T
    BY <1>2
  <2> DEFINE D == DOMAIN q
  <2>2. \A b : b \in D <=> b \in T
    BY <2>1
  <2> HIDE DEF D
  <2>3. D = T
    BY <2>2
  <2> QED BY <2>3 DEF D
<1>4. \A x \in T : q[x] \in T
  BY <1>2
<1>5. q \in [T -> T]
  BY <1>1, <1>3, <1>4
<1> QED BY <1>5 DEF q

\* remap_group_axes() of a group is a group.
LEMMA RemapGroup ==
  ASSUME NEW g, g # None, WellFormed(g), NEW n \in Nat, n <= MaxRank,
         NEW to, \A a \in Support(g) : to[a] \in 1 .. n,
         \A a, b \in Support(g) : to[a] = to[b] => a = b
  PROVE  Remap(g, to) # None
<1> DEFINE x == [i \in DOMAIN g.axes |-> to[g.axes[i]]]
           P == {Renamed(p, to) : p \in g.perms}
           S == {to[a] : a \in Support(g)}
<1>1. Remap(g, to) = [axes |-> x, perms |-> P]
  BY DEF Remap
<1>2. x \in Seq(Nat)
  <2>1. /\ DOMAIN g.axes = 1 .. Len(g.axes) /\ Len(g.axes) \in Nat
        /\ \A i \in DOMAIN g.axes : g.axes[i] \in Support(g)
    BY DEF WellFormed, Support, Range
  <2>2. \A i \in 1 .. Len(g.axes) : to[g.axes[i]] \in Nat
    BY <2>1
  <2> QED BY <2>1, <2>2
<1>3. \A q \in P : q \in [S -> S]
  <2> SUFFICES ASSUME NEW p \in g.perms PROVE Renamed(p, to) \in [S -> S]
    OBVIOUS
  <2> DEFINE A == Support(g)
  <2>1. p \in [A -> A] /\ \A a, b \in A : to[a] = to[b] => a = b
    BY DEF WellFormed
  <2>2. \A b : b \in S <=> \E a \in A : b = to[a]
    OBVIOUS
  <2> HIDE DEF A, S
  <2> QED BY <2>1, <2>2, RenamedFunction
<1>4. S \in SUBSET (1 .. n)
  OBVIOUS
<1> HIDE DEF x, P, S
<1> QED BY <1>1, <1>2, <1>3, <1>4, IsGroup

\* A direct product has as many permutations as there are pairs of them.
LEMMA FactorsOrder ==
  ASSUME NEW g, NEW h, NEW out, Apart(g, h, out)
  PROVE  Cardinality(Factors(g, h).perms) = Cardinality(g.perms) * Cardinality(h.perms)
<1> DEFINE P == g.perms
           Q == h.perms
           D == Support(g)
           E == Support(h)
           R == {Both(p, q) : p \in P, q \in Q}
           f == [e \in P \X Q |-> Both(e[1], e[2])]
<1>1. Factors(g, h).perms = R
  BY DEF Factors
<1>2. IsFiniteSet(P) /\ IsFiniteSet(Q)
  BY PermsFinite DEF Apart
<1>3. IsFiniteSet(P \X Q) /\ Cardinality(P \X Q) = Cardinality(P) * Cardinality(Q)
  <2> HIDE DEF P, Q
  <2> QED BY <1>2, FS_Product
<1>4. /\ \A p \in P : p \in [D -> D]
      /\ \A q \in Q : q \in [E -> E]
      /\ D \cap E = {}
  BY DEF Apart, WellFormed
<1> HIDE DEF P, Q, D, E
<1>5. f \in Surjection(P \X Q, R)
  <2>1. f \in [P \X Q -> R]
    <3>1. \A e \in P \X Q : e[1] \in P /\ e[2] \in Q
      OBVIOUS
    <3> QED BY <3>1
  <2>2. ASSUME NEW r \in R PROVE \E e \in P \X Q : f[e] = r
    <3>1. PICK p \in P, q \in Q : r = Both(p, q)
      OBVIOUS
    <3>2. <<p, q>> \in P \X Q /\ f[<<p, q>>] = r
      BY <3>1
    <3> HIDE DEF f
    <3> QED BY <3>2
  <2> HIDE DEF f, R
  <2> QED BY <2>1, <2>2 DEF Surjection
<1>6. ASSUME NEW p \in P, NEW q \in Q, NEW u \in P, NEW v \in Q, Both(p, q) = Both(u, v)
      PROVE  p = u /\ q = v
  <2>1. p \in [D -> D] /\ u \in [D -> D] /\ q \in [E -> E] /\ v \in [E -> E]
    BY <1>4
  <2>2. \A a \in D : Both(p, q)[a] = p[a] /\ Both(u, v)[a] = u[a]
    BY <2>1 DEF Both
  <2>3. \A a \in E : Both(p, q)[a] = q[a] /\ Both(u, v)[a] = v[a]
    BY <1>4, <2>1 DEF Both
  <2>4. (\A a \in D : p[a] = u[a]) /\ \A a \in E : q[a] = v[a]
    BY <1>6, <2>2, <2>3
  <2> QED BY <2>1, <2>4
<1>7. f \in Injection(P \X Q, R)
  <2>1. ASSUME NEW e \in P \X Q, NEW d \in P \X Q, f[e] = f[d] PROVE e = d
    <3>1. Both(e[1], e[2]) = Both(d[1], d[2])
      BY <2>1
    <3>2. e[1] \in P /\ e[2] \in Q /\ d[1] \in P /\ d[2] \in Q
          /\ e = <<e[1], e[2]>> /\ d = <<d[1], d[2]>>
      OBVIOUS
    <3>3. e[1] = d[1] /\ e[2] = d[2]
      BY <1>6, <3>1, <3>2
    <3> QED BY <3>2, <3>3
  <2> HIDE DEF f, R
  <2> QED BY <1>5, <2>1 DEF Injection, Surjection, IsInjective
<1> HIDE DEF f, R
<1>8. Cardinality(R) = Cardinality(P \X Q)
  BY <1>3, <1>5, <1>7, FS_Surjection
<1> QED BY <1>1, <1>3, <1>8 DEF P, Q

\* A direct product of groups is a group.
LEMMA FactorsGroup ==
  ASSUME NEW g, NEW h, NEW out \in Seq(Nat), Apart(g, h, out), Len(out) <= MaxRank
  PROVE  Factors(g, h) # None
<1> DEFINE D == Support(g)
           E == Support(h)
           P == {Both(p, q) : p \in g.perms, q \in h.perms}
           T == D \cup E
           x == g.axes \o h.axes
<1>1. Factors(g, h) = [axes |-> x, perms |-> P]
  BY DEF Factors
<1>2. /\ x \in Seq(Nat)
      /\ \A p \in g.perms : p \in [D -> D]
      /\ \A q \in h.perms : q \in [E -> E]
      /\ D \cap E = {} /\ T \subseteq Axes(out)
  BY DEF Apart, WellFormed
<1>3. T = D \cup E
  OBVIOUS
<1> HIDE DEF D, E, T, x
<1>4. \A r \in P : r \in [T -> T]
  <2>1. ASSUME NEW p \in g.perms, NEW q \in h.perms
        PROVE  Both(p, q) \in [T -> T]
    <3>1. p \in [D -> D] /\ q \in [E -> E]
      BY <1>2
    <3> QED BY <1>2, <1>3, <3>1 DEF Both
  <2>2. ASSUME NEW r \in P PROVE r \in [T -> T]
    <3>1. PICK p \in g.perms, q \in h.perms : r = Both(p, q)
      OBVIOUS
    <3> HIDE DEF P
    <3> QED BY <2>1, <3>1
  <2> HIDE DEF P
  <2> QED BY <2>2
<1> HIDE DEF P
<1>5. Len(out) \in Nat /\ T \in SUBSET (1 .. Len(out))
  BY <1>2, ShapeFacts
<1> QED BY <1>1, <1>2, <1>4, <1>5, IsGroup

\* direct_product_groups() multiplies the orders of groups on different axes.
LEMMA DirectProductOrder ==
  ASSUME NEW g, NEW h, NEW out,
         g # None => WellFormed(g), h # None => WellFormed(h),
         NEW n \in Nat, n <= MaxRank, out \in Seq(Nat), Len(out) = n,
         g # None /\ h # None => Apart(g, h, out)
  PROVE  Order(DirectProduct(g, h)) = Order(g) * Order(h)
<1>1. Order(g) \in Nat /\ Order(h) \in Nat
  BY PermsFinite DEF Order
<1>2. CASE g = None
  <2>1. DirectProduct(g, h) = h /\ Order(g) = 1
    BY <1>2 DEF DirectProduct, Order
  <2> QED BY <1>1, <2>1
<1>3. CASE g # None /\ h = None
  <2>1. DirectProduct(g, h) = g /\ Order(h) = 1
    BY <1>3 DEF DirectProduct, Order
  <2> QED BY <1>1, <2>1
<1>4. CASE g # None /\ h # None
  <2>1. DirectProduct(g, h) = Factors(g, h)
    BY <1>4 DEF DirectProduct
  <2>2. Factors(g, h) # None
    BY <1>4, FactorsGroup
  <2> QED BY <1>4, <2>1, <2>2, FactorsOrder DEF Order
<1> QED BY <1>2, <1>3, <1>4

\* There are as many ways to exchange axes as to exchange as many numbers.
LEMMA BijectionsAlike ==
  ASSUME NEW N, IsFiniteSet(N), NEW M, IsFiniteSet(M), Cardinality(M) = Cardinality(N)
  PROVE  /\ IsFiniteSet(Bijection(N, N)) /\ IsFiniteSet(Bijection(M, M))
         /\ Cardinality(Bijection(M, M)) <= Cardinality(Bijection(N, N))
<1>1. IsFiniteSet(Bijection(N, N)) /\ IsFiniteSet(Bijection(M, M))
  <2>1. \A p \in Bijection(N, N) : p \in [N -> N]
    BY DEF Bijection, Injection
  <2>2. \A p \in Bijection(M, M) : p \in [M -> M]
    BY DEF Bijection, Injection
  <2> QED BY <2>1, <2>2, FunctionsFinite
<1>2. PICK f : f \in Bijection(M, N)
  BY FS_SameCardinalityBij DEF ExistsBijection
<1>3. /\ f \in [M -> N]
      /\ \A a, b \in M : f[a] = f[b] => a = b
      /\ \A c \in N : \E a \in M : f[a] = c
  BY <1>2 DEF Bijection, Injection, Surjection, IsInjective
<1>4. ASSUME NEW b \in Bijection(M, M) PROVE Renamed(b, f) \in Bijection(N, N)
  <2> DEFINE q == Renamed(b, f)
  <2>1. /\ b \in [M -> M]
        /\ \A a, c \in M : b[a] = b[c] => a = c
        /\ \A c \in M : \E a \in M : b[a] = c
    BY DEF Bijection, Injection, Surjection, IsInjective
  <2>2. q \in [N -> N]
    <3>1. \A c : c \in N <=> \E a \in M : c = f[a]
      BY <1>3
    <3> QED BY <1>3, <2>1, <3>1, RenamedFunction, SMTT(30)
  <2>3. \A x, y \in N : q[x] = q[y] => x = y
    <3>1. \A x, y \in DOMAIN q : q[x] = q[y] => x = y
      BY <1>3, <2>1, RenamedInjective
    <3> QED BY <2>2, <3>1
  <2>4. \A a \in M : q[f[a]] = f[b[a]]
    BY <1>3, <2>1, RenamedPermutes
  <2> HIDE DEF q
  <2>5. ASSUME NEW y \in N PROVE \E x \in N : q[x] = y
    <3>1. PICK c \in M : f[c] = y
      BY <1>3
    <3>2. PICK a \in M : b[a] = c
      BY <2>1
    <3>3. f[a] \in N /\ q[f[a]] = y
      BY <1>3, <2>4, <3>1, <3>2
    <3> QED BY <3>3
  <2>6. q \in Bijection(N, N)
    BY <2>2, <2>3, <2>5 DEF Bijection, Injection, Surjection, IsInjective
  <2> QED BY <2>6 DEF q
<1> DEFINE B == Bijection(M, M)
           C == Bijection(N, N)
           F == [b \in B |-> Renamed(b, f)]
<1>5. F \in [B -> C]
  BY <1>4
<1>6. ASSUME NEW b \in B, NEW c \in B, F[b] = F[c] PROVE b = c
  <2>1. b \in [M -> M] /\ c \in [M -> M] /\ Renamed(b, f) = Renamed(c, f)
    BY <1>6 DEF Bijection, Injection
  <2> QED BY <1>3, <2>1, RenamedDiffer
<1> HIDE DEF B, C, F
<1>7. F \in Injection(B, C)
  BY <1>5, <1>6 DEF Injection, IsInjective
<1>8. Cardinality(B) <= Cardinality(C)
  BY <1>1, <1>7, FS_Injection DEF C
<1> QED BY <1>1, <1>8 DEF B, C

\* inserted_axes_symmetry(): axes of extent one can be exchanged in every way.
LEMMA ByExtentOrder ==
  ASSUME NEW out \in Seq(Nat), Len(out) <= MaxRank, NEW N \in SUBSET Axes(out),
         \A k \in N : out[k] = 1, NEW new, new = 1 .. Cardinality(N)
  PROVE  /\ Order(ByExtent(out, N)) \in Nat /\ Cardinality(Bijection(new, new)) \in Nat
         /\ Order(ByExtent(out, N)) >= Cardinality(Bijection(new, new))
<1> DEFINE L == {a \in N : \E b \in N \ {a} : out[a] = out[b]}
           P == {p \in Bijection(L, L) : \A a \in L : out[p[a]] = out[a]}
           h == ByExtent(out, N)
<1>1. h = IF Cardinality(P) <= 1 THEN None ELSE [axes |-> Sorted(L), perms |-> P]
  BY DEF ByExtent, Group
<1>2. Len(out) \in Nat /\ Axes(out) = 1 .. Len(out)
  BY ShapeFacts
<1>3. IsFiniteSet(N) /\ Cardinality(N) \in Nat
  <2>1. IsFiniteSet(Axes(out))
    BY <1>2, FS_Interval
  <2> QED BY <2>1, FS_Subset, FS_CardinalityType
<1>4. IsFiniteSet(new) /\ Cardinality(new) = Cardinality(N)
  BY <1>3, FS_Interval
<1>5. /\ IsFiniteSet(Bijection(new, new)) /\ IsFiniteSet(Bijection(N, N))
      /\ Cardinality(Bijection(new, new)) <= Cardinality(Bijection(N, N))
  BY <1>3, <1>4, BijectionsAlike
<1>6. Cardinality(Bijection(new, new)) \in Nat
  BY <1>5, FS_CardinalityType
<1>7. L \in SUBSET N /\ \A p \in P : p \in [L -> L]
  BY DEF Bijection, Injection
<1>8. IsFiniteSet(L) /\ IsFiniteSet(P) /\ Cardinality(P) \in Nat
  <2> HIDE DEF L, P
  <2> QED BY <1>3, <1>7, FS_Subset, FunctionsFinite, FS_CardinalityType
<1>9. Order(h) \in Nat /\ Order(h) >= 1 /\ Order(h) >= Cardinality(P)
  <2>1. CASE Cardinality(P) <= 1
    BY <1>1, <1>8, <2>1 DEF Order
  <2>2. CASE ~ (Cardinality(P) <= 1)
    <3>1. Sorted(L) \in Seq(Nat)
      <4>1. L \in SUBSET Nat
        BY <1>2, <1>7
      <4> HIDE DEF L
      <4> QED BY <1>8, <4>1, SortedLists
    <3>2. L \in SUBSET (1 .. Len(out))
      BY <1>2, <1>7
    <3> HIDE DEF L, P, h
    <3>3. h = [axes |-> Sorted(L), perms |-> P]
      BY <1>1, <2>2
    <3>4. h # None
      BY <1>2, <1>7, <3>1, <3>2, <3>3, IsGroup
    <3>5. Order(h) = Cardinality(P)
      BY <3>3, <3>4 DEF Order
    <3> QED BY <1>8, <2>2, <3>5
  <2> QED BY <2>1, <2>2
<1>10. CASE \E a, b \in N : a # b
  <2>1. L = N
    BY <1>10
  <2>2. P = Bijection(N, N)
    <3>1. \A p \in Bijection(N, N) : \A a \in N : p[a] \in N
      BY DEF Bijection, Injection
    <3> HIDE DEF L
    <3> QED BY <2>1, <3>1
  <2>3. Cardinality(Bijection(new, new)) <= Cardinality(P)
    BY <1>5, <2>2
  <2> HIDE DEF L, P, h
  <2> QED BY <1>6, <1>8, <1>9, <2>3 DEF h
<1>11. CASE \A a, b \in N : a = b
  <2>1. Cardinality(Bijection(N, N)) <= 1
    <3>1. ASSUME NEW p \in Bijection(N, N), NEW q \in Bijection(N, N) PROVE p = q
      <4>1. p \in [N -> N] /\ q \in [N -> N]
        BY DEF Bijection, Injection
      <4>2. \A a \in N : p[a] = q[a]
        BY <1>11, <4>1
      <4> QED BY <4>1, <4>2
    <3>2. CASE Bijection(N, N) = {}
      BY <3>2, FS_EmptySet
    <3>3. CASE Bijection(N, N) # {}
      <4>1. PICK p \in Bijection(N, N) : TRUE
        BY <3>3
      <4>2. Bijection(N, N) = {p}
        BY <3>1, <4>1
      <4>3. Cardinality({p}) = 1
        BY FS_Singleton
      <4> QED BY <4>2, <4>3
    <3> QED BY <3>2, <3>3
  <2>2. Cardinality(Bijection(N, N)) \in Nat
    BY <1>5, FS_CardinalityType
  <2> HIDE DEF L, P, h
  <2> QED BY <1>5, <1>6, <1>9, <2>1, <2>2 DEF h
<1> QED BY <1>6, <1>9, <1>10, <1>11

\* Order is a count.
LEMMA OrderType ==
  ASSUME NEW g, g # None => WellFormed(g)
  PROVE  Order(g) \in Nat
BY PermsFinite DEF Order

\* There is one way to exchange nothing.
LEMMA NothingToExchange ==
  Cardinality(Bijection(1 .. 0, 1 .. 0)) = 1
<1> DEFINE E == 1 .. 0
           e == [a \in E |-> a]
<1>1. e \in Bijection(E, E)
  BY DEF Bijection, Injection, Surjection, IsInjective
<1>2. \A p \in Bijection(E, E) : p = e
  <2> SUFFICES ASSUME NEW p \in Bijection(E, E) PROVE p = e
    OBVIOUS
  <2>1. p \in [E -> E]
    BY DEF Bijection, Injection
  <2>2. \A a \in E : FALSE
    OBVIOUS
  <2> HIDE DEF E
  <2> QED BY <2>1, <2>2
<1> HIDE DEF e, E
<1>3. Bijection(E, E) = {e}
  BY <1>1, <1>2
<1> QED BY <1>3, FS_Singleton DEF E

\* What the property says of a step.
KeepsOrder ==
  LET new == 1 .. Len(array'.shape) - Rank IN
  Order(array'.tag) >= Order(array.tag) * Cardinality(Bijection(new, new))

\* No new axes, and a group of the same order.
LEMMA SameOrder ==
  ASSUME Honest(array), Len(array'.shape) = Len(array.shape),
         Order(array'.tag) = Order(array.tag)
  PROVE  KeepsOrder
<1>1. Len(array.shape) \in Nat /\ Order(array.tag) \in Nat
  BY OrderType DEF Honest, Typed, Fits
<1>2. 1 .. Len(array'.shape) - Rank = 1 .. 0
  BY <1>1 DEF Rank
<1>3. KeepsOrder <=> Order(array'.tag) >= Order(array.tag) * 1
  BY <1>2, NothingToExchange DEF KeepsOrder
<1> QED BY <1>1, <1>3

\* transpose() keeps the order of a group.
LEMMA TransposeOrder ==
  ASSUME Honest(array), NEW order \in Bijection(All, All), Transpose(order)
  PROVE  KeepsOrder
<1> DEFINE g == array.tag
           s == array.shape
           to == AntiFunction(order)
           t == TransposedShape(s, order)
<1>1. /\ s \in Seq(Nat) /\ Len(s) \in Nat /\ Axes(s) = 1 .. Len(s)
      /\ g # None => WellFormed(g) /\ Support(g) \subseteq 1 .. Len(s)
  BY DEF Honest, Typed, Fits, Axes
<1>2. array'.tag = Remap(g, to) /\ array'.shape = t /\ Len(t) <= MaxRank
  <2> DEFINE data == TransposedData(s, array.val, order)
             h == TransportTranspose(g, order)
  <2>1. Makes("transpose", t, data, h, TRUE)
    BY DEF Transpose
  <2>2. h = Remap(g, to)
    BY DEF TransportTranspose
  <2> HIDE DEF h, t, data
  <2>3. array'.tag = h /\ array'.shape = t /\ Len(t) <= MaxRank
    BY <2>1 DEF Makes, Made
  <2> QED BY <2>2, <2>3
<1>3. Len(t) = Len(s)
  <2>1. t = [k \in 1 .. Len(s) |-> s[order[k]]]
    BY <1>1 DEF TransposedShape
  <2> HIDE DEF t, s
  <2> QED BY <1>1, <2>1
<1>4. /\ to \in [1 .. Len(s) -> 1 .. Len(s)]
      /\ \A a, b \in 1 .. Len(s) : to[a] = to[b] => a = b
  <2>1. /\ to \in [All -> All]
        /\ \A a \in All : order[to[a]] = a
    BY OrderInverts
  <2>2. All = 1 .. Len(s)
    BY <1>1 DEF All
  <2> HIDE DEF to, s
  <2> QED BY <2>1, <2>2
<1> HIDE DEF g, s, to, t
<1>5. g # None => Remap(g, to) # None
  <2> SUFFICES ASSUME g # None PROVE Remap(g, to) # None
    OBVIOUS
  <2>1. /\ \A a \in Support(g) : to[a] \in 1 .. Len(s)
        /\ \A a, b \in Support(g) : to[a] = to[b] => a = b
    BY <1>1, <1>4
  <2> QED BY <1>1, <1>2, <1>3, <2>1, RemapGroup
<1>6. Order(Remap(g, to)) = Order(g)
  <2>1. g # None => \A a, b \in Support(g) : to[a] = to[b] => a = b
    BY <1>1, <1>4
  <2> QED BY <1>1, <1>5, <2>1, RemapOrder
<1> QED BY <1>2, <1>3, <1>6, SameOrder DEF g, s

\* An elementwise function with no destination keeps the group.
LEMMA UnaryOrder ==
  ASSUME Honest(array), Unary, did' = "unary"
  PROVE  KeepsOrder
<1>1. Makes("unary", array.shape, array.val, array.tag, TRUE)
  BY DEF Unary, Delivers, Into
<1>2. array'.tag = array.tag /\ array'.shape = array.shape
  BY <1>1 DEF Makes, Made
<1> QED BY <1>2, SameOrder

\* What expand_dims() makes: the axes N of out are new, the others are those there were.
LEMMA ExpandDimsMakes ==
  ASSUME Honest(array), NEW N, IsFiniteSet(N), N \subseteq 1 .. Rank + Cardinality(N),
         ExpandDims(N)
  PROVE  \E out, data, to :
           /\ Makes("expand_dims", out, data,
                    DirectProduct(Remap(array.tag, to), ByExtent(out, N)), TRUE)
           /\ Expanded(array.shape, N, out) /\ Inserts(array.shape, N, out, to)
<1> DEFINE s == array.shape
           tag == array.tag
           out == Inserted(s, N)
           old == Removing(out, N)
           to == AntiFunction(old)
           r == DirectProduct(Remap(tag, to), ByExtent(out, N))
           data == [c \in Cells(out) |-> array.val[Without(c, N)]]
<1>1. s \in Seq(Nat) /\ Len(s) \in Nat /\ Axes(s) = 1 .. Len(s)
  BY DEF Honest, Typed, Axes
<1>2. Makes("expand_dims", out, data, r, TRUE)
  BY DEF ExpandDims, TransportExpandDims
<1>3. Expanded(s, N, out)
  <2>1. Expands(s, N, out)
    BY <1>1 DEF Expands, Rank
  <2> HIDE DEF out, s
  <2> QED BY <2>1, InsertedShape
<1> HIDE DEF out
<1>4. /\ out \in Seq(Nat) /\ N \in SUBSET Axes(out) /\ Len(out) \in Nat
      /\ Cardinality(Axes(out) \ N) = Len(s)
      /\ \A b \in Axes(out) \ N : out[b] = s[old[b]]
  <2> HIDE DEF s, old
  <2> QED BY <1>3, ShapeFacts DEF Expanded, old
<1>5. Inserts(s, N, out, to)
  <2> DEFINE B == Axes(out) \ N
  <2>1. /\ old \in [B -> 1 .. Len(s)]
        /\ \A a, b \in B : old[a] = old[b] => a = b
        /\ \A k \in 1 .. Len(s) : \E a \in B : old[a] = k
    BY <1>4, RemovingNumbers, ZenonT(30)
  <2> HIDE DEF old, B, s
  <2>2. /\ to \in [Range(old) -> DOMAIN old]
        /\ \A b \in Range(old) : old[to[b]] = b
    BY <2>1, AntiFunctionInverts
  <2>3. \A a \in 1 .. Len(s) : a \in Range(old)
    BY <2>1 DEF Range
  <2>4. \A a \in Axes(s) : to[a] \in B /\ old[to[a]] = a
    BY <1>1, <2>1, <2>2, <2>3
  <2> HIDE DEF to
  <2> QED BY <1>1, <1>4, <2>4 DEF Inserts, old, B
<1> HIDE DEF r, data, to, s
<1> QED BY <1>2, <1>3, <1>5 DEF r, s

\* expand_dims() keeps the group, and the new axes can be exchanged besides.
LEMMA ExpandDimsOrder ==
  ASSUME Honest(array), NEW N, IsFiniteSet(N), N \subseteq 1 .. Rank + Cardinality(N),
         ExpandDims(N)
  PROVE  KeepsOrder
<1> DEFINE s == array.shape
           tag == array.tag
           new == 1 .. Cardinality(N)
<1>1. /\ s \in Seq(Nat) /\ Len(s) \in Nat /\ Axes(s) = 1 .. Len(s)
      /\ tag # None => WellFormed(tag) /\ Support(tag) \subseteq 1 .. Len(s)
      /\ Fits(tag, Len(s))
  BY DEF Honest, Typed, Fits, Axes
<1>2. PICK out, data, to :
        /\ Makes("expand_dims", out, data,
                 DirectProduct(Remap(tag, to), ByExtent(out, N)), TRUE)
        /\ Expanded(s, N, out) /\ Inserts(s, N, out, to)
  BY ExpandDimsMakes
<1> DEFINE g == Remap(tag, to)
           h == ByExtent(out, N)
<1>3. array'.tag = DirectProduct(g, h) /\ array'.shape = out /\ Len(out) <= MaxRank
  <2> DEFINE r == DirectProduct(g, h)
  <2>1. Makes("expand_dims", out, data, r, TRUE)
    BY <1>2
  <2> HIDE DEF g, h, r
  <2>2. array'.tag = r /\ array'.shape = out /\ Len(out) <= MaxRank
    BY <2>1 DEF Makes, Made
  <2> QED BY <2>2 DEF r
<1>4. Len(out) = Len(s) + Cardinality(N) /\ \A k \in N : out[k] = 1
  BY <1>2 DEF Expanded
<1>5. /\ out \in Seq(Nat) /\ N \in SUBSET Axes(out) /\ Len(out) \in Nat
      /\ Axes(out) = 1 .. Len(out)
  BY <1>2, ShapeFacts DEF Expanded
<1> HIDE DEF s, tag
<1>6. /\ \A a \in 1 .. Len(s) : to[a] \in 1 .. Len(out)
      /\ \A a, b \in 1 .. Len(s) : to[a] = to[b] => a = b
  <2>1. Moves(s, out, Axes(s), to)
    BY <1>2, InsertedCells
  <2> QED BY <1>1, <1>5, <2>1 DEF Moves
<1>7. tag # None => g # None
  <2> SUFFICES ASSUME tag # None PROVE Remap(tag, to) # None
    OBVIOUS
  <2>1. /\ \A a \in Support(tag) : to[a] \in 1 .. Len(out)
        /\ \A a, b \in Support(tag) : to[a] = to[b] => a = b
    BY <1>1, <1>6
  <2> QED BY <1>1, <1>3, <1>5, <2>1, RemapGroup
<1>8. Order(g) = Order(tag)
  <2>1. tag # None => \A a, b \in Support(tag) : to[a] = to[b] => a = b
    BY <1>1, <1>6
  <2> QED BY <1>1, <1>7, <2>1, RemapOrder
<1>9. g # None => WellFormed(g) /\ Support(g) \subseteq Axes(out) \ N
  <2> SUFFICES ASSUME g # None PROVE WellFormed(g) /\ Support(g) \subseteq Axes(out) \ N
    OBVIOUS
  <2>1. tag # None
    BY DEF Remap
  <2> QED BY <1>1, <1>2, <2>1, InsertedFits
<1>10. h # None => WellFormed(h) /\ Support(h) \subseteq N
  BY <1>5, ByExtentFits
<1>11. /\ Order(h) \in Nat /\ Cardinality(Bijection(new, new)) \in Nat
       /\ Order(h) >= Cardinality(Bijection(new, new))
  <2> HIDE DEF new
  <2>1. new = 1 .. Cardinality(N)
    BY DEF new
  <2> QED BY <1>3, <1>4, <1>5, <2>1, ByExtentOrder
<1> HIDE DEF g, h
<1>12. Order(DirectProduct(g, h)) = Order(g) * Order(h)
  <2>1. g # None /\ h # None => Apart(g, h, out)
    BY <1>5, <1>9, <1>10 DEF Apart
  <2> QED BY <1>3, <1>5, <1>9, <1>10, <2>1, DirectProductOrder
<1>13. Order(tag) \in Nat
  BY <1>1, OrderType
<1>14. 1 .. Len(array'.shape) - Rank = new
  <2>1. Cardinality(N) \in Nat
    BY FS_CardinalityType
  <2>2. Len(array'.shape) - Rank = Cardinality(N)
    BY <1>1, <1>3, <1>4, <2>1 DEF Rank, s
  <2> QED BY <2>2
<1> HIDE DEF new
<1> DEFINE u == Order(tag)
           v == Order(h)
           w == Cardinality(Bijection(new, new))
<1>15. u * v >= u * w
  <2>1. u \in Nat /\ v \in Nat /\ w \in Nat /\ v >= w
    BY <1>11, <1>13
  <2> HIDE DEF u, v, w
  <2> QED BY <2>1
<1>16. Order(array'.tag) >= u * w
  BY <1>3, <1>8, <1>12, <1>15
<1> QED BY <1>14, <1>16 DEF KeepsOrder, tag

\* Operations that lose no permutation: moving axes (transpose), adding axes
\* (expand_dims) and elementwise functions.
THEOREM SymmetryIsKept == Spec => MovesKeepSymmetry
<1> DEFINE Kinds == {"transpose", "expand_dims", "unary"}
<1>1. Honest(array) /\ Next /\ did' \in Kinds => KeepsOrder
  <2> SUFFICES ASSUME Honest(array), Next, did' \in Kinds PROVE KeepsOrder
    OBVIOUS
  <2>0. ASSUME NEW S, NEW e \in Asked(S) PROVE e \in S
    BY <2>0 DEF Asked
  <2>1. CASE \E order \in Asked(Bijection(All, All)) : Transpose(order)
    <3>1. PICK order \in Asked(Bijection(All, All)) : Transpose(order)
      BY <2>1
    <3>2. order \in Bijection(All, All)
      BY <2>0
    <3> QED BY <3>1, <3>2, TransposeOrder
  <2>2. CASE \E N \in Asked(SUBSET (1 .. MaxRank)) :
               N # {} /\ N \subseteq 1 .. Rank + Cardinality(N) /\ ExpandDims(N)
    <3>1. PICK N \in Asked(SUBSET (1 .. MaxRank)) :
                 N \subseteq 1 .. Rank + Cardinality(N) /\ ExpandDims(N)
      BY <2>2
    <3>2. N \in SUBSET (1 .. MaxRank)
      BY <2>0
    <3>3. IsFiniteSet(N)
      <4>1. IsFiniteSet(1 .. MaxRank)
        BY BoundsAssumption, FS_Interval
      <4> QED BY <3>2, <4>1, FS_Subset
    <3> QED BY <3>1, <3>3, ExpandDimsOrder
  <2>3. CASE Unary
    <3>1. did' = "unary"
      BY <2>3 DEF Unary, Delivers, Makes, Into
    <3> QED BY <2>3, <3>1, UnaryOrder
  <2>4. \A out : ~ Reshape(out) /\ ~ BroadcastTo(out)
    BY DEF Reshape, BroadcastTo, Makes
  <2>5. \A K : ~ Squeeze(K) /\ ~ Flip(K) /\ \A keepdims : ~ Reduce(K, keepdims)
    BY DEF Squeeze, Flip, Reduce, Delivers, Makes, Into
  <2>6. \A other, k : ~ Concatenate(other, k) /\ ~ Stack(other, k) /\ ~ Binary(other)
    BY DEF Concatenate, Stack, Binary, Delivers, Makes, Into
  <2>7. \A a : /\ \A lo, hi : ~ Split(a, lo, hi)
               /\ ~ Repeat(a) /\ ~ Roll(a) /\ ~ Scan(a)
    BY DEF Split, Repeat, Roll, Scan, Delivers, Makes, Into
  <2>8. \A at, cut : ~ GetItem(at, cut)
    BY DEF GetItem, Makes
  <2>9. \A reps : ~ Tile(reps)
    BY DEF Tile, Makes
  <2> QED BY <2>1, <2>2, <2>3, <2>4, <2>5, <2>6, <2>7, <2>8, <2>9 DEF Next
<1>2. Honest(array) /\ [Next]_vars => [did' \in Kinds => KeepsOrder]_vars
  BY <1>1
<1>3. [][did' \in Kinds => KeepsOrder]_vars => MovesKeepSymmetry
  BY DEF MovesKeepSymmetry, KeepsOrder
<1> QED BY <1>2, <1>3, ArraysStayHonest, PTL DEF Spec

-----------------------------------------------------------------------------
(***************************************************************************)
(* Types: no operation makes a group of order one, or one that names an    *)
(* axis twice or an axis the array does not have.                          *)
(***************************************************************************)
\* A group that SymmetryGroup.__init__ was given each axis of once is a proper one.
LEMMA GroupProper ==
  ASSUME NEW x, IsInjective(x), NEW P,
         Group(x, P) # None => WellFormed(Group(x, P))
  PROVE  Proper(Group(x, P))
<1> DEFINE g == Group(x, P)
<1> SUFFICES ASSUME g # None PROVE IsInjective(g.axes) /\ Cardinality(g.perms) > 1
  BY DEF Proper
<1>1. g.axes = x /\ g.perms = P /\ ~ (Cardinality(P) <= 1)
  BY DEF Group
<1>2. Cardinality(g.perms) \in Nat
  <2> HIDE DEF g
  <2> QED BY PermsFinite DEF g
<1> HIDE DEF g
<1> QED BY <1>1, <1>2

\* Renaming axes one to one.
LEMMA RemapProper ==
  ASSUME NEW g, g # None => WellFormed(g), Proper(g),
         NEW to, g # None => \A a, b \in Support(g) : to[a] = to[b] => a = b
  PROVE  Proper(Remap(g, to))
<1> DEFINE h == Remap(g, to)
<1> SUFFICES ASSUME h # None PROVE IsInjective(h.axes) /\ Cardinality(h.perms) > 1
  BY DEF Proper
<1>1. g # None
  BY DEF Remap
<1>2. IsInjective(h.axes)
  <2>1. h.axes = [i \in DOMAIN g.axes |-> to[g.axes[i]]]
    BY <1>1 DEF Remap
  <2>2. \A i \in DOMAIN g.axes : g.axes[i] \in Support(g)
    BY DEF Support, Range
  <2>3. \A i, j \in DOMAIN g.axes : g.axes[i] = g.axes[j] => i = j
    BY <1>1 DEF Proper, IsInjective
  <2> HIDE DEF h
  <2>4. \A i, j \in DOMAIN g.axes : to[g.axes[i]] = to[g.axes[j]] => i = j
    BY <1>1, <2>2, <2>3
  <2> QED BY <2>1, <2>4 DEF IsInjective
<1>3. Order(h) = Order(g)
  BY <1>1, RemapOrder
<1> HIDE DEF h
<1>4. Cardinality(h.perms) = Cardinality(g.perms)
  BY <1>1, <1>3 DEF Order
<1> QED BY <1>1, <1>2, <1>4 DEF Proper

\* A tuple without some of its places.
LEMMA WithoutInjective ==
  ASSUME NEW s \in Seq(Nat), IsInjective(s), NEW K
  PROVE  IsInjective(Without(s, K))
<1> DEFINE A == Axes(s) \ K
           to == Removing(s, K)
           r == Without(s, K)
<1>1. /\ Len(s) \in Nat /\ DOMAIN s = Axes(s)
      /\ Axes(r) = 1 .. Cardinality(A) /\ r \in Seq(Nat)
      /\ \A a \in A : to[a] \in Axes(r) /\ r[to[a]] = s[a]
  BY WithoutKeeps, ShapeFacts
<1>2. \A k \in Axes(r) : \E a \in A : to[a] = k
  <2>1. \A k \in 1 .. Cardinality(A) : \E a \in A : to[a] = k
    BY <1>1, RemovingNumbers, ZenonT(30)
  <2> QED BY <1>1, <2>1
<1>3. DOMAIN r = Axes(r)
  BY <1>1, ShapeFacts
<1> HIDE DEF r, to
<1>4. ASSUME NEW i \in DOMAIN r, NEW j \in DOMAIN r, r[i] = r[j] PROVE i = j
  <2>1. PICK a \in A, b \in A : to[a] = i /\ to[b] = j
    BY <1>2, <1>3
  <2>2. s[a] = s[b]
    BY <1>1, <1>4, <2>1
  <2>3. a = b
    BY <1>1, <2>2 DEF IsInjective
  <2> QED BY <2>1, <2>3
<1> QED BY <1>4 DEF IsInjective, r

\* restrict()
LEMMA ProjectProper ==
  ASSUME NEW g, g # None, WellFormed(g), Proper(g), NEW perms \in SUBSET g.perms,
         NEW K \in SUBSET Support(g), \A p \in perms : \A a \in K : p[a] \in K
  PROVE  /\ Proper(Project(g, perms, K))
         /\ Project(g, perms, K) # None =>
              /\ WellFormed(Project(g, perms, K))
              /\ \A a : a \in Support(Project(g, perms, K)) <=> a \in K
<1> DEFINE h == Project(g, perms, K)
           x == Without(g.axes, {i \in DOMAIN g.axes : g.axes[i] \notin K})
           P == {Restrict(p, K) : p \in perms}
<1>1. h = Group(x, P)
  BY DEF Project
<1>2. IsInjective(x)
  BY WithoutInjective DEF Proper, WellFormed
<1>3. h # None => WellFormed(h) /\ \A a : a \in Support(h) <=> a \in K
  BY ProjectFits
<1> HIDE DEF x, P
<1>4. Proper(h)
  BY <1>1, <1>2, <1>3, GroupProper
<1> QED BY <1>3, <1>4

\* Permutations that map a set of axes to itself.
LEMMA StabilizingMaps ==
  ASSUME NEW g, WellFormed(g), NEW K
  PROVE  /\ Stabilizing(g, K) \in SUBSET g.perms
         /\ \A p \in Stabilizing(g, K) :
              /\ \A a \in K \cap Support(g) : p[a] \in K \cap Support(g)
              /\ \A a \in Support(g) \ K : p[a] \in Support(g) \ K
<1> DEFINE L == K \cap Support(g)
<1>1. Stabilizing(g, K) = {p \in g.perms : {p[a] : a \in L} = L}
  BY DEF Stabilizing
<1>2. ASSUME NEW p \in Stabilizing(g, K)
      PROVE  /\ \A a \in L : p[a] \in L
             /\ \A a \in Support(g) \ K : p[a] \in Support(g) \ K
  <2>1. p \in g.perms /\ {p[a] : a \in L} = L
    BY <1>1
  <2>2. p \in [Support(g) -> Support(g)] /\ \A a, b \in Support(g) : p[a] = p[b] => a = b
    BY <2>1 DEF WellFormed
  <2>3. \A a \in L : p[a] \in L
    BY <2>1
  <2>4. ASSUME NEW a \in Support(g) \ K, p[a] \in L PROVE FALSE
    <3>1. PICK b \in L : p[b] = p[a]
      BY <2>1, <2>4
    <3> QED BY <2>2, <3>1
  <2> QED BY <2>2, <2>3, <2>4
<1> QED BY <1>1, <1>2

\* restrict_group_to_axes()
LEMMA RestrictToProper ==
  ASSUME NEW g, g # None, WellFormed(g), Proper(g), NEW K \in SUBSET Support(g)
  PROVE  /\ Proper(RestrictTo(g, K))
         /\ RestrictTo(g, K) # None =>
              WellFormed(RestrictTo(g, K)) /\ Support(RestrictTo(g, K)) \subseteq K
<1> DEFINE perms == Stabilizing(g, K)
<1>1. /\ perms \in SUBSET g.perms
      /\ \A p \in perms : \A a \in K : p[a] \in K
  BY StabilizingMaps
<1>2. RestrictTo(g, K) = Project(g, perms, K)
  BY DEF RestrictTo
<1> HIDE DEF perms
<1> QED BY <1>1, <1>2, ProjectProper

\* intersect_groups()
LEMMA IntersectProper ==
  ASSUME NEW g, NEW h, NEW n \in Nat, Proper(g),
         g # None => WellFormed(g) /\ Support(g) \subseteq 1 .. n,
         h # None => WellFormed(h) /\ Support(h) \subseteq 1 .. n
  PROVE  Proper(Intersect(g, h, n))
<1> DEFINE r == Intersect(g, h, n)
<1> SUFFICES ASSUME r # None PROVE Proper(r)
  BY DEF Proper
<1>1. g # None /\ h # None
  BY DEF Intersect
<1>2. WellFormed(r)
  BY <1>1, IntersectFits
<1>3. CASE g.axes = h.axes
  <2>1. r = Group(g.axes, g.perms \cap h.perms)
    BY <1>1, <1>3 DEF Intersect
  <2> HIDE DEF r
  <2> QED BY <1>1, <1>2, <2>1, GroupProper DEF Proper
<1>4. CASE g.axes # h.axes
  <2> DEFINE x == [a \in 1 .. n |-> a]
             P == {Embed(p, n) : p \in g.perms} \cap {Embed(p, n) : p \in h.perms}
  <2>1. r = Group(x, P)
    BY <1>1, <1>4 DEF Intersect
  <2>2. IsInjective(x)
    BY DEF IsInjective
  <2> HIDE DEF r, x, P
  <2> QED BY <1>2, <2>1, <2>2, GroupProper
<1> QED BY <1>3, <1>4

\* SymmetryGroup.symmetric() of blocks of axes.
LEMMA ByExtentProper ==
  ASSUME NEW out \in Seq(Nat), NEW N \in SUBSET Axes(out)
  PROVE  Proper(ByExtent(out, N))
<1> DEFINE h == ByExtent(out, N)
           L == {a \in N : \E b \in N \ {a} : out[a] = out[b]}
           P == {p \in Bijection(L, L) : \A a \in L : out[p[a]] = out[a]}
<1>1. h = Group(Sorted(L), P)
  BY DEF ByExtent
<1>2. L \in SUBSET Nat /\ IsFiniteSet(L)
  <2>1. L \in SUBSET Axes(out) /\ Axes(out) = 1 .. Len(out) /\ Len(out) \in Nat
    BY ShapeFacts
  <2> HIDE DEF L
  <2>2. IsFiniteSet(L)
    <3>1. IsFiniteSet(1 .. Len(out))
      BY <2>1, FS_Interval
    <3> QED BY <2>1, <3>1, FS_Subset
  <2> QED BY <2>1, <2>2
<1>3. IsInjective(Sorted(L))
  <2> HIDE DEF L
  <2> DEFINE x == Sorted(L)
  <2>1. /\ Len(x) \in Nat /\ Axes(x) = 1 .. Len(x) /\ \A k \in Axes(x) : x[k] \in Nat
        /\ \A i, j \in Axes(x) : i < j => x[i] < x[j]
    BY <1>2, SortedIncreases
  <2>2. DOMAIN x = Axes(x)
    BY <1>2, SortedLists, ShapeFacts
  <2> HIDE DEF x
  <2>3. ASSUME NEW i \in 1 .. Len(x), NEW j \in 1 .. Len(x), x[i] = x[j] PROVE i = j
    <3>1. x[i] \in Nat /\ x[j] \in Nat /\ (i < j => x[i] < x[j]) /\ (j < i => x[j] < x[i])
      BY <2>1
    <3> QED BY <2>1, <2>3, <3>1
  <2> QED BY <2>1, <2>2, <2>3 DEF IsInjective, x
<1>4. h # None => WellFormed(h)
  BY ByExtentFits
<1> HIDE DEF L, P
<1> QED BY <1>1, <1>3, <1>4, GroupProper

\* direct_product_groups()
LEMMA DirectProductProper ==
  ASSUME NEW g, NEW h, Proper(g), Proper(h), NEW out,
         g # None /\ h # None => Apart(g, h, out)
  PROVE  Proper(DirectProduct(g, h))
<1>1. CASE g = None \/ h = None
  BY <1>1 DEF DirectProduct
<1>2. CASE g # None /\ h # None
  <2> DEFINE r == Factors(g, h)
             x == g.axes
             y == h.axes
  <2>1. DirectProduct(g, h) = r
    BY <1>2 DEF DirectProduct
  <2>2. r.axes = x \o y /\ Apart(g, h, out)
    <3> DEFINE z == x \o y
               P == {Both(p, q) : p \in g.perms, q \in h.perms}
    <3>1. r = [axes |-> z, perms |-> P]
      BY DEF Factors
    <3> HIDE DEF r, z, P
    <3>2. r.axes = z
      BY <3>1
    <3> QED BY <1>2, <3>2 DEF z
  <2>3. /\ x \in Seq(Nat) /\ y \in Seq(Nat) /\ IsInjective(x) /\ IsInjective(y)
        /\ Cardinality(g.perms) > 1 /\ Cardinality(h.perms) > 1
        /\ Cardinality(g.perms) \in Nat /\ Cardinality(h.perms) \in Nat
    BY <1>2, <2>2, PermsFinite DEF Proper, Apart, WellFormed
  <2>4. \A i \in DOMAIN x : \A j \in DOMAIN y : x[i] # y[j]
    BY <2>2 DEF Apart, Support, Range
  <2>5. Cardinality(r.perms) = Cardinality(g.perms) * Cardinality(h.perms)
    BY <2>2, FactorsOrder
  <2> HIDE DEF r, x, y
  <2>6. Cardinality(r.perms) > 1
    <3> DEFINE u == Cardinality(g.perms)
               v == Cardinality(h.perms)
    <3>1. u \in Nat /\ v \in Nat /\ u > 1 /\ v > 1
      BY <2>3
    <3> HIDE DEF u, v
    <3>2. u * v > 1
      BY <3>1
    <3> QED BY <2>5, <3>2 DEF u, v
  <2>7. IsInjective(x \o y)
    <3> DEFINE m == Len(x)
               n == Len(y)
               z == x \o y
    <3>1. /\ m \in Nat /\ n \in Nat /\ DOMAIN x = 1 .. m /\ DOMAIN y = 1 .. n
          /\ DOMAIN z = 1 .. m + n
          /\ \A i \in 1 .. m + n : z[i] = IF i <= m THEN x[i] ELSE y[i - m]
      BY <2>3
    <3>2. /\ \A i, j \in 1 .. m : x[i] = x[j] => i = j
          /\ \A i, j \in 1 .. n : y[i] = y[j] => i = j
      BY <2>3, <3>1 DEF IsInjective
    <3> HIDE DEF m, n, z
    <3>3. ASSUME NEW i \in 1 .. m + n, NEW j \in 1 .. m + n, z[i] = z[j] PROVE i = j
      <4>1. CASE i <= m /\ j <= m
        <5>1. z[i] = x[i] /\ z[j] = x[j] /\ i \in 1 .. m /\ j \in 1 .. m
          BY <3>1, <4>1
        <5> QED BY <3>2, <3>3, <5>1
      <4>2. CASE ~ (i <= m) /\ ~ (j <= m)
        <5>1. z[i] = y[i - m] /\ z[j] = y[j - m] /\ i - m \in 1 .. n /\ j - m \in 1 .. n
          BY <3>1, <4>2
        <5>2. i - m = j - m
          BY <3>2, <3>3, <5>1
        <5> QED BY <3>1, <5>2
      <4>3. CASE i <= m /\ ~ (j <= m)
        <5>1. z[i] = x[i] /\ z[j] = y[j - m] /\ i \in 1 .. m /\ j - m \in 1 .. n
          BY <3>1, <4>3
        <5> QED BY <2>4, <3>1, <3>3, <5>1
      <4>4. CASE ~ (i <= m) /\ j <= m
        <5>1. z[i] = y[i - m] /\ z[j] = x[j] /\ i - m \in 1 .. n /\ j \in 1 .. m
          BY <3>1, <4>4
        <5> QED BY <2>4, <3>1, <3>3, <5>1
      <4> QED BY <4>1, <4>2, <4>3, <4>4
    <3> QED BY <3>1, <3>3 DEF IsInjective, z
  <2> QED BY <2>1, <2>2, <2>3, <2>6, <2>7 DEF Proper
<1> QED BY <1>1, <1>2

\* Values are named by cells of the array.
LEMMA NamedInto ==
  ASSUME NEW val
  PROVE  Named(val) \in [DOMAIN val -> DOMAIN val]
<1> DEFINE graph == {<<c, val[c]>> : c \in DOMAIN val}
           Name(c) == CHOOSE e \in graph : <<c, e[2]>> \in graph
<1>1. Named(val) = [c \in DOMAIN val |-> Name(c)[1]]
  BY DEF Named
<1>2. ASSUME NEW c \in DOMAIN val PROVE Name(c)[1] \in DOMAIN val
  <2>1. <<c, val[c]>> \in graph /\ <<c, val[c]>>[2] = val[c]
    OBVIOUS
  <2>2. \E e \in graph : <<c, e[2]>> \in graph
    <3> HIDE DEF graph
    <3> QED BY <2>1
  <2>3. Name(c) \in graph
    <3> HIDE DEF graph
    <3> QED BY <2>2
  <2>4. \A e \in graph : e[1] \in DOMAIN val
    OBVIOUS
  <2> HIDE DEF graph, Name
  <2> QED BY <2>3, <2>4
<1> HIDE DEF Name
<1> QED BY <1>1, <1>2

\* What an honest array has besides.
LEMMA HonestOK ==
  ASSUME NEW x, Honest(x), Len(x.shape) <= MaxRank, NEW val, x.val = Named(val),
         Proper(x.tag), x.kind \in {"plain", "declared", "inferred"}, x.sound \in BOOLEAN
  PROVE  ArrayOK(x)
<1>1. /\ x.shape \in Seq(Nat) /\ DOMAIN x.val = Cells(x.shape)
      /\ Fits(x.tag, Len(x.shape)) /\ Len(x.shape) \in Nat /\ Axes(x.shape) = 1 .. Len(x.shape)
  BY DEF Honest, Typed, Axes
<1>2. DOMAIN val = DOMAIN x.val
  BY DEF Named
<1>3. x.val \in [Cells(x.shape) -> Cells(x.shape)]
  BY <1>1, <1>2, NamedInto
<1>4. ASSUME x.tag # None
      PROVE  /\ Support(x.tag) \subseteq Axes(x.shape)
             /\ \A p \in x.tag.perms : DOMAIN p = Support(x.tag) /\ Range(p) = Support(x.tag)
  <2>1. Support(x.tag) \subseteq 1 .. Len(x.shape) /\ WellFormed(x.tag)
    BY <1>1, <1>4 DEF Fits
  <2>2. ASSUME NEW p \in x.tag.perms PROVE DOMAIN p = Support(x.tag) /\ Range(p) = Support(x.tag)
    <3>1. /\ p \in [Support(x.tag) -> Support(x.tag)]
          /\ \A a, b \in Support(x.tag) : p[a] = p[b] => a = b
      BY <2>1 DEF WellFormed
    <3>2. \A b \in Support(x.tag) : \E a \in Support(x.tag) : p[a] = b
      BY <1>1, <2>1, <3>1, PermutationOnto
    <3> QED BY <3>1, <3>2 DEF Range
  <2> QED BY <1>1, <2>1, <2>2
<1> QED BY <1>1, <1>3, <1>4 DEF ArrayOK

\* A new array with a proper group.
LEMMA MakesOK ==
  ASSUME TypeOK, Honest(array'), NEW op \in Operations, NEW s, NEW val, NEW g, NEW right,
         Proper(g), Makes(op, s, val, g, right)
  PROVE  TypeOK'
<1> DEFINE x == Made(s, val, g, right /\ array.sound)
<1>1. /\ array' = x /\ Len(s) <= MaxRank
      /\ did' = op /\ ops < MaxOps /\ ops' = ops + 1
  BY DEF Makes
<1>2. /\ x.shape = s /\ x.val = Named(val) /\ x.tag = g
      /\ x.kind \in {"plain", "declared", "inferred"} /\ x.sound \in BOOLEAN
  BY DEF Made
<1> HIDE DEF x
<1>3. ArrayOK(array')
  BY <1>1, <1>2, HonestOK
<1>4. ops' \in 0 .. MaxOps
  BY <1>1, BoundsAssumption DEF TypeOK
<1> QED BY <1>1, <1>3, <1>4 DEF TypeOK

\* A destination that is written, or left as it is, with a proper group.
LEMMA IntoOK ==
  ASSUME TypeOK, Honest(array'), NEW op \in Operations, NEW d, Honest(d), ArrayOK(d),
         NEW s, NEW val, NEW g, Proper(g), Into(op, d, s, val, g)
  PROVE  TypeOK'
<1>1. PICK finite \in BOOLEAN :
        array' = IF Refuses(d, g) THEN d ELSE Written(d, val, g, finite)
  BY DEF Into
<1>2. did' = op /\ ops < MaxOps /\ ops' = ops + 1
  BY DEF Into
<1>3. DOMAIN d = {"shape", "val", "tag", "kind", "sound"}
  BY DEF Honest, Typed
<1>4. Proper(Prepared(d, g)) /\ Proper(None) /\ Proper(d.tag)
  BY DEF Prepared, Proper, ArrayOK
<1>5. \/ array' = d
      \/ /\ array'.val = Named(val) /\ array'.sound = TRUE
         /\ array'.shape = d.shape /\ array'.kind = d.kind
         /\ array'.tag \in {d.tag, None, Prepared(d, g)}
  BY <1>1, <1>3 DEF Written
<1>6. Len(d.shape) <= MaxRank /\ d.kind \in {"plain", "declared", "inferred"}
  BY DEF ArrayOK
<1>7. ArrayOK(array')
  <2>1. CASE array' = d
    BY <2>1
  <2>2. CASE array' # d
    <3>1. Proper(array'.tag)
      BY <1>4, <1>5, <2>2
    <3> QED BY <1>5, <1>6, <2>2, <3>1, HonestOK
  <2> QED BY <2>1, <2>2
<1>8. ops' \in 0 .. MaxOps
  BY <1>2, BoundsAssumption DEF TypeOK
<1> QED BY <1>2, <1>7, <1>8 DEF TypeOK

\* The result of a counted operation with a proper group, new or in a destination.
LEMMA DeliversOK ==
  ASSUME TypeOK, Honest(array), Honest(array'), NEW op \in Operations,
         NEW s, NEW val, NEW g, NEW right, Proper(g), Delivers(op, s, val, g, right)
  PROVE  TypeOK'
<1>1. CASE Makes(op, s, val, g, right)
  BY <1>1, MakesOK
<1>2. ASSUME NEW d \in Destinations \cup {array}, Into("out", d, s, val, g)
      PROVE  TypeOK'
  <2>1. Honest(d) /\ ArrayOK(d)
    BY ArraysAssumption DEF TypeOK
  <2>2. "out" \in Operations
    BY DEF Operations
  <2> QED BY <1>2, <2>1, <2>2, IntoOK
<1> QED BY <1>1, <1>2 DEF Delivers

\* What an array of a program is known to be.
LEMMA TagFacts ==
  ASSUME NEW x, Honest(x), ArrayOK(x)
  PROVE  /\ x.shape \in Seq(Nat) /\ Len(x.shape) \in Nat
         /\ Axes(x.shape) = 1 .. Len(x.shape)
         /\ DOMAIN x.val = Cells(x.shape)
         /\ Fits(x.tag, Len(x.shape)) /\ Proper(x.tag)
BY DEF Honest, Typed, ArrayOK, Axes

\* All axes are renumbered one to one.
LEMMA MovedProper ==
  ASSUME NEW g, NEW n, Fits(g, n), Proper(g),
         NEW to, \A a, b \in 1 .. n : to[a] = to[b] => a = b
  PROVE  Proper(Remap(g, to))
BY RemapProper DEF Fits

\* Moving axes.
LEMMA TransposeOK ==
  ASSUME TypeOK, Honest(array), Honest(array'),
         NEW order \in Bijection(All, All), Transpose(order)
  PROVE  TypeOK'
<1> DEFINE h == TransportTranspose(array.tag, order)
           t == TransposedShape(array.shape, order)
           data == TransposedData(array.shape, array.val, order)
           to == AntiFunction(order)
<1>1. Makes("transpose", t, data, h, TRUE) /\ "transpose" \in Operations
  BY DEF Transpose, Operations
<1>2. \A a, b \in All : to[a] = to[b] => a = b
  BY OrderInverts
<1>3. Fits(array.tag, Len(array.shape)) /\ Proper(array.tag) /\ All = 1 .. Len(array.shape)
  BY TagFacts DEF TypeOK, All
<1>4. h = Remap(array.tag, to)
  BY DEF TransportTranspose
<1> HIDE DEF h, t, data, to
<1>5. Proper(h)
  BY <1>2, <1>3, <1>4, MovedProper
<1> QED BY <1>1, <1>5, MakesOK

\* reshape()
LEMMA ReshapeOK ==
  ASSUME TypeOK, Honest(array), Honest(array'), NEW out \in Seq(Nat), Reshape(out)
  PROVE  TypeOK'
<1> DEFINE s == array.shape
           g == array.tag
           h == TransportReshape(g, s, out)
           data == [c \in Cells(out) |->
                      array.val[CHOOSE d \in Cells(s) : Offset(s, d) = Offset(out, c)]]
           right == SameExtents(g, s)
<1>1. Makes("reshape", out, data, h, right) /\ "reshape" \in Operations
  BY DEF Reshape, Operations
<1>2. s \in Seq(Nat) /\ Fits(g, Len(s)) /\ Proper(g)
  BY TagFacts DEF TypeOK
<1> HIDE DEF s, g, h, data, right
<1>3. ASSUME h # None PROVE Proper(h)
  <2>1. PICK A, o, to : Carried(g, s, out, A, o, to, h)
    BY <1>2, <1>3, ReshapeRule DEF h
  <2>2. ASSUME NEW a \in Support(g), NEW b \in Support(g), to[a] = to[b] PROVE a = b
    <3>1. PICK i \in 1 .. Len(A), j \in 1 .. Len(A) : A[i] = a /\ A[j] = b
      BY <2>1 DEF Carried
    <3>2. o[i] = o[j]
      BY <2>1, <2>2, <3>1 DEF Carried
    <3>3. i = j
      BY <2>1, <3>2 DEF Carried
    <3> QED BY <3>1, <3>3
  <2>3. h = Remap(g, to) /\ g # None
    BY <2>1 DEF Carried
  <2> QED BY <1>2, <2>2, <2>3, RemapProper DEF Fits
<1>4. Proper(h)
  BY <1>3 DEF Proper
<1> QED BY <1>1, <1>4, MakesOK

\* squeeze()
LEMMA SqueezeOK ==
  ASSUME TypeOK, Honest(array), Honest(array'), NEW K \in SUBSET All, Squeeze(K)
  PROVE  TypeOK'
<1> DEFINE s == array.shape
           g == array.tag
           out == Without(s, K)
           h == TransportSqueeze(g, s, K)
           data == [c \in Cells(out) |-> array.val[Extended(s, K, c, Zeros(s))]]
           to == Removing(s, K)
<1>1. Makes("squeeze", out, data, h, TRUE) /\ "squeeze" \in Operations
  BY DEF Squeeze, Operations
<1>2. s \in Seq(Nat) /\ Len(s) \in Nat /\ Axes(s) = 1 .. Len(s) /\ Fits(g, Len(s)) /\ Proper(g)
  BY TagFacts DEF TypeOK
<1>3. \A a, b \in Axes(s) \ K : to[a] = to[b] => a = b
  BY <1>2, RemovingNumbers, ZenonT(30)
<1> HIDE DEF s, g, out, h, data, to
<1>4. CASE h = None
  <2>1. Proper(h)
    BY <1>4 DEF Proper
  <2> QED BY <1>1, <2>1, MakesOK
<1>5. CASE h # None
  <2>1. g # None /\ K \cap Support(g) = {} /\ h = Remap(g, to)
    BY <1>5 DEF h, TransportSqueeze, to
  <2>2. Support(g) \subseteq Axes(s) \ K
    BY <1>2, <2>1 DEF Fits
  <2>3. Proper(h)
    BY <1>2, <1>3, <2>1, <2>2, RemapProper DEF Fits
  <2> QED BY <1>1, <2>3, MakesOK
<1> QED BY <1>4, <1>5

\* Permutations that leave a set of axes where it is.
LEMMA FixingMaps ==
  ASSUME NEW g, WellFormed(g), NEW K
  PROVE  /\ Fixing(g, K) \in SUBSET g.perms
         /\ \A p \in Fixing(g, K) : \A a \in Support(g) \ K : p[a] \in Support(g) \ K
<1>1. Fixing(g, K) = {p \in g.perms : \A a \in K \cap Support(g) : p[a] = a}
  BY DEF Fixing
<1>2. ASSUME NEW p \in Fixing(g, K), NEW a \in Support(g) \ K
      PROVE  p[a] \in Support(g) \ K
  <2>1. p \in [Support(g) -> Support(g)] /\ \A b, c \in Support(g) : p[b] = p[c] => b = c
    BY <1>1 DEF WellFormed
  <2>2. \A b \in K \cap Support(g) : p[b] = b
    BY <1>1
  <2>3. p[a] \in Support(g)
    BY <2>1
  <2>4. ASSUME p[a] \in K PROVE FALSE
    <3>1. p[p[a]] = p[a]
      BY <2>2, <2>3, <2>4
    <3>2. p[a] = a
      BY <2>1, <2>3, <3>1
    <3> QED BY <2>4, <3>2
  <2> QED BY <2>3, <2>4
<1> QED BY <1>1, <1>2

\* propagate_symmetry_slice()
LEMMA SliceProper ==
  ASSUME NEW n, NEW g, Fits(g, n), Proper(g), NEW removed, NEW resized,
         NEW h, h = SliceGroup(g, removed, resized)
  PROVE  /\ Proper(h)
         /\ h # None => /\ WellFormed(h) /\ g # None
                        /\ Support(h) \subseteq Support(g) \ removed
<1>1. CASE h = None
  BY <1>1 DEF Proper
<1>2. CASE h # None
  <2> DEFINE perms == Fixing(g, removed)
             K == Support(g) \ removed
  <2>1. g # None /\ h = Project(g, perms, K)
    BY <1>2 DEF SliceGroup
  <2>2. WellFormed(g)
    BY <2>1 DEF Fits
  <2>3. perms \in SUBSET g.perms /\ \A p \in perms : \A a \in K : p[a] \in K
    BY <2>2, FixingMaps
  <2>4. K \in SUBSET Support(g)
    OBVIOUS
  <2> HIDE DEF perms, K
  <2> QED BY <1>2, <2>1, <2>2, <2>3, <2>4, ProjectProper DEF K
<1> QED BY <1>1, <1>2

\* __getitem__()
LEMMA GetItemOK ==
  ASSUME TypeOK, Honest(array), Honest(array'), NEW at, NEW cut, GetItem(at, cut)
  PROVE  TypeOK'
<1> DEFINE s == array.shape
           g == array.tag
           out == Without([k \in Axes(s) |-> cut[k].size], at)
           resized == {k \in Axes(s) \ at : ~ cut[k].all}
           From(c) == LET d == Extended(s, at, c, Zeros(s)) IN
                      [k \in Axes(s) |-> cut[k].kept[d[k]]]
           data == [c \in Cells(out) |-> array.val[From(c)]]
           f == SliceGroup(g, at, resized)
           to == Removing(s, at)
           h == Remap(f, to)
<1>1. Makes("getitem", out, data, h, TRUE) /\ "getitem" \in Operations
  BY DEF GetItem, Operations
<1>2. s \in Seq(Nat) /\ Len(s) \in Nat /\ Axes(s) = 1 .. Len(s) /\ Fits(g, Len(s)) /\ Proper(g)
  BY TagFacts DEF TypeOK
<1>3. \A a, b \in Axes(s) \ at : to[a] = to[b] => a = b
  BY <1>2, RemovingNumbers, ZenonT(30)
<1>4. /\ Proper(f)
      /\ f # None => WellFormed(f) /\ g # None /\ Support(f) \subseteq Support(g) \ at
  <2> HIDE DEF g, s, resized
  <2> QED BY <1>2, SliceProper
<1> HIDE DEF s, g, out, data, f, h, to
<1>5. f # None => Support(f) \subseteq Axes(s) \ at
  BY <1>2, <1>4 DEF Fits
<1>6. Proper(h)
  BY <1>3, <1>4, <1>5, RemapProper DEF h
<1> QED BY <1>1, <1>6, MakesOK

\* split() and its like.
LEMMA SplitOK ==
  ASSUME TypeOK, Honest(array), Honest(array'), NEW a, NEW lo, NEW hi, Split(a, lo, hi)
  PROVE  TypeOK'
<1> DEFINE g == array.tag
           out == [array.shape EXCEPT ![a] = hi - lo]
           data == [c \in Cells(out) |-> array.val[[c EXCEPT ![a] = @ + lo]]]
           h == TransportSplit(g, a)
<1>1. Makes("split", out, data, h, TRUE) /\ "split" \in Operations
  BY DEF Split, Operations
<1>2. Fits(g, Len(array.shape)) /\ Proper(g)
  BY TagFacts DEF TypeOK
<1>3. Proper(h)
  <2>1. CASE g = None
    BY <2>1 DEF TransportSplit, Proper
  <2>2. CASE g # None
    <3>1. h = RestrictTo(g, Support(g) \ {a})
      BY <2>2 DEF TransportSplit
    <3> HIDE DEF g, h
    <3> QED BY <1>2, <2>2, <3>1, RestrictToProper DEF Fits
  <2> QED BY <2>1, <2>2
<1> HIDE DEF out, data, h
<1> QED BY <1>1, <1>3, MakesOK

\* flip()
LEMMA FlipOK ==
  ASSUME TypeOK, Honest(array), Honest(array'), NEW F, Flip(F)
  PROVE  TypeOK'
<1> DEFINE g == array.tag
           data == FlippedData(array.shape, array.val, F)
           h == TransportFlip(g, F)
<1>1. Makes("flip", array.shape, data, h, TRUE) /\ "flip" \in Operations
  BY DEF Flip, Operations
<1>2. Fits(g, Len(array.shape)) /\ Proper(g)
  BY TagFacts DEF TypeOK
<1>3. Proper(h)
  <2> HIDE DEF g
  <2>1. CASE h = g \/ h = None
    BY <1>2, <2>1 DEF Proper
  <2>2. CASE h # g /\ h # None
    <3> DEFINE x == g.axes
               P == Stabilizing(g, F)
    <3>1. g # None /\ h = Group(x, P)
      BY <2>2 DEF TransportFlip
    <3>2. WellFormed(g) /\ IsInjective(x)
      BY <1>2, <3>1 DEF Fits, Proper
    <3>3. P \in SUBSET g.perms
      BY <3>2, StabilizingMaps
    <3>4. h = [axes |-> x, perms |-> P]
      BY <2>2, <3>1 DEF Group
    <3>5. WellFormed(h)
      <4>1. h.axes = x /\ h.perms = P
        BY <3>4
      <4>2. Support(h) = Support(g)
        BY <4>1 DEF Support
      <4> HIDE DEF h, P
      <4> QED BY <3>2, <3>3, <4>1, <4>2 DEF WellFormed
    <3> HIDE DEF h, P, x
    <3> QED BY <3>1, <3>2, <3>5, GroupProper
  <2> QED BY <2>1, <2>2
<1> HIDE DEF g, data, h
<1> QED BY <1>1, <1>3, MakesOK

\* repeat() and roll()
LEMMA AlongOK ==
  ASSUME TypeOK, Honest(array), Honest(array'), NEW a, Repeat(a) \/ Roll(a)
  PROVE  TypeOK'
<1> DEFINE h == TransportAlong(array.tag, a)
<1>1. \E op \in {"repeat", "roll"} : \E out, data : Makes(op, out, data, h, TRUE)
  BY DEF Repeat, Roll
<1>2. Proper(array.tag)
  BY TagFacts DEF TypeOK
<1>3. Proper(h)
  BY <1>2 DEF TransportAlong, Proper
<1> HIDE DEF h
<1>4. "repeat" \in Operations /\ "roll" \in Operations
  BY DEF Operations
<1> QED BY <1>1, <1>3, <1>4, MakesOK

\* _counted_unary
LEMMA UnaryOK ==
  ASSUME TypeOK, Honest(array), Honest(array'), Unary
  PROVE  TypeOK'
<1>1. Proper(array.tag) /\ "unary" \in Operations
  BY TagFacts DEF TypeOK, Operations
<1> QED BY <1>1, DeliversOK DEF Unary

\* expand_dims()
LEMMA ExpandDimsOK ==
  ASSUME TypeOK, Honest(array), Honest(array'), NEW N, IsFiniteSet(N),
         N \subseteq 1 .. Rank + Cardinality(N), ExpandDims(N)
  PROVE  TypeOK'
<1> DEFINE s == array.shape
           tag == array.tag
<1>1. PICK out, data, to :
        /\ Makes("expand_dims", out, data,
                 DirectProduct(Remap(tag, to), ByExtent(out, N)), TRUE)
        /\ Expanded(s, N, out) /\ Inserts(s, N, out, to)
  BY ExpandDimsMakes
<1>2. Axes(s) = 1 .. Len(s) /\ Fits(tag, Len(s)) /\ Proper(tag)
  BY TagFacts DEF TypeOK
<1> DEFINE g == Remap(tag, to)
           h == ByExtent(out, N)
           r == DirectProduct(g, h)
<1> HIDE DEF s, tag
<1>3. out \in Seq(Nat) /\ N \in SUBSET Axes(out)
  BY <1>1 DEF Expanded
<1>4. Proper(g)
  <2>1. \A a, b \in 1 .. Len(s) : to[a] = to[b] => a = b
    BY <1>1, <1>2, InsertedCells DEF Moves
  <2> QED BY <1>2, <2>1, MovedProper
<1>5. g # None => WellFormed(g) /\ Support(g) \subseteq Axes(out) \ N
  <2>1. g # None => tag # None
    BY DEF Remap
  <2> QED BY <1>1, <1>2, <2>1, InsertedFits
<1>6. Proper(h) /\ (h # None => WellFormed(h) /\ Support(h) \subseteq N)
  BY <1>3, ByExtentProper, ByExtentFits
<1>7. Makes("expand_dims", out, data, r, TRUE) /\ "expand_dims" \in Operations
  BY <1>1 DEF Operations
<1> HIDE DEF g, h
<1>8. g # None /\ h # None => Apart(g, h, out)
  BY <1>3, <1>5, <1>6 DEF Apart
<1>9. Proper(r)
  BY <1>4, <1>6, <1>8, DirectProductProper
<1> HIDE DEF r
<1> QED BY <1>7, <1>9, MakesOK

\* An array or an operand that is broadcast.
LEMMA BroadcastProper ==
  ASSUME NEW s, NEW val, NEW out, NEW data, NEW g, Broadcasts(s, val, out, data),
         Fits(g, Len(s)), Proper(g), BroadcastAccepts(g, s, out)
  PROVE  Proper(BroadcastGroup(g, s, out))
<1> DEFINE n == Len(out) - Len(s)
           N == 1 .. n
           U == Unstretched(g, s, out)
           kept == IF g = None \/ Cardinality(U) < 2 THEN None ELSE Project(g, g.perms, U)
           to == Shifted(1 .. Len(s), n)
           h == Stretched(g, s, out)
           new == ByExtent(out, N)
<1>1. /\ s \in Seq(Nat) /\ out \in Seq(Nat) /\ Len(s) <= Len(out)
      /\ Len(s) \in Nat /\ Len(out) \in Nat /\ n \in Nat
      /\ Axes(out) = 1 .. Len(out)
  BY ShapeFacts DEF Broadcasts, Stretches
<1>2. /\ BroadcastGroup(g, s, out) = DirectProduct(new, h)
      /\ h = Remap(kept, to)
  BY DEF BroadcastGroup, Stretched
<1>3. /\ Proper(kept)
      /\ kept # None => /\ g # None /\ WellFormed(kept)
                        /\ Support(kept) \subseteq Support(g)
  <2>1. CASE g = None \/ Cardinality(U) < 2
    BY <2>1 DEF Proper
  <2>2. CASE ~ (g = None \/ Cardinality(U) < 2)
    <3>1. kept = Project(g, g.perms, U) /\ g # None /\ WellFormed(g)
      BY <2>2 DEF Fits
    <3>2. U \in SUBSET Support(g)
      BY DEF Unstretched
    <3>3. Cardinality(U) \in Nat
      <4>1. U \subseteq 1 .. Len(s) /\ IsFiniteSet(1 .. Len(s))
        BY <1>1, <3>1, <3>2, FS_Interval DEF Fits
      <4> HIDE DEF U
      <4> QED BY <4>1, FS_Subset, FS_CardinalityType
    <3>4. \A p \in g.perms : {p[a] : a \in U} = U
      BY <2>2, <3>3 DEF BroadcastAccepts
    <3>5. \A p \in g.perms : \A a \in U : p[a] \in U
      BY <3>4
    <3> DEFINE perms == g.perms
    <3> HIDE DEF U, kept, perms
    <3>6. /\ Proper(Project(g, perms, U))
          /\ Project(g, perms, U) # None =>
               /\ WellFormed(Project(g, perms, U))
               /\ \A a : a \in Support(Project(g, perms, U)) <=> a \in U
      BY <3>1, <3>2, <3>5, ProjectProper DEF perms
    <3> QED BY <3>1, <3>2, <3>6 DEF perms
  <2> QED BY <2>1, <2>2
<1> HIDE DEF U, kept
<1>4. Proper(h)
  <2>1. \A a \in 1 .. Len(s) : to[a] = a + n
    BY DEF Shifted
  <2>2. \A a, b \in 1 .. Len(s) : to[a] = to[b] => a = b
    BY <1>1, <2>1
  <2>3. kept # None => \A a \in Support(kept) : a \in 1 .. Len(s)
    BY <1>3 DEF Fits
  <2> HIDE DEF to
  <2> QED BY <1>2, <1>3, <2>2, <2>3, RemapProper
<1>5. h # None => WellFormed(h) /\ Support(h) \subseteq Axes(out) \ N
  BY StretchedHolds
<1>6. N \in SUBSET Axes(out)
  BY <1>1
<1>7. Proper(new) /\ (new # None => WellFormed(new) /\ Support(new) \subseteq N)
  BY <1>1, <1>6, ByExtentProper, ByExtentFits
<1> HIDE DEF N, h, new
<1>8. h # None /\ new # None => Apart(new, h, out)
  BY <1>5, <1>6, <1>7 DEF Apart
<1> QED BY <1>2, <1>4, <1>7, <1>8, DirectProductProper

\* broadcast_to()
LEMMA BroadcastToOK ==
  ASSUME TypeOK, Honest(array), Honest(array'), NEW out \in Seq(Nat), BroadcastTo(out)
  PROVE  TypeOK'
<1> DEFINE s == array.shape
           val == array.val
           g == array.tag
           data == [c \in Cells(out) |-> val[Narrowed(s, c)]]
           b == BroadcastGroup(g, s, out)
<1>1. s \in Seq(Nat) /\ DOMAIN val = Cells(s) /\ Fits(g, Len(s)) /\ Proper(g)
  BY TagFacts DEF TypeOK
<1>2. /\ Makes("broadcast_to", out, data, b, TRUE) /\ "broadcast_to" \in Operations
      /\ Compatible(s, out) /\ out = BroadcastShape(s, out) /\ BroadcastAccepts(g, s, out)
  BY DEF BroadcastTo, Operations
<1>3. Broadcasts(s, val, out, data)
  <2>1. DOMAIN data = Cells(out) /\ \A c \in Cells(out) : data[c] = val[Narrowed(s, c)]
    OBVIOUS
  <2> HIDE DEF s, val, data
  <2>2. Stretches(s, out)
    BY <1>1, <1>2, BroadcastStretches
  <2> QED BY <1>1, <2>1, <2>2 DEF Broadcasts
<1> HIDE DEF s, val, g, data
<1>4. Proper(b)
  BY <1>1, <1>2, <1>3, BroadcastProper
<1> HIDE DEF b
<1> QED BY <1>2, <1>4, MakesOK

\* concatenate()
LEMMA ConcatenateOK ==
  ASSUME TypeOK, Honest(array), Honest(array'), NEW other, Honest(other), ArrayOK(other),
         NEW axis, Concatenate(other, axis)
  PROVE  TypeOK'
<1> DEFINE s == array.shape
           n == Len(s)
           j == (axis % n) + 1
           out == [s EXCEPT ![j] = @ + other.shape[j]]
           Side(c) == IF c[j] < s[j] THEN <<1, array.val[c]>>
                      ELSE <<2, other.val[[c EXCEPT ![j] = @ - s[j]]]>>
           data == [c \in Cells(out) |-> Side(c)]
           g == array.tag
           h == other.tag
           r == TransportConcatenate(g, h, n, axis)
           right == /\ other.sound
                    /\ FindsJoinedAxis(g, n, axis)
                    /\ FindsJoinedAxis(h, n, axis)
<1>1. /\ Makes("concatenate", out, data, r, right) /\ "concatenate" \in Operations
      /\ Len(other.shape) = n
  BY DEF Concatenate, Operations
<1>2. n \in Nat /\ Fits(g, n) /\ Proper(g)
  BY TagFacts DEF TypeOK
<1>3. Fits(h, n) /\ Proper(h)
  BY <1>1, TagFacts
<1> HIDE DEF out, data, right, n, g, h
<1>4. Proper(r)
  <2>1. CASE None \in {g, h}
    BY <2>1 DEF TransportConcatenate, Proper
  <2>2. CASE None \notin {g, h}
    <3> DEFINE K == Support(g) \ {TakenOff(g, n, axis)}
               L == Support(h) \ {TakenOff(h, n, axis)}
               u == RestrictTo(g, K)
               v == RestrictTo(h, L)
    <3>1. r = Intersect(u, v, n)
      BY <2>2 DEF TransportConcatenate
    <3>2. Proper(u) /\ (u # None => WellFormed(u) /\ Support(u) \subseteq K)
      <4>1. K \in SUBSET Support(g)
        OBVIOUS
      <4> HIDE DEF K
      <4> QED BY <1>2, <2>2, <4>1, RestrictToProper DEF Fits
    <3>3. v # None => WellFormed(v) /\ Support(v) \subseteq L
      <4>1. L \in SUBSET Support(h)
        OBVIOUS
      <4> HIDE DEF L
      <4> QED BY <1>3, <2>2, <4>1, RestrictToProper DEF Fits
    <3>4. K \subseteq 1 .. n /\ L \subseteq 1 .. n
      BY <1>2, <1>3, <2>2 DEF Fits
    <3> HIDE DEF K, L, u, v, r
    <3>5. /\ u # None => WellFormed(u) /\ Support(u) \subseteq 1 .. n
          /\ v # None => WellFormed(v) /\ Support(v) \subseteq 1 .. n
      BY <3>2, <3>3, <3>4
    <3> QED BY <1>2, <3>1, <3>2, <3>5, IntersectProper
  <2> QED BY <2>1, <2>2
<1> HIDE DEF r
<1> QED BY <1>1, <1>4, MakesOK

\* stack()
LEMMA StackOK ==
  ASSUME TypeOK, Honest(array), Honest(array'), NEW other, Honest(other), ArrayOK(other),
         NEW k \in 1 .. Rank + 1, Stack(other, k)
  PROVE  TypeOK'
<1> DEFINE s == array.shape
           out == [Inserted(s, {k}) EXCEPT ![k] = 2]
           n == Len(out)
           after == [a \in 1 .. n |-> IF a < k THEN a ELSE a + 1]
           Side(c) == IF c[k] = 0 THEN <<1, array.val[Without(c, {k})]>>
                      ELSE <<2, other.val[Without(c, {k})]>>
           data == [c \in Cells(out) |-> Side(c)]
           g == Remap(array.tag, after)
           h == Remap(other.tag, after)
           r == TransportStack(array.tag, other.tag, n, k)
<1>1. /\ s \in Seq(Nat) /\ other.shape = s /\ Axes(s) = 1 .. Len(s)
      /\ Fits(array.tag, Len(s)) /\ Fits(other.tag, Len(s)) /\ Proper(array.tag)
  BY TagFacts DEF Stack, TypeOK
<1>2. Makes("stack", out, data, r, other.sound) /\ "stack" \in Operations
  BY DEF Stack, Operations
<1>3. Inserts(s, {k}, out, after)
  <2>1. Widens(s, k, 2, out)
    BY <1>1 DEF Rank, Widens
  <2> HIDE DEF out, s
  <2> QED BY <2>1, OneInserted
<1> HIDE DEF out, data
<1>4. n \in Nat /\ Axes(out) = 1 .. n
  <2> HIDE DEF after
  <2>1. out \in Seq(Nat)
    BY <1>3 DEF Inserts
  <2> QED BY <2>1, ShapeFacts
<1>5. r = Intersect(g, h, n)
  BY DEF TransportStack
<1> HIDE DEF s, n, after, r
<1>6. Proper(g)
  <2>1. \A a, b \in 1 .. Len(s) : after[a] = after[b] => a = b
    BY <1>1, <1>3, InsertedCells DEF Moves
  <2> QED BY <1>1, <2>1, MovedProper
<1>7. /\ g # None => WellFormed(g) /\ Support(g) \subseteq 1 .. n
      /\ h # None => WellFormed(h) /\ Support(h) \subseteq 1 .. n
  <2>1. (g # None => array.tag # None) /\ (h # None => other.tag # None)
    BY DEF Remap
  <2> QED BY <1>1, <1>3, <1>4, <2>1, InsertedFits
<1> HIDE DEF g, h
<1>8. Proper(r)
  BY <1>4, <1>5, <1>6, <1>7, IntersectProper
<1> QED BY <1>2, <1>8, MakesOK

\* tile()
LEMMA TileOK ==
  ASSUME TypeOK, Honest(array), Honest(array'),
         NEW m \in Rank .. Rank + 1, NEW reps \in [1 .. m -> 1 .. 2], Tile(reps)
  PROVE  TypeOK'
<1> DEFINE s == array.shape
           g == array.tag
           n == Len(reps) - Rank
           long == Aligned(s, Len(reps))
           out == [k \in Axes(long) |-> long[k] * reps[k]]
           data == [c \in Cells(out) |->
                      array.val[[k \in Axes(array.shape) |-> c[k + n] % array.shape[k]]]]
           h == TransportTile(g, n, reps)
           to == Shifted(1 .. Len(reps) - n, n)
<1>1. Makes("tile", out, data, h, TRUE) /\ "tile" \in Operations
  BY DEF Tile, Operations
<1>2. Len(s) \in Nat /\ Fits(g, Len(s)) /\ Proper(g) /\ Rank = Len(s)
  BY TagFacts DEF TypeOK, Rank
<1>3. Len(reps) = m /\ m \in Nat /\ n \in Nat /\ m - n = Len(s)
  BY <1>2
<1>4. h = None \/ h = Remap(g, to)
  BY DEF TransportTile
<1>5. \A a, b \in 1 .. Len(s) : to[a] = to[b] => a = b
  <2> HIDE DEF n, s
  <2>1. \A a \in 1 .. Len(s) : to[a] = a + n
    BY <1>3 DEF Shifted
  <2> HIDE DEF to
  <2> QED BY <1>2, <1>3, <2>1
<1> HIDE DEF s, g, out, data, h, to, n
<1>6. Proper(h)
  <2>1. CASE h = None
    BY <2>1 DEF Proper
  <2>2. CASE h # None
    BY <1>2, <1>4, <1>5, <2>2, MovedProper
  <2> QED BY <2>1, <2>2
<1> QED BY <1>1, <1>6, MakesOK

\* The group of an operand, aligned with the result.
LEMMA AlignedProper ==
  ASSUME NEW x, Honest(x), ArrayOK(x), NEW out, NEW data,
         Broadcasts(x.shape, x.val, out, data), BroadcastAccepts(x.tag, x.shape, out),
         NEW g, g = AlignedGroup(x, out)
  PROVE  Proper(g) /\ (g # None => WellFormed(g) /\ Support(g) \subseteq Axes(out))
<1>1. Fits(x.tag, Len(x.shape)) /\ Proper(x.tag)
  BY TagFacts
<1>2. g = None \/ g = BroadcastGroup(x.tag, x.shape, out)
  BY DEF AlignedGroup
<1>3. Proper(BroadcastGroup(x.tag, x.shape, out))
  BY <1>1, BroadcastProper
<1>4. Proper(g)
  BY <1>2, <1>3 DEF Proper
<1> QED BY <1>4, AlignedHolds

\* _pointwise_symmetry()
LEMMA PointwiseProper ==
  ASSUME NEW x, NEW y, ArrayOK(x), ArrayOK(y), NEW out, NEW d1, NEW d2,
         Honest(x), Honest(y),
         Broadcasts(x.shape, x.val, out, d1), Broadcasts(y.shape, y.val, out, d2),
         BroadcastAccepts(x.tag, x.shape, out), BroadcastAccepts(y.tag, y.shape, out)
  PROVE  Proper(PointwiseSymmetry(x, y, out))
<1> DEFINE g == AlignedGroup(x, out)
           h == AlignedGroup(y, out)
           n == Len(out)
<1>1. Proper(g) /\ (g # None => WellFormed(g) /\ Support(g) \subseteq Axes(out))
  BY AlignedProper
<1>2. Proper(h) /\ (h # None => WellFormed(h) /\ Support(h) \subseteq Axes(out))
  BY AlignedProper
<1>3. n \in Nat /\ Axes(out) = 1 .. n
  BY ShapeFacts DEF Broadcasts, Stretches
<1>4. PointwiseSymmetry(x, y, out) \in {None, g, h, Intersect(g, h, n)}
  BY DEF PointwiseSymmetry
<1> HIDE DEF g, h, n
<1>5. Proper(Intersect(g, h, n))
  BY <1>1, <1>2, <1>3, IntersectProper
<1>6. Proper(None)
  BY DEF Proper
<1> QED BY <1>1, <1>2, <1>4, <1>5, <1>6

\* An elementwise function of two arrays.
LEMMA BinaryOK ==
  ASSUME TypeOK, Honest(array), Honest(array'), NEW other, Honest(other), ArrayOK(other),
         Binary(other)
  PROVE  TypeOK'
<1> DEFINE out == BroadcastShape(array.shape, other.shape)
           d1 == [c \in Cells(out) |-> array.val[Narrowed(array.shape, c)]]
           d2 == [c \in Cells(out) |-> other.val[Narrowed(other.shape, c)]]
           data == [c \in Cells(out) |-> <<array.val[Narrowed(array.shape, c)],
                                          other.val[Narrowed(other.shape, c)]>>]
           r == PointwiseSymmetry(array, other, out)
           right == other.sound /\ AlignsAll(array, other, out)
<1>1. /\ array.shape \in Seq(Nat) /\ DOMAIN array.val = Cells(array.shape)
      /\ other.shape \in Seq(Nat) /\ DOMAIN other.val = Cells(other.shape)
      /\ ArrayOK(array)
  BY TagFacts DEF TypeOK
<1>2. /\ Delivers("binary", out, data, r, right) /\ "binary" \in Operations
      /\ Compatible(array.shape, other.shape)
      /\ BroadcastAccepts(array.tag, array.shape, out)
      /\ BroadcastAccepts(other.tag, other.shape, out)
  BY DEF Binary, Operations
<1>3. Stretches(array.shape, out) /\ Stretches(other.shape, out)
  BY <1>1, <1>2, BroadcastStretches
<1> HIDE DEF out
<1>4. /\ DOMAIN d1 = Cells(out) /\ DOMAIN d2 = Cells(out)
      /\ \A c \in Cells(out) : /\ d1[c] = array.val[Narrowed(array.shape, c)]
                               /\ d2[c] = other.val[Narrowed(other.shape, c)]
  OBVIOUS
<1> HIDE DEF d1, d2, data, right
<1>5. Broadcasts(array.shape, array.val, out, d1) /\ Broadcasts(other.shape, other.val, out, d2)
  BY <1>1, <1>3, <1>4 DEF Broadcasts
<1>6. Proper(r)
  BY <1>1, <1>2, <1>5, PointwiseProper
<1> HIDE DEF r
<1> QED BY <1>2, <1>6, DeliversOK

\* reduce_group()
LEMMA ReduceGroupProper ==
  ASSUME NEW s, NEW K, NEW out, NEW to, Reduces(s, K, out, to),
         NEW g, Fits(g, Len(s)), Proper(g), NEW keepdims,
         to = Renumbered(s, K, keepdims)
  PROVE  Proper(ReduceGroup(g, s, K, keepdims))
<1>1. CASE g = None
  BY <1>1 DEF ReduceGroup, Proper
<1>2. CASE g # None
  <2> DEFINE perms == Stabilizing(g, K)
             L == Support(g) \ K
             f == Project(g, perms, L)
  <2>1. ReduceGroup(g, s, K, keepdims) = Remap(f, to)
    BY <1>2 DEF ReduceGroup
  <2>2. WellFormed(g) /\ Support(g) \subseteq 1 .. Len(s)
    BY <1>2 DEF Fits
  <2>3. perms \in SUBSET g.perms /\ \A p \in perms : \A a \in L : p[a] \in L
    BY <2>2, StabilizingMaps
  <2>4. L \in SUBSET Support(g)
    OBVIOUS
  <2>5. Proper(f) /\ (f # None => WellFormed(f) /\ \A a : a \in Support(f) <=> a \in L)
    <3> HIDE DEF perms, L
    <3> QED BY <1>2, <2>2, <2>3, <2>4, ProjectProper
  <2>6. \A a, b \in Axes(s) \ K : to[a] = to[b] => a = b
    BY DEF Reduces, Moves
  <2>7. L \subseteq Axes(s) \ K
    <3>1. Axes(s) = 1 .. Len(s)
      BY ShapeFacts DEF Reduces, Moves
    <3> QED BY <2>2, <3>1
  <2> HIDE DEF L, f
  <2>8. f # None => \A a, b \in Support(f) : to[a] = to[b] => a = b
    BY <2>5, <2>6, <2>7
  <2> QED BY <2>1, <2>5, <2>8, RemapProper
<1> QED BY <1>1, <1>2

\* _counted_reduction
LEMMA ReduceOK ==
  ASSUME TypeOK, Honest(array), Honest(array'), NEW K \in SUBSET All,
         NEW keepdims \in BOOLEAN, Reduce(K, keepdims)
  PROVE  TypeOK'
<1> DEFINE s == array.shape
           g == array.tag
           out == ReducedShape(s, K, keepdims)
           to == Renumbered(s, K, keepdims)
           data == [c \in Cells(out) |-> Reduced(array.val, K, Reducing(s, K, to, c))]
           h == ReduceGroup(g, s, K, keepdims)
<1>1. s \in Seq(Nat) /\ Fits(g, Len(s)) /\ Proper(g) /\ K \in SUBSET Axes(s)
  BY TagFacts DEF TypeOK, All
<1>2. Delivers("reduce", out, data, h, TRUE) /\ "reduce" \in Operations
  BY DEF Reduce, Operations
<1> HIDE DEF data, s, g
<1>3. Reduces(s, K, out, to)
  BY <1>1, ReducedShapes
<1>4. Proper(h)
  <2>1. to = Renumbered(s, K, keepdims)
    OBVIOUS
  <2> HIDE DEF to, out
  <2> QED BY <1>1, <1>3, <2>1, ReduceGroupProper
<1> HIDE DEF h, out
<1> QED BY <1>2, <1>4, DeliversOK

\* A cumulative reduction.
LEMMA ScanOK ==
  ASSUME TypeOK, Honest(array), Honest(array'), NEW a \in All, Scan(a)
  PROVE  TypeOK'
<1> DEFINE s == array.shape
           g == array.tag
           K == {a}
           to == Renumbered(s, K, TRUE)
           data == [c \in Cells(s) |-> [i \in 0 .. c[a] |-> array.val[[c EXCEPT ![a] = i]]]]
           h == ReduceGroup(g, s, K, TRUE)
<1>1. s \in Seq(Nat) /\ Fits(g, Len(s)) /\ Proper(g) /\ K \in SUBSET Axes(s)
  BY TagFacts DEF TypeOK, All
<1>2. Delivers("scan", s, data, h, TRUE) /\ "scan" \in Operations
  BY DEF Scan, Operations
<1> HIDE DEF data, s, g
<1>3. \A b \in Axes(s) : to[b] = b
  BY DEF Renumbered
<1> HIDE DEF K
<1>4. Reduces(s, K, s, to)
  BY <1>1, <1>3 DEF Reduces, Moves
<1>5. Proper(h)
  <2>1. to = Renumbered(s, K, TRUE)
    OBVIOUS
  <2> HIDE DEF to
  <2> QED BY <1>1, <1>4, <2>1, ReduceGroupProper
<1> HIDE DEF h
<1> QED BY <1>2, <1>5, DeliversOK

\* Every operation makes an array of its type.
LEMMA NextOK ==
  ASSUME TypeOK, Honest(array), Next
  PROVE  TypeOK'
<1>1. \A S, x : x \in Asked(S) => x \in S
  BY DEF Asked
<1>2. Honest(array')
  BY NextHonest
<1>3. \A x \in Starts \cup {array} : Honest(x) /\ ArrayOK(x)
  BY ArraysAssumption DEF TypeOK
<1>4. ASSUME NEW order \in Asked(Bijection(All, All)), Transpose(order)
      PROVE  TypeOK'
  <2>1. order \in Bijection(All, All)
    BY <1>1
  <2> QED BY <1>2, <1>4, <2>1, TransposeOK
<1>5. ASSUME NEW out \in Asked(Shapes), Reshape(out) \/ BroadcastTo(out)
      PROVE  TypeOK'
  <2>1. out \in Seq(Nat)
    <3>1. out \in Shapes
      BY <1>1
    <3> QED BY <3>1, ShapesAssumption
  <2> QED BY <1>2, <1>5, <2>1, ReshapeOK, BroadcastToOK
<1>6. ASSUME NEW N \in Asked(SUBSET (1 .. MaxRank)),
             N \subseteq 1 .. Rank + Cardinality(N), ExpandDims(N)
      PROVE  TypeOK'
  <2>1. N \in SUBSET (1 .. MaxRank)
    BY <1>1
  <2>2. IsFiniteSet(N)
    <3>1. IsFiniteSet(1 .. MaxRank)
      BY BoundsAssumption, FS_Interval
    <3> QED BY <2>1, <3>1, FS_Subset
  <2> QED BY <1>2, <1>6, <2>2, ExpandDimsOK
<1>7. ASSUME NEW K \in Asked(SUBSET All \ {{}}),
             \/ Squeeze(K)
             \/ Flip(K)
             \/ \E keepdims \in BOOLEAN : Reduce(K, keepdims)
      PROVE  TypeOK'
  <2>1. K \in SUBSET All
    BY <1>1
  <2>2. CASE Squeeze(K)
    BY <1>2, <2>1, <2>2, SqueezeOK
  <2>3. CASE Flip(K)
    BY <1>2, <2>3, FlipOK
  <2>4. CASE \E keepdims \in BOOLEAN : Reduce(K, keepdims)
    BY <1>2, <2>1, <2>4, ReduceOK
  <2> QED BY <1>7, <2>2, <2>3, <2>4
<1>8. ASSUME NEW other \in Asked(Starts \cup {array}),
             \/ \E axis \in -Rank .. Rank - 1 : Concatenate(other, axis)
             \/ \E k \in 1 .. Rank + 1 : Stack(other, k)
             \/ Binary(other)
      PROVE  TypeOK'
  <2>1. Honest(other) /\ ArrayOK(other)
    <3>1. other \in Starts \cup {array}
      BY <1>1
    <3> QED BY <1>3, <3>1
  <2>2. CASE \E axis \in -Rank .. Rank - 1 : Concatenate(other, axis)
    BY <1>2, <2>1, <2>2, ConcatenateOK
  <2>3. CASE \E k \in 1 .. Rank + 1 : Stack(other, k)
    BY <1>2, <2>1, <2>3, StackOK
  <2>4. CASE Binary(other)
    BY <1>2, <2>1, <2>4, BinaryOK
  <2> QED BY <1>8, <2>2, <2>3, <2>4
<1>9. ASSUME NEW a \in Asked(All),
             \/ \E hi \in 1 .. array.shape[a] : \E lo \in 0 .. hi - 1 : Split(a, lo, hi)
             \/ Repeat(a)
             \/ Roll(a)
             \/ Scan(a)
      PROVE  TypeOK'
  <2>1. a \in All
    BY <1>1
  <2>2. CASE \E hi \in 1 .. array.shape[a] : \E lo \in 0 .. hi - 1 : Split(a, lo, hi)
    BY <1>2, <2>2, SplitOK
  <2>3. CASE Repeat(a) \/ Roll(a)
    BY <1>2, <2>3, AlongOK
  <2>4. CASE Scan(a)
    BY <1>2, <2>1, <2>4, ScanOK
  <2> QED BY <1>9, <2>2, <2>3, <2>4
<1>10. ASSUME NEW at, NEW cut, GetItem(at, cut)
       PROVE  TypeOK'
  BY <1>2, <1>10, GetItemOK
<1>11. ASSUME NEW n \in Asked(Rank .. Rank + 1), NEW reps \in [1 .. n -> 1 .. 2], Tile(reps)
       PROVE  TypeOK'
  <2>1. n \in Rank .. Rank + 1
    BY <1>1
  <2> QED BY <1>2, <1>11, <2>1, TileOK
<1>12. CASE Unary
  BY <1>2, <1>12, UnaryOK
<1>13. QED
  BY <1>4, <1>5, <1>6, <1>7, <1>8, <1>9, <1>10, <1>11, <1>12 DEF Next

\* However operations are chained, a tag names each of its axes once, and only axes its
\* array has, and exchanges some of them: remap_group_axes(), restrict(),
\* intersect_groups() and direct_product_groups() make such groups of such groups.
THEOREM ArraysStayTyped == Spec => []TypeOK
<1>1. Init => TypeOK
  BY ArraysAssumption, BoundsAssumption DEF Init, TypeOK, Operations
<1>2. TypeOK /\ Honest(array) /\ [Next]_vars => TypeOK'
  <2> SUFFICES ASSUME TypeOK, Honest(array), [Next]_vars PROVE TypeOK'
    OBVIOUS
  <2>1. CASE Next
    BY <2>1, NextOK
  <2>2. CASE UNCHANGED vars
    BY <2>2 DEF vars, TypeOK
  <2> QED BY <2>1, <2>2
<1> QED BY <1>1, <1>2, ArraysStayHonest, PTL DEF Spec
=============================================================================
