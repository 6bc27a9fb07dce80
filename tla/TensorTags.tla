----------------------------- MODULE TensorTags -----------------------------
(***************************************************************************)
(* Symmetry tags of arrays and the rules that carry them through array     *)
(* operations (src/src/flopscope/_symmetry_transport.py, _symmetry_utils.py*)
(* and the wrappers of _array_ops.py and _pointwise.py that call them).    *)
(*                                                                         *)
(* A program makes a chain of arrays, each from the one before.  Next to   *)
(* the tag the code computes, the model computes the data: which cells of  *)
(* the array hold the same value for every choice of the values of the     *)
(* arrays the program started from.  A tag is true if its permutations of  *)
(* the axes only exchange cells that hold the same value.                  *)
(*                                                                         *)
(* Axes are numbered from 1: axis a of the code is axis a + 1 here.        *)
(***************************************************************************)
EXTENDS Integers, Sequences, FiniteSets, FiniteSetsExt, Functions

CONSTANTS
  None,
  Starts,         \* the arrays a program may start from
  Destinations,   \* the arrays it may pass as out=
  Shapes,         \* the shapes it may ask for in reshape and broadcast_to
  MaxRank, MaxCells, MaxOps

VARIABLES
  array,    \* the array made last
  did,      \* the operation that made it
  ops       \* the number of operations so far

vars == <<array, did, ops>>

-----------------------------------------------------------------------------
(***************************************************************************)
(* Shapes and data.                                                        *)
(***************************************************************************)
Axes(s) == 1 .. Len(s)

\* The index tuples of an array of shape s.
Cells(s) ==
  {c \in [Axes(s) -> UNION {0 .. s[k] - 1 : k \in Axes(s)}] :
     \A k \in Axes(s) : c[k] < s[k]}

\* Products(s, K)[k] is the product of those of the first k axes that are in K.
Products(s, K) ==
  LET f[k \in 0 .. Len(s)] ==
        IF k = 0 THEN 1 ELSE f[k - 1] * (IF k \in K THEN s[k] ELSE 1)
  IN  f

Size(s) == Products(s, Axes(s))[Len(s)]

\* Offsets(s, c)[k] is the row-major position of the first k indices of cell c.
Offsets(s, c) ==
  LET f[k \in 0 .. Len(s)] == IF k = 0 THEN 0 ELSE f[k - 1] * s[k] + c[k]
  IN  f

Offset(s, c) == Offsets(s, c)[Len(s)]

\* Values are known only by where they are equal: each is named by a cell.
Named(val) ==
  LET graph == {<<c, val[c]>> : c \in DOMAIN val} IN
  [c \in DOMAIN val |-> (CHOOSE e \in graph : <<c, e[2]>> \in graph)[1]]

\* The axes not in K, in order, each with the axis it becomes.
Removing(s, K) == [a \in Axes(s) \ K |-> Cardinality({b \in 1 .. a : b \notin K})]

\* What is left of shape s (and of a cell) without the axes K.
Without(s, K) ==
  LET to == Removing(s, K) IN
  [k \in 1 .. Cardinality(DOMAIN to) |-> s[CHOOSE a \in DOMAIN to : to[a] = k]]

-----------------------------------------------------------------------------
(***************************************************************************)
(* Groups: the axes acted on, in the order of the code's tuple, and the    *)
(* permutations of them.  A group of order one is no group.                *)
(***************************************************************************)
Support(g) == Range(g.axes)

Group(axes, perms) ==
  IF Cardinality(perms) <= 1 THEN None ELSE [axes |-> axes, perms |-> perms]

Permuted(c, p) == [k \in DOMAIN c |-> IF k \in DOMAIN p THEN c[p[k]] ELSE c[k]]

\* Permutation p of axes exchanges only axes of one extent and cells of one value.
Symmetric(s, val, p) ==
  /\ Permuted(s, p) = s
  /\ \A c \in DOMAIN val : val[Permuted(c, p)] = val[c]

HoldsFor(g, s, val) ==
  /\ Support(g) \subseteq Axes(s)
  /\ \A p \in g.perms : Symmetric(s, val, p)

\* The permutation p of axes after axis a was renamed to[a].
Renamed(p, to) ==
  LET from == AntiFunction([a \in DOMAIN p |-> to[a]])
  IN  [b \in DOMAIN from |-> to[p[from[b]]]]

\* remap_group_axes()
Remap(g, to) ==
  IF g = None THEN None
  ELSE [axes |-> [i \in DOMAIN g.axes |-> to[g.axes[i]]],
        perms |-> {Renamed(p, to) : p \in g.perms}]

Fixing(g, K) == {p \in g.perms : \A a \in K \cap Support(g) : p[a] = a}

Stabilizing(g, K) ==
  LET L == K \cap Support(g) IN {p \in g.perms : {p[a] : a \in L} = L}

\* SymmetryGroup.restrict() of permutations that map the axes K to themselves.
Project(g, perms, K) ==
  Group(Without(g.axes, {i \in DOMAIN g.axes : g.axes[i] \notin K}),
        {Restrict(p, K) : p \in perms})

\* restrict_group_to_axes(): the setwise stabilizer of K, acting on K.
RestrictTo(g, K) == Project(g, Stabilizing(g, K), K)

\* embed_group()
Embed(p, n) == [a \in 1 .. n |-> IF a \in DOMAIN p THEN p[a] ELSE a]

\* intersect_groups(): on the axes of both if these are the same tuple.
Intersect(g, h, n) ==
  IF None \in {g, h} THEN None
  ELSE IF g.axes = h.axes THEN Group(g.axes, g.perms \cap h.perms)
  ELSE Group([a \in 1 .. n |-> a],
             {Embed(p, n) : p \in g.perms} \cap {Embed(p, n) : p \in h.perms})

\* Two permutations of different axes at once.
Both(p, q) ==
  [a \in DOMAIN p \cup DOMAIN q |-> IF a \in DOMAIN p THEN p[a] ELSE q[a]]

Factors(g, h) ==
  [axes |-> g.axes \o h.axes,
   perms |-> {Both(p, q) : p \in g.perms, q \in h.perms}]

\* Mutant: the factor that came first is dropped.
LastFactor(g, h) == IF h = None THEN g ELSE h

\* direct_product_groups() of two groups on disjoint axes.
DirectProduct(g, h) ==
  CASE g = None -> h
    [] h = None -> g
    [] OTHER -> Factors(g, h)

Sorted(K) ==
  [i \in 1 .. Cardinality(K) |->
     CHOOSE a \in K : Cardinality({b \in K : b <= a}) = i]

\* SymmetryGroup.symmetric() of each block of axes of K that have one extent.
ByExtent(s, K) ==
  LET L == {a \in K : \E b \in K \ {a} : s[a] = s[b]}
  IN  Group(Sorted(L), {p \in Bijection(L, L) : \A a \in L : s[p[a]] = s[a]})

-----------------------------------------------------------------------------
(***************************************************************************)
(* Arrays.  An array is plain, or a SymmetricTensor whose tag was declared *)
(* by the program or inferred from a constant fill.  It is sound if none of*)
(* the steps that made it is one whose rule is known to be wrong (see the  *)
(* definitions of SameExtents, FindsJoinedAxis and AlignsAll).             *)
(***************************************************************************)
Made(s, val, g, sound) ==
  [shape |-> s, val |-> Named(val), tag |-> g,
   kind |-> IF g = None THEN "plain" ELSE "declared", sound |-> sound]

\* An array of shape s as general as its group g allows.
Declared(s, g) ==
  Made(s, [c \in Cells(s) |->
             IF g = None THEN {c} ELSE {Permuted(c, p) : p \in g.perms}], g, TRUE)

\* A group as SymmetryGroup.__init__ leaves it: permutations of its axes.
WellFormed(g) ==
  /\ g.axes \in Seq(Nat)
  /\ \A p \in g.perms : /\ p \in [Support(g) -> Support(g)]
                        /\ \A a, b \in Support(g) : p[a] = p[b] => a = b

\* A tag an array of n axes can have.
Fits(g, n) == g # None => WellFormed(g) /\ Support(g) \subseteq 1 .. n

\* An array whose shape, data and tag fit each other.
Typed(x) ==
  /\ DOMAIN x = {"shape", "val", "tag", "kind", "sound"}
  /\ x.shape \in Seq(Nat)
  /\ DOMAIN x.val = Cells(x.shape)
  /\ x.kind = "plain" => x.tag = None
  /\ Fits(x.tag, Len(x.shape))

\* An array whose tag is true of its data unless the rule that made it is wrong.
Honest(x) ==
  /\ Typed(x)
  /\ x.sound /\ x.tag # None => HoldsFor(x.tag, x.shape, x.val)

\* A tag names each of its axes once and exchanges some of them.
Proper(g) == g # None => IsInjective(g.axes) /\ Cardinality(g.perms) > 1

\* An array as a program can have it, of at most MaxRank axes.
ArrayOK(x) ==
  /\ x.shape \in Seq(Nat) /\ Len(x.shape) <= MaxRank
  /\ x.val \in [Cells(x.shape) -> Cells(x.shape)]
  /\ Proper(x.tag)
  /\ x.tag # None =>
       /\ Support(x.tag) \subseteq Axes(x.shape)
       /\ \A p \in x.tag.perms : DOMAIN p = Support(x.tag) /\ Range(p) = Support(x.tag)
  /\ x.kind \in {"plain", "declared", "inferred"}
  /\ x.sound \in BOOLEAN

\* as_symmetric() checks the data it is given a symmetry for
\* (validate_symmetry_groups() of _symmetric.py), and _normalize_axes() that axes are
\* unique.  A declared group of order one, which exchanges nothing, and arrays without
\* cells are left out.
ASSUME ArraysAssumption ==
  \A x \in Starts \cup Destinations : Honest(x) /\ ArrayOK(x) /\ 0 \notin Range(x.shape)

ASSUME ShapesAssumption ==
  Shapes \subseteq Seq(Nat) /\ \A s \in Shapes : 0 \notin Range(s)

ASSUME BoundsAssumption == MaxRank \in Nat /\ MaxOps \in Nat

\* The groups of arrays of at most MaxRank axes; having none is not one of them.
Groups ==
  [axes : Seq(Nat), perms : SUBSET UNION {[S -> S] : S \in SUBSET (1 .. MaxRank)}]

ASSUME NoneAssumption == None \notin Groups

\* fnp.ones() and its like: _infer_constant_shape_symmetry().
Filled(s) ==
  [Made(s, [c \in Cells(s) |-> 0], ByExtent(s, Axes(s)), TRUE) EXCEPT
     !.kind = IF @ = "plain" THEN "plain" ELSE "inferred"]

Rank == Len(array.shape)

\* The operation op makes an array of shape s and data val with tag g.
Makes(op, s, val, g, right) ==
  /\ ops < MaxOps
  /\ Len(s) <= MaxRank /\ Size(s) <= MaxCells
  /\ array' = Made(s, val, g, right /\ array.sound)
  /\ did' = op
  /\ ops' = ops + 1

-----------------------------------------------------------------------------
(***************************************************************************)
(* Moving axes: transpose, swapaxes, moveaxis, matrix_transpose; order[k]  *)
(* is the axis that becomes axis k.                                        *)
(***************************************************************************)
TransportTranspose(g, order) == Remap(g, AntiFunction(order))

TransposedShape(s, order) == [k \in Axes(s) |-> s[order[k]]]

\* The cell of the old array that is cell c of the new one.
Unmoved(c, order) == [a \in DOMAIN order |-> c[AntiFunction(order)[a]]]

TransposedData(s, val, order) ==
  [c \in Cells(TransposedShape(s, order)) |-> val[Unmoved(c, order)]]

Transpose(order) ==
  Makes("transpose", TransposedShape(array.shape, order),
        TransposedData(array.shape, array.val, order),
        TransportTranspose(array.tag, order), TRUE)

-----------------------------------------------------------------------------
(***************************************************************************)
(* reshape and ravel.  The walk over the output looks for each block axis  *)
(* where the axes before it have the product of the segments before it,    *)
(* times the extent m of the first block axis for each block axis passed.  *)
(***************************************************************************)
\* The product of the segments before the k-th of the block axes A, of extent m
\* each, times m for each of them that is passed.
Passed(s, A, m, k) ==
  Products(s, Axes(s) \ Range(A))[A[k] - 1] * Products([i \in Axes(A) |-> m], Axes(A))[k - 1]

\* The places where the walk may find the block axes A.
Places(s, A, m, out) ==
  LET n == Len(A) IN
  {o \in [1 .. n -> Axes(out)] :
     /\ \A k \in 1 .. n : /\ out[o[k]] = m
                          /\ Products(out, Axes(out))[o[k] - 1] = Passed(s, A, m, k)
     /\ \A k \in 1 .. n - 1 : o[k] < o[k + 1]
     /\ Products(out, o[n] + 1 .. Len(out))[Len(out)]
          = Products(s, A[n] + 1 .. Len(s))[Len(s)]}

\* It takes the first place for each.
First(P, n) == CHOOSE o \in P : \A r \in P : \A k \in 1 .. n : o[k] <= r[k]

TransportReshape(g, s, out) ==
  IF g = None THEN None ELSE
  LET A == Sorted(Support(g))
      P == Places(s, A, s[g.axes[1]], out)
      o == First(P, Len(A))
  IN  IF P = {} THEN None
      ELSE Remap(g, [a \in Support(g) |-> o[CHOOSE k \in Axes(A) : A[k] = a]])

\* All axes of a group have one extent, which the walk takes for granted.
SameExtents(g, s) == g = None \/ \A a, b \in Support(g) : s[a] = s[b]

Reshape(out) ==
  /\ out # array.shape /\ Size(out) = Size(array.shape)
  /\ Makes("reshape", out,
           [c \in Cells(out) |->
              array.val[CHOOSE d \in Cells(array.shape) :
                          Offset(array.shape, d) = Offset(out, c)]],
           TransportReshape(array.tag, array.shape, out),
           SameExtents(array.tag, array.shape))

-----------------------------------------------------------------------------
(***************************************************************************)
(* Adding and removing axes of extent one.                                 *)
(***************************************************************************)
Inserted(s, N) ==
  [k \in 1 .. Len(s) + Cardinality(N) |->
     IF k \in N THEN 1 ELSE s[Cardinality({j \in 1 .. k : j \notin N})]]

\* remap_group_for_expand_dims(), which inserted_axes_symmetry() is part of.
TransportExpandDims(g, s, N) ==
  LET out == Inserted(s, N)
      old == Removing(out, N)
  IN  DirectProduct(Remap(g, AntiFunction(old)), ByExtent(out, N))

ExpandDims(N) ==
  LET out == Inserted(array.shape, N) IN
  Makes("expand_dims", out,
        [c \in Cells(out) |-> array.val[Without(c, N)]],
        TransportExpandDims(array.tag, array.shape, N), TRUE)

TransportSqueeze(g, s, K) ==
  IF g = None \/ K \cap Support(g) # {} THEN None ELSE Remap(g, Removing(s, K))

\* The cell of shape s whose axes outside K are those of cell c, the others i.
Extended(s, K, c, i) ==
  [k \in Axes(s) |-> IF k \in K THEN i[k] ELSE c[Removing(s, K)[k]]]

Zeros(s) == [k \in Axes(s) |-> 0]

Squeeze(K) ==
  LET s == array.shape
      out == Without(s, K)
  IN  /\ \A a \in K : s[a] = 1
      /\ Makes("squeeze", out,
               [c \in Cells(out) |-> array.val[Extended(s, K, c, Zeros(s))]],
               TransportSqueeze(array.tag, s, K), TRUE)

-----------------------------------------------------------------------------
(***************************************************************************)
(* broadcast_to.                                                           *)
(***************************************************************************)
Shifted(A, n) == [a \in A |-> a + n]

\* The axes of a group that are not stretched.
Unstretched(g, s, out) ==
  {a \in Support(g) : s[a] = 1 => out[a + Len(out) - Len(s)] = 1}

\* broadcast_group() validates the group against the shape, and restrict() looks
\* up the image of every axis that is kept.
BroadcastAccepts(g, s, out) ==
  g # None =>
    LET K == Unstretched(g, s, out) IN
    /\ \A p \in g.perms : Permuted(s, p) = s
    /\ Cardinality(K) >= 2 => \A p \in g.perms : {p[a] : a \in K} = K

\* broadcast_group(): new axes of one extent are exchangeable.
BroadcastGroup(g, s, out) ==
  LET n == Len(out) - Len(s)
      kept == IF g = None \/ Cardinality(Unstretched(g, s, out)) < 2 THEN None
              ELSE Project(g, g.perms, Unstretched(g, s, out))
  IN  DirectProduct(ByExtent(out, 1 .. n), Remap(kept, Shifted(1 .. Len(s), n)))

\* The shape of two arrays after broadcasting, and whether there is one.
Aligned(s, n) == [k \in 1 .. n |-> IF k + Len(s) <= n THEN 1 ELSE s[k + Len(s) - n]]

Compatible(s, t) ==
  LET n == Max({Len(s), Len(t)}) IN
  \A k \in 1 .. n : \/ Aligned(s, n)[k] = Aligned(t, n)[k]
                    \/ 1 \in {Aligned(s, n)[k], Aligned(t, n)[k]}

BroadcastShape(s, t) ==
  LET n == Max({Len(s), Len(t)}) IN
  [k \in 1 .. n |-> IF Aligned(s, n)[k] = 1 THEN Aligned(t, n)[k] ELSE Aligned(s, n)[k]]

\* The cell of shape s read for cell c of a shape it is broadcast to.
Narrowed(s, c) ==
  [k \in Axes(s) |-> IF s[k] = 1 THEN 0 ELSE c[k + Len(c) - Len(s)]]

BroadcastTo(out) ==
  LET s == array.shape IN
  /\ Len(s) <= Len(out) /\ Compatible(s, out) /\ BroadcastShape(s, out) = out
  /\ BroadcastAccepts(array.tag, s, out)
  /\ Makes("broadcast_to", out, [c \in Cells(out) |-> array.val[Narrowed(s, c)]],
           BroadcastGroup(array.tag, s, out), TRUE)

-----------------------------------------------------------------------------
(***************************************************************************)
(* Joining and splitting.                                                  *)
(***************************************************************************)
\* The axis, from 1, transport_concatenate() takes off a group.
TakenOff(g, n, axis) == (axis % Max({n, Len(g.axes) + 1})) + 1

\* It is the axis that is joined: for a negative axis and a group of all axes
\* of the result it is not.
FindsJoinedAxis(g, n, axis) == g = None \/ TakenOff(g, n, axis) = (axis % n) + 1

TransportConcatenate(g, h, n, axis) ==
  IF None \in {g, h} THEN None
  ELSE Intersect(RestrictTo(g, Support(g) \ {TakenOff(g, n, axis)}),
                 RestrictTo(h, Support(h) \ {TakenOff(h, n, axis)}), n)

\* fnp.concatenate([array, other], axis)
Concatenate(other, axis) ==
  LET s == array.shape
      n == Len(s)
      j == (axis % n) + 1
      out == [s EXCEPT ![j] = @ + other.shape[j]]
      Side(c) ==
        IF c[j] < s[j] THEN <<1, array.val[c]>>
        ELSE <<2, other.val[[c EXCEPT ![j] = @ - s[j]]]>>
  IN  /\ Len(other.shape) = n /\ \A k \in Axes(s) \ {j} : other.shape[k] = s[k]
      /\ Makes("concatenate", out, [c \in Cells(out) |-> Side(c)],
               TransportConcatenate(array.tag, other.tag, n, axis),
               /\ other.sound
               /\ FindsJoinedAxis(array.tag, n, axis)
               /\ FindsJoinedAxis(other.tag, n, axis))

TransportStack(g, h, n, k) ==
  LET after == [a \in 1 .. n |-> IF a < k THEN a ELSE a + 1] IN
  Intersect(Remap(g, after), Remap(h, after), n)

\* fnp.stack([array, other], k - 1)
Stack(other, k) ==
  LET s == array.shape
      out == [Inserted(s, {k}) EXCEPT ![k] = 2]
      Side(c) == IF c[k] = 0 THEN <<1, array.val[Without(c, {k})]>>
                 ELSE <<2, other.val[Without(c, {k})]>>
  IN  /\ other.shape = s
      /\ Makes("stack", out, [c \in Cells(out) |-> Side(c)],
               TransportStack(array.tag, other.tag, Len(out), k), other.sound)

TransportSplit(g, a) == IF g = None THEN None ELSE RestrictTo(g, Support(g) \ {a})

\* One piece, cells lo .. hi - 1 of axis a, of split, hsplit, vsplit or dsplit.
Split(a, lo, hi) ==
  LET out == [array.shape EXCEPT ![a] = hi - lo] IN
  Makes("split", out, [c \in Cells(out) |-> array.val[[c EXCEPT ![a] = @ + lo]]],
        TransportSplit(array.tag, a), TRUE)

-----------------------------------------------------------------------------
(***************************************************************************)
(* __getitem__.  An axis is kept whole, cut by a slice, or removed by an   *)
(* integer, which is a cut to one cell whose axis is dropped.              *)
(***************************************************************************)
\* Mutant: removed axes need only be exchanged among themselves.
SliceBySet(g, removed, resized) ==
  IF g = None \/ resized \cap Support(g) # {} THEN None
  ELSE Project(g, Stabilizing(g, removed), Support(g) \ removed)

\* propagate_symmetry_slice(), before the axes are renumbered: removed axes must
\* stay where they are, they may have been indexed by different integers.
SliceGroup(g, removed, resized) ==
  IF g = None \/ resized \cap Support(g) # {} THEN None
  ELSE Project(g, Fixing(g, removed), Support(g) \ removed)

\* What a key leaves of an axis of n cells: cell x of the result is cell kept[x].
\* A slice takes size cells, from start on, step after step (backwards if it is
\* negative); start:stop:step is taken for the whole axis only if it is 0:n:1.
Cuts(n) ==
  LET whole == [x \in 0 .. n - 1 |-> x]
      slices == {[all |-> FALSE, size |-> size,
                  kept |-> [x \in 0 .. size - 1 |-> start + step * x]] :
                   start \in 0 .. n - 1, step \in (-n .. n) \ {0}, size \in 1 .. n}
  IN  {[all |-> TRUE, size |-> n, kept |-> whole]}
        \cup {c \in slices : /\ \A x \in 0 .. c.size - 1 : c.kept[x] \in 0 .. n - 1
                             /\ c.kept = whole => n = 1}

\* One member of each set of a sequence of sets.
OneOfEach(sets) ==
  LET f[k \in 0 .. Len(sets)] ==
        IF k = 0 THEN {<<>>} ELSE {Append(c, x) : c \in f[k - 1], x \in sets[k]}
  IN  f[Len(sets)]

\* x[key]: cut says what is left of each axis, those in at are dropped.
GetItem(at, cut) ==
  LET s == array.shape
      out == Without([k \in Axes(s) |-> cut[k].size], at)
      resized == {k \in Axes(s) \ at : ~ cut[k].all}
      From(c) == LET d == Extended(s, at, c, Zeros(s)) IN
                 [k \in Axes(s) |-> cut[k].kept[d[k]]]
  IN  Makes("getitem", out, [c \in Cells(out) |-> array.val[From(c)]],
            Remap(SliceGroup(array.tag, at, resized), Removing(s, at)), TRUE)

-----------------------------------------------------------------------------
(***************************************************************************)
(* flip, tile, repeat and roll.                                            *)
(***************************************************************************)
TransportFlip(g, F) ==
  IF g = None \/ F \cap Support(g) \in {{}, Support(g)} THEN g
  ELSE Group(g.axes, Stabilizing(g, F))

FlippedData(s, val, F) ==
  [c \in Cells(s) |->
     val[[k \in Axes(s) |-> IF k \in F THEN s[k] - 1 - c[k] ELSE c[k]]]]

Flip(F) ==
  Makes("flip", array.shape, FlippedData(array.shape, array.val, F),
        TransportFlip(array.tag, F), TRUE)

\* All axes of an orbit are repeated equally often.
TransportTile(g, n, reps) ==
  IF g = None \/ \E p \in g.perms : \E a \in Support(g) : reps[p[a] + n] # reps[a + n]
    THEN None ELSE Remap(g, Shifted(1 .. Len(reps) - n, n))

Tile(reps) ==
  LET n == Len(reps) - Rank
      s == Aligned(array.shape, Len(reps))
      out == [k \in Axes(s) |-> s[k] * reps[k]]
  IN  Makes("tile", out,
            [c \in Cells(out) |->
               array.val[[k \in Axes(array.shape) |-> c[k + n] % array.shape[k]]]],
            TransportTile(array.tag, n, reps), TRUE)

\* transport_repeat() and transport_roll(): only axes outside the group.
TransportAlong(g, a) == IF g = None \/ a \in Support(g) THEN None ELSE g

Repeat(a) ==
  LET out == [array.shape EXCEPT ![a] = 2 * @] IN
  Makes("repeat", out, [c \in Cells(out) |-> array.val[[c EXCEPT ![a] = @ \div 2]]],
        TransportAlong(array.tag, a), TRUE)

Roll(a) ==
  LET s == array.shape IN
  Makes("roll", s, [c \in Cells(s) |-> array.val[[c EXCEPT ![a] = (@ + 1) % s[a]]]],
        TransportAlong(array.tag, a), TRUE)

-----------------------------------------------------------------------------
(***************************************************************************)
(* Results with a destination (out=).                                      *)
(***************************************************************************)
Same(g, h) ==
  \/ None \in {g, h} /\ g = h
  \/ None \notin {g, h} /\ Support(g) = Support(h) /\ g.perms = h.perms

\* The symmetry of the result fits what the destination carries and holds.
Welcome(d, g) ==
  /\ g # None
  /\ d.tag = None \/ Same(d.tag, g)
  /\ HoldsFor(g, d.shape, d.val)

\* _prepare_symmetric_out(): an inferred destination gives up its tag where a
\* declared one refuses the call.
Refuses(d, g) == d.kind = "declared" /\ ~ Welcome(d, g)

Prepared(d, g) == IF d.kind = "plain" \/ Welcome(d, g) THEN g ELSE None

(***************************************************************************)
(* _wrap_result(): data that contradicts the promised symmetry is refused  *)
(* before it is copied; where it has an entry that is not finite it cannot *)
(* be checked, and the destination, whose old tag note_write() voided, is  *)
(* left without one.                                                       *)
(***************************************************************************)
Written(d, val, g, finite) ==
  LET kept == Prepared(d, g) IN
  CASE d.kind = "plain" -> [d EXCEPT !.val = Named(val), !.sound = TRUE]
    [] d.kind # "plain" /\ (kept = None \/ ~ finite) ->
         [d EXCEPT !.val = Named(val), !.tag = None, !.sound = TRUE]
    [] OTHER -> IF HoldsFor(kept, d.shape, val)
                  THEN [d EXCEPT !.val = Named(val), !.tag = kept, !.sound = TRUE]
                  ELSE d

Into(op, d, s, val, g) ==
  /\ ops < MaxOps
  /\ d.shape = s
  /\ \E finite \in BOOLEAN :
       array' = IF Refuses(d, g) THEN d ELSE Written(d, val, g, finite)
  /\ did' = op
  /\ ops' = ops + 1

\* The result of a counted operation, new or in one of the destinations.
Delivers(op, s, val, g, right) ==
  \/ Makes(op, s, val, g, right)
  \/ \E d \in Destinations \cup {array} : Into("out", d, s, val, g)

-----------------------------------------------------------------------------
(***************************************************************************)
(* Elementwise functions and reductions.                                   *)
(***************************************************************************)
\* _counted_unary: an injective function renames the values.
Unary == Delivers("unary", array.shape, array.val, array.tag, TRUE)

\* An operand without a group makes the result dense, unless it is a scalar.
Dense(x) == Len(x.shape) > 0 /\ x.tag = None

AlignedGroup(x, out) ==
  IF Len(x.shape) = 0 THEN None ELSE BroadcastGroup(x.tag, x.shape, out)

\* _pointwise_symmetry()
PointwiseSymmetry(x, y, out) ==
  LET g == AlignedGroup(x, out)
      h == AlignedGroup(y, out)
  IN  IF Dense(x) \/ Dense(y) THEN None
      ELSE IF None \in {g, h} THEN (IF g = None THEN h ELSE g)
      ELSE Intersect(g, h, Len(out))

\* A tagged operand keeps a group when it is broadcast.  One that does not is
\* neither dense nor a constraint to _pointwise_symmetry().
AlignsAll(x, y, out) ==
  \A z \in {x, y} : z.tag # None => AlignedGroup(z, out) # None

Binary(y) ==
  LET out == BroadcastShape(array.shape, y.shape) IN
  /\ Compatible(array.shape, y.shape)
  /\ \A z \in {array, y} : BroadcastAccepts(z.tag, z.shape, out)
  /\ Delivers("binary", out,
              [c \in Cells(out) |-> <<array.val[Narrowed(array.shape, c)],
                                     y.val[Narrowed(y.shape, c)]>>],
              PointwiseSymmetry(array, y, out),
              y.sound /\ AlignsAll(array, y, out))

\* The axes that are left when K is reduced, and what they become.
Renumbered(s, K, keepdims) ==
  IF keepdims THEN [a \in Axes(s) |-> a] ELSE Removing(s, K)

\* Mutant: the axes that are left keep their numbers.
ReduceInPlace(g, s, K, keepdims) ==
  IF g = None THEN None ELSE Project(g, Stabilizing(g, K), Support(g) \ K)

\* reduce_group()
ReduceGroup(g, s, K, keepdims) ==
  IF g = None THEN None
  ELSE Remap(Project(g, Stabilizing(g, K), Support(g) \ K),
             Renumbered(s, K, keepdims))

ReducedShape(s, K, keepdims) ==
  IF keepdims THEN [k \in Axes(s) |-> IF k \in K THEN 1 ELSE s[k]] ELSE Without(s, K)

\* The cells of shape s that cell c of the result is made of.
Reducing(s, K, to, c) == {d \in Cells(s) : \A k \in Axes(s) \ K : d[k] = c[to[k]]}

\* Over one axis the result may depend on the order of what is reduced (argmax),
\* over several only on how often each value occurs (sum).
Reduced(val, K, D) ==
  IF Cardinality(K) = 1
    THEN [i \in {d[k] : k \in K, d \in D} |->
            {val[d] : d \in {e \in D : \E k \in K : e[k] = i}}]
    ELSE [v \in {val[d] : d \in D} |-> Cardinality({d \in D : val[d] = v})]

\* _counted_reduction over the axes K.
Reduce(K, keepdims) ==
  LET s == array.shape
      out == ReducedShape(s, K, keepdims)
      to == Renumbered(s, K, keepdims)
  IN  Delivers("reduce", out,
               [c \in Cells(out) |-> Reduced(array.val, K, Reducing(s, K, to, c))],
               ReduceGroup(array.tag, s, K, keepdims), TRUE)

\* A cumulative reduction keeps the axis it runs along.
Scan(a) ==
  LET s == array.shape IN
  Delivers("scan", s,
           [c \in Cells(s) |-> [i \in 0 .. c[a] |-> array.val[[c EXCEPT ![a] = i]]]],
           ReduceGroup(array.tag, s, {a}, TRUE), TRUE)

-----------------------------------------------------------------------------
Init ==
  /\ array \in Starts
  /\ did = "start"
  /\ ops = 0

All == Axes(array.shape)

\* What may be asked of the array, as long as the chain may grow.
Asked(S) == IF ops < MaxOps THEN S ELSE {}

Next ==
  \/ \E order \in Asked(Bijection(All, All)) : Transpose(order)
  \/ \E out \in Asked(Shapes) : Reshape(out) \/ BroadcastTo(out)
  \/ \E N \in Asked(SUBSET (1 .. MaxRank)) :
       /\ N # {} /\ N \subseteq 1 .. Rank + Cardinality(N)
       /\ ExpandDims(N)
  \/ \E K \in Asked(SUBSET All \ {{}}) :
       \/ Squeeze(K)
       \/ Flip(K)
       \/ \E keepdims \in BOOLEAN : Reduce(K, keepdims)
  \/ \E other \in Asked(Starts \cup {array}) :
       \/ \E axis \in -Rank .. Rank - 1 : Concatenate(other, axis)
       \/ \E k \in 1 .. Rank + 1 : Stack(other, k)
       \/ Binary(other)
  \/ \E a \in Asked(All) :
       \/ \E hi \in 1 .. array.shape[a] : \E lo \in 0 .. hi - 1 : Split(a, lo, hi)
       \/ Repeat(a)
       \/ Roll(a)
       \/ Scan(a)
  \/ LET left == [a \in All |-> Cuts(array.shape[a])] IN
     \E cut \in Asked(OneOfEach(left)) :
       /\ \A a \in All : cut[a] \in left[a]     \* OneOfEach() gives no other
       /\ \E at \in SUBSET {a \in All : cut[a].size = 1 /\ ~ cut[a].all} : GetItem(at, cut)
  \/ \E n \in Asked(Rank .. Rank + 1) : \E reps \in [1 .. n -> 1 .. 2] : Tile(reps)
  \/ Unary

Spec == Init /\ [][Next]_vars

-----------------------------------------------------------------------------
(***************************************************************************)
(* What a tag promises.                                                    *)
(***************************************************************************)
Operations ==
  {"start", "transpose", "reshape", "expand_dims", "squeeze", "broadcast_to",
   "concatenate", "stack", "split", "getitem", "flip", "tile", "repeat", "roll",
   "unary", "binary", "reduce", "scan", "out"}

TypeOK ==
  /\ ArrayOK(array)
  /\ did \in Operations
  /\ ops \in 0 .. MaxOps

\* The cost of every later operation is divided by what the tag says, so a tag
\* must be true of the data: all its permutations exchange axes of one extent
\* and cells that are equal.  "Symmetry propagation is conservative"
\* (website/content/docs/guides/symmetry.mdx:234).
EveryTagTrue == array.tag # None => HoldsFor(array.tag, array.shape, array.val)

\* However operations are chained, a tag is true of the data as long as none of
\* the three steps was taken whose rule is wrong: a negative axis of concatenate
\* next to a group of all axes, a broadcast operand whose group is stretched
\* away, a reshape of a group whose axes differ in extent.  A destination holds
\* true tags even then, because its data is checked before it is tagged.
TagsTrue == array.sound => EveryTagTrue

Order(g) == IF g = None THEN 1 ELSE Cardinality(g.perms)

\* Moving axes, adding axes and elementwise functions never lose a permutation,
\* and axes that were added can be exchanged with one another besides.
MovesKeepSymmetry ==
  [][did' \in {"transpose", "expand_dims", "unary"} =>
       LET new == 1 .. Len(array'.shape) - Rank IN
       Order(array'.tag) >= Order(array.tag) * Cardinality(Bijection(new, new))]_vars
=============================================================================
