------------------------ MODULE AccumulationRegimes ------------------------
(***************************************************************************)
(* How many accumulations a contraction performs once the symmetry of its  *)
(* labels is known: the permutation groups, the independent components of  *)
(* a group, and the ladder of counting regimes that prices a component     *)
(* (flopscope/_accumulation and _perm_group.py).                           *)
(*                                                                         *)
(* A permutation is a function on a set of labels.  A component is a       *)
(* record: its labels, the elements of its group, the size of each label   *)
(* and the labels visible in the output.                                   *)
(***************************************************************************)
EXTENDS Integers, FiniteSets, FiniteSetsExt, Functions

----------------------------------------------------------------------------
(* Permutations and the groups they generate.                              *)

Identity(L) == [l \in L |-> l]
Compose(g, h) == [l \in DOMAIN h |-> g[h[l]]]
Image(g, S) == {g[l] : l \in S}
Moved(g) == {l \in DOMAIN g : g[l] # l}

\* Products with the generators are added until there are no new ones.
Dimino(L, gens) ==
    LET grow[seen \in SUBSET [L -> L]] ==
            LET new == {Compose(x, g) : x \in seen, g \in gens} \ seen
            IN  IF new = {} THEN seen ELSE grow[seen \cup new]
    IN  grow[gens \cup {Identity(L)}]

\* Enumeration stops when a product makes the group larger than the budget; the
\* identity and the first generator are never counted against it.
Exceeds(order, budget) == order > budget /\ order > 2

Cycle(g, l) ==
    LET walk[path \in SUBSET DOMAIN g] ==
            IF Image(g, path) \subseteq path THEN path ELSE walk[path \cup Image(g, path)]
    IN  walk[{l}]
Cycles(g, S) == {Cycle(g, l) : l \in S}

Prod(f(_), S) ==
    MapThenFoldSet(LAMBDA x, y : x * y, 1, f, LAMBDA T : CHOOSE t \in T : TRUE, S)

Dense(size, S) == Prod(LAMBDA l : size[l], S)

SizesAgree(G, size) == \A g \in G : \A l \in DOMAIN g : size[g[l]] = size[l]

FixedBy(g, size, S) == Prod(LAMBDA c : size[CHOOSE l \in c : TRUE], Cycles(g, S))

\* The orbits of the labelings of S under G.
Burnside(G, size, S) ==
    MapThenSumSet(LAMBDA g : FixedBy(g, size, S), G) \div Cardinality(G)

\* The subgroup that maps S to itself, as it acts on S.
Stabilizer(G, S) == {Restrict(g, S) : g \in {x \in G : Image(x, S) = S}}

----------------------------------------------------------------------------
(* Components.                                                             *)

Merge(P, g) ==
    IF Moved(g) = {} THEN P
    ELSE {B \in P : B \cap Moved(g) = {}} \cup {UNION {B \in P : B \cap Moved(g) # {}}}

Blocks(L, gens) == FoldSet(LAMBDA g, P : Merge(P, g), {{l} : l \in L}, gens)

Components(L, gens, size, visible) ==
    {[labels |-> B, size |-> size, visible |-> visible \cap B,
      group |-> Dimino(B, {Restrict(g, B) : g \in gens} \ {Identity(B)})]
       : B \in Blocks(L, gens)}

----------------------------------------------------------------------------
(* The regimes.                                                            *)

\* Mutant: one element that keeps the visible labels is enough.
FunctionalOnce(c) == \E g \in c.group \ {Identity(c.labels)} : Image(g, c.visible) = c.visible

Functional(c) == \A g \in c.group : Image(g, c.visible) = c.visible

Singleton(c) ==
    LET v == CHOOSE l \in c.visible : TRUE
        omega == {g[v] : g \in c.group}
        n == c.size[v]
        Reaching(g) == LET k == Cardinality(Cycles(g, omega)) IN n ^ k - (n - 1) ^ k
    IN  (n * MapThenSumSet(LAMBDA g : FixedBy(g, c.size, c.labels \ omega) * Reaching(g),
                           c.group)) \div Cardinality(c.group)

Factorial(n) == Prod(LAMBDA i : i, 1..n)

\* Mutant: one too many to choose from.
MultisetsShifted(n, k) == Prod(LAMBDA i : n + k + 1 - i, 1..k) \div Factorial(k)

Multisets(n, k) == Prod(LAMBDA i : n + k - i, 1..k) \div Factorial(k)

IsYoung(c) ==
    /\ Cardinality(c.visible) >= 2
    /\ Cardinality(c.group) = Factorial(Cardinality(c.labels))
    /\ ~ Functional(c)
    /\ Cardinality({c.size[l] : l \in c.labels}) = 1

Young(c) ==
    LET n == c.size[CHOOSE l \in c.labels : TRUE]
    IN  Multisets(n, Cardinality(c.visible)) * Multisets(n, Cardinality(c.labels \ c.visible))

SetPartitions(S) ==
    LET partitions[T \in SUBSET S] ==
            IF T = {} THEN {{}}
            ELSE LET l == CHOOSE x \in T : TRUE
                 IN  UNION {{P \cup {B \cup {l}} : P \in partitions[T \ (B \cup {l})]}
                              : B \in SUBSET (T \ {l})}
    IN  partitions[S]

\* The equality patterns of a labeling: only labels of one size may agree.
TypedPartitions(c) ==
    {P \in SetPartitions(c.labels) : \A B \in P : \A l, m \in B : c.size[l] = c.size[m]}

Falling(n, m) == IF m > n THEN 0 ELSE Prod(LAMBDA i : n - i, 0..(m - 1))

PatternLabelings(P, size) ==
    LET SizeOf(B) == size[CHOOSE l \in B : TRUE]
    IN  Prod(LAMBDA n : Falling(n, Cardinality({B \in P : SizeOf(B) = n})),
             {SizeOf(B) : B \in P})

Moves(g, P) == {Image(g, B) : B \in P}

BlockAction(P, G) == {[B \in P |-> Image(g, B)] : g \in {x \in G : Moves(x, P) = P}}

\* Which blocks can stand at the visible places, up to what the output identifies.
OutputPatterns(P, c) ==
    LET Block(l) == CHOOSE B \in P : l \in B
        maps == {[v \in c.visible |-> Block(CHOOSE l \in c.labels : g[l] = v)] : g \in c.group}
    IN  {{[v \in c.visible |-> m[h[v]]] : h \in Stabilizer(c.group, c.visible)} : m \in maps}

PartitionCount(c) ==
    MapThenSumSet(
        LAMBDA orbit : LET P == CHOOSE Q \in orbit : TRUE
                       IN  (PatternLabelings(P, c.size) \div Cardinality(BlockAction(P, c.group)))
                             * Cardinality(OutputPatterns(P, c)),
        {{Moves(g, P) : g \in c.group} : P \in TypedPartitions(c)})

Ladder(c, partitionBudget) ==
    CASE Cardinality(c.group) <= 1 -> [regime |-> "trivial", count |-> Dense(c.size, c.labels)]
      [] Cardinality(c.group) > 1 /\ Functional(c) ->
             [regime |-> "functionalProjection", count |-> Burnside(c.group, c.size, c.labels)]
      [] OTHER ->
             IF Cardinality(c.visible) = 1
             THEN [regime |-> "singleton", count |-> Singleton(c)]
             ELSE IF IsYoung(c) THEN [regime |-> "young", count |-> Young(c)]
             ELSE IF Cardinality(TypedPartitions(c)) <= partitionBudget
             THEN [regime |-> "partitionCount", count |-> PartitionCount(c)]
             ELSE [regime |-> "unavailable", count |-> 0]

OutputOrbits(c) ==
    IF c.visible = {} THEN IF Dense(c.size, c.labels) > 0 THEN 1 ELSE 0
    ELSE Burnside(Stabilizer(c.group, c.visible), c.size, c.visible)

----------------------------------------------------------------------------
(* What the ladder counts, by its definition: the pairs of an orbit of the *)
(* full index and an orbit of the output index that it reaches.            *)

Labelings(size, S) ==
    LET top == IF S = {} THEN 0 ELSE Max({size[l] : l \in S})
    IN  {x \in [S -> 1..top] : \A l \in S : x[l] <= size[l]}

Accumulations(c) ==
    LET H == Stabilizer(c.group, c.visible)
        Input(x) == {[l \in c.labels |-> x[g[l]]] : g \in c.group}
        Output(x) == {[v \in c.visible |-> x[h[v]]] : h \in H}
    IN  {<<Input(x), Output(x)>> : x \in Labelings(c.size, c.labels)}
============================================================================
