--------------------------- MODULE EinsumSymmetry ---------------------------
(***************************************************************************)
(* The symmetry a contraction is priced with: which renamings of its       *)
(* labels are found, from the declared symmetry of the operands and from   *)
(* operands that are one object (flopscope/_accumulation), and which       *)
(* renamings really leave every product unchanged.                         *)
(*                                                                         *)
(* An operand is a record: its labels, one per axis, generators of its     *)
(* declared axis symmetry, and the tensor it is an entry of, a sequence of *)
(* the names contracted into it.  An operand that was summed over some     *)
(* axes keeps the labels and generators it had before in "whole";          *)
(* otherwise they are its own.  An expression is a record: its operands,   *)
(* the sets of positions that hold one object, the labels of the output    *)
(* and the size of every label.                                            *)
(***************************************************************************)
EXTENDS AccumulationRegimes, Sequences, SequencesExt

Operand(tensor, labels, sym) ==
    [tensor |-> tensor, labels |-> labels, sym |-> sym,
     whole |-> [labels |-> labels, sym |-> sym]]

Positions(e) == DOMAIN e.ops
Rows(e) == UNION {{<<k, a>> : a \in DOMAIN e.ops[k].labels} : k \in Positions(e)}
LabelAt(e, r) == e.ops[r[1]].labels[r[2]]
LabelsOf(e, K) == UNION {ToSet(e.ops[k].labels) : k \in K}
Labels(e) == LabelsOf(e, Positions(e))
Summed(e) == Labels(e) \ e.out
AxisGroup(op) == Dimino(DOMAIN op.labels, op.sym)

----------------------------------------------------------------------------
(* Detection for the whole expression.                                     *)

Class(e, k) == {k} \cup UNION {C \in e.same : k \in C}

\* Copies of one object are exchanged axis by axis: that needs one rank.
Exchangeable(e) ==
    \A C \in e.same : \A j, k \in C : Len(e.ops[j].labels) = Len(e.ops[k].labels)

Wreath(e) ==
    LET Base(k) == AxisGroup(e.ops[Min(Class(e, k))])
        tops == {t \in Bijection(Positions(e), Positions(e)) :
                   \A k \in Positions(e) : t[k] \in Class(e, k)}
        bases == {h \in [Positions(e) -> UNION {Base(k) : k \in Positions(e)}] :
                    \A k \in Positions(e) : h[k] \in Base(k)}
    IN  {[r \in Rows(e) |-> <<t[r[1]], h[r[1]][r[2]]>>] : t \in tops, h \in bases}

\* The renaming a permutation of the rows induces, as a relation on labels.
Induced(e, sigma) == {<<LabelAt(e, r), LabelAt(e, sigma[r])>> : r \in DOMAIN sigma}

\* Mutant: some row of a label is enough.
IsRenamingLoose(R) == {p[1] : p \in R} = {p[2] : p \in R}

IsRenaming(R) == \A p, q \in R : (p[1] = q[1]) = (p[2] = q[2])
AsRenaming(R) == [l \in {p[1] : p \in R} |-> (CHOOSE p \in R : p[1] = l)[2]]

Renamings(e) ==
    {AsRenaming(R) : R \in {Q \in {Induced(e, s) : s \in Wreath(e)} : IsRenaming(Q)}}

\* What remains to be tried when generators are selected.
Candidates(e) == Renamings(e) \ {Identity(Labels(e))}

----------------------------------------------------------------------------
(* The price of a contraction, given generators of its symmetry.           *)

DensePrice(e) == Cardinality(Positions(e)) * Dense(e.size, Labels(e))

\* Mutant: the free copy is granted once, not once for each output orbit.
AggregateOneCopy(comps, terms, dense, partitionBudget) ==
    LET alpha == Prod(LAMBDA c : Ladder(c, partitionBudget).count, comps)
        mu == (terms - 1) * Prod(LAMBDA c : Burnside(c.group, c.size, c.labels), comps)
    IN  [total |-> IF alpha = 0 THEN 0 ELSE mu + alpha - 1, fallback |-> FALSE]

\* Mutant: nothing is summed over an empty axis, and the copies are still free.
AggregateUnguarded(comps, terms, dense, partitionBudget) ==
    LET alpha == Prod(LAMBDA c : Ladder(c, partitionBudget).count, comps)
        mu == (terms - 1) * Prod(LAMBDA c : Burnside(c.group, c.size, c.labels), comps)
    IN  [total |-> mu + alpha - Prod(OutputOrbits, comps), fallback |-> FALSE]

Aggregate(comps, terms, dense, partitionBudget) ==
    LET alpha == Prod(LAMBDA c : Ladder(c, partitionBudget).count, comps)
        mu == (terms - 1) * Prod(LAMBDA c : Burnside(c.group, c.size, c.labels), comps)
    IN  IF \E c \in comps : Ladder(c, partitionBudget).regime = "unavailable"
        THEN [total |-> terms * dense, fallback |-> TRUE]
        ELSE [total |-> IF alpha = 0 THEN 0 ELSE mu + alpha - Prod(OutputOrbits, comps),
              fallback |-> FALSE]

ContractionPrice(e, gens, partitionBudget) ==
    Aggregate(Components(Labels(e), gens, e.size, e.out), Cardinality(Positions(e)),
              Dense(e.size, Labels(e)), partitionBudget)

----------------------------------------------------------------------------
(* Summed labels of one operand are summed before a binary contraction.    *)

Isolated(e, k) == LabelsOf(e, {k}) \ (e.out \cup LabelsOf(e, Positions(e) \ {k}))
AxesOf(op, L) == {a \in DOMAIN op.labels : op.labels[a] \in L}

\* The axes that remain are renumbered in their order, and so is the part of the
\* declared symmetry that keeps them.
Ascending(S) == [i \in 1..Cardinality(S) |-> CHOOSE a \in S : Cardinality({b \in S : b <= a}) = i]
Remaining(op, L) == Ascending(DOMAIN op.labels \ AxesOf(op, L))

ReduceGroup(op, L) ==
    LET kept == Remaining(op, L)
        Renumbered(g) == [i \in DOMAIN kept |-> CHOOSE j \in DOMAIN kept : kept[j] = g[kept[i]]]
    IN  {Renumbered(g) : g \in Stabilizer(AxisGroup(op), ToSet(kept))} \ {Identity(DOMAIN kept)}

ReduceOperand(op, L) ==
    [op EXCEPT !.labels = [i \in DOMAIN Remaining(op, L) |-> op.labels[Remaining(op, L)[i]]],
               !.sym = ReduceGroup(op, L)]

\* The axes of the operand are the labels of the reduction.
ReductionPrice(op, L, size, partitionBudget) ==
    LET axes == DOMAIN op.labels
        kept == axes \ AxesOf(op, L)
        extent == [a \in axes |-> size[op.labels[a]]]
        comps == Components(axes, op.sym, extent, kept)
        orbits == IF kept = {} THEN 1 ELSE Burnside(Stabilizer(AxisGroup(op), kept), extent, kept)
        alpha == Prod(LAMBDA c : Ladder(c, partitionBudget).count, comps)
    IN  CASE L = {} -> [total |-> 0, fallback |-> FALSE]
          [] L # {} /\ \E c \in comps : Ladder(c, partitionBudget).regime = "unavailable" ->
                 [total |-> IF orbits = 0 THEN 0
                            ELSE orbits * Max({0, Dense(extent, axes) \div orbits - 1}),
                  fallback |-> TRUE]
          [] OTHER -> [total |-> IF alpha = 0 THEN 0 ELSE alpha - orbits, fallback |-> FALSE]

\* The pattern of identical operands is handed on as it is.
Residual(e) ==
    [e EXCEPT !.ops = [k \in Positions(e) |->
                         IF Isolated(e, k) = {} THEN e.ops[k]
                         ELSE ReduceOperand(e.ops[k], Isolated(e, k))]]

----------------------------------------------------------------------------
(* Which renamings leave every product unchanged.                          *)

\* Entries of a tensor that its declared symmetry makes equal are one symbol.
Symbol(op, x) ==
    <<op.tensor, {[a \in DOMAIN op.whole.labels |-> x[op.whole.labels[g[a]]]]
                    : g \in Dimino(DOMAIN op.whole.labels, op.whole.sym)}>>

\* The symbols an operand adds up at an index, with their multiplicities.
Entry(op, x, size) ==
    LET gone == ToSet(op.whole.labels) \ ToSet(op.labels)
        terms == {[l \in ToSet(op.whole.labels) |-> IF l \in gone THEN y[l] ELSE x[l]]
                    : y \in Labelings(size, gone)}
    IN  [s \in {Symbol(op, z) : z \in terms} |-> Cardinality({z \in terms : Symbol(op, z) = s})]

Product(e, x) ==
    LET entries == [k \in Positions(e) |-> Entry(e.ops[k], x, e.size)]
    IN  [s \in {entries[k] : k \in Positions(e)} |->
           Cardinality({k \in Positions(e) : entries[k] = s})]

HoldsPointwise(e, pi) ==
    /\ \A l \in DOMAIN pi : e.size[pi[l]] = e.size[l]
    /\ \A x \in Labelings(e.size, Labels(e)) :
           Product(e, x) = Product(e, [l \in Labels(e) |-> x[pi[l]]])

----------------------------------------------------------------------------
(* The price by its definition: the distinct products, each multiplied     *)
(* once, and the accumulations of their orbits beyond the first of each    *)
(* output orbit, over the whole expression at once.                        *)

ReferencePrice(e) ==
    LET whole == [labels |-> Labels(e), size |-> e.size, visible |-> e.out,
                  group |-> Renamings(e)]
        events == Accumulations(whole)
    IN  (Cardinality(Positions(e)) - 1) * Cardinality({p[1] : p \in events})
          + Cardinality(events) - Cardinality({p[2] : p \in events})
=============================================================================
