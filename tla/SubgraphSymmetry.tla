-------------------------- MODULE SubgraphSymmetry --------------------------
(***************************************************************************)
(* Symmetry of the intermediate results of a contraction of three or more  *)
(* operands (flopscope/_opt_einsum/_subgraph_symmetry.py), and the price   *)
(* of one binary step of its path (_walk_path_and_aggregate).              *)
(*                                                                         *)
(* Intermediate results are named by the set of operands they contract.    *)
(* The labels of one operand are distinct.                                 *)
(***************************************************************************)
EXTENDS EinsumSymmetry

RowsIn(e, S) == {r \in Rows(e) : r[1] \in S}

\* The labels of a subset that survive its contraction.
FreeIn(e, S) == LabelsOf(e, S) \cap (e.out \cup LabelsOf(e, Positions(e) \ S))
SummedIn(e, S) == LabelsOf(e, S) \ FreeIn(e, S)

Copies(e, S) == {C \in {D \cap S : D \in e.same} : Cardinality(C) >= 2}

\* Source A: the declared symmetry of an operand.
OwnSymmetry(e, S) ==
    UNION {{[r \in RowsIn(e, S) |-> IF r[1] = k THEN <<k, g[r[2]]>> ELSE r]
              : g \in e.ops[k].sym} : k \in S}

\* Two operands change places, axis by axis.
SwapOf(e, S, p) ==
    [r \in RowsIn(e, S) |-> IF r[1] = p[1] THEN <<p[2], r[2]>>
                            ELSE IF r[1] = p[2] THEN <<p[1], r[2]>> ELSE r]
OfOneRank(e, K) ==
    {q \in K \X K : q[1] < q[2] /\ Len(e.ops[q[1]].labels) = Len(e.ops[q[2]].labels)}

\* Mutant: any two operands of one rank.
CopySwapsByRank(e, S) == {SwapOf(e, S, p) : p \in OfOneRank(e, S)}

\* Source B: two copies of one object change places.
CopySwaps(e, S) == {SwapOf(e, S, p) : p \in UNION {OfOneRank(e, C) : C \in Copies(e, S)}}

\* Source C: copies with the same labels exchange two summed axes together.
CopyRelabels(e, S) ==
    UNION {LET k == Min(C)
               axes == AxesOf(e.ops[k], SummedIn(e, S))
           IN  {[r \in RowsIn(e, S) |->
                   IF r[1] \notin C THEN r
                   ELSE IF r[2] = p[1] THEN <<r[1], p[2]>>
                   ELSE IF r[2] = p[2] THEN <<r[1], p[1]>> ELSE r]
                  : p \in {q \in axes \X axes : q[1] < q[2]}}
             : C \in {D \in Copies(e, S) :
                        \A j, k \in D : e.ops[j].labels = e.ops[k].labels}}

RowGroup(e, S) ==
    Dimino(RowsIn(e, S), OwnSymmetry(e, S) \cup CopySwaps(e, S) \cup CopyRelabels(e, S))

SubsetRenamings(e, S) ==
    {pi \in {AsRenaming(R) : R \in {Q \in {Induced(e, s) : s \in RowGroup(e, S)} : IsRenaming(Q)}} :
       Image(pi, FreeIn(e, S)) = FreeIn(e, S)}

\* The symmetry of the result of the subset, and the one of all its labels.
OutputGroup(e, S) ==
    {Restrict(pi, FreeIn(e, S)) : pi \in SubsetRenamings(e, S)} \ {Identity(FreeIn(e, S))}
JointGroup(e, S) == SubsetRenamings(e, S) \ {Identity(LabelsOf(e, S))}

----------------------------------------------------------------------------
(* A binary step of the path, and its price.                               *)

OnAxes(labels, pi) ==
    [a \in DOMAIN labels |-> CHOOSE b \in DOMAIN labels : labels[b] = pi[labels[a]]]

\* What stands for a subset as the input of a step.
StepOperand(e, S) ==
    LET k == CHOOSE j \in S : TRUE
        labels == IF Cardinality(S) = 1 THEN e.ops[k].labels ELSE SetToSeq(FreeIn(e, S))
        found == {OnAxes(labels, pi) : pi \in OutputGroup(e, S)}
        names == [i \in 1..Cardinality(S) |-> e.ops[Ascending(S)[i]].tensor[1]]
    IN  IF Cardinality(S) > 1 THEN Operand(names, labels, found)
        ELSE IF SummedIn(e, S) # {} THEN ReduceOperand(e.ops[k], SummedIn(e, S))
        ELSE [e.ops[k] EXCEPT !.sym = found]

Step(e, S, T) ==
    [ops |-> <<StepOperand(e, S), StepOperand(e, T)>>,
     same |-> IF Cardinality(S \cup T) = 2 /\ S \cup T \in Copies(e, S \cup T)
              THEN {{1, 2}} ELSE {},
     out |-> FreeIn(e, S \cup T),
     size |-> e.size]

\* Labels of an operand that are summed on their own before the step.
SummedBefore(e, S) == IF Cardinality(S) = 1 THEN SummedIn(e, S) ELSE {}
StepLabels(e, S, T) == FreeIn(e, S) \cup FreeIn(e, T)

\* Cat B: every distinct entry of the result costs one contraction of a dense one;
\* over an empty axis that would be less than nothing, and is no candidate.
OutputCandidate(e, S, T) ==
    LET V == FreeIn(e, S \cup T)
        orbits == Burnside(Dimino(V, OutputGroup(e, S \cup T)), e.size, V)
        inner == Dense(e.size, StepLabels(e, S, T) \ V)
    IN  IF /\ OutputGroup(e, S \cup T) # {}
           /\ SizesAgree(OutputGroup(e, S \cup T), e.size)
           /\ 0 < orbits
           /\ orbits < Dense(e.size, V)
        THEN {n \in {orbits * (2 * inner - 1)} : n > 0} ELSE {}

\* The joint group on the labels of the step.
JointOnStep(e, S, T) ==
    LET gone == SummedBefore(e, S) \cup SummedBefore(e, T)
        all == Dimino(LabelsOf(e, S \cup T), JointGroup(e, S \cup T))
    IN  Stabilizer({g \in all : Image(g, gone) = gone}, LabelsOf(e, S \cup T) \ gone)

\* Cat C: orbits of the joint group, where it has just the labels of the step.
JointApplies(e, S, T) ==
    /\ Cardinality(JointOnStep(e, S, T)) > 1
    /\ LabelsOf(e, S \cup T) \ (SummedBefore(e, S) \cup SummedBefore(e, T)) = StepLabels(e, S, T)

\* The joint group cannot be restricted to no labels, nor counted over labels
\* of different sizes: pricing the step raises.
JointRaises(e, S, T) ==
    /\ JointGroup(e, S \cup T) # {}
    /\ \/ /\ SummedBefore(e, S) \cup SummedBefore(e, T) # {}
          /\ SummedBefore(e, S) \cup SummedBefore(e, T) = LabelsOf(e, S \cup T)
       \/ JointApplies(e, S, T) /\ ~ SizesAgree(JointOnStep(e, S, T), e.size)

JointCandidate(e, S, T) ==
    LET M == Burnside(JointOnStep(e, S, T), e.size, StepLabels(e, S, T))
        V == FreeIn(e, S \cup T)
    IN  IF M = 0 THEN 0
        ELSE 2 * M - Burnside(Stabilizer(JointOnStep(e, S, T), V), e.size, V)

----------------------------------------------------------------------------
(* What a symmetry of the result means.                                    *)

\* The products a cell of the result adds up, with their multiplicities.
Cell(e, v) ==
    LET all == {x \in Labelings(e.size, Labels(e)) : Restrict(x, e.out) = v}
    IN  [p \in {Product(e, x) : x \in all} |-> Cardinality({x \in all : Product(e, x) = p})]

HoldsOfResult(e, pi) ==
    \A v \in Labelings(e.size, e.out) : Cell(e, v) = Cell(e, [l \in e.out |-> v[pi[l]]])
=============================================================================
