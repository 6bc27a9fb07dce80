--------------------------- MODULE MCEinsumPricing ---------------------------
(***************************************************************************)
(* Contractions for the model checker.                                     *)
(***************************************************************************)
EXTENDS EinsumPricing, TLC

Swap == {<<2, 1>>}
Cyclic == {<<2, 3, 1>>}
LastTwo == {<<1, 3, 2>>}
Pairs == {<<2, 1, 4, 3>>}
Symmetric == {<<2, 1, 3>>, <<2, 3, 1>>}

Two == [l \in {"i", "j", "k", "p", "q"} |-> 2]
Uneven == [Two EXCEPT !["k"] = 3]
Empty == [Two EXCEPT !["j"] = 0]

Contraction(ops, same, out, size) ==
    [ops |-> ops, same |-> same, out |-> out, size |-> size]

SmallExpressions ==
    {\* A A of a matrix, general and symmetric, and its sum over an empty axis
     Contraction(<<Operand(<<"A">>, <<"i", "j">>, {}), Operand(<<"A">>, <<"j", "k">>, {})>>,
                 {{1, 2}}, {"i", "k"}, Two),
     Contraction(<<Operand(<<"A">>, <<"i", "j">>, Swap), Operand(<<"A">>, <<"j", "k">>, Swap)>>,
                 {{1, 2}}, {"i", "k"}, Two),
     Contraction(<<Operand(<<"A">>, <<"i", "j">>, {}), Operand(<<"B">>, <<"j", "k">>, {})>>,
                 {}, {"i", "k"}, Empty),
     \* A A^T: the copies change places
     Contraction(<<Operand(<<"A">>, <<"i", "j">>, {}), Operand(<<"A">>, <<"k", "j">>, {})>>,
                 {{1, 2}}, {"i", "k"}, Two),
     \* one symmetric operand, traced in part
     Contraction(<<Operand(<<"A">>, <<"i", "j", "k">>, LastTwo)>>, {}, {"j"}, Two),
     Contraction(<<Operand(<<"A">>, <<"i", "j", "k">>, Symmetric)>>, {}, {"i", "j"}, Two),
     Contraction(<<Operand(<<"A">>, <<"i", "j", "k">>, Cyclic)>>, {}, {"i", "j"}, Two),
     \* labels summed in one operand alone
     Contraction(<<Operand(<<"A">>, <<"i", "j", "p">>, Symmetric), Operand(<<"B">>, <<"j", "k">>, {})>>,
                 {}, {"i", "k"}, Uneven),
     Contraction(<<Operand(<<"A">>, <<"p", "i", "j">>, {}), Operand(<<"A">>, <<"j", "i", "q">>, {})>>,
                 {{1, 2}}, {}, Two)}

Paths ==
    {\* A A v of a symmetric matrix, A A^T v
     Contraction(<<Operand(<<"A">>, <<"i", "j">>, Swap), Operand(<<"A">>, <<"j", "k">>, Swap),
                   Operand(<<"v">>, <<"k">>, {})>>, {{1, 2}}, {"i"}, Two),
     Contraction(<<Operand(<<"A">>, <<"i", "j">>, {}), Operand(<<"A">>, <<"k", "j">>, {}),
                   Operand(<<"v">>, <<"p">>, {})>>, {{1, 2}}, {"i", "k", "p"}, Two),
     \* A A^T over an empty axis, times a vector
     Contraction(<<Operand(<<"A">>, <<"i", "j">>, {}), Operand(<<"A">>, <<"k", "j">>, {}),
                   Operand(<<"v">>, <<"p">>, {})>>, {{1, 2}}, {"i", "k", "p"}, Empty),
     \* two tensors that exchange pairs of axes, summed over one of each, and a scalar
     Contraction(<<Operand(<<"A">>, <<"i", "j", "k", "p">>, Pairs),
                   Operand(<<"B">>, <<"i", "j", "k", "p">>, Pairs),
                   Operand(<<"c">>, <<>>, {})>>, {}, {"i", "k"}, Two),
     \* the sum of the squares of a matrix times a vector
     Contraction(<<Operand(<<"A">>, <<"i", "j">>, {}), Operand(<<"A">>, <<"i", "j">>, {}),
                   Operand(<<"v">>, <<"p">>, {})>>, {{1, 2}}, {"p"}, Two),
     \* outer products of a vector
     Contraction(<<Operand(<<"v">>, <<"i">>, {}), Operand(<<"v">>, <<"j">>, {}),
                   Operand(<<"w">>, <<"p">>, {})>>, {{1, 2}}, {"i", "j", "p"}, Two),
     Contraction(<<Operand(<<"v">>, <<"i">>, {}), Operand(<<"v">>, <<"j">>, {}),
                   Operand(<<"B">>, <<"j", "i", "p">>, {<<2, 1, 3>>})>>, {{1, 2}}, {"p"}, Two)}

\* Each contraction is asked for by both threads.
AllPrograms == {{e} : e \in SmallExpressions \cup Paths}

ThreadSymmetry == Permutations(Threads)
=============================================================================
