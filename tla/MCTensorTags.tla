---------------------------- MODULE MCTensorTags ----------------------------
(* Small instances of TensorTags.                                            *)
EXTENDS TensorTags

\* SymmetryGroup.symmetric(axes) and .cyclic(axes) of at least two axes.
Sym(axes) == Group(axes, Bijection(Range(axes), Range(axes)))

Cyclic(n) ==
  Group([a \in 1 .. n |-> a],
        {[a \in 1 .. n |-> ((a - 1 + k) % n) + 1] : k \in 0 .. n - 1})

\* The exchange of axes a and b, as a group of all n axes.
Swap(n, a, b) ==
  Group([k \in 1 .. n |-> k],
        {[k \in 1 .. n |-> k],
         [k \in 1 .. n |-> IF k = a THEN b ELSE IF k = b THEN a ELSE k]})

\* Axes 1 and 2 are exchanged together with axes 3 and 4.
Paired ==
  Group(<<1, 2, 3, 4>>, {<<1, 2, 3, 4>>, <<2, 1, 4, 3>>})

MCStarts ==
  {Declared(<<2>>, None), Declared(<<2, 2>>, None),
   Declared(<<2, 2>>, Sym(<<1, 2>>)),
   Declared(<<1, 2, 2>>, Sym(<<2, 3>>)),
   Declared(<<2, 2, 2>>, Sym(<<1, 2, 3>>)),
   Declared(<<2, 2, 2>>, Cyclic(3)),
   Declared(<<2, 2, 2, 2>>, Paired),
   Declared(<<2, 2, 1>>, Swap(3, 1, 2)),
   Filled(<<1, 2>>), Filled(<<2, 2>>), Filled(<<1, 1, 2>>)}

MCDestinations ==
  {Declared(<<2, 2>>, None), Declared(<<2, 2>>, Sym(<<1, 2>>)), Filled(<<2, 2>>),
   Declared(<<2, 2, 2>>, Sym(<<1, 2, 3>>)), Filled(<<2, 2, 2>>)}

MCShapes ==
  {<<4>>, <<8>>, <<2, 2>>, <<1, 2, 2>>, <<2, 1, 2>>, <<2, 4>>, <<4, 2>>,
   <<2, 2, 2>>, <<2, 2, 1, 2>>}
=============================================================================
