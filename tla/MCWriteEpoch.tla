---------------------------- MODULE MCWriteEpoch ----------------------------
(* Roots, extents and tensors are interchangeable.                           *)
EXTENDS WriteEpoch, TLC

MCSymmetry ==
  Permutations(Roots) \cup Permutations(Extents) \cup Permutations(Tensors)
=============================================================================
