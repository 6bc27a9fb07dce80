\* Buffers shared by two roots, written, copied, freed and used again.
SPECIFICATION Spec
CONSTANTS
  Roots = {r1, r2, r3}
  Extents = {e1, e2}
  Tensors = {t1, t2}
  MaxWrites = 2
  None = None
SYMMETRY MCSymmetry
INVARIANTS
  TypeOK
  TagHonest
  CountsOfLiveBuffers
PROPERTIES
  VoidForGood
