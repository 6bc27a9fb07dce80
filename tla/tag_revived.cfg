\* The root a count was first seen through dies before another one.
SPECIFICATION Spec
CONSTANTS
  Roots = {r1, r2}
  Extents = {e1}
  Tensors = {t1}
  MaxWrites = 1
  None = None
INVARIANT
  LossVoids
