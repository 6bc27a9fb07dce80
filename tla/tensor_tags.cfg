\* Chains of two operations on small arrays.
SPECIFICATION Spec
CONSTANTS
  None = None
  Starts <- MCStarts
  Destinations <- MCDestinations
  Shapes <- MCShapes
  MaxRank = 4
  MaxCells = 16
  MaxOps = 2
CHECK_DEADLOCK FALSE
INVARIANTS
  TypeOK
  TagsTrue
PROPERTIES
  MovesKeepSymmetry
