\* The same chains, without leaving out the steps whose rule is wrong.
SPECIFICATION Spec
CONSTANTS
  None = None
  Starts <- MCStarts
  Destinations <- MCDestinations
  Shapes <- MCShapes
  MaxRank = 4
  MaxCells = 16
  MaxOps = 2
CHECK_DEADLOCK FALSE
INVARIANTS
  EveryTagTrue
