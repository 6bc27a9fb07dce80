SPECIFICATION Spec
CONSTANTS
  MaxTime = 2
  MaxDepth = 4
  MaxResets = 0
INVARIANTS
  OverheadComplete
