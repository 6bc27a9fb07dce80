SPECIFICATION Spec
CONSTANTS
  MaxTime = 2
  MaxDepth = 6
  MaxResets = 1
INVARIANTS
  TypeOK
  SplitExact
  NothingTwice
