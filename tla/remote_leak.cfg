\* No timeout, no reaping, a program with one array at a time.
SPECIFICATION FairSpec
CONSTANTS
  FlopBudget = 2
  MaxArrayCount = 2
  Kernels <- MCKernels
  None = None
  Contexts = {c1}
  MaxTimeouts = 0
  MaxHandles = 1
  Reaping = FALSE
  Ordered = TRUE
INVARIANTS
  HandlesAccounted
