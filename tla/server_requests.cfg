\* Any requests in any order, idle polls and summary resets.
SPECIFICATION Spec
CONSTANTS
  FlopBudget = 3
  MaxArrayCount = 3
  Kernels <- MCKernels
  None = None
  MaxHandles = 4
  MaxPast = 6
INVARIANTS
  TypeOK
  StoreBounded
  NoStranding
  SummaryAccounts
PROPERTIES
  ChargesReported
  ReservedRefusalIsFree
