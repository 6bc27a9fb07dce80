\* Timeouts, requests that arrive after their socket was dropped, reaped sessions.
SPECIFICATION FairSpec
CONSTANTS
  FlopBudget = 2
  MaxArrayCount = 2
  Kernels <- MCPairKernels
  None = None
  Contexts = {c1}
  MaxTimeouts = 2
  MaxHandles = 3
  Reaping = TRUE
  Ordered = TRUE
INVARIANTS
  TypeOK
  SessionAgreed
  CountCurrent
  ProxiesBacked
  CountNeverAhead
PROPERTIES
  CallsEnd
  IdleSessionsEnd
