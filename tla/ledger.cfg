\* Programs whose contexts have one thread at a time and whose resets are
\* quiescent, and programs whose threads share a context and reset at any moment.
SPECIFICATION Spec
CONSTANTS
  Threads = {t1, t2}
  c1 = c1
  c2 = c2
  Explicit = {c1, c2}
  d1 = d1
  d2 = d2
  Defaults = {d1, d2}
  NoCtx = NoCtx
  NoThread = NoThread
  MCBudgetSize = 2
  Budget <- MCBudget
  Cost = {1, 2}
  Programs <- OwnedOrShared
SYMMETRY Symmetric
INVARIANTS
  TypeOK
  Enforced
  SummaryCoherent
  NeverDoubleCounted
  OwnViewComplete
  QuietResetForgets
  BudgetBacksUsage
PROPERTIES
  MeterSpec
