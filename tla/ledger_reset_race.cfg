\* One thread resets the session while another is closing its own context.
SPECIFICATION Spec
CONSTANTS
  Threads = {t1, t2}
  c1 = c1
  c2 = c2
  Explicit = {c1}
  d1 = d1
  d2 = d2
  Defaults = {d1, d2}
  NoCtx = NoCtx
  NoThread = NoThread
  MCBudgetSize = 1
  Budget <- MCBudget
  Cost = {1}
  Programs <- OnlyRacing
INVARIANTS
  ResetForgets
