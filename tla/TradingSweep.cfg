CONSTANTS
  Threads = {t1, t2}
  Nobody = nobody
  Operations = {1, 2}
  Request <- MCRequest
  Instrument = "BTC-USDT"
  OpeningCash = 3
  OpeningShares = 0
  HostPolicy <- MCHostPolicy
  Budgets <- SweepBudgets
SPECIFICATION Spec
SYMMETRY Symmetric
INVARIANT TerminalOnlyWithEvidence
CHECK_DEADLOCK FALSE
