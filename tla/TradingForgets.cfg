CONSTANTS
  Threads = {t1, t2}
  Nobody = nobody
  Operations = {1, 2}
  Request <- MCRequest
  Instrument = "BTC-USDT"
  OpeningCash = 3
  OpeningShares = 0
  HostPolicy <- MCHostPolicy
  Budgets <- SubmitBudgets
SPECIFICATION Spec
SYMMETRY Symmetric
INVARIANT OrdersAreJournaled
CHECK_DEADLOCK FALSE
