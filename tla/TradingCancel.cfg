CONSTANTS
  Threads = {t1}
  Nobody = nobody
  Operations = {1, 2}
  Request <- MCRequest
  Instrument = "BTC-USDT"
  OpeningCash = 3
  OpeningShares = 0
  HostPolicy <- MCHostPolicy
  Budgets <- CancelBudgets
SPECIFICATION Spec
INVARIANT FillsPrecedeTerminal
CHECK_DEADLOCK FALSE
