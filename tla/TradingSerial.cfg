CONSTANTS
  Threads = {t1}
  Nobody = nobody
  Operations = {1, 2}
  Request <- MCRequest
  Instrument = "BTC-USDT"
  OpeningCash = 3
  OpeningShares = 0
  HostPolicy <- MCHostPolicy
  Budgets <- SerialBudgets
SPECIFICATION Spec
INVARIANTS
  JournalSound
  SubmittedOnce
  TerminalOnlyWithEvidence
  OpenExposureIsTracked
PROPERTIES
  FreezeBlocksNewRisk
CHECK_DEADLOCK FALSE
