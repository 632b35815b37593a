CONSTANTS
  alice = alice
  bob = bob
  Callers = {alice, bob}
  Host = host
  Key <- OwnKey
  Waits = {bob}
  MaxAttempts = 2
  Budgets <- QueueBudgets
SPECIFICATION Spec
INVARIANTS
  TypeOK
  CancelledNeverPublishes
PROPERTIES
  ServesOneLine
  PendingIsServed
  EveryWaiterReturns
  ResetWaitsForWork
CHECK_DEADLOCK FALSE
