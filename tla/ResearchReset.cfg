CONSTANTS
  alice = alice
  bob = bob
  Callers = {bob}
  Host = host
  Key <- OwnKey
  Waits = {bob}
  MaxAttempts = 1
  Budgets <- OneReset
SPECIFICATION Spec
PROPERTIES
  ResetWaitsForAllWork
CHECK_DEADLOCK FALSE
