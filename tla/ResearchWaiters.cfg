CONSTANTS
  alice = alice
  bob = bob
  Callers = {alice, bob}
  Host = host
  Key <- SameKey
  Waits = {alice, bob}
  MaxAttempts = 2
  Budgets <- CallsOnly
SPECIFICATION Spec
PROPERTIES
  EveryWaiterReturns
CHECK_DEADLOCK FALSE
