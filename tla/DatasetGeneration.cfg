SPECIFICATION Spec
CONSTANTS
  alice = alice
  bob = bob
  r1 = r1
  r2 = r2
  r3 = r3
  d1 = d1
  Users = {alice, bob}
  Datasets = {d1}
  Resets = {r1, r2, r3}
  ResetOf <- ThreeResets
  MaxAttempts = 3
  Budgets <- ManyBudgets
INVARIANT DatasetsSound
PROPERTIES CancellationWins ResetTakesOnlyItsOwn AttemptsEnd
CHECK_DEADLOCK FALSE
