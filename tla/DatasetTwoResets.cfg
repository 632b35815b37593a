SPECIFICATION Spec
CONSTANTS
  alice = alice
  bob = bob
  r1 = r1
  r2 = r2
  r3 = r3
  d1 = d1
  Users = {alice}
  Datasets = {d1}
  Resets = {r1, r2}
  ResetOf <- TwoAlls
  MaxAttempts = 2
  Budgets <- TwoResets
PROPERTY ResetTakesOnlyItsOwn
CHECK_DEADLOCK FALSE
