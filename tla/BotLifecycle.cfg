CONSTANTS
  btc = btc
  eth = eth
  account = account
  Bots = {btc, eth}
  Keys = {account}
  Key <- OneAccount
  NoBot = none
  MaxAttempts = 2
  MaxLaunches = 2
  MaxDeaths = 1
  MaxWriteFailures = 1
  MaxCrashes = 1
SPECIFICATION Spec
SYMMETRY BotSymmetry
INVARIANTS
  TypeOK
  StoresAgree
  LeaseHeldWhileExposed
  FrozenStaysDown
  DeadWorkersAreFound
PROPERTIES
  FaultIsFinal
  MonitorSparesLiveWorkers
CHECK_DEADLOCK FALSE
