CONSTANTS
  first = first
  second = second
  btc = btc
  eth = eth
  Experiments = {first, second}
  Instruments = {btc, eth}
  Threads = {ui}
  MaxDeploys = 2
  MaxFaults = 1
  MaxUserCommands = 2
  MaxCrashes = 1
  MaxReports = 1
SPECIFICATION Spec
SYMMETRY ExperimentSymmetry
INVARIANTS
  EndedMeansStopped
  ExperimentsSound
PROPERTIES
  EndedIsFinal
CHECK_DEADLOCK FALSE
