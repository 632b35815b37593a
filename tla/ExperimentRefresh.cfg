CONSTANTS
  first = first
  second = second
  btc = btc
  eth = eth
  Experiments = {first}
  Instruments = {btc, eth}
  Threads = {button, timer}
  MaxDeploys = 1
  MaxFaults = 0
  MaxUserCommands = 0
  MaxCrashes = 0
  MaxReports = 1
SPECIFICATION Spec
PROPERTIES
  ReportStaysLinked
CHECK_DEADLOCK FALSE
