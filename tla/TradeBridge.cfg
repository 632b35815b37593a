CONSTANTS
  alice = alice
  btc = btc
  eth = eth
  Users = {alice}
  Codes = {btc, eth}
  CodeOrder <- InOrder
  Streams = {first, second}
  NoStream = none
  Threads = {t1, t2}
  Slots = {s1}
  MaxTrades = 2
  MaxChanges = 3
SPECIFICATION Spec
INVARIANTS
  BridgeSound
  LatestTradeSurvives
  StreamCoversStartedBots
PROPERTIES
  TradesAreDispatched
  StartedBotsAreTicked
CHECK_DEADLOCK FALSE
