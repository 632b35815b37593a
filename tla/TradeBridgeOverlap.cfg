CONSTANTS
  alice = alice
  btc = btc
  eth = eth
  Users = {alice}
  Codes = {btc, eth}
  CodeOrder <- InOrder
  Streams = {first, second}
  NoStream = none
  Threads = {t1}
  Slots = {s1, s2}
  MaxTrades = 0
  MaxChanges = 3
SPECIFICATION Spec
PROPERTIES
  StartedBotsAreTicked
CHECK_DEADLOCK FALSE
