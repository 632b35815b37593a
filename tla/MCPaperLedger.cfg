CONSTANTS
  Instruments = {btc}
  OpeningCash = 3
  OpeningShares = 1
  MaxOrders = 2
  MaxImports = 1
  MaxQuantity = 2
  MaxPrice = 2
  MaxFee = 1
SPECIFICATION Spec
INVARIANTS
  TypeOK
  ReservationsMatchOpenOrders
  FillsExplainOrders
  CashFollowsFills
  SoldSharesWereSettled
  ReservationsCovered
PROPERTY EvidenceOnlyGrows
CHECK_DEADLOCK FALSE
