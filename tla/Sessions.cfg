SPECIFICATION FairSpec
CONSTANTS
  Buy = Buy
  Sell = Sell
  Keys <- TwoKeys
  Buys <- OneBuy
  Requests <- EveryKind
  Price = 2
  Start = 3
  Held = 1
  Raise = 1
  None = None
  Sessions = {s1, s2, s3}
INVARIANTS
  TypeOK
  OrdersFillOnce
PROPERTIES
  CommitsKeepWorth
  ExitsCloseTheirPosition
  RefinesSerialDesk
  RequestsEnd
CHECK_DEADLOCK FALSE
