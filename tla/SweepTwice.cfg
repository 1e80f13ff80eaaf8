SPECIFICATION Spec
CONSTANTS
  Buy = Buy
  Sell = Sell
  Keys <- OneBuy
  Buys <- OneBuy
  Requests <- Sweeps
  Price = 2
  Start = 5
  Held = 1
  Raise = 1
  None = None
  Sessions = {s1, s2}
INVARIANTS
  SweepsAreIdempotent
CHECK_DEADLOCK FALSE
