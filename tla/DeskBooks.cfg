SPECIFICATION Spec
CONSTANTS
    Orders = {o1, o2}
    Symbols = {a}
    Types = {"MARKET", "LIMIT"}
    Qtys = {1, 2}
    Prices = {2}
    Balances = {8}
    BuyFlat = 1
    BuyRate = 0
    SellFlat = 0
    SellRate = 500
SYMMETRY OrderSymmetry
CONSTRAINT NoSweep
INVARIANT TypeOK
PROPERTIES  BooksBalance HoldingsMatchFills
