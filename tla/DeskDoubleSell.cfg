SPECIFICATION Spec
CONSTANTS
    Orders = {o1, o2, o3}
    Symbols = {a}
    Types = {"MARKET"}
    Qtys = {1}
    Prices = {1}
    Balances = {3}
    BuyFlat = 0
    BuyRate = 0
    SellFlat = 0
    SellRate = 0
SYMMETRY OrderSymmetry
CONSTRAINT NoSweep
INVARIANT PositionsReflectFills
