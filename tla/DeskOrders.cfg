SPECIFICATION FairSpec
CONSTANTS
    Orders = {o1}
    Symbols = {a}
    Types = {"MARKET", "GTT", "STOP", "STOP_LIMIT"}
    Qtys = {1}
    Prices = {1, 2}
    Balances = {4}
    BuyFlat = 1
    BuyRate = 0
    SellFlat = 0
    SellRate = 0
INVARIANT WorkingOrdersMonitored
PROPERTIES TerminalOrdersFrozen ClosedMarketFillsNothing WaitingOrdersRun
