-------------------------- MODULE MCPaperSessions --------------------------
(* Small instances of PaperSessions for TLC: requests for a BUY order and a *)
(* SELL order.  A request whose order or price does not matter is given the *)
(* BUY and a price that fires.                                              *)
EXTENDS PaperSessions

CONSTANTS Buy, Sell

TwoKeys == {Buy, Sell}
OneBuy == {Buy}

For(kinds, keys, fires) == [kind : kinds, key : keys, fires : fires]

EveryKind == For({"sweep"}, OneBuy, BOOLEAN) \cup For({"sweep"}, TwoKeys, {TRUE})
             \cup For({"place", "refresh", "exit", "squareoff", "cancel", "capital"},
                      OneBuy, {TRUE})
Sweeps == For({"sweep"}, OneBuy, {TRUE})
PlacesAndRefreshes == For({"place", "refresh"}, TwoKeys, {TRUE})

=============================================================================
