----------------------------- MODULE PaperDesk -----------------------------
(***************************************************************************)
(* The paper-trading desk: the order and position operations of            *)
(* PaperTradingService on one account, each request run to completion      *)
(* before the next one starts.  The interleaving of requests, which the    *)
(* row locks are meant to make look like this, is PaperSessions.           *)
(*                                                                         *)
(* A request's SQLAlchemy session matters even when requests are serial:   *)
(* sessions are opened with autoflush=False, so a query sees the rows as   *)
(* of the last flush while the code reads and writes mapped objects.       *)
(* `orders', `positions' and `cash' are the mapped objects, `rows' is what *)
(* a query on the orders table sees, and `doomed' holds the positions that *)
(* the session has deleted and not flushed yet.  They differ only inside   *)
(* _refresh_pending_orders, the one request that handles several orders in *)
(* one session.                                                            *)
(*                                                                         *)
(* Money and prices are integers.  A position's average entry price is     *)
(* kept as its total cost.  Position levels (stop loss, target) are left   *)
(* out, as are notifications and log lines.                                *)
(***************************************************************************)
EXTENDS Integers, FiniteSets, Sums

CONSTANTS
    Orders,      \* order slots: one per idempotency key the clients use
    Symbols,
    Types,       \* order types the clients use
    Qtys,        \* order quantities, whole shares
    Prices,      \* positive prices of quotes and tickets
    Balances,    \* starting balances an account may be reset to
    BuyFlat, BuyRate,    \* charges of a BUY: flat fee and rate per 1000
    SellFlat, SellRate   \* charges of a SELL

OrderTypes == {"MARKET", "LIMIT", "GTT", "STOP", "STOP_LIMIT"}

ASSUME OrdersAssumption == IsFiniteSet(Orders)
ASSUME SymbolsAssumption == IsFiniteSet(Symbols)
ASSUME TypesAssumption == Types \subseteq OrderTypes
ASSUME QuantityAssumption == Qtys \subseteq Nat \ {0}
ASSUME PriceAssumption == Prices \subseteq Nat \ {0}
ASSUME BalanceAssumption == Balances \subseteq Nat /\ Balances # {}
ASSUME ChargeAssumption ==
    BuyFlat \in Nat /\ BuyRate \in Nat /\ SellFlat \in Nat /\ SellRate \in Nat

VARIABLES
    marketOpen,  \* trading_hours.is_market_open()
    quote,       \* quote[s]: current price of a symbol, 0 when unavailable
    start,       \* account.starting_balance
    cash,        \* account.cash_balance
    orders,      \* the order objects
    rows,        \* the order rows that a query sees
    positions,   \* the OPEN position of each symbol
    doomed,      \* symbols whose position is deleted but not flushed
    realised,    \* sum of net_pnl over the trade history
    exited,      \* exited[s]: shares sold by auto_exit
    refreshing,  \* a _refresh_pending_orders session is running
    todo,        \* the orders it has still to look at
    sweep        \* order ids a market-open sweep has collected and not visited

vars == <<marketOpen, quote, start, cash, orders, rows, positions, doomed,
          realised, exited, refreshing, todo, sweep>>

-----------------------------------------------------------------------------
(* Status sets of models/paper_trading.py. *)

MarketWaiting == {"WAITING_FOR_MARKET"}
Executable == MarketWaiting \cup {"READY_TO_EXECUTE", "FAILED"}
OpenStatuses == Executable \cup {"PENDING"}
Terminal == {"FILLED", "CANCELLED", "REJECTED"}

\* (Mutant: the engine's tuple forgets the orders that are retried.)
NoRetryLifecycles == {"PENDING_ENTRY", "WAITING_FOR_MARKET", "READY_TO_EXECUTE"}
\* Lifecycle states the market engine monitors.
ActiveLifecycles == {"PENDING_ENTRY", "WAITING_FOR_MARKET", "READY_TO_EXECUTE",
                     "ERROR_RETRYING"}
Lifecycles == ActiveLifecycles \cup
              {"ENTRY_FILLED", "EXIT_FILLED", "CANCELLED", "NONE"}

OrderRecord == [status : OpenStatuses \cup Terminal,
                lifecycle : Lifecycles, symbol : Symbols,
                side : {"BUY", "SELL"}, type : OrderTypes, qty : Qtys,
                price : Prices \cup {0}, stop : Prices \cup {0}]

\* An unused slot carries the status NONE and nothing else.
NoOrder == [status |-> "NONE"]
NoPosition == [qty |-> 0, cost |-> 0, charges |-> 0]

\* The order with another status and lifecycle state.
Mark(ord, status, lifecycle) ==
    [ord EXCEPT !.status = status, !.lifecycle = lifecycle]

Open(ord) == ord.status \in OpenStatuses
Held(s) == positions[s].qty > 0

-----------------------------------------------------------------------------
(* Charges, triggers, reserved cash. *)

\* Total charges: a flat brokerage with its GST, and rates on the turnover.
BuyCharges(q, p) == BuyFlat + (q * p * BuyRate) \div 1000
SellCharges(q, p) == SellFlat + (q * p * SellRate) \div 1000

BuyCost(q, p) == q * p + BuyCharges(q, p)
SellProceeds(q, p) == q * p - SellCharges(q, p)

\* Python's `level or price': an unset level is the price itself.
OrElse(level, p) == IF level = 0 THEN p ELSE level

WithinLimit(ord, p) ==
    \/ ord.side = "BUY" /\ p <= OrElse(ord.price, p)
    \/ ord.side = "SELL" /\ p >= OrElse(ord.price, p)

StopCrossed(ord, p, level) ==
    \/ ord.side = "BUY" /\ p >= level
    \/ ord.side = "SELL" /\ p <= level

ShouldFill(ord, p) ==
    \/ ord.type = "MARKET"
    \/ ord.type \in {"LIMIT", "GTT"} /\ WithinLimit(ord, p)
    \/ /\ ord.type = "STOP"
       /\ StopCrossed(ord, p, OrElse(OrElse(ord.stop, ord.price), p))
    \/ /\ ord.type = "STOP_LIMIT"
       /\ StopCrossed(ord, p, OrElse(ord.stop, p))
       /\ WithinLimit(ord, p)

\* _reserved_cash_sql: what a working BUY limit row sets aside.
Reserves(ord) == ord.status = "PENDING" /\ ord.side = "BUY"
                 /\ ord.type \in {"LIMIT", "GTT"}
ReservedCash(table) ==
    SumNat([o \in Orders |-> IF Reserves(table[o])
                             THEN table[o].price * table[o].qty ELSE 0])
AvailableCash(table) == cash - ReservedCash(table)

\* (Mutants: a BUY is checked against all the cash, a SELL against nothing.)
AffordableByCash(ord, table) == BuyCost(ord.qty, quote[ord.symbol]) <= cash
SellableIfHeld(ord) == Held(ord.symbol)

\* The two checks of a triggered order.
Affordable(ord, table) ==
    BuyCost(ord.qty, quote[ord.symbol]) <= AvailableCash(table)
Sellable(ord) == positions[ord.symbol].qty >= ord.qty

-----------------------------------------------------------------------------
(* The session: what a flush publishes. *)

\* The positions once the session's pending deletes have been flushed.
Flushed == [s \in Symbols |-> IF s \in doomed THEN NoPosition ELSE positions[s]]

\* A position's book value: what was paid for it, charges included.  A
\* deleted position is worth nothing, flushed or not.
Book(s) == IF s \in doomed THEN 0 ELSE positions[s].cost + positions[s].charges

-----------------------------------------------------------------------------
(* _try_fill_order.  `ord' is the order as it enters, `table' the order    *)
(* rows its queries see, and `commit' says that the caller commits next.   *)

Money == <<cash, positions, doomed, realised>>

\* The order object changes, nothing is flushed by the fill itself.
Keep(o, ord, table, commit) ==
    /\ orders' = [orders EXCEPT ![o] = ord]
    /\ rows' = IF commit THEN orders' ELSE table
    /\ UNCHANGED Money

\* Market closed: a waiting order is left alone, another keeps its status.
FillWhileClosed(o, ord, table, commit) ==
    /\ ~marketOpen
    /\ Keep(o, IF \/ ord.status \in MarketWaiting
                  \/ ord.lifecycle \in {"ERROR_RETRYING", "WAITING_FOR_MARKET"}
               THEN ord ELSE Mark(ord, ord.status, "PENDING_ENTRY"),
            table, commit)

Failed(ord) == Mark(ord, "FAILED", "ERROR_RETRYING")

\* Back to PENDING; an order that is being retried stays marked as such.
Pending(ord) ==
    Mark(ord, "PENDING", IF ord.lifecycle = "ERROR_RETRYING"
                         THEN "ERROR_RETRYING" ELSE "PENDING_ENTRY")

\* No price: an executable or MARKET order is queued for retry.
FillWithoutPrice(o, ord, table, commit) ==
    /\ marketOpen
    /\ quote[ord.symbol] = 0
    /\ Keep(o, IF ord.status \in Executable \/ ord.type = "MARKET"
               THEN Failed(ord)
               ELSE Pending(ord),
            table, commit)

\* Waiting and failed orders are promoted once the market is open.
Promoted(ord) ==
    IF ord.status \in MarketWaiting \cup {"FAILED"}
    THEN Mark(ord, "READY_TO_EXECUTE", "READY_TO_EXECUTE")
    ELSE ord

NotTriggered(o, ord, table, commit) ==
    /\ ~ShouldFill(ord, quote[ord.symbol])
    /\ Keep(o, Pending(Promoted(ord)), table, commit)

Reject(o, ord, table, commit) ==
    /\ ShouldFill(ord, quote[ord.symbol])
    /\ \/ ord.side = "BUY" /\ ~Affordable(ord, table)
       \/ ord.side = "SELL" /\ ~Sellable(ord)
    /\ Keep(o, Mark(ord, "REJECTED", Promoted(ord).lifecycle), table, commit)

FillBuy(o, ord, table, commit) ==
    LET s == ord.symbol
        p == quote[s]
        cost == BuyCost(ord.qty, p)
        bought == [qty |-> positions[s].qty + ord.qty,
                   cost |-> positions[s].cost + ord.qty * p,
                   charges |-> positions[s].charges + BuyCharges(ord.qty, p)]
    IN  /\ ord.side = "BUY"
        /\ ShouldFill(ord, p)
        /\ Affordable(ord, table)
        /\ orders' = [orders EXCEPT ![o] = Mark(ord, "FILLED", "ENTRY_FILLED")]
        /\ cash' = cash - cost
        /\ realised' = realised
        \* A new position is added and flushed, and with it the session's
        \* other changes; an existing one is only modified.
        /\ IF Held(s)
           THEN /\ positions' = [positions EXCEPT ![s] = bought]
                /\ doomed' = doomed
                /\ rows' = IF commit THEN orders' ELSE table
           ELSE /\ positions' = [Flushed EXCEPT ![s] = bought]
                /\ doomed' = {}
                /\ rows' = orders'

\* The part of a position's cost or charges that a sale of q shares uses up.
Share(total, q, s) == (total * q) \div positions[s].qty

FillSell(o, ord, table, commit) ==
    LET s == ord.symbol
        q == ord.qty
        p == quote[s]
        basis == Share(positions[s].cost, q, s) + Share(positions[s].charges, q, s)
        rest == [qty |-> positions[s].qty - q,
                 cost |-> positions[s].cost - Share(positions[s].cost, q, s),
                 charges |-> positions[s].charges
                             - Share(positions[s].charges, q, s)]
        all == positions[s].qty = q
    IN  /\ ord.side = "SELL"
        /\ ShouldFill(ord, p)
        /\ Sellable(ord)
        /\ orders' = [orders EXCEPT ![o] = Mark(ord, "FILLED", "EXIT_FILLED")]
        /\ rows' = orders'
        /\ cash' = cash + SellProceeds(q, p)
        /\ realised' = realised + SellProceeds(q, p) - basis
        \* The trade row is flushed, with every pending delete, before this
        \* position is deleted (all sold) or reduced.
        /\ positions' = IF s \in doomed \/ (all /\ ~commit) THEN Flushed
                        ELSE [Flushed EXCEPT ![s] = IF all THEN NoPosition
                                                    ELSE rest]
        /\ doomed' = IF all /\ ~commit /\ s \notin doomed THEN {s} ELSE {}

\* (Mutant: only waiting orders are held back while the market is closed.)
FillAnyTime(o, ord, table, commit) ==
    /\ quote[ord.symbol] > 0
    /\ \/ NotTriggered(o, ord, table, commit)
       \/ Reject(o, ord, table, commit)
       \/ FillBuy(o, ord, table, commit)
       \/ FillSell(o, ord, table, commit)

TryFill(o, ord, table, commit) ==
    \/ ord.status \in Terminal /\ Keep(o, ord, table, commit)
    \/ Open(ord) /\ FillWhileClosed(o, ord, table, commit)
    \/ Open(ord) /\ FillWithoutPrice(o, ord, table, commit)
    \/ /\ Open(ord)
       /\ marketOpen
       /\ quote[ord.symbol] > 0
       /\ \/ NotTriggered(o, ord, table, commit)
          \/ Reject(o, ord, table, commit)
          \/ FillBuy(o, ord, table, commit)
          \/ FillSell(o, ord, table, commit)

-----------------------------------------------------------------------------
(* The requests. *)

Idle == ~refreshing
Session == <<refreshing, todo, sweep>>
Market == <<marketOpen, quote>>

\* The tickets clients send: a price for the types that need one.
Tickets == {t \in [symbol : Symbols, side : {"BUY", "SELL"}, type : Types,
                   qty : Qtys, limit : Prices \cup {0}, stop : Prices \cup {0}] :
               /\ t.limit # 0 <=> t.type \in {"LIMIT", "GTT", "STOP_LIMIT"}
               /\ t.stop # 0 <=> t.type \in {"STOP", "STOP_LIMIT"}}

\* _requested_price and the PaperOrder constructor.
NewOrder(t) ==
    [status |-> "PENDING", lifecycle |-> "PENDING_ENTRY", symbol |-> t.symbol,
     side |-> t.side, type |-> t.type, qty |-> t.qty, stop |-> t.stop,
     price |-> CASE t.type = "MARKET" -> quote[t.symbol]
                 [] t.type = "STOP" -> t.stop
                 [] OTHER -> t.limit]

\* place_order with a fresh idempotency key.  The new row is flushed before
\* the fill, so its own reservation counts against it.  The market status is
\* read before the row is written and again by the fill, which may find the
\* market closed in between.
PlaceOrder(o, t) ==
    LET ord == NewOrder(t)
        table == [rows EXCEPT ![o] = ord]
    IN  /\ Idle
        /\ orders[o].status = "NONE"
        /\ \/ /\ ~marketOpen
              /\ Keep(o, Mark(ord, "WAITING_FOR_MARKET", "WAITING_FOR_MARKET"),
                      table, TRUE)
           \/ TryFill(o, ord, table, TRUE)
        /\ UNCHANGED <<Market, start, exited, Session>>

\* (Mutant: an order that has filled can be cancelled.)
CancelAny(o) ==
    /\ Idle
    /\ orders[o].status # "NONE"
    /\ Keep(o, Mark(orders[o], "CANCELLED", "CANCELLED"), rows, TRUE)
    /\ UNCHANGED <<Market, start, exited, Session>>

CancelOrder(o) ==
    /\ Idle
    /\ Open(orders[o])
    /\ Keep(o, Mark(orders[o], "CANCELLED", "CANCELLED"), rows, TRUE)
    /\ UNCHANGED <<Market, start, exited, Session>>

Amend(ord, type, q, limit, stop) ==
    [ord EXCEPT !.type = type, !.qty = q, !.price = limit, !.stop = stop]

\* (Mutant: an order that has filled can be modified.)
ModifyAny(o, type, q, limit, stop) ==
    /\ Idle
    /\ orders[o].status # "NONE"
    /\ Keep(o, Amend(orders[o], type, q, limit, stop), rows, TRUE)
    /\ UNCHANGED <<Market, start, exited, Session>>

\* modify_order: an omitted field keeps its value.  The order is not
\* evaluated again, and its status stays.
ModifyOrder(o, type, q, limit, stop) ==
    /\ Idle
    /\ Open(orders[o])
    /\ limit \in Prices \cup {orders[o].price}
    /\ stop \in Prices \cup {orders[o].stop}
    /\ Keep(o, Amend(orders[o], type, q, limit, stop), rows, TRUE)
    /\ UNCHANGED <<Market, start, exited, Session>>

\* (Mutant: the sweep forgets the waiting orders.)
SweepFailedOnly ==
    /\ Idle
    /\ marketOpen
    /\ sweep' = sweep \cup {o \in Orders : orders[o].status = "FAILED"}
    /\ UNCHANGED <<Market, start, exited, orders, rows, Money, refreshing, todo>>

\* execute_all_pending_market_open_orders collects the ids while the market
\* is open ...
BeginSweep ==
    /\ Idle
    /\ marketOpen
    /\ sweep' = sweep \cup {o \in Orders : orders[o].status \in Executable}
    /\ UNCHANGED <<Market, start, exited, orders, rows, Money, refreshing, todo>>

\* ... and visits each in a session of its own, committed on every path.
SweepOrder(o) ==
    /\ Idle
    /\ o \in sweep
    /\ sweep' = sweep \ {o}
    /\ \/ /\ orders[o].status \notin Executable
          /\ UNCHANGED <<orders, rows, Money>>
       \/ /\ orders[o].status \in Executable
          /\ quote[orders[o].symbol] = 0
          /\ Keep(o, Failed(orders[o]), rows, TRUE)
       \/ /\ orders[o].status \in Executable
          /\ quote[orders[o].symbol] > 0
          /\ TryFill(o, orders[o], rows, TRUE)
    /\ UNCHANGED <<Market, start, exited, refreshing, todo>>

\* _refresh_pending_orders, run by get_positions, get_pending_orders,
\* get_order_history, get_trades and the per-account sweep, which commit.
BeginRefresh ==
    /\ Idle
    /\ marketOpen
    /\ \E o \in Orders : Open(orders[o])
    /\ refreshing' = TRUE
    /\ todo' = {o \in Orders : Open(orders[o])}
    /\ UNCHANGED <<Market, start, exited, orders, rows, Money, sweep>>

RefreshOrder(o) ==
    /\ refreshing
    /\ o \in todo
    /\ \/ /\ quote[orders[o].symbol] = 0
          /\ Keep(o, IF orders[o].status \in Executable THEN Failed(orders[o])
                     ELSE orders[o], rows, FALSE)
       \/ /\ quote[orders[o].symbol] > 0
          /\ TryFill(o, orders[o], rows, FALSE)
    /\ todo' = todo \ {o}
    /\ UNCHANGED <<Market, start, exited, refreshing, sweep>>

EndRefresh ==
    /\ refreshing
    /\ todo = {}
    /\ refreshing' = FALSE
    /\ rows' = orders
    /\ positions' = Flushed
    /\ doomed' = {}
    /\ UNCHANGED <<Market, start, cash, orders, realised, exited, todo,
                   sweep>>

\* auto_exit of a whole position: square_off_all (at the quote, whatever the
\* market) and the engine (at a level of the position).
AutoExit(s, p) ==
    LET pos == positions[s]
        net == SellProceeds(pos.qty, p)
    IN  /\ Idle
        /\ Held(s)
        /\ p \in Prices \cup {quote[s]}
        /\ cash' = cash + net
        /\ realised' = realised + net - pos.cost - pos.charges
        /\ exited' = [exited EXCEPT ![s] = @ + pos.qty]
        /\ positions' = [positions EXCEPT ![s] = NoPosition]
        /\ UNCHANGED <<Market, start, orders, rows, doomed, Session>>

\* reset_account deletes the rows: a running sweep finds nothing under the ids
\* it still has to visit.
ResetAccount(b) ==
    /\ Idle
    /\ start' = b
    /\ cash' = b
    /\ orders' = [o \in Orders |-> NoOrder]
    /\ rows' = orders'
    /\ positions' = [s \in Symbols |-> NoPosition]
    /\ realised' = 0
    /\ exited' = [s \in Symbols |-> 0]
    /\ sweep' = {}
    /\ UNCHANGED <<Market, doomed, refreshing, todo>>

\* (Mutant: the new capital replaces the cash.)
UpdateCash(b) ==
    /\ Idle
    /\ start' = b
    /\ cash' = b
    /\ UNCHANGED <<Market, orders, rows, positions, doomed, realised,
                   exited, Session>>

\* update_starting_capital moves the cash by the difference, whatever is left.
UpdateCapital(b) ==
    /\ Idle
    /\ start' = b
    /\ cash' = cash + (b - start)
    /\ UNCHANGED <<Market, orders, rows, positions, doomed, realised,
                   exited, Session>>

\* The environment.  A refresh works on the quotes it loaded at its start,
\* so quotes move between requests; the session may open or close any time.
MarketFlips ==
    /\ marketOpen' = ~marketOpen
    /\ UNCHANGED <<quote, start, cash, orders, rows, positions, doomed,
                   realised, exited, Session>>

QuoteMoves(s, p) ==
    /\ Idle
    /\ quote' = [quote EXCEPT ![s] = p]
    /\ UNCHANGED <<marketOpen, start, cash, orders, rows, positions, doomed,
                   realised, exited, Session>>

-----------------------------------------------------------------------------

Init ==
    /\ marketOpen = FALSE
    /\ quote = [s \in Symbols |-> 0]
    /\ start \in Balances
    /\ cash = start
    /\ orders = [o \in Orders |-> NoOrder]
    /\ rows = orders
    /\ positions = [s \in Symbols |-> NoPosition]
    /\ doomed = {}
    /\ realised = 0
    /\ exited = [s \in Symbols |-> 0]
    /\ refreshing = FALSE
    /\ todo = {}
    /\ sweep = {}

Next ==
    \/ \E o \in Orders, t \in Tickets : PlaceOrder(o, t)
    \/ \E o \in Orders : CancelOrder(o) \/ SweepOrder(o) \/ RefreshOrder(o)
    \/ \E o \in Orders, type \in Types, q \in Qtys, limit, stop \in Prices \cup {0} :
          ModifyOrder(o, type, q, limit, stop)
    \/ BeginSweep
    \/ BeginRefresh
    \/ EndRefresh
    \/ \E s \in Symbols, p \in Prices \cup {0} : AutoExit(s, p)
    \/ \E b \in Balances : ResetAccount(b) \/ UpdateCapital(b)
    \/ MarketFlips
    \/ \E s \in Symbols, p \in Prices \cup {0} : QuoteMoves(s, p)

Spec == Init /\ [][Next]_vars

\* The 9:15 job and the heartbeat run the sweep again and again while the
\* market is open (main.py:206-272), and a request that has started ends.
Fairness ==
    /\ SF_vars(BeginSweep)
    /\ \A o \in Orders : SF_vars(SweepOrder(o)) /\ WF_vars(RefreshOrder(o))
    /\ WF_vars(EndRefresh)

FairSpec == Spec /\ Fairness

-----------------------------------------------------------------------------
(* Properties. *)

\* The account's rows and balances, which every fill writes.
BooksTypeOK ==
    /\ cash \in Int /\ realised \in Int
    /\ orders \in [Orders -> OrderRecord \cup {NoOrder}]
    /\ rows \in [Orders -> OrderRecord \cup {NoOrder}]
    /\ positions \in [Symbols -> [qty : Nat, cost : Nat, charges : Nat]]
    /\ doomed \subseteq Symbols

\* The type invariant.  Shares and the cost of a position never go negative:
\* a sale takes at most what is there.
TypeOK ==
    /\ BooksTypeOK
    /\ marketOpen \in BOOLEAN
    /\ quote \in [Symbols -> Prices \cup {0}]
    /\ start \in Balances
    /\ exited \in [Symbols -> Nat]
    /\ refreshing \in BOOLEAN
    /\ todo \subseteq Orders
    /\ sweep \subseteq Orders

\* Every order that can still execute is in a lifecycle state the market
\* engine selects on (ACTIVE_ORDER_STATES): no path through placing, failing,
\* sweeping and refreshing leaves a working order that nobody looks at.
WorkingOrdersMonitored ==
    \A o \in Orders : Open(orders[o]) => orders[o].lifecycle \in ActiveLifecycles

LeavesTerminalOrders ==
    \A o \in Orders : orders[o].status \in Terminal =>
        orders'[o] = orders[o] \/ orders' = [x \in Orders |-> NoOrder]

\* A filled, cancelled or rejected order never changes again, until the
\* account is reset: no cancel, modify, sweep or refresh acts on it.
TerminalOrdersFrozen == [][LeavesTerminalOrders]_vars

KeepsReservedCash ==
    \A o \in Orders :
        /\ orders[o].status # "FILLED"
        /\ orders'[o].status = "FILLED"
        /\ orders'[o].side = "BUY"
        => cash' >= ReservedCash(rows)

\* A BUY never spends what the working limit orders have set aside.
PurchasesAreCovered == [][KeepsReservedCash]_vars

FillsOnlyWhenOpen ==
    ~marketOpen => \A o \in Orders :
        orders'[o].status = "FILLED" => orders[o].status = "FILLED"

\* No order fills while the market is closed, on any path.
ClosedMarketFillsNothing == [][FillsOnlyWhenOpen]_vars

\* The books: money in cash and positions against what came in.
Imbalance == cash - start - realised + SumNat([s \in Symbols |-> Book(s)])

\* A fill on a symbol whose position this refresh has already sold.
FillsDoomed == \E o \in todo \ todo' : orders[o].symbol \in doomed

KeepsBooks == FillsDoomed \/ Imbalance' = Imbalance \/ Imbalance' = 0

\* Cash, the cost of what is held and the realised result always add up to
\* the starting balance; only a reset may start again, and only a fill on a
\* position that the same refresh has sold breaks the sum.
BooksBalance == [][KeepsBooks]_vars

\* Shares held against the shares that filled orders and exits moved.
Moved(side, s) ==
    SumNat([o \in Orders |->
              IF /\ orders[o].status = "FILLED"
                 /\ orders[o].symbol = s
                 /\ orders[o].side = side
              THEN orders[o].qty ELSE 0])
Shares(s) == IF s \in doomed THEN 0 ELSE positions[s].qty
Drift(s) == Shares(s) + exited[s] + Moved("SELL", s) - Moved("BUY", s)

KeepsHoldings ==
    \A s \in Symbols : FillsDoomed \/ Drift(s)' = Drift(s) \/ Drift(s)' = 0

\* The shares held are the shares bought less the shares sold, again except
\* for fills on a position that the same refresh has sold.
HoldingsMatchFills == [][KeepsHoldings]_vars

\* A waiting order does not wait for ever: when the market stays open, the
\* sweep takes it up, whatever the requests and the quotes do in between.
WaitingOrdersRun ==
    <>[]marketOpen =>
        \A o \in Orders : (orders[o].status = "WAITING_FOR_MARKET") ~>
                          (orders[o].status # "WAITING_FOR_MARKET")

-----------------------------------------------------------------------------
(* What the documentation says and the code does not do. *)

\* ORDER_CONCURRENCY_VALIDATION.md: "The accumulated position quantities
\* accurately reflect all filled market orders."  Two SELLs in one refresh
\* can both sell the position that the first one deleted.
PositionsReflectFills == Idle => \A s \in Symbols : Drift(s) = 0

=============================================================================
