-------------------------- MODULE PaperDeskProofs --------------------------
(***************************************************************************)
(* What holds of the paper desk for every number of orders, every set of   *)
(* symbols, quantities, prices and balances, and every charge profile.     *)
(***************************************************************************)
EXTENDS PaperDesk, SumsProofs

-----------------------------------------------------------------------------
(* Arithmetic of the charges and of a sale's share. *)

\* Quotes, limits and stops are natural numbers.
LEMMA PriceType == \A p \in Prices \cup {0} : p \in Nat
<1> TAKE p \in Prices \cup {0}
<1>1. CASE p \in Prices
  BY <1>1, PriceAssumption
<1>2. CASE p = 0
  BY <1>2
<1> QED BY <1>1, <1>2

\* A rate on a turnover is a natural number.
LEMMA RateType ==
    ASSUME NEW n \in Nat, NEW r \in Nat
    PROVE  (n * r) \div 1000 \in Nat
<1>1. n * r \in Nat
  OBVIOUS
<1> QED BY <1>1

\* What a purchase costs is a natural number.
LEMMA CostType ==
    ASSUME NEW q \in Nat, NEW p \in Nat
    PROVE  BuyCharges(q, p) \in Nat /\ BuyCost(q, p) \in Nat
<1>1. q * p \in Nat
  OBVIOUS
<1>2. ((q * p) * BuyRate) \div 1000 \in Nat
  BY <1>1, RateType, ChargeAssumption
<1> QED BY <1>1, <1>2, ChargeAssumption DEF BuyCharges, BuyCost

\* What a sale brings in is an integer: charges can exceed the turnover.
LEMMA ProceedsType ==
    ASSUME NEW q \in Nat, NEW p \in Nat
    PROVE  SellProceeds(q, p) \in Int
<1>1. q * p \in Nat
  OBVIOUS
<1>2. ((q * p) * SellRate) \div 1000 \in Nat
  BY <1>1, RateType, ChargeAssumption
<1> QED BY <1>1, <1>2, ChargeAssumption DEF SellCharges, SellProceeds

\* The part of a total that q of n shares carry is at most the total.
LEMMA ShareBound ==
    ASSUME NEW c \in Nat, NEW n \in Nat \ {0}, NEW q \in 0 .. n
    PROVE  (c * q) \div n \in 0 .. c
<1> DEFINE x == c * q
<1>1. x \in Nat /\ x <= c * n /\ c * n \in Nat
  OBVIOUS
<1> HIDE DEF x
<1>2. x \div n \in Nat /\ n * (x \div n) <= x
  BY <1>1
<1> DEFINE d == x \div n
<1> HIDE DEF d
<1>3. d \in Nat /\ n * d <= n * c
  BY <1>1, <1>2 DEF d
<1>4. d <= c
  BY <1>3
<1> QED BY <1>3, <1>4 DEF d, x

-----------------------------------------------------------------------------
(* Types. *)

Table == [Orders -> OrderRecord \cup {NoOrder}]

\* An order with a status is a full record.
LEMMA UsedSlot ==
    ASSUME NEW ord \in OrderRecord \cup {NoOrder}, ord.status # "NONE"
    PROVE  ord \in OrderRecord
BY DEF NoOrder

\* A marked order is a record with that status and that lifecycle state.
LEMMA MarkType ==
    ASSUME NEW ord \in OrderRecord, NEW st \in OpenStatuses \cup Terminal,
           NEW lc \in Lifecycles
    PROVE  /\ Mark(ord, st, lc) \in OrderRecord
           /\ Mark(ord, st, lc).status = st
           /\ Mark(ord, st, lc).lifecycle = lc
           /\ Mark(ord, st, lc).symbol = ord.symbol
           /\ Mark(ord, st, lc).side = ord.side
           /\ Mark(ord, st, lc).type = ord.type
           /\ Mark(ord, st, lc).qty = ord.qty
           /\ Mark(ord, st, lc).price = ord.price
BY DEF OrderRecord, Mark

\* w is the order under another status and lifecycle state.
IsMark(w, ord, st, lc) ==
    /\ w \in OrderRecord
    /\ w.status = st
    /\ w.lifecycle = lc
    /\ w.side = ord.side

LEMMA MarkIs ==
    ASSUME NEW ord \in OrderRecord, NEW st \in OpenStatuses \cup Terminal,
           NEW lc \in Lifecycles
    PROVE  IsMark(Mark(ord, st, lc), ord, st, lc)
BY MarkType DEF IsMark

LEMMA RecordFields ==
    ASSUME NEW ord \in OrderRecord
    PROVE  /\ ord.qty \in Qtys /\ ord.qty \in Nat \ {0}
           /\ ord.symbol \in Symbols
           /\ ord.status \in OpenStatuses \cup Terminal
           /\ ord.lifecycle \in Lifecycles
           /\ ord.side \in {"BUY", "SELL"}
           /\ ord.type \in OrderTypes
           /\ ord.price \in Nat /\ ord.stop \in Nat
<1>1. /\ ord.qty \in Qtys /\ ord.symbol \in Symbols
      /\ ord.status \in OpenStatuses \cup Terminal
      /\ ord.lifecycle \in Lifecycles /\ ord.side \in {"BUY", "SELL"}
      /\ ord.type \in OrderTypes
      /\ ord.price \in Prices \cup {0} /\ ord.stop \in Prices \cup {0}
  BY DEF OrderRecord
<1>2. ord.qty \in Nat \ {0}
  BY <1>1, QuantityAssumption
<1>3. ord.price \in Nat /\ ord.stop \in Nat
  BY <1>1, PriceType
<1> QED BY <1>1, <1>2, <1>3

LEMMA KeepType ==
    ASSUME BooksTypeOK, NEW o \in Orders, NEW ord \in OrderRecord,
           NEW table \in Table, NEW commit, Keep(o, ord, table, commit)
    PROVE  BooksTypeOK'
BY DEF BooksTypeOK, Keep, Money, Table

\* A fill writes well-typed books, on every path through it.
LEMMA TryFillType ==
    ASSUME BooksTypeOK, quote \in [Symbols -> Prices \cup {0}],
           NEW o \in Orders, NEW ord \in OrderRecord, NEW table \in Table,
           NEW commit \in BOOLEAN,
           TryFill(o, ord, table, commit)
    PROVE  BooksTypeOK'
<1> DEFINE s == ord.symbol
           q == ord.qty
           p == quote[s]
<1>1. s \in Symbols /\ q \in Nat \ {0} /\ p \in Nat
  <2>1. s \in Symbols /\ q \in Nat \ {0}
    BY RecordFields
  <2>2. p \in Prices \cup {0}
    BY <2>1
  <2> QED BY <2>1, <2>2, PriceType
<1>2. ord.status \in OpenStatuses \cup Terminal /\ ord.lifecycle \in Lifecycles
  BY RecordFields
<1>3. {"FAILED", "PENDING", "READY_TO_EXECUTE", "REJECTED", "FILLED"}
         \subseteq OpenStatuses \cup Terminal
      /\ {"PENDING_ENTRY", "ERROR_RETRYING", "READY_TO_EXECUTE", "ENTRY_FILLED",
          "EXIT_FILLED"} \subseteq Lifecycles
  BY DEF OpenStatuses, Executable, MarketWaiting, Terminal, Lifecycles,
         ActiveLifecycles
<1>4. Promoted(ord) \in OrderRecord /\ Promoted(ord).lifecycle \in Lifecycles
  <2>1. Mark(ord, "READY_TO_EXECUTE", "READY_TO_EXECUTE") \in OrderRecord
    BY <1>3, MarkType
  <2>2. Promoted(ord) \in OrderRecord
    BY <2>1 DEF Promoted
  <2> QED BY <2>2, RecordFields
<1>5. Failed(ord) \in OrderRecord
  BY <1>3, MarkType DEF Failed
<1>6. CASE ord.status \in Terminal /\ Keep(o, ord, table, commit)
  BY <1>6, KeepType
<1>7. CASE FillWhileClosed(o, ord, table, commit)
  <2>1. Mark(ord, ord.status, "PENDING_ENTRY") \in OrderRecord
    BY <1>2, <1>3, MarkType
  <2> QED BY <1>7, <2>1, KeepType DEF FillWhileClosed
<1>8. CASE FillWithoutPrice(o, ord, table, commit)
  <2>1. Pending(ord) \in OrderRecord
    BY <1>2, <1>3, MarkType DEF Pending
  <2> QED BY <1>8, <1>5, <2>1, KeepType DEF FillWithoutPrice
<1>9. CASE NotTriggered(o, ord, table, commit)
  <2>1. Pending(Promoted(ord)) \in OrderRecord
    BY <1>3, <1>4, MarkType DEF Pending
  <2> QED BY <1>9, <2>1, KeepType DEF NotTriggered
<1>10. CASE Reject(o, ord, table, commit)
  <2>1. Mark(ord, "REJECTED", Promoted(ord).lifecycle) \in OrderRecord
    BY <1>4, <1>3, MarkType
  <2> QED BY <1>10, <2>1, KeepType DEF Reject
<1>11. CASE FillBuy(o, ord, table, commit)
  <2> DEFINE filled == Mark(ord, "FILLED", "ENTRY_FILLED")
             bought == [qty |-> positions[s].qty + q,
                        cost |-> positions[s].cost + q * p,
                        charges |-> positions[s].charges + BuyCharges(q, p)]
  <2>1. filled \in OrderRecord
    BY <1>3, MarkType
  <2>2. BuyCharges(q, p) \in Nat /\ BuyCost(q, p) \in Nat /\ q * p \in Nat
    <3>1. q \in Nat /\ q * p \in Nat
      BY <1>1
    <3> QED BY <1>1, <3>1, CostType
  <2>3. bought \in [qty : Nat, cost : Nat, charges : Nat]
    BY <1>1, <2>2 DEF BooksTypeOK
  <2>4. Flushed \in [Symbols -> [qty : Nat, cost : Nat, charges : Nat]]
    BY DEF Flushed, NoPosition, BooksTypeOK
  <2>5. cash' \in Int /\ realised' \in Int
    BY <1>11, <2>2 DEF FillBuy, BooksTypeOK
  <2>6. orders' \in Table
    BY <1>11, <2>1 DEF FillBuy, BooksTypeOK, Table
  <2>7. rows' \in Table
    BY <1>11, <2>6 DEF FillBuy
  <2>8. positions' \in [Symbols -> [qty : Nat, cost : Nat, charges : Nat]]
    BY <1>11, <2>3, <2>4 DEF FillBuy, BooksTypeOK
  <2>9. doomed' \subseteq Symbols
    BY <1>11 DEF FillBuy, BooksTypeOK
  <2> QED BY <2>5, <2>6, <2>7, <2>8, <2>9 DEF BooksTypeOK, Table
<1>12. CASE FillSell(o, ord, table, commit)
  <2> DEFINE pos == positions[s]
             filled == Mark(ord, "FILLED", "EXIT_FILLED")
             rest == [qty |-> pos.qty - q, cost |-> pos.cost - Share(pos.cost, q, s),
                      charges |-> pos.charges - Share(pos.charges, q, s)]
  <2>1. filled \in OrderRecord
    BY <1>3, MarkType
  <2>2. /\ pos.qty \in Nat \ {0} /\ pos.cost \in Nat /\ pos.charges \in Nat
        /\ q \in 0 .. pos.qty
    BY <1>1, <1>12 DEF FillSell, Sellable, BooksTypeOK
  <2>3. Share(pos.cost, q, s) \in 0 .. pos.cost
    BY <2>2, ShareBound DEF Share
  <2>4. Share(pos.charges, q, s) \in 0 .. pos.charges
    BY <2>2, ShareBound DEF Share
  <2>5. rest \in [qty : Nat, cost : Nat, charges : Nat]
    BY <2>2, <2>3, <2>4
  <2>6. Flushed \in [Symbols -> [qty : Nat, cost : Nat, charges : Nat]]
    BY DEF Flushed, NoPosition, BooksTypeOK
  <2>7. SellProceeds(q, p) \in Int
    BY <1>1, ProceedsType
  <2>8. cash' \in Int /\ realised' \in Int
    BY <1>12, <2>2, <2>3, <2>4, <2>7 DEF FillSell, BooksTypeOK
  <2>9. orders' \in Table /\ rows' \in Table
    BY <1>12, <2>1 DEF FillSell, BooksTypeOK, Table
  <2>10. positions' \in [Symbols -> [qty : Nat, cost : Nat, charges : Nat]]
    BY <1>12, <2>5, <2>6 DEF FillSell, NoPosition
  <2>11. doomed' \subseteq Symbols
    BY <1>1, <1>12 DEF FillSell
  <2> QED BY <2>8, <2>9, <2>10, <2>11 DEF BooksTypeOK, Table
<1> QED
  BY <1>6, <1>7, <1>8, <1>9, <1>10, <1>11, <1>12 DEF TryFill

-----------------------------------------------------------------------------
(* The type invariant. *)

LEMMA NewOrderType ==
    ASSUME TypeOK, NEW t \in Tickets
    PROVE  NewOrder(t) \in OrderRecord
<1>1. /\ t.symbol \in Symbols /\ t.side \in {"BUY", "SELL"} /\ t.type \in Types
      /\ t.qty \in Qtys /\ t.limit \in Prices \cup {0} /\ t.stop \in Prices \cup {0}
  BY DEF Tickets
<1>2. quote[t.symbol] \in Prices \cup {0}
  BY <1>1 DEF TypeOK
<1>3. t.type \in OrderTypes
  BY <1>1, TypesAssumption
<1>4. NewOrder(t).price \in Prices \cup {0}
  BY <1>1, <1>2 DEF NewOrder
<1>5. "PENDING" \in OpenStatuses /\ "PENDING_ENTRY" \in Lifecycles
  BY DEF OpenStatuses, Lifecycles, ActiveLifecycles
<1> QED BY <1>1, <1>3, <1>4, <1>5 DEF NewOrder, OrderRecord

LEMMA AmendType ==
    ASSUME NEW ord \in OrderRecord, NEW type \in Types, NEW q \in Qtys,
           NEW limit \in Prices \cup {0}, NEW stop \in Prices \cup {0}
    PROVE  Amend(ord, type, q, limit, stop) \in OrderRecord
<1>1. type \in OrderTypes
  BY TypesAssumption
<1> QED BY <1>1 DEF Amend, OrderRecord

\* Working orders fill a slot.
LEMMA OpenSlot ==
    ASSUME TypeOK, NEW o \in Orders, orders[o].status \in OpenStatuses \cup Terminal
    PROVE  orders[o] \in OrderRecord
<1>1. orders[o] \in OrderRecord \cup {NoOrder}
  BY DEF TypeOK, BooksTypeOK
<1>2. orders[o].status # "NONE"
  BY DEF OpenStatuses, Executable, MarketWaiting, Terminal
<1> QED BY <1>1, <1>2, UsedSlot

THEOREM TypeInit == Init => TypeOK
<1> SUFFICES ASSUME Init PROVE TypeOK
  OBVIOUS
<1>1. BooksTypeOK
  BY BalanceAssumption DEF Init, BooksTypeOK, NoPosition
<1>2. quote \in [Symbols -> Prices \cup {0}]
  BY DEF Init
<1> QED BY <1>1, <1>2 DEF Init, TypeOK

LEMMA PlaceType ==
    ASSUME TypeOK, NEW o \in Orders, NEW t \in Tickets, PlaceOrder(o, t)
    PROVE  TypeOK'
<1> DEFINE ord == NewOrder(t)
           table == [rows EXCEPT ![o] = ord]
           waiting == Mark(ord, "WAITING_FOR_MARKET", "WAITING_FOR_MARKET")
<1>1. ord \in OrderRecord
  BY NewOrderType
<1>2. table \in Table
  BY <1>1 DEF TypeOK, BooksTypeOK, Table
<1>3. waiting \in OrderRecord
  BY <1>1, MarkType DEF OpenStatuses, Executable, MarketWaiting, Lifecycles,
                        ActiveLifecycles
<1> HIDE DEF ord, table, waiting
<1>4. BooksTypeOK'
  <2>1. CASE Keep(o, waiting, table, TRUE)
    BY <2>1, <1>2, <1>3, KeepType DEF TypeOK
  <2>2. CASE TryFill(o, ord, table, TRUE)
    BY <2>2, <1>1, <1>2, TryFillType DEF TypeOK
  <2> QED BY <2>1, <2>2 DEF PlaceOrder, ord, table, waiting
<1>5. UNCHANGED <<marketOpen, quote, start, exited, refreshing, todo, sweep>>
  BY DEF PlaceOrder, Market, Session
<1> QED BY <1>4, <1>5 DEF TypeOK

LEMMA CancelType ==
    ASSUME TypeOK, NEW o \in Orders, CancelOrder(o)
    PROVE  TypeOK'
<1>1. orders[o] \in OrderRecord
  BY OpenSlot DEF CancelOrder, Open
<1>2. Mark(orders[o], "CANCELLED", "CANCELLED") \in OrderRecord
  BY <1>1, MarkType DEF Terminal, Lifecycles
<1>3. rows \in Table
  BY DEF TypeOK, BooksTypeOK, Table
<1>4. BooksTypeOK'
  BY <1>2, <1>3, KeepType DEF CancelOrder, TypeOK
<1> QED BY <1>4 DEF TypeOK, CancelOrder, Market, Session

LEMMA ModifyType ==
    ASSUME TypeOK, NEW o \in Orders, NEW type \in Types, NEW q \in Qtys,
           NEW limit \in Prices \cup {0}, NEW stop \in Prices \cup {0},
           ModifyOrder(o, type, q, limit, stop)
    PROVE  TypeOK'
<1>1. orders[o] \in OrderRecord
  BY OpenSlot DEF ModifyOrder, Open
<1>2. Amend(orders[o], type, q, limit, stop) \in OrderRecord
  BY <1>1, AmendType
<1>3. rows \in Table
  BY DEF TypeOK, BooksTypeOK, Table
<1>4. BooksTypeOK'
  BY <1>2, <1>3, KeepType DEF ModifyOrder, TypeOK
<1> QED BY <1>4 DEF TypeOK, ModifyOrder, Market, Session

\* What the sweep and the refresh write to one order, short of filling it.
LEMMA RetryType ==
    ASSUME TypeOK, NEW o \in Orders, orders[o].status \in Executable, NEW commit,
           Keep(o, Failed(orders[o]), rows, commit)
    PROVE  BooksTypeOK'
<1>1. orders[o] \in OrderRecord
  BY OpenSlot DEF OpenStatuses
<1>2. Failed(orders[o]) \in OrderRecord
  BY <1>1, MarkType DEF Failed, OpenStatuses, Executable, Lifecycles, ActiveLifecycles
<1>3. rows \in Table
  BY DEF TypeOK, BooksTypeOK, Table
<1> QED BY <1>2, <1>3, KeepType DEF TypeOK

LEMMA VisitType ==
    ASSUME TypeOK, NEW o \in Orders, NEW commit \in BOOLEAN,
           TryFill(o, orders[o], rows, commit)
    PROVE  BooksTypeOK'
<1>1. rows \in Table
  BY DEF TypeOK, BooksTypeOK, Table
<1>2. orders[o].status \in OpenStatuses \cup Terminal
  BY DEF TryFill, Open
<1>3. orders[o] \in OrderRecord
  BY <1>2, OpenSlot
<1> QED BY <1>1, <1>3, TryFillType DEF TypeOK

LEMMA SweepType ==
    ASSUME TypeOK, NEW o \in Orders, SweepOrder(o)
    PROVE  TypeOK'
<1>1. BooksTypeOK'
  <2>1. CASE UNCHANGED <<orders, rows, Money>>
    BY <2>1 DEF Money, TypeOK, BooksTypeOK
  <2>2. CASE orders[o].status \in Executable /\ Keep(o, Failed(orders[o]), rows, TRUE)
    BY <2>2, RetryType
  <2>3. CASE /\ orders[o].status \in Executable
             /\ TryFill(o, orders[o], rows, TRUE)
    BY <2>3, VisitType
  <2> QED BY <2>1, <2>2, <2>3 DEF SweepOrder
<1> QED BY <1>1 DEF TypeOK, SweepOrder, Market

LEMMA RefreshType ==
    ASSUME TypeOK, NEW o \in Orders, RefreshOrder(o)
    PROVE  TypeOK'
<1>1. BooksTypeOK'
  <2>1. CASE orders[o].status \in Executable /\ Keep(o, Failed(orders[o]), rows, FALSE)
    BY <2>1, RetryType
  <2>2. CASE Keep(o, orders[o], rows, FALSE)
    BY <2>2 DEF Keep, Money, TypeOK, BooksTypeOK
  <2>3. CASE TryFill(o, orders[o], rows, FALSE)
    BY <2>3, VisitType
  <2> QED BY <2>1, <2>2, <2>3 DEF RefreshOrder
<1> QED BY <1>1 DEF TypeOK, RefreshOrder, Market

LEMMA ExitType ==
    ASSUME TypeOK, NEW s \in Symbols, NEW p \in Prices \cup {0}, AutoExit(s, p)
    PROVE  TypeOK'
<1>1. /\ positions[s] \in [qty : Nat, cost : Nat, charges : Nat]
      /\ p \in Nat
  BY PriceType DEF TypeOK, BooksTypeOK
<1>2. positions[s].qty \in Nat /\ positions[s].cost \in Nat /\ positions[s].charges \in Nat
  BY <1>1
<1>3. SellProceeds(positions[s].qty, p) \in Int
  BY <1>1, <1>2, ProceedsType
<1>4. positions[s].qty * p \in Int
  BY <1>1, <1>2
<1>5. cash' \in Int /\ realised' \in Int
  BY <1>2, <1>3, <1>4 DEF AutoExit, TypeOK, BooksTypeOK
<1>6. positions' \in [Symbols -> [qty : Nat, cost : Nat, charges : Nat]]
  BY DEF AutoExit, NoPosition, TypeOK, BooksTypeOK
<1>7. exited' \in [Symbols -> Nat]
  BY <1>2 DEF AutoExit, TypeOK
<1>8. UNCHANGED <<orders, rows, doomed, marketOpen, quote, start, refreshing, todo,
                  sweep>>
  BY DEF AutoExit, Market, Session
<1> QED BY <1>5, <1>6, <1>7, <1>8 DEF TypeOK, BooksTypeOK

\* The remaining steps: account settings, sessions, the environment.
LEMMA OtherType ==
    ASSUME TypeOK,
           \/ BeginSweep \/ BeginRefresh \/ EndRefresh \/ MarketFlips
           \/ \E b \in Balances : ResetAccount(b) \/ UpdateCapital(b)
           \/ \E s \in Symbols, p \in Prices \cup {0} : QuoteMoves(s, p)
    PROVE  TypeOK'
<1>1. CASE BeginSweep \/ BeginRefresh \/ MarketFlips
  BY <1>1 DEF BeginSweep, BeginRefresh, MarketFlips, Market, Money, Session, TypeOK,
              BooksTypeOK
<1>2. CASE EndRefresh
  <2>1. Flushed \in [Symbols -> [qty : Nat, cost : Nat, charges : Nat]]
    BY DEF Flushed, NoPosition, TypeOK, BooksTypeOK
  <2> QED BY <1>2, <2>1 DEF EndRefresh, Market, TypeOK, BooksTypeOK
<1>3. ASSUME NEW b \in Balances, ResetAccount(b) PROVE TypeOK'
  <2>1. b \in Int
    BY BalanceAssumption
  <2>2. positions' \in [Symbols -> [qty : Nat, cost : Nat, charges : Nat]]
    BY <1>3 DEF ResetAccount, NoPosition
  <2>3. orders' \in [Orders -> OrderRecord \cup {NoOrder}]
    BY <1>3 DEF ResetAccount
  <2> QED BY <1>3, <2>1, <2>2, <2>3 DEF ResetAccount, Market, TypeOK, BooksTypeOK
<1>4. ASSUME NEW b \in Balances, UpdateCapital(b) PROVE TypeOK'
  <2>1. b \in Int /\ start \in Int
    BY BalanceAssumption DEF TypeOK
  <2>2. cash' \in Int
    BY <1>4, <2>1 DEF UpdateCapital, TypeOK, BooksTypeOK
  <2> QED BY <1>4, <2>2 DEF UpdateCapital, Market, Session, TypeOK, BooksTypeOK
<1>5. ASSUME NEW s \in Symbols, NEW p \in Prices \cup {0}, QuoteMoves(s, p)
      PROVE  TypeOK'
  BY <1>5 DEF QuoteMoves, Session, TypeOK, BooksTypeOK
<1> QED BY <1>1, <1>2, <1>3, <1>4, <1>5

LEMMA TypeStep == TypeOK /\ [Next]_vars => TypeOK'
<1> SUFFICES ASSUME TypeOK, [Next]_vars PROVE TypeOK'
  OBVIOUS
<1>1. CASE UNCHANGED vars
  BY <1>1 DEF vars, TypeOK, BooksTypeOK
<1>2. ASSUME NEW o \in Orders, NEW t \in Tickets, PlaceOrder(o, t) PROVE TypeOK'
  BY <1>2, PlaceType
<1>3. ASSUME NEW o \in Orders, CancelOrder(o) PROVE TypeOK'
  BY <1>3, CancelType
<1>4. ASSUME NEW o \in Orders, SweepOrder(o) PROVE TypeOK'
  BY <1>4, SweepType
<1>5. ASSUME NEW o \in Orders, RefreshOrder(o) PROVE TypeOK'
  BY <1>5, RefreshType
<1>6. ASSUME NEW o \in Orders, NEW type \in Types, NEW q \in Qtys,
             NEW limit \in Prices \cup {0}, NEW stop \in Prices \cup {0},
             ModifyOrder(o, type, q, limit, stop)
      PROVE  TypeOK'
  BY <1>6, ModifyType
<1>7. ASSUME NEW s \in Symbols, NEW p \in Prices \cup {0}, AutoExit(s, p) PROVE TypeOK'
  BY <1>7, ExitType
<1>8. CASE \/ BeginSweep \/ BeginRefresh \/ EndRefresh \/ MarketFlips
           \/ \E b \in Balances : ResetAccount(b) \/ UpdateCapital(b)
           \/ \E s \in Symbols, p \in Prices \cup {0} : QuoteMoves(s, p)
  BY <1>8, OtherType
<1> QED BY <1>1, <1>2, <1>3, <1>4, <1>5, <1>6, <1>7, <1>8 DEF Next

\* Every reachable state is well typed: no sequence of orders, exits and
\* resets takes shares or cost that a position does not have.
THEOREM TypeCorrect == Spec => []TypeOK
<1>1. Init => TypeOK
  BY TypeInit
<1>2. TypeOK /\ [Next]_vars => TypeOK'
  BY TypeStep
<1> QED BY <1>1, <1>2, PTL DEF Spec

-----------------------------------------------------------------------------
(* What a fill does to the order it is given. *)

\* The order `ord' of slot o has become w.
Outcome(o, ord, table, commit, w) ==
    /\ ord \in OrderRecord
    /\ w \in OrderRecord
    /\ orders' = [orders EXCEPT ![o] = w]
    /\ ord.status \in Terminal => w = ord
    /\ Open(w) => w.lifecycle \in ActiveLifecycles \/ w = ord
    /\ w.side = ord.side
    /\ w.status = "FILLED" =>
          \/ w = ord
          \/ marketOpen /\ FillBuy(o, ord, table, commit)
          \/ marketOpen /\ FillSell(o, ord, table, commit)

\* A fill leaves the order alone, sends it back to work in a monitored state,
\* rejects it, or fills it while the market is open.
LEMMA FillOutcome ==
    ASSUME BooksTypeOK, NEW o \in Orders, NEW ord \in OrderRecord,
           NEW table, NEW commit,
           TryFill(o, ord, table, commit)
    PROVE  \E w : Outcome(o, ord, table, commit, w)
<1>1. /\ ord.status \in OpenStatuses \cup Terminal /\ ord.lifecycle \in Lifecycles
      /\ Terminal \cap OpenStatuses = {}
  BY RecordFields DEF Terminal, OpenStatuses, Executable, MarketWaiting
<1>2. /\ "FAILED" \in OpenStatuses \cup Terminal
      /\ "PENDING" \in OpenStatuses \cup Terminal
      /\ "READY_TO_EXECUTE" \in OpenStatuses \cup Terminal
      /\ "REJECTED" \in OpenStatuses \cup Terminal /\ "REJECTED" \notin OpenStatuses
      /\ "FILLED" \in OpenStatuses \cup Terminal /\ "FILLED" \notin OpenStatuses
      /\ "PENDING_ENTRY" \in Lifecycles /\ "PENDING_ENTRY" \in ActiveLifecycles
      /\ "ERROR_RETRYING" \in Lifecycles /\ "ERROR_RETRYING" \in ActiveLifecycles
      /\ "READY_TO_EXECUTE" \in Lifecycles
      /\ "ENTRY_FILLED" \in Lifecycles /\ "EXIT_FILLED" \in Lifecycles
  BY DEF OpenStatuses, Executable, MarketWaiting, Terminal, Lifecycles,
         ActiveLifecycles
<1>3. /\ Promoted(ord) \in OrderRecord
      /\ Promoted(ord).side = ord.side
      /\ Promoted(ord).lifecycle \in Lifecycles
  <2>1. IsMark(Mark(ord, "READY_TO_EXECUTE", "READY_TO_EXECUTE"), ord,
               "READY_TO_EXECUTE", "READY_TO_EXECUTE")
    BY <1>2, MarkIs
  <2>2. Promoted(ord) \in OrderRecord
    BY <2>1 DEF Promoted, IsMark
  <2>3. Promoted(ord).side = ord.side
    BY <2>1 DEF Promoted, IsMark
  <2> QED BY <2>2, <2>3, RecordFields
<1>4. CASE ord.status \in Terminal /\ Keep(o, ord, table, commit)
  BY <1>1, <1>4 DEF Keep, Outcome, Open
<1>5. CASE Open(ord) /\ FillWhileClosed(o, ord, table, commit)
  <2> DEFINE w == Mark(ord, ord.status, "PENDING_ENTRY")
  <2>1. IsMark(w, ord, ord.status, "PENDING_ENTRY")
    BY <1>1, <1>2, MarkIs
  <2> HIDE DEF w
  <2>2. CASE orders' = [orders EXCEPT ![o] = ord]
    <3>1. Outcome(o, ord, table, commit, ord)
      BY <1>1, <1>2, <1>5, <2>2 DEF Outcome, Open
    <3> QED BY <3>1
  <2>3. CASE orders' = [orders EXCEPT ![o] = w]
    <3>1. Outcome(o, ord, table, commit, w)
      BY <1>1, <1>2, <1>5, <2>1, <2>3 DEF Outcome, Open, IsMark
    <3> QED BY <3>1
  <2> QED BY <1>5, <2>2, <2>3 DEF FillWhileClosed, Keep, w
<1>6. CASE Open(ord) /\ FillWithoutPrice(o, ord, table, commit)
  <2>1. IsMark(Failed(ord), ord, "FAILED", "ERROR_RETRYING")
    BY <1>2, MarkIs DEF Failed
  <2>2. \E lc \in {"ERROR_RETRYING", "PENDING_ENTRY"} :
           IsMark(Pending(ord), ord, "PENDING", lc)
    BY <1>2, MarkIs DEF Pending
  <2>3. PICK w \in {Failed(ord), Pending(ord)} : orders' = [orders EXCEPT ![o] = w]
    BY <1>6 DEF FillWithoutPrice, Keep
  <2>4. \E st \in {"FAILED", "PENDING"}, lc \in {"ERROR_RETRYING", "PENDING_ENTRY"} :
           IsMark(w, ord, st, lc)
    BY <2>1, <2>2
  <2>5. Outcome(o, ord, table, commit, w)
    BY <1>1, <1>2, <1>6, <2>3, <2>4 DEF Outcome, Open, IsMark
  <2> QED BY <2>5
<1>7. CASE Open(ord) /\ NotTriggered(o, ord, table, commit)
  <2> DEFINE w == Pending(Promoted(ord))
  <2>1. \E lc \in {"ERROR_RETRYING", "PENDING_ENTRY"} :
           IsMark(w, Promoted(ord), "PENDING", lc)
    BY <1>2, <1>3, MarkIs DEF Pending
  <2>2. orders' = [orders EXCEPT ![o] = w]
    BY <1>7 DEF NotTriggered, Keep
  <2> HIDE DEF w
  <2>3. Outcome(o, ord, table, commit, w)
    BY <1>1, <1>2, <1>3, <1>7, <2>1, <2>2 DEF Outcome, Open, IsMark
  <2> QED BY <2>3
<1>8. CASE Open(ord) /\ Reject(o, ord, table, commit)
  <2> DEFINE w == Mark(ord, "REJECTED", Promoted(ord).lifecycle)
  <2>1. IsMark(w, ord, "REJECTED", Promoted(ord).lifecycle)
    BY <1>2, <1>3, MarkIs
  <2>2. orders' = [orders EXCEPT ![o] = w]
    BY <1>8 DEF Reject, Keep
  <2> HIDE DEF w
  <2>3. Outcome(o, ord, table, commit, w)
    BY <1>1, <1>2, <1>8, <2>1, <2>2 DEF Outcome, Open, IsMark
  <2> QED BY <2>3
<1>9. CASE /\ Open(ord) /\ marketOpen
           /\ FillBuy(o, ord, table, commit) \/ FillSell(o, ord, table, commit)
  <2> DEFINE entry == Mark(ord, "FILLED", "ENTRY_FILLED")
             exit == Mark(ord, "FILLED", "EXIT_FILLED")
  <2>1. IsMark(entry, ord, "FILLED", "ENTRY_FILLED")
    BY <1>2, MarkIs
  <2>2. IsMark(exit, ord, "FILLED", "EXIT_FILLED")
    BY <1>2, MarkIs
  <2>3. PICK w \in {entry, exit} : orders' = [orders EXCEPT ![o] = w]
    BY <1>9 DEF FillBuy, FillSell
  <2> HIDE DEF entry, exit
  <2>4. \E lc \in {"ENTRY_FILLED", "EXIT_FILLED"} : IsMark(w, ord, "FILLED", lc)
    BY <2>1, <2>2
  <2>5. Outcome(o, ord, table, commit, w)
    BY <1>1, <1>2, <1>9, <2>3, <2>4 DEF Outcome, Open, IsMark
  <2> QED BY <2>5
<1> QED BY <1>4, <1>5, <1>6, <1>7, <1>8, <1>9 DEF TryFill

-----------------------------------------------------------------------------
(* The inductive invariant: between requests a query sees what the objects *)
(* hold and no deletion is pending, and every working order is in a state  *)
(* the engine monitors.                                                    *)

Committed == Idle => rows = orders
NothingDoomed == Idle => doomed = {}

IInv == TypeOK /\ Committed /\ NothingDoomed /\ WorkingOrdersMonitored

LEMMA FillCommits ==
    ASSUME NEW o, NEW ord, NEW table, TryFill(o, ord, table, TRUE)
    PROVE  rows' = orders'
BY DEF TryFill, FillWhileClosed, FillWithoutPrice, NotTriggered, Reject, FillBuy,
       FillSell, Keep

LEMMA CommittedStep == Committed /\ [Next]_vars => Committed'
<1> SUFFICES ASSUME Committed, [Next]_vars, Idle' PROVE rows' = orders'
  BY DEF Committed
<1>1. CASE UNCHANGED vars
  BY <1>1 DEF vars, Committed, Idle
<1>2. ASSUME NEW o \in Orders, NEW t \in Tickets, PlaceOrder(o, t)
      PROVE  rows' = orders'
  BY <1>2, FillCommits DEF PlaceOrder, Keep
<1>3. ASSUME NEW o \in Orders, CancelOrder(o) PROVE rows' = orders'
  BY <1>3 DEF CancelOrder, Keep
<1>4. ASSUME NEW o \in Orders, SweepOrder(o) PROVE rows' = orders'
  BY <1>4, FillCommits DEF SweepOrder, Keep, Committed
<1>5. ASSUME NEW o \in Orders, RefreshOrder(o) PROVE rows' = orders'
  BY <1>5 DEF RefreshOrder, Idle
<1>6. ASSUME NEW o \in Orders, NEW type \in Types, NEW q \in Qtys,
             NEW limit \in Prices \cup {0}, NEW stop \in Prices \cup {0},
             ModifyOrder(o, type, q, limit, stop)
      PROVE  rows' = orders'
  BY <1>6 DEF ModifyOrder, Keep
<1>7. ASSUME NEW s \in Symbols, NEW p \in Prices \cup {0}, AutoExit(s, p)
      PROVE  rows' = orders'
  BY <1>7 DEF AutoExit, Committed
<1>8. CASE BeginSweep \/ BeginRefresh \/ EndRefresh \/ MarketFlips
  BY <1>8 DEF BeginSweep, BeginRefresh, EndRefresh, MarketFlips, Session, Idle, Committed
<1>9. ASSUME NEW b \in Balances, ResetAccount(b) \/ UpdateCapital(b)
      PROVE  rows' = orders'
  BY <1>9 DEF ResetAccount, UpdateCapital, Committed
<1>10. ASSUME NEW s \in Symbols, NEW p \in Prices \cup {0}, QuoteMoves(s, p)
       PROVE  rows' = orders'
  BY <1>10 DEF QuoteMoves, Committed
<1> QED
  BY <1>1, <1>2, <1>3, <1>4, <1>5, <1>6, <1>7, <1>8, <1>9, <1>10 DEF Next

\* A fill that is committed leaves no deletion behind.
LEMMA FillFlushes ==
    ASSUME NEW o, NEW ord, NEW table, TryFill(o, ord, table, TRUE), doomed = {}
    PROVE  doomed' = {}
BY DEF TryFill, FillWhileClosed, FillWithoutPrice, NotTriggered, Reject, FillBuy,
       FillSell, Keep, Money

LEMMA DoomedStep == NothingDoomed /\ [Next]_vars => NothingDoomed'
<1> SUFFICES ASSUME NothingDoomed, [Next]_vars, Idle' PROVE doomed' = {}
  BY DEF NothingDoomed
<1>1. CASE EndRefresh
  BY <1>1 DEF EndRefresh
<1>8. ASSUME NEW o \in Orders, RefreshOrder(o) PROVE FALSE
  <2>1. refreshing /\ refreshing' = refreshing
    BY <1>8 DEF RefreshOrder
  <2> QED BY <2>1, Zenon DEF Idle
<1>2. CASE BeginRefresh
  <2>1. refreshing' = TRUE
    BY <1>2 DEF BeginRefresh
  <2> QED BY <2>1, Zenon DEF Idle
<1>7. CASE UNCHANGED vars
  BY <1>7 DEF NothingDoomed, Idle, vars
<1>3. ASSUME NEW o \in Orders, NEW t \in Tickets, PlaceOrder(o, t)
      PROVE  doomed' = {}
  BY <1>3, FillFlushes DEF PlaceOrder, Keep, Money, NothingDoomed
<1>4. ASSUME NEW o \in Orders, CancelOrder(o) \/ SweepOrder(o) PROVE doomed' = {}
  BY <1>4, FillFlushes DEF CancelOrder, SweepOrder, Keep, Money, NothingDoomed
<1>5. ASSUME NEW o \in Orders, NEW type \in Types, NEW q \in Qtys,
             NEW limit \in Prices \cup {0}, NEW stop \in Prices \cup {0},
             ModifyOrder(o, type, q, limit, stop)
      PROVE  doomed' = {}
  BY <1>5 DEF ModifyOrder, Keep, Money, NothingDoomed
<1>6. CASE \/ BeginSweep \/ MarketFlips
           \/ \E b \in Balances : ResetAccount(b) \/ UpdateCapital(b)
           \/ \E s \in Symbols, p \in Prices \cup {0} : AutoExit(s, p) \/ QuoteMoves(s, p)
  BY <1>6 DEF BeginSweep, MarketFlips, ResetAccount, UpdateCapital, AutoExit, QuoteMoves,
              Money, Session, Idle, NothingDoomed
<1> QED BY <1>1, <1>2, <1>3, <1>4, <1>5, <1>6, <1>7, <1>8 DEF Next

-----------------------------------------------------------------------------
(* What a step does to the orders. *)

\* A working or new order is written without being filled.
Edited(o) ==
    \E w : /\ orders' = [orders EXCEPT ![o] = w]
           /\ w.status # "FILLED"
           /\ orders[o].status \notin Terminal
           /\ Open(w) => w.lifecycle \in ActiveLifecycles

\* `ord' is the order of a ticket that has just been written to a free slot.
Fresh(o, ord, table) ==
    /\ orders[o].status = "NONE"
    /\ ord \in OrderRecord
    /\ ord.status = "PENDING" /\ ord.lifecycle = "PENDING_ENTRY"
    /\ Idle
    /\ table = [rows EXCEPT ![o] = ord]

\* An order goes through a fill.
Tried(o) ==
    \E ord, table, commit, w :
        /\ Outcome(o, ord, table, commit, w)
        /\ \/ ord = orders[o] /\ table = rows
           \/ Fresh(o, ord, table)

LEMMA TriedExisting ==
    ASSUME TypeOK, NEW o \in Orders, NEW commit,
           TryFill(o, orders[o], rows, commit)
    PROVE  Tried(o)
<1>1. orders[o].status \in OpenStatuses \cup Terminal
  BY DEF TryFill, Open
<1>2. orders[o] \in OrderRecord
  BY <1>1, OpenSlot
<1>3. PICK w : Outcome(o, orders[o], rows, commit, w)
  BY <1>2, FillOutcome DEF TypeOK
<1> QED BY <1>3 DEF Tried

LEMMA RetryEdits ==
    ASSUME TypeOK, NEW o \in Orders, orders[o].status \in Executable, NEW commit,
           Keep(o, Failed(orders[o]), rows, commit)
    PROVE  Edited(o)
<1>1. orders[o] \in OrderRecord
  BY OpenSlot DEF OpenStatuses
<1>2. IsMark(Failed(orders[o]), orders[o], "FAILED", "ERROR_RETRYING")
  BY <1>1, MarkIs DEF Failed, OpenStatuses, Executable, Lifecycles, ActiveLifecycles
<1>3. orders[o].status \notin Terminal
  BY DEF Executable, MarketWaiting, Terminal
<1>4. "ERROR_RETRYING" \in ActiveLifecycles
  BY DEF ActiveLifecycles
<1>5. orders' = [orders EXCEPT ![o] = Failed(orders[o])]
  BY DEF Keep
<1> QED BY <1>2, <1>3, <1>4, <1>5 DEF Edited, IsMark

LEMMA OrdersStep ==
    ASSUME IInv, [Next]_vars
    PROVE  \/ orders' = orders
           \/ orders' = [x \in Orders |-> NoOrder]
           \/ \E o \in Orders : Edited(o) \/ Tried(o)
<1> USE DEF IInv
<1>1. CASE UNCHANGED vars
  BY <1>1 DEF vars
<1>2. ASSUME NEW o \in Orders, NEW t \in Tickets, PlaceOrder(o, t)
      PROVE  Edited(o) \/ Tried(o)
  <2> DEFINE ord == NewOrder(t)
             table == [rows EXCEPT ![o] = ord]
             w == Mark(ord, "WAITING_FOR_MARKET", "WAITING_FOR_MARKET")
  <2>1. ord \in OrderRecord
    BY NewOrderType
  <2>2. Fresh(o, ord, table)
    BY <1>2, <2>1 DEF Fresh, PlaceOrder, NewOrder
  <2>3. CASE Keep(o, w, table, TRUE)
    <3>1. IsMark(w, ord, "WAITING_FOR_MARKET", "WAITING_FOR_MARKET")
      BY <2>1, MarkIs DEF OpenStatuses, Executable, MarketWaiting, Lifecycles,
                          ActiveLifecycles
    <3>2. orders' = [orders EXCEPT ![o] = w]
      BY <2>3 DEF Keep
    <3>3. orders[o].status \notin Terminal
      BY <1>2 DEF PlaceOrder, Terminal
    <3>4. "WAITING_FOR_MARKET" \in ActiveLifecycles
      BY DEF ActiveLifecycles
    <3> HIDE DEF w
    <3> QED BY <3>1, <3>2, <3>3, <3>4 DEF Edited, IsMark
  <2>4. CASE TryFill(o, ord, table, TRUE)
    <3> HIDE DEF ord, table
    <3>1. PICK x : Outcome(o, ord, table, TRUE, x)
      BY <2>1, <2>4, FillOutcome DEF TypeOK
    <3> QED BY <2>2, <3>1 DEF Tried
  <2> QED BY <1>2, <2>3, <2>4 DEF PlaceOrder
<1>3. ASSUME NEW o \in Orders, CancelOrder(o) PROVE Edited(o)
  <2>1. orders[o] \in OrderRecord
    BY <1>3, OpenSlot DEF CancelOrder, Open
  <2>2. IsMark(Mark(orders[o], "CANCELLED", "CANCELLED"), orders[o], "CANCELLED",
               "CANCELLED")
    BY <2>1, MarkIs DEF Terminal, Lifecycles
  <2>3. orders[o].status \notin Terminal
    BY <1>3 DEF CancelOrder, Open, OpenStatuses, Executable, MarketWaiting, Terminal
  <2>4. "CANCELLED" \notin OpenStatuses
    BY DEF OpenStatuses, Executable, MarketWaiting
  <2>5. orders' = [orders EXCEPT ![o] = Mark(orders[o], "CANCELLED", "CANCELLED")]
    BY <1>3 DEF CancelOrder, Keep
  <2> QED BY <2>2, <2>3, <2>4, <2>5 DEF Edited, IsMark, Open
<1>4. ASSUME NEW o \in Orders, SweepOrder(o)
      PROVE  orders' = orders \/ Edited(o) \/ Tried(o)
  BY <1>4, RetryEdits, TriedExisting DEF SweepOrder
<1>5. ASSUME NEW o \in Orders, RefreshOrder(o)
      PROVE  orders' = orders \/ Edited(o) \/ Tried(o)
  <2>1. CASE Keep(o, orders[o], rows, FALSE)
    BY <2>1 DEF Keep, TypeOK, BooksTypeOK
  <2> QED BY <1>5, <2>1, RetryEdits, TriedExisting DEF RefreshOrder
<1>6. ASSUME NEW o \in Orders, NEW type \in Types, NEW q \in Qtys,
             NEW limit \in Prices \cup {0}, NEW stop \in Prices \cup {0},
             ModifyOrder(o, type, q, limit, stop)
      PROVE  Edited(o)
  <2> DEFINE w == Amend(orders[o], type, q, limit, stop)
  <2>1. orders[o] \in OrderRecord /\ orders[o].status \in OpenStatuses
    BY <1>6, OpenSlot DEF ModifyOrder, Open
  <2>2. w.status = orders[o].status /\ w.lifecycle = orders[o].lifecycle
    BY <2>1 DEF Amend, OrderRecord
  <2>3. orders[o].lifecycle \in ActiveLifecycles
    BY <2>1 DEF WorkingOrdersMonitored, Open
  <2>4. orders[o].status \notin Terminal /\ orders[o].status # "FILLED"
    BY <2>1 DEF OpenStatuses, Executable, MarketWaiting, Terminal
  <2>5. orders' = [orders EXCEPT ![o] = w]
    BY <1>6 DEF ModifyOrder, Keep
  <2> HIDE DEF w
  <2> QED BY <2>2, <2>3, <2>4, <2>5 DEF Edited
<1>7. ASSUME NEW s \in Symbols, NEW p \in Prices \cup {0}, AutoExit(s, p)
      PROVE  orders' = orders
  BY <1>7 DEF AutoExit
<1>8. CASE BeginSweep \/ BeginRefresh \/ EndRefresh \/ MarketFlips
  BY <1>8 DEF BeginSweep, BeginRefresh, EndRefresh, MarketFlips
<1>9. ASSUME NEW b \in Balances, ResetAccount(b) \/ UpdateCapital(b)
      PROVE  orders' = orders \/ orders' = [x \in Orders |-> NoOrder]
  BY <1>9 DEF ResetAccount, UpdateCapital
<1>10. ASSUME NEW s \in Symbols, NEW p \in Prices \cup {0}, QuoteMoves(s, p)
       PROVE  orders' = orders
  BY <1>10 DEF QuoteMoves
<1> QED
  BY <1>1, <1>2, <1>3, <1>4, <1>5, <1>6, <1>7, <1>8, <1>9, <1>10 DEF Next

-----------------------------------------------------------------------------
(* The invariant holds. *)

LEMMA MonitoredStep == IInv /\ [Next]_vars => WorkingOrdersMonitored'
<1> SUFFICES ASSUME IInv, [Next]_vars, NEW x \in Orders, Open(orders'[x])
             PROVE  orders'[x].lifecycle \in ActiveLifecycles
  BY DEF WorkingOrdersMonitored, Open
<1>1. orders \in Table /\ (Open(orders[x]) => orders[x].lifecycle \in ActiveLifecycles)
  BY DEF IInv, TypeOK, BooksTypeOK, Table, WorkingOrdersMonitored
<1>2. CASE orders' = orders
  BY <1>1, <1>2 DEF Open
<1>3. CASE orders' = [y \in Orders |-> NoOrder]
  BY <1>3 DEF Open, NoOrder, OpenStatuses, Executable, MarketWaiting
<1>4. ASSUME NEW o \in Orders, Edited(o)
      PROVE  orders'[x].lifecycle \in ActiveLifecycles
  BY <1>1, <1>4 DEF Edited, Open, Table
<1>5. ASSUME NEW o \in Orders, Tried(o)
      PROVE  orders'[x].lifecycle \in ActiveLifecycles
  <2>1. PICK ord, table, commit, w :
           /\ Outcome(o, ord, table, commit, w)
           /\ \/ ord = orders[o] /\ table = rows
              \/ Fresh(o, ord, table)
    BY <1>5 DEF Tried
  <2>2. orders' = [orders EXCEPT ![o] = w]
        /\ (Open(w) => w.lifecycle \in ActiveLifecycles \/ w = ord)
    BY <2>1 DEF Outcome
  <2>3. CASE x # o
    BY <1>1, <2>2, <2>3 DEF Open, Table
  <2>4. CASE x = o
    <3>1. orders'[x] = w /\ Open(w)
      BY <1>1, <2>2, <2>4 DEF Table, Open
    <3>2. CASE Fresh(o, ord, table)
      BY <2>2, <3>1, <3>2 DEF Fresh, ActiveLifecycles
    <3>3. CASE ord = orders[o]
      BY <1>1, <2>2, <2>4, <3>1, <3>3
    <3> QED BY <2>1, <3>2, <3>3
  <2> QED BY <2>3, <2>4
<1> QED BY <1>2, <1>3, <1>4, <1>5, OrdersStep

THEOREM Invariant == Spec => []IInv
<1>1. Init => IInv
  <2>1. Init => Committed /\ NothingDoomed /\ WorkingOrdersMonitored
    BY DEF Init, Committed, NothingDoomed, WorkingOrdersMonitored, Open, NoOrder, OpenStatuses,
           Executable, MarketWaiting
  <2> QED BY <2>1, TypeInit DEF IInv
<1>2. IInv /\ [Next]_vars => IInv'
  BY TypeStep, CommittedStep, DoomedStep, MonitoredStep DEF IInv
<1> QED BY <1>1, <1>2, PTL DEF Spec

\* No path through placing, failing, sweeping and refreshing leaves a working
\* order in a lifecycle state that the market engine does not select.
THEOREM Monitored == Spec => []WorkingOrdersMonitored
<1>1. IInv => WorkingOrdersMonitored
  BY DEF IInv
<1> QED BY <1>1, Invariant, PTL

\* A filled, cancelled or rejected order changes no more, but for a reset.
THEOREM TerminalFrozen == Spec => TerminalOrdersFrozen
<1>1. IInv /\ [Next]_vars => LeavesTerminalOrders
  <2> SUFFICES ASSUME IInv, [Next]_vars, NEW x \in Orders,
                      orders[x].status \in Terminal
               PROVE  orders'[x] = orders[x] \/ orders' = [y \in Orders |-> NoOrder]
    BY DEF LeavesTerminalOrders
  <2>1. orders \in Table
    BY DEF IInv, TypeOK, BooksTypeOK, Table
  <2>2. ASSUME NEW o \in Orders, Edited(o) PROVE orders'[x] = orders[x]
    BY <2>1, <2>2 DEF Edited, Table
  <2>3. ASSUME NEW o \in Orders, Tried(o) PROVE orders'[x] = orders[x]
    <3>1. PICK ord, table, commit, w :
             /\ Outcome(o, ord, table, commit, w)
             /\ \/ ord = orders[o] /\ table = rows
                \/ Fresh(o, ord, table)
      BY <2>3 DEF Tried
    <3>2. orders' = [orders EXCEPT ![o] = w] /\ (ord.status \in Terminal => w = ord)
      BY <3>1 DEF Outcome
    <3>3. Fresh(o, ord, table) => x # o
      BY DEF Fresh, Terminal
    <3> QED BY <2>1, <3>1, <3>2, <3>3 DEF Table
  <2> QED BY <2>2, <2>3, OrdersStep
<1> QED BY <1>1, Invariant, PTL DEF Spec, TerminalOrdersFrozen

\* Whatever path an order takes, it fills only while the market is open.
THEOREM ClosedMarket == Spec => ClosedMarketFillsNothing
<1>1. IInv /\ [Next]_vars => FillsOnlyWhenOpen
  <2> SUFFICES ASSUME IInv, [Next]_vars, ~marketOpen, NEW x \in Orders,
                      orders'[x].status = "FILLED"
               PROVE  orders[x].status = "FILLED"
    BY DEF FillsOnlyWhenOpen
  <2>1. orders \in Table
    BY DEF IInv, TypeOK, BooksTypeOK, Table
  <2>2. CASE orders' = [y \in Orders |-> NoOrder]
    BY <2>2 DEF NoOrder
  <2>3. ASSUME NEW o \in Orders, Edited(o) PROVE orders[x].status = "FILLED"
    BY <2>1, <2>3 DEF Edited, Table
  <2>4. ASSUME NEW o \in Orders, Tried(o) PROVE orders[x].status = "FILLED"
    <3>1. PICK ord, table, commit, w :
             /\ Outcome(o, ord, table, commit, w)
             /\ \/ ord = orders[o] /\ table = rows
                \/ Fresh(o, ord, table)
      BY <2>4 DEF Tried
    <3>2. orders' = [orders EXCEPT ![o] = w] /\ (w.status = "FILLED" => w = ord)
      BY <3>1 DEF Outcome
    <3>3. Fresh(o, ord, table) => ord.status # "FILLED"
      BY DEF Fresh
    <3> QED BY <2>1, <3>1, <3>2, <3>3 DEF Table
  <2> QED BY <2>2, <2>3, <2>4, OrdersStep
<1> QED BY <1>1, Invariant, PTL DEF Spec, ClosedMarketFillsNothing

-----------------------------------------------------------------------------
(* Purchases and reserved cash. *)

Reserve(table) == [o \in Orders |-> IF Reserves(table[o])
                                    THEN table[o].price * table[o].qty ELSE 0]

LEMMA ReserveType ==
    ASSUME NEW table \in Table
    PROVE  Reserve(table) \in [Orders -> Nat]
<1> SUFFICES ASSUME NEW o \in Orders, Reserves(table[o])
             PROVE  table[o].price * table[o].qty \in Nat
  BY DEF Reserve
<1>1. table[o] \in OrderRecord
  BY UsedSlot DEF Table, Reserves
<1>2. table[o].price \in Nat /\ table[o].qty \in Nat
  BY <1>1, RecordFields
<1> QED BY <1>2

LEMMA ReservedType ==
    ASSUME NEW table \in Table
    PROVE  ReservedCash(table) \in Nat /\ ReservedCash(table) = SumNat(Reserve(table))
BY ReserveType, SumNatType, OrdersAssumption DEF ReservedCash, Reserve

\* A new row can only add to what is reserved.
LEMMA FreshReserves ==
    ASSUME TypeOK, Committed, NEW o \in Orders, NEW ord, NEW table, Fresh(o, ord, table)
    PROVE  table \in Table /\ ReservedCash(rows) <= ReservedCash(table)
<1>1. rows \in Table /\ table \in Table
  BY DEF Fresh, TypeOK, BooksTypeOK, Table
<1>2. rows[o].status = "NONE"
  BY DEF Fresh, Committed
<1>3. \A x \in Orders : Reserve(rows)[x] <= Reserve(table)[x]
  <2> SUFFICES ASSUME NEW x \in Orders PROVE Reserve(rows)[x] <= Reserve(table)[x]
    OBVIOUS
  <2>1. Reserve(rows)[x] \in Nat /\ Reserve(table)[x] \in Nat
    BY <1>1, ReserveType
  <2>2. CASE x = o
    <3>1. Reserve(rows)[x] = 0
      BY <1>2, <2>2 DEF Reserve, Reserves
    <3> QED BY <2>1, <3>1
  <2>3. CASE x # o
    <3>1. table[x] = rows[x]
      BY <1>1, <2>3 DEF Fresh, Table
    <3>2. Reserve(table)[x] = Reserve(rows)[x]
      BY <3>1 DEF Reserve
    <3> QED BY <2>1, <3>2
  <2> QED BY <2>2, <2>3
<1>4. SumNat(Reserve(rows)) <= SumNat(Reserve(table))
  BY <1>1, <1>3, ReserveType, SumNatMonotone, OrdersAssumption
<1> QED BY <1>1, <1>4, ReservedType

\* A purchase leaves what its queries see as reserved.
LEMMA BoughtCovered ==
    ASSUME TypeOK, NEW o \in Orders, NEW ord \in OrderRecord, NEW table \in Table,
           NEW commit, FillBuy(o, ord, table, commit)
    PROVE  cash' >= ReservedCash(table)
<1> DEFINE cost == BuyCost(ord.qty, quote[ord.symbol])
<1>1. ord.qty \in Nat /\ quote[ord.symbol] \in Nat
  BY RecordFields, PriceType DEF TypeOK
<1>2. cost \in Nat
  BY <1>1, CostType
<1>3. cash \in Int /\ ReservedCash(table) \in Nat
  BY ReservedType DEF TypeOK, BooksTypeOK
<1>4. cost <= cash - ReservedCash(table) /\ cash' = cash - cost
  BY DEF FillBuy, Affordable, AvailableCash
<1> HIDE DEF cost
<1> QED BY <1>2, <1>3, <1>4

\* A BUY never spends what the working limit orders have set aside.
THEOREM Covered == Spec => PurchasesAreCovered
<1>1. IInv /\ [Next]_vars => KeepsReservedCash
  <2> SUFFICES ASSUME IInv, [Next]_vars, NEW x \in Orders, orders[x].status # "FILLED",
                      orders'[x].status = "FILLED", orders'[x].side = "BUY"
               PROVE  cash' >= ReservedCash(rows)
    BY DEF KeepsReservedCash
  <2>1. orders \in Table /\ rows \in Table /\ cash' \in Int
    BY TypeStep DEF IInv, TypeOK, BooksTypeOK, Table
  <2>2. orders' # orders /\ orders' # [y \in Orders |-> NoOrder]
    BY DEF NoOrder
  <2>3. ASSUME NEW o \in Orders, Edited(o) PROVE FALSE
    BY <2>1, <2>3 DEF Edited, Table
  <2>4. ASSUME NEW o \in Orders, Tried(o) PROVE cash' >= ReservedCash(rows)
    <3>1. PICK ord, table, commit, w :
             /\ Outcome(o, ord, table, commit, w)
             /\ \/ ord = orders[o] /\ table = rows
                \/ Fresh(o, ord, table)
      BY <2>4 DEF Tried
    <3>2. /\ orders' = [orders EXCEPT ![o] = w]
          /\ w.side = ord.side
          /\ w.status = "FILLED" =>
                w = ord \/ FillBuy(o, ord, table, commit)
                        \/ FillSell(o, ord, table, commit)
      BY <3>1 DEF Outcome
    <3>3. x = o /\ w = orders'[x]
      BY <2>1, <3>2 DEF Table
    <3>4. w # ord
      BY <3>1, <3>3 DEF Fresh
    <3>5. FillBuy(o, ord, table, commit)
      BY <3>2, <3>3, <3>4 DEF FillSell
    <3>6. ord \in OrderRecord
      BY <3>1 DEF Outcome
    <3>7. table \in Table /\ ReservedCash(rows) <= ReservedCash(table)
      <4>1. CASE table = rows
        BY <2>1, <4>1, ReservedType
      <4>2. CASE Fresh(o, ord, table)
        BY <4>2, FreshReserves DEF IInv
      <4> QED BY <3>1, <4>1, <4>2
    <3>8. cash' >= ReservedCash(table)
      BY <3>5, <3>6, <3>7, BoughtCovered DEF IInv
    <3> QED BY <2>1, <3>7, <3>8, ReservedType
  <2> QED BY <2>2, <2>3, <2>4, OrdersStep
<1> QED BY <1>1, Invariant, PTL DEF Spec, PurchasesAreCovered

-----------------------------------------------------------------------------
(* The lots of an order, the book value of a symbol, and their sums. *)

BookOf == [s \in Symbols |-> Book(s)]

LotOf(side, s) == [o \in Orders |-> IF /\ orders[o].status = "FILLED"
                                       /\ orders[o].symbol = s
                                       /\ orders[o].side = side
                                    THEN orders[o].qty ELSE 0]

LEMMA BookOfType ==
    ASSUME BooksTypeOK
    PROVE  BookOf \in [Symbols -> Nat] /\ SumNat(BookOf) \in Nat
<1>1. BookOf \in [Symbols -> Nat]
  BY DEF BookOf, Book, BooksTypeOK
<1> QED BY <1>1, SumNatType, SymbolsAssumption

LEMMA BookOfTypeNext ==
    ASSUME BooksTypeOK'
    PROVE  BookOf' \in [Symbols -> Nat] /\ SumNat(BookOf') \in Nat
<1>1. BookOf' \in [Symbols -> Nat]
  BY DEF BookOf, Book, BooksTypeOK
<1> QED BY <1>1, SumNatType, SymbolsAssumption

\* Where the books of at most one symbol change, its change and that of the
\* money are all that counts.
LEMMA BooksMove ==
    ASSUME TypeOK, TypeOK', NEW s \in Symbols,
           \A x \in Symbols \ {s} : Book(x)' = Book(x),
           cash' - start' - realised' + Book(s)' = cash - start - realised + Book(s)
    PROVE  Imbalance' = Imbalance
<1>1. /\ BookOf \in [Symbols -> Nat] /\ SumNat(BookOf) \in Nat
      /\ BookOf' \in [Symbols -> Nat] /\ SumNat(BookOf') \in Nat
  BY BookOfType, BookOfTypeNext DEF TypeOK
<1>2. \A x \in Symbols \ {s} : BookOf'[x] = BookOf[x]
  BY DEF BookOf
<1>3. BookOf[s] = Book(s) /\ BookOf'[s] = Book(s)'
  BY DEF BookOf
<1>4. SumNat(BookOf') = SumNat(BookOf) - BookOf[s] + BookOf'[s]
  BY <1>1, <1>2, SumNatUpdate, SymbolsAssumption
<1>5. /\ cash \in Int /\ start \in Int /\ realised \in Int
      /\ cash' \in Int /\ start' \in Int /\ realised' \in Int
      /\ Book(s) \in Int /\ Book(s)' \in Int
  BY <1>1, <1>3, BalanceAssumption DEF TypeOK, BooksTypeOK
<1>6. /\ Imbalance = cash - start - realised + SumNat(BookOf)
      /\ Imbalance' = cash' - start' - realised' + SumNat(BookOf')
  BY DEF Imbalance, BookOf
<1> QED BY <1>1, <1>3, <1>4, <1>5, <1>6

\* Where no book changes, the money must balance by itself.
LEMMA BooksStay ==
    ASSUME \A x \in Symbols : Book(x)' = Book(x),
           cash' - start' - realised' = cash - start - realised
    PROVE  Imbalance' = Imbalance
<1>1. [s \in Symbols |-> Book(s)]' = [s \in Symbols |-> Book(s)]
  OBVIOUS
<1> QED BY <1>1 DEF Imbalance

LEMMA LotType ==
    ASSUME BooksTypeOK, NEW side, NEW s
    PROVE  LotOf(side, s) \in [Orders -> Nat] /\ SumNat(LotOf(side, s)) \in Nat
<1>1. \A o \in Orders : orders[o].status = "FILLED" => orders[o].qty \in Nat
  BY UsedSlot, RecordFields DEF BooksTypeOK
<1>2. LotOf(side, s) \in [Orders -> Nat]
  BY <1>1 DEF LotOf
<1> QED BY <1>2, SumNatType, OrdersAssumption

LEMMA LotTypeNext ==
    ASSUME BooksTypeOK', NEW side, NEW s
    PROVE  LotOf(side, s)' \in [Orders -> Nat] /\ SumNat(LotOf(side, s)') \in Nat
<1>1. \A o \in Orders : orders'[o].status = "FILLED" => orders'[o].qty \in Nat
  BY UsedSlot, RecordFields DEF BooksTypeOK
<1>2. LotOf(side, s)' \in [Orders -> Nat]
  BY <1>1 DEF LotOf
<1> QED BY <1>2, SumNatType, OrdersAssumption

\* No order becomes filled, and no filled one changes.
NoneFills ==
    \A o \in Orders :
        \/ orders'[o] = orders[o]
        \/ orders[o].status # "FILLED" /\ orders'[o].status # "FILLED"

LEMMA MovedStays ==
    ASSUME NoneFills, NEW side, NEW s
    PROVE  Moved(side, s)' = Moved(side, s)
<1>1. LotOf(side, s)' = LotOf(side, s)
  BY DEF LotOf, NoneFills
<1> QED BY <1>1 DEF Moved, LotOf

\* An order that is filled moves its shares.
LEMMA MovedGrows ==
    ASSUME BooksTypeOK, BooksTypeOK', NEW side, NEW s, NEW o \in Orders, NEW w \in OrderRecord,
           orders' = [orders EXCEPT ![o] = w], orders[o].status # "FILLED", w.status = "FILLED"
    PROVE  Moved(side, s)' = Moved(side, s)
                             + IF w.symbol = s /\ w.side = side THEN w.qty ELSE 0
<1>1. orders \in Table
  BY DEF BooksTypeOK, Table
<1>2. \A x \in Orders \ {o} : LotOf(side, s)'[x] = LotOf(side, s)[x]
  BY <1>1 DEF LotOf, Table
<1>3. /\ LotOf(side, s)[o] = 0
      /\ LotOf(side, s)'[o] = IF w.symbol = s /\ w.side = side THEN w.qty ELSE 0
  BY <1>1 DEF LotOf, Table
<1>4. /\ LotOf(side, s) \in [Orders -> Nat] /\ SumNat(LotOf(side, s)) \in Nat
      /\ LotOf(side, s)' \in [Orders -> Nat] /\ SumNat(LotOf(side, s)') \in Nat
  BY LotType, LotTypeNext
<1> DEFINE f == LotOf(side, s)
           g == LotOf(side, s)'
<1> HIDE DEF f, g
<1>5. SumNat(g) = SumNat(f) - f[o] + g[o]
  BY <1>2, <1>4, SumNatUpdate, OrdersAssumption DEF f, g
<1>6. SumNat(g) = SumNat(f) + g[o] /\ g[o] \in Nat
  BY <1>3, <1>4, <1>5 DEF f, g
<1>7. Moved(side, s) = SumNat(f) /\ Moved(side, s)' = SumNat(g)
  BY DEF Moved, LotOf, f, g
<1> QED BY <1>3, <1>6, <1>7 DEF f, g

-----------------------------------------------------------------------------
(* What a step does to the books and to the shares. *)

\* Money only moves between the account and its starting balance, and every
\* position is worth what it was.
BooksKept ==
    /\ cash' - start' - realised' = cash - start - realised
    /\ \A s \in Symbols : Book(s)' = Book(s)

SharesKept == exited' = exited /\ \A s \in Symbols : Shares(s)' = Shares(s)

\* An order that was not filled is filled, on a position the session has
\* not deleted or in a step that the properties name.
Filling(o, ord, table, commit) ==
    /\ ord \in OrderRecord
    /\ orders[o].status # "FILLED"
    /\ FillBuy(o, ord, table, commit) \/ FillSell(o, ord, table, commit)
    /\ UNCHANGED <<start, exited>>
    /\ ord.symbol \in doomed => FillsDoomed

\* A visit to an order that does not fill it moves no money and no shares.
LEMMA FillKinds ==
    ASSUME NEW o \in Orders, NEW ord, NEW table, NEW commit, TryFill(o, ord, table, commit)
    PROVE  \/ Open(ord) /\ (FillBuy(o, ord, table, commit) \/ FillSell(o, ord, table, commit))
           \/ UNCHANGED Money /\ ~(Open(ord) /\ (FillBuy(o, ord, table, commit)
                                                  \/ FillSell(o, ord, table, commit)))
BY DEF TryFill, FillWhileClosed, FillWithoutPrice, NotTriggered, Reject, Keep

\* Unmoved money and positions leave books and shares alone.
LEMMA MoneyKept ==
    ASSUME UNCHANGED Money, UNCHANGED <<start, exited>>
    PROVE  BooksKept /\ SharesKept
BY DEF Money, BooksKept, SharesKept, Book, Shares

\* An order that was working or new and is not filled.
LEMMA EditedFillsNone ==
    ASSUME TypeOK, NEW o \in Orders, Edited(o)
    PROVE  NoneFills
<1>1. orders \in Table
  BY DEF TypeOK, BooksTypeOK, Table
<1> QED BY <1>1 DEF Edited, NoneFills, Table, Terminal

\* A visit fills its order or changes no filled one.
LEMMA VisitKinds ==
    ASSUME TypeOK, NEW o \in Orders, NEW ord \in OrderRecord, NEW table, NEW commit,
           TryFill(o, ord, table, commit),
           ord = orders[o] \/ Fresh(o, ord, table),
           UNCHANGED <<start, exited>>, ord.symbol \in doomed => FillsDoomed
    PROVE  \/ BooksKept /\ SharesKept /\ NoneFills
           \/ Filling(o, ord, table, commit)
<1>1. orders \in Table
  BY DEF TypeOK, BooksTypeOK, Table
<1>2. CASE Open(ord) /\ (FillBuy(o, ord, table, commit) \/ FillSell(o, ord, table, commit))
  <2>1. orders[o].status # "FILLED"
    BY <1>2 DEF Fresh, Open, OpenStatuses, Executable, MarketWaiting
  <2> QED BY <1>2, <2>1 DEF Filling
<1>3. CASE /\ UNCHANGED Money
           /\ ~(Open(ord) /\ (FillBuy(o, ord, table, commit) \/ FillSell(o, ord, table, commit)))
  <2>1. PICK w : Outcome(o, ord, table, commit, w)
    BY FillOutcome DEF TypeOK
  <2>2. ord.status \in OpenStatuses \cup Terminal
    BY RecordFields
  <2>3. w.status = "FILLED" => w = ord
    BY <1>3, <2>1, <2>2 DEF Outcome, Open
  <2>4. orders' = [orders EXCEPT ![o] = w]
    BY <2>1 DEF Outcome
  <2>5. orders'[o] = w /\ \A x \in Orders \ {o} : orders'[x] = orders[x]
    BY <1>1, <2>4 DEF Table
  <2>6. ord.status \in Terminal => w = ord
    BY <2>1 DEF Outcome
  <2>7. CASE ord = orders[o]
    <3>1. w = orders[o] \/ (w.status # "FILLED" /\ orders[o].status # "FILLED")
      BY <2>3, <2>6, <2>7 DEF Terminal
    <3> QED BY <1>3, <2>5, <3>1, MoneyKept DEF NoneFills
  <2>8. CASE Fresh(o, ord, table)
    <3>1. w.status # "FILLED" /\ orders[o].status # "FILLED"
      BY <2>3, <2>8 DEF Fresh
    <3> QED BY <1>3, <2>5, <3>1, MoneyKept DEF NoneFills
  <2> QED BY <2>7, <2>8
<1> QED BY <1>2, <1>3, FillKinds

\* Every step keeps the books and the shares, fills an order, exits a
\* position or resets the account.
LEMMA StepKinds ==
    ASSUME IInv, [Next]_vars
    PROVE  \/ BooksKept /\ SharesKept /\ NoneFills
           \/ \E o \in Orders : \E ord, table, commit : Filling(o, ord, table, commit)
           \/ \E s \in Symbols, p \in Prices \cup {0} : AutoExit(s, p)
           \/ \E b \in Balances : ResetAccount(b)
<1> DEFINE Kept == BooksKept /\ SharesKept /\ NoneFills
<1>1. TypeOK /\ Committed /\ (Idle => doomed = {})
  BY DEF IInv, NothingDoomed
<1>2. orders' = orders => NoneFills
  BY DEF NoneFills
<1>3. CASE UNCHANGED vars
  BY <1>2, <1>3, MoneyKept DEF vars, Money
<1>4. ASSUME NEW o \in Orders, NEW t \in Tickets, PlaceOrder(o, t)
      PROVE  Kept \/ \E ord, table, commit : Filling(o, ord, table, commit)
  <2> DEFINE ord == NewOrder(t)
             table == [rows EXCEPT ![o] = ord]
             w == Mark(ord, "WAITING_FOR_MARKET", "WAITING_FOR_MARKET")
  <2>1. ord \in OrderRecord
    BY <1>1, NewOrderType
  <2>2. Fresh(o, ord, table) /\ doomed = {} /\ UNCHANGED <<start, exited>>
    BY <1>1, <1>4, <2>1 DEF Fresh, PlaceOrder, NewOrder
  <2>3. CASE Keep(o, w, table, TRUE)
    <3>1. IsMark(w, ord, "WAITING_FOR_MARKET", "WAITING_FOR_MARKET")
      BY <2>1, MarkIs DEF OpenStatuses, Executable, MarketWaiting, Lifecycles,
                          ActiveLifecycles
    <3>2. orders' = [orders EXCEPT ![o] = w] /\ UNCHANGED Money
      BY <2>3 DEF Keep
    <3> HIDE DEF w
    <3>3. orders \in Table /\ orders[o].status = "NONE" /\ w.status = "WAITING_FOR_MARKET"
      BY <1>1, <2>2, <3>1 DEF TypeOK, BooksTypeOK, Table, Fresh, IsMark
    <3>4. NoneFills
      BY <3>2, <3>3 DEF NoneFills, Table
    <3> QED BY <2>2, <3>2, <3>4, MoneyKept
  <2>4. CASE TryFill(o, ord, table, TRUE)
    <3> HIDE DEF ord, table
    <3> QED BY <1>1, <2>1, <2>2, <2>4, VisitKinds
  <2> QED BY <1>4, <2>3, <2>4 DEF PlaceOrder
<1>5. ASSUME NEW o \in Orders, NEW commit, TryFill(o, orders[o], rows, commit),
             UNCHANGED <<start, exited>>, orders[o].symbol \in doomed => FillsDoomed
      PROVE  Kept \/ \E ord, table, c : Filling(o, ord, table, c)
  <2>1. orders[o].status \in OpenStatuses \cup Terminal
    BY <1>5 DEF TryFill, Open
  <2>2. orders[o] \in OrderRecord
    BY <1>1, <2>1, OpenSlot
  <2> QED BY <1>1, <1>5, <2>2, VisitKinds
<1>6. ASSUME NEW o \in Orders, Edited(o), UNCHANGED Money, UNCHANGED <<start, exited>>
      PROVE  Kept
  BY <1>1, <1>6, EditedFillsNone, MoneyKept
<1>7. ASSUME NEW o \in Orders, SweepOrder(o)
      PROVE  Kept \/ \E ord, table, c : Filling(o, ord, table, c)
  <2>1. UNCHANGED <<start, exited>> /\ doomed = {}
    BY <1>1, <1>7 DEF SweepOrder
  <2>2. CASE UNCHANGED <<orders, rows, Money>>
    BY <1>2, <2>1, <2>2, MoneyKept
  <2>3. CASE orders[o].status \in Executable /\ Keep(o, Failed(orders[o]), rows, TRUE)
    <3>1. Edited(o) /\ UNCHANGED Money
      BY <1>1, <2>3, RetryEdits DEF Keep
    <3> QED BY <1>6, <2>1, <3>1
  <2>4. CASE TryFill(o, orders[o], rows, TRUE)
    BY <1>5, <2>1, <2>4
  <2> QED BY <1>7, <2>2, <2>3, <2>4 DEF SweepOrder
<1>8. ASSUME NEW o \in Orders, RefreshOrder(o)
      PROVE  Kept \/ \E ord, table, c : Filling(o, ord, table, c)
  <2>1. UNCHANGED <<start, exited>> /\ (orders[o].symbol \in doomed => FillsDoomed)
    BY <1>8 DEF RefreshOrder, FillsDoomed
  <2>2. CASE Keep(o, orders[o], rows, FALSE)
    <3>1. orders' = orders /\ UNCHANGED Money
      BY <1>1, <2>2 DEF Keep, TypeOK, BooksTypeOK
    <3> QED BY <1>2, <2>1, <3>1, MoneyKept
  <2>3. CASE orders[o].status \in Executable /\ Keep(o, Failed(orders[o]), rows, FALSE)
    <3>1. Edited(o) /\ UNCHANGED Money
      BY <1>1, <2>3, RetryEdits DEF Keep
    <3> QED BY <1>6, <2>1, <3>1
  <2>4. CASE TryFill(o, orders[o], rows, FALSE)
    BY <1>5, <2>1, <2>4
  <2> QED BY <1>8, <2>2, <2>3, <2>4 DEF RefreshOrder
<1>9. ASSUME NEW o \in Orders, CancelOrder(o) PROVE Kept
  <2>1. orders' = [orders EXCEPT ![o] = Mark(orders[o], "CANCELLED", "CANCELLED")]
    BY <1>9 DEF CancelOrder, Keep
  <2>2. orders[o] \in OrderRecord
    BY <1>1, <1>9, OpenSlot DEF CancelOrder, Open
  <2>3. IsMark(Mark(orders[o], "CANCELLED", "CANCELLED"), orders[o], "CANCELLED", "CANCELLED")
    BY <2>2, MarkIs DEF Terminal, Lifecycles
  <2>4. orders \in Table /\ orders[o].status # "FILLED"
    BY <1>1, <1>9 DEF CancelOrder, Open, OpenStatuses, Executable, MarketWaiting, TypeOK,
                      BooksTypeOK, Table
  <2>5. NoneFills
    BY <2>1, <2>3, <2>4 DEF NoneFills, Table, IsMark
  <2> QED BY <1>9, <2>5, MoneyKept DEF CancelOrder, Keep
<1>10. ASSUME NEW o \in Orders, NEW type \in Types, NEW q \in Qtys,
             NEW limit \in Prices \cup {0}, NEW stop \in Prices \cup {0},
             ModifyOrder(o, type, q, limit, stop)
       PROVE  Kept
  <2> DEFINE w == Amend(orders[o], type, q, limit, stop)
  <2>1. orders[o] \in OrderRecord /\ orders[o].status \in OpenStatuses
    BY <1>1, <1>10, OpenSlot DEF ModifyOrder, Open
  <2>2. w.status = orders[o].status
    BY <2>1 DEF Amend, OrderRecord
  <2>3. orders' = [orders EXCEPT ![o] = w]
    BY <1>10 DEF ModifyOrder, Keep
  <2> HIDE DEF w
  <2>4. NoneFills
    BY <1>1, <2>1, <2>2, <2>3 DEF NoneFills, TypeOK, BooksTypeOK, OpenStatuses, Executable,
                                  MarketWaiting
  <2> QED BY <1>10, <2>4, MoneyKept DEF ModifyOrder, Keep
<1>11. CASE BeginSweep \/ BeginRefresh \/ MarketFlips
            \/ \E s \in Symbols, p \in Prices \cup {0} : QuoteMoves(s, p)
  <2>1. UNCHANGED Money /\ UNCHANGED <<start, exited>> /\ orders' = orders
    BY <1>11 DEF BeginSweep, BeginRefresh, MarketFlips, QuoteMoves, Money
  <2> QED BY <1>2, <2>1, MoneyKept
<1>12. CASE EndRefresh
  <2>1. \A s \in Symbols : Book(s)' = Book(s) /\ Shares(s)' = Shares(s)
    BY <1>12 DEF EndRefresh, Flushed, Book, Shares, NoPosition
  <2>2. UNCHANGED <<cash, start, realised, exited, orders>>
    BY <1>12 DEF EndRefresh
  <2> QED BY <1>2, <2>1, <2>2 DEF BooksKept, SharesKept
<1>13. ASSUME NEW b \in Balances, UpdateCapital(b) PROVE Kept
  <2>1. UNCHANGED <<orders, positions, doomed, realised, exited>>
    BY <1>13 DEF UpdateCapital
  <2>2. cash' - start' - realised' = cash - start - realised
    BY <1>1, <1>13, BalanceAssumption DEF UpdateCapital, TypeOK, BooksTypeOK
  <2> QED BY <1>2, <2>1, <2>2 DEF BooksKept, SharesKept, Book, Shares
<1> QED
  BY <1>3, <1>4, <1>7, <1>8, <1>9, <1>10, <1>11, <1>12, <1>13 DEF Next

-----------------------------------------------------------------------------
(* A fill keeps the books and the shares. *)

\* The whole of a total goes with the whole position.
LEMMA WholeShare ==
    ASSUME NEW c \in Nat, NEW n \in Nat \ {0}
    PROVE  (c * n) \div n = c
<1>1. c * n = n * c
  OBVIOUS
<1> QED BY <1>1

\* What a sale of q of a position's shares does to the position.
LEMMA SoldPosition ==
    ASSUME TypeOK, NEW o \in Orders, NEW ord \in OrderRecord, NEW table, NEW commit,
           FillSell(o, ord, table, commit), ord.symbol \notin doomed
    PROVE  LET s == ord.symbol
               pos == positions[s]
               cost == Share(pos.cost, ord.qty, s)
               charges == Share(pos.charges, ord.qty, s)
           IN  /\ cost \in Nat /\ charges \in Nat
               /\ Book(s) = pos.cost + pos.charges
               /\ Book(s)' = Book(s) - cost - charges
               /\ Shares(s)' = Shares(s) - ord.qty
<1> DEFINE s == ord.symbol
           pos == positions[s]
           q == ord.qty
           cost == Share(pos.cost, q, s)
           charges == Share(pos.charges, q, s)
           rest == [qty |-> pos.qty - q, cost |-> pos.cost - cost,
                    charges |-> pos.charges - charges]
<1>1. s \in Symbols /\ q \in Nat \ {0}
  BY RecordFields
<1>2. /\ positions \in [Symbols -> [qty : Nat, cost : Nat, charges : Nat]]
      /\ pos.qty \in Nat \ {0} /\ pos.cost \in Nat /\ pos.charges \in Nat
      /\ q \in 0 .. pos.qty
  BY <1>1 DEF FillSell, Sellable, TypeOK, BooksTypeOK
<1>3. cost \in 0 .. pos.cost /\ charges \in 0 .. pos.charges
  BY <1>2, ShareBound DEF Share
<1>4. Book(s) = pos.cost + pos.charges /\ Shares(s) = pos.qty
  BY DEF Book, Shares
<1>5. Book(s)' = Book(s) - cost - charges /\ Shares(s)' = Shares(s) - q
  <2>1. CASE pos.qty = q
    <3>1. cost = pos.cost /\ charges = pos.charges
      BY <1>1, <1>2, <2>1, WholeShare DEF Share
    <3>2. ASSUME commit PROVE Book(s)' = 0 /\ Shares(s)' = 0
      <4>1. positions' = [Flushed EXCEPT ![s] = NoPosition] /\ doomed' = {}
        BY <2>1, <3>2 DEF FillSell
      <4>2. positions'[s] = NoPosition
        BY <1>1, <4>1 DEF Flushed
      <4> QED BY <4>1, <4>2 DEF Book, Shares, NoPosition
    <3>3. ASSUME ~commit PROVE Book(s)' = 0 /\ Shares(s)' = 0
      <4>1. s \in doomed'
        BY <2>1, <3>3 DEF FillSell
      <4> QED BY <4>1 DEF Book, Shares
    <3>4. Book(s)' = 0 /\ Shares(s)' = 0
      BY <3>2, <3>3
    <3> HIDE DEF cost, charges
    <3> QED BY <1>2, <1>4, <2>1, <3>1, <3>4
  <2>2. CASE pos.qty # q
    <3>1. positions' = [Flushed EXCEPT ![s] = rest] /\ doomed' = {}
      BY <2>2 DEF FillSell
    <3>2. positions'[s] = rest
      BY <1>1, <3>1 DEF Flushed
    <3>3. Book(s)' = pos.cost - cost + (pos.charges - charges) /\ Shares(s)' = pos.qty - q
      BY <3>1, <3>2 DEF Book, Shares
    <3> HIDE DEF cost, charges
    <3> QED BY <1>2, <1>3, <1>4, <3>3
  <2> QED BY <2>1, <2>2
<1> QED BY <1>3, <1>4, <1>5

\* What a purchase does to the position.
LEMMA BoughtPosition ==
    ASSUME TypeOK, NEW o \in Orders, NEW ord \in OrderRecord, NEW table, NEW commit,
           FillBuy(o, ord, table, commit), ord.symbol \notin doomed
    PROVE  LET s == ord.symbol
               cost == BuyCost(ord.qty, quote[s])
           IN  /\ cost \in Nat
               /\ Book(s) \in Nat
               /\ Book(s)' = Book(s) + cost
               /\ Shares(s)' = Shares(s) + ord.qty
<1> DEFINE s == ord.symbol
           pos == positions[s]
           q == ord.qty
           p == quote[s]
           charges == BuyCharges(q, p)
           bought == [qty |-> pos.qty + q, cost |-> pos.cost + q * p,
                      charges |-> pos.charges + charges]
<1>1. s \in Symbols /\ q \in Nat /\ p \in Nat
  BY RecordFields, PriceType DEF TypeOK
<1>2. charges \in Nat /\ BuyCost(q, p) \in Nat /\ q * p \in Nat /\ BuyCost(q, p) = q * p + charges
  <2>1. charges \in Nat /\ BuyCost(q, p) \in Nat
    BY <1>1, CostType
  <2>2. q * p \in Nat
    BY <1>1
  <2>3. BuyCost(q, p) = q * p + charges
    BY DEF BuyCost
  <2> QED BY <2>1, <2>2, <2>3
<1>3. /\ positions \in [Symbols -> [qty : Nat, cost : Nat, charges : Nat]]
      /\ pos.qty \in Nat /\ pos.cost \in Nat /\ pos.charges \in Nat
  BY <1>1 DEF TypeOK, BooksTypeOK
<1>4. Book(s) = pos.cost + pos.charges /\ Shares(s) = pos.qty
  BY DEF Book, Shares
<1>5. positions'[s] = bought /\ s \notin doomed'
  <2>1. CASE Held(s)
    <3>1. positions' = [positions EXCEPT ![s] = bought] /\ doomed' = doomed
      BY <2>1 DEF FillBuy
    <3> QED BY <1>1, <1>3, <3>1
  <2>2. CASE ~Held(s)
    <3>1. positions' = [Flushed EXCEPT ![s] = bought] /\ doomed' = {}
      BY <2>2 DEF FillBuy
    <3> QED BY <1>1, <3>1 DEF Flushed
  <2> QED BY <2>1, <2>2
<1>6. Book(s)' = pos.cost + q * p + (pos.charges + charges) /\ Shares(s)' = pos.qty + q
  BY <1>5 DEF Book, Shares
<1> DEFINE turnover == q * p
<1>7. Book(s)' = Book(s) + BuyCost(q, p) /\ Shares(s)' = Shares(s) + q
  <2>1. Book(s)' = pos.cost + turnover + (pos.charges + charges)
        /\ turnover \in Nat /\ BuyCost(q, p) = turnover + charges
    BY <1>2, <1>6 DEF turnover
  <2> HIDE DEF charges, turnover
  <2> QED BY <1>2, <1>3, <1>4, <1>6, <2>1
<1>8. Book(s) \in Nat
  BY <1>3, <1>4
<1> QED BY <1>2, <1>7, <1>8

\* A fill leaves the books and shares of the other symbols alone.
LEMMA OthersKept ==
    ASSUME TypeOK, NEW o \in Orders, NEW ord \in OrderRecord, NEW table, NEW commit,
           FillBuy(o, ord, table, commit) \/ FillSell(o, ord, table, commit),
           ord.symbol \notin doomed, NEW x \in Symbols, x # ord.symbol
    PROVE  Book(x)' = Book(x) /\ Shares(x)' = Shares(x)
<1>1. positions \in [Symbols -> [qty : Nat, cost : Nat, charges : Nat]]
  BY DEF TypeOK, BooksTypeOK
<1>2. \/ positions'[x] = positions[x] /\ doomed' = doomed
      \/ positions'[x] = Flushed[x] /\ x \notin doomed'
  <2>1. CASE FillBuy(o, ord, table, commit)
    BY <1>1, <2>1 DEF FillBuy, Flushed
  <2>2. CASE FillSell(o, ord, table, commit)
    <3>1. PICK pos : positions' = Flushed \/ positions' = [Flushed EXCEPT ![ord.symbol] = pos]
      BY <2>2 DEF FillSell
    <3>2. positions'[x] = Flushed[x]
      BY <3>1 DEF Flushed
    <3>3. doomed' \subseteq {ord.symbol}
      BY <2>2 DEF FillSell
    <3> QED BY <3>2, <3>3
  <2> QED BY <2>1, <2>2
<1> QED BY <1>1, <1>2 DEF Book, Shares, Flushed, NoPosition

LEMMA FillKeepsBooks ==
    ASSUME TypeOK, TypeOK', NEW o \in Orders, NEW ord, NEW table, NEW commit,
           Filling(o, ord, table, commit), ord.symbol \notin doomed
    PROVE  Imbalance' = Imbalance
<1> DEFINE s == ord.symbol
<1>1. ord \in OrderRecord /\ s \in Symbols /\ start' = start
  BY RecordFields DEF Filling
<1>2. \A x \in Symbols \ {s} : Book(x)' = Book(x)
  BY <1>1, OthersKept DEF Filling
<1>3. cash \in Int /\ start \in Int /\ realised \in Int
  BY BalanceAssumption DEF TypeOK, BooksTypeOK
<1>4. CASE FillBuy(o, ord, table, commit)
  <2> DEFINE cost == BuyCost(ord.qty, quote[s])
  <2>1. cost \in Nat /\ Book(s) \in Nat /\ Book(s)' = Book(s) + cost
    BY <1>1, <1>4, BoughtPosition
  <2>2. cash' = cash - cost /\ realised' = realised
    BY <1>4 DEF FillBuy
  <2> HIDE DEF cost
  <2>3. cash' - start' - realised' + Book(s)' = cash - start - realised + Book(s)
    BY <1>1, <1>3, <2>1, <2>2
  <2> QED BY <1>1, <1>2, <2>3, BooksMove
<1>5. CASE FillSell(o, ord, table, commit)
  <2> DEFINE cost == Share(positions[s].cost, ord.qty, s)
             charges == Share(positions[s].charges, ord.qty, s)
             net == SellProceeds(ord.qty, quote[s])
  <2>1. /\ cost \in Nat /\ charges \in Nat
        /\ Book(s) = positions[s].cost + positions[s].charges
        /\ Book(s)' = Book(s) - cost - charges
    BY <1>1, <1>5, SoldPosition
  <2>2. net \in Int
    BY <1>1, RecordFields, PriceType, ProceedsType DEF TypeOK
  <2>3. Book(s) \in Int
    BY <1>1, <2>1 DEF TypeOK, BooksTypeOK
  <2>4. cash' = cash + net /\ realised' = realised + net - (cost + charges)
    BY <1>5 DEF FillSell
  <2> HIDE DEF cost, charges, net
  <2>5. cash' - start' - realised' + Book(s)' = cash - start - realised + Book(s)
    BY <1>1, <1>3, <2>1, <2>2, <2>3, <2>4
  <2> QED BY <1>1, <1>2, <2>5, BooksMove
<1> QED BY <1>4, <1>5 DEF Filling

LEMMA ExitKeepsBooks ==
    ASSUME TypeOK, TypeOK', NothingDoomed, NEW s \in Symbols, NEW p \in Prices \cup {0},
           AutoExit(s, p)
    PROVE  Imbalance' = Imbalance
<1> DEFINE net == SellProceeds(positions[s].qty, p)
<1>1. /\ doomed = {} /\ doomed' = {} /\ start' = start
      /\ cash' = cash + net
      /\ realised' = realised + net - positions[s].cost - positions[s].charges
      /\ positions' = [positions EXCEPT ![s] = NoPosition]
  BY DEF AutoExit, NothingDoomed
<1>2. /\ positions \in [Symbols -> [qty : Nat, cost : Nat, charges : Nat]]
      /\ cash \in Int /\ start \in Int /\ realised \in Int
  BY BalanceAssumption DEF TypeOK, BooksTypeOK
<1>3. net \in Int
  BY <1>2, PriceType, ProceedsType
<1> HIDE DEF net
<1>4. \A x \in Symbols \ {s} : Book(x)' = Book(x)
  BY <1>1, <1>2 DEF Book
<1>5. Book(s) = positions[s].cost + positions[s].charges /\ Book(s)' = 0
  BY <1>1, <1>2 DEF Book, NoPosition
<1>6. cash' - start' - realised' + Book(s)' = cash - start - realised + Book(s)
  BY <1>1, <1>2, <1>3, <1>5
<1> QED BY <1>4, <1>6, BooksMove

LEMMA ResetBalances ==
    ASSUME NEW b \in Balances, ResetAccount(b)
    PROVE  Imbalance' = 0
<1>1. BookOf' = [s \in Symbols |-> 0]
  BY DEF ResetAccount, BookOf, Book, NoPosition
<1>2. SumNat(BookOf') = 0
  BY <1>1, SumNatZero
<1>3. cash' = b /\ start' = b /\ realised' = 0 /\ b \in Int
  BY BalanceAssumption DEF ResetAccount
<1> QED BY <1>2, <1>3 DEF Imbalance, BookOf

\* Cash, the cost of what is held and the realised result always add up to
\* the starting balance, for any orders, symbols, prices and charges; a fill
\* on a position that the same refresh has sold is the only exception.
THEOREM Balanced == Spec => BooksBalance
<1>1. IInv /\ [Next]_vars => KeepsBooks
  <2> SUFFICES ASSUME IInv, [Next]_vars, ~FillsDoomed
               PROVE  Imbalance' = Imbalance \/ Imbalance' = 0
    BY DEF KeepsBooks
  <2>1. TypeOK /\ TypeOK' /\ NothingDoomed
    BY TypeStep DEF IInv
  <2>2. CASE BooksKept
    BY <2>2, BooksStay DEF BooksKept
  <2>3. ASSUME NEW o \in Orders, NEW ord, NEW table, NEW commit, Filling(o, ord, table, commit)
        PROVE  Imbalance' = Imbalance
    BY <2>1, <2>3, FillKeepsBooks DEF Filling
  <2>4. ASSUME NEW s \in Symbols, NEW p \in Prices \cup {0}, AutoExit(s, p)
        PROVE  Imbalance' = Imbalance
    BY <2>1, <2>4, ExitKeepsBooks
  <2>5. ASSUME NEW b \in Balances, ResetAccount(b) PROVE Imbalance' = 0
    BY <2>5, ResetBalances
  <2> QED BY <2>2, <2>3, <2>4, <2>5, StepKinds
<1> QED BY <1>1, Invariant, PTL DEF Spec, BooksBalance

\* The numbers a drift is made of.
LEMMA DriftParts ==
    ASSUME TypeOK, NEW s \in Symbols
    PROVE  /\ Shares(s) \in Nat /\ exited[s] \in Nat
           /\ Moved("SELL", s) \in Nat /\ Moved("BUY", s) \in Nat
<1>1. SumNat(LotOf("SELL", s)) \in Nat /\ SumNat(LotOf("BUY", s)) \in Nat
  BY LotType DEF TypeOK
<1>2. Shares(s) \in Nat /\ exited[s] \in Nat
  BY DEF Shares, TypeOK, BooksTypeOK
<1> QED BY <1>1, <1>2 DEF Moved, LotOf

\* A filled order moves its shares, on its side and its symbol.
LEMMA FillMoves ==
    ASSUME TypeOK, TypeOK', NEW o \in Orders, NEW ord, NEW table, NEW commit,
           Filling(o, ord, table, commit), NEW s, NEW side
    PROVE  Moved(side, s)' = Moved(side, s)
                             + IF ord.symbol = s /\ ord.side = side THEN ord.qty ELSE 0
<1>1. ord \in OrderRecord /\ orders[o].status # "FILLED"
  BY DEF Filling
<1>2. /\ "FILLED" \in OpenStatuses \cup Terminal
      /\ "ENTRY_FILLED" \in Lifecycles /\ "EXIT_FILLED" \in Lifecycles
  BY DEF Terminal, Lifecycles
<1>3. PICK lc \in {"ENTRY_FILLED", "EXIT_FILLED"} :
         orders' = [orders EXCEPT ![o] = Mark(ord, "FILLED", lc)]
  BY DEF Filling, FillBuy, FillSell
<1> DEFINE w == Mark(ord, "FILLED", lc)
<1>4. /\ w \in OrderRecord /\ w.status = "FILLED"
      /\ w.symbol = ord.symbol /\ w.side = ord.side /\ w.qty = ord.qty
  BY <1>1, <1>2, <1>3, MarkType
<1> HIDE DEF w
<1>5. orders' = [orders EXCEPT ![o] = w]
  BY <1>3 DEF w
<1>6. Moved(side, s)' = Moved(side, s) + IF w.symbol = s /\ w.side = side THEN w.qty ELSE 0
  BY <1>1, <1>4, <1>5, MovedGrows DEF TypeOK
<1> QED BY <1>4, <1>6

LEMMA FillKeepsShares ==
    ASSUME TypeOK, TypeOK', NEW o \in Orders, NEW ord, NEW table, NEW commit,
           Filling(o, ord, table, commit), ord.symbol \notin doomed, NEW s \in Symbols
    PROVE  Drift(s)' = Drift(s)
<1>1. /\ ord \in OrderRecord /\ exited'[s] = exited[s] /\ ord.qty \in Nat
      /\ FillBuy(o, ord, table, commit) \/ FillSell(o, ord, table, commit)
  BY RecordFields DEF Filling
<1>2. /\ Moved("SELL", s)' = Moved("SELL", s)
                             + IF ord.symbol = s /\ ord.side = "SELL" THEN ord.qty ELSE 0
      /\ Moved("BUY", s)' = Moved("BUY", s)
                            + IF ord.symbol = s /\ ord.side = "BUY" THEN ord.qty ELSE 0
  BY FillMoves
<1>3. /\ Shares(s) \in Nat /\ exited[s] \in Nat
      /\ Moved("SELL", s) \in Nat /\ Moved("BUY", s) \in Nat
  BY DriftParts
<1>4. CASE ord.symbol # s
  <2>1. Shares(s)' = Shares(s)
    BY <1>1, <1>4, OthersKept
  <2> QED BY <1>1, <1>2, <1>3, <1>4, <2>1 DEF Drift
<1>5. CASE ord.symbol = s /\ FillBuy(o, ord, table, commit)
  <2>1. Shares(s)' = Shares(s) + ord.qty
    BY <1>1, <1>5, BoughtPosition
  <2>2. ord.side = "BUY"
    BY <1>5 DEF FillBuy
  <2> QED BY <1>1, <1>2, <1>3, <1>5, <2>1, <2>2 DEF Drift
<1>6. CASE ord.symbol = s /\ FillSell(o, ord, table, commit)
  <2>1. Shares(s)' = Shares(s) - ord.qty
    BY <1>1, <1>6, SoldPosition
  <2>2. ord.side = "SELL"
    BY <1>6 DEF FillSell
  <2> QED BY <1>1, <1>2, <1>3, <1>6, <2>1, <2>2 DEF Drift
<1> QED BY <1>1, <1>4, <1>5, <1>6

LEMMA ExitKeepsShares ==
    ASSUME TypeOK, NothingDoomed, NEW x \in Symbols, NEW p \in Prices \cup {0},
           AutoExit(x, p), NEW s \in Symbols
    PROVE  Drift(s)' = Drift(s)
<1>1. /\ doomed = {} /\ doomed' = {} /\ orders' = orders
      /\ positions' = [positions EXCEPT ![x] = NoPosition]
      /\ exited' = [exited EXCEPT ![x] = @ + positions[x].qty]
  BY DEF AutoExit, NothingDoomed
<1>2. /\ positions \in [Symbols -> [qty : Nat, cost : Nat, charges : Nat]]
      /\ exited \in [Symbols -> Nat]
  BY DEF TypeOK, BooksTypeOK
<1>3. /\ Shares(s) = positions[s].qty /\ Shares(s)' = positions'[s].qty
      /\ positions[s].qty \in Nat
  BY <1>1, <1>2 DEF Shares
<1>4. positions'[s].qty + exited'[s] = positions[s].qty + exited[s]
  BY <1>1, <1>2 DEF NoPosition
<1>5. positions'[s].qty \in Nat /\ exited'[s] \in Nat /\ exited[s] \in Nat
  BY <1>1, <1>2 DEF NoPosition
<1>6. Moved("SELL", s)' = Moved("SELL", s) /\ Moved("BUY", s)' = Moved("BUY", s)
  BY <1>1, MovedStays DEF NoneFills
<1> QED BY <1>3, <1>4, <1>5, <1>6, DriftParts DEF Drift

LEMMA ResetDrifts ==
    ASSUME NEW b \in Balances, ResetAccount(b), NEW s \in Symbols
    PROVE  Drift(s)' = 0
<1>1. \A side : LotOf(side, s)' = [o \in Orders |-> 0]
  BY DEF ResetAccount, LotOf, NoOrder
<1>2. SumNat([o \in Orders |-> 0]) = 0
  BY SumNatZero
<1>3. Moved("SELL", s)' = 0 /\ Moved("BUY", s)' = 0
  BY <1>1, <1>2 DEF Moved, LotOf
<1>4. Shares(s)' = 0 /\ exited'[s] = 0
  BY DEF ResetAccount, Shares, NoPosition
<1> QED BY <1>3, <1>4 DEF Drift

\* The shares held are the shares bought less the shares sold, symbol by
\* symbol, with the same exception.
THEOREM HoldingsMatch == Spec => HoldingsMatchFills
<1>1. IInv /\ [Next]_vars => KeepsHoldings
  <2> SUFFICES ASSUME IInv, [Next]_vars, ~FillsDoomed, NEW s \in Symbols
               PROVE  Drift(s)' = Drift(s) \/ Drift(s)' = 0
    BY DEF KeepsHoldings
  <2>1. TypeOK /\ TypeOK' /\ NothingDoomed
    BY TypeStep DEF IInv
  <2>2. CASE SharesKept /\ NoneFills
    <3>1. Moved("SELL", s)' = Moved("SELL", s) /\ Moved("BUY", s)' = Moved("BUY", s)
      BY <2>2, MovedStays
    <3> QED BY <2>2, <3>1 DEF Drift, SharesKept
  <2>3. ASSUME NEW o \in Orders, NEW ord, NEW table, NEW commit, Filling(o, ord, table, commit)
        PROVE  Drift(s)' = Drift(s)
    BY <2>1, <2>3, FillKeepsShares DEF Filling
  <2>4. ASSUME NEW x \in Symbols, NEW p \in Prices \cup {0}, AutoExit(x, p)
        PROVE  Drift(s)' = Drift(s)
    BY <2>1, <2>4, ExitKeepsShares
  <2>5. ASSUME NEW b \in Balances, ResetAccount(b) PROVE Drift(s)' = 0
    BY <2>5, ResetDrifts
  <2> QED BY <2>2, <2>3, <2>4, <2>5, StepKinds
<1> QED BY <1>1, Invariant, PTL DEF Spec, HoldingsMatchFills

=============================================================================
