--------------------------- MODULE PaperSessions ---------------------------
(***************************************************************************)
(* Requests on one paper account and one symbol, running at the same time. *)
(* Each request is one SQLAlchemy session on PostgreSQL, READ COMMITTED:   *)
(* it reads rows, locks rows with SELECT ... FOR UPDATE, computes on the   *)
(* mapped objects, and publishes everything in one commit.                 *)
(*                                                                         *)
(* What a session has mapped is not read again: neither a locking SELECT   *)
(* nor a commit (expire_on_commit=False) refreshes an object, and an       *)
(* UPDATE writes the values computed from it.  So it matters whether a     *)
(* session maps the account before it locks it.                            *)
(*                                                                         *)
(* PaperDesk has the arithmetic of a fill; here an order is for one share  *)
(* and every trade is at Price.  Of the orders one refresh looks at, one   *)
(* triggers: several in a session are PaperDesk's.                         *)
(***************************************************************************)
EXTENDS Integers

CONSTANTS
    Sessions,   \* the sessions, one request each
    Keys,       \* orders, named by their idempotency keys
    Buys,       \* the keys of BUY orders; the others are SELLs
    Requests,   \* the requests that may run: what they do, for which order,
                \* and whether the price they see lets an order fill
    Price,      \* what a share costs, and what it brings
    Start,      \* starting balance
    Held,       \* shares held at the start
    Raise,      \* by how much a capital update raises it
    None        \* nobody, or a value not loaded

\* (Mutant: auto_exit, too, maps the account with the position.)
EarlyExits == {"refresh", "squareoff", "exit"}

\* Requests that map the account before they lock it.
EarlyReaders == {"refresh", "squareoff"}
Kinds == EarlyReaders \cup {"place", "sweep", "exit", "cancel", "capital"}

ASSUME RequestsAssumption == Requests \subseteq [kind : Kinds, key : Keys, fires : BOOLEAN]
ASSUME BuysAssumption == Buys \subseteq Keys
ASSUME PriceAssumption == Price \in Nat \ {0} /\ Start \in Nat
ASSUME AmountAssumption == Raise \in Nat /\ Held \in Nat
ASSUME NoneAssumption == None \notin Sessions /\ None \notin Int

VARIABLES
    cash,      \* account.cash_balance, as committed
    status,    \* status[k]: the order row of key k
    pos,       \* the symbol's position row: its id and its shares, 0 if none
    fills,     \* fills[k]: how many commits have filled the order
    acctLock,  \* the session that holds the account row
    posLock,   \* the session that holds the position row
    request,   \* request[s]: what the session is asked to do
    pc,        \* how far the session is
    seen       \* seen[s]: the cash and the position it has mapped

vars == <<cash, status, pos, fills, acctLock, posLock, request, pc, seen>>

Rows == <<cash, status, pos, fills>>

\* WAITING stands for the statuses that a sweep executes: waiting for the
\* market, ready, failed.
Open == {"PENDING", "WAITING"}
Statuses == Open \cup {"NONE", "FILLED", "REJECTED", "CANCELLED"}
Ended == {"committed", "gone"}

Kind(s) == request[s].kind
Key(s) == request[s].key
NoPosition == [id |-> pos.id, qty |-> 0]

\* What the account is worth at Price: no trade at that price changes it.
Worth == cash + Price * pos.qty

-----------------------------------------------------------------------------
(* Reading and locking. *)

\* (Mutant: locking SELECTs that do not lock, as on SQLite.)
Unlocked(s) == TRUE

\* The row locks that s asks for are free.
AccountFree(s) == acctLock \in {None, s}
PositionFree(s) == posLock \in {None, s}

\* What a request finds when it starts, before it takes any lock.
FindsWork(s) ==
    CASE Kind(s) = "sweep" -> status[Key(s)] = "WAITING"
      [] Kind(s) = "cancel" -> status[Key(s)] \in Open
      [] Kind(s) = "refresh" -> \E k \in Keys : status[k] \in Open
      [] Kind(s) \in {"exit", "squareoff"} -> pos.qty > 0
      [] OTHER -> TRUE

\* The first read of every request but place_order and
\* update_starting_capital, which begin by locking the account.
Read(s) ==
    /\ pc[s] = "begin"
    /\ Kind(s) \notin {"place", "capital"}
    /\ FindsWork(s)
    /\ pc' = [pc EXCEPT ![s] = "read"]
    /\ seen' = [seen EXCEPT ![s] =
                   [cash |-> IF Kind(s) \in EarlyReaders THEN cash ELSE None,
                    pos |-> pos]]
    /\ UNCHANGED <<Rows, acctLock, posLock, request>>

NothingToDo(s) ==
    /\ pc[s] = "begin"
    /\ ~FindsWork(s)
    /\ pc' = [pc EXCEPT ![s] = "gone"]
    /\ UNCHANGED <<Rows, acctLock, posLock, request, seen>>

\* (Mutant: the position is not looked up again.)
StillListed(s) == seen[s].pos.qty > 0

\* The row that the request is for is still there.
StillOpen(s) == pos.qty > 0 /\ pos.id = seen[s].pos.id

\* auto_exit locks the position first.  One that square_off_all has mapped
\* keeps its old shares.
LockPosition(s) ==
    /\ pc[s] = "read"
    /\ Kind(s) \in {"exit", "squareoff"}
    /\ PositionFree(s)
    /\ StillOpen(s)
    /\ posLock' = s
    /\ pc' = [pc EXCEPT ![s] = "positioned"]
    /\ seen' = [seen EXCEPT ![s].pos = IF Kind(s) = "exit" THEN pos ELSE @]
    /\ UNCHANGED <<Rows, acctLock, request>>

\* "Position not found."
PositionGone(s) ==
    /\ pc[s] = "read"
    /\ Kind(s) \in {"exit", "squareoff"}
    /\ PositionFree(s)
    /\ ~StillOpen(s)
    /\ pc' = [pc EXCEPT ![s] = "gone"]
    /\ UNCHANGED <<Rows, acctLock, posLock, request, seen>>

\* The account's balance as the session maps it when it locks the row.
Mapped(s) == IF seen[s].cash = None THEN cash ELSE seen[s].cash

\* Every kind but cancel locks the account, each at its own point.
LockAccount(s) ==
    /\ \/ pc[s] = "begin" /\ Kind(s) \in {"place", "capital"}
       \/ pc[s] = "read" /\ Kind(s) \in {"sweep", "refresh"}
       \/ pc[s] = "positioned"
    /\ AccountFree(s)
    /\ acctLock' = s
    /\ pc' = [pc EXCEPT ![s] = "locked"]
    /\ seen' = [seen EXCEPT ![s].cash = Mapped(s)]
    /\ UNCHANGED <<Rows, posLock, request>>

-----------------------------------------------------------------------------
(* Committing. *)

\* The end of the transaction: its locks are released.
Release(s, outcome) ==
    /\ pc' = [pc EXCEPT ![s] = outcome]
    /\ seen' = [seen EXCEPT ![s] = [cash |-> None, pos |-> [id |-> 0, qty |-> 0]]]
    /\ acctLock' = IF acctLock = s THEN None ELSE acctLock
    /\ posLock' = IF posLock = s THEN None ELSE posLock
    /\ UNCHANGED request

Locked(s, kinds) == pc[s] = "locked" /\ Kind(s) \in kinds

\* place_order finds the key: the existing order is returned.
PlaceAgain(s) ==
    /\ Locked(s, {"place"})
    /\ status[Key(s)] # "NONE"
    /\ Release(s, "gone")
    /\ UNCHANGED Rows

\* (Mutant: the refresh fills the orders of its first read.)
TriesAny(s, k) ==
    \/ Locked(s, {"place"}) /\ k = Key(s) /\ status[k] = "NONE"
    \/ Locked(s, {"sweep"}) /\ k = Key(s)
    \/ Locked(s, {"refresh"}) /\ status[k] # "NONE"

\* The session evaluates order k: a new one, the one the sweep read before it
\* had the lock, or one that the refresh has selected again under the lock.
Tries(s, k) ==
    \/ Locked(s, {"place"}) /\ k = Key(s) /\ status[k] = "NONE"
    \/ Locked(s, {"sweep"}) /\ k = Key(s)
    \/ Locked(s, {"refresh"}) /\ status[k] \in Open

\* (Mutant: only the cash is checked.)
EnoughCash(s, k) == seen[s].cash >= Price

\* The account can pay for a BUY; there are shares to SELL.
Enough(s, k) == IF k \in Buys THEN seen[s].cash >= Price ELSE pos.qty > 0

\* The order waits: for the market, for a quote, or for its price.
OrderWaits(s, k) ==
    /\ Tries(s, k)
    /\ ~request[s].fires
    /\ \E waiting \in Open : status' = [status EXCEPT ![k] = waiting]
    /\ Release(s, "committed")
    /\ UNCHANGED <<cash, pos, fills>>

Rejects(s, k) ==
    /\ Tries(s, k)
    /\ request[s].fires
    /\ ~Enough(s, k)
    /\ status' = [status EXCEPT ![k] = "REJECTED"]
    /\ Release(s, "committed")
    /\ UNCHANGED <<cash, pos, fills>>

\* A fill reads the position under the account lock, which is enough to know
\* its shares, and writes it in the commit, which waits for the row.
FillsBuy(s, k) ==
    /\ Tries(s, k)
    /\ request[s].fires
    /\ k \in Buys
    /\ Enough(s, k)
    /\ pos.qty > 0 => PositionFree(s)
    /\ cash' = seen[s].cash - Price
    /\ pos' = IF pos.qty > 0 THEN [pos EXCEPT !.qty = @ + 1]
              ELSE [id |-> pos.id + 1, qty |-> 1]
    /\ status' = [status EXCEPT ![k] = "FILLED"]
    /\ fills' = [fills EXCEPT ![k] = @ + 1]
    /\ Release(s, "committed")

FillsSell(s, k) ==
    /\ Tries(s, k)
    /\ request[s].fires
    /\ k \notin Buys
    /\ Enough(s, k)
    /\ PositionFree(s)
    /\ cash' = seen[s].cash + Price
    /\ pos' = [pos EXCEPT !.qty = @ - 1]
    /\ status' = [status EXCEPT ![k] = "FILLED"]
    /\ fills' = [fills EXCEPT ![k] = @ + 1]
    /\ Release(s, "committed")

\* A refresh that finds its orders filled or cancelled under the lock.
NothingLeft(s) ==
    /\ Locked(s, {"refresh"})
    /\ \A k \in Keys : status[k] \notin Open
    /\ Release(s, "committed")
    /\ UNCHANGED Rows

\* auto_exit sells the shares it has mapped and deletes the row.
Exits(s) ==
    /\ Locked(s, {"exit", "squareoff"})
    /\ cash' = seen[s].cash + Price * seen[s].pos.qty
    /\ pos' = NoPosition
    /\ Release(s, "committed")
    /\ UNCHANGED <<status, fills>>

\* update_starting_capital.
Raises(s) ==
    /\ Locked(s, {"capital"})
    /\ cash' = seen[s].cash + Raise
    /\ Release(s, "committed")
    /\ UNCHANGED <<status, pos, fills>>

\* cancel_order locks nothing; its notification refers to the account, so the
\* commit waits for whoever holds the row, and then overwrites the status.
Cancels(s) ==
    /\ pc[s] = "read" /\ Kind(s) = "cancel"
    /\ AccountFree(s)
    /\ status' = [status EXCEPT ![Key(s)] = "CANCELLED"]
    /\ Release(s, "committed")
    /\ UNCHANGED <<cash, pos, fills>>

\* (Mutant: no lock timeout; only a session that waits for nobody may fail.)
FailsAtWork(s) ==
    /\ pc[s] = "locked" /\ PositionFree(s)
    /\ Release(s, "gone")
    /\ UNCHANGED Rows

\* A lock or statement timeout, a lost connection, or a deadlock that the
\* server breaks: the transaction rolls back.
Abort(s) ==
    /\ pc[s] \notin Ended
    /\ Release(s, "gone")
    /\ UNCHANGED Rows

-----------------------------------------------------------------------------

Init ==
    /\ cash = Start
    /\ status \in [Keys -> {"NONE", "WAITING"}]
    /\ pos = [id |-> 0, qty |-> Held]
    /\ fills = [k \in Keys |-> 0]
    /\ acctLock = None
    /\ posLock = None
    /\ request \in [Sessions -> Requests]
    /\ pc = [s \in Sessions |-> "begin"]
    /\ seen = [s \in Sessions |-> [cash |-> None, pos |-> [id |-> 0, qty |-> 0]]]

Trades(s) ==
    \E k \in Keys : OrderWaits(s, k) \/ Rejects(s, k) \/ FillsBuy(s, k)
                    \/ FillsSell(s, k)

\* What s does by itself.
Step(s) ==
    \/ Read(s) \/ NothingToDo(s) \/ LockPosition(s) \/ PositionGone(s)
    \/ LockAccount(s) \/ PlaceAgain(s) \/ Trades(s) \/ NothingLeft(s)
    \/ Exits(s) \/ Raises(s) \/ Cancels(s)

Next == \E s \in Sessions : Step(s) \/ Abort(s)

Spec == Init /\ [][Next]_vars

\* A request that can go on does, and one that waits for a lock does not wait
\* beyond lock_timeout (5 s, set on every connection).
Fairness ==
    \A s \in Sessions : WF_vars(Step(s)) /\ WF_vars(Abort(s) /\ ~ENABLED Step(s))

FairSpec == Spec /\ Fairness

-----------------------------------------------------------------------------
(* Properties. *)

SeenType == [cash : Int \cup {None}, pos : [id : Nat, qty : Nat]]

\* The type invariant.  A sale never takes more shares than there are.
TypeOK ==
    /\ cash \in Int
    /\ status \in [Keys -> Statuses]
    /\ pos \in [id : Nat, qty : Nat]
    /\ fills \in [Keys -> Nat]
    /\ acctLock \in Sessions \cup {None}
    /\ posLock \in Sessions \cup {None}
    /\ request \in [Sessions -> Requests]
    /\ pc \in [Sessions -> {"begin", "read", "positioned", "locked"} \cup Ended]
    /\ seen \in [Sessions -> SeenType]

Commits(s) == pc[s] # "committed" /\ pc'[s] = "committed"

KeepsWorth ==
    \A s \in Sessions :
        Commits(s) /\ Kind(s) \notin EarlyReaders
        => Worth' = Worth + IF Kind(s) = "capital" THEN Raise ELSE 0

\* A request that maps the account when it locks it changes the balance by
\* what it trades, and the position with it, whatever runs beside it: no such
\* commit undoes another, even one of a request that read too early.
CommitsKeepWorth == [][KeepsWorth]_vars

DeletesItsPosition ==
    \A s \in Sessions :
        Commits(s) /\ Kind(s) \in {"exit", "squareoff"}
        => pos.qty > 0 /\ pos.id = seen[s].pos.id

\* An exit deletes the position it was asked to close, which is still there:
\* two exits of one position, or an exit and a sale, never both take it.
ExitsCloseTheirPosition == [][DeletesItsPosition]_vars

\* Placing, retrying, refreshing, cancelling: no order is filled twice, as
\* long as no sweep has written one that it had read before it had the lock.
OrdersFillOnce ==
    (\A s \in Sessions : Kind(s) = "sweep" => pc[s] # "committed")
    => \A k \in Keys : fills[k] <= 1

\* The requests of which SerialDesk has a step before the one that commits,
\* and those of them that keep what they saw of the account.
Looks(s) == Kind(s) \in {"sweep", "cancel", "refresh", "squareoff"}
Keeps(s) == Kind(s) \in {"refresh", "squareoff"}
Underway(s) == pc[s] \notin Ended \cup {"begin"}

\* How far SerialDesk takes each request to be, and what it has looked at.
Answers == [s \in Sessions |-> IF pc[s] \in Ended THEN pc[s]
                               ELSE IF Looks(s) /\ Underway(s) THEN "looked" ELSE "none"]
Snapshots == [s \in Sessions |-> IF Keeps(s) /\ Underway(s)
                                 THEN [cash |-> seen[s].cash, held |-> seen[s].pos.qty]
                                 ELSE [cash |-> None, held |-> 0]]

\* Requests run one after another, each in the step that commits it, but for
\* what SerialDesk lists: the order that a sweep or a cancellation has read,
\* and the balance and shares that a refresh or a square-off has mapped.
D == INSTANCE SerialDesk WITH held <- pos.qty, answer <- Answers, known <- Snapshots
RefinesSerialDesk == D!SerialSpec

\* Every request ends, although an exit locks the position and then the
\* account and a fill the account and then the position.
RequestsEnd == \A s \in Sessions : <>(pc[s] \in Ended)

-----------------------------------------------------------------------------
(* What the documentation says and the code does not do. *)

\* execute_all_pending_market_open_orders: "Safe to call repeatedly
\* (idempotent for already-filled orders)."  Two sweeps, or a sweep and a
\* refresh, can both have read the order before either has the lock.
SweepsAreIdempotent == \A k \in Keys : fills[k] <= 1

=============================================================================
