------------------------ MODULE PaperSessionsProofs ------------------------
(***************************************************************************)
(* What the row locks give, for any number of sessions and any mix of      *)
(* requests.  The inductive invariant says who holds which lock, and what  *)
(* the holder has mapped: a session that maps the account when it locks it *)
(* has the committed balance until it commits, and an exit that has locked *)
(* its position still finds it there.                                      *)
(***************************************************************************)
EXTENDS PaperSessions, TLAPS

Exiting == {"exit", "squareoff"}

\* A session past LockAccount holds the account row.
AccountHeld == \A s \in Sessions : pc[s] = "locked" => acctLock = s

\* An exit past LockPosition holds the position row, which is still the one
\* it was asked to close.
PositionHeld ==
    \A s \in Sessions :
        /\ pc[s] = "positioned" => Kind(s) \in Exiting
        /\ pc[s] \in {"positioned", "locked"} /\ Kind(s) \in Exiting =>
              /\ posLock = s
              /\ StillOpen(s)
              /\ Kind(s) = "exit" => seen[s].pos = pos

\* The balance that the session has mapped, if it has.
BalanceMapped ==
    \A s \in Sessions :
        /\ pc[s] = "locked" => seen[s].cash \in Int
        /\ Kind(s) \notin EarlyReaders =>
              /\ pc[s] = "locked" => seen[s].cash = cash
              /\ pc[s] \notin Ended \cup {"locked"} => seen[s].cash = None

NoSweep == \A s \in Sessions : Kind(s) = "sweep" => pc[s] # "committed"

\* An order that is not placed or still open has not been filled.
FillsCounted ==
    NoSweep => \A k \in Keys :
        fills[k] <= 1 /\ (status[k] \in Open \cup {"NONE"} => fills[k] = 0)

LocksInv == AccountHeld /\ PositionHeld /\ BalanceMapped

IInv == TypeOK /\ LocksInv /\ FillsCounted

-----------------------------------------------------------------------------
(* Initially. *)

LEMMA InitInv == Init => IInv
<1> SUFFICES ASSUME Init PROVE IInv
  OBVIOUS
<1>1. TypeOK
  BY RequestsAssumption, PriceAssumption, AmountAssumption
  DEF Init, TypeOK, SeenType, Statuses, Open, Ended
<1>2. LocksInv
  BY <1>1 DEF Init, LocksInv, AccountHeld, PositionHeld, BalanceMapped, Ended
<1>3. FillsCounted
  BY DEF Init, FillsCounted
<1> QED BY <1>1, <1>2, <1>3 DEF IInv

-----------------------------------------------------------------------------
(* The steps that only read and lock. *)

Reads(s) == Read(s) \/ NothingToDo(s) \/ LockPosition(s) \/ PositionGone(s)
            \/ LockAccount(s)

LEMMA ReadsType ==
    ASSUME TypeOK, NEW s \in Sessions, Reads(s)
    PROVE  TypeOK'
<1>1. CASE Read(s)
  BY <1>1 DEF TypeOK, Read, Rows, SeenType
<1>2. CASE NothingToDo(s)
  BY <1>2 DEF TypeOK, NothingToDo, Rows, Ended
<1>3. CASE LockPosition(s)
  BY <1>3 DEF TypeOK, LockPosition, Rows, SeenType
<1>4. CASE PositionGone(s)
  BY <1>4 DEF TypeOK, PositionGone, Rows, Ended
<1>5. CASE LockAccount(s)
  BY <1>5 DEF TypeOK, LockAccount, Mapped, Rows, SeenType
<1> QED BY <1>1, <1>2, <1>3, <1>4, <1>5 DEF Reads

LEMMA ReadsLocks ==
    ASSUME TypeOK, LocksInv, NEW s \in Sessions, Reads(s)
    PROVE  LocksInv'
<1>1. CASE Read(s)
  <2>1. AccountHeld'
    BY <1>1 DEF TypeOK, LocksInv, AccountHeld, Read, Rows
  <2>2. PositionHeld'
    BY <1>1 DEF TypeOK, LocksInv, PositionHeld, Read, Rows, Kind, StillOpen
  <2>3. BalanceMapped'
    BY <1>1 DEF TypeOK, LocksInv, BalanceMapped, Read, Rows, Kind, Ended
  <2> QED BY <2>1, <2>2, <2>3 DEF LocksInv
<1>2. CASE NothingToDo(s)
  BY <1>2 DEF TypeOK, LocksInv, AccountHeld, PositionHeld, BalanceMapped,
              NothingToDo, Rows, Kind, StillOpen, Ended
<1>3. CASE LockPosition(s)
  <2>1. AccountHeld'
    BY <1>3 DEF TypeOK, LocksInv, AccountHeld, LockPosition, Rows
  <2>2. PositionHeld'
    BY <1>3, NoneAssumption DEF TypeOK, LocksInv, PositionHeld, LockPosition,
       PositionFree, Rows, Kind, StillOpen, Exiting
  <2>3. BalanceMapped'
    BY <1>3 DEF TypeOK, SeenType, LocksInv, BalanceMapped, LockPosition, Rows,
                Kind, Ended
  <2> QED BY <2>1, <2>2, <2>3 DEF LocksInv
<1>4. CASE PositionGone(s)
  BY <1>4 DEF TypeOK, LocksInv, AccountHeld, PositionHeld, BalanceMapped,
              PositionGone, Rows, Kind, StillOpen, Ended
<1>5. CASE LockAccount(s)
  <2>1. AccountHeld'
    BY <1>5, NoneAssumption
    DEF TypeOK, LocksInv, AccountHeld, LockAccount, AccountFree, Rows
  <2>2. PositionHeld'
    BY <1>5 DEF TypeOK, SeenType, LocksInv, PositionHeld, LockAccount, Rows,
                Kind, StillOpen, Exiting
  <2>3. BalanceMapped'
    BY <1>5 DEF TypeOK, SeenType, LocksInv, BalanceMapped, LockAccount, Mapped,
                Rows, Kind, Ended
  <2> QED BY <2>1, <2>2, <2>3 DEF LocksInv
<1> QED BY <1>1, <1>2, <1>3, <1>4, <1>5 DEF Reads

\* They neither end a transaction with a commit nor touch an order.
LEMMA ReadsKeep ==
    ASSUME TypeOK, NEW s \in Sessions, Reads(s)
    PROVE  /\ UNCHANGED <<cash, status, pos, fills, request>>
           /\ \A t \in Sessions : pc'[t] = "committed" => pc[t] = "committed"
           /\ \A t \in Sessions : pc[t] = "committed" => pc'[t] = "committed"
  BY DEF Reads, Read, NothingToDo, LockPosition, PositionGone, LockAccount, Rows,
         TypeOK, Ended

-----------------------------------------------------------------------------
(* The steps that end a transaction. *)

\* What a commit of s may do to the rows: the balance only under the account
\* lock, the position only when nobody else has locked it.
Writes(s) ==
    /\ cash' # cash => pc[s] = "locked"
    /\ pos' # pos => PositionFree(s) \/ pos.qty = 0

\* The rows keep their types.
RowsType == /\ cash' \in Int
            /\ status' \in [Keys -> Statuses]
            /\ pos' \in [id : Nat, qty : Nat]
            /\ fills' \in [Keys -> Nat]

LEMMA ReleaseType ==
    ASSUME TypeOK, NEW s \in Sessions, NEW outcome \in Ended,
           Release(s, outcome), RowsType
    PROVE  TypeOK'
  BY DEF TypeOK, Release, RowsType, SeenType

LEMMA ReleaseLocks ==
    ASSUME TypeOK, LocksInv, NEW s \in Sessions, NEW outcome \in Ended,
           Release(s, outcome), Writes(s)
    PROVE  LocksInv'
<1>1. pc'[s] = outcome /\ pc'[s] \notin {"locked", "positioned"}
  BY DEF TypeOK, Release, Ended
<1>2. \A t \in Sessions \ {s} :
         pc'[t] = pc[t] /\ seen'[t] = seen[t] /\ Kind(t)' = Kind(t)
  BY DEF TypeOK, Release, Kind
<1>3. AccountHeld'
  <2> SUFFICES ASSUME NEW t \in Sessions, pc'[t] = "locked" PROVE acctLock' = t
    BY DEF AccountHeld
  <2>1. t # s /\ pc[t] = "locked"
    BY <1>1, <1>2
  <2> QED BY <2>1 DEF LocksInv, AccountHeld, Release
<1>4. \A t \in Sessions \ {s} : pc[t] = "locked" => cash' = cash
  BY DEF LocksInv, AccountHeld, Writes
<1>5. PositionHeld'
  <2> SUFFICES ASSUME NEW t \in Sessions
               PROVE  /\ pc'[t] = "positioned" => Kind(t)' \in Exiting
                      /\ pc'[t] \in {"positioned", "locked"} /\ Kind(t)' \in Exiting =>
                            /\ posLock' = t
                            /\ StillOpen(t)'
                            /\ Kind(t)' = "exit" => seen'[t].pos = pos'
    BY DEF PositionHeld
  <2>1. CASE t = s
    BY <1>1, <2>1
  <2>2. CASE t # s
    <3>1. pc[t] \in {"positioned", "locked"} /\ Kind(t) \in Exiting =>
             /\ posLock = t
             /\ StillOpen(t)
             /\ Kind(t) = "exit" => seen[t].pos = pos
      BY DEF LocksInv, PositionHeld
    <3>2. pc[t] \in {"positioned", "locked"} /\ Kind(t) \in Exiting =>
             posLock' = t /\ pos' = pos
      BY <2>2, <3>1, NoneAssumption
      DEF TypeOK, Release, Writes, PositionFree, StillOpen
    <3> QED BY <1>2, <2>2, <3>1, <3>2 DEF LocksInv, PositionHeld, StillOpen
  <2> QED BY <2>1, <2>2
<1>6. BalanceMapped'
  BY <1>1, <1>2, <1>4 DEF LocksInv, BalanceMapped, Release, TypeOK, Ended
<1> QED BY <1>3, <1>5, <1>6 DEF LocksInv

\* Shares cost what the price says, one at a time.
LEMMA PriceOfShares ==
    ASSUME NEW n \in Nat
    PROVE  /\ Price * n \in Nat
           /\ Price * (n + 1) = Price * n + Price
           /\ n > 0 => Price * (n - 1) = Price * n - Price
           /\ Price * 0 = 0
  BY PriceAssumption

LEMMA FillsWrite ==
    ASSUME TypeOK, LocksInv, NEW s \in Sessions, NEW k \in Keys,
           FillsBuy(s, k) \/ FillsSell(s, k)
    PROVE  RowsType /\ Writes(s) /\ Release(s, "committed")
<1>1. pc[s] = "locked"
  BY DEF FillsBuy, FillsSell, Tries, Locked
<1>2. seen[s].cash \in Int
  BY <1>1 DEF LocksInv, BalanceMapped
<1>3. CASE FillsBuy(s, k)
  <2>1. cash' \in Int
    BY <1>2, <1>3, PriceAssumption DEF FillsBuy
  <2>2. pos' \in [id : Nat, qty : Nat]
    BY <1>3 DEF FillsBuy, TypeOK
  <2>3. status' \in [Keys -> Statuses] /\ fills' \in [Keys -> Nat]
    BY <1>3 DEF FillsBuy, TypeOK, Statuses
  <2>4. pos.qty = 0 \/ PositionFree(s)
    BY <1>3 DEF FillsBuy, TypeOK
  <2> QED BY <1>1, <1>3, <2>1, <2>2, <2>3, <2>4 DEF RowsType, Writes, FillsBuy
<1>4. CASE FillsSell(s, k)
  <2>1. cash' \in Int
    BY <1>2, <1>4, PriceAssumption DEF FillsSell
  <2>2. pos' \in [id : Nat, qty : Nat]
    BY <1>4 DEF FillsSell, Enough, TypeOK
  <2>3. status' \in [Keys -> Statuses] /\ fills' \in [Keys -> Nat]
    BY <1>4 DEF FillsSell, TypeOK, Statuses
  <2> QED BY <1>1, <1>4, <2>1, <2>2, <2>3 DEF RowsType, Writes, FillsSell
<1> QED BY <1>3, <1>4

LEMMA ExitsWrite ==
    ASSUME TypeOK, LocksInv, NEW s \in Sessions, Exits(s)
    PROVE  RowsType /\ Writes(s) /\ Release(s, "committed")
<1>1. pc[s] = "locked" /\ Kind(s) \in Exiting
  BY DEF Exits, Locked, Exiting
<1>2. seen[s].cash \in Int /\ posLock = s
  BY <1>1 DEF LocksInv, BalanceMapped, PositionHeld
<1>3. Price * seen[s].pos.qty \in Nat
  BY PriceOfShares DEF TypeOK, SeenType
<1>4. cash' \in Int
  BY <1>2, <1>3 DEF Exits
<1>5. pos' \in [id : Nat, qty : Nat]
  BY DEF Exits, NoPosition, TypeOK
<1> QED BY <1>1, <1>2, <1>4, <1>5 DEF RowsType, Writes, Exits, PositionFree, TypeOK

\* The ends of a transaction that trade nothing.
Quiet(s) == \/ PlaceAgain(s) \/ NothingLeft(s) \/ Raises(s) \/ Cancels(s) \/ Abort(s)
            \/ \E k \in Keys : OrderWaits(s, k) \/ Rejects(s, k)

LEMMA QuietWrites ==
    ASSUME TypeOK, LocksInv, NEW s \in Sessions, Quiet(s)
    PROVE  RowsType /\ Writes(s) /\ \E outcome \in Ended : Release(s, outcome)
<1> USE DEF RowsType, Writes, TypeOK, Rows, Ended
<1>1. CASE PlaceAgain(s) \/ NothingLeft(s) \/ Abort(s)
  BY <1>1 DEF PlaceAgain, NothingLeft, Abort
<1>2. CASE Raises(s)
  <2>1. pc[s] = "locked" /\ seen[s].cash \in Int
    BY <1>2 DEF Raises, Locked, LocksInv, BalanceMapped
  <2> QED BY <1>2, <2>1, AmountAssumption DEF Raises
<1>3. CASE Cancels(s)
  BY <1>3 DEF Cancels, Statuses
<1>4. ASSUME NEW k \in Keys, OrderWaits(s, k) \/ Rejects(s, k)
      PROVE  RowsType /\ Writes(s) /\ \E outcome \in Ended : Release(s, outcome)
  BY <1>4 DEF OrderWaits, Rejects, Statuses, Open
<1> QED BY <1>1, <1>2, <1>3, <1>4 DEF Quiet

Ends(s) == Quiet(s) \/ Exits(s)
           \/ \E k \in Keys : FillsBuy(s, k) \/ FillsSell(s, k)

LEMMA EndsWrite ==
    ASSUME TypeOK, LocksInv, NEW s \in Sessions, Ends(s)
    PROVE  RowsType /\ Writes(s) /\ \E outcome \in Ended : Release(s, outcome)
  BY QuietWrites, ExitsWrite, FillsWrite DEF Ends, Ended

\* Every step reads and locks, or ends a transaction.
LEMMA Steps ==
    ASSUME Next
    PROVE  \E s \in Sessions : Reads(s) \/ Ends(s)
  BY DEF Next, Step, Trades, Reads, Ends, Quiet

LEMMA LocksStep ==
    ASSUME TypeOK, LocksInv, [Next]_vars
    PROVE  TypeOK' /\ LocksInv'
<1>1. CASE Next
  <2>1. PICK s \in Sessions : Reads(s) \/ Ends(s)
    BY <1>1, Steps
  <2>2. CASE Reads(s)
    BY <2>2, ReadsType, ReadsLocks
  <2>3. CASE Ends(s)
    BY <2>3, EndsWrite, ReleaseType, ReleaseLocks
  <2> QED BY <2>1, <2>2, <2>3
<1>2. CASE UNCHANGED vars
  BY <1>2 DEF vars, TypeOK, LocksInv, AccountHeld, PositionHeld, BalanceMapped,
              Kind, StillOpen
<1> QED BY <1>1, <1>2

\* The type invariant, for every number of sessions and orders.
THEOREM SessionsType == Spec => []TypeOK
<1>1. Init => TypeOK /\ LocksInv
  BY InitInv DEF IInv
<1>2. TypeOK /\ LocksInv /\ [Next]_vars => (TypeOK /\ LocksInv)'
  BY LocksStep
<1> QED BY <1>1, <1>2, PTL DEF Spec

-----------------------------------------------------------------------------
(* Orders fill once. *)

LEMMA Swept ==
    ASSUME TypeOK, [Next]_vars
    PROVE  /\ request' = request
           /\ NoSweep' => NoSweep
<1>1. CASE Next
  <2>1. PICK s \in Sessions : Reads(s) \/ Ends(s)
    BY <1>1, Steps
  <2>2. CASE Reads(s)
    BY <2>2, ReadsKeep DEF NoSweep, Kind
  <2>3. CASE Ends(s)
    <3>1. PICK outcome : Release(s, outcome)
      BY <2>3 DEF Ends, Quiet, PlaceAgain, NothingLeft, Raises, Cancels, Abort,
                  OrderWaits, Rejects, Exits, FillsBuy, FillsSell
    <3>2. pc[s] # "committed"
      BY <2>3 DEF Ends, Quiet, PlaceAgain, NothingLeft, Raises, Cancels, Abort,
                  OrderWaits, Rejects, Exits, FillsBuy, FillsSell, Tries,
                  Locked, Ended
    <3> QED BY <3>1, <3>2 DEF Release, NoSweep, Kind, TypeOK
  <2> QED BY <2>1, <2>2, <2>3
<1>2. CASE UNCHANGED vars
  BY <1>2 DEF vars, NoSweep, Kind
<1> QED BY <1>1, <1>2

\* An order that is tried by anyone but a sweep is new or open.
LEMMA TriesOpen ==
    ASSUME TypeOK, NoSweep', NEW s \in Sessions, NEW k \in Keys, Tries(s, k),
           Release(s, "committed")
    PROVE  status[k] \in Open \cup {"NONE"}
  BY DEF Tries, Locked, NoSweep, Kind, Release, TypeOK

LEMMA FillsStep ==
    ASSUME IInv, [Next]_vars
    PROVE  FillsCounted'
<1> SUFFICES ASSUME NoSweep', NEW k \in Keys
             PROVE  /\ fills'[k] <= 1
                    /\ status'[k] \in Open \cup {"NONE"} => fills'[k] = 0
  BY DEF FillsCounted
<1>1. /\ fills[k] \in Nat /\ fills[k] <= 1
      /\ status[k] \in Open \cup {"NONE"} => fills[k] = 0
  BY Swept DEF IInv, FillsCounted, TypeOK
<1>2. CASE Next
  <2>1. PICK s \in Sessions : Reads(s) \/ Ends(s)
    BY <1>2, Steps
  <2>2. CASE fills'[k] = fills[k] /\ status'[k] = status[k]
    BY <1>1, <2>2
  <2>3. ASSUME NEW n \in Keys, OrderWaits(s, n) \/ Rejects(s, n)
        PROVE  fills' = fills /\ (status'[k] # status[k] => fills[k] = 0)
    BY <1>1, <2>3, TriesOpen DEF OrderWaits, Rejects, IInv, TypeOK
  <2>4. ASSUME NEW n \in Keys, FillsBuy(s, n) \/ FillsSell(s, n)
        PROVE  k = n => fills'[k] = 1 /\ status'[k] = "FILLED"
    BY <1>1, <2>4, TriesOpen DEF FillsBuy, FillsSell, IInv, TypeOK
  <2>5. ASSUME NEW n \in Keys, FillsBuy(s, n) \/ FillsSell(s, n)
        PROVE  k # n => fills'[k] = fills[k] /\ status'[k] = status[k]
    BY <2>5 DEF FillsBuy, FillsSell, IInv, TypeOK
  <2>6. CASE \E n \in Keys : OrderWaits(s, n) \/ Rejects(s, n)
    BY <1>1, <2>3, <2>6
  <2>7. CASE \E n \in Keys : FillsBuy(s, n) \/ FillsSell(s, n)
    BY <1>1, <2>4, <2>5, <2>7 DEF Open
  <2>8. CASE Cancels(s)
    BY <1>1, <2>8 DEF Cancels, IInv, TypeOK, Open
  <2>9. CASE PlaceAgain(s) \/ NothingLeft(s) \/ Raises(s) \/ Abort(s) \/ Exits(s)
    BY <1>1, <2>9 DEF PlaceAgain, NothingLeft, Raises, Abort, Exits, Rows
  <2>10. CASE Reads(s)
    BY <1>1, <2>10, ReadsKeep DEF IInv
  <2> QED BY <2>1, <2>6, <2>7, <2>8, <2>9, <2>10 DEF Ends, Quiet
<1>3. CASE UNCHANGED vars
  BY <1>1, <1>3 DEF vars
<1> QED BY <1>2, <1>3

LEMMA SessionsInvariant == Spec => []IInv
<1>1. IInv /\ [Next]_vars => IInv'
  BY LocksStep, FillsStep DEF IInv
<1> QED BY <1>1, InitInv, PTL DEF Spec

\* Unless a sweep has committed, no order has been filled twice.
THEOREM FillOnce == Spec => []OrdersFillOnce
<1>1. IInv => OrdersFillOnce
  BY DEF IInv, FillsCounted, NoSweep, OrdersFillOnce
<1> QED BY <1>1, SessionsInvariant, PTL

-----------------------------------------------------------------------------
(* Commits add up. *)

\* The session that commits is the one that steps.
LEMMA Committer ==
    ASSUME TypeOK, NEW s \in Sessions, NEW t \in Sessions,
           Reads(s) \/ Ends(s), Commits(t)
    PROVE  t = s /\ Ends(s) /\ pc'[s] = "committed"
<1>1. CASE Reads(s)
  BY <1>1, ReadsKeep DEF Commits
<1>2. CASE Ends(s)
  <2>1. PICK outcome : Release(s, outcome)
    BY <1>2 DEF Ends, Quiet, PlaceAgain, NothingLeft, Raises, Cancels, Abort,
                OrderWaits, Rejects, Exits, FillsBuy, FillsSell
  <2> QED BY <1>2, <2>1 DEF Release, Commits, TypeOK
<1> QED BY <1>1, <1>2

\* An exit deletes the position it has locked.
THEOREM ExitsClose == Spec => ExitsCloseTheirPosition
<1>1. IInv /\ [Next]_vars => DeletesItsPosition
  <2> SUFFICES ASSUME IInv, Next, NEW t \in Sessions, Commits(t), Kind(t) \in Exiting
               PROVE  StillOpen(t)
    BY DEF DeletesItsPosition, StillOpen, Exiting, Commits, vars
  <2>1. PICK s \in Sessions : Reads(s) \/ Ends(s)
    BY Steps
  <2>2. t = s /\ Ends(t) /\ pc'[t] = "committed"
    BY <2>1, Committer DEF IInv
  <2>3. Exits(t)
    BY <2>2 DEF Ends, Quiet, PlaceAgain, NothingLeft, Raises, Cancels, Abort,
                OrderWaits, Rejects, FillsBuy, FillsSell, Tries, Locked,
                Release, Exiting, IInv, TypeOK
  <2> QED BY <2>3 DEF Exits, Locked, Exiting, IInv, LocksInv, PositionHeld
<1> QED BY <1>1, SessionsInvariant, PTL DEF Spec, ExitsCloseTheirPosition

\* A commit of a request that maps the account when it locks it changes what
\* the account is worth by what the request is for.
THEOREM WorthKept == Spec => CommitsKeepWorth
<1>1. IInv /\ [Next]_vars => KeepsWorth
  <2> SUFFICES ASSUME IInv, Next, NEW t \in Sessions, Commits(t),
                      Kind(t) \notin EarlyReaders
               PROVE  Worth' = Worth + IF Kind(t) = "capital" THEN Raise ELSE 0
    BY DEF KeepsWorth, Commits, vars
  <2>1. PICK s \in Sessions : Reads(s) \/ Ends(s)
    BY Steps
  <2>2. Ends(t) /\ pc'[t] = "committed"
    BY <2>1, Committer DEF IInv
  <2>3. /\ cash \in Int /\ pos.qty \in Nat /\ pos \in [id : Nat, qty : Nat]
        /\ pc[t] = "locked" => seen[t].cash = cash
    BY DEF IInv, TypeOK, LocksInv, BalanceMapped
  <2>4. Price * pos.qty \in Nat
    BY <2>3, PriceOfShares
  <2>5. CASE \E k \in Keys : FillsBuy(t, k)
    <3>1. /\ cash' = cash - Price /\ pos'.qty = pos.qty + 1
          /\ Kind(t) # "capital"
      BY <2>3, <2>5 DEF FillsBuy, Tries, Locked
    <3>2. Price * pos'.qty = Price * pos.qty + Price
      BY <2>3, <3>1, PriceOfShares
    <3> QED BY <2>3, <2>4, <3>1, <3>2, PriceAssumption DEF Worth
  <2>6. CASE \E k \in Keys : FillsSell(t, k)
    <3>1. /\ cash' = cash + Price /\ pos'.qty = pos.qty - 1 /\ pos.qty > 0
          /\ Kind(t) # "capital"
      BY <2>3, <2>6 DEF FillsSell, Enough, Tries, Locked
    <3>2. Price * pos'.qty = Price * pos.qty - Price
      BY <2>3, <3>1, PriceOfShares
    <3> QED BY <2>3, <2>4, <3>1, <3>2, PriceAssumption DEF Worth
  <2>7. CASE Exits(t)
    <3>1. Kind(t) = "exit" /\ pc[t] = "locked"
      BY <2>7 DEF Exits, Locked, EarlyReaders
    <3>2. seen[t].pos = pos
      BY <3>1 DEF IInv, LocksInv, PositionHeld, Exiting
    <3>3. cash' = cash + Price * pos.qty /\ pos'.qty = 0
      BY <2>3, <2>7, <3>1, <3>2 DEF Exits, NoPosition
    <3> QED BY <2>3, <2>4, <3>1, <3>3, PriceOfShares DEF Worth
  <2>8. CASE Raises(t)
    BY <2>3, <2>4, <2>8, AmountAssumption DEF Raises, Locked, Worth
  <2>9. CASE \/ Cancels(t) \/ NothingLeft(t) \/ PlaceAgain(t)
             \/ \E k \in Keys : OrderWaits(t, k) \/ Rejects(t, k)
    <3>1. cash' = cash /\ pos' = pos /\ Kind(t) # "capital"
      BY <2>9 DEF Cancels, NothingLeft, PlaceAgain, OrderWaits, Rejects, Tries,
                  Locked, Rows
    <3> QED BY <2>3, <2>4, <3>1 DEF Worth
  <2>10. ~Abort(t)
    BY <2>2 DEF Abort, Release, IInv, TypeOK
  <2> QED BY <2>2, <2>5, <2>6, <2>7, <2>8, <2>9, <2>10 DEF Ends, Quiet
<1> QED BY <1>1, SessionsInvariant, PTL DEF Spec, CommitsKeepWorth

-----------------------------------------------------------------------------
(* Concurrent requests are serial ones, but for what some have seen. *)

\* A session that maps the account early has a balance until it ends.
EarlyMapped ==
    \A s \in Sessions :
        Kind(s) \in EarlyReaders /\ Underway(s) => seen[s].cash \in Int

LEMMA EarlyMappedStep ==
    ASSUME IInv, EarlyMapped, [Next]_vars
    PROVE  EarlyMapped'
<1> USE DEF EarlyMapped, Underway, Kind, Ended
<1>1. TypeOK /\ LocksInv
  BY DEF IInv
<1>2. CASE Next
  <2>1. PICK s \in Sessions : Reads(s) \/ Ends(s)
    BY <1>2, Steps
  <2>2. CASE Reads(s)
    BY <1>1, <2>2 DEF Reads, Read, NothingToDo, LockPosition, PositionGone,
       LockAccount, Mapped, Rows, TypeOK, SeenType
  <2>3. CASE Ends(s)
    <3>1. PICK outcome \in Ended : Release(s, outcome)
      BY <1>1, <2>3, EndsWrite
    <3> QED BY <1>1, <3>1 DEF Release, TypeOK
  <2> QED BY <2>1, <2>2, <2>3
<1>3. CASE UNCHANGED vars
  BY <1>3 DEF vars
<1> QED BY <1>2, <1>3

LEMMA SessionsMapped == Spec => [](IInv /\ EarlyMapped)
<1>1. Init => IInv /\ EarlyMapped
  BY InitInv DEF Init, EarlyMapped, Underway
<1>2. IInv /\ EarlyMapped /\ [Next]_vars => (IInv /\ EarlyMapped)'
  BY LocksStep, FillsStep, EarlyMappedStep DEF IInv
<1> QED BY <1>1, <1>2, PTL DEF Spec

\* A request that ends is answered, and what it has seen is forgotten.
Over(s, outcome) ==
    /\ request' = request
    /\ pc' = [pc EXCEPT ![s] = outcome]
    /\ \A t \in Sessions : t # s => seen'[t] = seen[t]

LEMMA OverAnswers ==
    ASSUME TypeOK, NEW s \in Sessions, NEW outcome \in Ended, Over(s, outcome)
    PROVE  D!Answer(s, outcome)
<1> USE DEF Over, Kind, Ended, Underway, Looks, Keeps
<1>1. Answers' = [Answers EXCEPT ![s] = outcome]
  BY DEF Answers, TypeOK
<1>2. Snapshots' = [Snapshots EXCEPT ![s] = D!Nothing]
  BY DEF Snapshots, D!Nothing, TypeOK
<1> QED BY <1>1, <1>2 DEF D!Answer

LEMMA ReleaseOver ==
    ASSUME TypeOK, NEW s \in Sessions, NEW outcome, Release(s, outcome)
    PROVE  Over(s, outcome)
  BY DEF Release, Over, TypeOK

LEMMA OverDeclines ==
    ASSUME TypeOK, NEW s \in Sessions, Over(s, "gone"), UNCHANGED Rows,
           pc[s] \notin Ended
    PROVE  D!Decline(s)
<1>1. D!Answer(s, "gone")
  BY OverAnswers DEF Ended
<1>2. Answers[s] \in {"none", "looked"}
  BY DEF Answers
<1> QED BY <1>1, <1>2 DEF D!Decline, Rows

\* The requests that look first, as SerialDesk names them.
LEMMA Lookers ==
    ASSUME NEW s \in Sessions
    PROVE  /\ Looks(s) <=> D!Kind(s) \in D!Lookers
           /\ Keeps(s) <=> D!Kind(s) \in D!Keepers
           /\ Keeps(s) <=> Kind(s) \in EarlyReaders
           /\ Kind(s) = D!Kind(s) /\ Key(s) = D!Key(s)
  BY DEF Looks, Keeps, EarlyReaders, Kind, Key, D!Kind, D!Key, D!Lookers, D!Keepers

\* A session that has begun without looking has nothing to look at.
LEMMA LockersLook ==
    ASSUME NEW s \in Sessions, LockAccount(s)
    PROVE  /\ pc[s] \in {"begin", "read", "positioned"}
           /\ pc[s] = "begin" => ~Looks(s) /\ ~Keeps(s)
  BY DEF LockAccount, Looks, Keeps

\* Reading and locking is looking, declining, or nothing that anybody sees.
LEMMA ReadsMap ==
    ASSUME IInv, EarlyMapped, NEW s \in Sessions, Reads(s)
    PROVE  D!Look(s) \/ D!Decline(s) \/ UNCHANGED D!vars
<1>1. TypeOK
  BY DEF IInv
<1>2. CASE NothingToDo(s)
  BY <1>1, <1>2, OverDeclines DEF NothingToDo, Over, Ended
<1>3. CASE PositionGone(s)
  BY <1>1, <1>3, OverDeclines DEF PositionGone, Over, Ended
<1>4. CASE Read(s)
  <2> USE <1>1, <1>4 DEF Read, TypeOK, Kind, Ended, Underway, Looks, Keeps
  <2>1. CASE Looks(s)
    <3>1. Answers[s] = "none" /\ Answers' = [Answers EXCEPT ![s] = "looked"]
      BY <2>1 DEF Answers
    <3>2. Snapshots' = IF Keeps(s)
                       THEN [Snapshots EXCEPT ![s] = [cash |-> cash, held |-> pos.qty]]
                       ELSE Snapshots
      BY <2>1 DEF Snapshots, EarlyReaders
    <3>3. D!WorthLooking(s)
      BY <2>1, Lookers DEF FindsWork, D!WorthLooking, Open, D!Open
    <3> QED BY <2>1, <3>1, <3>2, <3>3, Lookers DEF D!Look, Rows
  <2>2. CASE ~Looks(s)
    <3>1. Answers' = Answers
      BY <2>2 DEF Answers
    <3>2. Snapshots' = Snapshots
      BY <2>2 DEF Snapshots
    <3> QED BY <3>1, <3>2 DEF D!vars, Rows
  <2> QED BY <2>1, <2>2
<1>5. CASE LockPosition(s)
  <2> USE <1>1, <1>5 DEF LockPosition, TypeOK, Kind, Ended, Underway, Looks, Keeps
  <2>1. Answers' = Answers
    BY DEF Answers
  <2>2. Snapshots' = Snapshots
    BY DEF Snapshots
  <2> QED BY <2>1, <2>2 DEF D!vars, Rows
<1>6. CASE LockAccount(s)
  <2> USE <1>1, <1>6 DEF LockAccount, TypeOK, Kind, Ended, Underway, Looks, Keeps
  <2>1. Answers' = Answers
    BY LockersLook DEF Answers
  <2>2. Snapshots' = Snapshots
    BY NoneAssumption, LockersLook DEF Snapshots, Mapped, EarlyMapped, EarlyReaders
  <2> QED BY <2>1, <2>2 DEF D!vars, Rows
<1> QED BY <1>2, <1>3, <1>4, <1>5, <1>6 DEF Reads

-----------------------------------------------------------------------------

\* A session that is about to commit: SerialDesk lets it, on the same balance
\* and the same shares.
LEMMA LockedReady ==
    ASSUME IInv, EarlyMapped, NEW s \in Sessions, pc[s] = "locked"
    PROVE  /\ D!Ready(s)
           /\ seen[s].cash = D!Balance(s)
           /\ Kind(s) \in Exiting => seen[s].pos.qty = D!Shares(s) /\ pos.qty > 0
<1>1. Answers[s] = IF Looks(s) THEN "looked" ELSE "none"
  BY DEF Answers, Underway, Ended
<1>2. Keeps(s) => Snapshots[s] = [cash |-> seen[s].cash, held |-> seen[s].pos.qty]
  BY DEF Snapshots, Underway, Ended
<1>3. ~Keeps(s) => seen[s].cash = cash
  BY Lookers DEF IInv, LocksInv, BalanceMapped
<1>4. Kind(s) \in Exiting => pos.qty > 0 /\ (Kind(s) = "exit" => seen[s].pos = pos)
  BY DEF IInv, LocksInv, PositionHeld, StillOpen
<1> QED BY <1>1, <1>2, <1>3, <1>4, Lookers
        DEF D!Ready, D!Balance, D!Shares, Keeps, Exiting

LEMMA TriesServes ==
    ASSUME IInv, EarlyMapped, NEW s \in Sessions, NEW k \in Keys, Tries(s, k)
    PROVE  D!Serves(s, k) /\ (Enough(s, k) <=> D!Affords(s, k))
<1>1. pc[s] = "locked"
  BY DEF Tries, Locked
<1> QED BY <1>1, LockedReady, Lookers
        DEF Tries, Locked, D!Serves, Enough, D!Affords, Open, D!Open

\* Ending a transaction is one step of SerialDesk.
LEMMA EndsMap ==
    ASSUME IInv, EarlyMapped, NEW s \in Sessions, Ends(s)
    PROVE  \/ D!Decline(s) \/ D!NoneOpen(s) \/ D!Close(s) \/ D!AddCapital(s)
           \/ D!Cancel(s)
           \/ \E k \in Keys : D!Wait(s, k) \/ D!Refuse(s, k) \/ D!Trade(s, k)
<1>1. TypeOK
  BY DEF IInv
<1>2. Release(s, "committed") => D!Answer(s, "committed")
  BY <1>1, ReleaseOver, OverAnswers DEF Ended
<1>3. CASE PlaceAgain(s) \/ Abort(s)
  BY <1>1, <1>3, ReleaseOver, OverDeclines DEF PlaceAgain, Locked, Abort, Ended
<1>4. CASE NothingLeft(s)
  BY <1>2, <1>4, LockedReady, Lookers
  DEF NothingLeft, Locked, D!NoneOpen, Open, D!Open, Rows
<1>5. CASE Raises(s)
  <2>1. seen[s].cash = cash
    BY <1>5 DEF Raises, Locked, EarlyReaders, IInv, LocksInv, BalanceMapped
  <2> QED BY <1>2, <1>5, <2>1, LockedReady, Lookers DEF Raises, Locked, D!AddCapital
<1>6. CASE Cancels(s)
  <2>1. D!Ready(s)
    BY <1>6, Lookers DEF Cancels, Answers, Looks, Underway, Ended, D!Ready
  <2> QED BY <1>2, <1>6, <2>1, Lookers DEF Cancels, D!Cancel, D!Becomes
<1>7. CASE Exits(s)
  <2>1. Kind(s) \in Exiting /\ pc[s] = "locked"
    BY <1>7 DEF Exits, Locked, Exiting
  <2>2. pos'.qty = 0
    BY <1>7 DEF Exits, NoPosition
  <2> QED BY <1>2, <1>7, <2>1, <2>2, LockedReady, Lookers
          DEF Exits, D!Close, Exiting
<1>8. ASSUME NEW k \in Keys, OrderWaits(s, k) PROVE D!Wait(s, k)
  BY <1>2, <1>8, TriesServes DEF OrderWaits, D!Wait, D!Becomes, Open, D!Open
<1>9. ASSUME NEW k \in Keys, Rejects(s, k) PROVE D!Refuse(s, k)
  BY <1>2, <1>9, TriesServes DEF Rejects, D!Refuse, D!Becomes
<1>10. ASSUME NEW k \in Keys, FillsBuy(s, k) \/ FillsSell(s, k) PROVE D!Trade(s, k)
  <2>1. pc[s] = "locked" /\ seen[s].cash = D!Balance(s)
    BY <1>10, LockedReady DEF FillsBuy, FillsSell, Tries, Locked
  <2>2. pos'.qty = IF k \in Buys THEN pos.qty + 1 ELSE pos.qty - 1
    BY <1>1, <1>10 DEF FillsBuy, FillsSell, TypeOK
  <2> QED BY <1>2, <1>10, <2>1, <2>2, TriesServes
          DEF FillsBuy, FillsSell, D!Trade, D!Becomes
<1> QED BY <1>3, <1>4, <1>5, <1>6, <1>7, <1>8, <1>9, <1>10 DEF Ends, Quiet

\* Concurrent requests have no effect but that of serial ones, some of which
\* work on what they saw before.
THEOREM Serial == Spec => RefinesSerialDesk
<1>1. Init => D!Init
  <2> SUFFICES ASSUME Init PROVE D!Init
    OBVIOUS
  <2>1. Answers = [s \in Sessions |-> "none"] /\ Snapshots = [s \in Sessions |-> D!Nothing]
    BY DEF Init, Answers, Snapshots, Underway, Ended, D!Nothing
  <2> QED BY <2>1 DEF Init, D!Init
<1>2. IInv /\ EarlyMapped /\ [Next]_vars => [D!Next]_D!vars
  <2> SUFFICES ASSUME IInv, EarlyMapped, [Next]_vars PROVE [D!Next]_D!vars
    OBVIOUS
  <2>1. CASE Next
    <3>1. PICK s \in Sessions : Reads(s) \/ Ends(s)
      BY <2>1, Steps
    <3> QED BY <3>1, ReadsMap, EndsMap DEF D!Next
  <2>2. CASE UNCHANGED vars
    BY <2>2 DEF vars, D!vars, Answers, Snapshots, Looks, Keeps, Underway, Kind
  <2> QED BY <2>1, <2>2
<1> QED BY <1>1, <1>2, SessionsMapped, PTL DEF Spec, RefinesSerialDesk, D!SerialSpec

=============================================================================
