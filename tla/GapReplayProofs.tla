-------------------------- MODULE GapReplayProofs --------------------------
(***************************************************************************)
(* What holds of the gap replay for all numbers of trades and accounts,    *)
(* any capital, gap, number of attempts and length of the market.          *)
(***************************************************************************)
EXTENDS GapReplay, SumsProofs, WellFoundedInduction

-----------------------------------------------------------------------------
(* The inductive invariant.                                                *)

Replaying == job.pc = "replaying"

\* What a commit would leave of each row and of each count of fills.
NextRows == [t \in Trades |-> IF job.did[t] # {} THEN job.rows[t] ELSE rows[t]]
NextFills == [t \in Trades |-> fills[t] + (IF "fill" \in job.did[t] THEN 1 ELSE 0)]

\* The balance of an account whose trades were filled and closed like this.
Books(a, balance, f, r) ==
    balance = Capital - SumNat([t \in Of(a) |-> Limit * f[t]])
                      + SumNat([t \in Of(a) |-> r[t].got])

\* The session still has a use for the balance it holds of an account.
InUse(a) ==
    \/ a \in job.accounts /\ ~job.failed
    \/ \E t \in Of(a) : t \in job.todo \/ job.did[t] # {}

\* Between replays the session is empty.
NothingMapped ==
    ~Replaying =>
        /\ job.todo = {} /\ job.accounts = {} /\ job.stale = {} /\ ~job.failed
        /\ \A t \in Trades : job.did[t] = {}

\* The gap lies in the past.
GapIsPast == Replaying => job.end <= Now

\* Only a closed position has a price.
OnlyClosedSold ==
    \A t \in Trades : /\ rows[t].status # "closed" => rows[t].got = 0
                      /\ job.rows[t].status # "closed" => job.rows[t].got = 0

\* The history counts what the rows say.
RowsCounted ==
    \A t \in Trades : Owner[t] \notin raced =>
        /\ fills[t] = IF rows[t].status \in {"open", "closed"} THEN 1 ELSE 0
        /\ exits[t] = IF rows[t].status = "closed" THEN 1 ELSE 0

\* The symbols still to be replayed are of one account and have not been; a
\* copy is the row unless a live step came in between.
TodoIsFresh ==
    /\ \A t \in job.todo :
          /\ Owner[t] \notin job.accounts
          /\ job.did[t] = {}
          /\ Owner[t] \notin job.stale => job.rows[t] = rows[t]
          /\ \A u \in job.todo : Owner[u] = Owner[t]
    /\ \A t \in Trades : Owner[t] \in job.accounts => job.did[t] = {}

\* What the session did to a row it did to the committed one.
DeedsAreNew ==
    \A t \in Trades : job.did[t] # {} /\ Owner[t] \notin job.stale =>
        /\ job.did[t] = Did(rows[t], job.rows[t])
        /\ \/ rows[t].status = "pending" /\ job.rows[t].status \in {"rejected", "open", "closed"}
           \/ rows[t].status = "open" /\ job.rows[t].status = "closed"

\* The session's balance agrees with the rows it would commit.
SessionBooks ==
    Replaying => \A a \in Accounts \ (raced \cup job.stale) :
        InUse(a) => Books(a, job.cash[a], NextFills, NextRows)

\* An exit of the row at the first level the gap reached.
ClosedAtFirst(row) ==
    LET m == row.closed
    IN  /\ m \in Gap \cap (1 .. Now)
        /\ row.got = Target <=> "target" \in market[m]
        /\ \A n \in Gap : n < m => market[n] \cap {"target", "stop"} = {}

ExitsAtFirstHit == \A t \in Trades : "exit" \in job.did[t] => ClosedAtFirst(job.rows[t])

\* What the session has looked at needs no second look.
Settled(row) ==
    /\ row.status = "pending" => Touched("limit") = {}
    /\ row.status = "open" => Touched("target") \cup Touched("stop") = {}

PricedAreSettled ==
    Replaying /\ ~job.failed =>
        \A t \in job.priced : Owner[t] \notin job.accounts \cup job.stale /\ t \notin job.todo =>
            Settled(NextRows[t])

IInv == /\ TypeOK /\ NothingMapped /\ GapIsPast /\ OnlyClosedSold /\ RowsCounted
        /\ TodoIsFresh /\ DeedsAreNew /\ BooksAgree /\ SessionBooks
        /\ ExitsAtFirstHit /\ PricedAreSettled

-----------------------------------------------------------------------------
(* Minutes and levels.                                                     *)

\* A set of numbers has a least one, which is its First.
LEMMA FirstIsLeast ==
    ASSUME NEW S \in SUBSET Nat, S # {}
    PROVE  First(S) \in S /\ \A n \in S : First(S) <= n
<1> DEFINE R == OpToRel(<, Nat)
<1>1. IsWellFoundedOn(R, Nat)
  BY NatLessThanWellFounded
<1>2. PICK m \in S : \A n \in S : ~ (<<n, m>> \in R)
  BY <1>1, WFMin
<1>3. \A n \in S : ~ (n < m)
  BY <1>2 DEF OpToRel
<1>4. \A n \in S : m <= n
  BY <1>3
<1> QED BY <1>4 DEF First

\* The clock is a number, and every minute up to it has its candle.
LEMMA MarketType ==
    ASSUME market \in Seq(Candle)
    PROVE  Now \in Nat /\ \A m \in 1 .. Now : market[m] \in Candle
BY DEF Now

\* The minutes of a level are those of the gap that have been.
LEMMA TouchedType ==
    ASSUME TypeOK, NEW level
    PROVE  /\ Touched(level) \in SUBSET Nat
           /\ \A m : m \in Touched(level) <=>
                 m \in Gap /\ m \in 1 .. Now /\ level \in market[m]
<1>1. Now \in Nat
  BY MarketType DEF TypeOK
<1> QED BY <1>1 DEF Touched

-----------------------------------------------------------------------------
(* What the replay makes of one row.                                       *)

\* An order that is not pending is left alone; a pending one that the gap
\* reached is filled or rejected.
LEMMA EntryOutcome ==
    ASSUME TypeOK, NEW row \in Row, NEW balance
    PROVE  LET new == ReplayEntry(row, balance)
           IN  /\ new \in Row
               /\ new.got = row.got
               /\ \/ new = row /\ (row.status = "pending" => Touched("limit") = {})
                  \/ row.status = "pending" /\ new.status \in {"rejected", "open"}
<1> DEFINE hits == Touched("limit")
<1>1. CASE row.status # "pending" \/ hits = {}
  BY <1>1 DEF ReplayEntry
<1>2. CASE row.status = "pending" /\ hits # {}
  <2>1. First(hits) \in Nat
    BY <1>2, TouchedType, FirstIsLeast
  <2>2. ReplayEntry(row, balance) = IF balance < Limit
             THEN [row EXCEPT !.status = "rejected"]
             ELSE [row EXCEPT !.status = "open", !.opened = First(hits)]
    BY <1>2 DEF ReplayEntry
  <2> QED BY <1>2, <2>1, <2>2 DEF Row
<1> QED BY <1>1, <1>2

\* A position that is not open is left alone; an open one whose levels the
\* gap reached is closed at the first of them.
LEMMA ExitOutcome ==
    ASSUME TypeOK, NEW row \in Row
    PROVE  LET new == ReplayExit(row)
           IN  /\ new \in Row
               /\ \/ /\ new = row
                     /\ row.status = "open" => Touched("target") \cup Touched("stop") = {}
                  \/ /\ row.status = "open" /\ new.status = "closed"
                     /\ ClosedAtFirst(new)
<1> DEFINE hits == Touched("target") \cup Touched("stop")
           m == First(hits)
           new == [row EXCEPT !.status = "closed", !.closed = m,
                              !.got = IF m \in Touched("target") THEN Target ELSE Stop]
<1>1. CASE row.status # "open" \/ hits = {}
  BY <1>1 DEF ReplayExit
<1>2. CASE row.status = "open" /\ hits # {}
  <2>1. hits \in SUBSET Nat
    BY TouchedType
  <2>2. m \in hits /\ (\A n \in hits : m <= n) /\ m \in Nat
    BY <1>2, <2>1, FirstIsLeast
  <2>3. ReplayExit(row) = new
    BY <1>2 DEF ReplayExit
  <2> HIDE DEF m, hits
  <2>4. /\ new \in Row /\ new.status = "closed" /\ new.closed = m
        /\ new.got = IF m \in Touched("target") THEN Target ELSE Stop
    BY <2>2 DEF Row
  <2>5. m \in Gap \cap (1 .. Now)
    BY <2>2, TouchedType DEF hits
  <2>6. m \in Touched("target") <=> "target" \in market[m]
    BY <2>5, TouchedType
  <2>7. \A n \in Gap : n < m => market[n] \cap {"target", "stop"} = {}
    <3> SUFFICES ASSUME NEW n \in Gap, n < m
                 PROVE  market[n] \cap {"target", "stop"} = {}
      OBVIOUS
    <3>1. Now \in Nat /\ job.start \in Nat /\ job.end \in Nat
      BY MarketType DEF TypeOK, Job
    <3>2. n \in 1 .. Now /\ ~(m <= n)
      BY <2>2, <2>5, <3>1 DEF Gap
    <3>3. n \notin hits
      BY <2>2, <3>2
    <3> QED BY <3>2, <3>3, TouchedType DEF hits
  <2>8. ClosedAtFirst(new)
    BY <2>4, <2>5, <2>6, <2>7 DEF ClosedAtFirst, Target, Stop
  <2> HIDE DEF new
  <2> QED BY <1>2, <2>3, <2>4, <2>8
<1> QED BY <1>1, <1>2

\* The row after both, and what is recorded of it.
LEMMA ReplayOutcome ==
    ASSUME TypeOK, NEW row \in Row, NEW balance
    PROVE  LET new == Replayed(row, balance)
               deeds == Did(row, new)
           IN  /\ new \in Row
               /\ Settled(new)
               /\ deeds \in SUBSET {"fill", "exit", "reject"}
               /\ deeds = {} => new = row
               /\ "fill" \in deeds => row.status = "pending" /\ new.status \in {"open", "closed"}
               /\ "exit" \in deeds => new.status = "closed" /\ ClosedAtFirst(new)
               /\ deeds # {} =>
                     \/ row.status = "pending" /\ new.status \in {"rejected", "open", "closed"}
                     \/ row.status = "open" /\ new.status = "closed"
               /\ "exit" \notin deeds => new.got = row.got
<1> DEFINE mid == ReplayEntry(row, balance)
           new == ReplayExit(mid)
<1>1. /\ mid \in Row
      /\ mid.got = row.got
      /\ \/ mid = row /\ (row.status = "pending" => Touched("limit") = {})
         \/ row.status = "pending" /\ mid.status \in {"rejected", "open"}
  BY EntryOutcome
<1> HIDE DEF mid
<1>2. /\ new \in Row
      /\ \/ /\ new = mid
            /\ mid.status = "open" => Touched("target") \cup Touched("stop") = {}
         \/ mid.status = "open" /\ new.status = "closed" /\ ClosedAtFirst(new)
  BY <1>1, ExitOutcome
<1> HIDE DEF new
<1>3. Replayed(row, balance) = new
  BY DEF Replayed, new, mid
<1> QED BY <1>1, <1>2, <1>3 DEF Did, Settled

-----------------------------------------------------------------------------
(* Types.                                                                  *)

LEMMA NoRowType == NoRow \in Row
BY DEF NoRow, Row

LEMMA NoJobType == NoJob \in Job /\ Finished \in Job /\ [NoJob EXCEPT !.pc = "waiting"] \in Job
<1>1. 0 \in 0 .. Retries
  BY NumbersAssumption
<1>2. /\ [t \in Trades |-> NoRow] \in [Trades -> Row]
      /\ [a \in Accounts |-> 0] \in [Accounts -> Int]
      /\ [t \in Trades |-> {}] \in [Trades -> SUBSET {"fill", "exit", "reject"}]
  BY NoRowType
<1>3. NoJob \in Job
  BY <1>1, <1>2 DEF NoJob, Job
<1> QED BY <1>3 DEF Job, Finished

\* A price is an integer, and so is what a replayed row costs and brings.
LEMMA AmountType ==
    ASSUME NEW row \in Row, NEW deeds
    PROVE  row.got \in Nat /\ Amount(deeds, row) \in Int
BY DEF Row, Amount, Limit, Stop, Target

LEMMA TypeInit == Init => TypeOK
<1> SUFFICES ASSUME Init PROVE TypeOK
  OBVIOUS
<1>1. market \in Seq(Candle) /\ Len(market) = 1
  BY DEF Init, Candle, Levels
<1> QED BY <1>1, NoRowType, NoJobType, NumbersAssumption DEF Init, TypeOK, Finished, Now

LEMMA LiveType ==
    ASSUME TypeOK, NEW t \in Trades, PlaceOrder(t) \/ LiveFill(t) \/ LiveExit(t)
    PROVE  TypeOK'
<1>1. Now \in Nat /\ Owner[t] \in Accounts /\ rows[t] \in Row /\ job \in Job
  BY MarketType, OwnerAssumption DEF TypeOK
<1>2. fills' \in [Trades -> Nat] /\ exits' \in [Trades -> Nat]
  <2>1. fills \in [Trades -> Nat] /\ exits \in [Trades -> Nat]
    BY DEF TypeOK
  <2>2. fills' \in {fills, [fills EXCEPT ![t] = @ + 1]}
    BY DEF PlaceOrder, LiveFill, LiveExit
  <2>3. exits' \in {exits, [exits EXCEPT ![t] = @ + 1]}
    BY DEF PlaceOrder, LiveFill, LiveExit
  <2> QED BY <2>1, <2>2, <2>3
<1>3. ASSUME NEW row \in Row, NEW amount \in Int, LiveStep(t, row, amount)
      PROVE  TypeOK'
  <2>1. job' \in Job
    BY <1>1, <1>3 DEF LiveStep, Job
  <2>2. rows' \in [Trades -> Row]
    BY <1>3 DEF LiveStep, TypeOK
  <2>3. cash' \in [Accounts -> Int]
    BY <1>1, <1>3 DEF LiveStep, TypeOK
  <2> QED BY <1>2, <1>3, <2>1, <2>2, <2>3 DEF LiveStep, TypeOK, Now
<1>4. CASE PlaceOrder(t)
  <2>1. [NoRow EXCEPT !.status = "pending", !.placed = Now] \in Row
    BY <1>1, NoRowType DEF Row
  <2> QED BY <1>3, <1>4, <2>1 DEF PlaceOrder
<1>5. CASE LiveFill(t)
  <2>1. [rows[t] EXCEPT !.status = "open", !.opened = Now] \in Row
    BY <1>1 DEF Row
  <2>2. -Limit \in Int
    BY DEF Limit
  <2> QED BY <1>3, <1>5, <2>1, <2>2 DEF LiveFill
<1>6. CASE LiveExit(t)
  <2>1. PICK price \in {Limit, Target, Stop} :
          LiveStep(t, [rows[t] EXCEPT !.status = "closed", !.closed = Now, !.got = price], price)
    BY <1>6 DEF LiveExit
  <2>2. [rows[t] EXCEPT !.status = "closed", !.closed = Now, !.got = price] \in Row
    BY <1>1 DEF Row
  <2>3. price \in Int
    BY DEF Limit, Target, Stop
  <2> QED BY <1>3, <2>1, <2>2, <2>3
<1> QED BY <1>4, <1>5, <1>6

LEMMA JobType ==
    ASSUME TypeOK,
           \/ Begin \/ Commit
           \/ \E a \in Accounts : NextAccount(a)
           \/ \E t \in Trades : ReplaySymbol(t) \/ SymbolFails(t)
    PROVE  TypeOK'
<1>1. Now \in Nat /\ job \in Job /\ lastShutdown \in Nat
  BY MarketType DEF TypeOK
<1>2. ASSUME NEW next \in Job, Quietly(next) PROVE TypeOK'
  BY <1>2 DEF Quietly, JobStep, TypeOK, Now
<1>3. CASE Begin
  <2>1. PICK priced \in SUBSET Trades :
          Quietly([job EXCEPT !.pc = "replaying", !.start = lastShutdown, !.end = Now,
                              !.priced = priced, !.accounts = Accounts, !.cash = cash])
    BY <1>3 DEF Begin
  <2>2. cash \in [Accounts -> Int]
    BY DEF TypeOK
  <2>3. [job EXCEPT !.pc = "replaying", !.start = lastShutdown, !.end = Now,
                    !.priced = priced, !.accounts = Accounts, !.cash = cash] \in Job
    BY <1>1, <2>2 DEF Job
  <2> QED BY <1>2, <2>1, <2>3
<1>4. CASE Commit
  <2>1. rows' \in [Trades -> Row]
    BY <1>1, <1>4 DEF Commit, Job, TypeOK
  <2>2. cash' \in [Accounts -> Int]
    BY <1>1, <1>4 DEF Commit, Job, TypeOK
  <2>3. fills' \in [Trades -> Nat] /\ exits' \in [Trades -> Nat]
    BY <1>4 DEF Commit, TypeOK
  <2>4. raced' \subseteq Accounts
    BY <1>1, <1>4 DEF Commit, Job, TypeOK
  <2> QED BY <1>4, <2>1, <2>2, <2>3, <2>4, NoJobType DEF Commit, JobStep, TypeOK, Now
<1>5. ASSUME NEW a \in Accounts, NextAccount(a) PROVE TypeOK'
  <2>1. PICK todo \in SUBSET Trades :
          Quietly([job EXCEPT
              !.accounts = @ \ {a}, !.todo = todo,
              !.rows = [t \in Trades |-> IF t \in todo THEN rows[t] ELSE job.rows[t]]])
    BY <1>1, <1>5 DEF NextAccount, Job
  <2>2. [t \in Trades |-> IF t \in todo THEN rows[t] ELSE job.rows[t]] \in [Trades -> Row]
    BY <1>1 DEF Job, TypeOK
  <2>3. [job EXCEPT !.accounts = @ \ {a}, !.todo = todo,
                    !.rows = [t \in Trades |-> IF t \in todo THEN rows[t] ELSE job.rows[t]]] \in Job
    BY <1>1, <2>2 DEF Job
  <2> QED BY <1>2, <2>1, <2>3
<1>6. ASSUME NEW t \in Trades, ReplaySymbol(t) PROVE TypeOK'
  <2> DEFINE row == Replayed(job.rows[t], job.cash[Owner[t]])
             deeds == Did(job.rows[t], row)
             newrows == [job.rows EXCEPT ![t] = row]
             newdid == [job.did EXCEPT ![t] = deeds]
             newcash == [job.cash EXCEPT ![Owner[t]] = @ + Amount(deeds, row)]
  <2>1. /\ job.rows \in [Trades -> Row] /\ job.cash \in [Accounts -> Int]
        /\ job.did \in [Trades -> SUBSET {"fill", "exit", "reject"}]
        /\ Owner[t] \in Accounts
    BY <1>1, OwnerAssumption DEF Job
  <2>2. row \in Row /\ deeds \in SUBSET {"fill", "exit", "reject"}
    BY <2>1, ReplayOutcome
  <2>3. Amount(deeds, row) \in Int
    BY <2>2, AmountType
  <2>4. Quietly([job EXCEPT !.todo = @ \ {t}, !.rows = newrows, !.did = newdid, !.cash = newcash])
    BY <1>1, <1>6 DEF ReplaySymbol, Job
  <2>5. newrows \in [Trades -> Row] /\ newdid \in [Trades -> SUBSET {"fill", "exit", "reject"}]
    BY <2>1, <2>2
  <2>6. newcash \in [Accounts -> Int]
    BY <2>1, <2>3
  <2> HIDE DEF newrows, newdid, newcash
  <2>7. [job EXCEPT !.todo = @ \ {t}, !.rows = newrows, !.did = newdid, !.cash = newcash] \in Job
    BY <1>1, <2>5, <2>6 DEF Job
  <2> QED BY <1>2, <2>4, <2>7
<1>7. ASSUME NEW t \in Trades, SymbolFails(t) PROVE TypeOK'
  <2> DEFINE newrows == [u \in Trades |-> IF u \in job.todo THEN rows[u] ELSE NoRow]
             newcash == [job.cash EXCEPT ![Owner[t]] = cash[Owner[t]]]
             newdid == [u \in Trades |-> {}]
             next == [job EXCEPT !.todo = @ \ {t}, !.failed = TRUE, !.did = newdid,
                                 !.rows = newrows, !.cash = newcash, !.stale = @ \ {Owner[t]}]
  <2>1. Owner[t] \in Accounts /\ cash \in [Accounts -> Int] /\ job.cash \in [Accounts -> Int]
    BY <1>1, OwnerAssumption DEF TypeOK, Job
  <2>2. newrows \in [Trades -> Row]
    BY NoRowType DEF TypeOK
  <2>3. newcash \in [Accounts -> Int] /\ newdid \in [Trades -> SUBSET {"fill", "exit", "reject"}]
    BY <2>1
  <2>4. Quietly(next)
    BY <1>1, <1>7 DEF SymbolFails, Job
  <2> HIDE DEF newrows, newcash, newdid
  <2>5. next \in Job
    BY <1>1, <2>2, <2>3 DEF Job
  <2> QED BY <1>2, <2>4, <2>5
<1> QED BY <1>3, <1>4, <1>5, <1>6, <1>7

\* The steps that end a session, or do not begin one.
Ended ==
    \/ CleanStop \/ Crash \/ Start \/ Skip \/ NoCandles \/ CommitFails \/ JobCrashes

LEMMA EndedType == ASSUME TypeOK, Ended PROVE TypeOK'
<1>1. Now \in Nat /\ job \in Job
  BY MarketType DEF TypeOK
<1>2. job' \in Job
  <2>1. CASE NoCandles
    <3>1. \/ job' = [job EXCEPT !.tries = @ + 1] /\ job.tries + 1 < Retries
          \/ job' = Finished
      BY <2>1 DEF NoCandles, Quietly, JobStep
    <3>2. job.tries + 1 < Retries => job.tries + 1 \in 0 .. Retries
      BY <1>1, NumbersAssumption DEF Job
    <3> QED BY <1>1, <3>1, <3>2, NoJobType DEF Job
  <2> QED BY <2>1, NoJobType DEF Ended, CleanStop, Crash, Start, Skip, CommitFails,
                                 JobCrashes, Quietly, JobStep
<1>3. lastShutdown' \in 0 .. Now' /\ server' \in {"up", "down"}
  BY <1>1 DEF Ended, CleanStop, Crash, Start, Skip, NoCandles, CommitFails,
              JobCrashes, Quietly, JobStep, Now, TypeOK
<1>4. UNCHANGED <<market, rows, cash, fills, exits, raced>>
  BY DEF Ended, CleanStop, Crash, Start, Skip, NoCandles, CommitFails,
         JobCrashes, Quietly, JobStep
<1> QED BY <1>2, <1>3, <1>4 DEF TypeOK

LEMMA MinuteType == ASSUME TypeOK, Minute PROVE TypeOK'
<1>1. PICK c \in Candle : market' = Append(market, c)
  BY DEF Minute
<1>2. market' \in Seq(Candle) /\ Len(market') = Len(market) + 1 /\ Len(market) \in Nat
  BY <1>1 DEF TypeOK
<1>3. lastShutdown' \in 0 .. Now'
  BY <1>2 DEF Minute, TypeOK, Now
<1> QED BY <1>2, <1>3 DEF Minute, TypeOK

LEMMA TypeStep == TypeOK /\ [Next]_vars => TypeOK'
<1> SUFFICES ASSUME TypeOK, [Next]_vars PROVE TypeOK'
  OBVIOUS
<1>1. CASE UNCHANGED vars
  BY <1>1 DEF vars, TypeOK, Now
<1> QED
  BY <1>1, LiveType, JobType, EndedType, MinuteType DEF Next, Ended

\* Rows, balances, minutes and the session always have their form: no order of
\* events makes the replay look at a minute that has not been, or fill twice
\* what it holds.
THEOREM ReplayTyped == Spec => []TypeOK
<1> QED BY TypeInit, TypeStep, PTL DEF Spec

-----------------------------------------------------------------------------
(* Balances.                                                               *)

LEMMA SumTerms ==
    ASSUME NEW a, NEW f \in [Trades -> Nat], NEW r \in [Trades -> Row]
    PROVE  /\ IsFiniteSet(Of(a))
           /\ [t \in Of(a) |-> Limit * f[t]] \in [Of(a) -> Nat]
           /\ [t \in Of(a) |-> r[t].got] \in [Of(a) -> Nat]
<1>1. IsFiniteSet(Of(a))
  BY FiniteAssumption, FS_Subset DEF Of
<1>2. \A t \in Of(a) : Limit * f[t] \in Nat
  BY DEF Of, Limit
<1>3. \A t \in Of(a) : r[t].got \in Nat
  BY AmountType DEF Of
<1> QED BY <1>1, <1>2, <1>3

\* Trades that were filled and closed alike make the same balance.
LEMMA BooksSame ==
    ASSUME NEW a, NEW balance, NEW f, NEW g, NEW r, NEW q,
           \A t \in Of(a) : g[t] = f[t] /\ q[t].got = r[t].got,
           Books(a, balance, f, r)
    PROVE  Books(a, balance, g, q)
<1>1. [t \in Of(a) |-> Limit * g[t]] = [t \in Of(a) |-> Limit * f[t]]
  OBVIOUS
<1>2. [t \in Of(a) |-> q[t].got] = [t \in Of(a) |-> r[t].got]
  OBVIOUS
<1> QED BY <1>1, <1>2 DEF Books

\* One trade changes the balance by what its fills cost and its exit brings.
LEMMA BooksUpdate ==
    ASSUME NEW a, NEW t \in Of(a), NEW balance \in Int,
           NEW f \in [Trades -> Nat], NEW g \in [Trades -> Nat],
           NEW r \in [Trades -> Row], NEW q \in [Trades -> Row],
           \A u \in Of(a) \ {t} : g[u] = f[u] /\ q[u].got = r[u].got,
           Books(a, balance, f, r)
    PROVE  Books(a, balance - Limit * (g[t] - f[t]) + (q[t].got - r[t].got), g, q)
<1> DEFINE F == [u \in Of(a) |-> Limit * f[u]]
           G == [u \in Of(a) |-> Limit * g[u]]
           R == [u \in Of(a) |-> r[u].got]
           Q == [u \in Of(a) |-> q[u].got]
<1>1. /\ IsFiniteSet(Of(a))
      /\ F \in [Of(a) -> Nat] /\ G \in [Of(a) -> Nat]
      /\ R \in [Of(a) -> Nat] /\ Q \in [Of(a) -> Nat]
  BY SumTerms
<1>2. /\ \A u \in Of(a) \ {t} : G[u] = F[u] /\ Q[u] = R[u]
      /\ F[t] = Limit * f[t] /\ G[t] = Limit * g[t] /\ R[t] = r[t].got /\ Q[t] = q[t].got
  OBVIOUS
<1>3. t \in Trades /\ f[t] \in Nat /\ g[t] \in Nat /\ r[t].got \in Nat /\ q[t].got \in Nat
  BY AmountType DEF Of
<1>4. balance = Capital - SumNat(F) + SumNat(R)
  BY DEF Books
<1> HIDE DEF F, G, R, Q
<1>5. SumNat(G) = SumNat(F) - F[t] + G[t] /\ SumNat(Q) = SumNat(R) - R[t] + Q[t]
  BY <1>1, <1>2, SumNatUpdate
<1>6. SumNat(F) \in Nat /\ SumNat(G) \in Nat /\ SumNat(R) \in Nat /\ SumNat(Q) \in Nat
  BY <1>1, SumNatType
<1>7. balance - Limit * (g[t] - f[t]) + (q[t].got - r[t].got) = Capital - SumNat(G) + SumNat(Q)
  BY <1>2, <1>3, <1>4, <1>5, <1>6, NumbersAssumption DEF Limit
<1> QED BY <1>7 DEF Books, G, Q

\* The same of the committed balances, across a step.
LEMMA BalanceUntouched ==
    ASSUME NEW a, Books(a, cash[a], fills, rows), cash'[a] = cash[a],
           \A t \in Of(a) : fills'[t] = fills[t] /\ rows'[t].got = rows[t].got
    PROVE  Books(a, cash'[a], fills', rows')
<1>1. Books(a, cash'[a], fills, rows)
  OBVIOUS
<1> QED BY <1>1, BooksSame

LEMMA BalanceUpdated ==
    ASSUME NEW a, NEW t \in Of(a), Books(a, cash[a], fills, rows),
           cash[a] \in Int, cash'[a] \in Int,
           fills \in [Trades -> Nat], fills' \in [Trades -> Nat],
           rows \in [Trades -> Row], rows' \in [Trades -> Row],
           \A u \in Of(a) \ {t} : fills'[u] = fills[u] /\ rows'[u].got = rows[u].got,
           cash'[a] = cash[a] - Limit * (fills'[t] - fills[t]) + (rows'[t].got - rows[t].got)
    PROVE  Books(a, cash'[a], fills', rows')
BY BooksUpdate

\* The same of the balance the session would leave.
LEMMA SessionUpdated ==
    ASSUME NEW a, NEW t \in Of(a), Books(a, job.cash[a], NextFills, NextRows),
           job.cash[a] \in Int, job'.cash[a] \in Int,
           NextFills \in [Trades -> Nat], NextFills' \in [Trades -> Nat],
           NextRows \in [Trades -> Row], NextRows' \in [Trades -> Row],
           \A u \in Of(a) \ {t} : NextFills'[u] = NextFills[u] /\ NextRows'[u].got = NextRows[u].got,
           job'.cash[a] = job.cash[a] - Limit * (NextFills'[t] - NextFills[t])
                                      + (NextRows'[t].got - NextRows[t].got)
    PROVE  Books(a, job'.cash[a], NextFills', NextRows')
<1> DEFINE new == job.cash[a] - Limit * (NextFills'[t] - NextFills[t])
                                + (NextRows'[t].got - NextRows[t].got)
<1>1. Books(a, new, NextFills', NextRows')
  BY BooksUpdate
<1> QED BY <1>1

-----------------------------------------------------------------------------
(* The past of the market.                                                 *)

\* A step that leaves the market and the gap alone leaves what depends on them.
LEMMA GapKept ==
    ASSUME market' = market, job'.start = job.start, job'.end = job.end
    PROVE  /\ Gap' = Gap /\ Now' = Now
           /\ \A level : Touched(level)' = Touched(level)
           /\ \A row : ClosedAtFirst(row) => ClosedAtFirst(row)'
           /\ \A row : Settled(row) => Settled(row)'
<1>1. Gap' = Gap /\ Now' = Now
  BY DEF Gap, Now
<1>2. \A level : Touched(level)' = Touched(level)
  BY <1>1 DEF Touched
<1>3. \A row : ClosedAtFirst(row) => ClosedAtFirst(row)'
  BY <1>1 DEF ClosedAtFirst
<1>4. \A row : Settled(row) => Settled(row)'
  BY <1>2 DEF Settled
<1> QED BY <1>1, <1>2, <1>3, <1>4

\* A new minute is no part of a gap that is past.
LEMMA MinuteAfterGap ==
    ASSUME TypeOK, Minute, job.end <= Now
    PROVE  /\ \A level : Touched(level)' = Touched(level)
           /\ \A row : ClosedAtFirst(row) => ClosedAtFirst(row)'
           /\ \A row : Settled(row) => Settled(row)'
<1>1. PICK c \in Candle : market' = Append(market, c)
  BY DEF Minute
<1>2. /\ Now \in Nat /\ Now' = Now + 1
      /\ \A m \in 1 .. Now : market'[m] = market[m]
  BY <1>1 DEF TypeOK, Now
<1>3. Gap' = Gap /\ job.start \in Nat /\ job.end \in Nat
  BY DEF Minute, Gap, TypeOK, Job
<1>4. \A m \in Gap : m \in 1 .. Now /\ m \in 1 .. Now'
  BY <1>2, <1>3 DEF Gap
<1>5. \A level : Touched(level)' = Touched(level)
  BY <1>2, <1>3, <1>4 DEF Touched
<1>6. \A row : ClosedAtFirst(row) => ClosedAtFirst(row)'
  BY <1>2, <1>3, <1>4 DEF ClosedAtFirst
<1>7. \A row : Settled(row) => Settled(row)'
  BY <1>5 DEF Settled
<1> QED BY <1>5, <1>6, <1>7

-----------------------------------------------------------------------------
(* The invariant, step by step.                                            *)

\* The conjuncts beside the types.
Rest == /\ NothingMapped /\ GapIsPast /\ OnlyClosedSold /\ RowsCounted
        /\ TodoIsFresh /\ DeedsAreNew /\ BooksAgree /\ SessionBooks
        /\ ExitsAtFirstHit /\ PricedAreSettled

LEMMA RestInit == Init => Rest
<1> SUFFICES ASSUME Init PROVE Rest
  OBVIOUS
<1>1. /\ job.pc = "done" /\ job.todo = {} /\ job.accounts = {} /\ job.stale = {} /\ ~job.failed
      /\ \A t \in Trades : job.did[t] = {} /\ job.rows[t] = NoRow
  BY DEF Init, NoJob
<1>2. /\ \A t \in Trades : rows[t] = NoRow /\ fills[t] = 0 /\ exits[t] = 0
      /\ \A a \in Accounts : cash[a] = Capital
  BY DEF Init
<1>3. BooksAgree
  <2> SUFFICES ASSUME NEW a \in Accounts
               PROVE  cash[a] = Capital - SumNat([t \in Of(a) |-> Limit * fills[t]])
                                        + SumNat([t \in Of(a) |-> rows[t].got])
    BY DEF BooksAgree
  <2>1. SumNat([t \in Of(a) |-> Limit * fills[t]]) = 0
    <3>1. [t \in Of(a) |-> Limit * fills[t]] \in [Of(a) -> Nat]
      BY <1>2 DEF Of, Limit
    <3>2. \A t \in Of(a) : [u \in Of(a) |-> Limit * fills[u]][t] = 0
      BY <1>2 DEF Of, Limit
    <3> QED BY <3>1, <3>2, SumNatZero
  <2>2. SumNat([t \in Of(a) |-> rows[t].got]) = 0
    <3>1. [t \in Of(a) |-> rows[t].got] \in [Of(a) -> Nat]
      BY <1>2 DEF Of, NoRow
    <3>2. \A t \in Of(a) : [u \in Of(a) |-> rows[u].got][t] = 0
      BY <1>2 DEF Of, NoRow
    <3> QED BY <3>1, <3>2, SumNatZero
  <2> QED BY <1>2, <2>1, <2>2, NumbersAssumption
<1>4. RowsCounted /\ OnlyClosedSold
  BY <1>1, <1>2 DEF RowsCounted, OnlyClosedSold, NoRow
<1> QED
  BY <1>1, <1>3, <1>4 DEF Rest, NothingMapped, GapIsPast, TodoIsFresh, DeedsAreNew, SessionBooks,
     ExitsAtFirstHit, PricedAreSettled, Replaying

\* A session that ends, or has not begun, holds nothing.
LEMMA EndedFields ==
    ASSUME IInv, Ended
    PROVE  /\ UNCHANGED <<market, rows, cash, fills, exits, raced>>
           /\ job'.pc # "replaying" /\ job'.todo = {} /\ job'.accounts = {}
           /\ job'.stale = {} /\ ~job'.failed
           /\ \A t \in Trades : job'.did[t] = {} /\ job'.rows[t] \in {NoRow, job.rows[t]}
<1>1. UNCHANGED <<market, rows, cash, fills, exits, raced>>
  BY DEF Ended, CleanStop, Crash, Start, Skip, NoCandles, CommitFails,
         JobCrashes, Quietly, JobStep
<1>2. \/ job' = NoJob \/ job' = Finished \/ job' = [NoJob EXCEPT !.pc = "waiting"]
      \/ job.pc = "waiting" /\ job' = [job EXCEPT !.tries = @ + 1]
  BY DEF Ended, CleanStop, Crash, Start, Skip, NoCandles, CommitFails,
         JobCrashes, Quietly, JobStep
<1>3. CASE \/ job' = NoJob \/ job' = Finished \/ job' = [NoJob EXCEPT !.pc = "waiting"]
  BY <1>1, <1>3 DEF NoJob, Finished
<1>4. CASE job.pc = "waiting" /\ job' = [job EXCEPT !.tries = @ + 1]
  <2>1. job \in Job
    BY DEF IInv, TypeOK
  <2>2. /\ job'.pc = job.pc /\ job'.todo = job.todo /\ job'.accounts = job.accounts
        /\ job'.stale = job.stale /\ job'.failed = job.failed /\ job'.did = job.did
        /\ job'.rows = job.rows
    BY <1>4, <2>1 DEF Job
  <2> QED BY <1>1, <1>4, <2>2 DEF IInv, NothingMapped, Replaying
<1> QED BY <1>2, <1>3, <1>4

LEMMA EndedKeeps == ASSUME IInv, Ended PROVE Rest'
<1>1. /\ UNCHANGED <<market, rows, cash, fills, exits, raced>>
      /\ job'.pc # "replaying" /\ job'.todo = {} /\ job'.accounts = {}
      /\ job'.stale = {} /\ ~job'.failed
      /\ \A t \in Trades : job'.did[t] = {} /\ job'.rows[t] \in {NoRow, job.rows[t]}
  BY EndedFields
<1>2. OnlyClosedSold'
  BY <1>1 DEF IInv, OnlyClosedSold, NoRow
<1>3. RowsCounted' /\ BooksAgree'
  BY <1>1 DEF IInv, RowsCounted, BooksAgree
<1> QED
  BY <1>1, <1>2, <1>3 DEF Rest, NothingMapped, GapIsPast, TodoIsFresh, DeedsAreNew, SessionBooks,
     ExitsAtFirstHit, PricedAreSettled, Replaying

LEMMA MinuteKeeps == ASSUME IInv, Minute PROVE Rest'
<1>1. UNCHANGED <<rows, cash, job, fills, exits, raced>>
  BY DEF Minute
<1>2. PICK c \in Candle : market' = Append(market, c)
  BY DEF Minute
<1>3. Now \in Nat /\ Now' = Now + 1
  BY <1>2 DEF IInv, TypeOK, Now
<1>4. GapIsPast'
  <2>1. job.end \in Nat
    BY DEF IInv, TypeOK, Job
  <2> QED BY <1>1, <1>3, <2>1 DEF IInv, GapIsPast, Replaying
<1>5. ExitsAtFirstHit'
  <2> SUFFICES ASSUME NEW t \in Trades, "exit" \in job.did[t] PROVE ClosedAtFirst(job.rows[t])'
    BY <1>1 DEF ExitsAtFirstHit
  <2>1. Replaying
    BY DEF IInv, NothingMapped
  <2>2. job.end <= Now /\ ClosedAtFirst(job.rows[t])
    BY <2>1 DEF IInv, GapIsPast, ExitsAtFirstHit
  <2> QED BY <1>1, <2>2, MinuteAfterGap DEF IInv
<1>6. PricedAreSettled'
  <2> SUFFICES ASSUME Replaying, ~job.failed, NEW t \in job.priced,
                      Owner[t] \notin job.accounts \cup job.stale, t \notin job.todo
               PROVE  Settled(NextRows[t])'
    BY <1>1 DEF PricedAreSettled, Replaying
  <2>1. job.end <= Now /\ Settled(NextRows[t])
    BY DEF IInv, GapIsPast, PricedAreSettled
  <2>2. NextRows' = NextRows
    BY <1>1 DEF NextRows
  <2> QED BY <2>1, <2>2, MinuteAfterGap DEF IInv
<1>7. SessionBooks'
  BY <1>1 DEF IInv, SessionBooks, Replaying, InUse, NextFills, NextRows
<1> QED
  BY <1>1, <1>4, <1>5, <1>6, <1>7 DEF IInv, Rest, NothingMapped, OnlyClosedSold, RowsCounted,
     TodoIsFresh, DeedsAreNew, BooksAgree, Replaying

\* A live step makes its account stale, and no claim about a session speaks
\* of a stale account.
LEMMA LiveKeeps ==
    ASSUME IInv, TypeOK', NEW t \in Trades, NEW row \in Row, NEW amount \in Int,
           NEW df \in {0, 1}, NEW de \in {0, 1},
           LiveStep(t, row, amount),
           fills' = [fills EXCEPT ![t] = @ + df],
           exits' = [exits EXCEPT ![t] = @ + de],
           row.status # "closed" => row.got = 0,
           Owner[t] \notin raced =>
               /\ fills[t] + df = IF row.status \in {"open", "closed"} THEN 1 ELSE 0
               /\ exits[t] + de = IF row.status = "closed" THEN 1 ELSE 0,
           amount = row.got - rows[t].got - Limit * df
    PROVE  Rest'
<1> DEFINE o == Owner[t]
<1>1. /\ o \in Accounts /\ job \in Job /\ rows \in [Trades -> Row] /\ rows' \in [Trades -> Row]
      /\ cash \in [Accounts -> Int] /\ cash' \in [Accounts -> Int]
      /\ fills \in [Trades -> Nat] /\ fills' \in [Trades -> Nat] /\ exits \in [Trades -> Nat]
  BY OwnerAssumption DEF IInv, TypeOK
<1>2. /\ market' = market /\ raced' = raced
      /\ rows' = [rows EXCEPT ![t] = row]
      /\ cash' = [cash EXCEPT ![o] = @ + amount]
  BY DEF LiveStep
<1>3. /\ job'.pc = job.pc /\ job'.todo = job.todo /\ job'.accounts = job.accounts
      /\ job'.failed = job.failed /\ job'.did = job.did /\ job'.rows = job.rows
      /\ job'.start = job.start /\ job'.end = job.end /\ job'.priced = job.priced
      /\ job'.cash = job.cash
      /\ job.stale \subseteq job'.stale
      /\ Replaying => o \in job'.stale
      /\ ~Replaying => job'.stale = job.stale
  BY <1>1 DEF LiveStep, Replaying, Job
<1>4. \A u \in Trades : u # t => rows'[u] = rows[u] /\ fills'[u] = fills[u] /\ exits'[u] = exits[u]
  BY <1>1, <1>2
<1>5. rows'[t] = row /\ fills'[t] = fills[t] + df /\ exits'[t] = exits[t] + de
  BY <1>1, <1>2
<1>6. NothingMapped' /\ GapIsPast'
  BY <1>2, <1>3 DEF IInv, NothingMapped, GapIsPast, Replaying, Now
<1>7. OnlyClosedSold'
  BY <1>3, <1>4, <1>5 DEF IInv, OnlyClosedSold
<1>8. RowsCounted'
  BY <1>2, <1>4, <1>5 DEF IInv, RowsCounted
<1>9. \A u \in Trades : Replaying /\ Owner[u] \notin job'.stale =>
         u # t /\ Owner[u] \notin job.stale
  BY <1>3
<1>10. TodoIsFresh'
  <2>1. job.todo # {} => Replaying
    BY DEF IInv, NothingMapped
  <2>2. job.todo \subseteq Trades
    BY <1>1 DEF Job
  <2> QED BY <1>3, <1>4, <1>9, <2>1, <2>2 DEF IInv, TodoIsFresh
<1>11. DeedsAreNew'
  <2> SUFFICES ASSUME NEW u \in Trades, job.did[u] # {}, Owner[u] \notin job'.stale
               PROVE  /\ job.did[u] = Did(rows'[u], job.rows[u])
                      /\ \/ rows'[u].status = "pending" /\ job.rows[u].status \in {"rejected", "open", "closed"}
                         \/ rows'[u].status = "open" /\ job.rows[u].status = "closed"
    BY <1>3 DEF DeedsAreNew, Did
  <2>1. Replaying
    BY DEF IInv, NothingMapped
  <2>2. rows'[u] = rows[u] /\ Owner[u] \notin job.stale
    BY <1>4, <1>9, <2>1
  <2> QED BY <2>2 DEF IInv, DeedsAreNew
<1>12. BooksAgree'
  <2> SUFFICES ASSUME NEW a \in Accounts \ raced PROVE Books(a, cash'[a], fills', rows')
    BY <1>2 DEF BooksAgree, Books
  <2>1. Books(a, cash[a], fills, rows)
    BY DEF IInv, BooksAgree, Books
  <2>2. CASE a = o
    <3>1. t \in Of(a)
      BY <2>2 DEF Of
    <3>2. cash[a] \in Int /\ cash'[a] \in Int /\ cash'[a] = cash[a] + amount
      BY <1>1, <1>2, <2>2
    <3>3. \A u \in Of(a) \ {t} : fills'[u] = fills[u] /\ rows'[u].got = rows[u].got
      BY <1>4 DEF Of
    <3>4. rows[t].got \in Nat /\ row.got \in Nat /\ fills[t] \in Nat
      BY <1>1, AmountType
    <3>5. fills'[t] - fills[t] = df /\ rows'[t].got = row.got /\ df \in Int
      BY <1>5, <3>4
    <3>6. amount = rows'[t].got - rows[t].got - Limit * (fills'[t] - fills[t])
      BY <3>5
    <3>7. Limit * (fills'[t] - fills[t]) \in Int
      BY <3>5 DEF Limit
    <3>8. cash'[a] = cash[a] - Limit * (fills'[t] - fills[t]) + (rows'[t].got - rows[t].got)
      BY <3>2, <3>4, <3>5, <3>6, <3>7
    <3> QED BY <1>1, <2>1, <3>1, <3>2, <3>3, <3>8, BalanceUpdated
  <2>3. CASE a # o
    <3>1. cash'[a] = cash[a]
      BY <1>1, <1>2, <2>3
    <3>2. \A u \in Of(a) : fills'[u] = fills[u] /\ rows'[u].got = rows[u].got
      BY <1>4, <2>3 DEF Of
    <3> QED BY <2>1, <3>1, <3>2, BalanceUntouched
  <2> QED BY <2>2, <2>3
<1>13. SessionBooks'
  <2> SUFFICES ASSUME Replaying, NEW a \in Accounts, a \notin raced, a \notin job'.stale, InUse(a)
               PROVE  Books(a, job.cash[a], NextFills', NextRows')
    BY <1>2, <1>3 DEF SessionBooks, Replaying, InUse, Books
  <2>1. Books(a, job.cash[a], NextFills, NextRows)
    BY <1>3 DEF IInv, SessionBooks
  <2>2. \A u \in Of(a) : NextFills'[u] = NextFills[u] /\ NextRows'[u].got = NextRows[u].got
    BY <1>3, <1>4, <1>9 DEF Of, NextFills, NextRows
  <2> QED BY <2>1, <2>2, BooksSame
<1>14. ExitsAtFirstHit'
  BY <1>2, <1>3, GapKept DEF IInv, ExitsAtFirstHit
<1>15. PricedAreSettled'
  <2> SUFFICES ASSUME Replaying, ~job.failed, NEW u \in job.priced,
                      Owner[u] \notin job.accounts, Owner[u] \notin job'.stale, u \notin job.todo
               PROVE  Settled(NextRows[u])'
    BY <1>3 DEF PricedAreSettled, Replaying
  <2>1. u \in Trades
    BY <1>1 DEF Job
  <2>2. NextRows'[u] = NextRows[u]
    BY <1>3, <1>4, <1>9, <2>1 DEF NextRows
  <2>3. Settled(NextRows[u])
    BY <1>9, <2>1 DEF IInv, PricedAreSettled
  <2> QED BY <1>2, <1>3, <2>2, <2>3, GapKept
<1> QED
  BY <1>6, <1>7, <1>8, <1>10, <1>11, <1>12, <1>13, <1>14, <1>15 DEF Rest

LEMMA LiveStepsKeep ==
    ASSUME IInv, TypeOK', NEW t \in Trades, PlaceOrder(t) \/ LiveFill(t) \/ LiveExit(t)
    PROVE  Rest'
<1>1. /\ rows[t] \in Row /\ fills \in [Trades -> Nat] /\ exits \in [Trades -> Nat]
      /\ Now \in Nat
  BY MarketType DEF IInv, TypeOK
<1>2. /\ rows[t].status # "closed" => rows[t].got = 0
      /\ Owner[t] \notin raced =>
           /\ fills[t] = IF rows[t].status \in {"open", "closed"} THEN 1 ELSE 0
           /\ exits[t] = IF rows[t].status = "closed" THEN 1 ELSE 0
  BY DEF IInv, OnlyClosedSold, RowsCounted
<1>3. fills = [fills EXCEPT ![t] = @ + 0] /\ exits = [exits EXCEPT ![t] = @ + 0]
  BY <1>1
<1>4. CASE PlaceOrder(t)
  <2> DEFINE row == [NoRow EXCEPT !.status = "pending", !.placed = Now]
  <2>1. row \in Row /\ row.status = "pending" /\ row.got = 0
    BY <1>1, NoRowType DEF Row, NoRow
  <2>2. LiveStep(t, row, 0) /\ rows[t].status = "none" /\ fills' = fills /\ exits' = exits
    BY <1>4 DEF PlaceOrder
  <2> HIDE DEF row
  <2>3. 0 = row.got - rows[t].got - Limit * 0
    BY <1>2, <2>1, <2>2 DEF Limit
  <2> QED BY <1>1, <1>2, <1>3, <2>1, <2>2, <2>3, LiveKeeps
<1>5. CASE LiveFill(t)
  <2> DEFINE row == [rows[t] EXCEPT !.status = "open", !.opened = Now]
  <2>1. row \in Row /\ row.status = "open" /\ row.got = rows[t].got
    BY <1>1 DEF Row
  <2>2. /\ LiveStep(t, row, -Limit) /\ rows[t].status = "pending" /\ exits' = exits
        /\ fills' = [fills EXCEPT ![t] = @ + 1]
    BY <1>5 DEF LiveFill
  <2> HIDE DEF row
  <2>3. -Limit \in Int /\ -Limit = row.got - rows[t].got - Limit * 1
    BY <1>2, <2>1, <2>2 DEF Limit
  <2>4. exits' = [exits EXCEPT ![t] = @ + 0] /\ (row.status # "closed" => row.got = 0)
    BY <1>2, <1>3, <2>1, <2>2
  <2>5. Owner[t] \notin raced =>
          /\ fills[t] + 1 = IF row.status \in {"open", "closed"} THEN 1 ELSE 0
          /\ exits[t] + 0 = IF row.status = "closed" THEN 1 ELSE 0
    BY <1>2, <2>1, <2>2
  <2> QED BY <2>1, <2>2, <2>3, <2>4, <2>5, LiveKeeps
<1>6. CASE LiveExit(t)
  <2>1. PICK price \in {Limit, Target, Stop} :
          LiveStep(t, [rows[t] EXCEPT !.status = "closed", !.closed = Now, !.got = price], price)
    BY <1>6 DEF LiveExit
  <2> DEFINE row == [rows[t] EXCEPT !.status = "closed", !.closed = Now, !.got = price]
  <2>2. row \in Row /\ row.status = "closed" /\ row.got = price
    BY <1>1 DEF Row
  <2>3. /\ LiveStep(t, row, price) /\ rows[t].status = "open" /\ fills' = fills
        /\ exits' = [exits EXCEPT ![t] = @ + 1]
    BY <1>6, <2>1 DEF LiveExit
  <2> HIDE DEF row
  <2>4. price \in Int /\ price = row.got - rows[t].got - Limit * 0
    BY <1>2, <2>2, <2>3 DEF Limit, Target, Stop
  <2>5. fills' = [fills EXCEPT ![t] = @ + 0] /\ (row.status # "closed" => row.got = 0)
    BY <1>3, <2>2, <2>3
  <2>6. Owner[t] \notin raced =>
          /\ fills[t] + 0 = IF row.status \in {"open", "closed"} THEN 1 ELSE 0
          /\ exits[t] + 1 = IF row.status = "closed" THEN 1 ELSE 0
    BY <1>2, <2>2, <2>3
  <2> QED BY <2>2, <2>3, <2>4, <2>5, <2>6, LiveKeeps
<1> QED BY <1>4, <1>5, <1>6

\* A step of the session that does not commit leaves rows and balances alone.
LEMMA QuietKeeps ==
    ASSUME IInv, NEW next, Quietly(next)
    PROVE  /\ UNCHANGED <<market, rows, cash, fills, exits, raced>>
           /\ job' = next
           /\ RowsCounted' /\ BooksAgree'
<1>1. UNCHANGED <<market, rows, cash, fills, exits, raced>> /\ job' = next
  BY DEF Quietly, JobStep
<1> QED BY <1>1 DEF IInv, RowsCounted, BooksAgree

LEMMA BeginKeeps == ASSUME IInv, TypeOK', Begin PROVE Rest'
<1>1. PICK priced \in SUBSET Trades :
        Quietly([job EXCEPT !.pc = "replaying", !.start = lastShutdown, !.end = Now,
                            !.priced = priced, !.accounts = Accounts, !.cash = cash])
  BY DEF Begin
<1>2. /\ UNCHANGED <<market, rows, cash, fills, exits, raced>>
      /\ job' = [job EXCEPT !.pc = "replaying", !.start = lastShutdown, !.end = Now,
                            !.priced = priced, !.accounts = Accounts, !.cash = cash]
      /\ RowsCounted' /\ BooksAgree'
  BY <1>1, QuietKeeps
<1>3. job \in Job /\ Now \in Nat /\ fills \in [Trades -> Nat]
  BY MarketType DEF IInv, TypeOK
<1>4. /\ job'.pc = "replaying" /\ job'.end = Now /\ job'.accounts = Accounts
      /\ job'.cash = cash /\ job'.priced = priced
      /\ job'.todo = job.todo /\ job'.rows = job.rows /\ job'.did = job.did
      /\ job'.stale = job.stale /\ job'.failed = job.failed
  BY <1>2, <1>3 DEF Job
<1>5. /\ job.todo = {} /\ job.stale = {} /\ ~job.failed
      /\ \A t \in Trades : job.did[t] = {}
  BY DEF Begin, IInv, NothingMapped, Replaying
<1>6. NothingMapped' /\ GapIsPast'
  BY <1>2, <1>3, <1>4 DEF NothingMapped, GapIsPast, Replaying, Now
<1>7. OnlyClosedSold' /\ TodoIsFresh' /\ DeedsAreNew' /\ ExitsAtFirstHit'
  BY <1>2, <1>4, <1>5 DEF IInv, OnlyClosedSold, TodoIsFresh, DeedsAreNew, ExitsAtFirstHit
<1>8. SessionBooks'
  <2> SUFFICES ASSUME NEW a \in Accounts, a \notin raced
               PROVE  Books(a, cash[a], NextFills', NextRows')
    BY <1>2, <1>4 DEF SessionBooks, Books
  <2>1. Books(a, cash[a], fills, rows)
    BY DEF IInv, BooksAgree, Books
  <2>2. \A t \in Of(a) : NextFills'[t] = fills[t] /\ NextRows'[t].got = rows[t].got
    BY <1>2, <1>3, <1>4, <1>5 DEF Of, NextFills, NextRows
  <2> QED BY <2>1, <2>2, BooksSame
<1>9. PricedAreSettled'
  BY <1>4, OwnerAssumption DEF PricedAreSettled
<1> QED BY <1>2, <1>6, <1>7, <1>8, <1>9 DEF Rest

LEMMA NextAccountKeeps == ASSUME IInv, TypeOK', NEW a \in Accounts, NextAccount(a) PROVE Rest'
<1> DEFINE todo == IF job.failed THEN {} ELSE {t \in Of(a) \cap job.priced : Replayable(t)}
<1>1. /\ job.pc = "replaying" /\ job.todo = {} /\ a \in job.accounts
      /\ Quietly([job EXCEPT
              !.accounts = @ \ {a}, !.todo = todo,
              !.rows = [t \in Trades |-> IF t \in todo THEN rows[t] ELSE job.rows[t]]])
  BY DEF NextAccount
<1>2. /\ UNCHANGED <<market, rows, cash, fills, exits, raced>>
      /\ job' = [job EXCEPT
              !.accounts = @ \ {a}, !.todo = todo,
              !.rows = [t \in Trades |-> IF t \in todo THEN rows[t] ELSE job.rows[t]]]
      /\ RowsCounted' /\ BooksAgree'
  BY <1>1, QuietKeeps
<1>3. job \in Job /\ rows \in [Trades -> Row] /\ fills \in [Trades -> Nat]
  BY DEF IInv, TypeOK
<1>4. /\ job'.pc = job.pc /\ job'.accounts = job.accounts \ {a} /\ job'.todo = todo
      /\ job'.start = job.start /\ job'.end = job.end /\ job'.priced = job.priced
      /\ job'.did = job.did /\ job'.cash = job.cash
      /\ job'.stale = job.stale /\ job'.failed = job.failed
      /\ job'.rows = [t \in Trades |-> IF t \in todo THEN rows[t] ELSE job.rows[t]]
  BY <1>2, <1>3 DEF Job
<1>5. \A t \in todo : t \in Trades /\ Owner[t] = a /\ job'.rows[t] = rows[t] /\ ~job.failed
  BY <1>4 DEF Of
<1>6. \A t \in Trades : t \notin todo => job'.rows[t] = job.rows[t]
  BY <1>4
<1>7. \A t \in Trades : Owner[t] = a => job.did[t] = {}
  BY <1>1 DEF IInv, TodoIsFresh
<1>8. \A t \in Trades : Owner[t] = a /\ ~job.failed /\ t \in job.priced /\ t \notin todo => ~Replayable(t)
  BY DEF Of
<1> HIDE DEF todo
<1>9. NothingMapped' /\ GapIsPast'
  BY <1>1, <1>2, <1>4 DEF IInv, NothingMapped, GapIsPast, Replaying, Now
<1>10. OnlyClosedSold'
  BY <1>2, <1>5, <1>6 DEF IInv, OnlyClosedSold
<1>11. TodoIsFresh'
  BY <1>2, <1>4, <1>5, <1>7 DEF IInv, TodoIsFresh
<1>12. \A t \in Trades : job.did[t] # {} => job'.rows[t] = job.rows[t]
  BY <1>5, <1>6, <1>7
<1>13. DeedsAreNew'
  BY <1>2, <1>4, <1>12 DEF IInv, DeedsAreNew
<1>14. NextFills' = NextFills /\ NextRows' = NextRows
  BY <1>2, <1>4, <1>12 DEF NextFills, NextRows
<1>15. SessionBooks'
  <2> SUFFICES ASSUME NEW b \in Accounts, b \notin raced, b \notin job.stale, InUse(b)'
               PROVE  Books(b, job.cash[b], NextFills, NextRows)
    BY <1>2, <1>4, <1>14 DEF SessionBooks, Books
  <2>1. InUse(b)
    BY <1>1, <1>4, <1>5 DEF InUse, Of
  <2> QED BY <1>1, <2>1 DEF IInv, SessionBooks, Replaying
<1>16. ExitsAtFirstHit'
  <2> SUFFICES ASSUME NEW t \in Trades, "exit" \in job.did[t] PROVE ClosedAtFirst(job.rows[t])'
    BY <1>4 DEF ExitsAtFirstHit
  <2>1. job'.rows[t] = job.rows[t] /\ ClosedAtFirst(job.rows[t])
    BY <1>12 DEF IInv, ExitsAtFirstHit
  <2> QED BY <1>2, <1>4, <2>1, GapKept
<1>17. PricedAreSettled'
  <2> SUFFICES ASSUME ~job.failed, NEW t \in job.priced, t \in Trades,
                      Owner[t] \notin job.accounts \ {a}, Owner[t] \notin job.stale, t \notin todo
               PROVE  Settled(NextRows[t])'
    BY <1>3, <1>4 DEF PricedAreSettled, Job
  <2>1. Settled(NextRows[t])
    <3>1. CASE Owner[t] = a
      <4>1. NextRows[t] = rows[t] /\ ~Replayable(t)
        BY <1>7, <1>8, <3>1 DEF NextRows
      <4> QED BY <4>1 DEF Settled, Replayable
    <3>2. CASE Owner[t] # a
      BY <1>1, <3>2 DEF IInv, PricedAreSettled, Replaying
    <3> QED BY <3>1, <3>2
  <2> QED BY <1>2, <1>4, <1>14, <2>1, GapKept
<1> QED
  BY <1>2, <1>9, <1>10, <1>11, <1>13, <1>15, <1>16, <1>17 DEF Rest

LEMMA ReplaySymbolKeeps == ASSUME IInv, TypeOK', NEW t \in Trades, ReplaySymbol(t) PROVE Rest'
<1> DEFINE o == Owner[t]
           old == job.rows[t]
           row == Replayed(old, job.cash[o])
           deeds == Did(old, row)
           newcash == [job.cash EXCEPT ![o] = @ + Amount(deeds, row)]
<1>1. /\ job.pc = "replaying" /\ t \in job.todo
      /\ Quietly([job EXCEPT !.todo = @ \ {t}, !.rows[t] = row, !.did[t] = deeds,
                             !.cash[o] = @ + Amount(deeds, row)])
  BY DEF ReplaySymbol
<1>2. /\ UNCHANGED <<market, rows, cash, fills, exits, raced>>
      /\ job' = [job EXCEPT !.todo = @ \ {t}, !.rows[t] = row, !.did[t] = deeds,
                            !.cash[o] = @ + Amount(deeds, row)]
      /\ RowsCounted' /\ BooksAgree'
  BY <1>1, QuietKeeps
<1>3. /\ job \in Job /\ job.rows \in [Trades -> Row] /\ job.cash \in [Accounts -> Int]
      /\ job.did \in [Trades -> SUBSET {"fill", "exit", "reject"}]
      /\ rows \in [Trades -> Row] /\ fills \in [Trades -> Nat]
      /\ o \in Accounts /\ old \in Row
  BY OwnerAssumption DEF IInv, TypeOK, Job
<1>4. /\ row \in Row
      /\ Settled(row)
      /\ deeds = {} => row = old
      /\ "fill" \in deeds => old.status = "pending" /\ row.status \in {"open", "closed"}
      /\ "exit" \in deeds => row.status = "closed" /\ ClosedAtFirst(row)
      /\ deeds # {} =>
            \/ old.status = "pending" /\ row.status \in {"rejected", "open", "closed"}
            \/ old.status = "open" /\ row.status = "closed"
      /\ "exit" \notin deeds => row.got = old.got
  BY <1>3, ReplayOutcome DEF IInv
<1>5. /\ job'.pc = job.pc /\ job'.accounts = job.accounts /\ job'.todo = job.todo \ {t}
      /\ job'.start = job.start /\ job'.end = job.end /\ job'.priced = job.priced
      /\ job'.stale = job.stale /\ job'.failed = job.failed
      /\ job'.rows = [job.rows EXCEPT ![t] = row]
      /\ job'.did = [job.did EXCEPT ![t] = deeds]
      /\ job'.cash = newcash
  BY <1>2, <1>3 DEF Job
<1>6. /\ job'.rows[t] = row /\ job'.did[t] = deeds
      /\ \A u \in Trades : u # t => job'.rows[u] = job.rows[u] /\ job'.did[u] = job.did[u]
      /\ job'.cash[o] = job.cash[o] + Amount(deeds, row)
      /\ \A b \in Accounts : b # o => job'.cash[b] = job.cash[b]
  BY <1>3, <1>5
<1>7. /\ o \notin job.accounts /\ job.did[t] = {}
      /\ o \notin job.stale => old = rows[t]
      /\ \A u \in job.todo : Owner[u] = o
  BY <1>1 DEF IInv, TodoIsFresh
<1>8. old.status # "closed" => old.got = 0
  BY DEF IInv, OnlyClosedSold
<1>9. deeds = Did(old, row)
  OBVIOUS
<1> HIDE DEF row, deeds, newcash
<1>10. NothingMapped' /\ GapIsPast'
  BY <1>1, <1>2, <1>5 DEF IInv, NothingMapped, GapIsPast, Replaying, Now
<1>11. OnlyClosedSold'
  BY <1>2, <1>4, <1>6, <1>8 DEF IInv, OnlyClosedSold
<1>12. TodoIsFresh'
  BY <1>2, <1>3, <1>5, <1>6, <1>7 DEF IInv, TodoIsFresh, Job
<1>13. DeedsAreNew'
  <2> SUFFICES ASSUME NEW u \in Trades, job'.did[u] # {}, Owner[u] \notin job.stale
               PROVE  /\ job'.did[u] = Did(rows[u], job'.rows[u])
                      /\ \/ /\ rows[u].status = "pending"
                            /\ job'.rows[u].status \in {"rejected", "open", "closed"}
                         \/ rows[u].status = "open" /\ job'.rows[u].status = "closed"
    BY <1>2, <1>5 DEF DeedsAreNew, Did
  <2>1. CASE u = t
    BY <1>4, <1>6, <1>7, <1>9, <2>1
  <2>2. CASE u # t
    BY <1>6, <2>2 DEF IInv, DeedsAreNew
  <2> QED BY <2>1, <2>2
<1>14. /\ NextFills'[t] = fills[t] + (IF "fill" \in deeds THEN 1 ELSE 0)
       /\ NextFills[t] = fills[t]
       /\ \A u \in Trades : u # t => NextFills'[u] = NextFills[u] /\ NextRows'[u] = NextRows[u]
       /\ NextRows[t] = rows[t]
       /\ NextRows'[t] = IF deeds # {} THEN row ELSE rows[t]
  BY <1>2, <1>3, <1>6, <1>7 DEF NextFills, NextRows
<1>15. /\ NextFills \in [Trades -> Nat] /\ NextFills' \in [Trades -> Nat]
       /\ NextRows \in [Trades -> Row] /\ NextRows' \in [Trades -> Row]
  <2>1. job'.rows \in [Trades -> Row]
    BY <1>3, <1>4, <1>5
  <2> QED BY <1>2, <1>3, <2>1 DEF NextFills, NextRows
<1>16. SessionBooks'
  <2> SUFFICES ASSUME NEW b \in Accounts, b \notin raced, b \notin job.stale, InUse(b)'
               PROVE  Books(b, job'.cash[b], NextFills', NextRows')
    BY <1>2, <1>5 DEF SessionBooks, Books
  <2>1. CASE b = o
    <3>1. t \in Of(b) /\ InUse(b)
      BY <1>1, <2>1 DEF Of, InUse
    <3>2. Books(b, job.cash[b], NextFills, NextRows)
      BY <1>1, <3>1 DEF IInv, SessionBooks, Replaying
    <3>3. \A u \in Of(b) \ {t} : NextFills'[u] = NextFills[u] /\ NextRows'[u].got = NextRows[u].got
      BY <1>14 DEF Of
    <3>4. /\ NextRows'[t].got = row.got /\ NextRows[t].got = old.got
          /\ row.got \in Nat /\ old.got \in Nat /\ fills[t] \in Nat
      BY <1>3, <1>4, <1>7, <1>14, <2>1, AmountType
    <3>5. Amount(deeds, row) = row.got - old.got - (IF "fill" \in deeds THEN Limit ELSE 0)
      BY <1>4, <1>8, <3>4 DEF Amount, Limit
    <3>6. Limit * (NextFills'[t] - NextFills[t]) = IF "fill" \in deeds THEN Limit ELSE 0
      BY <1>14, <3>4 DEF Limit
    <3>7. job.cash[b] \in Int /\ job'.cash[b] \in Int
      BY <1>3, <1>4, <1>6, <2>1, AmountType
    <3>8. job'.cash[b] = job.cash[b] - Limit * (NextFills'[t] - NextFills[t])
                                     + (NextRows'[t].got - NextRows[t].got)
      BY <1>6, <2>1, <3>4, <3>5, <3>6, <3>7 DEF Limit
    <3> QED BY <1>15, <3>1, <3>2, <3>3, <3>7, <3>8, SessionUpdated
  <2>2. CASE b # o
    <3>1. \A u \in Of(b) : u # t /\ NextFills'[u] = NextFills[u] /\ NextRows'[u].got = NextRows[u].got
      BY <1>14, <2>2 DEF Of
    <3>2. InUse(b)
      BY <1>5, <1>6, <2>2, <3>1 DEF InUse, Of
    <3>3. Books(b, job.cash[b], NextFills, NextRows)
      BY <1>1, <3>2 DEF IInv, SessionBooks, Replaying
    <3>4. job'.cash[b] = job.cash[b]
      BY <1>6, <2>2
    <3> QED BY <3>1, <3>3, <3>4, BooksSame
  <2> QED BY <2>1, <2>2
<1>17. ExitsAtFirstHit'
  <2> SUFFICES ASSUME NEW u \in Trades, "exit" \in job'.did[u] PROVE ClosedAtFirst(job.rows[u])'
    BY DEF ExitsAtFirstHit
  <2>1. ClosedAtFirst(job'.rows[u])
    BY <1>4, <1>6 DEF IInv, ExitsAtFirstHit
  <2>2. \A r : ClosedAtFirst(r) => ClosedAtFirst(r)'
    BY <1>2, <1>5, GapKept
  <2> QED BY <2>1, <2>2 DEF ClosedAtFirst
<1>18. PricedAreSettled'
  <2> SUFFICES ASSUME ~job.failed, NEW u \in job.priced, u \in Trades,
                      Owner[u] \notin job.accounts \cup job.stale, u \notin job.todo \ {t}
               PROVE  Settled(NextRows[u])'
    BY <1>3, <1>5 DEF PricedAreSettled, Job
  <2>1. Settled(NextRows'[u])
    <3>1. CASE u = t
      BY <1>4, <1>7, <1>14, <3>1
    <3>2. CASE u # t
      BY <1>1, <1>14, <3>2 DEF IInv, PricedAreSettled, Replaying
    <3> QED BY <3>1, <3>2
  <2>2. \A r : Settled(r) => Settled(r)'
    BY <1>2, <1>5, GapKept
  <2> QED BY <2>1, <2>2 DEF Settled
<1> QED
  BY <1>2, <1>10, <1>11, <1>12, <1>13, <1>16, <1>17, <1>18 DEF Rest

\* A roll-back leaves a session that has done nothing.
LEMMA RollBackKeeps == ASSUME IInv, TypeOK', NEW t \in Trades, SymbolFails(t) PROVE Rest'
<1> DEFINE o == Owner[t]
           newrows == [u \in Trades |-> IF u \in job.todo THEN rows[u] ELSE NoRow]
           newcash == [job.cash EXCEPT ![o] = cash[o]]
<1>1. /\ job.pc = "replaying" /\ t \in job.todo
      /\ Quietly([job EXCEPT
              !.todo = @ \ {t}, !.failed = TRUE, !.did = [u \in Trades |-> {}],
              !.rows = newrows, !.cash[o] = cash[o], !.stale = @ \ {o}])
  BY DEF SymbolFails
<1>2. /\ UNCHANGED <<market, rows, cash, fills, exits, raced>>
      /\ job' = [job EXCEPT
              !.todo = @ \ {t}, !.failed = TRUE, !.did = [u \in Trades |-> {}],
              !.rows = newrows, !.cash[o] = cash[o], !.stale = @ \ {o}]
      /\ RowsCounted' /\ BooksAgree'
  BY <1>1, QuietKeeps
<1>3. /\ job \in Job /\ job.cash \in [Accounts -> Int] /\ cash \in [Accounts -> Int]
      /\ fills \in [Trades -> Nat] /\ o \in Accounts /\ job.todo \subseteq Trades
  BY OwnerAssumption DEF IInv, TypeOK, Job
<1>4. /\ job'.pc = job.pc /\ job'.accounts = job.accounts /\ job'.todo = job.todo \ {t}
      /\ job'.end = job.end /\ job'.stale = job.stale \ {o} /\ job'.failed = TRUE
      /\ job'.rows = newrows /\ job'.did = [u \in Trades |-> {}] /\ job'.cash = newcash
  BY <1>2, <1>3 DEF Job
<1>5. /\ \A u \in Trades : job'.did[u] = {} /\ job'.rows[u] \in {rows[u], NoRow}
      /\ \A u \in job.todo : job'.rows[u] = rows[u]
      /\ job'.cash[o] = cash[o]
  BY <1>3, <1>4
<1>6. \A u \in job.todo : Owner[u] = o /\ Owner[u] \notin job.accounts
  BY <1>1 DEF IInv, TodoIsFresh
<1> HIDE DEF newrows, newcash
<1>7. NothingMapped' /\ GapIsPast'
  BY <1>1, <1>2, <1>4 DEF IInv, NothingMapped, GapIsPast, Replaying, Now
<1>8. OnlyClosedSold'
  BY <1>2, <1>5 DEF IInv, OnlyClosedSold, NoRow
<1>9. TodoIsFresh'
  BY <1>2, <1>3, <1>4, <1>5, <1>6 DEF TodoIsFresh
<1>10. DeedsAreNew' /\ ExitsAtFirstHit' /\ PricedAreSettled'
  BY <1>4, <1>5 DEF DeedsAreNew, ExitsAtFirstHit, PricedAreSettled
<1>11. SessionBooks'
  <2> SUFFICES ASSUME NEW b \in Accounts, b \notin raced, InUse(b)'
               PROVE  Books(b, job'.cash[b], NextFills', NextRows')
    BY <1>2, <1>4 DEF SessionBooks, Books
  <2>1. b = o
    BY <1>4, <1>5, <1>6 DEF InUse, Of
  <2>2. Books(b, cash[b], fills, rows)
    BY DEF IInv, BooksAgree, Books
  <2>3. \A u \in Of(b) : NextFills'[u] = fills[u] /\ NextRows'[u].got = rows[u].got
    BY <1>2, <1>3, <1>5 DEF Of, NextFills, NextRows
  <2>4. Books(b, cash[b], NextFills', NextRows')
    BY <2>2, <2>3, BooksSame
  <2> QED BY <1>5, <2>1, <2>4
<1> QED
  BY <1>2, <1>7, <1>8, <1>9, <1>10, <1>11 DEF Rest

\* A commit leaves what the session's rows, counts and balances promise.
LEMMA CommitKeeps == ASSUME IInv, TypeOK', Commit PROVE Rest'
<1>1. /\ job.pc = "replaying"
      /\ rows' = [t \in Trades |-> IF job.did[t] # {} THEN job.rows[t] ELSE rows[t]]
      /\ cash' = [a \in Accounts |-> IF Written(a) THEN job.cash[a] ELSE cash[a]]
      /\ fills' = [t \in Trades |-> fills[t] + (IF "fill" \in job.did[t] THEN 1 ELSE 0)]
      /\ exits' = [t \in Trades |-> exits[t] + (IF "exit" \in job.did[t] THEN 1 ELSE 0)]
      /\ raced' = raced \cup {a \in job.stale : Written(a)}
      /\ job' = Finished
  BY DEF Commit, JobStep
<1>2. /\ job'.pc # "replaying" /\ job'.todo = {} /\ job'.accounts = {}
      /\ job'.stale = {} /\ ~job'.failed
      /\ \A t \in Trades : job'.did[t] = {} /\ job'.rows[t] = NoRow
  BY <1>1 DEF Finished, NoJob
<1>3. /\ fills \in [Trades -> Nat] /\ exits \in [Trades -> Nat]
      /\ \A t \in Trades : Owner[t] \in Accounts
  BY OwnerAssumption DEF IInv, TypeOK
<1>4. \A t \in Trades : job.did[t] # {} /\ Owner[t] \notin raced' =>
         Owner[t] \notin raced /\ Owner[t] \notin job.stale
  BY <1>1 DEF Written, Of
<1>5. OnlyClosedSold'
  BY <1>1, <1>2 DEF IInv, OnlyClosedSold, NoRow
<1>6. RowsCounted'
  <2> SUFFICES ASSUME NEW t \in Trades, Owner[t] \notin raced'
               PROVE  /\ fills'[t] = IF rows'[t].status \in {"open", "closed"} THEN 1 ELSE 0
                      /\ exits'[t] = IF rows'[t].status = "closed" THEN 1 ELSE 0
    BY DEF RowsCounted
  <2>1. /\ fills[t] = IF rows[t].status \in {"open", "closed"} THEN 1 ELSE 0
        /\ exits[t] = IF rows[t].status = "closed" THEN 1 ELSE 0
    BY <1>1 DEF IInv, RowsCounted
  <2>2. CASE job.did[t] = {}
    BY <1>1, <1>3, <2>1, <2>2
  <2>3. CASE job.did[t] # {}
    <3>1. /\ job.did[t] = Did(rows[t], job.rows[t])
          /\ \/ rows[t].status = "pending" /\ job.rows[t].status \in {"rejected", "open", "closed"}
             \/ rows[t].status = "open" /\ job.rows[t].status = "closed"
      BY <1>4, <2>3 DEF IInv, DeedsAreNew
    <3>2. /\ rows'[t] = job.rows[t]
          /\ fills'[t] = fills[t] + (IF "fill" \in job.did[t] THEN 1 ELSE 0)
          /\ exits'[t] = exits[t] + (IF "exit" \in job.did[t] THEN 1 ELSE 0)
      BY <1>1, <2>3
    <3> QED BY <2>1, <3>1, <3>2 DEF Did
  <2> QED BY <2>2, <2>3
<1>7. BooksAgree'
  <2> SUFFICES ASSUME NEW a \in Accounts, a \notin raced' PROVE Books(a, cash'[a], fills', rows')
    BY DEF BooksAgree, Books
  <2>1. CASE Written(a)
    <3>1. a \notin raced /\ a \notin job.stale /\ InUse(a)
      BY <1>1, <2>1 DEF Written, InUse
    <3>2. Books(a, job.cash[a], NextFills, NextRows)
      BY <1>1, <3>1 DEF IInv, SessionBooks, Replaying
    <3>3. cash'[a] = job.cash[a] /\ fills' = NextFills /\ rows' = NextRows
      BY <1>1, <2>1 DEF NextFills, NextRows
    <3> QED BY <3>2, <3>3
  <2>2. CASE ~Written(a)
    <3>1. \A t \in Of(a) : fills'[t] = fills[t] /\ rows'[t].got = rows[t].got
      BY <1>1, <1>3, <2>2 DEF Written, Of
    <3>2. cash'[a] = cash[a] /\ a \notin raced
      BY <1>1, <2>2
    <3>3. Books(a, cash[a], fills, rows)
      BY <3>2 DEF IInv, BooksAgree, Books
    <3> QED BY <3>1, <3>2, <3>3, BalanceUntouched
  <2> QED BY <2>1, <2>2
<1> QED
  BY <1>2, <1>5, <1>6, <1>7 DEF Rest, NothingMapped, GapIsPast, TodoIsFresh, DeedsAreNew,
     SessionBooks, ExitsAtFirstHit, PricedAreSettled, Replaying

LEMMA InvStep == IInv /\ [Next]_vars => IInv'
<1> SUFFICES ASSUME IInv, [Next]_vars PROVE IInv'
  OBVIOUS
<1>1. TypeOK'
  BY TypeStep DEF IInv
<1>2. CASE UNCHANGED vars
  <2> USE <1>2 DEF vars
  <2>1. NothingMapped' /\ GapIsPast' /\ OnlyClosedSold' /\ RowsCounted' /\ TodoIsFresh'
        /\ DeedsAreNew' /\ BooksAgree'
    BY DEF IInv, NothingMapped, GapIsPast, OnlyClosedSold, RowsCounted, TodoIsFresh, DeedsAreNew,
       BooksAgree, Replaying, Now
  <2>2. SessionBooks'
    BY DEF IInv, SessionBooks, Replaying, InUse, NextFills, NextRows, Books
  <2>3. ExitsAtFirstHit'
    BY DEF IInv, ExitsAtFirstHit, ClosedAtFirst, Gap, Now
  <2>4. PricedAreSettled'
    <3>1. \A row : Settled(row) => Settled(row)'
      BY GapKept
    <3> QED BY <3>1 DEF IInv, PricedAreSettled, Replaying, NextRows
  <2> QED BY <1>1, <2>1, <2>2, <2>3, <2>4 DEF IInv
<1>3. CASE Next
  <2>1. Rest'
    BY <1>1, <1>3, EndedKeeps, MinuteKeeps, LiveStepsKeep, BeginKeeps, NextAccountKeeps,
       ReplaySymbolKeeps, RollBackKeeps, CommitKeeps DEF Next, Ended
  <2> QED BY <1>1, <2>1 DEF IInv, Rest
<1> QED BY <1>2, <1>3

LEMMA InvHolds == Spec => []IInv
<1>1. Init => IInv
  BY TypeInit, RestInit DEF IInv, Rest
<1> QED BY <1>1, InvStep, PTL DEF Spec

\* Restarts, replays of the same gap again, errors and roll-backs never fill
\* an order twice or close a position twice, however many accounts and trades
\* there are, in an account no request raced with the replay.
THEOREM ReplayOnce == Spec => []OnceOnly
<1>1. IInv => OnceOnly
  BY DEF IInv, OnceOnly, RowsCounted
<1> QED BY <1>1, InvHolds, PTL

\* The balance of such an account is what its fills and exits make it.
THEOREM ReplayBooks == Spec => []BooksAgree
<1>1. IInv => BooksAgree
  BY DEF IInv
<1> QED BY <1>1, InvHolds, PTL

\* A replay without an error leaves no order the gap reached and no position
\* whose level it reached, one it has opened itself included.
THEOREM ReplayMissesNothing == Spec => NothingMissed
<1>1. IInv => CommitMissesNothing
  <2> SUFFICES ASSUME IInv, Commit, ~job.failed, NEW t \in job.priced, Owner[t] \notin job.stale
               PROVE  /\ rows'[t].status = "pending" => Touched("limit") = {}
                      /\ rows'[t].status = "open" => Touched("target") \cup Touched("stop") = {}
    BY DEF CommitMissesNothing
  <2>1. job.pc = "replaying" /\ job.todo = {} /\ job.accounts = {} /\ rows' = NextRows
    BY DEF Commit, NextRows
  <2>2. Settled(NextRows[t])
    BY <2>1 DEF IInv, PricedAreSettled, Replaying
  <2> QED BY <2>1, <2>2 DEF Settled
<1> QED BY <1>1, InvHolds, PTL DEF NothingMissed

\* An exit of the replay is at the first of its levels the gap reached, the
\* target when both were reached in the same minute.
THEOREM ReplayTakesFirst == Spec => FirstLevelWins
<1>1. IInv => CommitTakesFirst
  <2> SUFFICES ASSUME IInv, Commit, NEW t \in Trades, "exit" \in job.did[t]
               PROVE  LET m == rows'[t].closed
                      IN  /\ rows'[t].got = Target <=> "target" \in market[m]
                          /\ \A n \in Gap : n < m => market[n] \cap {"target", "stop"} = {}
    BY DEF CommitTakesFirst
  <2>1. rows'[t] = job.rows[t]
    BY DEF Commit
  <2>2. ClosedAtFirst(job.rows[t])
    BY DEF IInv, ExitsAtFirstHit
  <2> QED BY <2>1, <2>2 DEF ClosedAtFirst
<1> QED BY <1>1, InvHolds, PTL DEF FirstLevelWins

=============================================================================
