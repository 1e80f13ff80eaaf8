----------------------------- MODULE GapReplay -----------------------------
(***************************************************************************)
(* The replay of the time the server was off (core/gap_replay.py), run     *)
(* once by every start, in the background, while requests are served.      *)
(* One database session works through the accounts and their symbols, and  *)
(* commits once, at the end.                                               *)
(*                                                                         *)
(* A minute of the market is the set of levels its candle touched; every   *)
(* trade has the same levels and a symbol of its own.  A trade is an order *)
(* and the position it opens.  Live fills and exits (the desk's sweeps and *)
(* requests, PaperDesk) are cut down to what the replay can meet.          *)
(***************************************************************************)
EXTENDS Integers, FiniteSets, Sequences, Sums

CONSTANTS
    Trades,          \* trades, each an order of one share of its own symbol
    Accounts,
    Owner,           \* the account of a trade
    Capital,         \* starting cash of an account
    MinGap,          \* shortest gap that is replayed (2 minutes in the code)
    Retries,         \* attempts when no candle is returned (3 in the code)
    MaxTime          \* bound: minutes of market

Limit == 2           \* prices of the three levels
Stop == 1
Target == 3

ASSUME OwnerAssumption == Owner \in [Trades -> Accounts]
ASSUME NumbersAssumption ==
    {Capital, MinGap, Retries, MaxTime} \subseteq Nat
ASSUME FiniteAssumption == IsFiniteSet(Trades) /\ IsFiniteSet(Accounts)

VARIABLES
    market,          \* the levels each minute touched; the clock is its length
    rows,            \* what is committed of each trade
    cash,            \* committed balances
    server,          \* "up" or "down"
    lastShutdown,    \* minute in server_state.json, 0 when there is none
    job,             \* the replay job and its session
    fills, exits,    \* history: how often a trade was filled, exited
    raced            \* history: accounts that a live step changed after a replay mapped them

vars == <<market, rows, cash, server, lastShutdown, job, fills, exits, raced>>

Now == Len(market)
Levels == {"limit", "stop", "target"}

\* A low at the stop is a low at the limit, which lies above it.
Candle == {c \in SUBSET Levels : "stop" \in c => "limit" \in c}

Row == [status : {"none", "pending", "rejected", "open", "closed"},
        placed : Nat, opened : Nat, closed : Nat, got : {0, Stop, Limit, Target}]

NoRow == [status |-> "none", placed |-> 0, opened |-> 0, closed |-> 0, got |-> 0]

\* The session's copies of rows and balances, what it did to each trade, the
\* accounts still to be worked on and the one it is working on.
Job == [pc : {"none", "waiting", "replaying", "done"},
        tries : 0 .. Retries, start : Nat, end : Nat, priced : SUBSET Trades,
        accounts : SUBSET Accounts, todo : SUBSET Trades,
        rows : [Trades -> Row], cash : [Accounts -> Int],
        did : [Trades -> SUBSET {"fill", "exit", "reject"}],
        failed : BOOLEAN, stale : SUBSET Accounts]

NoJob == [pc |-> "none", tries |-> 0, start |-> 0, end |-> 0, priced |-> {},
          accounts |-> {}, todo |-> {}, rows |-> [t \in Trades |-> NoRow],
          cash |-> [a \in Accounts |-> 0], did |-> [t \in Trades |-> {}],
          failed |-> FALSE, stale |-> {}]

-----------------------------------------------------------------------------
(* The replay of one symbol                                                *)

\* Candles are kept by their opening time: the minute of the stop is lost.
Gap == (job.start + 1) .. job.end
Touched(level) == {m \in Gap \cap (1 .. Now) : level \in market[m]}
First(S) == CHOOSE m \in S : \A n \in S : m <= n

\* A pending BUY meets the first candle at or below its price, whatever its
\* type and its age; without the cash it is rejected.
ReplayEntry(row, balance) ==
    CASE row.status # "pending" \/ Touched("limit") = {} -> row
      [] OTHER ->
           IF balance < Limit THEN [row EXCEPT !.status = "rejected"]
           ELSE [row EXCEPT !.status = "open", !.opened = First(Touched("limit"))]

\* Mutant of ReplayExit: The stop wins a candle that holds both levels.
ReplayExitStopFirst(row) ==
    LET hits == Touched("target") \cup Touched("stop")
        m == First(hits)
    IN  IF row.status # "open" \/ hits = {} THEN row
        ELSE [row EXCEPT !.status = "closed", !.closed = m,
                         !.got = IF m \in Touched("stop") THEN Stop ELSE Target]

\* An open position exits at the level touched first in the whole gap, its
\* target when one candle touched both.
ReplayExit(row) ==
    LET hits == Touched("target") \cup Touched("stop")
        m == First(hits)
    IN  IF row.status # "open" \/ hits = {} THEN row
        ELSE [row EXCEPT !.status = "closed", !.closed = m,
                         !.got = IF m \in Touched("target") THEN Target ELSE Stop]

\* Mutant of Replayed: The positions opened by the replay itself are not looked at.
ReplayedEntryOnly(row, balance) ==
    IF row.status = "pending" THEN ReplayEntry(row, balance) ELSE ReplayExit(row)

Replayed(row, balance) == ReplayExit(ReplayEntry(row, balance))

\* What the replay did to a row, and what that costs and brings.
Did(old, new) ==
    (IF old.status = "pending" /\ new.status \in {"open", "closed"} THEN {"fill"} ELSE {})
      \cup (IF old.status # "closed" /\ new.status = "closed" THEN {"exit"} ELSE {})
      \cup (IF old.status # "rejected" /\ new.status = "rejected" THEN {"reject"} ELSE {})

Amount(deeds, row) ==
    (IF "fill" \in deeds THEN -Limit ELSE 0) + (IF "exit" \in deeds THEN row.got ELSE 0)

Replayable(t) == rows[t].status \in {"pending", "open"}
Of(a) == {t \in Trades : Owner[t] = a}

-----------------------------------------------------------------------------
(* The market, the server, and live requests                               *)

Init ==
    /\ market = <<{}>>
    /\ rows = [t \in Trades |-> NoRow]
    /\ cash = [a \in Accounts |-> Capital]
    /\ server = "up"
    /\ lastShutdown = 0
    /\ job = [NoJob EXCEPT !.pc = "done"]
    /\ fills = [t \in Trades |-> 0]
    /\ exits = [t \in Trades |-> 0]
    /\ raced = {}

Minute ==
    /\ Now < MaxTime
    /\ \E c \in Candle : market' = Append(market, c)
    /\ UNCHANGED <<rows, cash, server, lastShutdown, job, fills, exits, raced>>

\* A flush of the session has locked the rows it wrote and their account.
Written(a) == \E t \in Of(a) : job.did[t] # {}

LiveStep(t, row, amount) ==
    /\ server = "up"
    /\ ~Written(Owner[t])
    /\ rows' = [rows EXCEPT ![t] = row]
    /\ cash' = [cash EXCEPT ![Owner[t]] = @ + amount]
    /\ job' = IF job.pc = "replaying" THEN [job EXCEPT !.stale = @ \cup {Owner[t]}] ELSE job
    /\ UNCHANGED <<market, server, lastShutdown, raced>>

PlaceOrder(t) ==
    /\ rows[t].status = "none"
    /\ LiveStep(t, [NoRow EXCEPT !.status = "pending", !.placed = Now], 0)
    /\ UNCHANGED <<fills, exits>>

LiveFill(t) ==
    /\ rows[t].status = "pending"
    /\ "limit" \in market[Now]
    /\ cash[Owner[t]] >= Limit
    /\ LiveStep(t, [rows[t] EXCEPT !.status = "open", !.opened = Now], -Limit)
    /\ fills' = [fills EXCEPT ![t] = @ + 1]
    /\ UNCHANGED exits

\* A sale by the user, or the desk's exit of a level that is touched.
LiveExit(t) ==
    /\ rows[t].status = "open"
    /\ \E price \in {Limit} \cup (IF "target" \in market[Now] THEN {Target} ELSE {})
                           \cup (IF "stop" \in market[Now] THEN {Stop} ELSE {}) :
          LiveStep(t, [rows[t] EXCEPT !.status = "closed", !.closed = Now, !.got = price], price)
    /\ exits' = [exits EXCEPT ![t] = @ + 1]
    /\ UNCHANGED fills

\* Mutant of CleanStop: A gap that was never recorded starts at a number that is no minute.
CleanStopAhead ==
    /\ server = "up"
    /\ server' = "down"
    /\ lastShutdown' = Now + 1
    /\ job' = NoJob
    /\ UNCHANGED <<market, rows, cash, fills, exits, raced>>

\* Tasks are cancelled, then the time is written.
CleanStop ==
    /\ server = "up"
    /\ server' = "down"
    /\ lastShutdown' = Now
    /\ job' = NoJob
    /\ UNCHANGED <<market, rows, cash, fills, exits, raced>>

Crash ==
    /\ server = "up"
    /\ server' = "down"
    /\ job' = NoJob
    /\ UNCHANGED <<market, rows, cash, lastShutdown, fills, exits, raced>>

Start ==
    /\ server = "down"
    /\ server' = "up"
    /\ job' = [NoJob EXCEPT !.pc = "waiting"]
    /\ UNCHANGED <<market, rows, cash, lastShutdown, fills, exits, raced>>

-----------------------------------------------------------------------------
(* The replay job                                                          *)

JobStep(next) ==
    /\ server = "up"
    /\ job' = next
    /\ UNCHANGED <<market, server, lastShutdown>>

Quietly(next) == JobStep(next) /\ UNCHANGED <<rows, cash, fills, exits, raced>>
Finished == [NoJob EXCEPT !.pc = "done"]

\* No first run, a gap long enough, something to replay.
Needed == /\ lastShutdown > 0
          /\ Now - lastShutdown >= MinGap
          /\ \E t \in Trades : Replayable(t)

\* Nothing to do, or the broker's token did not come in time.
Skip ==
    /\ job.pc = "waiting"
    /\ Quietly(Finished)

\* The replay session is keyed by the gap and the current time, so that an
\* earlier COMPLETED one is never met.  Accounts are mapped here, with their
\* balances; candles are fetched for what can be replayed now, and may be
\* missing for some symbols.
Begin ==
    /\ job.pc = "waiting"
    /\ Needed
    /\ \E priced \in (SUBSET {t \in Trades : Replayable(t)}) \ {{}} :
          Quietly([job EXCEPT !.pc = "replaying", !.start = lastShutdown, !.end = Now,
                              !.priced = priced, !.accounts = Accounts, !.cash = cash])

\* No candle for any symbol: another attempt, the last one gives up.
NoCandles ==
    /\ job.pc = "waiting"
    /\ Needed
    /\ Quietly(IF job.tries + 1 < Retries THEN [job EXCEPT !.tries = @ + 1] ELSE Finished)

\* The orders and positions of the next account.  After a roll-back the
\* other accounts are expired objects, and reading them raises: they are
\* left out.
NextAccount(a) ==
    /\ job.pc = "replaying"
    /\ job.todo = {}
    /\ a \in job.accounts
    /\ LET todo == IF job.failed THEN {} ELSE {t \in Of(a) \cap job.priced : Replayable(t)}
        IN  Quietly([job EXCEPT
              !.accounts = @ \ {a}, !.todo = todo,
              !.rows = [t \in Trades |-> IF t \in todo THEN rows[t] ELSE job.rows[t]]])

\* Fills and exits of one symbol on the session's copies, flushed: rows and
\* balance are written as absolute values, under locks held until the commit.
ReplaySymbol(t) ==
    /\ job.pc = "replaying"
    /\ t \in job.todo
    /\ LET row == Replayed(job.rows[t], job.cash[Owner[t]])
            deeds == Did(job.rows[t], row)
        IN  Quietly([job EXCEPT !.todo = @ \ {t}, !.rows[t] = row, !.did[t] = deeds,
                                !.cash[Owner[t]] = @ + Amount(deeds, row)])

\* Mutant of SymbolFails: The roll-back keeps what the session did to the account's other symbols.
SymbolFailsKeeps(t) ==
    /\ job.pc = "replaying"
    /\ t \in job.todo
    /\ Quietly([job EXCEPT !.todo = @ \ {t}, !.failed = TRUE, !.cash[Owner[t]] = cash[Owner[t]]])

\* An error rolls the whole session back, the work on earlier symbols and
\* accounts included; this account is read again and its other symbols go on.
SymbolFails(t) ==
    /\ job.pc = "replaying"
    /\ t \in job.todo
    /\ LET a == Owner[t]
        IN  Quietly([job EXCEPT
              !.todo = @ \ {t}, !.failed = TRUE, !.did = [u \in Trades |-> {}],
              !.rows = [u \in Trades |-> IF u \in job.todo THEN rows[u] ELSE NoRow],
              !.cash[a] = cash[a], !.stale = @ \ {a}])

\* Mutant of Commit: The commit forgets that the order is no longer pending.
CommitKeepsRows ==
    /\ job.pc = "replaying"
    /\ job.todo = {}
    /\ job.accounts = {}
    /\ cash' = [a \in Accounts |-> IF Written(a) THEN job.cash[a] ELSE cash[a]]
    /\ fills' = [t \in Trades |-> fills[t] + (IF "fill" \in job.did[t] THEN 1 ELSE 0)]
    /\ exits' = [t \in Trades |-> exits[t] + (IF "exit" \in job.did[t] THEN 1 ELSE 0)]
    /\ JobStep(Finished)
    /\ UNCHANGED <<rows, raced>>

\* What the session wrote replaces the rows, whatever they are by now.
Commit ==
    /\ job.pc = "replaying"
    /\ job.todo = {}
    /\ job.accounts = {}
    /\ rows' = [t \in Trades |-> IF job.did[t] # {} THEN job.rows[t] ELSE rows[t]]
    /\ cash' = [a \in Accounts |-> IF Written(a) THEN job.cash[a] ELSE cash[a]]
    /\ fills' = [t \in Trades |-> fills[t] + (IF "fill" \in job.did[t] THEN 1 ELSE 0)]
    /\ exits' = [t \in Trades |-> exits[t] + (IF "exit" \in job.did[t] THEN 1 ELSE 0)]
    /\ raced' = raced \cup {a \in job.stale : Written(a)}
    /\ JobStep(Finished)

\* A commit that fails marks the replay FAILED; it is not tried again.
CommitFails ==
    /\ job.pc = "replaying"
    /\ job.todo = {}
    /\ job.accounts = {}
    /\ Quietly(Finished)

\* Any other error ends the session, and the supervisor starts the job again.
JobCrashes ==
    /\ job.pc = "replaying"
    /\ Quietly([NoJob EXCEPT !.pc = "waiting"])

Next ==
    \/ Minute \/ CleanStop \/ Crash \/ Start
    \/ \E t \in Trades : PlaceOrder(t) \/ LiveFill(t) \/ LiveExit(t)
    \/ Skip \/ Begin \/ NoCandles \/ Commit \/ CommitFails \/ JobCrashes
    \/ \E a \in Accounts : NextAccount(a)
    \/ \E t \in Trades : ReplaySymbol(t) \/ SymbolFails(t)

Spec == Init /\ [][Next]_vars

-----------------------------------------------------------------------------
(* Properties                                                              *)

\* Every row, balance and session has its form.
TypeOK ==
    /\ market \in Seq(Candle)
    /\ rows \in [Trades -> Row]
    /\ cash \in [Accounts -> Int]
    /\ server \in {"up", "down"}
    /\ lastShutdown \in 0 .. Now
    /\ job \in Job
    /\ fills \in [Trades -> Nat]
    /\ exits \in [Trades -> Nat]
    /\ raced \subseteq Accounts

\* Restarts, repeated replays of the same gap, errors and roll-backs never
\* fill an order twice or close a position twice, in an account no request
\* touched between the replay's reading and its writing.
OnceOnly ==
    \A t \in Trades : Owner[t] \notin raced => fills[t] <= 1 /\ exits[t] <= fills[t]

\* The cash of such an account is its capital less what its filled orders
\* cost plus what its closed positions brought: no error leaves one side of
\* a replayed fill behind.
BooksAgree ==
    \A a \in Accounts \ raced :
        cash[a] = Capital - SumNat([t \in Of(a) |-> Limit * fills[t]])
                          + SumNat([t \in Of(a) |-> rows[t].got])

CommitMissesNothing ==
    Commit /\ ~job.failed =>
        \A t \in job.priced : Owner[t] \notin job.stale =>
            /\ rows'[t].status = "pending" => Touched("limit") = {}
            /\ rows'[t].status = "open" => Touched("target") \cup Touched("stop") = {}

\* A replay that ends without an error has looked at every symbol it has
\* candles for: it leaves no order pending that the gap reached, and no
\* position open, one it opened itself included, whose level the gap reached.
NothingMissed == [][CommitMissesNothing]_vars

CommitTakesFirst ==
    Commit => \A t \in Trades :
        "exit" \in job.did[t] =>
            LET m == rows'[t].closed
            IN  /\ rows'[t].got = Target <=> "target" \in market[m]
                /\ \A n \in Gap : n < m => market[n] \cap {"target", "stop"} = {}

\* The replay takes the level the market reached first, and the target when
\* a candle holds both.
FirstLevelWins == [][CommitTakesFirst]_vars

\* "...should have triggered while the server was offline"
\* (docs/architecture/SystemOverview.md:121): nothing is filled before it was
\* placed, or closed before it was opened.
NoTimeTravel ==
    \A t \in Trades : rows[t].status \in {"open", "closed"} =>
        /\ rows[t].placed <= rows[t].opened
        /\ rows[t].status = "closed" => rows[t].opened <= rows[t].closed

=============================================================================
