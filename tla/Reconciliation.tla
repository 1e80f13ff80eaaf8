--------------------------- MODULE Reconciliation ---------------------------
(***************************************************************************)
(* How a position is closed when its price reaches its stop or its target: *)
(* the live ticks of the market engine, and the sweep that goes back over  *)
(* one-minute candles for what the ticks have missed.                      *)
(*                                                                         *)
(* Time is counted in slots, Minute of them to a candle; in a slot the     *)
(* price is at the stop, at the target, or between.  A slot is closer than *)
(* the code looks: a tick may or may not come in it.                       *)
(*                                                                         *)
(* The database is PostgreSQL.  A tick keeps the row of the position       *)
(* locked while it closes the position on another connection, which waits  *)
(* for that row until its lock_timeout: so a tick that finds the price at  *)
(* a level holds the row for a while and rolls back.                       *)
(***************************************************************************)
EXTENDS Integers, FiniteSets

CONSTANTS
    Minute,    \* slots in a candle
    Stale,     \* slots in the five minutes between two looks at a position
    Returned,  \* how many candles a fetch returns at most (40 in the code)
    Times,     \* the slots in which the position may have been opened
    MaxTime,   \* bound: the last slot
    MaxHits    \* bound: in how many slots the price is at a level

ASSUME MinuteAssumption == Minute \in Nat \ {0}
ASSUME StaleAssumption == Stale \in Nat /\ Stale >= Minute
ASSUME ReturnedAssumption == Returned \in Nat \ {0}
ASSUME TimesAssumption == Times \subseteq Nat
ASSUME BoundsAssumption == MaxTime \in Nat /\ MaxHits \in Nat

Never == -1
NoCandle == -1

VARIABLES
    now,         \* the current slot
    stops,       \* the slots in which the price was at the stop
    targets,     \* those in which it was at the target
    open,        \* the position is open
    created,     \* created_at
    evaluated,   \* last_evaluated_at: the last tick that committed
    reconciled,  \* last_reconciled_at: the watermark of the sweep
    exit,        \* how a sweep has closed the position, if one has
    ticking,     \* a tick holds the row and waits for its own lock
    pc,          \* where the sweep is
    from,        \* its replay_start
    got          \* what it has fetched

vars == <<now, stops, targets, open, created, evaluated, reconciled, exit,
          ticking, pc, from, got>>

Market == <<now, stops, targets>>
Sweep == <<pc, from, got>>

Hits == stops \cup targets

CandleOf(t) == t \div Minute
CloseOf(c) == (c + 1) * Minute

\* Everything before the Cursor is taken to have been looked at.
Latest(a, b) == IF a >= b THEN a ELSE b
Cursor == Latest(created, Latest(evaluated, reconciled))

\* (Mutant: reading with FOR UPDATE does not keep the others out.)
Unlocked == TRUE

\* Nobody else has the position's row.
RowFree == ~ticking

NothingFetched ==
    [asOf |-> Never, first |-> NoCandle, last |-> NoCandle, hit |-> NoCandle,
     reason |-> "NONE"]

NoExit == [candle |-> NoCandle, reason |-> "NONE"]

-----------------------------------------------------------------------------

\* Time passes and the price moves.
Passes ==
    /\ now < MaxTime
    /\ now' = now + 1
    /\ \/ UNCHANGED <<stops, targets>>
       \/ /\ Cardinality(Hits) < MaxHits
          /\ \/ stops' = stops \cup {now + 1} /\ UNCHANGED targets
             \/ targets' = targets \cup {now + 1} /\ UNCHANGED stops
    /\ UNCHANGED <<open, created, evaluated, reconciled, exit, ticking, Sweep>>

\* A tick between the levels: the position has been looked at.
Tick ==
    /\ open /\ RowFree
    /\ now \notin Hits
    /\ evaluated' = now
    /\ UNCHANGED <<Market, open, created, reconciled, exit, ticking, Sweep>>

\* A tick at a level: it holds the row and asks for the exit.
TickHits ==
    /\ open /\ RowFree
    /\ now \in Hits
    /\ ticking' = TRUE
    /\ UNCHANGED <<Market, open, created, evaluated, reconciled, exit, Sweep>>

\* The exit has waited for the row that its own tick holds, as often as it is
\* tried: EXIT_ORDER_FAILED, and the tick rolls back.
TickFails ==
    /\ ticking
    /\ ticking' = FALSE
    /\ UNCHANGED <<Market, open, created, evaluated, reconciled, exit, Sweep>>

\* Somebody closes the position by hand.
Closes ==
    /\ open /\ RowFree
    /\ open' = FALSE
    /\ UNCHANGED <<Market, created, evaluated, reconciled, exit, ticking, Sweep>>

-----------------------------------------------------------------------------
(* The sweep. *)

\* The position is due, and its row is not skipped for being locked.
Due ==
    /\ pc = "idle"
    /\ open /\ RowFree
    /\ reconciled = Never \/ reconciled < now - Stale

\* RECONCILIATION_SKIPPED_NO_GAP.
ShortGap ==
    /\ Due
    /\ now - Cursor < Minute
    /\ reconciled' = now
    /\ UNCHANGED <<Market, open, created, evaluated, exit, ticking, Sweep>>

Begin ==
    /\ Due
    /\ now - Cursor >= Minute
    /\ from' = Cursor
    /\ pc' = "fetching"
    /\ UNCHANGED <<Market, open, created, evaluated, reconciled, exit, ticking,
                   got>>

\* The provider's, or the five-minute cache's, candles as they were at asOf:
\* the last may still be forming, and no more than Returned come back.
FirstAsOf(asOf) == Latest(0, CandleOf(asOf) - Returned + 1)
CandlesAsOf(asOf) == FirstAsOf(asOf)..CandleOf(asOf)

\* (Mutant: a candle counts if it begins after replay_start.)
BegunSince(asOf) == {c \in CandlesAsOf(asOf) : c * Minute > from}

\* (Mutant: all that came.)
AnyAsOf(asOf) == CandlesAsOf(asOf)

\* A candle counts if it closes after replay_start.
Valid(asOf) == {c \in CandlesAsOf(asOf) : CloseOf(c) > from}

Touched(c, slots, asOf) == \E t \in slots : t <= asOf /\ CandleOf(t) = c

\* (Mutant: the target counts.)
TargetAt(c, asOf) == IF Touched(c, targets, asOf) THEN "TARGET_HIT" ELSE "STOPLOSS_HIT"

\* Of two levels in one candle the stop counts.
ReasonAt(c, asOf) == IF Touched(c, stops, asOf) THEN "STOPLOSS_HIT" ELSE "TARGET_HIT"

Fetched(asOf, hit, reason) ==
    [asOf |-> asOf, first |-> FirstAsOf(asOf), last |-> CandleOf(asOf),
     hit |-> hit, reason |-> reason]

\* Candles, none of which is at a level.
FetchClean ==
    /\ pc = "fetching"
    /\ \E asOf \in 0..now :
        /\ Valid(asOf) # {}
        /\ \A c \in Valid(asOf) : ~Touched(c, Hits, asOf)
        /\ got' = Fetched(asOf, NoCandle, "NONE")
    /\ pc' = "clean"
    /\ UNCHANGED <<Market, open, created, evaluated, reconciled, exit, ticking,
                   from>>

\* RECONCILIATION_GAP_DETECTED: c is the first that is.
FetchHit ==
    /\ pc = "fetching"
    /\ \E asOf \in 0..now : \E c \in Valid(asOf) :
        /\ Touched(c, Hits, asOf)
        /\ \A d \in Valid(asOf) : Touched(d, Hits, asOf) => c <= d
        /\ got' = Fetched(asOf, c, ReasonAt(c, asOf))
    /\ pc' = "breached"
    /\ UNCHANGED <<Market, open, created, evaluated, reconciled, exit, ticking,
                   from>>

Return == pc' = "idle" /\ from' = 0 /\ got' = NothingFetched

\* No candles, or none that count.
FetchNothing ==
    /\ pc = "fetching"
    /\ \E asOf \in 0..now : Valid(asOf) = {}
    /\ Return
    /\ UNCHANGED <<Market, open, created, evaluated, reconciled, exit, ticking>>

\* RECONCILIATION_EXIT_TRIGGERED.
ReplayExit ==
    /\ pc = "breached"
    /\ open /\ RowFree
    /\ open' = FALSE
    /\ exit' = [candle |-> got.hit, reason |-> got.reason]
    /\ Return
    /\ UNCHANGED <<Market, created, evaluated, reconciled, ticking>>

\* The position is closed already.
ReplayGone ==
    /\ pc \in {"breached", "clean", "failed"}
    /\ ~open
    /\ Return
    /\ UNCHANGED <<Market, open, created, evaluated, reconciled, exit, ticking>>

\* RECONCILIATION_EXIT_FAILED: a lost connection, or a tick that holds the row.
ReplayFails ==
    /\ pc = "breached"
    /\ open
    /\ pc' = "failed"
    /\ UNCHANGED <<Market, open, created, evaluated, reconciled, exit, ticking,
                   from, got>>

WatermarkAt(c) == CloseOf(c)

\* The position was not closed: the watermark moves to the last candle's close.
Watermark ==
    /\ pc \in {"clean", "failed"}
    /\ open /\ RowFree
    /\ reconciled' = WatermarkAt(got.last)
    /\ Return
    /\ UNCHANGED <<Market, open, created, evaluated, exit, ticking>>

\* RECONCILIATION_FAILED, RECONCILIATION_WATERMARK_FAILED: an error of the
\* database or the provider, or a tick that holds the row for too long.
SweepFails ==
    /\ pc # "idle"
    /\ Return
    /\ UNCHANGED <<Market, open, created, evaluated, reconciled, exit, ticking>>

\* The process dies and starts again: what is not committed is lost.
Crash ==
    /\ pc # "idle" \/ ticking
    /\ ticking' = FALSE
    /\ Return
    /\ UNCHANGED <<Market, open, created, evaluated, reconciled, exit>>

-----------------------------------------------------------------------------

Init ==
    /\ created \in Times
    /\ now = created
    /\ stops \in SUBSET (0..created)
    /\ targets \in SUBSET ((0..created) \ stops)
    /\ Cardinality(Hits) <= MaxHits
    /\ open = TRUE
    /\ evaluated = Never
    /\ reconciled = Never
    /\ exit = NoExit
    /\ ticking = FALSE
    /\ pc = "idle"
    /\ from = 0
    /\ got = NothingFetched

Next ==
    \/ Passes \/ Tick \/ TickHits \/ TickFails \/ Closes
    \/ ShortGap \/ Begin \/ FetchClean \/ FetchHit \/ FetchNothing
    \/ ReplayExit \/ ReplayGone \/ ReplayFails \/ Watermark \/ SweepFails
    \/ Crash

Spec == Init /\ [][Next]_vars

-----------------------------------------------------------------------------
(* Properties. *)

Reasons == {"NONE", "STOPLOSS_HIT", "TARGET_HIT"}

\* The type invariant; a tick that holds the row holds an open position.
TypeOK ==
    /\ now \in Nat
    /\ stops \subseteq 0..now
    /\ targets \subseteq 0..now
    /\ open \in BOOLEAN
    /\ created \in 0..now
    /\ evaluated \in {Never} \cup 0..now
    /\ reconciled \in {Never} \cup Nat
    /\ exit \in [candle : {NoCandle} \cup Nat, reason : Reasons]
    /\ ticking \in BOOLEAN
    /\ ticking => open
    /\ pc \in {"idle", "fetching", "breached", "clean", "failed"}
    /\ from \in Nat
    /\ got \in [asOf : {Never} \cup Nat, first : {NoCandle} \cup Nat,
                last : {NoCandle} \cup Nat, hit : {NoCandle} \cup Nat,
                reason : Reasons]

\* The watermark can be ahead of the clock, after a candle that was still
\* forming, but by no more than that candle: no later one is ever skipped.
WatermarkNearClock == reconciled <= now + Minute

WatermarkAdvances == reconciled' >= reconciled

\* The watermark never goes back, although a fetch may return older candles
\* than the one before it, and ticks commit while the sweep waits for it.
WatermarkNeverRegresses == [][WatermarkAdvances]_vars

PassesNothingSeen ==
    pc = "clean" /\ reconciled' # reconciled =>
        \A t \in Hits : from <= t /\ t <= got.asOf /\ t < reconciled' =>
            CandleOf(t) < got.first

\* A sweep that moves the watermark without having tried an exit passes no
\* slot at a level that its data could show: what it passes happened after
\* the data was made, or before the candles the fetch still returned.
CleanSweepsPassNoHit == [][PassesNothingSeen]_vars

\* A sweep closes a position only if the price was at the level it names, in
\* a candle that closed after the position was opened (the price may have
\* been there in the opening minute, before the opening).
ExitIsGrounded ==
    exit # NoExit =>
        LET level == IF exit.reason = "STOPLOSS_HIT" THEN stops ELSE targets
        IN  /\ ~open
            /\ CloseOf(exit.candle) > created
            /\ \E t \in level : CandleOf(t) = exit.candle

TakesFirstHit ==
    exit' # exit =>
        /\ \A t \in Hits : from <= t /\ t <= got.asOf /\ CandleOf(t) >= got.first =>
                CandleOf(t) >= exit'.candle
        /\ \A t \in stops : t <= got.asOf /\ CandleOf(t) = exit'.candle =>
                exit'.reason = "STOPLOSS_HIT"

\* The exit is the first the data shows, although levels are read and the row
\* is locked long after the fetch; a minute that saw both levels is a loss.
ExitsAtFirstHit == [][TakesFirstHit]_vars

=============================================================================
