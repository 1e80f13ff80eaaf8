------------------------ MODULE ReconciliationProofs ------------------------
(* Theorems about Reconciliation, for every length of a candle, of the     *)
(* interval between sweeps, and of a fetch.                                *)
EXTENDS Reconciliation, TLAPS

-----------------------------------------------------------------------------
(* Candles and slots. *)

\* A slot lies in its candle.
LEMMA SlotInCandle ==
    ASSUME NEW t \in Nat
    PROVE  /\ CandleOf(t) \in Nat
           /\ CandleOf(t) * Minute <= t
           /\ t < CloseOf(CandleOf(t))
           /\ CloseOf(CandleOf(t)) <= t + Minute
<1>1. CandleOf(t) \in Nat
  BY MinuteAssumption DEF CandleOf
<1>2. t = Minute * (t \div Minute) + (t % Minute) /\ (t % Minute) \in 0..Minute - 1
  BY MinuteAssumption
<1>3. (CandleOf(t) + 1) * Minute = Minute * CandleOf(t) + Minute
  BY <1>1, MinuteAssumption
<1>4. CandleOf(t) * Minute = Minute * CandleOf(t)
  BY <1>1, MinuteAssumption
<1>5. Minute * CandleOf(t) \in Nat
  BY <1>1, MinuteAssumption
<1> QED
  BY <1>1, <1>2, <1>3, <1>4, <1>5, MinuteAssumption DEF CandleOf, CloseOf

\* Candles close in their order.
LEMMA ClosesInOrder ==
    ASSUME NEW c \in Nat, NEW d \in Nat
    PROVE  /\ CloseOf(c) \in Nat
           /\ c <= d => CloseOf(c) <= CloseOf(d)
<1>1. CloseOf(c) \in Nat
  BY MinuteAssumption DEF CloseOf
<1>2. ASSUME c <= d PROVE CloseOf(c) <= CloseOf(d)
  <2>1. PICK k \in Nat : d = c + k
    BY <1>2
  <2>2. (d + 1) * Minute = (c + 1) * Minute + k * Minute
    BY <2>1, MinuteAssumption
  <2>3. k * Minute \in Nat /\ (c + 1) * Minute \in Nat
    BY MinuteAssumption
  <2> QED
    BY <2>2, <2>3 DEF CloseOf
<1> QED
  BY <1>1, <1>2

-----------------------------------------------------------------------------
(* The invariant. *)

\* What a sweep replays from is no earlier than the watermark.
FromWatermark == pc # "idle" => reconciled <= from /\ created <= from

\* What a sweep has fetched reaches beyond where it replays from.
HasData ==
    pc \in {"breached", "clean", "failed"} =>
        /\ got.asOf \in 0..now
        /\ got.first \in Nat
        /\ got.last = CandleOf(got.asOf)
        /\ CloseOf(got.last) > from

\* No candle of a clean fetch is at a level.
CleanData ==
    pc = "clean" =>
        \A t \in Hits : from <= t /\ t <= got.asOf => CandleOf(t) < got.first

\* A sweep that will ask for an exit has found the first candle at a level.
HitData ==
    pc = "breached" =>
        /\ got.hit \in Nat
        /\ CloseOf(got.hit) > from
        /\ \/ got.reason = "STOPLOSS_HIT" /\ \E t \in stops : CandleOf(t) = got.hit
           \/ got.reason = "TARGET_HIT" /\ \E t \in targets : CandleOf(t) = got.hit
        /\ \A t \in Hits : from <= t /\ t <= got.asOf /\ CandleOf(t) >= got.first =>
                CandleOf(t) >= got.hit
        /\ \A t \in stops : t <= got.asOf /\ CandleOf(t) = got.hit =>
                got.reason = "STOPLOSS_HIT"

SweepInv == FromWatermark /\ HasData /\ CleanData /\ HitData

IInv == TypeOK /\ SweepInv /\ WatermarkNearClock /\ ExitIsGrounded

\* What the arithmetic of the steps needs of the constants.
LEMMA Numbers ==
    /\ \A t \in Nat : CandleOf(t) \in Nat /\ CloseOf(CandleOf(t)) \in Nat
    /\ \A t \in Nat : FirstAsOf(t) \in Nat /\ FirstAsOf(t) <= CandleOf(t)
<1>1. ASSUME NEW t \in Nat
      PROVE  /\ CandleOf(t) \in Nat /\ CloseOf(CandleOf(t)) \in Nat
             /\ FirstAsOf(t) \in Nat /\ FirstAsOf(t) <= CandleOf(t)
  BY SlotInCandle, ClosesInOrder, ReturnedAssumption DEF FirstAsOf, Latest
<1> QED
  BY <1>1

\* If a candle counts, the last one does.
LEMMA ValidReachesBeyond ==
    ASSUME NEW asOf \in Nat, from \in Nat, Valid(asOf) # {}
    PROVE  CloseOf(CandleOf(asOf)) > from
<1>1. PICK c \in CandlesAsOf(asOf) : CloseOf(c) > from
  BY DEF Valid
<1>2. c \in Nat /\ c <= CandleOf(asOf) /\ CandleOf(asOf) \in Nat
  BY Numbers DEF CandlesAsOf
<1> QED
  BY <1>1, <1>2, ClosesInOrder

\* The candle of a slot since replay_start counts, if it came.
LEMMA SeenIsValid ==
    ASSUME NEW asOf \in Nat, from \in Nat, NEW t \in Nat, from <= t, t <= asOf,
           ~(CandleOf(t) < FirstAsOf(asOf))
    PROVE  CandleOf(t) \in Valid(asOf)
<1>1. CandleOf(t) \in Nat /\ CandleOf(asOf) \in Nat /\ FirstAsOf(asOf) \in Nat
  BY Numbers
<1>2. CloseOf(CandleOf(t)) > from
  BY SlotInCandle, ClosesInOrder, <1>1
<1>3. CandleOf(t) <= CandleOf(asOf)
  <2>1. /\ CandleOf(t) * Minute <= t
        /\ asOf < (CandleOf(asOf) + 1) * Minute
    BY SlotInCandle DEF CloseOf
  <2>2. ASSUME CandleOf(asOf) + 1 <= CandleOf(t) PROVE FALSE
    <3> DEFINE k == CandleOf(t) - (CandleOf(asOf) + 1)
    <3>1. k \in Nat /\ CandleOf(t) = CandleOf(asOf) + 1 + k
      BY <2>2, <1>1
    <3> HIDE DEF k
    <3>2. CandleOf(t) * Minute = (CandleOf(asOf) + 1) * Minute + k * Minute
      BY <3>1, <1>1, MinuteAssumption
    <3>3. k * Minute \in Nat /\ (CandleOf(asOf) + 1) * Minute \in Nat
      BY <3>1, <1>1, MinuteAssumption
    <3> QED
      BY <2>1, <3>2, <3>3
  <2> QED
    BY <2>2, <1>1
<1> QED
  BY <1>1, <1>2, <1>3 DEF Valid, CandlesAsOf

\* The variables keep their types, and nobody closes a position that a tick
\* holds.
LEMMA TypeStep == TypeOK /\ [Next]_vars => TypeOK'
<1> SUFFICES ASSUME TypeOK, [Next]_vars PROVE TypeOK'
  OBVIOUS
<1> USE DEF TypeOK
<1>1. CASE Passes
  <2>1. now' = now + 1 /\ 0..now \subseteq 0..now'
    BY <1>1 DEF Passes
  <2>2. /\ stops' = stops \/ stops' = stops \cup {now + 1}
        /\ targets' = targets \/ targets' = targets \cup {now + 1}
    BY <1>1 DEF Passes
  <2>3. now + 1 \in 0..now'
    BY <2>1
  <2>4. stops' \subseteq 0..now'
    BY <2>1, <2>2, <2>3, Zenon
  <2>5. targets' \subseteq 0..now'
    BY <2>1, <2>2, <2>3, Zenon
  <2> QED
    BY <1>1, <2>1, <2>4, <2>5 DEF Passes, Sweep
<1>2. CASE Tick
  BY <1>2 DEF Tick, Market, Sweep
<1>3. CASE TickHits
  BY <1>3 DEF TickHits, Market, Sweep
<1>4. CASE TickFails
  BY <1>4 DEF TickFails, Market, Sweep
<1>5. CASE Closes
  BY <1>5 DEF Closes, Market, Sweep, RowFree
<1>6. CASE ShortGap
  BY <1>6 DEF ShortGap, Market, Sweep
<1>7. CASE Begin
  BY <1>7 DEF Begin, Market, Cursor, Latest, Never
<1>8. CASE FetchClean
  <2>1. \A t \in Nat : CandleOf(t) \in Nat /\ FirstAsOf(t) \in Nat
    BY Numbers
  <2>2. \A t \in 0..now : \A c \in Valid(t) : c \in Nat
    BY <2>1 DEF Valid, CandlesAsOf
  <2> QED
    BY <1>8, <2>1, <2>2 DEF FetchClean, Market, Fetched, ReasonAt, NoCandle, Reasons
<1>9. CASE FetchHit
  <2>1. \A t \in Nat : CandleOf(t) \in Nat /\ FirstAsOf(t) \in Nat
    BY Numbers
  <2>2. \A t \in 0..now : \A c \in Valid(t) : c \in Nat
    BY <2>1 DEF Valid, CandlesAsOf
  <2> QED
    BY <1>9, <2>1, <2>2 DEF FetchHit, Market, Fetched, ReasonAt, NoCandle, Reasons
<1>10. CASE FetchNothing
  BY <1>10 DEF FetchNothing, Market, Return, NothingFetched, Never, NoCandle, Reasons
<1>11. CASE ReplayExit
  BY <1>11 DEF ReplayExit, Market, RowFree, Return, NothingFetched, Never, NoCandle, Reasons
<1>12. CASE ReplayGone
  BY <1>12 DEF ReplayGone, Market, Return, NothingFetched, Never, NoCandle, Reasons
<1>13. CASE ReplayFails
  BY <1>13 DEF ReplayFails, Market
<1>14. CASE Watermark
  <2>1. CASE got.last \in Nat
    BY <1>14, <2>1, ClosesInOrder DEF Watermark, WatermarkAt, Market, Return, NothingFetched, Never, NoCandle, Reasons
  <2>2. CASE got.last = NoCandle
    <3>1. CloseOf(got.last) = 0
      BY <2>2, MinuteAssumption DEF CloseOf, NoCandle
    <3> QED
      BY <1>14, <3>1 DEF Watermark, WatermarkAt, Market, Return, NothingFetched, Never, NoCandle, Reasons
  <2> QED
    BY <2>1, <2>2
<1>15. CASE SweepFails
  BY <1>15 DEF SweepFails, Market, Return, NothingFetched, Never, NoCandle, Reasons
<1>16. CASE Crash
  BY <1>16 DEF Crash, Market, Return, NothingFetched, Never, NoCandle, Reasons
<1>17. CASE UNCHANGED vars
  BY <1>17 DEF vars, Market, Sweep
<1> QED
  BY <1>1, <1>2, <1>3, <1>4, <1>5, <1>6, <1>7, <1>8, <1>9, <1>10, <1>11, <1>12, <1>13, <1>14, <1>15, <1>16, <1>17 DEF Next

\* What a sweep has fetched stays true of the market while it replays it: new
\* slots come after asOf.
LEMMA SweepStep == TypeOK /\ SweepInv /\ [Next]_vars => SweepInv'
<1> SUFFICES ASSUME TypeOK, SweepInv, [Next]_vars PROVE SweepInv'
  OBVIOUS
<1> USE DEF TypeOK, SweepInv, FromWatermark, HasData, CleanData, HitData
<1>1. CASE Passes
  <2>1. /\ UNCHANGED <<pc, from, got, reconciled, created>>
        /\ now' = now + 1
        /\ stops \subseteq stops' /\ targets \subseteq targets'
        /\ stops' \subseteq stops \cup {now + 1}
        /\ Hits' \subseteq Hits \cup {now + 1}
    BY <1>1 DEF Passes, Sweep, Hits
  <2>2. FromWatermark'
    BY <2>1
  <2>3. HasData'
    BY <2>1 DEF CandleOf, CloseOf
  <2>4. CleanData'
    BY <2>1 DEF CandleOf
  <2>5. HitData'
    <3>1. SUFFICES ASSUME pc = "breached" PROVE HitData'
      BY <2>1
    <3>2. ~(now + 1 <= got.asOf)
      BY <3>1
    <3>3. /\ \A t \in Hits' : t <= got.asOf => t \in Hits
          /\ \A t \in stops' : t <= got.asOf => t \in stops
      BY <2>1, <3>2
    <3> QED
      BY <2>1, <3>1, <3>3 DEF CandleOf, CloseOf
  <2> QED
    BY <2>2, <2>3, <2>4, <2>5
<1>2. CASE Tick
  <2>1. UNCHANGED <<pc, from, got, reconciled, created, now, stops, targets>>
    BY <1>2 DEF Tick, Market, Sweep
  <2> QED
    BY <2>1 DEF Hits, CandleOf, CloseOf
<1>3. CASE TickHits
  <2>1. UNCHANGED <<pc, from, got, reconciled, created, now, stops, targets>>
    BY <1>3 DEF TickHits, Market, Sweep
  <2> QED
    BY <2>1 DEF Hits, CandleOf, CloseOf
<1>4. CASE TickFails
  <2>1. UNCHANGED <<pc, from, got, reconciled, created, now, stops, targets>>
    BY <1>4 DEF TickFails, Market, Sweep
  <2> QED
    BY <2>1 DEF Hits, CandleOf, CloseOf
<1>5. CASE Closes
  <2>1. UNCHANGED <<pc, from, got, reconciled, created, now, stops, targets>>
    BY <1>5 DEF Closes, Market, Sweep
  <2> QED
    BY <2>1 DEF Hits, CandleOf, CloseOf
<1>6. CASE ShortGap
  <2>1. pc' = "idle"
    BY <1>6 DEF ShortGap, Due, Sweep
  <2> QED
    BY <2>1
<1>7. CASE Begin
  BY <1>7 DEF Begin, Due, Cursor, Latest, Market, Never
<1>8. CASE FetchClean
  <2>1. PICK asOf \in 0..now :
            /\ Valid(asOf) # {}
            /\ \A c \in Valid(asOf) : ~Touched(c, Hits, asOf)
            /\ got' = Fetched(asOf, NoCandle, "NONE")
    BY <1>8 DEF FetchClean
  <2>2. /\ UNCHANGED <<from, reconciled, created, now, stops, targets>>
        /\ pc = "fetching" /\ pc' = "clean"
    BY <1>8 DEF FetchClean, Market
  <2>3. /\ got'.asOf = asOf /\ got'.first = FirstAsOf(asOf)
        /\ got'.last = CandleOf(asOf)
    BY <2>1 DEF Fetched
  <2>4. CloseOf(CandleOf(asOf)) > from
    BY <2>1, ValidReachesBeyond
  <2>5. HasData'
    BY <2>2, <2>3, <2>4, Numbers DEF CandleOf, CloseOf
  <2>6. CleanData'
    <3>1. SUFFICES ASSUME NEW t \in Hits, from <= t, t <= asOf,
                          ~(CandleOf(t) < FirstAsOf(asOf))
                   PROVE  FALSE
      BY <2>2, <2>3 DEF Hits, CandleOf
    <3>2. CandleOf(t) \in Valid(asOf)
      BY <3>1, SeenIsValid DEF Hits
    <3> QED
      BY <2>1, <3>1, <3>2 DEF Touched
  <2> QED
    BY <2>2, <2>5, <2>6
<1>9. CASE FetchHit
  <2>0. PICK asOf \in 0..now : \E c \in Valid(asOf) :
            /\ Touched(c, Hits, asOf)
            /\ \A d \in Valid(asOf) : Touched(d, Hits, asOf) => c <= d
            /\ got' = Fetched(asOf, c, ReasonAt(c, asOf))
    BY <1>9 DEF FetchHit
  <2>1. PICK c \in Valid(asOf) :
            /\ Touched(c, Hits, asOf)
            /\ \A d \in Valid(asOf) : Touched(d, Hits, asOf) => c <= d
            /\ got' = Fetched(asOf, c, ReasonAt(c, asOf))
    BY <2>0
  <2>2. /\ UNCHANGED <<from, reconciled, created, now, stops, targets>>
        /\ pc = "fetching" /\ pc' = "breached"
    BY <1>9 DEF FetchHit, Market
  <2>3. /\ got'.asOf = asOf /\ got'.first = FirstAsOf(asOf)
        /\ got'.last = CandleOf(asOf) /\ got'.hit = c
        /\ got'.reason = ReasonAt(c, asOf)
    BY <2>1 DEF Fetched
  <2>4. CloseOf(CandleOf(asOf)) > from
    BY <2>1, ValidReachesBeyond
  <2>5. HasData'
    BY <2>2, <2>3, <2>4, Numbers DEF CandleOf, CloseOf
  <2>6. c \in Nat /\ CloseOf(c) > from
    BY Numbers DEF Valid, CandlesAsOf
  <2>7. \/ ReasonAt(c, asOf) = "STOPLOSS_HIT" /\ \E t \in stops : CandleOf(t) = c
        \/ ReasonAt(c, asOf) = "TARGET_HIT" /\ \E t \in targets : CandleOf(t) = c
    BY <2>1 DEF ReasonAt, Touched, Hits
  <2>8. ASSUME NEW t \in Hits, from <= t, t <= asOf, CandleOf(t) >= FirstAsOf(asOf)
        PROVE  CandleOf(t) >= c
    <3>1. CandleOf(t) \in Valid(asOf)
      BY <2>8, SeenIsValid, Numbers DEF Hits
    <3>2. Touched(CandleOf(t), Hits, asOf)
      BY <2>8 DEF Touched
    <3> QED
      BY <2>1, <2>6, <3>1, <3>2, Numbers DEF Hits
  <2>9. \A t \in stops : t <= asOf /\ CandleOf(t) = c => ReasonAt(c, asOf) = "STOPLOSS_HIT"
    BY DEF ReasonAt, Touched
  <2>10. HitData'
    BY <2>2, <2>3, <2>6, <2>7, <2>8, <2>9 DEF Hits, CandleOf, CloseOf
  <2> QED
    BY <2>2, <2>5, <2>10
<1>10. CASE FetchNothing
  <2>1. pc' = "idle"
    BY <1>10 DEF FetchNothing, Return
  <2> QED
    BY <2>1
<1>11. CASE ReplayExit
  <2>1. pc' = "idle"
    BY <1>11 DEF ReplayExit, Return
  <2> QED
    BY <2>1
<1>12. CASE ReplayGone
  <2>1. pc' = "idle"
    BY <1>12 DEF ReplayGone, Return
  <2> QED
    BY <2>1
<1>13. CASE ReplayFails
  BY <1>13 DEF ReplayFails, Market, Hits
<1>14. CASE Watermark
  <2>1. pc' = "idle"
    BY <1>14 DEF Watermark, Return
  <2> QED
    BY <2>1
<1>15. CASE SweepFails
  <2>1. pc' = "idle"
    BY <1>15 DEF SweepFails, Return
  <2> QED
    BY <2>1
<1>16. CASE Crash
  <2>1. pc' = "idle"
    BY <1>16 DEF Crash, Return
  <2> QED
    BY <2>1
<1>17. CASE UNCHANGED vars
  BY <1>17 DEF vars, Market, Sweep, Hits, CandleOf, CloseOf
<1> QED
  BY <1>1, <1>2, <1>3, <1>4, <1>5, <1>6, <1>7, <1>8, <1>9, <1>10, <1>11, <1>12, <1>13, <1>14, <1>15, <1>16, <1>17 DEF Next

\* Only a short gap and the end of a sweep move the watermark, only a sweep's
\* exit is recorded, and time and prices only grow.
LEMMA WhatChanges ==
    ASSUME [Next]_vars
    PROVE  /\ reconciled' = reconciled \/ ShortGap \/ Watermark
           /\ exit' = exit \/ ReplayExit
           /\ UNCHANGED created
           /\ stops \subseteq stops' /\ targets \subseteq targets'
           /\ UNCHANGED now \/ now' = now + 1
           /\ ReplayExit \/ open' = open \/ Closes
<1>1. CASE UNCHANGED vars
  BY <1>1 DEF vars
<1>2. CASE Next
  BY <1>2 DEF Next, Passes, Tick, TickHits, TickFails, Closes, ShortGap, Begin, FetchClean, FetchHit,
          FetchNothing, ReplayExit, ReplayGone, ReplayFails, Watermark, SweepFails, Crash,
          Market, Sweep
<1> QED
  BY <1>1, <1>2

\* A fetch reaches one candle beyond the clock at most.
LEMMA NearClockStep ==
    TypeOK /\ SweepInv /\ WatermarkNearClock /\ [Next]_vars => WatermarkNearClock'
<1> SUFFICES ASSUME TypeOK, SweepInv, WatermarkNearClock, [Next]_vars
             PROVE  reconciled' <= now' + Minute
  BY DEF WatermarkNearClock
<1>1. CASE reconciled' = reconciled
  BY <1>1, WhatChanges, MinuteAssumption DEF WatermarkNearClock, TypeOK, Never
<1>2. CASE ShortGap
  BY <1>2, MinuteAssumption DEF ShortGap, Market, TypeOK
<1>3. CASE Watermark
  <2>1. /\ reconciled' = CloseOf(CandleOf(got.asOf))
        /\ now' = now
        /\ got.asOf \in 0..now
    BY <1>3 DEF Watermark, WatermarkAt, Market, SweepInv, HasData
  <2>2. CloseOf(CandleOf(got.asOf)) <= got.asOf + Minute
    BY <2>1, SlotInCandle DEF TypeOK
  <2>3. CloseOf(CandleOf(got.asOf)) \in Nat
    BY <2>1, Numbers DEF TypeOK
  <2> QED
    BY <2>1, <2>2, <2>3, MinuteAssumption DEF TypeOK
<1> QED
  BY <1>1, <1>2, <1>3, WhatChanges

\* An exit is grounded when it is made, and closed positions stay closed.
LEMMA GroundedStep ==
    TypeOK /\ SweepInv /\ ExitIsGrounded /\ [Next]_vars => ExitIsGrounded'
<1> SUFFICES ASSUME TypeOK, SweepInv, ExitIsGrounded, [Next]_vars
             PROVE  ExitIsGrounded'
  OBVIOUS
<1>1. CASE ReplayExit
  <2>1. /\ exit' = [candle |-> got.hit, reason |-> got.reason]
        /\ open' = FALSE
        /\ pc = "breached"
        /\ UNCHANGED <<stops, targets, created>>
    BY <1>1 DEF ReplayExit, Market
  <2>2. created \in Nat /\ created <= from /\ from \in Nat /\ got.hit \in Nat /\ CloseOf(got.hit) > from
    BY <2>1 DEF TypeOK, SweepInv, FromWatermark, HitData
  <2>3. CloseOf(got.hit) > created
    BY <2>2, ClosesInOrder
  <2>4. \E t \in IF got.reason = "STOPLOSS_HIT" THEN stops ELSE targets :
            CandleOf(t) = got.hit
    BY <2>1 DEF SweepInv, HitData
  <2> QED
    BY <2>1, <2>3, <2>4 DEF ExitIsGrounded, CandleOf, CloseOf
<1>2. CASE ~ReplayExit
  <2>1. /\ exit' = exit /\ created' = created
        /\ stops \subseteq stops' /\ targets \subseteq targets'
        /\ open' = open \/ Closes
    BY <1>2, WhatChanges
  <2>2. ~open => ~open'
    BY <2>1 DEF Closes
  <2> QED
    BY <2>1, <2>2 DEF ExitIsGrounded, CandleOf, CloseOf
<1> QED
  BY <1>1, <1>2

LEMMA InvariantInit == Init => IInv
<1> SUFFICES ASSUME Init PROVE IInv
  OBVIOUS
<1>1. TypeOK
  <2>1. created \in Nat /\ now = created
    BY TimesAssumption DEF Init
  <2>2. stops \subseteq 0..now /\ targets \subseteq 0..now
    BY <2>1 DEF Init
  <2>3. got = NothingFetched /\ exit = NoExit
    BY DEF Init
  <2>4. /\ NothingFetched \in [asOf : {Never} \cup Nat, first : {NoCandle} \cup Nat,
                               last : {NoCandle} \cup Nat, hit : {NoCandle} \cup Nat,
                               reason : Reasons]
        /\ NoExit \in [candle : {NoCandle} \cup Nat, reason : Reasons]
    BY DEF NothingFetched, NoExit, Reasons
  <2>5. open = TRUE /\ evaluated = Never /\ reconciled = Never /\ ticking = FALSE
        /\ pc = "idle" /\ from = 0
    BY DEF Init
  <2>6. got \in [asOf : {Never} \cup Nat, first : {NoCandle} \cup Nat,
                  last : {NoCandle} \cup Nat, hit : {NoCandle} \cup Nat,
                  reason : Reasons]
    BY <2>3, <2>4, Zenon
  <2>7. exit \in [candle : {NoCandle} \cup Nat, reason : Reasons]
    BY <2>3, <2>4, Zenon
  <2>8. ticking \in BOOLEAN /\ (ticking => open) /\ open \in BOOLEAN
    BY <2>5, Zenon
  <2>9. /\ created \in 0..now
        /\ evaluated \in {Never} \cup 0..now /\ reconciled \in {Never} \cup Nat
        /\ from \in Nat
        /\ pc \in {"idle", "fetching", "breached", "clean", "failed"}
    BY <2>1, <2>5
  <2> QED
    BY <2>1, <2>2, <2>6, <2>7, <2>8, <2>9 DEF TypeOK
<1> QED
  BY <1>1, MinuteAssumption, TimesAssumption
     DEF Init, IInv, SweepInv, FromWatermark, HasData, CleanData, HitData,
         WatermarkNearClock, ExitIsGrounded, Never

THEOREM ReconciliationInvariant == Spec => []IInv
<1>1. IInv /\ [Next]_vars => IInv'
  BY TypeStep, SweepStep, NearClockStep, GroundedStep DEF IInv
<1> QED
  BY <1>1, InvariantInit, PTL DEF Spec

-----------------------------------------------------------------------------
(* The theorems. *)

\* The variables keep their types, and while a tick waits with the row of a
\* position, the position is open: nobody else closes it.
THEOREM ReconciliationType == Spec => []TypeOK
BY ReconciliationInvariant, PTL DEF IInv

\* The watermark is never further ahead than the candle that is forming.
THEOREM NearClock == Spec => []WatermarkNearClock
BY ReconciliationInvariant, PTL DEF IInv

\* Every exit of a sweep has a price in a candle that closed after the opening.
THEOREM Grounded == Spec => []ExitIsGrounded
BY ReconciliationInvariant, PTL DEF IInv

\* The watermark never goes back, whatever old candles a fetch returns.
THEOREM NeverRegresses == Spec => WatermarkNeverRegresses
<1>1. ASSUME IInv, [Next]_vars PROVE [WatermarkAdvances]_vars
  <2>1. CASE reconciled' = reconciled
    BY <2>1, <1>1 DEF WatermarkAdvances, IInv, TypeOK, Never
  <2>2. CASE ShortGap
    BY <2>2, <1>1, StaleAssumption
       DEF ShortGap, Due, WatermarkAdvances, IInv, TypeOK, Never
  <2>3. CASE Watermark
    <3>1. /\ reconciled' = CloseOf(got.last) /\ CloseOf(got.last) > from
          /\ reconciled <= from /\ from \in Nat /\ got.last \in Nat
      BY <2>3, <1>1, Numbers
         DEF Watermark, WatermarkAt, IInv, TypeOK, SweepInv, FromWatermark, HasData
    <3> QED
      BY <3>1, <1>1, ClosesInOrder DEF WatermarkAdvances, IInv, TypeOK, Never
  <2> QED
    BY <2>1, <2>2, <2>3, <1>1, WhatChanges
<1> QED
  BY <1>1, ReconciliationInvariant, PTL DEF Spec, WatermarkNeverRegresses

\* A sweep that has tried no exit leaves behind no slot at a level that its
\* data could show, whenever the ticks came in between.
THEOREM PassNoHit == Spec => CleanSweepsPassNoHit
<1>1. ASSUME IInv PROVE PassesNothingSeen
  BY <1>1 DEF IInv, SweepInv, CleanData, PassesNothingSeen
<1> QED
  BY <1>1, ReconciliationInvariant, PTL DEF Spec, CleanSweepsPassNoHit

\* An exit takes the first candle at a level, and the stop before the target.
THEOREM FirstHit == Spec => ExitsAtFirstHit
<1>1. ASSUME IInv, [Next]_vars PROVE [TakesFirstHit]_vars
  <2>1. CASE exit' = exit
    BY <2>1 DEF TakesFirstHit
  <2>2. CASE ReplayExit
    <3>1. pc = "breached" /\ exit'.candle = got.hit /\ exit'.reason = got.reason
      BY <2>2 DEF ReplayExit
    <3> QED
      BY <3>1, <1>1 DEF TakesFirstHit, IInv, SweepInv, HitData
  <2> QED
    BY <2>1, <2>2, <1>1, WhatChanges
<1> QED
  BY <1>1, ReconciliationInvariant, PTL DEF Spec, ExitsAtFirstHit

=============================================================================
