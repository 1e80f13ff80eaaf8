------------------------ MODULE ScanExecutionProofs ------------------------
(***************************************************************************)
(* Proofs about the lock and about scans, for any number of workers and    *)
(* any intervals that fit together.  The lock by itself is exclusive among *)
(* the workers that have not lapsed, only the late lapse, and it is a      *)
(* lease; scans use it as it allows, so what is proved of it holds of      *)
(* them; and what they save and tell their clients is in order.            *)
(***************************************************************************)
EXTENDS ScanExecution, TLAPS

-----------------------------------------------------------------------------
(* The lock by itself.                                                     *)

\* What lies behind Exclusive and OnlyTheLateLapse: a thief has read an owner
\* that lapsed, and a punctual owner's row carries its last heartbeat.
Punctual(w) ==
    /\ due[w] \in Nat
    /\ due[w] = row.beat + Beat
    /\ now <= due[w] + Grace

LockInv ==
    /\ LockTypeOK
    /\ Exclusive
    /\ OnlyTheLateLapse
    /\ \A w \in Workers : seen[w] # None => seen[w] \in lapsed
    /\ \A w \in Workers \ late : row.owner = w => Punctual(w)

\* The initial state.
LEMMA InitInv == LockInit => LockInv
BY NoneAssumption, IntervalAssumption
   DEF LockInit, LockInv, LockTypeOK, Exclusive, OnlyTheLateLapse, NoRow

\* Time makes late whoever is no longer punctual.
LEMMA TickInv == LockInv /\ Tick => LockInv'
<1> SUFFICES ASSUME LockInv, Tick PROVE LockInv'
  OBVIOUS
<1> USE NoneAssumption, IntervalAssumption DEF LockInv, LockTypeOK, Tick
<1>1. LockTypeOK'
  OBVIOUS
<1>2. Exclusive'
  BY DEF Exclusive
<1>3. OnlyTheLateLapse'
  BY DEF OnlyTheLateLapse
<1>4. ASSUME NEW w \in Workers, w \notin late', row'.owner = w PROVE Punctual(w)'
  <2>1. Punctual(w)
    BY <1>4
  <2>2. ~ (now >= due[w] + Grace)
    BY <1>4, <2>1 DEF Punctual
  <2> QED BY <2>1, <2>2 DEF Punctual
<1> QED BY <1>1, <1>2, <1>3, <1>4

\* Taking a row that nobody, or only the lapsed, act as the owners of.
LEMMA OwnsInv ==
  ASSUME NEW w \in Workers, LockInv, UNCHANGED <<now, lapsed>>,
         Owns(w) \/ OwnsUnknowingly(w),
         row.owner = None \/ row.owner \in lapsed,
         seen' \in [Workers -> Workers \cup {None}],
         \A v \in Workers : seen'[v] # None => seen'[v] = seen[v]
  PROVE  LockInv'
<1> USE NoneAssumption, IntervalAssumption DEF LockInv, LockTypeOK, Owns, OwnsUnknowingly
<1>1. LockTypeOK'
  OBVIOUS
<1>2. \A v \in locked : v \in lapsed
  BY DEF Exclusive
<1>3. Exclusive'
  BY <1>2 DEF Exclusive
<1>4. OnlyTheLateLapse'
  BY DEF OnlyTheLateLapse
<1>5. ASSUME NEW v \in Workers, v \notin late', row'.owner = v PROVE Punctual(v)'
  BY <1>5 DEF Punctual
<1> QED BY <1>1, <1>3, <1>4, <1>5

\* Reading a dead owner: it is late, or its row would be younger.
LEMMA ReadStaleInv ==
  ASSUME NEW w \in Workers, LockInv, ReadStale(w)
  PROVE  LockInv' /\ row.owner \in late
<1> USE NoneAssumption, IntervalAssumption DEF LockInv, LockTypeOK, ReadStale
<1>1. row.owner \in Workers
  OBVIOUS
<1>2. row.owner \in late
  BY <1>1 DEF Punctual, IsStale
<1>3. LockTypeOK' /\ Exclusive'
  BY <1>1 DEF Exclusive
<1>4. OnlyTheLateLapse'
  BY <1>2 DEF OnlyTheLateLapse
<1>5. \A v \in Workers \ late' : row'.owner = v => Punctual(v)'
  BY DEF Punctual
<1> QED BY <1>2, <1>3, <1>4, <1>5

\* A heartbeat, whether the database takes it or not.
LEMMA BeatInv ==
  ASSUME NEW w \in Workers, LockInv, Heartbeat(w) \/ HeartbeatFails(w)
  PROVE  LockInv'
<1> USE NoneAssumption, IntervalAssumption
    DEF LockInv, LockTypeOK, Heartbeat, HeartbeatFails
<1>1. LockTypeOK'
  OBVIOUS
<1>2. Exclusive' /\ OnlyTheLateLapse'
  BY DEF Exclusive, OnlyTheLateLapse
<1>3. ASSUME NEW v \in Workers, v \notin late', row'.owner = v PROVE Punctual(v)'
  BY <1>3 DEF Punctual
<1> QED BY <1>1, <1>2, <1>3

\* The end of an ownership, orderly or not.
LEMMA EndInv ==
  ASSUME NEW w \in Workers, LockInv, Release(w) \/ Abandon(w)
  PROVE  LockInv'
<1> USE NoneAssumption, IntervalAssumption
    DEF LockInv, LockTypeOK, Release, Abandon, NoRow
<1>1. LockTypeOK'
  OBVIOUS
<1>2. Exclusive' /\ OnlyTheLateLapse'
  BY DEF Exclusive, OnlyTheLateLapse
<1>3. ASSUME NEW v \in Workers, v \notin late', row'.owner = v PROVE Punctual(v)'
  BY <1>3 DEF Punctual
<1> QED BY <1>1, <1>2, <1>3

\* The invariant is inductive.
LEMMA NextInv == LockInv /\ [LockNext]_lockVars => LockInv'
<1> SUFFICES ASSUME LockInv, [LockNext]_lockVars PROVE LockInv'
  OBVIOUS
<1>1. CASE Tick
  BY <1>1, TickInv
<1>2. ASSUME NEW w \in Workers, Insert(w) PROVE LockInv'
  <2>1. row.owner = None /\ (Owns(w) \/ OwnsUnknowingly(w)) /\ UNCHANGED <<now, seen, lapsed>>
    BY <1>2 DEF Insert
  <2>2. seen' \in [Workers -> Workers \cup {None}]
    BY <2>1 DEF LockInv, LockTypeOK
  <2> QED BY <2>1, <2>2, OwnsInv
<1>3. ASSUME NEW w \in Workers, Steal(w) PROVE LockInv'
  <2>1. row.owner \in lapsed /\ (Owns(w) \/ OwnsUnknowingly(w)) /\ UNCHANGED <<now, lapsed>>
    BY <1>3 DEF Steal, LockInv
  <2>2. /\ seen' \in [Workers -> Workers \cup {None}]
        /\ \A v \in Workers : seen'[v] # None => seen'[v] = seen[v]
    BY <1>3 DEF Steal, LockInv, LockTypeOK
  <2> QED BY <2>1, <2>2, OwnsInv
<1>4. ASSUME NEW w \in Workers, ReadStale(w) PROVE LockInv'
  BY <1>4, ReadStaleInv
<1>5. ASSUME NEW w \in Workers, StealMissed(w) PROVE LockInv'
  BY <1>5 DEF StealMissed, LockInv, LockTypeOK, Exclusive, OnlyTheLateLapse, Punctual
<1>6. ASSUME NEW w \in Workers, Heartbeat(w) \/ HeartbeatFails(w) PROVE LockInv'
  BY <1>6, BeatInv
<1>7. ASSUME NEW w \in Workers, Release(w) \/ Abandon(w) PROVE LockInv'
  BY <1>7, EndInv
<1>9. ASSUME NEW w \in Workers, GiveUp(w) PROVE LockInv'
  BY <1>9 DEF GiveUp, LockInv, LockTypeOK, Exclusive, OnlyTheLateLapse, Punctual
<1>8. CASE UNCHANGED lockVars
  BY <1>8 DEF lockVars, LockInv, LockTypeOK, Exclusive, OnlyTheLateLapse, Punctual
<1> QED BY <1>1, <1>2, <1>3, <1>4, <1>5, <1>6, <1>7, <1>8, <1>9 DEF LockNext

\* The lock keeps its invariant.
THEOREM LockInvariant == LockSpec => []LockInv
BY InitInv, NextInv, PTL DEF LockSpec

\* The state of the lock has its type.
THEOREM LockTyped == LockSpec => []LockTypeOK
<1>1. LockInv => LockTypeOK
  BY DEF LockInv
<1> QED BY <1>1, LockInvariant, PTL

\* Two workers act as owners at once only if one of them was found dead.
THEOREM LockExclusive == LockSpec => []Exclusive
<1>1. LockInv => Exclusive
  BY DEF LockInv
<1> QED BY <1>1, LockInvariant, PTL

\* Whoever was found dead had missed a heartbeat, or never had one.
THEOREM LockPunctualSafe == LockSpec => []OnlyTheLateLapse
<1>1. LockInv => OnlyTheLateLapse
  BY DEF LockInv
<1> QED BY <1>1, LockInvariant, PTL

\* Every step of the lock is a step of the lease, or none.
LEMMA LeaseStep == LockInv /\ [LockNext]_lockVars => [L!LeaseNext]_(L!leaseVars)
<1> SUFFICES ASSUME LockInv, [LockNext]_lockVars
             PROVE  L!LeaseNext \/ UNCHANGED L!leaseVars
  OBVIOUS
<1> USE DEF LockInv, LockTypeOK, L!LeaseNext, L!leaseVars
<1>1. CASE Tick
  BY <1>1 DEF Tick
<1>2. ASSUME NEW w \in Workers, Insert(w) PROVE L!Take(w)
  BY <1>2 DEF Insert, Owns, OwnsUnknowingly, L!Take
<1>3. ASSUME NEW w \in Workers, Steal(w) PROVE L!Take(w)
  BY <1>3 DEF Steal, Owns, OwnsUnknowingly, L!Take
<1>4. ASSUME NEW w \in Workers, ReadStale(w) PROVE row.owner \in Workers /\ L!Lapse(row.owner)
  BY <1>4 DEF ReadStale, L!Lapse
<1>5. ASSUME NEW w \in Workers, StealMissed(w) \/ GiveUp(w) PROVE UNCHANGED L!leaseVars
  BY <1>5 DEF StealMissed, GiveUp
<1>6. ASSUME NEW w \in Workers, Heartbeat(w) \/ HeartbeatFails(w) PROVE UNCHANGED L!leaseVars
  BY <1>6 DEF Heartbeat, HeartbeatFails
<1>7. ASSUME NEW w \in Workers, Release(w) PROVE L!Leave(w)
  BY <1>7 DEF Release, NoRow, L!Leave
<1>8. ASSUME NEW w \in Workers, Abandon(w) PROVE L!Leave(w) \/ UNCHANGED L!leaseVars
  BY <1>8 DEF Abandon, L!Leave
<1>9. CASE UNCHANGED lockVars
  BY <1>9 DEF lockVars
<1> QED
  BY <1>1, <1>2, <1>3, <1>4, <1>5, <1>6, <1>7, <1>8, <1>9 DEF LockNext

\* The row and the beliefs of the workers implement the lease.
THEOREM LockIsLease == LockSpec => RefinesLease
<1>1. LockInit => L!LeaseInit
  BY DEF LockInit, NoRow, L!LeaseInit
<1> QED BY <1>1, LeaseStep, LockInvariant, PTL DEF LockSpec, RefinesLease, L!LeaseSpec

-----------------------------------------------------------------------------
(* Scans use the lock.                                                     *)

\* What a scan does to the lock is a step of the lock.
LEMMA StepUsesLock == [Next]_vars => [LockNext]_lockVars
<1> SUFFICES ASSUME [Next]_vars PROVE [LockNext]_lockVars
  OBVIOUS
<1> USE DEF LockNext
<1>1. CASE Time \/ CacheExpires \/ UNCHANGED vars
  BY <1>1 DEF Time, CacheExpires, vars
<1>2. ASSUME NEW w \in Workers, TakeLock(w) \/ TryLock(w) PROVE LockNext
  BY <1>2 DEF TakeLock, TryLock
<1>3. ASSUME NEW w \in Workers,
             NotReady(w) \/ Finish(w) \/ Crash(w) \/ TimedOut(w) \/ Beats(w)
      PROVE  LockNext
  BY <1>3 DEF NotReady, Finish, Crash, TimedOut, Beats
<1>4. ASSUME NEW w \in Workers,
             \/ Denied(w) \/ PreparationRaises(w) \/ Ready(w) \/ CacheHit(w) \/ Scanned(w)
             \/ ScanFails(w) \/ Persisted(w) \/ PersistFails(w) \/ Requested(w)
      PROVE  UNCHANGED lockVars
  BY <1>4 DEF Denied, PreparationRaises, Ready, CacheHit, Scanned, ScanFails,
              Persisted, PersistFails, Requested
<1> QED BY <1>1, <1>2, <1>3, <1>4 DEF Next, ScanStep

\* Scans implement the specification of the lock.
THEOREM ScansUseTheLock == Spec => LockSpec
<1>1. Init => LockInit
  BY DEF Init
<1> QED BY <1>1, StepUsesLock, PTL DEF Spec, LockSpec

\* Two scans that have the lock at once: one of them was found dead.
THEOREM ScansExclusive == Spec => []Exclusive
BY ScansUseTheLock, LockExclusive, PTL

\* A scan that is found dead had missed a heartbeat.
THEOREM ScansPunctualSafe == Spec => []OnlyTheLateLapse
BY ScansUseTheLock, LockPunctualSafe, PTL

\* The scans' use of the row is a lease.
THEOREM ScansHoldALease == Spec => RefinesLease
BY ScansUseTheLock, LockIsLease

-----------------------------------------------------------------------------
(* What scans save and say.                                                *)

\* Where a scan has to be for what it has: the lock, the heartbeat, the word
\* it gave to its client; and the last granted of the living is the newest.
HasLock(w) ==
    /\ pc[w] \in Active => w \in locked
    /\ w \in locked => pc[w] \in Active \/ w \in raised
    /\ due[w] # None => w \in locked
    /\ w \in raised => pc[w] \in {"ended", "dead"}

ToldRight(w) ==
    told[w] = "durable" => /\ pc[w] \in {"releasing", "ended", "dead"}
                           /\ w \in saved
                           /\ snapshot[w] # "RUNNING"

LastGranted(w) ==
    w \in locked \ lapsed => \A v \in Workers \ {w} : order[v] < order[w]

ScanInv ==
    /\ TypeOK
    /\ \A w \in Workers : HasLock(w) /\ ToldRight(w) /\ LastGranted(w)

\* The initial state.
LEMMA ScanInitInv == Init => ScanInv
<1> SUFFICES ASSUME Init PROVE ScanInv
  OBVIOUS
<1>1. LockTypeOK
  BY InitInv DEF Init, LockInv
<1>2. TypeOK
  <2>1. order \in [Workers -> 0 .. grants] /\ grants \in Nat
    BY DEF Init
  <2> QED BY <1>1, <2>1 DEF Init, TypeOK
<1>3. \A w \in Workers : HasLock(w) /\ ToldRight(w) /\ LastGranted(w)
  BY NoneAssumption DEF Init, HasLock, ToldRight, LastGranted, LockInit, Active
<1> QED BY <1>2, <1>3 DEF ScanInv

\* Every step keeps the type.
LEMMA ScanTypeStep == ScanInv /\ LockInv' /\ [Next]_vars => TypeOK'
<1> SUFFICES ASSUME ScanInv, LockInv', [Next]_vars PROVE TypeOK'
  OBVIOUS
<1> USE DEF ScanInv, TypeOK, Goto, Tell, Active
<1>0. LockTypeOK'
  BY DEF LockInv
<1>1. CASE Time \/ CacheExpires \/ UNCHANGED vars
  BY <1>0, <1>1 DEF Time, CacheExpires, vars, scanVars
<1>2. ASSUME NEW w \in Workers, TakeLock(w) PROVE TypeOK'
  BY <1>0, <1>2 DEF TakeLock, Acquired
<1>3. ASSUME NEW w \in Workers, TryLock(w) \/ Beats(w) PROVE TypeOK'
  BY <1>0, <1>3 DEF TryLock, Beats, scanVars
<1>4. ASSUME NEW w \in Workers,
             \/ Denied(w) \/ TimedOut(w) \/ NotReady(w) \/ PreparationRaises(w)
             \/ Finish(w) \/ Crash(w) \/ Requested(w)
      PROVE TypeOK'
  BY <1>0, <1>4 DEF Denied, TimedOut, NotReady, PreparationRaises, Finish, Crash, Requested
<1>5. ASSUME NEW w \in Workers,
             Ready(w) \/ CacheHit(w) \/ Scanned(w) \/ ScanFails(w)
      PROVE TypeOK'
  BY <1>0, <1>5 DEF Ready, CacheHit, Scanned, ScanFails
<1>6. ASSUME NEW w \in Workers, Persisted(w) \/ PersistFails(w) PROVE TypeOK'
  BY <1>0, <1>6 DEF Persisted, PersistFails, Committed
<1> QED BY <1>1, <1>2, <1>3, <1>4, <1>5, <1>6 DEF Next, ScanStep

\* Taking the lock: whoever else acts as owner was found dead.
LEMMA TakeLockInv ==
  ASSUME ScanInv, LockInv, LockInv', TypeOK', NEW w \in Workers, TakeLock(w)
  PROVE  ScanInv'
<1> USE NoneAssumption DEF ScanInv, TypeOK, LockTypeOK, TakeLock
<1>1. /\ row'.owner = w
      /\ locked' \in {locked, locked \cup {w}}
      /\ due' = due \/ (due' = [due EXCEPT ![w] = now + Beat] /\ w \in locked')
      /\ UNCHANGED lapsed
  BY DEF Insert, Steal, Owns, OwnsUnknowingly
<1>2. w \notin locked /\ w \notin raised
  BY DEF HasLock, Active
<1>3. ASSUME NEW u \in Workers PROVE HasLock(u)'
  BY <1>1, <1>2 DEF HasLock, Acquired, Goto, Tell, Active
<1>4. ASSUME NEW u \in Workers PROVE ToldRight(u)'
  BY <1>1, <1>2 DEF ToldRight, Acquired, Goto, Tell
<1>5. ASSUME NEW u \in Workers, u \in locked' \ lapsed', NEW v \in Workers \ {u}
      PROVE order'[v] < order'[u]
  <2>1. u = w
    BY <1>1, <1>5 DEF LockInv, Exclusive
  <2>2. order'[w] = grants + 1 /\ order'[v] = order[v]
    BY <1>1, <1>5, <2>1 DEF Acquired
  <2> QED BY <2>1, <2>2
<1> QED BY <1>3, <1>4, <1>5 DEF LastGranted

\* The other ways a scan touches the lock: its end, its heartbeat, its wait.
LEMMA LockStepInv ==
  ASSUME ScanInv, TypeOK', NEW w \in Workers,
         \/ TryLock(w) \/ Beats(w) \/ TimedOut(w)
         \/ NotReady(w) \/ Finish(w) \/ Crash(w)
  PROVE  ScanInv'
<1> USE NoneAssumption
<1>1. CASE TryLock(w)
  BY <1>1 DEF TryLock, ReadStale, StealMissed, scanVars, ScanInv, HasLock, ToldRight, LastGranted
<1>2. CASE Beats(w)
  BY <1>2 DEF Beats, Heartbeat, HeartbeatFails, scanVars, ScanInv, TypeOK, LockTypeOK,
              HasLock, ToldRight, LastGranted
<1>3. CASE TimedOut(w)
  BY <1>3 DEF TimedOut, GiveUp, Goto, Tell, ScanInv, TypeOK, Active, HasLock, ToldRight, LastGranted
<1>4. CASE NotReady(w) \/ Finish(w) \/ Crash(w)
  <2>1. /\ locked' = locked \ {w}
        /\ due' = [due EXCEPT ![w] = None]
        /\ UNCHANGED <<lapsed, order, saved, snapshot, raised>>
    BY <1>4 DEF NotReady, Finish, Crash, Release, Abandon
  <2>2. \E p \in {"ended", "dead"} : pc' = [pc EXCEPT ![w] = p]
    BY <1>4 DEF NotReady, Finish, Crash, Goto
  <2>3. told' = told \/ told' = [told EXCEPT ![w] = "error"]
    BY <1>4 DEF NotReady, Finish, Crash, Tell
  <2>4. ASSUME NEW u \in Workers PROVE HasLock(u)'
    BY <2>1, <2>2 DEF ScanInv, TypeOK, LockTypeOK, HasLock, Active
  <2>5. ASSUME NEW u \in Workers PROVE ToldRight(u)'
    BY <2>1, <2>2, <2>3 DEF ScanInv, TypeOK, ToldRight
  <2>6. ASSUME NEW u \in Workers PROVE LastGranted(u)'
    BY <2>1 DEF ScanInv, LastGranted
  <2> QED BY <2>4, <2>5, <2>6 DEF ScanInv
<1> QED BY <1>1, <1>2, <1>3, <1>4

\* The steps that leave the lock alone.
LEMMA ScanStepInv ==
  ASSUME ScanInv, TypeOK', NEW w \in Workers,
         \/ Denied(w) \/ PreparationRaises(w) \/ Ready(w) \/ CacheHit(w) \/ Scanned(w)
         \/ ScanFails(w) \/ Persisted(w) \/ PersistFails(w) \/ Requested(w)
  PROVE  ScanInv'
<1>1. UNCHANGED lockVars /\ UNCHANGED order
  BY DEF Denied, PreparationRaises, Ready, CacheHit, Scanned, ScanFails,
         Persisted, PersistFails, Requested
<1>2. ASSUME NEW u \in Workers PROVE HasLock(u)'
  <2>1. CASE Denied(w) \/ Requested(w)
    BY <1>1, <2>1 DEF Denied, Requested, Goto, lockVars, ScanInv, TypeOK, HasLock, Active
  <2>3. CASE PreparationRaises(w)
    BY <2>3 DEF PreparationRaises, Goto, lockVars, ScanInv, TypeOK, HasLock, Active
  <2>2. CASE Ready(w) \/ CacheHit(w) \/ Scanned(w) \/ ScanFails(w) \/ Persisted(w) \/ PersistFails(w)
    <3>1. /\ pc[w] \in Active
          /\ \E p \in Active : pc' = [pc EXCEPT ![w] = p]
          /\ UNCHANGED raised
      BY <2>2 DEF Ready, CacheHit, Scanned, ScanFails, Persisted, PersistFails, Goto, Active
    <3> QED BY <1>1, <3>1 DEF lockVars, ScanInv, TypeOK, HasLock, Active
  <2> QED BY <2>1, <2>2, <2>3
<1>3. ASSUME NEW u \in Workers PROVE ToldRight(u)'
  <2> USE DEF ScanInv, TypeOK, ToldRight, Goto, Tell
  <2>1. CASE Denied(w) \/ Requested(w) \/ PreparationRaises(w) \/ Scanned(w) \/ CacheHit(w)
    BY <2>1 DEF Denied, Requested, PreparationRaises, Scanned, CacheHit
  <2>2. CASE Ready(w)
    BY <2>2 DEF Ready
  <2>3. CASE ScanFails(w)
    BY <2>3 DEF ScanFails
  <2>4. CASE Persisted(w) \/ PersistFails(w)
    BY <2>4 DEF Persisted, PersistFails, Committed
  <2> QED BY <2>1, <2>2, <2>3, <2>4
<1>4. ASSUME NEW u \in Workers PROVE LastGranted(u)'
  BY <1>1 DEF lockVars, ScanInv, LastGranted
<1> QED BY <1>2, <1>3, <1>4 DEF ScanInv

\* The invariant of the scans is inductive, given the lock's.
LEMMA ScanNextInv == ScanInv /\ LockInv /\ LockInv' /\ [Next]_vars => ScanInv'
<1> SUFFICES ASSUME ScanInv, LockInv, LockInv', [Next]_vars PROVE ScanInv'
  OBVIOUS
<1>0. TypeOK'
  BY ScanTypeStep
<1>1. CASE Time \/ CacheExpires \/ UNCHANGED vars
  BY <1>0, <1>1 DEF Time, Tick, CacheExpires, vars, scanVars, lockVars,
                    ScanInv, HasLock, ToldRight, LastGranted
<1>2. ASSUME NEW w \in Workers, TakeLock(w) PROVE ScanInv'
  BY <1>0, <1>2, TakeLockInv
<1>3. ASSUME NEW w \in Workers,
             \/ TryLock(w) \/ Beats(w) \/ TimedOut(w)
             \/ NotReady(w) \/ Finish(w) \/ Crash(w)
      PROVE  ScanInv'
  BY <1>0, <1>3, LockStepInv
<1>4. ASSUME NEW w \in Workers,
             \/ Denied(w) \/ PreparationRaises(w) \/ Ready(w) \/ CacheHit(w) \/ Scanned(w)
             \/ ScanFails(w) \/ Persisted(w) \/ PersistFails(w) \/ Requested(w)
      PROVE  ScanInv'
  BY <1>0, <1>4, ScanStepInv
<1> QED BY <1>1, <1>2, <1>3, <1>4 DEF Next, ScanStep

\* The scans keep the lock's invariant and their own.
LEMMA ScanInvariant == Spec => [](LockInv /\ ScanInv)
<1>1. Spec => []LockInv
  BY ScansUseTheLock, LockInvariant, PTL
<1>2. Spec => Init /\ [][Next]_vars
  BY PTL DEF Spec
<1> QED BY <1>1, <1>2, ScanInitInv, ScanNextInv, PTL

\* The state of the scans has its type.
THEOREM ScansTyped == Spec => []TypeOK
<1>1. ScanInv => TypeOK
  BY DEF ScanInv
<1> QED BY <1>1, ScanInvariant, PTL

\* A heartbeat beats for a scan under way, or for one whose preparation raised.
THEOREM ScansBeat == Spec => []BeatsWhileScanning
<1>1. ScanInv => BeatsWhileScanning
  BY DEF ScanInv, HasLock, BeatsWhileScanning
<1> QED BY <1>1, ScanInvariant, PTL

\* A client that was told "durable" finds the results committed.
THEOREM ScansDurable == Spec => []DurableIsSaved
<1>1. ScanInv => DurableIsSaved
  BY DEF ScanInv, ToldRight, DurableIsSaved
<1> QED BY <1>1, ScanInvariant, PTL

\* The latest results come from ever later scans, silent ones apart.
THEOREM ScansNewest == Spec => NewestWins
<1> DEFINE Newer == latest' # latest /\ latest # None /\ latest' \notin lapsed =>
                        order[latest'] > order[latest]
<1>1. ScanInv /\ [Next]_vars => Newer
  <2> SUFFICES ASSUME ScanInv, [Next]_vars, latest' # latest, latest # None,
                      latest' \notin lapsed
               PROVE  order[latest'] > order[latest]
    OBVIOUS
  <2>1. PICK w \in Workers : (Persisted(w) \/ PersistFails(w)) /\ latest' = w
    <3>1. ~ (Time \/ CacheExpires \/ UNCHANGED vars)
      BY DEF Time, CacheExpires, vars, scanVars
    <3>2. ASSUME NEW w \in Workers,
                 \/ TakeLock(w) \/ TryLock(w) \/ Denied(w) \/ NotReady(w)
                 \/ PreparationRaises(w) \/ Ready(w) \/ CacheHit(w) \/ Scanned(w)
                 \/ ScanFails(w) \/ Finish(w) \/ Requested(w) \/ TimedOut(w)
                 \/ Beats(w) \/ Crash(w)
          PROVE  FALSE
      BY <3>2 DEF TakeLock, TryLock, Denied, NotReady, PreparationRaises, Ready, CacheHit,
                  Scanned, ScanFails, Finish, Requested, TimedOut, Beats, Crash, scanVars
    <3>3. ASSUME NEW w \in Workers, Persisted(w) \/ PersistFails(w) PROVE latest' = w
      BY <3>3 DEF Persisted, PersistFails, Committed
    <3> QED BY <3>1, <3>2, <3>3 DEF Next, ScanStep
  <2>2. pc[w] = "persisting"
    BY <2>1 DEF Persisted, PersistFails
  <2>3. w \in locked \ lapsed
    BY <2>1, <2>2 DEF ScanInv, HasLock, Active
  <2>4. latest \in Workers \ {w}
    BY <2>1 DEF ScanInv, TypeOK
  <2>5. order[latest] < order[w] /\ order[w] \in Nat /\ order[latest] \in Nat
    BY <2>3, <2>4 DEF ScanInv, TypeOK, LastGranted
  <2> QED BY <2>1, <2>5
<1>2. [Next]_vars /\ Newer => [Newer]_vars
  OBVIOUS
<1>3. Spec => [][Next]_vars
  BY PTL DEF Spec
<1> QED BY <1>1, <1>2, <1>3, ScanInvariant, PTL DEF NewestWins

=============================================================================
