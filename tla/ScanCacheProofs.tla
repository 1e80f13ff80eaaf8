-------------------------- MODULE ScanCacheProofs --------------------------
(***************************************************************************)
(* Proofs about the cache of the latest scan, for any number of requests,  *)
(* processes and scans: its type, one refill at a time among the requests  *)
(* that kept the lock, and forced requests that are never out of date.     *)
(***************************************************************************)
EXTENDS ScanCache, TLAPS

\* A task that took the lock still has it, unless it is known to have lost it.
Guarded(t) ==
    pc[t] \in {"recheckLocked"} \cup Refilling /\ t \notin bare \cup robbed => lock = t

\* A forced task meets no cached payload, and what it read is fresh; a task
\* that is away has nothing.
Forced(t) ==
    /\ kind[t] = "forced" =>
           /\ pc[t] \in {"queued", "unlocking"} \cup Refilling
           /\ got[t] = None \/ got[t] >= owed[t]
    /\ pc[t] \in Away => got[t] = None

CacheInv == TypeOK /\ \A t \in Tasks : Guarded(t) /\ Forced(t)

\* The initial state.
LEMMA CacheInitInv == Init => CacheInv
<1> SUFFICES ASSUME Init PROVE CacheInv
  OBVIOUS
<1>1. TypeOK
  <2>1. /\ 0 \in 0 .. db /\ db \in 0 .. MaxScan /\ warmed \in 0 .. db
    BY ScanAssumption DEF Init
  <2> QED BY <2>1 DEF Init, TypeOK, Away
<1>2. \A t \in Tasks : Guarded(t) /\ Forced(t)
  BY DEF Init, Guarded, Forced, Refilling
<1> QED BY <1>1, <1>2 DEF CacheInv

\* The end of a request disturbs no other.
LEMMA ReturnInv ==
  ASSUME CacheInv, NEW t \in Tasks, Return(t), UNCHANGED <<db, warming, warmed>>,
         cache' \in 0 .. db \cup {None},
         \/ lock' = lock /\ robbed' = robbed \ {t}
         \/ lock' = None /\ robbed' = (robbed \cup {lock}) \ {None, t}
  PROVE  CacheInv'
<1> USE NoneAssumption DEF CacheInv, TypeOK, Return, Goto
<1>1. TypeOK'
  <2>1. /\ pc' \in [Tasks -> {"lookup", "queued"} \cup Inside \cup Away]
        /\ home' \in [Tasks -> Processes \cup {None}]
        /\ kind' \in [Tasks -> {"none", "forced", "miss", "fallback"}]
    BY DEF Away
  <2>2. got' \in [Tasks -> 0 .. db \cup {None}] /\ owed' \in [Tasks -> 0 .. db]
    BY ScanAssumption
  <2>3. local' \in [Processes -> Tasks \cup {None}]
    OBVIOUS
  <2>4. lock' \in Tasks \cup {None} /\ robbed' \subseteq Tasks
    OBVIOUS
  <2> QED BY <2>1, <2>2, <2>3, <2>4
<1>2. ASSUME NEW u \in Tasks PROVE Guarded(u)'
  BY DEF Guarded, Refilling
<1>3. ASSUME NEW u \in Tasks PROVE Forced(u)'
  BY DEF Forced, Away
<1> QED BY <1>1, <1>2, <1>3

\* A step of one request that neither ends it nor takes the lock.
LEMMA WalkInv ==
  ASSUME CacheInv, NEW t \in Tasks,
         \/ Arrive(t) \/ Lookup(t) \/ EnterLocal(t) \/ Recheck(t) \/ LockHeld(t)
         \/ RecheckLocked(t) \/ WaitEnds(t) \/ Read(t)
  PROVE  CacheInv'
<1> USE NoneAssumption DEF CacheInv, TypeOK, Goto
<1>1. CASE Arrive(t)
  <2>1. TypeOK'
    BY <1>1 DEF Arrive, guardVars, redisVars, scanVars, Away
  <2>2. ASSUME NEW u \in Tasks PROVE Guarded(u)' /\ Forced(u)'
    BY <1>1 DEF Arrive, guardVars, redisVars, scanVars, Guarded, Forced, Refilling, Away
  <2> QED BY <2>1, <2>2
<1>2. CASE Lookup(t) \/ EnterLocal(t) \/ Recheck(t) \/ LockHeld(t) \/ WaitEnds(t)
  <2> USE DEF Lookup, EnterLocal, Recheck, LockHeld, WaitEnds, ReadBare,
              guardVars, redisVars, scanVars
  <2>1. TypeOK'
    BY <1>2 DEF Inside, Refilling
  <2>2. ASSUME NEW u \in Tasks PROVE Guarded(u)'
    BY <1>2 DEF Guarded, Refilling
  <2>3. ASSUME NEW u \in Tasks PROVE Forced(u)'
    BY <1>2 DEF Forced, Refilling, Away
  <2> QED BY <2>1, <2>2, <2>3
<1>3. CASE RecheckLocked(t) \/ Read(t)
  <2> USE DEF RecheckLocked, Read, guardVars, redisVars, scanVars
  <2>1. TypeOK'
    BY <1>3 DEF Inside, Refilling
  <2>2. ASSUME NEW u \in Tasks PROVE Guarded(u)'
    BY <1>3 DEF Guarded, Refilling
  <2>3. ASSUME NEW u \in Tasks PROVE Forced(u)'
    BY <1>3 DEF Forced, Refilling, Away
  <2> QED BY <2>1, <2>2, <2>3
<1> QED BY <1>1, <1>2, <1>3

\* Taking the lock of Redis, or going on as if.
LEMMA LockInv ==
  ASSUME CacheInv, NEW t \in Tasks, TakeLock(t) \/ TakeLockFails(t)
  PROVE  CacheInv'
<1> USE NoneAssumption DEF CacheInv, TypeOK, TakeLock, TakeLockFails, Goto, scanVars
<1>1. TypeOK'
  BY DEF Inside
<1>2. ASSUME NEW u \in Tasks PROVE Guarded(u)'
  BY DEF Guarded, Refilling
<1>3. ASSUME NEW u \in Tasks PROVE Forced(u)'
  BY DEF Forced, Refilling, Away
<1> QED BY <1>1, <1>2, <1>3

\* The steps that may end a request.
LEMMA EndsInv ==
  ASSUME CacheInv, NEW t \in Tasks,
         Hit(t) \/ ReadFails(t) \/ Store(t) \/ Unlock(t)
  PROVE  CacheInv'
<1>1. CASE Hit(t) \/ Unlock(t) \/ ((ReadFails(t) \/ Store(t)) /\ t \notin holders)
  <2>1. /\ Return(t)
        /\ UNCHANGED <<db, warming, warmed>>
        /\ cache' \in {cache, got[t]}
        /\ \/ lock' = lock /\ robbed' = robbed \ {t}
           \/ lock' = None /\ robbed' = (robbed \cup {lock}) \ {None, t}
    BY <1>1 DEF Hit, Unlock, ReadFails, Store, redisVars, scanVars
  <2>2. cache' \in 0 .. db \cup {None}
    BY <2>1 DEF CacheInv, TypeOK
  <2> QED BY <2>1, <2>2, ReturnInv
<1>2. CASE (ReadFails(t) \/ Store(t)) /\ t \in holders
  <2> USE DEF CacheInv, TypeOK, Goto
  <2>1. /\ pc[t] \in Refilling
        /\ pc' = [pc EXCEPT ![t] = "unlocking"]
        /\ cache' \in {cache, got[t]}
        /\ UNCHANGED <<home, kind, got, owed, guardVars, lock, scanVars>>
    BY <1>2 DEF ReadFails, Store, redisVars, scanVars, Refilling, guardVars
  <2>2. TypeOK'
    BY <2>1 DEF guardVars, scanVars, Inside
  <2>3. ASSUME NEW u \in Tasks PROVE Guarded(u)' /\ Forced(u)'
    BY <2>1 DEF guardVars, scanVars, Guarded, Forced, Refilling, Away
  <2> QED BY <2>2, <2>3
<1> QED BY <1>1, <1>2

\* What happens beside the requests.
LEMMA AroundInv ==
  ASSUME CacheInv,
         \/ LockExpires \/ CacheExpires \/ Commit \/ Prewarm \/ PrewarmFails
         \/ UNCHANGED vars
  PROVE  CacheInv'
<1> USE NoneAssumption, ScanAssumption
    DEF CacheInv, TypeOK, taskVars, guardVars, redisVars, scanVars
<1>1. CASE LockExpires
  BY <1>1 DEF LockExpires, Guarded, Forced, Away
<1>2. CASE CacheExpires \/ PrewarmFails \/ UNCHANGED vars
  BY <1>2 DEF CacheExpires, PrewarmFails, vars, Guarded, Forced, Away
<1>3. CASE Commit
  <2>1. TypeOK'
    BY <1>3 DEF Commit
  <2> QED BY <1>3, <2>1 DEF Commit, Guarded, Forced, Away
<1>4. CASE Prewarm
  <2>0. cache' \in 0 .. db' \cup {None} /\ warmed' \in 0 .. db' /\ UNCHANGED db
    BY <1>4 DEF Prewarm
  <2>1. TypeOK'
    BY <1>4, <2>0 DEF Prewarm
  <2> QED BY <1>4, <2>1 DEF Prewarm, Guarded, Forced, Away
<1> QED BY <1>1, <1>2, <1>3, <1>4

\* The death of a process.
LEMMA CrashInv ==
  ASSUME CacheInv, NEW p \in Processes, Crash(p)
  PROVE  CacheInv'
<1> USE NoneAssumption DEF CacheInv, TypeOK, Crash, redisVars, scanVars
<1>1. TypeOK'
  BY DEF Away
<1>2. ASSUME NEW u \in Tasks PROVE Guarded(u)' /\ Forced(u)'
  BY DEF Guarded, Forced, Refilling, Away
<1> QED BY <1>1, <1>2

\* The invariant is inductive.
LEMMA CacheNextInv == CacheInv /\ [Next]_vars => CacheInv'
<1> SUFFICES ASSUME CacheInv, [Next]_vars PROVE CacheInv'
  OBVIOUS
<1> QED BY WalkInv, LockInv, EndsInv, AroundInv, CrashInv DEF Next, Step

\* The cache keeps its invariant.
LEMMA CacheInvariant == Spec => []CacheInv
<1>1. Spec => Init /\ [][Next]_vars
  BY PTL DEF Spec
<1> QED BY <1>1, CacheInitInv, CacheNextInv, PTL

\* The state has its type; in particular nothing is cached that no scan has
\* committed.
THEOREM CacheTyped == Spec => []TypeOK
<1>1. CacheInv => TypeOK
  BY DEF CacheInv
<1> QED BY <1>1, CacheInvariant, PTL

\* Of two tasks that refill at once one is without the lock.
THEOREM CacheOneRefill == Spec => []OneRefill
<1>1. CacheInv => OneRefill
  BY DEF CacheInv, Guarded, OneRefill
<1> QED BY <1>1, CacheInvariant, PTL

\* A forced request is answered with what was committed when it came, or later.
THEOREM CacheForcedFresh == Spec => ForcedIsFresh
<1> DEFINE Fresh == \A t \in Tasks :
                      kind[t] = "forced" /\ Answered(t) => Answer(t) >= owed[t]
<1>1. CacheInv => [Fresh]_vars
  <2>1. ASSUME CacheInv, NEW t \in Tasks, kind[t] = "forced", Answered(t)
        PROVE  Answer(t) >= owed[t]
    <3>1. pc[t] \in {"unlocking", "storing"} /\ (got[t] = None \/ got[t] >= owed[t])
      BY <2>1 DEF CacheInv, Forced, Answered, Refilling
    <3> QED BY <2>1, <3>1 DEF Answered, Answer
  <2> QED BY <2>1
<1> QED BY <1>1, CacheInvariant, PTL DEF ForcedIsFresh

=============================================================================
