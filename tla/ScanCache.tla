----------------------------- MODULE ScanCache -----------------------------
(***************************************************************************)
(* The cache of the latest scan (services/scanner_cache_service.py): many  *)
(* requests for one key, in several processes, a Redis entry they share,   *)
(* one refill at a time, and scans that commit new results and overwrite   *)
(* the entry.  A payload is the number of the scan it was made from, 0     *)
(* before the first.  The lock of Redis is a key with a time to live and   *)
(* no owner: the model remembers who set it, the code does not.            *)
(***************************************************************************)
EXTENDS Integers, FiniteSets

CONSTANTS
    Tasks, Processes, None,
    MaxScan     \* bound of the scans

ASSUME NoneAssumption == None \notin Tasks \cup Processes \cup Nat
ASSUME ScanAssumption == MaxScan \in Nat

VARIABLES
    pc,         \* where each request is
    home,       \* the process it arrived at
    kind,       \* how it came: forced, or what its first lookup said
    got,        \* the payload it will answer with
    holders,    \* tasks whose code will delete the Redis lock
    local,      \* the asyncio.Lock of each process: the task inside
    lock,       \* the Redis lock: who set it
    cache,      \* the Redis entry
    db,         \* the last committed scan
    warming,    \* it has still to be written to the cache
    warmed,     \* history: the newest scan written to the cache by its worker
    owed,       \* history: what a task that arrived then was owed: if forced, the
                \* last committed scan, and otherwise what warmed was
    bare,       \* history: tasks that refill without the lock, or lost it to time
    robbed      \* history: tasks whose lock another one deleted

taskVars == <<pc, home, kind, got, owed>>
guardVars == <<holders, local, bare, robbed>>
redisVars == <<lock, cache>>
scanVars == <<db, warming, warmed>>
vars == <<taskVars, guardVars, redisVars, scanVars>>

Away == {"idle", "dead"}
Refilling == {"reading", "storing"}
Inside == {"recheck", "locking", "recheckLocked", "waiting", "unlocking"} \cup Refilling

TypeOK ==
    /\ pc \in [Tasks -> {"lookup", "queued"} \cup Inside \cup Away]
    /\ home \in [Tasks -> Processes \cup {None}]
    /\ kind \in [Tasks -> {"none", "forced", "miss", "fallback"}]
    /\ db \in 0 .. MaxScan
    /\ got \in [Tasks -> 0 .. db \cup {None}]
    /\ holders \subseteq Tasks
    /\ local \in [Processes -> Tasks \cup {None}]
    /\ lock \in Tasks \cup {None}
    /\ cache \in 0 .. db \cup {None}
    /\ warming \in BOOLEAN
    /\ warmed \in 0 .. db
    /\ owed \in [Tasks -> 0 .. db]
    /\ bare \subseteq Tasks
    /\ robbed \subseteq Tasks

Init ==
    /\ pc = [t \in Tasks |-> "idle"]
    /\ home = [t \in Tasks |-> None]
    /\ kind = [t \in Tasks |-> "none"]
    /\ got = [t \in Tasks |-> None]
    /\ holders = {}
    /\ local = [p \in Processes |-> None]
    /\ lock = None /\ cache = None
    /\ db = 0 /\ warming = FALSE /\ warmed = 0
    /\ owed = [t \in Tasks |-> 0]
    /\ bare = {} /\ robbed = {}

Goto(t, label) == pc' = [pc EXCEPT ![t] = label]

-----------------------------------------------------------------------------
(* A request                                                               *)

Arrive(t) ==
    /\ pc[t] \in Away
    /\ \E p \in Processes : home' = [home EXCEPT ![t] = p]
    /\ \/ /\ Goto(t, "lookup")
          /\ owed' = [owed EXCEPT ![t] = warmed]
          /\ UNCHANGED kind
       \/ /\ Goto(t, "queued")
          /\ owed' = [owed EXCEPT ![t] = db]
          /\ kind' = [kind EXCEPT ![t] = "forced"]
    /\ UNCHANGED <<got, guardVars, redisVars, scanVars>>

\* A hit is the answer; a miss or an error of Redis leads to the refill.
Lookup(t) ==
    /\ pc[t] = "lookup"
    /\ Goto(t, "queued")
    /\ \/ cache = None /\ kind' = [kind EXCEPT ![t] = "miss"]
       \/ kind' = [kind EXCEPT ![t] = "fallback"]
    /\ UNCHANGED <<home, got, owed, guardVars, redisVars, scanVars>>

\* The end of a request, with an answer or an error, and out of the local
\* lock.  What the older route does after an error is a request of its own.
Return(t) ==
    /\ Goto(t, "idle")
    /\ home' = [home EXCEPT ![t] = None]
    /\ kind' = [kind EXCEPT ![t] = "none"]
    /\ got' = [got EXCEPT ![t] = None]
    /\ owed' = [owed EXCEPT ![t] = 0]
    /\ holders' = holders \ {t}
    /\ local' = [local EXCEPT ![home[t]] = IF @ = t THEN None ELSE @]
    /\ bare' = bare \ {t}

\* The first, the second and the polling lookup.
Hit(t) ==
    /\ pc[t] \in {"lookup", "recheck", "waiting"}
    /\ cache # None
    /\ Return(t)
    /\ robbed' = robbed \ {t}
    /\ UNCHANGED <<redisVars, scanVars>>

ReadBare(t) == Goto(t, "reading") /\ bare' = bare \cup {t}

\* Mutant of EnterLocal: a forced request may be served by its peer's refill.
EnterLocalForcedToo(t) ==
    /\ pc[t] = "queued"
    /\ local[home[t]] = None
    /\ local' = [local EXCEPT ![home[t]] = t]
    /\ Goto(t, "recheck")
    /\ UNCHANGED <<home, kind, got, owed, holders, bare, robbed, redisVars, scanVars>>

\* A forced request goes straight to the database, under the local lock only.
EnterLocal(t) ==
    /\ pc[t] = "queued"
    /\ local[home[t]] = None
    /\ local' = [local EXCEPT ![home[t]] = t]
    /\ IF kind[t] = "forced" THEN ReadBare(t) ELSE Goto(t, "recheck") /\ UNCHANGED bare
    /\ UNCHANGED <<home, kind, got, owed, holders, robbed, redisVars, scanVars>>

\* After an error on the first lookup the lock of Redis is not tried; an error
\* on this one is a miss.
Recheck(t) ==
    /\ pc[t] = "recheck"
    /\ IF kind[t] = "fallback" THEN ReadBare(t) ELSE Goto(t, "locking") /\ UNCHANGED bare
    /\ UNCHANGED <<home, kind, got, owed, holders, local, robbed, redisVars, scanVars>>

\* Mutant of TakeLock: SET without NX.
TakeLockOver(t) ==
    /\ pc[t] = "locking"
    /\ lock' = t
    /\ holders' = holders \cup {t}
    /\ bare' = bare \ {t}
    /\ robbed' = robbed \ {t}
    /\ Goto(t, "recheckLocked")
    /\ UNCHANGED <<home, kind, got, owed, local, cache, scanVars>>

\* SET NX.
TakeLock(t) ==
    /\ pc[t] = "locking"
    /\ lock = None
    /\ lock' = t
    /\ holders' = holders \cup {t}
    /\ bare' = bare \ {t}
    /\ robbed' = robbed \ {t}
    /\ Goto(t, "recheckLocked")
    /\ UNCHANGED <<home, kind, got, owed, local, cache, scanVars>>

\* An error counts as success, whether Redis set the key or not.
TakeLockFails(t) ==
    /\ pc[t] = "locking"
    /\ lock' \in {lock, IF lock = None THEN t ELSE lock}
    /\ holders' = holders \cup {t}
    /\ bare' = bare \cup {t}
    /\ Goto(t, "recheckLocked")
    /\ UNCHANGED <<home, kind, got, owed, local, robbed, cache, scanVars>>

LockHeld(t) ==
    /\ pc[t] = "locking"
    /\ lock # None
    /\ Goto(t, "waiting")
    /\ UNCHANGED <<home, kind, got, owed, guardVars, redisVars, scanVars>>

RecheckLocked(t) ==
    /\ pc[t] = "recheckLocked"
    /\ \/ /\ cache # None
          /\ got' = [got EXCEPT ![t] = cache]
          /\ Goto(t, "unlocking")
       \/ Goto(t, "reading") /\ UNCHANGED got
    /\ UNCHANGED <<home, kind, owed, guardVars, redisVars, scanVars>>

\* Mutant of WaitEnds: the deadline is forgotten.
WaitGoesOn(t) == pc[t] = "waiting" /\ UNCHANGED vars

\* The entry is polled for 2 s; then, or when Redis fails, the task reads the
\* database itself.
WaitEnds(t) ==
    /\ pc[t] = "waiting"
    /\ ReadBare(t)
    /\ UNCHANGED <<home, kind, got, owed, holders, local, robbed, redisVars, scanVars>>

Read(t) ==
    /\ pc[t] = "reading"
    /\ got' = [got EXCEPT ![t] = db]
    /\ Goto(t, "storing")
    /\ UNCHANGED <<home, kind, owed, guardVars, redisVars, scanVars>>

ReadFails(t) ==
    /\ pc[t] = "reading"
    /\ IF t \in holders THEN Goto(t, "unlocking") /\ UNCHANGED <<home, kind, got, owed, guardVars>>
       ELSE Return(t) /\ robbed' = robbed \ {t}
    /\ UNCHANGED <<redisVars, scanVars>>

\* The entry is written, or Redis fails and the task goes on without.
Store(t) ==
    /\ pc[t] = "storing"
    /\ cache' \in {got[t], cache}
    /\ IF t \in holders THEN Goto(t, "unlocking") /\ UNCHANGED <<home, kind, got, owed, guardVars>>
       ELSE Return(t) /\ robbed' = robbed \ {t}
    /\ UNCHANGED <<lock, scanVars>>

\* DEL of the key, whoever set it; or an error, and the key stays.
Unlock(t) ==
    /\ pc[t] = "unlocking"
    /\ \/ lock' = None /\ robbed' = (robbed \cup {lock}) \ {None, t}
       \/ lock' = lock /\ robbed' = robbed \ {t}
    /\ Return(t)
    /\ UNCHANGED <<cache, scanVars>>

-----------------------------------------------------------------------------
(* Time, scans and crashes                                                 *)

LockExpires ==
    /\ lock # None
    /\ bare' = bare \cup {lock}
    /\ lock' = None
    /\ UNCHANGED <<taskVars, holders, local, robbed, cache, scanVars>>

CacheExpires ==
    /\ cache # None
    /\ cache' = None
    /\ UNCHANGED <<taskVars, guardVars, lock, scanVars>>

\* Mutant of Commit: the cache is written before the commit.
CommitLast ==
    /\ db < MaxScan /\ ~warming
    /\ cache' = db + 1
    /\ warming' = TRUE
    /\ UNCHANGED <<taskVars, guardVars, lock, db, warmed>>

\* A scan has committed its results; the worker that holds the scan lock
\* writes the entry next.
Commit ==
    /\ db < MaxScan /\ ~warming
    /\ db' = db + 1
    /\ warming' = TRUE
    /\ UNCHANGED <<taskVars, guardVars, redisVars, warmed>>

Prewarm ==
    /\ warming
    /\ warming' = FALSE
    /\ cache' = db
    /\ warmed' = db
    /\ UNCHANGED <<taskVars, guardVars, lock, db>>

\* Redis did not answer, or the worker died.
PrewarmFails ==
    /\ warming
    /\ warming' = FALSE
    /\ UNCHANGED <<taskVars, guardVars, redisVars, db, warmed>>

Crash(p) ==
    LET dying == {t \in Tasks : home[t] = p /\ pc[t] \notin Away} IN
    /\ dying # {}
    /\ pc' = [t \in Tasks |-> IF t \in dying THEN "dead" ELSE pc[t]]
    /\ home' = [t \in Tasks |-> IF t \in dying THEN None ELSE home[t]]
    /\ kind' = [t \in Tasks |-> IF t \in dying THEN "none" ELSE kind[t]]
    /\ got' = [t \in Tasks |-> IF t \in dying THEN None ELSE got[t]]
    /\ owed' = [t \in Tasks |-> IF t \in dying THEN 0 ELSE owed[t]]
    /\ holders' = holders \ dying
    /\ local' = [local EXCEPT ![p] = None]
    /\ bare' = bare \ dying
    /\ robbed' = robbed \ dying
    /\ UNCHANGED <<redisVars, scanVars>>

Step(t) ==
    \/ Lookup(t) \/ Hit(t) \/ Recheck(t)
    \/ TakeLock(t) \/ TakeLockFails(t) \/ LockHeld(t) \/ RecheckLocked(t) \/ WaitEnds(t)
    \/ Read(t) \/ ReadFails(t) \/ Store(t) \/ Unlock(t)

Next ==
    \/ \E t \in Tasks : Arrive(t) \/ EnterLocal(t) \/ Step(t)
    \/ LockExpires \/ CacheExpires \/ Commit \/ Prewarm \/ PrewarmFails
    \/ \E p \in Processes : Crash(p)

\* Every wait has a time limit, and an asyncio.Lock serves in order.
Spec ==
    /\ Init /\ [][Next]_vars
    /\ \A t \in Tasks : WF_vars(Step(t)) /\ SF_vars(EnterLocal(t))

-----------------------------------------------------------------------------
(* Properties                                                              *)

\* In this step a request returns with an answer; and which one.
Answer(t) == IF pc[t] \in {"storing", "unlocking"} THEN got[t] ELSE cache
Answered(t) ==
    /\ pc[t] \in {"lookup", "recheck", "waiting", "storing", "unlocking"}
    /\ pc'[t] = "idle"
    /\ Answer(t) # None

\* One refill of the entry at a time, over all processes, unless one of the
\* two was forced, had an error of Redis or a wait that ran out, or lost its
\* lock, to time or to another task.
OneRefill ==
    \A t, u \in Tasks :
        t # u /\ {pc[t], pc[u]} \subseteq Refilling => {t, u} \cap (bare \cup robbed) # {}

\* A forced request is answered with what was committed when it came, or later.
ForcedIsFresh ==
    [][\A t \in Tasks : kind[t] = "forced" /\ Answered(t) => Answer(t) >= owed[t]]_vars

\* A request is answered, or fails, or dies with its process.
AllAnswered == \A t \in Tasks : pc[t] \notin Away ~> pc[t] \in Away

\* "so that I never view outdated scan data" (specs/017-scanner-dashboard-cache,
\* user story 2): whoever asks after a scan's worker has written the cache gets
\* that scan or a later one.
NeverOutdated == [][\A t \in Tasks : Answered(t) => Answer(t) >= owed[t]]_vars

=============================================================================
