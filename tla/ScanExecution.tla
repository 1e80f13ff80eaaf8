--------------------------- MODULE ScanExecution ---------------------------
(***************************************************************************)
(* Scans (services/scan_execution_service.py) from the request to the      *)
(* answer: the lock, the preparation of market data, the scan, its cached  *)
(* result, the rows it leaves.  A worker is a scan with a lock of its own, *)
(* started by a user or by the scheduler, in any process.                  *)
(***************************************************************************)
EXTENDS ScanLock

VARIABLES
    pc,         \* where each scan is
    snapshot,   \* its row in scan_snapshots
    told,       \* the last message to its client
    cached,     \* there is a recent result in the result cache
    latest,     \* the scan whose results are in latest_scan_results
    saved,      \* history: scans whose results were committed
    grants,     \* history: how often the lock was granted
    order,      \* history: the place of each scan among the grants
    raised      \* history: scans whose preparation raised, or that were cancelled there

scanVars == <<pc, snapshot, told, cached, latest, saved, grants, order, raised>>
vars == <<lockVars, scanVars>>

Active == {"preparing", "running", "persisting", "releasing"}

TypeOK ==
    /\ LockTypeOK
    /\ pc \in [Workers -> {"idle", "acquiring", "ended", "dead"} \cup Active]
    /\ snapshot \in [Workers -> {"none", "RUNNING", "COMPLETED", "FAILED"}]
    /\ told \in [Workers -> {"none", "denied", "error", "cached", "durable", "warning"}]
    /\ cached \in BOOLEAN
    /\ latest \in Workers \cup {None}
    /\ saved \subseteq Workers
    /\ grants \in Nat
    /\ order \in [Workers -> 0 .. grants]
    /\ raised \subseteq Workers

Init ==
    /\ LockInit
    /\ pc = [w \in Workers |-> "idle"]
    /\ snapshot = [w \in Workers |-> "none"]
    /\ told = [w \in Workers |-> "none"]
    /\ cached = FALSE
    /\ latest = None
    /\ saved = {}
    /\ grants = 0
    /\ order = [w \in Workers |-> 0]
    /\ raised = {}

Goto(w, label) == pc' = [pc EXCEPT ![w] = label]
Tell(w, message) == told' = [told EXCEPT ![w] = message]

Requested(w) ==
    /\ pc[w] = "idle"
    /\ Goto(w, "acquiring")
    /\ UNCHANGED <<lockVars, snapshot, told, cached, latest, saved, grants, order, raised>>

\* The lock is taken, unless the wait for it was cut off: then the caller has
\* an error, and perhaps a row it does not know of.
Acquired(w) ==
    IF w \in locked'
    THEN /\ Goto(w, "preparing")
         /\ grants' = grants + 1
         /\ order' = [order EXCEPT ![w] = grants + 1]
         /\ UNCHANGED told
    ELSE Goto(w, "ended") /\ Tell(w, "error") /\ UNCHANGED <<grants, order>>

TakeLock(w) ==
    /\ pc[w] = "acquiring"
    /\ (seen[w] = None /\ Insert(w)) \/ Steal(w)
    /\ Acquired(w)
    /\ UNCHANGED <<snapshot, cached, latest, saved, raised>>

TryLock(w) ==
    /\ pc[w] = "acquiring"
    /\ (seen[w] = None /\ ReadStale(w)) \/ StealMissed(w)
    /\ UNCHANGED scanVars

Denied(w) ==
    /\ pc[w] = "acquiring"
    /\ seen[w] = None
    /\ row.owner # None /\ ~IsStale
    /\ Goto(w, "ended")
    /\ Tell(w, "denied")
    /\ UNCHANGED <<lockVars, snapshot, cached, latest, saved, grants, order, raised>>

\* The lock table does not answer in 15 s.
TimedOut(w) ==
    /\ pc[w] = "acquiring"
    /\ Goto(w, "ended")
    /\ Tell(w, "error")
    /\ GiveUp(w)
    /\ UNCHANGED <<snapshot, cached, latest, saved, grants, order, raised>>

\* Market data that is missing or stale ends the scan and frees the lock,
\* if the database lets it.
NotReady(w) ==
    /\ pc[w] = "preparing"
    /\ Release(w) \/ Abandon(w)
    /\ Goto(w, "ended")
    /\ Tell(w, "error")
    /\ UNCHANGED <<snapshot, cached, latest, saved, grants, order, raised>>

\* Any other RuntimeError, or a cancellation, is passed on with the lock
\* taken and its heartbeat beating.
PreparationRaises(w) ==
    /\ pc[w] = "preparing"
    /\ Goto(w, "ended")
    /\ Tell(w, "error")
    /\ raised' = raised \cup {w}
    /\ UNCHANGED <<lockVars, snapshot, cached, latest, saved, grants, order>>

\* A RUNNING row is written, unless writes are minimal or the write fails.
Ready(w) ==
    /\ pc[w] = "preparing"
    /\ Goto(w, "running")
    /\ \E status \in {"none", "RUNNING"} : snapshot' = [snapshot EXCEPT ![w] = status]
    /\ UNCHANGED <<lockVars, told, cached, latest, saved, grants, order, raised>>

\* A cached result is the answer; the RUNNING row stays as it is.
CacheHit(w) ==
    /\ pc[w] = "running"
    /\ cached
    /\ Goto(w, "releasing")
    /\ Tell(w, "cached")
    /\ UNCHANGED <<lockVars, snapshot, cached, latest, saved, grants, order, raised>>

Scanned(w) ==
    /\ pc[w] = "running"
    /\ Goto(w, "persisting")
    /\ cached' \in {cached, TRUE}
    /\ UNCHANGED <<lockVars, snapshot, told, latest, saved, grants, order, raised>>

CacheExpires ==
    /\ cached
    /\ cached' = FALSE
    /\ UNCHANGED <<lockVars, pc, snapshot, told, latest, saved, grants, order, raised>>

\* Mutant of ScanFails: the handler forgets to leave for the release.
ScanFailsForgets(w) ==
    /\ pc[w] = "running"
    /\ Goto(w, "ended")
    /\ Tell(w, "error")
    /\ UNCHANGED <<lockVars, snapshot, cached, latest, saved, grants, order, raised>>

\* An error, the scan's time limit, or a cancellation, which tells the client
\* nothing; the row is marked FAILED where there is one and it can be written.
ScanFails(w) ==
    /\ pc[w] = "running"
    /\ Goto(w, "releasing")
    /\ told' \in {told, [told EXCEPT ![w] = "error"]}
    /\ snapshot' \in {snapshot, IF snapshot[w] = "none" THEN snapshot
                                ELSE [snapshot EXCEPT ![w] = "FAILED"]}
    /\ UNCHANGED <<lockVars, cached, latest, saved, grants, order, raised>>

\* Mutant of Persisted: the commit fails after the client was told.
PersistedInMemory(w) ==
    /\ pc[w] = "persisting"
    /\ Goto(w, "releasing")
    /\ Tell(w, "durable")
    /\ UNCHANGED <<lockVars, snapshot, cached, latest, saved, grants, order, raised>>

\* One transaction: the latest results, and the row of the scan, inserted if
\* it is not there; under minimal writes there is no such row.
Committed(w) ==
    /\ latest' = w
    /\ saved' = saved \cup {w}
    /\ \E minimal \in BOOLEAN :
          snapshot' = IF minimal /\ snapshot[w] = "none" THEN snapshot
                      ELSE [snapshot EXCEPT ![w] = "COMPLETED"]

\* A lost connection is tried again once, with the same rows.
Persisted(w) ==
    /\ pc[w] = "persisting"
    /\ Goto(w, "releasing")
    /\ Tell(w, "durable")
    /\ Committed(w)
    /\ UNCHANGED <<lockVars, cached, grants, order, raised>>

\* The results are sent with a warning and the RUNNING row stays, unless the
\* connection was lost after the commit.
PersistFails(w) ==
    /\ pc[w] = "persisting"
    /\ Goto(w, "releasing")
    /\ Tell(w, "warning")
    /\ Committed(w) \/ UNCHANGED <<latest, saved, snapshot>>
    /\ UNCHANGED <<lockVars, cached, grants, order, raised>>

\* A release that the database refuses is logged: the heartbeat has stopped.
Finish(w) ==
    /\ pc[w] = "releasing"
    /\ Release(w) \/ Abandon(w)
    /\ Goto(w, "ended")
    /\ UNCHANGED <<snapshot, told, cached, latest, saved, grants, order, raised>>

\* The process of a scan dies, its heartbeat with it.
Crash(w) ==
    /\ pc[w] \in Active \/ due[w] # None
    /\ Abandon(w)
    /\ Goto(w, "dead")
    /\ UNCHANGED <<snapshot, told, cached, latest, saved, grants, order, raised>>

\* An attempt to get the lock does not span a unit of time.
Time ==
    /\ \A w \in Workers : pc[w] # "acquiring"
    /\ Tick
    /\ UNCHANGED scanVars

Beats(w) ==
    /\ Heartbeat(w) \/ HeartbeatFails(w)
    /\ UNCHANGED scanVars

ScanStep(w) ==
    \/ TakeLock(w) \/ TryLock(w) \/ Denied(w)
    \/ NotReady(w) \/ PreparationRaises(w) \/ Ready(w)
    \/ CacheHit(w) \/ Scanned(w) \/ ScanFails(w)
    \/ Persisted(w) \/ PersistFails(w) \/ Finish(w)

Next ==
    \/ Time \/ CacheExpires
    \/ \E w \in Workers :
          ScanStep(w) \/ Requested(w) \/ TimedOut(w) \/ Beats(w) \/ Crash(w)

\* A scan that was started goes on: every wait in it has a time limit.
Spec == Init /\ [][Next]_vars /\ \A w \in Workers : WF_vars(ScanStep(w))

-----------------------------------------------------------------------------
(* Properties                                                              *)

\* A heartbeat beats for a scan that is under way, or for one whose
\* preparation raised: that one keeps every later scan out until its process
\* ends.
BeatsWhileScanning ==
    \A w \in Workers : due[w] # None => pc[w] \in Active \/ w \in raised

\* The results of an earlier scan never replace those of a later one, unless
\* the earlier scan had been silent and went on without its lock.
NewestWins ==
    [][latest' # latest /\ latest # None /\ latest' \notin lapsed =>
           order[latest'] > order[latest]]_vars

\* "clients must not assume complete => durable" (scan_execution_service.py,
\* M-R2): a client that is told its results are durable finds them committed,
\* and the row of its scan is not left RUNNING.
DurableIsSaved ==
    \A w \in Workers : told[w] = "durable" => w \in saved /\ snapshot[w] # "RUNNING"

\* Every scan that has the lock ends, and its row goes with it, unless the
\* scan died, its preparation raised or the release failed.
ScansFreeTheLock ==
    \A w \in Workers :
        (pc[w] \in Active) ~> (pc[w] \in {"ended", "dead"}
                                 /\ (row.owner = w => w \in late \cup raised))

=============================================================================
