------------------------------ MODULE ScanLock ------------------------------
(***************************************************************************)
(* The lock that keeps scans apart (services/lock_service.py): one row of  *)
(* a table, taken by INSERT, kept by heartbeats and stolen when it looks   *)
(* dead.  A worker is one lock object: each scan makes its own.            *)
(*                                                                         *)
(* Time passes in units of a heartbeat interval (60 s).  An attempt to     *)
(* take the lock is cut off after 15 s and never spans a unit.             *)
(***************************************************************************)
EXTENDS Integers

CONSTANTS
    Workers, None,
    Beat,       \* units between heartbeats (60 s)
    Grace,      \* how late a heartbeat may be and still be called punctual
    Stale,      \* age of a heartbeat beyond which a row is dead (400 s)
    Ttl,        \* age at which a row expires (600 s)
    MaxTime     \* bound of the clock

ASSUME NoneAssumption == None \notin Workers \cup Nat
ASSUME IntervalAssumption ==
    /\ {Beat, Grace, Stale, Ttl, MaxTime} \subseteq Nat
    /\ Beat + Grace <= Stale
    /\ Stale <= Ttl

VARIABLES
    now,
    row,        \* the row of system_locks: its owner and last heartbeat
    locked,     \* workers that act as owners (_is_locked)
    due,        \* when a worker's heartbeat task wakes up, None without one
    seen,       \* the dead owner a worker has read and is about to replace
    lapsed,     \* history: owners that were found dead
    late        \* history: workers whose heartbeat failed, was late or absent

lockVars == <<now, row, locked, due, seen, lapsed, late>>

NoRow == [owner |-> None, beat |-> 0]

LockTypeOK ==
    /\ now \in 0 .. MaxTime
    /\ row \in [owner : Workers \cup {None}, beat : 0 .. MaxTime]
    /\ locked \subseteq Workers
    /\ due \in [Workers -> Nat \cup {None}]
    /\ seen \in [Workers -> Workers \cup {None}]
    /\ lapsed \subseteq Workers
    /\ late \subseteq Workers

LockInit ==
    /\ now = 0
    /\ row = NoRow
    /\ locked = {}
    /\ due = [w \in Workers |-> None]
    /\ seen = [w \in Workers |-> None]
    /\ lapsed = {}
    /\ late = {}

\* A worker whose heartbeat is overdue by more than Grace is late.
Tick ==
    /\ now < MaxTime
    /\ \A w \in Workers : seen[w] = None
    /\ now' = now + 1
    /\ late' = late \cup {w \in Workers : due[w] # None /\ now >= due[w] + Grace}
    /\ UNCHANGED <<row, locked, due, seen, lapsed>>

\* The transaction took the row and the caller knows: it starts to beat.
Owns(w) ==
    /\ row' = [owner |-> w, beat |-> now]
    /\ locked' = locked \cup {w}
    /\ due' = [due EXCEPT ![w] = now + Beat]
    /\ UNCHANGED late

\* ... or the caller was cut off while it was committed: nobody beats.
OwnsUnknowingly(w) ==
    /\ row' = [owner |-> w, beat |-> now]
    /\ late' = late \cup {w}
    /\ UNCHANGED <<locked, due>>

\* Mutant of Insert: the row that is there is overwritten.
InsertOver(w) ==
    /\ row.owner # w
    /\ Owns(w) \/ OwnsUnknowingly(w)
    /\ UNCHANGED <<now, seen, lapsed>>

Insert(w) ==
    /\ row.owner = None
    /\ Owns(w) \/ OwnsUnknowingly(w)
    /\ UNCHANGED <<now, seen, lapsed>>

\* Mutant of IsStale: dead after one interval.
IsStaleEarly == now - row.beat >= Beat

IsStale == now - row.beat > Stale \/ now - row.beat > Ttl

ReadStale(w) ==
    /\ row.owner \notin {None, w}
    /\ IsStale
    /\ seen' = [seen EXCEPT ![w] = row.owner]
    /\ lapsed' = lapsed \cup {row.owner}
    /\ UNCHANGED <<now, row, locked, due, late>>

\* The UPDATE asks for the owner that was read, not whether it is still dead.
Steal(w) ==
    /\ seen[w] # None
    /\ row.owner = seen[w]
    /\ Owns(w) \/ OwnsUnknowingly(w)
    /\ seen' = [seen EXCEPT ![w] = None]
    /\ UNCHANGED <<now, lapsed>>

StealMissed(w) ==
    /\ seen[w] # None
    /\ row.owner # seen[w]
    /\ seen' = [seen EXCEPT ![w] = None]
    /\ UNCHANGED <<now, row, locked, due, lapsed, late>>

\* Mutant of Heartbeat: it writes the time of the next one.
HeartbeatAhead(w) ==
    /\ due[w] # None /\ now >= due[w]
    /\ row' = IF row.owner = w THEN [row EXCEPT !.beat = now + Beat] ELSE row
    /\ due' = [due EXCEPT ![w] = now + Beat]
    /\ UNCHANGED <<now, locked, seen, lapsed, late>>

\* The wait for the lock is cut off.
GiveUp(w) ==
    /\ seen' = [seen EXCEPT ![w] = None]
    /\ UNCHANGED <<now, row, locked, due, lapsed, late>>

\* An UPDATE of the worker's own row; that it found none goes unnoticed.
Heartbeat(w) ==
    /\ due[w] # None /\ now >= due[w]
    /\ row' = IF row.owner = w THEN [row EXCEPT !.beat = now] ELSE row
    /\ due' = [due EXCEPT ![w] = now + Beat]
    /\ UNCHANGED <<now, locked, seen, lapsed, late>>

HeartbeatFails(w) ==
    /\ due[w] # None /\ now >= due[w]
    /\ due' = [due EXCEPT ![w] = now + Beat]
    /\ late' = late \cup {w}
    /\ UNCHANGED <<now, row, locked, seen, lapsed>>

\* Mutant of Release: the row is deleted by its name alone.
ReleaseByName(w) ==
    /\ w \in locked
    /\ locked' = locked \ {w}
    /\ due' = [due EXCEPT ![w] = None]
    /\ row' = NoRow
    /\ UNCHANGED <<now, seen, lapsed, late>>

\* The heartbeat task is stopped, then the worker's own row is deleted.
Release(w) ==
    /\ w \in locked
    /\ locked' = locked \ {w}
    /\ due' = [due EXCEPT ![w] = None]
    /\ row' = IF row.owner = w THEN NoRow ELSE row
    /\ UNCHANGED <<now, seen, lapsed, late>>

\* The worker ends without deleting its row: the database refused, or the
\* process died.
Abandon(w) ==
    /\ w \in locked \/ due[w] # None
    /\ locked' = locked \ {w}
    /\ due' = [due EXCEPT ![w] = None]
    /\ late' = late \cup {w}
    /\ UNCHANGED <<now, row, seen, lapsed>>

LockNext ==
    \/ Tick
    \/ \E w \in Workers :
        \/ Insert(w) \/ ReadStale(w) \/ Steal(w) \/ StealMissed(w) \/ GiveUp(w)
        \/ Heartbeat(w) \/ HeartbeatFails(w) \/ Release(w) \/ Abandon(w)

LockSpec == LockInit /\ [][LockNext]_lockVars

-----------------------------------------------------------------------------
(* Properties                                                              *)

\* A worker that acts as owner and was never found dead owns the row: of two
\* scans that run at once, one has been silent for longer than Stale.
Exclusive == \A w \in locked \ lapsed : row.owner = w

\* Nobody is found dead who took the lock, knew it, and whose heartbeats came
\* in time: the intervals of the code fit together.
OnlyTheLateLapse == lapsed \subseteq late

\* The row and the workers' beliefs are a lease.
L == INSTANCE Lease WITH holder <- row.owner, believers <- locked
RefinesLease == L!LeaseSpec

=============================================================================
