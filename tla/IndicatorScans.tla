-------------------------- MODULE IndicatorScans --------------------------
(***************************************************************************)
(* Scans of an indicator (services/indicator_scanner): requests that start *)
(* and cancel them, the background task that runs each, the row it writes, *)
(* and servers that die and come up.  The row is shared; who may be        *)
(* cancelled and what runs is remembered in each process.  The scans are   *)
(* those of one user, numbered in the order of their rows: start and       *)
(* cancel touch no other user's, and a server that comes up treats them    *)
(* all alike.                                                              *)
(***************************************************************************)
EXTENDS Integers

CONSTANTS
    Processes, None,
    MaxRuns,    \* bound of the scans
    MaxCrashes  \* bound of the crashes

ASSUME BoundAssumption == MaxRuns \in Nat /\ MaxCrashes \in Nat
ASSUME NoneAssumption == None \notin Processes \cup Nat

Runs == 1 .. MaxRuns
Free == 0       \* a start request that found no scan in its way

VARIABLES
    status,     \* the rows, "none" before there is one
    results,    \* scans whose results are stored
    next,       \* the scan that starts next
    pc,         \* where the task of each scan is
    home,       \* the process the task lives in
    cancels,    \* _cancel_requested there; a flag that no task reads is left out
    touched,    \* scans that run and whose row says that symbols were processed
    asking,     \* a start request in each process: what it found active
    up,         \* processes that run
    crashes,
    early       \* history: scans cancelled in their process while they still looked

rowVars == <<status, results, touched>>
taskVars == <<pc, home, cancels>>
serverVars == <<asking, up, crashes>>
vars == <<rowVars, next, taskVars, serverVars, early>>

Active == {"queued", "running"}
Looking == {"created", "starting", "scanning"}
Working == Looking \cup {"evaluating", "saving", "saved"}

TypeOK ==
    /\ status \in [Runs -> Active \cup {"none", "completed", "cancelled", "failed"}]
    /\ results \subseteq Runs
    /\ next \in 1 .. MaxRuns + 1
    /\ pc \in [Runs -> Working \cup {"none", "ended"}]
    /\ home \in [Runs -> Processes \cup {None}]
    /\ cancels \subseteq Runs /\ touched \subseteq Runs
    /\ asking \in [Processes -> Runs \cup {Free, None}]
    /\ up \subseteq Processes
    /\ crashes \in 0 .. MaxCrashes
    /\ early \subseteq Runs
    /\ \A r \in Runs : status[r] = "none" <=> r >= next
    /\ \A r \in Runs : home[r] # None <=> pc[r] \in Working
    /\ \A r \in cancels \cup touched : pc[r] \in Working

Init ==
    /\ status = [r \in Runs |-> "none"]
    /\ results = {} /\ touched = {} /\ early = {}
    /\ next = 1
    /\ pc = [r \in Runs |-> "none"]
    /\ home = [r \in Runs |-> None]
    /\ cancels = {}
    /\ asking = [p \in Processes |-> None]
    /\ up = Processes
    /\ crashes = 0

-----------------------------------------------------------------------------
(* Requests                                                                *)

\* request_cancel: the scan is told, if its task lives in this process.
Told(p, r) ==
    /\ cancels' = IF home[r] = p THEN cancels \cup {r} ELSE cancels
    /\ early' = IF home[r] = p /\ pc[r] \in Looking THEN early \cup {r} ELSE early

Started == {r \in Runs : status[r] \in Active}
Latest(r) == r \in Started /\ \A q \in Started : q <= r

\* The scans whose task runs in this process (_active_scans).
RunningAt(p) == {r \in Runs : home[r] = p /\ pc[r] # "created"}

\* Mutant of Hung: only tasks of this process are judged.
HungHere(p, r) == r \in RunningAt(p) /\ r \notin touched

\* A scan of no task of this process, or one without progress.
Hung(p, r) == r \notin RunningAt(p) \/ r \notin touched

\* A start request looks for the user's latest active scan.  One that lives, or
\* started less than 600 s ago, refuses the request and changes nothing: the
\* age is not counted, it grows until a request finds the scan old.
Ask(p) ==
    /\ p \in up /\ asking[p] = None
    /\ \/ Started = {} /\ asking' = [asking EXCEPT ![p] = Free]
       \/ \E r \in Runs :
            Latest(r) /\ Hung(p, r) /\ asking' = [asking EXCEPT ![p] = r]
    /\ UNCHANGED <<rowVars, next, taskVars, up, crashes, early>>

\* A scan that looked hung is told to stop and its row failed, whatever became
\* of it since; or the row cannot be written and the request ends.
Interrupt(p) ==
    /\ asking[p] \in Runs
    /\ Told(p, asking[p])
    /\ \/ /\ status' = [status EXCEPT ![asking[p]] = "failed"]
          /\ asking' = [asking EXCEPT ![p] = Free]
       \/ /\ asking' = [asking EXCEPT ![p] = None]
          /\ UNCHANGED status
    /\ UNCHANGED <<results, touched, next, pc, home, up, crashes>>

\* The rate limit, or an error before the row is written.
Refuse(p) ==
    /\ asking[p] = Free
    /\ asking' = [asking EXCEPT ![p] = None]
    /\ UNCHANGED <<rowVars, next, taskVars, up, crashes, early>>

\* The row is written, then the task created, unless the write between the
\* two (touch_last_used) fails.
Create(p) ==
    /\ asking[p] = Free
    /\ next \in Runs
    /\ status' = [status EXCEPT ![next] = "queued"]
    /\ \/ /\ pc' = [pc EXCEPT ![next] = "created"]
          /\ home' = [home EXCEPT ![next] = p]
       \/ /\ pc' = [pc EXCEPT ![next] = "ended"]
          /\ UNCHANGED home
    /\ next' = next + 1
    /\ asking' = [asking EXCEPT ![p] = None]
    /\ UNCHANGED <<results, touched, cancels, up, crashes, early>>

\* Mutant of Cancel: a scan that does not exist is not refused.
CancelUnknown(p, r) ==
    /\ p \in up
    /\ Told(p, r)
    /\ status' \in {status, [status EXCEPT ![r] = "cancelled"]}
    /\ UNCHANGED <<results, touched, next, pc, home, serverVars>>

\* The task is told, if it runs in this process, then the row, which may have
\* any status; or the row cannot be written.
Cancel(p, r) ==
    /\ p \in up
    /\ status[r] # "none"
    /\ Told(p, r)
    /\ status' \in {status, [status EXCEPT ![r] = "cancelled"]}
    /\ UNCHANGED <<results, touched, next, pc, home, serverVars>>

-----------------------------------------------------------------------------
(* The task of a scan                                                      *)

Goto(r, label) == pc' = [pc EXCEPT ![r] = label]

Ends(r) ==
    /\ Goto(r, "ended")
    /\ cancels' = cancels \ {r}
    /\ home' = [home EXCEPT ![r] = None]
    /\ touched' = touched \ {r}

\* Mutant of Begin: what was asked before the task began is forgotten.
BeginAnew(r) ==
    /\ pc[r] = "created"
    /\ Goto(r, "starting")
    /\ cancels' = cancels \ {r}
    /\ status' = [status EXCEPT ![r] = "running"]
    /\ touched' = touched \ {r}
    /\ UNCHANGED <<results, next, home, serverVars, early>>

\* The row is set running, whatever it says.
Begin(r) ==
    /\ pc[r] = "created"
    /\ Goto(r, "starting")
    /\ status' = [status EXCEPT ![r] = "running"]
    /\ touched' = touched \ {r}
    /\ UNCHANGED <<results, next, home, cancels, serverVars, early>>

\* The flag is looked at when the task starts, when it has the data, and before
\* each symbol of a chunk; the last two are one label.
Stop(r) ==
    /\ pc[r] \in {"starting", "scanning"}
    /\ r \in cancels
    /\ status' = [status EXCEPT ![r] = "cancelled"]
    /\ Ends(r)
    /\ UNCHANGED <<results, next, serverVars, early>>

GoOn(r) ==
    /\ pc[r] \in {"starting", "scanning"}
    /\ r \notin cancels
    /\ \/ pc[r] = "starting" /\ Goto(r, "scanning")
       \/ pc[r] = "scanning" /\ Goto(r, "evaluating")
    /\ UNCHANGED <<rowVars, next, home, cancels, serverVars, early>>

\* A chunk is done; the last one, and others now and then, write the row.
Evaluate(r) ==
    /\ pc[r] = "evaluating"
    /\ \/ Goto(r, "scanning") /\ UNCHANGED <<status, touched>>
       \/ /\ Goto(r, "scanning") \/ Goto(r, "saving")
          /\ status' = [status EXCEPT ![r] = "running"]
          /\ touched' = touched \cup {r}
    /\ UNCHANGED <<results, next, home, cancels, serverVars, early>>

\* Mutant of Save: the results are written in the background.
SaveLater(r) ==
    /\ pc[r] = "saving"
    /\ Goto(r, "saved")
    /\ UNCHANGED <<rowVars, next, home, cancels, serverVars, early>>

Save(r) ==
    /\ pc[r] = "saving"
    /\ Goto(r, "saved")
    /\ results' = results \cup {r}
    /\ UNCHANGED <<status, touched, next, home, cancels, serverVars, early>>

Complete(r) ==
    /\ pc[r] = "saved"
    /\ Ends(r)
    /\ status' = [status EXCEPT ![r] = "completed"]
    /\ UNCHANGED <<results, next, serverVars, early>>

\* An error fails the row, if the row can be written.
Fail(r) ==
    /\ pc[r] \in Working
    /\ Ends(r)
    /\ status' \in {status, [status EXCEPT ![r] = "failed"]}
    /\ UNCHANGED <<results, next, serverVars, early>>

-----------------------------------------------------------------------------
(* Servers                                                                 *)

\* A process dies with its tasks, its flags and its requests.
Crash(p) ==
    /\ p \in up /\ crashes < MaxCrashes
    /\ crashes' = crashes + 1
    /\ up' = up \ {p}
    /\ pc' = [r \in Runs |-> IF home[r] = p THEN "ended" ELSE pc[r]]
    /\ home' = [r \in Runs |-> IF home[r] = p THEN None ELSE home[r]]
    /\ cancels' = {r \in cancels : home[r] # p}
    /\ touched' = {r \in touched : home[r] # p}
    /\ asking' = [asking EXCEPT ![p] = None]
    /\ UNCHANGED <<status, results, next, early>>

\* Every server that comes up fails all active scans, its own or not, if the
\* database lets it.
Restart(p) ==
    /\ p \notin up
    /\ up' = up \cup {p}
    /\ status' \in {status, [r \in Runs |-> IF r \in Started THEN "failed" ELSE status[r]]}
    /\ UNCHANGED <<results, touched, next, taskVars, asking, crashes, early>>

Next ==
    \/ \E p \in Processes :
        \/ Ask(p) \/ Interrupt(p) \/ Refuse(p) \/ Create(p)
        \/ Crash(p) \/ Restart(p)
        \/ \E r \in Runs : Cancel(p, r)
    \/ \E r \in Runs :
        \/ Begin(r) \/ Stop(r) \/ GoOn(r) \/ Evaluate(r)
        \/ Save(r) \/ Complete(r) \/ Fail(r)

\* The user asks again, at whichever server answers, and is not refused for
\* ever: a scan gets old, the rate limit is one of a minute, and the row can be
\* written at last.  Nothing is assumed of the tasks, which may hang.
Spec ==
    /\ Init /\ [][Next]_vars
    /\ SF_vars(\E p \in Processes : Ask(p))
    /\ SF_vars(\E p \in Processes : Interrupt(p) /\ asking'[p] = Free)
    /\ SF_vars(\E p \in Processes : Create(p))
    /\ WF_vars(\E p \in Processes : Restart(p))

-----------------------------------------------------------------------------
(* Properties                                                              *)

\* A scan that the user sees completed has its results stored: a crash or an
\* error between the two leaves a row that says something else.
CompletedHasResults == \A r \in Runs : status[r] = "completed" => r \in results

\* A scan that was cancelled in its process before the last look at the flag
\* stores nothing and is not completed, however far its row was overwritten.
CancelStopsTask ==
    \A r \in early : r \notin results /\ status[r] # "completed"

\* A user who keeps asking gets another scan, whatever crashed, hung or could
\* not be written before.
NobodyLockedOut == \A n \in Runs : next = n ~> next > n

=============================================================================
