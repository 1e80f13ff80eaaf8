----------------------- MODULE IndicatorScansProofs -----------------------
(***************************************************************************)
(* Proofs about IndicatorScans: the safety properties, for any number of   *)
(* scans, processes and crashes.  What a completed row or a cancelled scan *)
(* promises rests on where the task is, which the rows do not tell: they   *)
(* are overwritten by requests, other processes and servers that come up.  *)
(***************************************************************************)
EXTENDS IndicatorScans, TLAPS

\* A request and a task know only scans whose row is written.
Known ==
    /\ \A r \in Runs : pc[r] # "none" => r < next
    /\ \A p \in Processes : asking[p] \in Runs => asking[p] < next

\* Results are stored behind the last look at the flag.
ResultsLate ==
    /\ \A r \in Runs : pc[r] = "saved" => r \in results
    /\ \A r \in results : pc[r] \in {"saved", "ended"}

\* A scan cancelled early has its flag up as long as it looks at it.
FlagStays == \A r \in early : pc[r] = "ended" \/ (pc[r] \in Looking /\ r \in cancels)

Inv == TypeOK /\ Known /\ ResultsLate /\ FlagStays /\ CompletedHasResults /\ CancelStopsTask

USE BoundAssumption, NoneAssumption DEF Runs, Free, Active, Looking, Working

LEMMA InvInit == Init => Inv
BY DEF Init, Inv, TypeOK, Known, ResultsLate, FlagStays, CompletedHasResults,
       CancelStopsTask

LEMMA RequestsKeepInv ==
    ASSUME Inv, NEW p \in Processes,
           Ask(p) \/ Interrupt(p) \/ Refuse(p) \/ Create(p) \/ (\E r \in Runs : Cancel(p, r))
    PROVE  Inv'
<1> USE DEF Inv, TypeOK, Known, ResultsLate, FlagStays, CompletedHasResults,
            CancelStopsTask, vars, rowVars, taskVars, serverVars
<1>1. CASE Ask(p)
  <2>1. PICK a \in Runs \cup {Free} :
          asking' = [asking EXCEPT ![p] = a] /\ (a \in Runs => a < next)
    BY <1>1 DEF Ask, Latest, Started
  <2>2. QED  BY <1>1, <2>1 DEF Ask
<1>2. CASE Interrupt(p)
  <2>1. TypeOK'
    <3>1. status' \in [Runs -> Active \cup {"none", "completed", "cancelled", "failed"}]
      BY <1>2 DEF Interrupt, Told
    <3>2. pc' \in [Runs -> Working \cup {"none", "ended"}]
      BY <1>2 DEF Interrupt, Told
    <3>3. home' \in [Runs -> Processes \cup {None}]
      BY <1>2 DEF Interrupt, Told
    <3>4. asking' \in [Processes -> Runs \cup {Free, None}]
      BY <1>2 DEF Interrupt, Told
    <3>5. cancels' \subseteq Runs /\ touched' \subseteq Runs /\ early' \subseteq Runs /\ results' \subseteq Runs
      BY <1>2 DEF Interrupt, Told
    <3>6. next' \in 1 .. MaxRuns + 1 /\ up' \subseteq Processes /\ crashes' \in 0 .. MaxCrashes
      BY <1>2 DEF Interrupt, Told
    <3>7. \A q \in Runs : (status[q])' = "none" <=> q >= next'
      BY <1>2 DEF Interrupt, Told
    <3>8. \A q \in Runs : (home[q])' # None <=> (pc[q])' \in Working
      BY <1>2 DEF Interrupt, Told
    <3>9. \A q \in cancels' \cup touched' : (pc[q])' \in Working
      BY <1>2 DEF Interrupt, Told
    <3>10. QED  BY <3>1, <3>2, <3>3, <3>4, <3>5, <3>6, <3>7, <3>8, <3>9
  <2>2. Known'
    BY <1>2 DEF Interrupt, Told
  <2>3. ResultsLate'
    BY <1>2 DEF Interrupt, Told
  <2>4. FlagStays'
    BY <1>2 DEF Interrupt, Told
  <2>5. CompletedHasResults' /\ CancelStopsTask'
    BY <1>2 DEF Interrupt, Told
  <2>6. QED  BY <2>1, <2>2, <2>3, <2>4, <2>5
<1>3. CASE Refuse(p)
  BY <1>3 DEF Refuse
<1>4. CASE Create(p)
  <2>1. TypeOK'
    <3>1. status' \in [Runs -> Active \cup {"none", "completed", "cancelled", "failed"}]
      BY <1>4 DEF Create
    <3>2. pc' \in [Runs -> Working \cup {"none", "ended"}]
      BY <1>4 DEF Create
    <3>3. home' \in [Runs -> Processes \cup {None}]
      BY <1>4 DEF Create
    <3>4. asking' \in [Processes -> Runs \cup {Free, None}]
      BY <1>4 DEF Create
    <3>5. cancels' \subseteq Runs /\ touched' \subseteq Runs /\ early' \subseteq Runs /\ results' \subseteq Runs
      BY <1>4 DEF Create
    <3>6. next' \in 1 .. MaxRuns + 1 /\ up' \subseteq Processes /\ crashes' \in 0 .. MaxCrashes
      BY <1>4 DEF Create
    <3>7. \A q \in Runs : (status[q])' = "none" <=> q >= next'
      BY <1>4 DEF Create
    <3>8. \A q \in Runs : (home[q])' # None <=> (pc[q])' \in Working
      BY <1>4 DEF Create
    <3>9. \A q \in cancels' \cup touched' : (pc[q])' \in Working
      BY <1>4 DEF Create
    <3>10. QED  BY <3>1, <3>2, <3>3, <3>4, <3>5, <3>6, <3>7, <3>8, <3>9
  <2>2. Known'
    BY <1>4 DEF Create
  <2>3. ResultsLate'
    BY <1>4 DEF Create
  <2>4. FlagStays'
    BY <1>4 DEF Create
  <2>5. CompletedHasResults' /\ CancelStopsTask'
    BY <1>4 DEF Create
  <2>6. QED  BY <2>1, <2>2, <2>3, <2>4, <2>5
<1>5. ASSUME NEW r \in Runs, Cancel(p, r) PROVE Inv'
  <2>1. TypeOK'
    BY <1>5 DEF Cancel, Told
  <2>2. Known'
    BY <1>5 DEF Cancel, Told
  <2>3. ResultsLate'
    BY <1>5 DEF Cancel, Told
  <2>4. FlagStays'
    BY <1>5 DEF Cancel, Told
  <2>5. CompletedHasResults' /\ CancelStopsTask'
    BY <1>5 DEF Cancel, Told
  <2>6. QED  BY <2>1, <2>2, <2>3, <2>4, <2>5
<1>6. QED  BY <1>1, <1>2, <1>3, <1>4, <1>5

LEMMA TasksKeepInv ==
    ASSUME Inv, NEW r \in Runs,
           \/ Begin(r) \/ Stop(r) \/ GoOn(r) \/ Evaluate(r)
           \/ Save(r) \/ Complete(r) \/ Fail(r)
    PROVE  Inv'
<1> USE DEF Inv, TypeOK, Known, ResultsLate, FlagStays, CompletedHasResults,
            CancelStopsTask, vars, rowVars, taskVars, serverVars, Goto
<1>1. CASE Begin(r)
  <2>1. TypeOK'
    BY <1>1 DEF Begin
  <2>2. Known'
    BY <1>1 DEF Begin
  <2>3. ResultsLate'
    BY <1>1 DEF Begin
  <2>4. FlagStays'
    BY <1>1 DEF Begin
  <2>5. CompletedHasResults' /\ CancelStopsTask'
    BY <1>1 DEF Begin
  <2>6. QED  BY <2>1, <2>2, <2>3, <2>4, <2>5
<1>2. CASE Stop(r)
  <2>1. TypeOK'
    BY <1>2 DEF Stop, Ends
  <2>2. Known'
    BY <1>2 DEF Stop, Ends
  <2>3. ResultsLate'
    BY <1>2 DEF Stop, Ends
  <2>4. FlagStays'
    BY <1>2 DEF Stop, Ends
  <2>5. CompletedHasResults' /\ CancelStopsTask'
    BY <1>2 DEF Stop, Ends
  <2>6. QED  BY <2>1, <2>2, <2>3, <2>4, <2>5
<1>3. CASE GoOn(r)
  <2>1. TypeOK'
    BY <1>3 DEF GoOn
  <2>2. Known'
    BY <1>3 DEF GoOn
  <2>3. ResultsLate'
    BY <1>3 DEF GoOn
  <2>4. FlagStays'
    BY <1>3 DEF GoOn
  <2>5. CompletedHasResults' /\ CancelStopsTask'
    BY <1>3 DEF GoOn
  <2>6. QED  BY <2>1, <2>2, <2>3, <2>4, <2>5
<1>4. CASE Evaluate(r)
  <2>1. TypeOK'
    <3>1. status' \in [Runs -> Active \cup {"none", "completed", "cancelled", "failed"}]
      BY <1>4 DEF Evaluate
    <3>2. pc' \in [Runs -> Working \cup {"none", "ended"}]
      BY <1>4 DEF Evaluate
    <3>3. home' \in [Runs -> Processes \cup {None}]
      BY <1>4 DEF Evaluate
    <3>4. asking' \in [Processes -> Runs \cup {Free, None}]
      BY <1>4 DEF Evaluate
    <3>5. cancels' \subseteq Runs /\ touched' \subseteq Runs /\ early' \subseteq Runs /\ results' \subseteq Runs
      BY <1>4 DEF Evaluate
    <3>6. next' \in 1 .. MaxRuns + 1 /\ up' \subseteq Processes /\ crashes' \in 0 .. MaxCrashes
      BY <1>4 DEF Evaluate
    <3>7. \A q \in Runs : (status[q])' = "none" <=> q >= next'
      BY <1>4 DEF Evaluate
    <3>8. \A q \in Runs : (home[q])' # None <=> (pc[q])' \in Working
      BY <1>4 DEF Evaluate
    <3>9. \A q \in cancels' \cup touched' : (pc[q])' \in Working
      BY <1>4 DEF Evaluate
    <3>10. QED  BY <3>1, <3>2, <3>3, <3>4, <3>5, <3>6, <3>7, <3>8, <3>9
  <2>2. Known'
    BY <1>4 DEF Evaluate
  <2>3. ResultsLate'
    BY <1>4 DEF Evaluate
  <2>4. FlagStays'
    BY <1>4 DEF Evaluate
  <2>5. CompletedHasResults' /\ CancelStopsTask'
    BY <1>4 DEF Evaluate
  <2>6. QED  BY <2>1, <2>2, <2>3, <2>4, <2>5
<1>5. CASE Save(r)
  <2>1. TypeOK'
    BY <1>5 DEF Save
  <2>2. Known'
    BY <1>5 DEF Save
  <2>3. ResultsLate'
    BY <1>5 DEF Save
  <2>4. FlagStays'
    BY <1>5 DEF Save
  <2>5. CompletedHasResults' /\ CancelStopsTask'
    BY <1>5 DEF Save
  <2>6. QED  BY <2>1, <2>2, <2>3, <2>4, <2>5
<1>6. CASE Complete(r)
  <2>1. TypeOK'
    BY <1>6 DEF Complete, Ends
  <2>2. Known'
    BY <1>6 DEF Complete, Ends
  <2>3. ResultsLate'
    BY <1>6 DEF Complete, Ends
  <2>4. FlagStays'
    BY <1>6 DEF Complete, Ends
  <2>5. CompletedHasResults' /\ CancelStopsTask'
    BY <1>6 DEF Complete, Ends
  <2>6. QED  BY <2>1, <2>2, <2>3, <2>4, <2>5
<1>7. CASE Fail(r)
  <2>1. TypeOK'
    BY <1>7 DEF Fail, Ends
  <2>2. Known'
    BY <1>7 DEF Fail, Ends
  <2>3. ResultsLate'
    BY <1>7 DEF Fail, Ends
  <2>4. FlagStays'
    <3>1. ASSUME NEW q \in early' PROVE (pc[q])' = "ended" \/ ((pc[q])' \in Looking /\ q \in cancels')
      BY <1>7, <3>1 DEF Fail, Ends
    <3>2. QED  BY <3>1
  <2>5. CompletedHasResults' /\ CancelStopsTask'
    BY <1>7 DEF Fail, Ends
  <2>6. QED  BY <2>1, <2>2, <2>3, <2>4, <2>5
<1>8. QED  BY <1>1, <1>2, <1>3, <1>4, <1>5, <1>6, <1>7

LEMMA ServersKeepInv ==
    ASSUME Inv, NEW p \in Processes, Crash(p) \/ Restart(p)
    PROVE  Inv'
<1> USE DEF Inv, TypeOK, Known, ResultsLate, FlagStays, CompletedHasResults,
            CancelStopsTask, vars, rowVars, taskVars, serverVars
<1>1. CASE Crash(p)
  <2>1. TypeOK'
    <3>1. status' \in [Runs -> Active \cup {"none", "completed", "cancelled", "failed"}]
      BY <1>1 DEF Crash
    <3>2. pc' \in [Runs -> Working \cup {"none", "ended"}]
      BY <1>1 DEF Crash
    <3>3. home' \in [Runs -> Processes \cup {None}]
      BY <1>1 DEF Crash
    <3>4. asking' \in [Processes -> Runs \cup {Free, None}]
      BY <1>1 DEF Crash
    <3>5. cancels' \subseteq Runs /\ touched' \subseteq Runs /\ early' \subseteq Runs /\ results' \subseteq Runs
      BY <1>1 DEF Crash
    <3>6. next' \in 1 .. MaxRuns + 1 /\ up' \subseteq Processes /\ crashes' \in 0 .. MaxCrashes
      BY <1>1 DEF Crash
    <3>7. \A q \in Runs : (status[q])' = "none" <=> q >= next'
      BY <1>1 DEF Crash
    <3>8. \A q \in Runs : (home[q])' # None <=> (pc[q])' \in Working
      BY <1>1 DEF Crash
    <3>9. \A q \in cancels' \cup touched' : (pc[q])' \in Working
      BY <1>1 DEF Crash
    <3>10. QED  BY <3>1, <3>2, <3>3, <3>4, <3>5, <3>6, <3>7, <3>8, <3>9
  <2>2. Known'
    BY <1>1 DEF Crash
  <2>3. ResultsLate'
    BY <1>1 DEF Crash
  <2>4. FlagStays'
    <3>1. ASSUME NEW q \in early' PROVE (pc[q])' = "ended" \/ ((pc[q])' \in Looking /\ q \in cancels')
      BY <1>1, <3>1 DEF Crash
    <3>2. QED  BY <3>1
  <2>5. CompletedHasResults' /\ CancelStopsTask'
    BY <1>1 DEF Crash
  <2>6. QED  BY <2>1, <2>2, <2>3, <2>4, <2>5
<1>2. CASE Restart(p)
  <2>1. TypeOK'
    BY <1>2 DEF Restart, Started
  <2>2. Known'
    BY <1>2 DEF Restart, Started
  <2>3. ResultsLate'
    BY <1>2 DEF Restart, Started
  <2>4. FlagStays'
    BY <1>2 DEF Restart, Started
  <2>5. CompletedHasResults' /\ CancelStopsTask'
    BY <1>2 DEF Restart, Started
  <2>6. QED  BY <2>1, <2>2, <2>3, <2>4, <2>5
<1>3. QED  BY <1>1, <1>2

LEMMA InvStutter == Inv /\ UNCHANGED vars => Inv'
BY DEF Inv, TypeOK, Known, ResultsLate, FlagStays, CompletedHasResults,
       CancelStopsTask, vars, rowVars, taskVars, serverVars

LEMMA InvHolds == Spec => []Inv
<1>1. Inv /\ [Next]_vars => Inv'
  BY RequestsKeepInv, TasksKeepInv, ServersKeepInv, InvStutter DEF Next
<1>2. QED
  BY InvInit, <1>1, PTL DEF Spec

\* The rows, tasks and requests always have their types, and only a task that
\* lives has a process, a flag or progress.
THEOREM IndicatorsTyped == Spec => []TypeOK
<1>1. Inv => TypeOK
  BY DEF Inv
<1>2. QED  BY InvHolds, <1>1, PTL

\* However many scans, requests, servers and crashes there are, a row that says
\* completed has its results stored.
THEOREM IndicatorsComplete == Spec => []CompletedHasResults
<1>1. Inv => CompletedHasResults
  BY DEF Inv
<1>2. QED  BY InvHolds, <1>1, PTL

\* A scan cancelled in its process while it still looks at the flag never
\* stores results, whoever overwrites its row.
THEOREM IndicatorsCancel == Spec => []CancelStopsTask
<1>1. Inv => CancelStopsTask
  BY DEF Inv
<1>2. QED  BY InvHolds, <1>1, PTL

=============================================================================
