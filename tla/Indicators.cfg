SPECIFICATION Spec
CONSTANTS
    p1 = p1
    p2 = p2
    Processes = {p1, p2}
    None = None
    MaxRuns = 2
    MaxCrashes = 1
INVARIANTS TypeOK CompletedHasResults CancelStopsTask
 
CHECK_DEADLOCK FALSE
