SPECIFICATION Spec
CONSTANTS
    w1 = w1
    w2 = w2
    Workers = {w1, w2}
    None = None
    Beat = 1
    Grace = 1
    Stale = 2
    Ttl = 3
    MaxTime = 4
INVARIANTS TypeOK Exclusive OnlyTheLateLapse BeatsWhileScanning 
PROPERTIES RefinesLease NewestWins ScansFreeTheLock
CHECK_DEADLOCK FALSE
