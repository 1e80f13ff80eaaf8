SPECIFICATION Spec
CONSTANTS
    Minute = 3
    Stale = 4
    Returned = 2
    Times = {1, 4}
    MaxTime = 9
    MaxHits = 2
INVARIANTS TypeOK ExitIsGrounded
PROPERTIES WatermarkNeverRegresses CleanSweepsPassNoHit ExitsAtFirstHit
CHECK_DEADLOCK FALSE
