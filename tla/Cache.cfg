SPECIFICATION Spec
CONSTANTS
    t1 = t1
    t2 = t2
    p1 = p1
    p2 = p2
    Tasks = {t1, t2}
    Processes = {p1, p2}
    None = None
    MaxScan = 1
INVARIANTS TypeOK OneRefill
PROPERTIES  AllAnswered
CHECK_DEADLOCK FALSE
