SPECIFICATION Spec
CONSTANTS
    t1 = t1
    t2 = t2
    a1 = a1
    a2 = a2
    Trades = {t1, t2}
    Accounts = {a1, a2}
    Owner <- MCOwner
    Capital = 3
    MinGap = 2
    Retries = 2
    MaxTime = 3
INVARIANTS
    TypeOK
    OnceOnly
    BooksAgree
PROPERTIES
    NothingMissed
    FirstLevelWins
CHECK_DEADLOCK FALSE
