SPECIFICATION FairSpec
CONSTANTS
    f1 = f1 f2 = f2 f3 = f3
    Loop = Loop
    Flushers <- Three
    Waiters <- Two
    MaxRequests = 3
INVARIANTS
    TypeOK
    NoLostWakeup
    NoSleepBehind
PROPERTIES
    WaitReturns
CHECK_DEADLOCK FALSE
