SPECIFICATION Spec
CONSTANTS
    Threads = {t1, t2}
    Kids = {old, new}
    TTL = 2
    Leeway = 1
    Delay = 1
    MaxTime = 6
INVARIANTS TypeOK SessionInv
PROPERTY KeysAreRecent
CHECK_DEADLOCK FALSE
