CONSTANTS
    Threads = {t1, t2}
    Limit = 2
    Window = 2
    Delay = 1
    MaxTime = 7
    MaxEvents = 6
SPECIFICATION Spec
CHECK_DEADLOCK FALSE
INVARIANTS TypeOK SpacedOut LimiterInv
PROPERTY RefusalsAreJustified
