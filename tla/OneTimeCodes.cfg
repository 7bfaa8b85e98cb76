CONSTANTS
    Emails = {e1}
    Codes = {c1, c2}
    Texts = {t1, t2}
    Requests = {r1, r2}
    Lifetime = 1
    Limit = 1
    MaxTime = 3
    MaxAttempts = 2
    None = None
SPECIFICATION Spec
CHECK_DEADLOCK FALSE
INVARIANTS TypeOK OnlyTheLastCode LimitedUse
