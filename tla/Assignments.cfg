CONSTANTS
    Inquiries = {i1, i2}
    Transfers = {i2}
    Drivers = {d1}
    Guide = Guide
    Rows = {k1, k2}
    Requests = {r1, r2}
    None = None
SPECIFICATION Spec
CHECK_DEADLOCK FALSE
INVARIANTS TypeOK AssignedOnce AssignedAfterApproval
