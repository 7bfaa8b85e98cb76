CONSTANTS
    b1 = b1
    b2 = b2
    good = good
    bad = bad
    Bookings = {b1, b2}
    Stays = {b1}
    References = {good, bad}
    Reported <- MCReported
    Requests = {c1, c2}
    None = None
    Gone = Gone
    Idle = Idle
    Manual = Manual
    EditedStatuses = {"pending"}
    EditedPayments = {"succeeded"}
    MaxServed = 5
SYMMETRY MCSymmetry
SPECIFICATION SpecLedger
CHECK_DEADLOCK FALSE
INVARIANTS PaymentIsAccounted TrailTellsStatus PaidIsNotReleased RepeatsAreRecognised
