SPECIFICATION Spec
CONSTANTS
    Trips = {t1}
    Drivers = {d1, d2}
    NoDriver = NoDriver
    Requests = {r1, r2}
    Idle = Idle
    MaxBarred = 1
    DeskTargets = {"completed", "cancelled"}
SYMMETRY MCSymmetry
INVARIANT TypeOK
INVARIANT UndisturbedTripsAgree
INVARIANT StepsInOrder
PROPERTY ClosedBookingsStay
