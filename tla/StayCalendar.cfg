CONSTANTS
    t0 = t0
    t1 = t1
    u1 = u1
    u2 = u2
    u3 = u3
    Types = {t0, t1}
    FirstType = t0
    Units = {u1, u2, u3}
    Serviced = {u1}
    UnitType <- MCUnitType
    Nights = {1, 2}
    Bookings = {b1, b2}
    Kinds = {"desk", "direct", "inquiry"}
    Blocks = {l1}
    Rooms = {1}
    Handlers = {c1, c2}
    Free = Free
    Missing = Missing
    MaxServed = 4
SYMMETRY MCSymmetry
SPECIFICATION SpecCalendar
CHECK_DEADLOCK FALSE
INVARIANT ShownCalendarIsRight
PROPERTY DirectBookingsFit
