SPECIFICATION SpecDates
CONSTANTS
    tour = tour
    b1 = b1
    b2 = b2
    i1 = i1
    Variants = {tour}
    Nights = {1, 2}
    Capacity <- ThreePlaces
    Bookings = {b1, b2}
    Order <- MCOrder
    MaxEdits = 1
    EditTargets = {"pending"}
    Expiries = {e1}
    Approvals = {i1}
    Requested <- OneRequested
    BlockKeys = {k1}
    Spans <- MCSpans
    Listing = Listing
INVARIANTS StandingIsReserved ShownAsBookable
PROPERTIES OnlyExpiredHoldsAreReleased BlockedNightsStay
CHECK_DEADLOCK FALSE
