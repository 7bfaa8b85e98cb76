SPECIFICATION Spec
CONSTANTS
    r1 = r1
    r2 = r2
    r3 = r3
    r4 = r4
    hotel = hotel
    tour = tour
    villa = villa
    Requests = {r1, r2, r3, r4}
    Cart <- MCCart
    StayLines = {hotel, villa}
    MaxRows = 2
    MaxInFlight = 2
SYMMETRY Symmetry
INVARIANTS CancelledHoldsNothing ConvertedIsConfirmed ConfirmedByStaff
PROPERTY StayIsBookedOnce
CHECK_DEADLOCK FALSE
