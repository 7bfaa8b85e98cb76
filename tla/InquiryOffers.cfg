CONSTANTS
    hotel = hotel
    tour = tour
    Transfer = Transfer
    Inquiries = {q1}
    Listings = {hotel, tour}
    Hotels = {hotel}
    Prices <- MCPrices
    Carts <- MCCarts
    Requests = {c1, c2}
    None = None
    Gone = Gone
    Idle = Idle
    MaxServed = 3
SYMMETRY MCSymmetry
SPECIFICATION Spec
CHECK_DEADLOCK FALSE
INVARIANTS FiguresAgree GuestIsTold
