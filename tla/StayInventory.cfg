SPECIFICATION Spec
CONSTANTS
    b1 = b1
    b2 = b2
    k1 = k1
    single = single
    twin1 = twin1
    twin2 = twin2
    Units = {1, 2}
    RoomTypes = {1, 2}
    Nights = {1, 2}
    Stays <- MCStays
    Bookings = {b1, b2}
    InquiryBookings = {b2}
    Items = {twin1, twin2, single}
    ItemsOf <- MCItemsOf
    ItemType <- MCItemType
    ItemCount <- MCItemCount
    Blocks = {k1}
INVARIANTS UnitsGivenOnce OfferedRoomsAreFree
PROPERTY MovesAreComplete
CHECK_DEADLOCK FALSE
