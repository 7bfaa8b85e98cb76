CONSTANTS
    Properties = {p1, p2}
    Listings = {l1, l2}
    RoomTypes = {r1}
    Asked = {"draft", "submitted", "approved"}
    Decisions = {"PUBLISHED", "REJECTED"}
    Requests = {c1, c2}
    None = None
    Gone = Gone
    Idle = Idle
    MaxServed = 5
CONSTRAINT OneApart
SYMMETRY MCSymmetry
SPECIFICATION Spec
CHECK_DEADLOCK FALSE
INVARIANT StatusesAgree
PROPERTY ApprovalsAreNamed
