CONSTANTS
    Accounts = {a1, a2}
    Logins = {s1, s2}
    Addresses = {e1, e2}
    Given = {"VENDOR", "ADMIN"}
    Decisions = {"approved"}
    Requests = {c1, c2}
    None = None
    Idle = Idle
    MaxServed = 3
SYMMETRY MCSymmetry
SPECIFICATION Spec
CHECK_DEADLOCK FALSE
INVARIANTS SignedInAsOwn ClerkFollows
PROPERTY DecisionsStand
