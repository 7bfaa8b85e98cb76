CONSTANTS
    Photos = {p1, p2, p3}
    Requests = {c1, c2}
    None = None
    Idle = Idle
SYMMETRY MCSymmetry
SPECIFICATION Spec
CHECK_DEADLOCK FALSE
INVARIANTS TypeOK OnlyDeletedImagesAreLost OnePrimary
