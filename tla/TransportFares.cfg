CONSTANTS
    Categories = {k1}
    Routes = {r1}
    Answers = {25, 1004}
    Cards <- MCCards
    Extras = {0, 3}
    Prices = {2}
    Requests = {c1, c2}
    Bookings = {b1}
    Idle = Idle
    None = None
SYMMETRY MCSymmetry
SPECIFICATION Spec
CONSTRAINT FewQuotes
CHECK_DEADLOCK FALSE
INVARIANTS TypeOK ChargedAsQuoted FiguresAddUp
PROPERTIES DistancesSettle
