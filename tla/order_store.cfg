SPECIFICATION Spec
CONSTANTS
    Requests = {r1, r2, r3}
    Pods = {p1, p2}
    Checkouts = {c1}
    NumItems = 1
    MaxConns = 2
    MaxStops = 1
    Faults = TRUE
    None = None
CHECK_DEADLOCK FALSE
SYMMETRY Symmetry
INVARIANTS TypeOK OneOrderPerKey AnswersNameStoredOrders EventsNameStoredOrders
PROPERTY KeepsPromise
