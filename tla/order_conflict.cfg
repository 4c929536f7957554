SPECIFICATION Spec
CONSTANTS
    Requests = {r1, r2}
    Pods = {p1}
    Checkouts = {c1}
    NumItems = 1
    MaxConns = 2
    MaxStops = 0
    Faults = FALSE
    None = None
CHECK_DEADLOCK FALSE
PROPERTY ReplayedWithoutError
