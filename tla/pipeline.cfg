SPECIFICATION FairSpec
CONSTANTS
    Requests = {r1, r2}
    Pods = {p1}
    Checkouts = {c1}
    NumItems = 1
    MaxConns = 2
    MaxStops = 1
    Faults = TRUE
    None = None
    Members = {m1}
    MaxAttempts = 3
    MaxTrouble = 1
    Nobody = Nobody
    CheckoutCompleted = checkout
CHECK_DEADLOCK FALSE
INVARIANT NotifiedOrdersAreStored
PROPERTY ConfirmedOrdersAreNotified
