SPECIFICATION FairSpec
CONSTANTS
    MaxRequests = 3
    MaxInFlight = 2
    Workloads <- AccountsOrCarts
    Routing <- SecondToAny
    Browsers = {b1}
    Scripts = {s1}
    AuthPods = {p1, p2}
    CartPods = {c1, c2}
    Users = {u1}
    Tokens = {t1}
    Offers = {o1, o2}
    Wild <- TornCarts
    None = None
    Blank = Blank
CHECK_DEADLOCK FALSE
INVARIANTS TypeOK CartIsKept NothingFromNowhere ShownAsKept
PROPERTIES FailsClosed RevocationSticks EveryRequestEnds
