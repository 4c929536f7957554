SPECIFICATION Spec
CONSTANTS
    MaxRequests = 2
    MaxInFlight = 1
    Workloads <- LoginAndCart
    Routing <- SecondToAny
    Browsers = {b1}
    Scripts = {s1}
    AuthPods = {p1}
    CartPods = {c1}
    Users = {u1}
    Tokens = {t1}
    Offers = {o1, o2}
    Wild <- TornCarts
    None = None
    Blank = Blank
CHECK_DEADLOCK FALSE
PROPERTIES LoggedInIsRecognised
