SPECIFICATION FairSpec
CONSTANTS
    Conversions = {k1}
    MaxPosts = 2
    MaxViews = 2
    MaxEvents = 2
    MaxCrashes = 2
    Offers = {o1}
    None = None
    Members = {m1}
    MaxAttempts = 1
    MaxTrouble = 1
    Nobody = Nobody
CHECK_DEADLOCK FALSE
INVARIANT CountsAreFaithful
PROPERTIES AcknowledgedIsAttributed EventsAreCounted
