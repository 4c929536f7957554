SPECIFICATION FairSpec
CONSTANTS
    Members = {m1, m2}
    Topics = {t1}
    Primary = t1
    MaxAttempts = 3
    MaxMessages = 2
    MaxTrouble = 2
    Nobody = Nobody
CHECK_DEADLOCK FALSE
INVARIANTS TypeOK NothingSkipped SettledInOrder HealthyGroupLosesNothing
PROPERTY KeepsDeliveryPromise
