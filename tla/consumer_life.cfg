SPECIFICATION FairSpec
CONSTANTS
    Starts = {s1, s2}
    MaxBackoff = 3
    MaxOutages = 1
CHECK_DEADLOCK FALSE
INVARIANTS TypeOK OneLoop ReadyWhileConsuming
PROPERTIES RetriesUntilAvailable  CancelledReturns
