SPECIFICATION FairSpec
CONSTANTS
    Callers = {c1, c2, c3}
    Threshold = 2
    Timeout = 2
INVARIANTS TypeOK CountMatchesState
PROPERTIES TransitionsHaveCauses EventuallyProbes RecoversForGood
