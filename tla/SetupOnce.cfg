SPECIFICATION FairSpec
CONSTANTS
    Instances = {i1}
    Requests = {r1, r2}
    Admins = {a1, a2}
    CacheTTL = 1
    MaxTime = 1
    MaxVersion = 1
    MaxOpen = 2
    MaxRemovals = 1
    None = none
INVARIANTS SetupCreatesOneAdmin
PROPERTIES ClosedScreenStaysClosed EverySetupIsAnswered
