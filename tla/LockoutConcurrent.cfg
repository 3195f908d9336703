SPECIFICATION FairSpec
CONSTANTS
    Requests = {r1, r2}
    Accounts = {a1}
    Addresses = {i1}
    MaxFailures = 2
    Window = 1
    BaseDuration = 1
    MaxDuration = 2
    MaxTime = 3
    None = none
INVARIANTS TypeOK CountersLoseNothing OvershootBounded
PROPERTIES LocksOnlyAtThreshold EverySignInEnds
CHECK_DEADLOCK FALSE
