SPECIFICATION Spec
CONSTANTS
    Requests = {r1, r2}
    Instances = {i1}
    CacheTTL = 2
    MaxRead = 1
    MaxVersion = 2
    SettingsTime = 5
    Sessions = {s1}
    Absolute = 6
    IdleTime = 4
    RenewWithin = 3
    Touch = 1
    MaxStall = 1
    SessionsTime = 9
    Methods = {m1, m2}
    MaxSets = 3
    Addresses = {a1, a2}
    MaxStarts = 2
    None = none
INVARIANTS
    TypeOK
    StaleAtMostTTL
    RowFollowsUse
    AlwaysSomeCodes
    StatePaysOnce
    SignsInTheLinked
PROPERTIES
    QuietSessionsEnd
    RemovalsHold
    ProvisionedAreLinked
