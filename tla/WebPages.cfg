SPECIFICATION Spec
CONSTANTS
    Methods = {m1}
    MaxSets = 2
    Providers = {p1}
    Other = other
    Users = {u1, u2}
    Styles = {plain}
    Choices = {a, b}
    Default = a
    MaxActs = 3
    MaxRows = 3
    Ids = {i1, i2}
    MaxMade = 2
    MaxCalls = 2
    None = none
INVARIANTS
    TypeOK
    ShownIsStored
    CodesReachTheOwner
    EnabledWasTested
    EditsAreKept
    ActsOnTheRowChosen
    StepsBehindAreValid
CHECK_DEADLOCK FALSE
