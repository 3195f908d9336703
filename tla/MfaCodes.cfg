SPECIFICATION Spec
CONSTANTS
    Requests = {r1, r2}
    Methods = {m1, m2}
    MaxSets = 3
    None = none
INVARIANT OneSetOfCodes
