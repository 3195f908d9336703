SPECIFICATION Spec
CONSTANTS
    MaxCalls = 2
    MaxSessions = 1
    InitRetries = 1
    Endings = {"no_session"}
    None = none
PROPERTIES NothingHangs
