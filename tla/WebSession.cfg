SPECIFICATION Spec
CONSTANTS
    MaxCalls = 2
    MaxSessions = 2
    InitRetries = 1
    Endings = {"no_session"}
    None = none
INVARIANTS TypeOK ScreenMatchesCookie
PROPERTIES CodesLeftOnPurpose
