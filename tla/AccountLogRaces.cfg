SPECIFICATION Spec
CONSTANTS
    a = a
    b = b
    Client = {a, b}
    Founder = {a}
    Attempts = 3
    Delayed = FALSE
    MaxStarts = 4
    MaxCrashes = 1
    MaxRollbacks = 1
INVARIANTS
    LogResolves
    RevokedIsOut
    SeedsFollowLog
PROPERTIES
    PinNeverRewinds
    EditsOneClient
