SPECIFICATION Spec
CONSTANTS
    Client = {1, 2}
    Kinds = {"agent", "replica-server", "wallet-client"}
    Scope = {s1, s2}
    Space = {p1}
    OtherWriter = {3}
    WriteAttempts = 2
    Life = 2
    Lifetime = 2
    Skew = 0
    InactiveAfter = 1
    TouchInterval = 1
    MaxWriters = 2
    MaxCalls <- CallBounds
    MaxCuts = 1
    MaxDay <- DayBounds
INVARIANTS TypeOK RetiredIsEmpty LiveStaysListed EnvelopeOwed RenewedOnce OneRegistration HeartbeatSurvives
SYMMETRY Scopes
CHECK_DEADLOCK FALSE
