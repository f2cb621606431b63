SPECIFICATION Spec
CONSTANTS
    a = a
    b = b
    Client = {a, b}
    Founder = {a, b}
    Attempts = 3
    Delayed = TRUE
    MaxStarts = 3
    MaxCrashes = 1
    MaxRollbacks = 0
PROPERTIES ProjectionFollows
