SPECIFICATION Spec
CONSTANTS
    c1 = c1
    c2 = c2
    d1 = d1
    d2 = d2
    Client = {c1, c2}
    Doc = {d1, d2}
    Payload = {1, 2, 3}
    Opaque <- OneUnreadable
    BatchSize = 1
    MaxClock = 9
    Setups <- AllSetups
INVARIANTS CleanMatchesServer CheckpointCoversFeed
PROPERTIES Converges
