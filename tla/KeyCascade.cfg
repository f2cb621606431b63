SPECIFICATION Spec
CONSTANTS
    a = a
    b = b
    x = x
    t = t
    Client = {a, b, x, t}
    Setups <- AllSetups
    Collection = {"k"}
    CasAttempts = 2
INVARIANTS HistoryReadable LoneRevocationBites
PROPERTIES CollectionNeverRewinds CascadeSettles
