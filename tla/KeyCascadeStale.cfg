SPECIFICATION Spec
CONSTANTS
    a = a
    b = b
    x = x
    t = t
    Client = {a, b, x, t}
    Setups <- TwoOfFour
    Collection = {"k"}
    CasAttempts = 3
INVARIANTS RevocationBites
