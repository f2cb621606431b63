SPECIFICATION Spec
CONSTANTS
    Unlock = {P}
    Code = {}
    Credential = {P}
    Client = {A, B}
    MaxEntries = 6
SYMMETRY Alike
INVARIANTS
    LicenseIsEarned
CHECK_DEADLOCK FALSE
