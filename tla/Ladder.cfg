SPECIFICATION Spec
CONSTANTS
    Unlock = {P, K}
    Code = {R, Q}
    Credential = {P, K, R, Q}
    Client = {A, B}
    MaxEntries = 5
SYMMETRY Alike
INVARIANTS
    SurvivorsIntact
    RetiredOwnsNothing
    ReadingIsOwn
    ReportReadBack
PROPERTIES
    SpendLeavesNoOrphans
CHECK_DEADLOCK FALSE
