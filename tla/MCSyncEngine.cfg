SPECIFICATION Spec
CONSTANTS
    RunId = {r1, r2}
    NoRun = NoRun
    Remints = TRUE
    HostModes = {"never", "syncing", "synced"}
    MaxDisturbances = 2
    MaxInvalidations = 2
INVARIANTS TypeOK SingleFlight PushAfterProvisioning
PROPERTIES StopIsFinal RequestServed ImplementsContract
CHECK_DEADLOCK FALSE
