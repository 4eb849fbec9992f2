SPECIFICATION Spec
CONSTANTS
    Releases = {A}
    None = None
    MaxRecords = 30
    Reserve = 8
    MaxFailures = 0
    MaxRejections = 12
    MaxRemovals = 0
CHECK_DEADLOCK FALSE
INVARIANTS
    DestructionFits
