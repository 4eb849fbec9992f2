SPECIFICATION DeliverySpec
CONSTANTS
    Callers = {c1, c2}
    Effects = {e1, e2}
    None = None
    MaxCalls = 2
    Lossy = FALSE
    MaxUnresolved = 2
    MaxGeneration = 1
    MaxEpoch = 1
SYMMETRY Symmetry
CHECK_DEADLOCK FALSE
INVARIANTS
    UncertaintyIsUnknown
