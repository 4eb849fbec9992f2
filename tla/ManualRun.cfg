SPECIFICATION SpecAll
CONSTANTS
    Effects = {e1, e2}
    MaxUnresolved = 2
    MaxGeneration = 2
    MaxEpoch = 2
    Callers = {c1, c2}
    MaxCalls = 3
    None = None
    Lossy = TRUE
SYMMETRY Symmetry
CONSTRAINT Crowd
CHECK_DEADLOCK FALSE
INVARIANTS
    CodeBeginsOnce
    EffectsAreAccountedFor
    EveryRunIsReadable
    LedgerTellsDestination
    AdapterRunsOnce
PROPERTIES
    DecisionsAreFinal
    EndedRunIsQuiet
