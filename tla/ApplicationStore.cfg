SPECIFICATION SpecAll
CONSTANTS
    Callers = {c1, c2}
    Effects = {e1, e2}
    Transfers = {t1, t2}
    None = None
    MaxEpoch = 2
    MaxAttempts = 2
    MaxTransferEpoch = 2
SYMMETRY Symmetry
CONSTRAINT Crowd
VIEW View
INVARIANTS
    AnswersAreTrue
    TransfersBind
PROPERTIES
    DestinationSpec
    RetiredStoreIsSealed
    FenceSpec
