SPECIFICATION Spec
CONSTANTS
    Callers = {c1, c2}
    Transitions = {t1, t2}
    Paged = TRUE
    MaxEpoch = 2
    MaxVersion = 2
    MaxDelayed = 1
SYMMETRY Symmetry
INVARIANTS
    ProjectionErrorMeansDisagreement
