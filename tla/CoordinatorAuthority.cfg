SPECIFICATION Spec
CONSTANTS
    Clients = {c1, c2}
    Coordinators = {n1, n2}
    Requests = {r1, r2, r3}
    Times = {1}
    None = none
    MaxSafe = 3
    MaxDelayed = 1
SYMMETRY Symmetry
CONSTRAINT Crowd
INVARIANTS
    AnswersAreDurable
PROPERTIES
    RefusalsAreReal
    RegisterSpec
