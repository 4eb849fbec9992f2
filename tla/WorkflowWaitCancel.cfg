SPECIFICATION SpecAll
CONSTANTS
    Callers = {p1}
    Transitions = {x}
    Paged = FALSE
    MaxEpoch = 1
    MaxVersion = 1
    MaxDelayed = 0
    Residents = {p1}
    Admitters = {a1}
    Runs = {i1}
    Contents = {m}
    None = None
    MaxSafe = 2
    MaxMoves = 1
    Workers = {p1}
    Senders = {k1, k2}
    Deliveries = {d1, d2}
    Commands <- CommandsOfSenders
    Plans <- WaitingPlans
    d1 = d1
    d2 = d2
    q1 = q1
    MaxEvents = 1
CONSTRAINT Crowd
CHECK_DEADLOCK FALSE
INVARIANTS
    WaitsCancel
