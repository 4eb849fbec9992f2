SPECIFICATION SpecAll
CONSTANTS
    Callers = {p1, p2}
    Transitions = {x, y}
    Paged = TRUE
    MaxEpoch = 2
    MaxVersion = 2
    MaxDelayed = 1
    Residents = {p1, p2}
    Admitters = {a1, a2}
    Runs = {i1}
    Contents = {m, n}
    None = None
    MaxSafe = 3
    MaxMoves = 2
    Workers = {p1, p2}
    Senders = {k1, k2}
    Deliveries = {d1, d2}
    Commands <- CommandsOfSenders
    Plans <- WaitingPlans
    d1 = d1
    d2 = d2
    q1 = q1
    MaxEvents = 3
SYMMETRY Symmetry
CHECK_DEADLOCK FALSE
CONSTRAINT Crowd
INVARIANTS
    AnswersAreTrue
    QuiescentHistoryIsComplete
    ReconstructionIsASnapshot
    BarrierAnswersHold
    StepsRunOnce
    CommandAnswersAreTrue
    ReadyWorkAgrees
PROPERTIES
    HistorySpec
    PlanSpec
