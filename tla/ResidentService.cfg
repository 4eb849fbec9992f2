SPECIFICATION SpecAll
CONSTANTS
    Residents = {r1, r2}
    Hosts = {h1}
    Manuals = {m1}
    MaxEpoch = 6
    MaxVisits = 1
    MaxTakeovers = 1
    MaxErrors = 1
    MaxLosses = 1
    MaxSessions = 10
    MaxFaults = 2
CHECK_DEADLOCK FALSE
INVARIANTS
    AdoptedIsFloor
    OwnersAreRight
PROPERTIES
    StoreHasOneServer
    ServiceBecomesReady
    OnlyOwnerMovesLifecycle
    AResidentServes
