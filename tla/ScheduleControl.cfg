SPECIFICATION FairSpec
CONSTANTS
    Observers = {o1, o2}
    Bound = {o1, o2}
    Definitions = {d1, d2}
    Due <- DueMinutes
    None = None
    TicksPerMinute = 2
    Times = {1, 4, 6}
    MaxScan = 2
    MaxSessions = 5
    MaxFaults = 2
CHECK_DEADLOCK FALSE
INVARIANTS
    EveryDueMinuteIsAccountedOnce
PROPERTIES
    ScheduleCatchesUp
