SPECIFICATION FairSpec
CONSTANTS
    Releases = {A, B}
    Runs = {}
    None = None
    LastBegin = 9
    MaxSafe = 24
    MaxCrashes = 1
CHECK_DEADLOCK FALSE
PROPERTIES
    InstallsSettle
