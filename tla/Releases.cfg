SPECIFICATION SpecReleases
CONSTANTS
    Releases = {A, B}
    Runs = {i1}
    None = None
    LastBegin = 10
    MaxSafe = 24
    MaxCrashes = 2
    MaxRecords = 28
    Reserve = 8
    MaxFailures = 1
    MaxRejections = 1
    MaxRemovals = 1
    MaxFaults = 1
CHECK_DEADLOCK FALSE
INVARIANTS
    RecordIsReadable
    OnlyProvenReleasesAreKept
    NoRunIsLeftBehind
    ServiceFollowsSelection
    ProviderIsInHand
    HostRunsKnownRelease
PROPERTIES
    ChangesSettle
    DestroySettles
