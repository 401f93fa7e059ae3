CONSTANTS
    Buses <- MCBuses
    Queries <- MCQueries
    Attempts = 3
    Retries = 2
    MaxFaults = 2
SPECIFICATION FairSpec
CHECK_DEADLOCK FALSE
INVARIANTS
    TypeOK
    FoundIsThere
    ControlsAreOwn
PROPERTIES
    LuxIsMeasured
    RangeIsRight
    ReadsEnd
