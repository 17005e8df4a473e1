SPECIFICATION Spec
CONSTANTS
    Versions = {1, 2, 3}
    Expected = 2
    Parts = 2
    MaxRetries = 1
    MaxRuns = 3
    MaxFaults = 2
INVARIANTS
    TypeOK
    StampMeansComplete
    UsedIsComplete
    NoCauselessFailure
PROPERTY
    RunsEnd
CHECK_DEADLOCK FALSE
