CONSTANTS
    Keys = {k1, k2}
    Values = {v1, v2}
    Paths = {p1}
    Thresholds = {2}
    DefaultThreshold = 3
    Faults = {"appendError"}
    MaxOps = 5
    MaxCrashes = 2
    NoPath = NoPath
    Absent = Absent
    Unknown = Unknown
SPECIFICATION Spec
INVARIANTS Consistent AckedIsDurable ReadYourWrites
CHECK_DEADLOCK FALSE
