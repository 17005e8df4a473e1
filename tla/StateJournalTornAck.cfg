CONSTANTS
    Keys = {k1, k2}
    Values = {v1, v2}
    Paths = {p1}
    Thresholds = {2}
    DefaultThreshold = 3
    Faults = {"tear"}
    MaxOps = 3
    MaxCrashes = 2
    NoPath = NoPath
    Absent = Absent
    Unknown = Unknown
SPECIFICATION Spec
INVARIANTS AckedIsDurable
CHECK_DEADLOCK FALSE
