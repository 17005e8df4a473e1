CONSTANTS
    Keys = {k1, k2}
    Values = {v1, v2}
    Paths = {p1}
    Thresholds = {2}
    DefaultThreshold = 3
    Faults = {"tear", "readError", "compactError"}
    MaxOps = 4
    MaxCrashes = 2
    NoPath = NoPath
    Absent = Absent
    Unknown = Unknown
SPECIFICATION Spec
INVARIANTS CleanAckIsDurable
CHECK_DEADLOCK FALSE
