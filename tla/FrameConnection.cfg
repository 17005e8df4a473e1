SPECIFICATION FairSpec
CONSTANTS
    Kinds = {"main", "sub", "excluded"}
    RetryMax = 1
    MaxConn = 5
    MaxSends = 2
    MaxEvents = 3
INVARIANTS
    EndsAgree
    AtMostOnce
PROPERTIES
    RetriedOnlyAfterClosure
    AttemptsSettle
CHECK_DEADLOCK FALSE
