CONSTANTS
    Requests = {r1, r2}
    Shapes <- MCShapes
    MaxEntries = 2
    MaxCalls = 1
    NoRequest = NoRequest
SPECIFICATION FairSpec
INVARIANTS PositionsAreValid CanceledIsIgnored
PROPERTIES OfferedInOrder RequestsSettle
CHECK_DEADLOCK FALSE
