SPECIFICATION FairSpec
CONSTANTS
    N = 4
    Iterations = 2
    Limits = {0, 1, 2, 4}
INVARIANTS
    TypeOK
    ConcurrencyBounded
    IterationsDoNotMix
    SummariesComplete
    LoopHasDriver
PROPERTIES
    LoopCompletes
CHECK_DEADLOCK FALSE
