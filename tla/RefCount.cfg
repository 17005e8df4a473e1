SPECIFICATION Spec
CONSTANTS
    Threads = {t1, t2, t3}
    Refs = {r1, r2}
    NoThread = NoThread
INVARIANTS
    TypeOK
    UsesHappenBeforeFree
    SoleIsAlone
PROPERTY
    OwnershipSpec
CHECK_DEADLOCK FALSE
