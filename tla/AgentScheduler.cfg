CONSTANTS
    Agents = {a1, a2}
    Priorities = {0, 1}
    Limits = {0, 1, 2}
    MaxTasks = 3
SPECIFICATION FairSpec
INVARIANTS TypeOK Bookkeeping NoTaskLost QueueHasDriver
PROPERTIES StartsWithinLimits StartsInOrder QueueDrains
