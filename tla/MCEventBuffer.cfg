CONSTANTS
    l1 = l1
    l2 = l2
    l3 = l3
    Loops <- TwoLoops
    NSourceEvents = 4
    MAX_EVENTS_IN_BUFFER = 2
    EVENTS_TO_SKIP = 0
    EVENTS_TO_KEEP = 0
    SKIP_TO_EVENT = 0
    MAX_RELAUNCH_THREADS = 1
    MaxKills = 2
    MayInterrupt = TRUE
SPECIFICATION Spec
SYMMETRY LoopSymmetry
INVARIANTS
    DeliveredInOrder
    ProcessedAtMostOnce
    NothingLost
    NobodyLeavesEarly
    NothingOvertakesBarrier
    UndefinedOnlyAtEnd
PROPERTY
    ImplementsDelivery
CHECK_DEADLOCK FALSE
