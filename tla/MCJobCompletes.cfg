CONSTANTS
    l1 = l1
    l2 = l2
    l3 = l3
    Loops <- TwoLoops
    NSourceEvents = 4
    MAX_EVENTS_IN_BUFFER = 1
    EVENTS_TO_SKIP = 1
    EVENTS_TO_KEEP = 2
    SKIP_TO_EVENT = 0
    MAX_RELAUNCH_THREADS = 0
    MaxKills = 0
    MayInterrupt = FALSE
SPECIFICATION FairSpec
PROPERTY JobCompletes
