CONSTANTS
    l1 = l1
    l2 = l2
    l3 = l3
    beam = beam
    temp = temp
    Keys <- TwoKeys
    KeysOf <- MCKeysOf
    DELTA_TIME = 1
    T0 = 2
    mT = 3
    Loops <- TwoLoops
    NSourceEvents = 3
    MAX_EVENTS_IN_BUFFER = 2
    EVENTS_TO_SKIP = 0
    EVENTS_TO_KEEP = 0
    SKIP_TO_EVENT = 0
    MAX_RELAUNCH_THREADS = 1
    MaxKills = 1
    MayInterrupt = TRUE
SPECIFICATION ESpec
SYMMETRY Symmetry
INVARIANT
    SharedDataSound
PROPERTY
    ValuesNeverGoBack
CHECK_DEADLOCK FALSE
