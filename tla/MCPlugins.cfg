SPECIFICATION Spec
CONSTANTS
    Threads = {t1, t2}
    NEvents = 3
    RunOf <- MCRunOf
    MaxHits = 1
    Output <- BDXEventProcessor
    Plugins <- AllPlugins
    Leaky <- MCLeaky
    Losing <- MCLosing
    Unlocked <- MCUnlocked
    Mixed <- MCMixed
    Resetting <- MCResetting
    Blind <- MCBlind
INVARIANTS
    LockGivenBack
    RaceFree
    RowsOfOneEvent
    AloneWithoutLock
    OutputSaved
PROPERTY
    JobEnds
CHECK_DEADLOCK FALSE
