CONSTANTS
    t1 = t1
    t2 = t2
    t3 = t3
    c1 = c1
    c2 = c2
    Threads = {t1, t2, t3}
    Channels = {c1, c2}
    Runs = {1}
    MayFail = TRUE
    MaxEvents = 4
SPECIFICATION TTFairSpec
INVARIANT TableSound
PROPERTY ConstructorReturns
