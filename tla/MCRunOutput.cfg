CONSTANTS
    t1 = t1
    t2 = t2
    Threads = {t1, t2}
    NEvents = 5
    RunOf <- TwoRuns
SPECIFICATION Spec
SYMMETRY Symmetry
INVARIANTS
    OutputComplete
    RunInfoSound
    NoDeletedTreeFilled
    FriendRowsNear
