SPECIFICATION Spec
CONSTANTS
    Size = 6
    Levels <- MCLevels
    THR = 1
    TOTTHR = 2
    MIN_TOT = 1
    SIGNAL_TOT = 3
    NSB = 1
    NSA = 1
    NSAMPLES = 4
    AminTOT = 2
    NPED = 2
    INT_NPED = 6
    IntNPEDs = {1, 3}
    NRMSCHECKS = 3
    Nsamples = 3
    Early = 2
    Gap = 1
    ExtChannels <- MCExtChannels
INVARIANTS
    PulsesFound
    ReadsInside
    HitOfItsPulse
    PedestalSound
