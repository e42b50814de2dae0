CONSTANTS
    THR_singleReadout = 5
    THR_multipleReadout = 3
    N_multipleReadout = 2
    DT_multipleReadout = 100
    CLUSTER_HIT_THR = 10
    CLUSTER_SEED_THR = 20
    Gain <- Gains
    Ped <- Peds
    WordBits = 3
    MAGIC_TRG_WORD = 6
    chanTimeMin <- MCTimeMin
    chanTimeMax = 16
    Sent <- MCSent
    Builders = {"BDXmini", "CataniaProto2", "JLabFlux", "FullMC"}
    MaxEvents = 2
    Inputs <- MCInputs
    Few <- MCFew
    MaxOther = 1
    thrNpheVeto = 5
    thrEneTot = 100
SPECIFICATION Spec
INVARIANTS
    WordsDecoded
    EventIsWhole
    ImportantWaveformsKept
    HitsSound
