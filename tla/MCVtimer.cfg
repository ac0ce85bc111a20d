CONSTANTS
    K = 5
    DesyncLimit = 5
    PpsTimeout = 5
    Holdover = 7
    DL0 = 10
    MJ = 8
    MaxOff = 8
    Rounds = 5
    IwdgMin = 3
    IwdgMax = 9
    MONO = 1
    SECOND = 40
    SUB_TIME = 35
    PREC = 2
    NOMINAL = 16
    MaxFreq = 1
    Word = 1024
    Steps = {10}
    Late = 1
    Horizon = 12
SPECIFICATION PllSpec
INVARIANTS
    SynchronisedHonest
    NoFalseReset
    ClockRight
    CorrectionBelongs
PROPERTIES
    HoldoverExact
    Converges
    HungResets
