CONSTANTS
    MONO_PERIOD = 5
    IrqLatency = 2
    PpsGap = 7
    MaxEpoch = 20
    SleepHorizon = 6
SPECIFICATION Spec
INVARIANTS
    EpochTracksTime
    CaptureExactOnce
PROPERTIES
    NowExactOrStale
    SleepNotEarly
    SleepWakes
