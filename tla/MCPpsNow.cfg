CONSTANTS
    MONO_PERIOD = 6
    IrqLatency = 2
    PpsGap = 5
    MaxEpoch = 18
    SleepHorizon = 7
SPECIFICATION Spec
PROPERTIES
    NowMonotonic
