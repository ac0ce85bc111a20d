SPECIFICATION Spec
CONSTANTS
    PageSize = 4
    Pages = 3
    Retries = 2
    Tries = 2
    PollLimit = 1
    MaxOps = 3
    MaxFaults = 1
    MaxResets = 1
    SetChoices <- MCSets
INVARIANTS
    BootConfigGood
    ConfirmedStored
PROPERTY
    SaveEnds
