CONSTANTS
    Task = {"vtimer", "main", "tcpip", "idle"}
    IDLE = "idle"
    BasePriority <- Prio
    Handle = {"q", "log", "mutex", "rx_q", "qs", "sleep"}
    Length <- Lengths
    Mutex = {"log", "mutex"}
    Outer = "log"
    Direct = {"main", "tcpip"}
    Container <- Sets
    Item = {"x", "y"}
    Workload <- Work
    MaxLock = 2
    NULL = "null"
    Sleeper = {"vtimer", "main"}
    TickMod = 5
    Delays = {1, 3}
    MaxPended = 2
    NOBODY = "nobody"
SPECIFICATION RtosSpec
INVARIANTS
    NoLostWakeup
    PrioritiesHold
    WakesOnTime
PROPERTIES
    QueuesImplemented
