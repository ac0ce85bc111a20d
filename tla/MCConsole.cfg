CONSTANTS
    Port = {"Serial1", "Serial5"}
    SERIAL_RX_SIZE = 1
    SERIAL_TX_SIZE = 1
    Writer = {a, b}
    MaxWrites = 1
    NULL = NULL
    CL_SIZE = 4
    EXIT = "e"
    SAVE = "s"
    UNKNOWN = "o"
    Client = {c, d}
    RBUF_SIZE = 2
    NBytes = 3
    MaxPackets = 2
    MaxWaiting = 2
    NOPCB = NOPCB
SPECIFICATION ConsoleSpec
INVARIANTS
    PortsExact
    EnterRunsShown
    RelayRight
SYMMETRY Perms
CHECK_DEADLOCK FALSE
