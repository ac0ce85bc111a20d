CONSTANTS
    Caller = {vtimer, main}
    Logger = {vtimer}
    None = None
    Wake = Wake
    Tcpip = Tcpip
    QueueLen = 1
    Syslog = TRUE
    Dhcp = TRUE
SPECIFICATION TcpipSpec
INVARIANTS
    ApiThreadNeverStuck
