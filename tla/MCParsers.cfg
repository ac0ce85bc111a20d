CONSTANTS
    PBUF_SIZE = 12
    Protocols = {"ublox", "tsip", "oncore", "nmea", "plain"}
    Times = {3, 16}
    Noise = {181, 16, 64}
    MaxFaults = 1
    LastYear = 2110
    W32 = 1048576
    W16 = 65536
    KeyBytes = 2
    Lines <- SetLines
    IhexBufSize = 8
    Records <- HexFiles
    MaxDamage = 1
SPECIFICATION ParsersSpec
INVARIANTS
    FixFaithful
    DatesAgree
    ListingRestores
    IhexTrue
CHECK_DEADLOCK FALSE
