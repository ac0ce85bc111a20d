CONSTANTS
    TX_BUFS = 3
    Pbuf = {a, b, c, d}
    Segments <- Single
    NULL = NULL
    RX_BUFS = 4
    PoolSize = 2
    Abilities = {{5}, {5, 6, 7, 8}}
    Controls = {{12}, {8, 13}}
SPECIFICATION EthSpec
INVARIANTS
    TxRingExact
    LinkExact
PROPERTIES
    TransmitReturns
    RxRingExact
    AllTaken
CHECK_DEADLOCK FALSE
