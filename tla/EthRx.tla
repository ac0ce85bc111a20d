-------------------------------- MODULE EthRx --------------------------------
(***************************************************************************)
(* The receive side of eth_mac.c with ethernetif_input and the loop of the  *)
(* tcpip thread: the DMA fills a ring of descriptors, the thread takes the  *)
(* frames out one by one, skips the invalid ones and gives the descriptors  *)
(* back.  The interrupt wakes the thread through tcpip_queue, which API     *)
(* calls may have filled; the thread then finds the frame by polling.       *)
(***************************************************************************)
EXTENDS Naturals, Sequences

CONSTANTS
    RX_BUFS,      \* descriptors in the ring (4 in the code)
    PoolSize      \* pbufs in the pool frames are copied to (PBUF_POOL_SIZE)

ASSUME RxAssumption == RX_BUFS \in Nat \ {0} /\ PoolSize \in Nat \ {0}

VARIABLES
    own, valid,     \* rx_descs: OWN, and whether the frame passes the checks of des0
    stored,         \* rx_descs: which frame the buffer holds, by its number
    rx_ptr,
    rx_dma, suspended,  \* the DMA: its descriptor; it found none to fill
    wakeup,         \* a message for the thread is in tcpip_queue
    rx_pc, rdesc,   \* the thread: where it is, and the descriptor it reads
    frame_received,
    pool,           \* free pbufs
    arrived, given  \* history, modulo Window: frames stored, and taken by the thread

rx_ring   == <<own, valid, stored, rx_ptr>>
rx_device == <<rx_dma, suspended, wakeup>>
rx_thread == <<rx_pc, rdesc, frame_received, pool>>
rx_vars   == <<rx_ring, rx_device, rx_thread, arrived, given>>

RxDesc == 0 .. RX_BUFS - 1

rx_next(d) == (d + 1) % RX_BUFS

\* Frames are numbered modulo a number larger than can be under way.
Window == RX_BUFS + 2

\* mac_start.
RxInit ==
    /\ own = [d \in RxDesc |-> TRUE] /\ valid = [d \in RxDesc |-> FALSE]
    /\ stored = [d \in RxDesc |-> 0]
    /\ rx_ptr = 0 /\ rx_dma = 0 /\ suspended = FALSE /\ wakeup = FALSE
    /\ rx_pc = "wait" /\ rdesc = 0 /\ frame_received = FALSE
    /\ pool = PoolSize
    /\ arrived = 0 /\ given = 0

-----------------------------------------------------------------------------
(* The DMA and ETH_IRQHandler. *)

\* A frame arrives.  Without a descriptor it is missed and the DMA suspends;
\* a suspended DMA looks at its descriptor again when the next one arrives.
Arrive(ok) ==
    /\ own[rx_dma]
    /\ own' = [own EXCEPT ![rx_dma] = FALSE]
    /\ valid' = [valid EXCEPT ![rx_dma] = ok]
    /\ stored' = [stored EXCEPT ![rx_dma] = arrived]
    /\ arrived' = (arrived + 1) % Window
    /\ rx_dma' = rx_next(rx_dma)
    /\ suspended' = FALSE
    \* The message goes into the queue unless that is full.
    /\ wakeup' \in {TRUE, wakeup}
    /\ UNCHANGED <<rx_ptr, rx_thread, given>>

Miss ==
    /\ ~own[rx_dma]
    /\ suspended' = TRUE
    /\ UNCHANGED <<rx_ring, rx_dma, wakeup, rx_thread, arrived, given>>

-----------------------------------------------------------------------------
(* tcpip_thread and ethernetif_input. *)

\* Fault: the wait for a message has no limit.
QueueReceivedFault == wakeup \/ frame_received

\* xQueueReceive returns: with a message, at once after a frame, or after
\* 20 ms with nothing.
QueueReceived == TRUE

Receive ==
    /\ rx_pc = "wait"
    /\ QueueReceived
    /\ wakeup' = FALSE
    /\ rx_pc' = "get"
    /\ UNCHANGED <<rx_ring, rx_dma, suspended, rdesc, frame_received, pool, arrived, given>>

\* mac_get_rx_descriptor: the DMA has the next descriptor, nothing to do.
GetNone ==
    /\ rx_pc = "get"
    /\ own[rx_ptr]
    /\ frame_received' = FALSE
    /\ rx_pc' = "wait"
    /\ UNCHANGED <<rx_ring, rx_device, rdesc, pool, arrived, given>>

\* An invalid frame is given back without waking the DMA.
GetInvalid ==
    /\ rx_pc = "get"
    /\ ~own[rx_ptr] /\ ~valid[rx_ptr]
    /\ own' = [own EXCEPT ![rx_ptr] = TRUE]
    /\ rx_ptr' = rx_next(rx_ptr)
    /\ given' = (stored[rx_ptr] + 1) % Window
    /\ UNCHANGED <<valid, stored, rx_device, rx_thread, arrived>>

GetValid ==
    /\ rx_pc = "get"
    /\ ~own[rx_ptr] /\ valid[rx_ptr]
    /\ rdesc' = rx_ptr
    /\ rx_ptr' = rx_next(rx_ptr)
    /\ rx_pc' = "alloc"
    /\ UNCHANGED <<own, valid, stored, rx_device, frame_received, pool, arrived, given>>

\* Fault: the descriptor of a frame that is dropped is kept.
DroppedOwnFault == FALSE

\* mac_release_rx_descriptor for a frame that found no pbuf.
DroppedOwn == TRUE

\* pbuf_alloc: copy the frame next, or release the descriptor and drop it.
Alloc ==
    /\ rx_pc = "alloc"
    /\ \/ /\ pool > 0
          /\ pool' = pool - 1
          /\ rx_pc' = "read"
          /\ UNCHANGED <<own, suspended, given, frame_received>>
       \/ /\ pool = 0
          /\ own' = [own EXCEPT ![rdesc] = DroppedOwn]
          /\ suspended' = FALSE
          /\ given' = (stored[rdesc] + 1) % Window
          /\ frame_received' = TRUE
          /\ rx_pc' = "wait"
          /\ UNCHANGED pool
    /\ UNCHANGED <<valid, stored, rx_ptr, rx_dma, wakeup, rdesc, arrived>>

\* mac_read_rx_descriptor for each pbuf, then mac_release_rx_descriptor,
\* which resumes a suspended DMA; lwIP has the frame.
Read ==
    /\ rx_pc = "read"
    /\ own' = [own EXCEPT ![rdesc] = TRUE]
    /\ suspended' = FALSE
    /\ given' = (stored[rdesc] + 1) % Window
    /\ frame_received' = TRUE
    /\ rx_pc' = "wait"
    /\ UNCHANGED <<valid, stored, rx_ptr, rx_dma, wakeup, rdesc, pool, arrived>>

\* lwIP is done with a frame, or the transmit housekeeping frees it.
PbufFree ==
    /\ pool < PoolSize - (IF rx_pc = "read" THEN 1 ELSE 0)
    /\ pool' = pool + 1
    /\ UNCHANGED <<rx_ring, rx_device, rx_pc, rdesc, frame_received, arrived, given>>

-----------------------------------------------------------------------------
RxThread == Receive \/ GetNone \/ GetInvalid \/ GetValid \/ Alloc \/ Read
RxNext == (\E ok \in BOOLEAN : Arrive(ok)) \/ Miss \/ RxThread \/ PbufFree

\* The thread runs; its wait for a message ends after 20 ms at the latest.
RxSpec == RxInit /\ [][RxNext]_rx_vars /\ WF_rx_vars(RxThread)

-----------------------------------------------------------------------------
RxTypeOK ==
    /\ own \in [RxDesc -> BOOLEAN] /\ valid \in [RxDesc -> BOOLEAN]
    /\ stored \in [RxDesc -> 0 .. Window - 1]
    /\ rx_ptr \in RxDesc /\ rx_dma \in RxDesc /\ rdesc \in RxDesc
    /\ suspended \in BOOLEAN /\ wakeup \in BOOLEAN /\ frame_received \in BOOLEAN
    /\ rx_pc \in {"wait", "get", "alloc", "read"}
    /\ pool \in 0 .. PoolSize
    /\ arrived \in 0 .. Window - 1 /\ given \in 0 .. Window - 1

\* The thread takes the frames in the order in which the DMA stored them and
\* leaves none out: each is the successor of the one before, also where an
\* invalid frame lies between.
TakenInOrder == [][ given' # given => given' = (given + 1) % Window ]_rx_vars

\* The DMA never writes into the buffer that is being copied.
ReadsStable == rx_pc \in {"alloc", "read"} => ~own[rdesc]

\* From rx_ptr on, the frames not yet taken lie one after the other, and the
\* rest of the ring belongs to the DMA: no descriptor is lost.
RingWhole ==
    LET held == IF rx_pc \in {"alloc", "read"} THEN 1 ELSE 0
        n == (arrived + 2 * Window - given - held) % Window
    IN  \A k \in 0 .. RX_BUFS - 1 - held : own[(rx_ptr + k) % RX_BUFS] = (k >= n)

\* Every frame that was stored is taken, also when the interrupt found
\* tcpip_queue full and the wakeup was lost.
AllTaken == \A n \in 0 .. Window - 1 : arrived # n /\ given = n ~> given # n

\* The ring stays whole between the DMA, mac_get_rx_descriptor and
\* mac_release_rx_descriptor, and its frames come out stable and in order.
RxRingExact == [](ReadsStable /\ RingWhole) /\ TakenInOrder
=============================================================================
