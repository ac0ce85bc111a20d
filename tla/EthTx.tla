-------------------------------- MODULE EthTx --------------------------------
(***************************************************************************)
(* The transmit side of eth_mac.c: maczero_transmit puts the buffers of a   *)
(* pbuf chain into a ring of descriptors that the Ethernet DMA empties, and *)
(* maczero_housekeeping frees the pbufs the DMA has released.  The DMA runs *)
(* beside the tcpip thread: it may release a descriptor between any two     *)
(* reads of the ring.                                                       *)
(***************************************************************************)
EXTENDS Integers, Sequences

CONSTANTS
    TX_BUFS,    \* descriptors in the ring (4 in the code)
    Pbuf,       \* the frames: the first pbuf of each chain
    Segments,   \* per frame, the pbufs in its chain
    NULL

ASSUME RingAssumption == TX_BUFS \in Nat \ {0} /\ NULL \notin Pbuf \union Nat
ASSUME SegmentsAssumption == Segments \in [Pbuf -> Nat \ {0}]

VARIABLES
    des,                \* tx_descs: OWN, FS and LS of des0, des_buf, pbuf
    tx_ptr, tx_active,
    ethmac_tx_sem,
    pc, p, q,           \* maczero_transmit: where it is, its frame and segment
    tdes, tdes_first,
    ref,                \* per frame, its reference count
    dma, reading,       \* the DMA: its descriptor, what it has read of a frame
    queued,             \* history: frames handed to the DMA and not yet sent
    wire                \* history: what was last sent

ring   == <<des, tx_ptr, tx_active>>
thread == <<pc, p, q, tdes, tdes_first, ref>>
vars   == <<ring, thread, ethmac_tx_sem, dma, reading, queued, wire>>

Desc == 0 .. TX_BUFS - 1

des_next(d) == (d + 1) % TX_BUFS

\* mac_start.
Init ==
    /\ des = [d \in Desc |-> [own |-> FALSE, fs |-> FALSE, ls |-> FALSE,
                              buf |-> <<>>, pbuf |-> NULL]]
    /\ tx_ptr = 0 /\ tx_active = NULL
    /\ ethmac_tx_sem = FALSE
    /\ pc = "idle" /\ p = NULL /\ q = 0 /\ tdes = 0 /\ tdes_first = NULL
    /\ ref = [f \in Pbuf |-> 0]
    /\ dma = 0 /\ reading = <<>> /\ queued = <<>> /\ wire = <<>>

-----------------------------------------------------------------------------
(* maczero_transmit, called by low_level_output in the tcpip thread. *)

\* lwIP allocates a frame and hands it over; it drops its own reference when
\* the call has returned.
Transmit(f) ==
    /\ pc = "idle"
    /\ ref[f] = 0
    /\ ref' = [ref EXCEPT ![f] = 1]
    /\ p' = f /\ q' = 1
    /\ tdes' = tx_ptr /\ tdes_first' = NULL
    /\ pc' = "loop"
    /\ UNCHANGED <<ring, ethmac_tx_sem, dma, reading, queued, wire>>

\* Fault: the loop tries once more instead of giving up.
GiveUpFault == pc' = "loop" /\ UNCHANGED <<p, q, tdes, tdes_first, ref>>

\* Return to the caller, which frees its reference.
GiveUp ==
    /\ pc' = "idle" /\ p' = NULL /\ q' = 0 /\ tdes' = 0 /\ tdes_first' = NULL
    /\ ref' = [ref EXCEPT ![p] = @ - 1]

\* The link is down or the timeout has passed: ERR_TIMEOUT.
TimedOut ==
    /\ pc = "loop"
    /\ GiveUp
    /\ UNCHANGED <<ring, ethmac_tx_sem, dma, reading, queued, wire>>

\* Otherwise do the housekeeping.
Enter ==
    /\ pc = "loop"
    /\ pc' = "housekeeping"
    /\ UNCHANGED <<ring, p, q, tdes, tdes_first, ref, ethmac_tx_sem, dma, reading, queued, wire>>

Released == tx_active # NULL /\ ~des[tx_active].own

\* maczero_housekeeping, one turn of its loop.
Housekeeping ==
    /\ pc = "housekeeping"
    /\ Released
    /\ LET f == des[tx_active].pbuf
       IN  ref' = IF f = NULL THEN ref ELSE [ref EXCEPT ![f] = @ - 1]
    /\ tx_active' = IF des_next(tx_active) = tx_ptr THEN NULL ELSE des_next(tx_active)
    /\ UNCHANGED <<des, tx_ptr, pc, p, q, tdes, tdes_first, ethmac_tx_sem,
                   dma, reading, queued, wire>>

HousekeepingDone ==
    /\ pc = "housekeeping"
    /\ ~Released
    /\ pc' = "check"
    /\ UNCHANGED <<ring, p, q, tdes, tdes_first, ref, ethmac_tx_sem, dma, reading, queued, wire>>

\* Fault: the descriptor is used although the DMA still has it.
AvailableFault == TRUE

Available == ~des[tdes].own

\* The descriptor is free: take it; otherwise wait for a transmit interrupt.
Check ==
    /\ pc = "check"
    /\ \/ Available /\ tx_ptr' = des_next(tdes) /\ pc' = "fill"
       \/ ~Available /\ pc' = "sleep" /\ UNCHANGED tx_ptr
    /\ UNCHANGED <<des, tx_active, p, q, tdes, tdes_first, ref, ethmac_tx_sem,
                   dma, reading, queued, wire>>

\* xSemaphoreTake returns with the semaphore or without it.
Wakeup ==
    /\ pc = "sleep"
    /\ ethmac_tx_sem' = FALSE
    /\ pc' = "loop"
    /\ UNCHANGED <<ring, p, q, tdes, tdes_first, ref, dma, reading, queued, wire>>

\* Fill the descriptor; all but the first belong to the DMA at once.
Fill ==
    /\ pc = "fill"
    /\ des' = [des EXCEPT ![tdes] =
                  [own |-> q # 1, fs |-> FALSE, ls |-> q = Segments[p],
                   buf |-> <<p, q>>, pbuf |-> IF q = 1 THEN p ELSE NULL]]
    /\ tdes_first' = IF q = 1 THEN tdes ELSE tdes_first
    /\ \/ q < Segments[p] /\ q' = q + 1 /\ pc' = "loop"
       \/ q = Segments[p] /\ q' = q /\ pc' = "launch"
    /\ UNCHANGED <<tx_ptr, tx_active, p, tdes, ref, ethmac_tx_sem, dma, reading, queued, wire>>

\* Hand over the first descriptor, keep a reference for the DMA, return.
Launch ==
    /\ pc = "launch"
    /\ des' = [des EXCEPT ![tdes_first].own = TRUE, ![tdes_first].fs = TRUE]
    /\ tx_active' = IF tx_active = NULL THEN tdes_first ELSE tx_active
    /\ queued' = Append(queued, p)
    /\ pc' = "idle" /\ p' = NULL /\ q' = 0 /\ tdes' = 0 /\ tdes_first' = NULL
    \* pbuf_ref(p), then the caller's pbuf_free(p)
    /\ UNCHANGED <<tx_ptr, ref, ethmac_tx_sem, dma, reading, wire>>

-----------------------------------------------------------------------------
(* The DMA and its interrupt (ETH_IRQHandler, ETH_DMASR_TS). *)

DmaSend ==
    /\ des[dma].own
    /\ LET frame == Append(IF des[dma].fs THEN <<>> ELSE reading, des[dma].buf)
       IN  IF des[dma].ls
           THEN /\ wire' = frame /\ reading' = <<>>
                /\ queued' = IF queued = <<>> THEN <<>> ELSE Tail(queued)
           ELSE /\ reading' = frame
                /\ UNCHANGED <<wire, queued>>
    /\ des' = [des EXCEPT ![dma].own = FALSE]
    /\ dma' = des_next(dma)
    /\ ethmac_tx_sem' = TRUE
    /\ UNCHANGED <<tx_ptr, tx_active, thread>>

-----------------------------------------------------------------------------
Step == TimedOut \/ Enter \/ Housekeeping \/ HousekeepingDone \/ Check \/ Wakeup
           \/ Fill \/ Launch

Next == (\E f \in Pbuf : Transmit(f)) \/ Step \/ DmaSend

\* The tcpip thread runs, and the tick count that ends its wait advances.
Fairness == WF_vars(Step) /\ SF_vars(TimedOut)

Spec == Init /\ [][Next]_vars /\ Fairness

-----------------------------------------------------------------------------
TypeOK ==
    /\ des \in [Desc -> [own : BOOLEAN, fs : BOOLEAN, ls : BOOLEAN,
                         buf : {<<>>} \union (Pbuf \X Nat), pbuf : Pbuf \union {NULL}]]
    /\ tx_ptr \in Desc /\ tx_active \in Desc \union {NULL}
    /\ ethmac_tx_sem \in BOOLEAN
    /\ pc \in {"idle", "loop", "housekeeping", "check", "sleep", "fill", "launch"}
    /\ p \in Pbuf \union {NULL} /\ q \in Nat
    /\ tdes \in Desc /\ tdes_first \in Desc \union {NULL}
    /\ ref \in [Pbuf -> 0 .. 2]
    /\ dma \in Desc

\* The DMA finds the frames of maczero_transmit in the order of the calls,
\* one after the other from where it is, and nothing else: no descriptor it
\* still has is filled again.
InOrder ==
    /\ Len(queued) <= TX_BUFS
    /\ \A k \in 1 .. TX_BUFS :
          LET d == (dma + k - 1) % TX_BUFS
          IN  IF k <= Len(queued) THEN des[d].own /\ des[d].buf = <<queued[k], 1>>
                                  ELSE ~des[d].own

\* "Can't free the pbuf until DMA is complete": the DMA reads only frames
\* that still have a reference.
DmaReadsLive == \A d \in Desc : des[d].own => ref[des[d].buf[1]] > 0

\* Every call of maczero_transmit returns, whatever the DMA does.
TransmitReturns == pc # "idle" ~> pc = "idle"

\* The descriptors maczero_housekeeping will come to, up to tx_ptr.
ToHousekeep ==
    IF tx_active = NULL THEN {}
    ELSE LET n == (tx_ptr - tx_active - 1) % TX_BUFS
         IN  {(tx_active + k) % TX_BUFS : k \in 0 .. n}

\* "Free pbufs after DMA has released the related transmit descriptor"
\* (eth_mac.c:312): a frame that has a reference is being transmitted or is
\* in a descriptor from which housekeeping will free it.
NothingLeaked ==
    \A f \in Pbuf : ref[f] > 0 => p = f \/ \E d \in ToHousekeep : des[d].pbuf = f

\* "First", "Subsequent" and "Last" (eth_mac.c:353-361): what goes out on
\* the wire is the whole chain of the pbuf, buffer by buffer.
WireWhole ==
    wire # <<>> => wire = [s \in 1 .. Segments[wire[1][1]] |-> <<wire[1][1], s>>]

\* What the DMA finds in the ring is what maczero_transmit was given, in order and
\* not yet freed.
TxRingExact == InOrder /\ DmaReadsLive
=============================================================================
