------------------------------- MODULE Serial -------------------------------
(***************************************************************************)
(* serial.c and dma.c: the three serial ports.  Serial1 and Serial4 send by *)
(* DMA, Serial5 byte by byte from its interrupt; every port receives into a *)
(* queue of the queue set on which the main thread waits.  The registers of *)
(* a USART (data register, shift register, SR) and of a DMA channel are      *)
(* modelled as the driver sees them; an interrupt handler is interrupted by  *)
(* the hardware only.                                                       *)
(***************************************************************************)
EXTENDS Naturals, Sequences, FiniteSets, SequencesExt

CONSTANTS
    Port,         \* the ports in use: Serial1, Serial4, Serial5
    SERIAL_RX_SIZE, SERIAL_TX_SIZE,  \* 16 and 16 in the code
    Writer,       \* threads that write to a port
    MaxWrites,    \* writes of each thread
    NULL

ASSUME SerialAssumption ==
    /\ {SERIAL_RX_SIZE, SERIAL_TX_SIZE, MaxWrites} \subseteq Nat \ {0}
    /\ Port \subseteq {"Serial1", "Serial4", "Serial5"} /\ "Serial1" \in Port

\* A byte is <<thread, write, position>>.
Byte == Writer \X (0 .. MaxWrites) \X (1 .. 2)
Bytes == UNION {[1 .. n -> Byte] : n \in 0 .. 2}

ASSUME NullAssumption ==
    NULL \notin Writer \cup Byte \cup Bytes \cup [port : Port, RXNE : BOOLEAN, TXE : BOOLEAN]

cli_serial == "Serial1"

VARIABLES
    mutex, tcie_sem, tx_q,  \* the fields of serial_t, per port
    rx_q,               \* how many bytes wait in each receive queue
    txeie, tc,          \* CR1 TXEIE and SR TC
    dr, shift,          \* the transmit data register and shift register
    rxne,               \* SR RXNE: the receive data register holds a new byte
    dma,                \* what the DMA channel has still to move, NULL when disabled
    isr,                \* usart_irq: NULL, or its port and the copy of SR it works from
    wpc, wport, wmsg, writes,     \* the threads in serial_write and serial_drain
    qs, gps_serial, mpc, active,  \* the main thread's loop
    sent, claimed       \* history: bytes sent, bytes handed over

usart  == <<txeie, tc, dr, shift, rxne, dma, isr>>
writers == <<wpc, wport, wmsg, writes, mutex, claimed>>
reader  == <<qs, mpc, active>>
svars    == <<usart, writers, reader, tcie_sem, tx_q, rx_q, gps_serial, sent>>

tx_dma(p) == p # "Serial5"

\* serial_start on each port, then the choice of main_thread.
SerialInit ==
    /\ mutex = [p \in Port |-> NULL] /\ tcie_sem = [p \in Port |-> FALSE]
    /\ tx_q = [p \in Port |-> << >>] /\ rx_q = [p \in Port |-> 0]
    /\ txeie = [p \in Port |-> FALSE] /\ tc = [p \in Port |-> TRUE]
    /\ dr = [p \in Port |-> NULL] /\ shift = [p \in Port |-> NULL]
    /\ rxne = [p \in Port |-> FALSE]
    /\ dma = [p \in Port |-> NULL] /\ isr = NULL
    /\ wpc = [w \in Writer |-> "idle"] /\ wport = [w \in Writer |-> cli_serial]
    /\ wmsg = [w \in Writer |-> << >>] /\ writes = [w \in Writer |-> 0]
    /\ qs = << >> /\ gps_serial \in {"Serial4", "Serial5"}
    /\ mpc = "select" /\ active = NULL
    /\ sent = [p \in Port |-> << >>] /\ claimed = [p \in Port |-> << >>]

-----------------------------------------------------------------------------
(* serial_write, serial_puts and serial_drain. *)

Goto(w, l) == wpc' = [wpc EXCEPT ![w] = l]

\* A call with n bytes.
Call(w, p, n) ==
    /\ wpc[w] = "idle" /\ writes[w] < MaxWrites
    /\ writes' = [writes EXCEPT ![w] = @ + 1]
    /\ wport' = [wport EXCEPT ![w] = p]
    /\ wmsg' = [wmsg EXCEPT ![w] = [i \in 1 .. n |-> <<w, writes[w], i>>]]
    /\ Goto(w, "take")
    /\ UNCHANGED <<usart, reader, mutex, claimed, tcie_sem, tx_q, rx_q, gps_serial, sent>>

TakeMutex(w) ==
    LET p == wport[w] IN
    /\ wpc[w] = "take" /\ mutex[p] = NULL
    /\ mutex' = [mutex EXCEPT ![p] = w]
    /\ claimed' = [claimed EXCEPT ![p] = @ \o wmsg[w]]
    /\ Goto(w, IF wmsg[w] = << >> THEN "drain" ELSE "write")
    /\ UNCHANGED <<usart, reader, wport, wmsg, writes, tcie_sem, tx_q, rx_q, gps_serial, sent>>

\* _serial_write clears TC; on a DMA port it arms the channel and waits.
StartWrite(w) ==
    LET p == wport[w] IN
    /\ wpc[w] = "write"
    /\ tc' = [tc EXCEPT ![p] = FALSE]
    /\ IF tx_dma(p)
       THEN /\ dma' = [dma EXCEPT ![p] = wmsg[w]]
            /\ Goto(w, "sem")
       ELSE dma' = dma /\ Goto(w, "putc")
    /\ UNCHANGED <<txeie, dr, shift, rxne, isr, reader, wport, wmsg, writes, mutex,
                   claimed, tcie_sem, tx_q, rx_q, gps_serial, sent>>

TakeSem(w) ==
    LET p == wport[w] IN
    /\ wpc[w] = "sem" /\ tcie_sem[p]
    /\ tcie_sem' = [tcie_sem EXCEPT ![p] = FALSE]
    /\ Goto(w, "give")
    /\ UNCHANGED <<usart, reader, wport, wmsg, writes, mutex, claimed, tx_q, rx_q,
                   gps_serial, sent>>

\* _serial_putc: xQueueSend, which blocks while the queue is full, ...
Putc(w) ==
    LET p == wport[w] IN
    /\ wpc[w] = "putc" /\ Len(tx_q[p]) < SERIAL_TX_SIZE
    /\ tx_q' = [tx_q EXCEPT ![p] = Append(@, Head(wmsg[w]))]
    /\ wmsg' = [wmsg EXCEPT ![w] = Tail(@)]
    /\ Goto(w, "txeie")
    /\ UNCHANGED <<usart, reader, wport, writes, mutex, claimed, tcie_sem, rx_q,
                   gps_serial, sent>>

\* ... then CR1 |= TXEIE.
EnableTxe(w) ==
    LET p == wport[w] IN
    /\ wpc[w] = "txeie"
    /\ txeie' = [txeie EXCEPT ![p] = TRUE]
    /\ Goto(w, IF wmsg[w] = << >> THEN "give" ELSE "putc")
    /\ UNCHANGED <<tc, dr, shift, rxne, dma, isr, reader, wport, wmsg, writes, mutex,
                   claimed, tcie_sem, tx_q, rx_q, gps_serial, sent>>

\* serial_drain polls TC with the mutex held.
Drain(w) ==
    /\ wpc[w] = "drain" /\ tc[wport[w]]
    /\ Goto(w, "give")
    /\ UNCHANGED <<usart, reader, wport, wmsg, writes, mutex, claimed, tcie_sem, tx_q,
                   rx_q, gps_serial, sent>>

GiveMutex(w) ==
    /\ wpc[w] = "give"
    /\ mutex' = [mutex EXCEPT ![wport[w]] = NULL]
    /\ Goto(w, "idle")
    /\ UNCHANGED <<usart, reader, wport, wmsg, writes, claimed, tcie_sem, tx_q, rx_q,
                   gps_serial, sent>>

-----------------------------------------------------------------------------
(* The DMA channel, its interrupt, and the transmitter. *)

DmaMove(p) ==
    /\ dma[p] \notin {NULL, << >>} /\ dr[p] = NULL
    /\ dr' = [dr EXCEPT ![p] = Head(dma[p])]
    /\ dma' = [dma EXCEPT ![p] = Tail(@)]
    /\ UNCHANGED <<txeie, tc, shift, rxne, isr, writers, reader, tcie_sem, tx_q, rx_q,
                   gps_serial, sent>>

\* Fault: the handler of a half-done transfer ends it.
usart_tcie_fault(p) ==
    /\ dma[p] # NULL /\ Len(dma[p]) < 2
    /\ dma' = [dma EXCEPT ![p] = NULL]
    /\ tcie_sem' = [tcie_sem EXCEPT ![p] = TRUE]
    /\ UNCHANGED <<txeie, tc, dr, shift, rxne, isr, writers, reader, tx_q, rx_q,
                   gps_serial, sent>>

\* dma_service_irq calls usart_tcie once the last byte is in the data register.
usart_tcie(p) ==
    /\ dma[p] = << >>
    /\ dma' = [dma EXCEPT ![p] = NULL]
    /\ tcie_sem' = [tcie_sem EXCEPT ![p] = TRUE]
    /\ UNCHANGED <<txeie, tc, dr, shift, rxne, isr, writers, reader, tx_q, rx_q,
                   gps_serial, sent>>

LoadShift(p) ==
    /\ dr[p] # NULL /\ shift[p] = NULL
    /\ shift' = [shift EXCEPT ![p] = dr[p]]
    /\ dr' = [dr EXCEPT ![p] = NULL]
    /\ UNCHANGED <<txeie, tc, rxne, dma, isr, writers, reader, tcie_sem, tx_q, rx_q,
                   gps_serial, sent>>

SendByte(p) ==
    /\ shift[p] # NULL
    /\ shift' = [shift EXCEPT ![p] = NULL]
    /\ sent' = [sent EXCEPT ![p] = Append(@, shift[p])]
    /\ tc' = [tc EXCEPT ![p] = @ \/ dr[p] = NULL]
    /\ UNCHANGED <<txeie, dr, rxne, dma, isr, writers, reader, tcie_sem, tx_q, rx_q,
                   gps_serial>>

-----------------------------------------------------------------------------
(* usart_irq.  The handlers of the ports have one priority: none interrupts  *)
(* another, and no thread runs while one does.                               *)

\* A byte comes in; one that has not been read yet is kept and this one lost.
HearByte(p) ==
    /\ ~rxne[p]
    /\ rxne' = [rxne EXCEPT ![p] = TRUE]
    /\ UNCHANGED <<txeie, tc, dr, shift, dma, isr, writers, reader, tcie_sem, tx_q, rx_q,
                   gps_serial, sent>>

\* sr = u->SR: a byte that arrives from here on is not seen by this interrupt ...
ReadSR(p) ==
    /\ isr = NULL /\ (rxne[p] \/ (txeie[p] /\ dr[p] = NULL))
    /\ isr' = [port |-> p, RXNE |-> rxne[p], TXE |-> dr[p] = NULL]
    /\ UNCHANGED <<txeie, tc, dr, shift, rxne, dma, writers, reader, tcie_sem, tx_q,
                   rx_q, gps_serial, sent>>

\* prvNotifyQueueSetContainer, for a byte that went into the queue.
NotifySet(p) == qs' = IF rx_q[p] < SERIAL_RX_SIZE THEN Append(qs, p) ELSE qs

QueueByte(p) ==
    IF isr.RXNE
    THEN /\ rx_q' = [rx_q EXCEPT ![p] = IF @ < SERIAL_RX_SIZE THEN @ + 1 ELSE @]
         /\ NotifySet(p)
    ELSE UNCHANGED <<rx_q, qs>>

\* ... but dr = u->DR takes it out of the register.
usart_irq(p) ==
    /\ isr # NULL /\ isr.port = p
    /\ rxne' = [rxne EXCEPT ![p] = FALSE]
    /\ QueueByte(p)
    /\ IF isr.TXE /\ tx_q[p] # << >>
       THEN /\ dr' = [dr EXCEPT ![p] = Head(tx_q[p])]
            /\ tx_q' = [tx_q EXCEPT ![p] = Tail(@)]
            /\ txeie' = txeie
       ELSE /\ txeie' = [txeie EXCEPT ![p] = @ /\ ~isr.TXE]
            /\ UNCHANGED <<dr, tx_q>>
    /\ isr' = NULL
    /\ UNCHANGED <<tc, shift, dma, writers, mpc, active, tcie_sem, gps_serial, sent>>

-----------------------------------------------------------------------------
(* The loop of main_thread. *)

\* xQueueSelectFromSet; when it times out the loop starts again.
Select ==
    /\ mpc = "select" /\ qs # << >>
    /\ active' = Head(qs) /\ qs' = Tail(qs)
    /\ mpc' = "get"
    /\ UNCHANGED <<usart, writers, tcie_sem, tx_q, rx_q, gps_serial, sent>>

Read == {cli_serial, gps_serial}

\* serial_get without waiting; the bytes of the third port are left in its queue.
Get ==
    /\ mpc = "get"
    /\ mpc' = "select"
    /\ rx_q' = [rx_q EXCEPT ![active] = IF active \in Read /\ @ > 0 THEN @ - 1 ELSE @]
    /\ UNCHANGED <<usart, writers, qs, active, tcie_sem, tx_q, gps_serial, sent>>

-----------------------------------------------------------------------------

WriterStep(w) ==
    /\ isr = NULL
    /\ \/ TakeMutex(w) \/ StartWrite(w) \/ TakeSem(w) \/ Putc(w) \/ EnableTxe(w)
       \/ Drain(w) \/ GiveMutex(w)

ReaderStep == isr = NULL /\ (Select \/ Get)

Hardware(p) == DmaMove(p) \/ LoadShift(p) \/ SendByte(p)

\* A call without bytes is serial_drain, which the command line uses.
SerialNext ==
    \/ \E w \in Writer, p \in Port : Call(w, p, 2)
    \/ \E w \in Writer : Call(w, cli_serial, 0)
    \/ \E w \in Writer : WriterStep(w)
    \/ ReaderStep
    \/ \E p \in Port : Hardware(p) \/ ReadSR(p) \/ usart_irq(p) \/ HearByte(p)
    \/ \E p \in Port : isr = NULL /\ usart_tcie(p)

SerialSpec == SerialInit /\ [][SerialNext]_svars

-----------------------------------------------------------------------------

\* The bytes of concurrent writers leave a port write by write, each whole and in
\* order, whichever of DMA, interrupt and transmit queue carries them; and nothing
\* is left behind when all is quiet: no writer, no transfer and no interrupt to come
\* means that every byte handed over is on the wire.
BytesWhole ==
    \A p \in Port :
        /\ IsPrefix(sent[p], claimed[p])
        /\ (mutex[p] = NULL /\ dr[p] = NULL /\ shift[p] = NULL /\ ~txeie[p]
               /\ (isr = NULL \/ isr.port # p))
           => sent[p] = claimed[p]

Entries(p) == Cardinality({i \in DOMAIN qs : qs[i] = p})

\* The main thread's ASSERT(val >= 0), and no byte forgotten: for a port that is
\* read, the set announces exactly the bytes that wait, wherever interrupts fall
\* between select and get; and the set never overflows, although the bytes of the
\* unread port stay in their queue.
SetExact ==
    /\ \A p \in Read \cap Port :
          rx_q[p] = Entries(p) + (IF mpc = "get" /\ active = p THEN 1 ELSE 0)
    /\ Len(qs) <= Cardinality(Port) * SERIAL_RX_SIZE

\* No lost wakeup: a writer that waits for its transfer, or for room in the transmit
\* queue, always has an interrupt to come that lets it go on.
WakeupComing ==
    \A w \in Writer :
        LET p == wport[w] IN
        /\ wpc[w] = "sem" => (dma[p] # NULL \/ tcie_sem[p])
        /\ wpc[w] = "putc" /\ Len(tx_q[p]) = SERIAL_TX_SIZE => txeie[p]

\* No byte and no thread is forgotten between the interrupt and the threads, in either
\* direction: the queue set is exact, and a blocked writer has its wakeup to come.
NothingForgotten == SetExact /\ WakeupComing

\* Neither direction of a port mixes, loses or withholds bytes that the driver has taken.
PortsExact == BytesWhole /\ NothingForgotten
=============================================================================
