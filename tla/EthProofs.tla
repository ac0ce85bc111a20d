------------------------------ MODULE EthProofs ------------------------------
(* Proofs, for rings of any size, any pool and any set of link partners that   *)
(* satisfies LinkAssumption, of the Ethernet driver's safety properties: the   *)
(* receive ring, the transmit ring and the link.                               *)
EXTENDS EthTx, EthRx, Link, TLAPS

-----------------------------------------------------------------------------
(* Sums of two positions of a ring of n wrap at most once. *)

Wrap(x, n) == IF x < n THEN x ELSE x - n

(* The remainder of such a sum is the sum, wrapped. *)
LEMMA WrapMod ==
    ASSUME NEW n \in Nat \ {0}, NEW x \in 0 .. 2 * n - 1
    PROVE  x % n = Wrap(x, n)
<1>1. CASE x < n
  BY <1>1 DEF Wrap
<1>2. CASE x >= n
  <2>1. x - n \in 0 .. n - 1
    BY <1>2
  <2> QED
    BY <1>2, <2>1 DEF Wrap
<1> QED
  BY <1>1, <1>2

-----------------------------------------------------------------------------
(* The receive ring. *)

Held == rx_pc \in {"alloc", "read"}

\* The descriptor of the oldest frame not yet taken, if there is one.
Oldest == IF Held THEN rdesc ELSE rx_ptr

\* Frames stored and not yet taken.
Pending == Wrap(arrived + Window - given, Window)

\* From the oldest frame on, the frames not yet taken lie one after the other
\* up to the DMA's descriptor, with consecutive numbers; the others are the DMA's.
RxInv ==
    /\ RxTypeOK
    /\ Pending <= RX_BUFS
    /\ Held => rx_ptr = Wrap(rdesc + 1, RX_BUFS) /\ Pending > 0
    /\ rx_dma = Wrap(Oldest + Pending, RX_BUFS)
    /\ \A k \in 0 .. RX_BUFS - 1 :
          /\ own[Wrap(Oldest + k, RX_BUFS)] <=> k >= Pending
          /\ k < Pending => stored[Wrap(Oldest + k, RX_BUFS)] = Wrap(given + k, Window)

(* The operators of the ring, without remainders. *)
LEMMA RxNext1 == \A d \in RxDesc : rx_next(d) = Wrap(d + 1, RX_BUFS) /\ rx_next(d) \in RxDesc
<1> SUFFICES ASSUME NEW d \in RxDesc
             PROVE  rx_next(d) = Wrap(d + 1, RX_BUFS) /\ rx_next(d) \in RxDesc
  OBVIOUS
<1>1. d + 1 \in 0 .. 2 * RX_BUFS - 1
  BY RxAssumption DEF RxDesc
<1>2. (d + 1) % RX_BUFS = Wrap(d + 1, RX_BUFS)
  BY <1>1, RxAssumption, WrapMod
<1>3. Wrap(d + 1, RX_BUFS) \in RxDesc
  BY RxAssumption DEF Wrap, RxDesc
<1> QED
  BY <1>2, <1>3 DEF rx_next

(* Counting a frame stays within the window. *)
LEMMA Count1 ==
    \A n \in 0 .. Window - 1 : (n + 1) % Window = Wrap(n + 1, Window)
                               /\ Wrap(n + 1, Window) \in 0 .. Window - 1
<1> SUFFICES ASSUME NEW n \in 0 .. Window - 1
             PROVE  (n + 1) % Window = Wrap(n + 1, Window)
                    /\ Wrap(n + 1, Window) \in 0 .. Window - 1
  OBVIOUS
<1>1. Window \in Nat \ {0} /\ n + 1 \in 0 .. 2 * Window - 1
  BY RxAssumption DEF Window
<1>2. (n + 1) % Window = Wrap(n + 1, Window)
  BY <1>1, WrapMod
<1>3. Wrap(n + 1, Window) \in 0 .. Window - 1
  BY <1>1 DEF Wrap
<1> QED
  BY <1>2, <1>3

(* mac_start: every descriptor is the DMA's. *)
LEMMA RxInitInv == RxInit => RxInv
<1> SUFFICES ASSUME RxInit PROVE RxInv
  OBVIOUS
<1> USE RxAssumption DEF RxInit
<1>1. 0 \in RxDesc /\ 0 \in 0 .. Window - 1 /\ PoolSize \in 0 .. PoolSize
  BY DEF RxDesc, Window
<1>2. RxTypeOK
  BY <1>1 DEF RxTypeOK
<1>3. ~Held /\ Oldest = 0 /\ Pending = 0
  BY DEF Held, Oldest, Pending, Wrap, Window
<1>4. \A k \in 0 .. RX_BUFS - 1 : own[Wrap(Oldest + k, RX_BUFS)] <=> k >= Pending
  BY <1>3 DEF Wrap, RxDesc
<1>5. rx_dma = Wrap(Oldest + Pending, RX_BUFS)
  BY <1>3 DEF Wrap
<1>6. Pending <= RX_BUFS /\ \A k \in 0 .. RX_BUFS - 1 : ~(k < Pending)
  BY <1>3
<1> QED
  BY <1>2, <1>3, <1>4, <1>5, <1>6 DEF RxInv

(* A frame goes into the first descriptor after those not yet taken. *)
LEMMA ArriveInv ==
    ASSUME RxInv, NEW ok \in BOOLEAN, Arrive(ok)
    PROVE  RxInv'
<1> USE RxAssumption DEF RxInv, Arrive, rx_thread
<1>1. Pending < RX_BUFS
  <2> SUFFICES ASSUME Pending = RX_BUFS PROVE FALSE
    BY DEF Pending, Wrap, RxTypeOK, Window
  <2>1. rx_dma = Wrap(Oldest + 0, RX_BUFS)
    BY DEF Wrap, Oldest, RxTypeOK, RxDesc
  <2>2. 0 \in 0 .. RX_BUFS - 1 /\ ~(0 >= RX_BUFS)
    OBVIOUS
  <2> QED
    BY <2>1, <2>2
<1>2. RxTypeOK'
  BY RxNext1, Count1 DEF RxTypeOK
<1>3. (Held' <=> Held) /\ Oldest' = Oldest /\ Oldest \in RxDesc
  BY DEF Held, Oldest, RxTypeOK
<1>4. Pending \in Nat /\ Pending' = Pending + 1
  BY <1>1, Count1 DEF Pending, Wrap, RxTypeOK, Window
<1>5. rx_dma' = Wrap(Oldest' + Pending', RX_BUFS)
  <2>1. rx_dma' = Wrap(rx_dma + 1, RX_BUFS)
    BY RxNext1 DEF RxTypeOK
  <2> QED
    BY <1>1, <1>3, <1>4, <2>1 DEF Wrap, RxDesc
<1>6. arrived = Wrap(given + Pending, Window)
  BY DEF Pending, Wrap, RxTypeOK, Window
<1>7. ASSUME NEW k \in 0 .. RX_BUFS - 1
      PROVE  /\ own'[Wrap(Oldest + k, RX_BUFS)] <=> k >= Pending + 1
             /\ k < Pending + 1 =>
                    stored'[Wrap(Oldest + k, RX_BUFS)] = Wrap(given + k, Window)
  <2>1. Wrap(Oldest + k, RX_BUFS) \in RxDesc
    BY <1>3 DEF Wrap, RxDesc
  <2>2. CASE k = Pending
    <3>1. Wrap(Oldest + k, RX_BUFS) = rx_dma /\ Wrap(given + k, Window) = arrived
      BY <1>6, <2>2
    <3>2. own'[rx_dma] = FALSE /\ stored'[rx_dma] = arrived
      BY DEF RxTypeOK
    <3> QED
      BY <1>4, <2>2, <3>1, <3>2
  <2>3. CASE k # Pending
    <3>1. Wrap(Oldest + k, RX_BUFS) # rx_dma
      BY <1>1, <1>3, <1>4, <2>3 DEF Wrap, RxDesc
    <3> QED
      BY <1>4, <2>1, <2>3, <3>1 DEF RxTypeOK
  <2> QED
    BY <2>2, <2>3
<1>8. Pending' <= RX_BUFS /\ (Held' => rx_ptr' = Wrap(rdesc' + 1, RX_BUFS) /\ Pending' > 0)
  BY <1>1, <1>3, <1>4
<1> QED
  BY <1>2, <1>3, <1>4, <1>5, <1>7, <1>8

(* Whatever leaves the ring, the counters and the place in it alone. *)
LEMMA RxQuiet ==
    ASSUME RxInv, RxTypeOK', UNCHANGED <<own, stored, rx_ptr, rx_dma, arrived, given>>,
           (Held' <=> Held), rdesc' = rdesc
    PROVE  RxInv'
  BY DEF RxInv, Oldest, Pending

(* Giving back the descriptor of the oldest frame, from wherever it is done. *)
LEMMA ReleaseInv ==
    ASSUME RxInv, RxTypeOK', ~own[Oldest],
           own' = [own EXCEPT ![Oldest] = TRUE], UNCHANGED <<stored, rx_dma, arrived>>,
           given' = (stored[Oldest] + 1) % Window,
           ~Held', rx_ptr' = Wrap(Oldest + 1, RX_BUFS)
    PROVE  RxInv' /\ given' = (given + 1) % Window
<1> USE RxAssumption DEF RxInv
<1>1. Oldest \in RxDesc /\ Wrap(Oldest + 0, RX_BUFS) = Oldest
  BY DEF Oldest, Wrap, RxTypeOK, RxDesc
<1>2. Pending \in Nat \ {0}
  <2>1. 0 \in 0 .. RX_BUFS - 1 /\ Pending \in Nat
    BY DEF Pending, Wrap, RxTypeOK, Window
  <2> QED
    BY <1>1, <2>1
<1>3. stored[Oldest] = given
  <2>1. 0 \in 0 .. RX_BUFS - 1 /\ 0 < Pending /\ Wrap(given + 0, Window) = given
    BY <1>2 DEF Wrap, RxTypeOK, Window
  <2> QED
    BY <1>1, <2>1
<1>4. given' = Wrap(given + 1, Window) /\ given' = (given + 1) % Window
  BY <1>3, Count1 DEF RxTypeOK
<1>5. Pending' = Pending - 1
  BY <1>2, <1>4 DEF Pending, Wrap, RxTypeOK, Window
<1>6. Oldest' = Wrap(Oldest + 1, RX_BUFS)
  BY DEF Oldest
<1>7. rx_dma' = Wrap(Oldest' + Pending', RX_BUFS)
  BY <1>1, <1>2, <1>5, <1>6 DEF Wrap, RxDesc
<1>8. ASSUME NEW k \in 0 .. RX_BUFS - 1
      PROVE  /\ own'[Wrap(Oldest' + k, RX_BUFS)] <=> k >= Pending'
             /\ k < Pending' =>
                    stored'[Wrap(Oldest' + k, RX_BUFS)] = Wrap(given' + k, Window)
  <2>1. CASE k = RX_BUFS - 1
    <3>1. Wrap(Oldest' + k, RX_BUFS) = Oldest
      BY <1>1, <1>6, <2>1 DEF Wrap, RxDesc
    <3> QED
      BY <1>1, <1>2, <1>5, <2>1, <3>1 DEF RxTypeOK
  <2>2. CASE k < RX_BUFS - 1
    <3>1. /\ Wrap(Oldest' + k, RX_BUFS) = Wrap(Oldest + (k + 1), RX_BUFS)
          /\ Wrap(Oldest' + k, RX_BUFS) # Oldest
          /\ Wrap(Oldest' + k, RX_BUFS) \in RxDesc
          /\ k + 1 \in 0 .. RX_BUFS - 1
      BY <1>1, <1>6, <2>2 DEF Wrap, RxDesc
    <3>2. k < Pending' => Wrap(given' + k, Window) = Wrap(given + (k + 1), Window)
      BY <1>4 DEF Wrap, RxTypeOK, Window
    <3> QED
      BY <1>2, <1>5, <3>1, <3>2 DEF RxTypeOK
  <2> QED
    BY <2>1, <2>2
<1> QED
  BY <1>2, <1>4, <1>5, <1>7, <1>8

(* mac_get_rx_descriptor: nothing there, an invalid frame, or a frame to copy. *)
LEMMA GetInv ==
    ASSUME RxInv, GetNone \/ GetInvalid \/ GetValid
    PROVE  RxInv' /\ (given' # given => given' = (given + 1) % Window)
<1>1. CASE GetNone
  <2>1. RxTypeOK' /\ (Held' <=> Held)
    BY <1>1 DEF RxInv, GetNone, RxTypeOK, Held, rx_ring, rx_device
  <2> QED
    BY <1>1, <2>1, RxQuiet DEF GetNone, rx_ring, rx_device
<1>2. CASE GetInvalid
  <2> USE <1>2 DEF GetInvalid, rx_device, rx_thread
  <2>1. Oldest = rx_ptr /\ ~Held'
    BY DEF Oldest, Held
  <2>2. rx_ptr' = Wrap(Oldest + 1, RX_BUFS) /\ rx_ptr' \in RxDesc
    BY <2>1, RxNext1 DEF RxInv, RxTypeOK
  <2>3. given' \in 0 .. Window - 1
    BY <2>2, Count1 DEF RxInv, RxTypeOK
  <2>4. RxTypeOK'
    BY <2>2, <2>3 DEF RxInv, RxTypeOK
  <2> QED
    BY <2>1, <2>2, <2>4, ReleaseInv
<1>3. CASE GetValid
  <2> USE RxAssumption, <1>3 DEF GetValid, rx_device
  <2>1. RxTypeOK'
    BY RxNext1 DEF RxInv, RxTypeOK
  <2>2. Held' /\ ~Held /\ Oldest' = Oldest /\ Pending' = Pending /\ Oldest = rx_ptr
    BY DEF Held, Oldest, Pending
  <2>3. rx_ptr' = Wrap(rdesc' + 1, RX_BUFS)
    BY RxNext1 DEF RxInv, RxTypeOK
  <2>4. Pending > 0
    <3>1. 0 \in 0 .. RX_BUFS - 1 /\ Wrap(Oldest + 0, RX_BUFS) = rx_ptr /\ Pending \in Nat
      BY <2>2 DEF RxInv, RxTypeOK, Wrap, RxDesc, Pending, Window
    <3> QED
      BY <3>1 DEF RxInv
  <2> QED
    BY <2>1, <2>2, <2>3, <2>4 DEF RxInv
<1> QED
  BY <1>1, <1>2, <1>3

(* ethernetif_input: the frame is dropped for want of a pbuf, or copied. *)
LEMMA InputInv ==
    ASSUME RxInv, Alloc \/ Read
    PROVE  RxInv' /\ (given' # given => given' = (given + 1) % Window)
<1>1. CASE Alloc /\ pool > 0
  <2>1. RxTypeOK' /\ (Held' <=> Held)
    BY <1>1, RxAssumption DEF RxInv, Alloc, RxTypeOK, Held
  <2> QED
    BY <1>1, <2>1, RxQuiet DEF Alloc
<1>2. CASE (Alloc /\ ~(pool > 0)) \/ Read
  <2>1. /\ Held /\ ~Held' /\ Oldest = rdesc
        /\ own' = [own EXCEPT ![rdesc] = TRUE]
        /\ given' = (stored[rdesc] + 1) % Window
        /\ UNCHANGED <<valid, stored, rx_ptr, rx_dma, wakeup, rdesc, pool, arrived>>
        /\ rx_pc' = "wait" /\ suspended' = FALSE /\ frame_received' = TRUE
    BY <1>2 DEF Alloc, Read, Held, Oldest, DroppedOwn
  <2>2. rx_ptr' = Wrap(Oldest + 1, RX_BUFS)
    BY <2>1 DEF RxInv
  <2>3. given' \in 0 .. Window - 1
    BY <2>1, Count1 DEF RxInv, RxTypeOK
  <2>4. RxTypeOK'
    BY <2>1, <2>3 DEF RxInv, RxTypeOK
  <2>5. ~own[Oldest]
    <3>1. 0 \in 0 .. RX_BUFS - 1 /\ Wrap(Oldest + 0, RX_BUFS) = Oldest /\ ~(0 >= Pending)
      BY <2>1, RxAssumption DEF RxInv, RxTypeOK, Wrap, RxDesc, Pending, Window
    <3> QED
      BY <3>1 DEF RxInv
  <2> QED
    BY <2>1, <2>2, <2>4, <2>5, ReleaseInv
<1> QED
  BY <1>1, <1>2

(* Every step preserves the invariant and takes at most the next frame. *)
LEMMA RxNextInv ==
    RxInv /\ [RxNext]_rx_vars =>
        RxInv' /\ [given' # given => given' = (given + 1) % Window]_rx_vars
<1> SUFFICES ASSUME RxInv, [RxNext]_rx_vars
             PROVE  RxInv' /\ (given' # given => given' = (given + 1) % Window)
  OBVIOUS
<1>1. CASE \E ok \in BOOLEAN : Arrive(ok)
  BY <1>1, ArriveInv DEF Arrive
<1>2. CASE Miss
  <2>1. RxTypeOK' /\ (Held' <=> Held)
    BY <1>2 DEF RxInv, Miss, RxTypeOK, Held, rx_ring, rx_thread
  <2> QED
    BY <1>2, <2>1, RxQuiet DEF Miss, rx_ring, rx_thread
<1>3. CASE Receive
  <2>1. RxTypeOK' /\ (Held' <=> Held)
    BY <1>3 DEF RxInv, Receive, RxTypeOK, Held, rx_ring
  <2> QED
    BY <1>3, <2>1, RxQuiet DEF Receive, rx_ring
<1>4. CASE PbufFree
  <2>1. RxTypeOK' /\ (Held' <=> Held)
    BY <1>4, RxAssumption DEF RxInv, PbufFree, RxTypeOK, Held, rx_ring, rx_device
  <2> QED
    BY <1>4, <2>1, RxQuiet DEF PbufFree, rx_ring, rx_device
<1>5. CASE UNCHANGED rx_vars
  <2>1. RxTypeOK' /\ (Held' <=> Held)
    BY <1>5 DEF RxInv, RxTypeOK, Held, rx_vars, rx_ring, rx_device, rx_thread
  <2> QED
    BY <1>5, <2>1, RxQuiet DEF rx_vars, rx_ring, rx_device, rx_thread
<1> QED
  BY <1>1, <1>2, <1>3, <1>4, <1>5, GetInv, InputInv DEF RxNext, RxThread

(* The ring as the run checks it follows from the invariant. *)
LEMMA RxInvWhole == RxInv => ReadsStable /\ RingWhole
<1> SUFFICES ASSUME RxInv PROVE ReadsStable /\ RingWhole
  OBVIOUS
<1> DEFINE held == IF rx_pc \in {"alloc", "read"} THEN 1 ELSE 0
           n == (arrived + 2 * Window - given - held) % Window
<1> USE RxAssumption
<1>1. /\ Pending \in 0 .. RX_BUFS /\ Oldest \in RxDesc /\ rx_ptr \in RxDesc
      /\ Held <=> held = 1
      /\ ~Held <=> held = 0
      /\ Pending - held \in 0 .. RX_BUFS
  BY DEF RxInv, RxTypeOK, Pending, Oldest, Held, Window, Wrap
<1>2. ReadsStable
  <2> SUFFICES ASSUME Held PROVE ~own[rdesc]
    BY DEF ReadsStable, Held
  <2>1. 0 \in 0 .. RX_BUFS - 1 /\ Wrap(Oldest + 0, RX_BUFS) = rdesc /\ ~(0 >= Pending)
    BY <1>1 DEF RxInv, RxTypeOK, Oldest, Wrap, RxDesc
  <2> QED
    BY <2>1 DEF RxInv
<1>3. n = Pending - held
  <2>1. \A w \in Nat \ {0} : \A m \in 0 .. w - 1 : (m + w) % w = m /\ (m + 2 * w) % w = m
    OBVIOUS
  <2>2. Window \in Nat \ {0} /\ Pending - held \in 0 .. Window - 1
    BY <1>1 DEF Window
  <2>3. \/ arrived + 2 * Window - given - held = (Pending - held) + Window
        \/ arrived + 2 * Window - given - held = (Pending - held) + 2 * Window
    BY <1>1, <2>2 DEF RxInv, RxTypeOK, Pending, Wrap
  <2> QED
    BY <2>1, <2>2, <2>3
<1>4. ASSUME NEW k \in 0 .. RX_BUFS - 1 - held
      PROVE  own[(rx_ptr + k) % RX_BUFS] = (k >= n)
  <2>1. rx_ptr + k \in 0 .. 2 * RX_BUFS - 1
    BY <1>1 DEF RxDesc
  <2>2. (rx_ptr + k) % RX_BUFS = Wrap(rx_ptr + k, RX_BUFS)
    BY <2>1, WrapMod
  <2>3. /\ k + held \in 0 .. RX_BUFS - 1
        /\ Wrap(rx_ptr + k, RX_BUFS) = Wrap(Oldest + (k + held), RX_BUFS)
        /\ Wrap(rx_ptr + k, RX_BUFS) \in RxDesc
    BY <1>1 DEF RxInv, RxTypeOK, Oldest, Wrap, RxDesc
  <2>4. own[Wrap(rx_ptr + k, RX_BUFS)] <=> k + held >= Pending
    BY <2>3 DEF RxInv
  <2>5. k + held >= Pending <=> k >= n
    BY <1>1, <1>3
  <2>6. own[Wrap(rx_ptr + k, RX_BUFS)] \in BOOLEAN
    BY <2>3 DEF RxInv, RxTypeOK
  <2> QED
    BY <2>2, <2>4, <2>5, <2>6
<1>5. RingWhole
  BY <1>4 DEF RingWhole
<1> QED
  BY <1>2, <1>5

(* For any ring and pool: the DMA never writes into the buffer that is being   *)
(* copied, the frames not yet taken lie one after the other and the rest of    *)
(* the ring is the DMA's, and the thread takes the frames in order, leaving    *)
(* none out.                                                                   *)
THEOREM ReceiveRingExact == RxSpec => RxRingExact
<1>1. RxSpec => [](RxInv) /\ TakenInOrder
  BY RxInitInv, RxNextInv, PTL DEF RxSpec, TakenInOrder
<1> QED
  BY <1>1, RxInvWhole, PTL DEF RxRingExact

-----------------------------------------------------------------------------
(* The link. *)

LinkTypeOK ==
    /\ phy \in Phys /\ latch \in BOOLEAN /\ bmcr \in Controls
    /\ lpc \in {"start", "sleep", "poll", "judge", "checks"}
    /\ rd \in 1 .. 4 /\ ended \in BOOLEAN
    /\ miidr \in SUBSET Nat /\ regs \in [{"BMSR", "BMCR", "LPA"} -> SUBSET Nat]
    /\ mfl_link \in BOOLEAN /\ link_up \in BOOLEAN /\ dhcp \in BOOLEAN /\ if_up \in BOOLEAN
    /\ did_startup \in BOOLEAN /\ hostname \in BOOLEAN /\ clean \in BOOLEAN

\* What BMSR holds when the link is as it was since the last read.
Status ==
    {BMSR_10FULL, BMSR_100HALF}
        \cup (IF phy.link THEN {BMSR_LSTATUS} ELSE {})
        \cup (IF phy.fault THEN {BMSR_RFAULT} ELSE {})
        \cup (IF phy.done THEN {BMSR_ANEGCOMPLETE} ELSE {})

Truth(r) == IF r = "BMSR" THEN Status ELSE IF r = "BMCR" THEN bmcr ELSE phy.lpa

\* How far a poll that met a steady PHY has got: the first read of BMSR clears
\* the latch, and every read after it brings a true value.
PollInv ==
    clean =>
        /\ lpc # "start"
        /\ lpc = "poll" /\ (rd > 1 \/ ended) => (latch <=> phy.link)
        /\ lpc = "poll" /\ ended /\ rd > 1 => miidr = Truth(Reads[rd])
        /\ lpc = "poll" /\ rd > 2 => regs["BMSR"] = Status
        /\ lpc = "poll" /\ rd > 3 => regs["BMCR"] = bmcr
        /\ lpc = "judge" => \A r \in {"BMSR", "BMCR", "LPA"} : regs[r] = Truth(r)
        /\ lpc \in {"checks", "sleep"} => (mfl_link <=> Linked)
        /\ lpc \in {"checks", "sleep"} /\ Linked => maccr = Negotiated
        /\ lpc = "sleep" => (link_up <=> mfl_link)

\* Who has seen the network: with a fixed address the hostname is set before
\* the first poll, with a lease when the interface comes up.
StartupInv ==
    /\ startups = IF did_startup THEN 1 ELSE 0
    /\ did_startup => hostname
    /\ lpc # "start" /\ ~dhcp => hostname
    /\ lpc = "start" => ~did_startup /\ ~link_up /\ ~if_up
    /\ (dhcp /\ if_up) \/ (~dhcp /\ link_up) => did_startup

LinkInv ==
    /\ LinkTypeOK /\ PollInv /\ StartupInv
    /\ ended => lpc = "poll"
    /\ lpc # "poll" => rd = 1

(* Reads, read by read. *)
LEMMA ReadsAre ==
    /\ Len(Reads) = 4
    /\ Reads[1] = "BMSR" /\ Reads[2] = "BMSR" /\ Reads[3] = "BMCR" /\ Reads[4] = "LPA"
  BY DEF Reads

(* Every register is a set of bit numbers. *)
LEMMA RegisterType ==
    ASSUME phy \in Phys, bmcr \in Controls
    PROVE  /\ phy.lpa \in SUBSET Nat
           /\ \A r \in {"BMSR", "BMCR", "LPA"} : Register(r) \in SUBSET Nat
<1> USE DEF BMSR_LSTATUS, BMSR_RFAULT, BMSR_ANEGCOMPLETE, BMSR_10FULL, BMSR_100HALF,
        BMCR_FULLDPLX, BMCR_ANENABLE, BMCR_SPEED100, LPA_10HALF, LPA_100BASE4
<1>1. phy.lpa \in Abilities
  BY DEF Phys
<1>2. phy.lpa \subseteq 5 .. 9 /\ bmcr \subseteq {8, 12, 13}
  BY <1>1, LinkAssumption
<1>3. phy.lpa \in SUBSET Nat /\ bmcr \in SUBSET Nat
  BY <1>2
<1>4. Register("BMSR") \in SUBSET Nat
  BY DEF Register
<1>5. Register("BMCR") = bmcr /\ Register("LPA") = phy.lpa
  BY DEF Register
<1> QED
  BY <1>3, <1>4, <1>5

(* On true registers the driver's judgement is the PHY's.  This is where the   *)
(* assumption on the partners' abilities is used.                              *)
LEMMA JudgedRight ==
    ASSUME phy \in Phys, bmcr \in Controls,
           regs["BMSR"] = Status, regs["BMCR"] = bmcr, regs["LPA"] = phy.lpa
    PROVE  /\ PolledUp <=> Linked
           /\ PolledMode = Negotiated
<1> USE DEF BMSR_LSTATUS, BMSR_RFAULT, BMSR_ANEGCOMPLETE, BMSR_10FULL, BMSR_100HALF,
        BMCR_FULLDPLX, BMCR_ANENABLE, BMCR_SPEED100, LPA_10HALF, LPA_10FULL,
        LPA_100HALF, LPA_100FULL, LPA_100BASE4
<1>1. (2 \in Status <=> phy.link) /\ (4 \in Status <=> phy.fault) /\ (5 \in Status <=> phy.done)
  BY DEF Status
<1>2. AutoNeg <=> 12 \in bmcr
  BY DEF AutoNeg
<1>3. PolledUp <=> Linked
  <2>1. Status \cap {2, 4, 5} = {2, 5} <=> 2 \in Status /\ 5 \in Status /\ 4 \notin Status
    OBVIOUS
  <2> QED
    BY <1>1, <1>2, <2>1 DEF PolledUp, Linked
<1>4. PolledMode = Negotiated
  <2>1. /\ phy.lpa \subseteq 5 .. 9
        /\ (7 \in phy.lpa \/ 9 \in phy.lpa) /\ 6 \in phy.lpa => 8 \in phy.lpa
    <3>1. phy.lpa \in Abilities
      BY DEF Phys
    <3>2. \A a \in Abilities :
              /\ a \subseteq 5 .. 9
              /\ a \cap {7, 9} # {} /\ 6 \in a => 8 \in a
      BY LinkAssumption
    <3> QED
      BY <3>1, <3>2
  <2>2. CASE 12 \notin bmcr
    BY <1>2, <2>2 DEF PolledMode, Negotiated
  <2>3. CASE 12 \in bmcr /\ 8 \in phy.lpa
    <3>1. phy.lpa \cap {7, 8, 9} # {} /\ phy.lpa \cap {6, 8} # {}
      BY <2>3
    <3>2. PolledMode = {"FES"} \cup {"DM"}
      BY <1>2, <2>3, <3>1 DEF PolledMode
    <3>3. Negotiated = {"FES", "DM"}
      BY <2>3 DEF Negotiated
    <3> QED
      BY <3>2, <3>3
  <2>4. CASE 12 \in bmcr /\ 8 \notin phy.lpa /\ (7 \in phy.lpa \/ 9 \in phy.lpa)
    <3>1. phy.lpa \cap {7, 8, 9} # {} /\ phy.lpa \cap {6, 8} = {}
          /\ phy.lpa \cap {7, 9} # {}
          /\ phy.lpa \cap 7 .. 9 # {}
      BY <2>1, <2>4
    <3>2. PolledMode = {"FES"} \cup {}
      BY <1>2, <2>4, <3>1 DEF PolledMode
    <3>3. Negotiated = {"FES"}
      BY <2>4, <3>1 DEF Negotiated
    <3> QED
      BY <3>2, <3>3
  <2>5. CASE 12 \in bmcr /\ 8 \notin phy.lpa /\ 7 \notin phy.lpa /\ 9 \notin phy.lpa
    <3>1. phy.lpa \cap {7, 8, 9} = {} /\ phy.lpa \cap {7, 9} = {} /\ phy.lpa \cap 7 .. 9 = {}
      BY <2>5
    <3>2. phy.lpa \cap {6, 8} # {} <=> 6 \in phy.lpa
      BY <2>5
    <3>3. PolledMode = {} \cup (IF 6 \in phy.lpa THEN {"DM"} ELSE {})
      BY <1>2, <2>5, <3>1, <3>2 DEF PolledMode
    <3>4. Negotiated = IF 6 \in phy.lpa THEN {"DM"} ELSE {}
      BY <2>5, <3>1 DEF Negotiated
    <3> QED
      BY <3>3, <3>4
  <2> QED
    BY <2>2, <2>3, <2>4, <2>5
<1> QED
  BY <1>3, <1>4

(* Before a poll the thread has no registers. *)
LEMMA NoRegsType == NoRegs \in [{"BMSR", "BMCR", "LPA"} -> SUBSET Nat]
  BY DEF NoRegs

(* mac_start and configure_interface. *)
LEMMA LinkInitInv == LinkInit => LinkInv
<1> SUFFICES ASSUME LinkInit PROVE LinkInv
  OBVIOUS
<1>1. LinkTypeOK
  <2>1. {} \in SUBSET Nat /\ 1 \in 1 .. 4 /\ FALSE \in BOOLEAN
    OBVIOUS
  <2> QED
    BY <2>1, NoRegsType DEF LinkInit, LinkTypeOK
<1> QED
  BY <1>1 DEF LinkInit, LinkInv, PollInv, StartupInv

(* A change of the PHY makes the poll under way no promise. *)
LEMMA PhyChangeInv == LinkInv /\ PhyChange => LinkInv'
<1> SUFFICES ASSUME LinkInv, PhyChange PROVE LinkInv'
  OBVIOUS
<1> USE DEF LinkInv, PhyChange, netif_vars
<1>1. LinkTypeOK'
  BY DEF LinkTypeOK, Phys
<1>2. PollInv' /\ StartupInv'
  BY DEF PollInv, StartupInv
<1> QED
  BY <1>1, <1>2

(* The info command leaves the latch as a read does; if it ended a transfer of *)
(* the thread, the poll is no longer clean.                                    *)
LEMMA ShowLinkInv == LinkInv /\ ShowLink => LinkInv'
<1> SUFFICES ASSUME LinkInv, ShowLink PROVE LinkInv'
  OBVIOUS
<1> USE DEF LinkInv, ShowLink, smi_describe_link, netif_vars
<1>1. LinkTypeOK'
  <2>1. phy.link \in BOOLEAN
    BY DEF LinkTypeOK, Phys
  <2>2. miidr' \in SUBSET Nat
    BY RegisterType DEF LinkTypeOK
  <2> QED
    BY <2>1, <2>2 DEF LinkTypeOK
<1>2. ended' => lpc = "poll"
  OBVIOUS
<1>3. PollInv'
  BY <1>1 DEF PollInv, Linked, Negotiated, Status, Truth, LinkTypeOK
<1>4. StartupInv'
  BY DEF StartupInv
<1> QED
  BY <1>1, <1>2, <1>3, <1>4

(* A transfer: after the first read of BMSR every value is true. *)
LEMMA TransferInv == LinkInv /\ Transfer => LinkInv'
<1> SUFFICES ASSUME LinkInv, Transfer PROVE LinkInv'
  OBVIOUS
<1> USE DEF LinkInv, Transfer, netif_vars
<1>1. rd \in 1 .. 4 /\ (rd = 1 \/ rd = 2 \/ rd = 3 \/ rd = 4)
  BY DEF LinkTypeOK
<1>2. LinkTypeOK'
  <2>1. phy.link \in BOOLEAN
    BY DEF LinkTypeOK, Phys
  <2>2. Reads[rd] \in {"BMSR", "BMCR", "LPA"}
    BY <1>1, ReadsAre
  <2> QED
    BY <2>1, <2>2, RegisterType DEF LinkTypeOK
<1>3. StartupInv'
  BY DEF StartupInv
<1>4. ASSUME clean PROVE (latch' <=> phy.link)
  BY <1>1, <1>4, ReadsAre DEF PollInv, LinkTypeOK
<1>5. ASSUME clean, rd > 1 PROVE miidr' = Truth(Reads[rd])
  <2>1. latch <=> phy.link
    BY <1>5 DEF PollInv
  <2>2. Register("BMSR") = Status /\ Register("BMCR") = bmcr /\ Register("LPA") = phy.lpa
    BY <2>1 DEF Register, Status
  <2> QED
    BY <1>1, <1>5, <2>2, ReadsAre DEF Truth
<1>6. Status' = Status /\ Truth(Reads[rd])' = Truth(Reads[rd])
  BY DEF Status, Truth
<1>7. PollInv'
  BY <1>4, <1>5, <1>6 DEF PollInv
<1> QED
  BY <1>2, <1>3, <1>7

(* The value is filed under its register; the first one of BMSR is not. *)
LEMMA TakeInv == LinkInv /\ Take => LinkInv'
<1> SUFFICES ASSUME LinkInv, Take PROVE LinkInv'
  OBVIOUS
<1> USE DEF LinkInv, Take, netif_vars
<1>1. rd = 1 \/ rd = 2 \/ rd = 3 \/ rd = 4
  BY DEF LinkTypeOK
<1>2. /\ rd < Len(Reads) /\ Reads[rd + 1] = Reads[rd] <=> rd = 1
      /\ Reads[rd] \in {"BMSR", "BMCR", "LPA"}
  BY <1>1, ReadsAre
<1>3. LinkTypeOK'
  <2>1. rd' \in 1 .. 4 /\ lpc' \in {"poll", "judge"}
    BY <1>1, ReadsAre
  <2>2. regs' \in [{"BMSR", "BMCR", "LPA"} -> SUBSET Nat]
    BY <1>2 DEF LinkTypeOK
  <2> QED
    BY <2>1, <2>2 DEF LinkTypeOK
<1>4. StartupInv'
  BY DEF StartupInv
<1>5. Status' = Status /\ \A r : Truth(r)' = Truth(r)
  BY DEF Status, Truth
<1>6. ASSUME clean, rd > 1 PROVE regs' = [regs EXCEPT ![Reads[rd]] = Truth(Reads[rd])]
  BY <1>2, <1>6 DEF PollInv
<1>7. PollInv'
  <2> SUFFICES ASSUME clean PROVE PollInv'
    BY DEF PollInv
  <2>1. CASE rd = 1
    BY <1>2, <1>5, <2>1, ReadsAre DEF PollInv
  <2>2. CASE rd = 2
    <3>1. regs'["BMSR"] = Status
      BY <1>6, <2>2, ReadsAre DEF LinkTypeOK, Truth
    <3> QED
      BY <1>5, <2>2, <3>1, ReadsAre DEF PollInv
  <2>3. CASE rd = 3
    <3>1. regs'["BMSR"] = Status /\ regs'["BMCR"] = bmcr
      BY <1>6, <2>3, ReadsAre DEF LinkTypeOK, Truth, PollInv
    <3> QED
      BY <1>5, <2>3, <3>1, ReadsAre DEF PollInv
  <2>4. CASE rd = 4
    <3>1. regs'["BMSR"] = Status /\ regs'["BMCR"] = bmcr /\ regs'["LPA"] = phy.lpa
      BY <1>6, <2>4, ReadsAre DEF LinkTypeOK, Truth, PollInv
    <3>2. \A r \in {"BMSR", "BMCR", "LPA"} : regs'[r] = Truth(r)'
      BY <1>5, <3>1 DEF Truth
    <3> QED
      BY <2>4, <3>2, ReadsAre DEF PollInv
  <2> QED
    BY <1>1, <2>1, <2>2, <2>3, <2>4
<1>8. (ended' => lpc' = "poll") /\ (lpc' # "poll" => rd' = 1)
  BY <1>1, ReadsAre
<1> QED
  BY <1>3, <1>4, <1>7, <1>8

(* The judgement of a clean poll is the truth. *)
LEMMA JudgeInv == LinkInv /\ Judge => LinkInv'
<1> SUFFICES ASSUME LinkInv, Judge PROVE LinkInv'
  OBVIOUS
<1> USE DEF LinkInv, Judge, netif_vars
<1>1. LinkTypeOK'
  <2>1. PolledUp \in BOOLEAN
    <3>1. CASE AutoNeg
      BY <3>1 DEF PolledUp
    <3>2. CASE ~AutoNeg
      BY <3>2 DEF PolledUp
    <3> QED
      BY <3>1, <3>2
  <2> QED
    BY <2>1, NoRegsType DEF LinkTypeOK
<1>2. StartupInv'
  BY DEF StartupInv
<1>3. ASSUME clean PROVE (PolledUp <=> Linked) /\ PolledMode = Negotiated
  <2>1. regs["BMSR"] = Status /\ regs["BMCR"] = bmcr /\ regs["LPA"] = phy.lpa
    BY <1>3 DEF PollInv, Truth
  <2> QED
    BY <2>1, JudgedRight DEF LinkTypeOK
<1>4. (Linked' <=> Linked) /\ Negotiated' = Negotiated
  BY DEF Linked, Negotiated
<1>5. PollInv'
  BY <1>3, <1>4 DEF PollInv
<1> QED
  BY <1>1, <1>2, <1>5

(* tcpip_checks ends, the thread starts, a poll begins, a lease comes or goes. *)
LEMMA ChecksInv == LinkInv /\ (Checks \/ ThreadStart \/ BeginPoll \/ Lease) => LinkInv'
<1> SUFFICES ASSUME LinkInv, Checks \/ ThreadStart \/ BeginPoll \/ Lease PROVE LinkInv'
  OBVIOUS
<1> USE DEF LinkInv
<1>1. (Linked' <=> Linked) /\ Negotiated' = Negotiated
  <2>1. phy' = phy /\ bmcr' = bmcr
    BY DEF Checks, ThreadStart, BeginPoll, Lease, poll_vars
  <2> QED
    BY <2>1 DEF Linked, Negotiated
<1>2. CASE Checks
  <2> USE <1>2 DEF Checks, StartupOnceIf, smi_describe_link
  <2>1. LinkTypeOK'
    BY DEF LinkTypeOK, Phys
  <2>2. PollInv'
    BY <1>1 DEF PollInv
  <2>3. StartupInv'
    BY DEF StartupInv, LinkTypeOK
  <2> QED
    BY <2>1, <2>2, <2>3
<1>3. CASE ThreadStart
  <2> USE <1>3 DEF ThreadStart, interface_changed, StartupOnceIf
  <2>1. LinkTypeOK'
    BY DEF LinkTypeOK, Phys
  <2>2. PollInv'
    BY <1>1 DEF PollInv
  <2>3. StartupInv'
    BY DEF StartupInv, LinkTypeOK
  <2> QED
    BY <2>1, <2>2, <2>3
<1>4. CASE BeginPoll
  <2> USE <1>4 DEF BeginPoll, netif_vars
  <2>1. LinkTypeOK'
    BY DEF LinkTypeOK, Phys
  <2>2. PollInv'
    BY <1>1 DEF PollInv
  <2>3. StartupInv'
    BY DEF StartupInv, LinkTypeOK
  <2> QED
    BY <2>1, <2>2, <2>3
<1>5. CASE Lease
  <2> USE <1>5 DEF Lease, poll_vars, interface_changed, StartupOnceIf
  <2>1. LinkTypeOK'
    BY DEF LinkTypeOK, Phys
  <2>2. PollInv'
    BY <1>1 DEF PollInv
  <2>3. CASE if_up
    <3>1. UNCHANGED <<did_startup, startups, hostname>>
      BY <2>3 DEF LinkTypeOK
    <3> QED
      BY <2>1, <2>2, <2>3, <3>1 DEF StartupInv
  <2>4. CASE ~if_up
    <3>1. did_startup' /\ hostname' /\ startups' = IF did_startup THEN startups ELSE startups + 1
      BY <2>4
    <3> QED
      BY <2>1, <2>2, <2>4, <3>1 DEF StartupInv
  <2> QED
    BY <2>3, <2>4
<1> QED
  BY <1>2, <1>3, <1>4, <1>5

(* For any set of partners and straps: a poll that met a steady PHY leaves the *)
(* driver, the MAC and the interface in agreement with it, and log_startup     *)
(* runs once, with the hostname set, whichever of its two callers is first.    *)
THEOREM LinkStaysExact == LinkSpec => []LinkExact
<1>1. LinkInv /\ [LinkNext]_link_vars => LinkInv'
  <2> SUFFICES ASSUME LinkInv, [LinkNext]_link_vars PROVE LinkInv'
    OBVIOUS
  <2>1. CASE UNCHANGED link_vars
    BY <2>1 DEF link_vars, poll_vars, netif_vars, LinkInv, LinkTypeOK, PollInv, StartupInv,
        Linked, Negotiated, Truth, Status
  <2> QED
    BY <2>1, PhyChangeInv, ShowLinkInv, TransferInv, TakeInv, JudgeInv, ChecksInv
    DEF LinkNext
<1>2. LinkInv => LinkExact
  <2> SUFFICES ASSUME LinkInv PROVE LinkExact
    OBVIOUS
  <2>1. PollTrue
    BY DEF LinkInv, PollInv, PollTrue, LinkTypeOK, Linked, Phys
  <2>2. StartupTold
    BY DEF LinkInv, StartupInv, StartupTold
  <2> QED
    BY <2>1, <2>2 DEF LinkExact
<1> QED
  BY <1>1, <1>2, LinkInitInv, PTL DEF LinkSpec

-----------------------------------------------------------------------------
(* The transmit ring, for frames of one pbuf each. *)

Singles == \A f \in Pbuf : Segments[f] = 1

TxWrap(x) == Wrap(x, TX_BUFS)

\* The descriptor the next frame goes into, or the frame being transmitted.
Slot == IF pc = "idle" THEN tx_ptr ELSE tdes

\* How far x lies ahead of a in the ring.
Ahead(x, a) == IF x >= a THEN x - a ELSE x - a + TX_BUFS

\* Housekeeping will come to d: it lies between tx_active and the slot, where
\* the whole ring lies between a descriptor and itself.
ToFree(d) ==
    /\ tx_active # NULL
    /\ Slot # tx_active => Ahead(d, tx_active) < Ahead(Slot, tx_active)

\* The DMA or housekeeping still needs the frame in d.
InUse(d) == des[d].own \/ ToFree(d)

TxTypeOK == TypeOK /\ queued \in Seq(Pbuf) /\ ref \in [Pbuf -> 0 .. 1]

\* maczero_transmit: its frame has a reference, its descriptor is the slot, and
\* a descriptor it has taken stays free until it is handed over.
ThreadInv ==
    /\ pc = "idle" => p = NULL
    /\ pc # "idle" => p \in Pbuf /\ q = 1 /\ ref[p] = 1
    /\ pc \in {"loop", "housekeeping", "check", "sleep"} => tx_ptr = tdes
    /\ pc \in {"fill", "launch"} => tx_ptr = TxWrap(tdes + 1) /\ Len(queued) < TX_BUFS
    /\ pc = "launch" => /\ tdes_first = tdes
                        /\ des[tdes].buf = <<p, 1>> /\ des[tdes].pbuf = p /\ des[tdes].ls

\* From the DMA's descriptor on lie the frames queued, up to the slot.
DmaInv ==
    /\ Len(queued) <= TX_BUFS
    /\ Slot = TxWrap(dma + Len(queued))
    /\ \A k \in 0 .. TX_BUFS - 1 :
          /\ des[TxWrap(dma + k)].own <=> k < Len(queued)
          /\ k < Len(queued) => /\ des[TxWrap(dma + k)].buf = <<queued[k + 1], 1>>
                                /\ des[TxWrap(dma + k)].pbuf = queued[k + 1]
                                /\ des[TxWrap(dma + k)].ls

\* Each descriptor in use holds a reference to a frame of its own.
RefInv ==
    /\ \A d \in Desc : InUse(d) =>
          /\ des[d].pbuf \in Pbuf /\ ref[des[d].pbuf] = 1
          /\ des[d].pbuf = p => pc = "launch" /\ d = tdes
    /\ \A d, e \in Desc : InUse(d) /\ InUse(e) /\ des[d].pbuf = des[e].pbuf => d = e

TxInv == TxTypeOK /\ ThreadInv /\ DmaInv /\ RefInv

(* des_next without the remainder. *)
LEMMA TxNext1 == \A d \in Desc : des_next(d) = TxWrap(d + 1) /\ TxWrap(d + 1) \in Desc
<1> SUFFICES ASSUME NEW d \in Desc PROVE des_next(d) = TxWrap(d + 1) /\ TxWrap(d + 1) \in Desc
  OBVIOUS
<1>1. d + 1 \in 0 .. 2 * TX_BUFS - 1
  BY RingAssumption DEF Desc
<1>2. (d + 1) % TX_BUFS = Wrap(d + 1, TX_BUFS)
  BY <1>1, RingAssumption, WrapMod
<1>3. Wrap(d + 1, TX_BUFS) \in Desc
  BY RingAssumption DEF Wrap, Desc
<1> QED
  BY <1>2, <1>3 DEF des_next, TxWrap

(* Stepping through the ring: different distances lead to different            *)
(* descriptors, and one step more from here is one step from there.            *)
LEMMA TxSteps ==
    ASSUME NEW d \in Desc, NEW k \in 0 .. TX_BUFS - 1
    PROVE  /\ TxWrap(d + k) \in Desc /\ TxWrap(d + 0) = d /\ TxWrap(d + TX_BUFS) = d
           /\ \A j \in 0 .. TX_BUFS - 1 : TxWrap(d + j) = TxWrap(d + k) => j = k
           /\ TxWrap(TxWrap(d + k) + 1) = TxWrap(d + (k + 1))
           /\ TxWrap(TxWrap(d + 1) + k) = TxWrap(d + (k + 1))
  BY RingAssumption DEF Desc, TxWrap, Wrap

(* Every descriptor lies some steps ahead of the DMA's. *)
LEMMA FromDma ==
    ASSUME TxInv, NEW d \in Desc
    PROVE  /\ Ahead(d, dma) \in 0 .. TX_BUFS - 1
           /\ d = TxWrap(dma + Ahead(d, dma))
  BY RingAssumption DEF TxInv, TxTypeOK, TypeOK, Desc, Ahead, TxWrap, Wrap

(* mac_start: the ring is empty. *)
LEMMA TxInitInv == Init => TxInv
<1> SUFFICES ASSUME Init PROVE TxInv
  OBVIOUS
<1> USE RingAssumption DEF Init
<1>1. 0 \in Desc /\ NULL \notin Pbuf /\ <<>> \in Seq(Pbuf) /\ Len(queued) = 0
  BY DEF Desc
<1>2. TxTypeOK
  <2>1. [own |-> FALSE, fs |-> FALSE, ls |-> FALSE, buf |-> <<>>, pbuf |-> NULL]
            \in [own : BOOLEAN, fs : BOOLEAN, ls : BOOLEAN,
                 buf : {<<>>} \union (Pbuf \X Nat), pbuf : Pbuf \union {NULL}]
    OBVIOUS
  <2>2. ref \in [Pbuf -> 0 .. 1] /\ ref \in [Pbuf -> 0 .. 2]
    OBVIOUS
  <2> QED
    BY <1>1, <2>1, <2>2 DEF TxTypeOK, TypeOK
<1>3. ThreadInv
  BY DEF ThreadInv
<1>4. DmaInv
  BY <1>1 DEF DmaInv, Slot, TxWrap, Wrap, Desc
<1>5. RefInv
  BY DEF RefInv, InUse, ToFree
<1> QED
  BY <1>2, <1>3, <1>4, <1>5 DEF TxInv

(* Whatever leaves the ring, the slot and the references alone. *)
LEMMA TxQuiet ==
    ASSUME TxInv, TxTypeOK', ThreadInv', UNCHANGED <<des, tx_active, ref, dma, queued>>,
           Slot' = Slot, pc # "launch",
           p' = p \/ (\A d \in Desc : InUse(d) => des[d].pbuf # p')
    PROVE  TxInv'
<1>1. DmaInv'
  BY DEF TxInv, DmaInv
<1>2. \A d \in Desc : InUse(d)' <=> InUse(d)
  BY DEF InUse, ToFree
<1>3. RefInv'
  BY <1>2 DEF TxInv, RefInv
<1> QED
  BY <1>1, <1>3 DEF TxInv

(* A frame that lwIP allocates anew is in no descriptor in use. *)
LEMMA TransmitInv ==
    ASSUME TxInv, NEW f \in Pbuf, Transmit(f)
    PROVE  TxInv'
<1> USE RingAssumption DEF Transmit, ring
<1>1. TxTypeOK'
  BY DEF TxInv, TxTypeOK, TypeOK
<1>2. ThreadInv'
  BY DEF TxInv, ThreadInv, TxTypeOK, TypeOK
<1>3. Slot' = Slot
  BY DEF Slot
<1>4. DmaInv'
  BY <1>3 DEF TxInv, DmaInv
<1>5. \A d \in Desc : InUse(d)' <=> InUse(d)
  BY <1>3 DEF InUse, ToFree
<1>6. RefInv'
  BY <1>5 DEF TxInv, RefInv, TxTypeOK, TypeOK
<1> QED
  BY <1>1, <1>2, <1>4, <1>6 DEF TxInv

(* A call that gives up frees a frame that no descriptor in use holds. *)
LEMMA TimedOutInv ==
    ASSUME TxInv, TimedOut
    PROVE  TxInv'
<1> USE RingAssumption DEF TimedOut, GiveUp, ring
<1>1. p \in Pbuf /\ ref[p] = 1 /\ tx_ptr = tdes
  BY DEF TxInv, ThreadInv
<1>2. TxTypeOK'
  BY <1>1 DEF TxInv, TxTypeOK, TypeOK, Desc
<1>3. ThreadInv'
  BY DEF ThreadInv
<1>4. Slot' = Slot
  BY <1>1 DEF Slot
<1>5. DmaInv'
  BY <1>4 DEF TxInv, DmaInv
<1>6. \A d \in Desc : InUse(d)' <=> InUse(d)
  BY <1>4 DEF InUse, ToFree
<1>7. RefInv'
  BY <1>1, <1>6 DEF TxInv, RefInv, TxTypeOK, TypeOK
<1> QED
  BY <1>2, <1>3, <1>5, <1>7 DEF TxInv

(* Entering and leaving the housekeeping, sleeping, taking the descriptor. *)
LEMMA WalkInv ==
    ASSUME TxInv, Enter \/ HousekeepingDone \/ Check \/ Wakeup
    PROVE  TxInv'
<1> USE RingAssumption
<1>1. pc \in {"loop", "housekeeping", "check", "sleep"} /\ pc' # "idle" /\ pc' # "launch"
      /\ UNCHANGED <<des, tx_active, ref, dma, queued, p, q, tdes, tdes_first>>
  BY DEF Enter, HousekeepingDone, Check, Wakeup, ring
<1>2. TxTypeOK'
  BY TxNext1 DEF TxInv, TxTypeOK, TypeOK, Enter, HousekeepingDone, Check, Wakeup, ring
<1>3. ASSUME Check, Available PROVE Len(queued) < TX_BUFS
  <2>1. tdes = Slot /\ ~des[Slot].own
    BY <1>3 DEF Check, Available, Slot
  <2>2. Slot = TxWrap(dma + Len(queued)) /\ Len(queued) \in 0 .. TX_BUFS /\ dma \in Desc
    BY DEF TxInv, DmaInv, TxTypeOK, TypeOK
  <2>3. CASE Len(queued) = TX_BUFS
    <3>1. 0 \in 0 .. TX_BUFS - 1 /\ Slot = TxWrap(dma + 0) /\ 0 < Len(queued)
      BY <2>2, <2>3 DEF TxWrap, Wrap, Desc
    <3> QED
      BY <2>1, <3>1 DEF TxInv, DmaInv
  <2> QED
    BY <2>2, <2>3
<1>4. ThreadInv'
  <2>1. CASE Check /\ Available
    BY <1>1, <1>3, <2>1, TxNext1 DEF TxInv, TxTypeOK, TypeOK, ThreadInv, Check
  <2>2. CASE ~(Check /\ Available)
    <3>1. tx_ptr' = tx_ptr /\ pc' \notin {"fill", "launch"}
      BY <2>2 DEF Enter, HousekeepingDone, Check, Wakeup, ring
    <3> QED
      BY <1>1, <3>1 DEF TxInv, ThreadInv
  <2> QED
    BY <2>1, <2>2
<1>5. Slot' = Slot
  BY <1>1 DEF Slot
<1> QED
  BY <1>1, <1>2, <1>4, <1>5, TxQuiet

(* Housekeeping frees the frame of a released descriptor, which is in use       *)
(* nowhere else, and goes on to the next.                                      *)
LEMMA HousekeepingInv ==
    ASSUME TxInv, Housekeeping
    PROVE  TxInv'
<1> USE RingAssumption DEF Housekeeping, Released
<1> DEFINE a == tx_active
           f == des[a].pbuf
<1>1. /\ a \in Desc /\ ~des[a].own /\ Slot = tx_ptr /\ Slot' = Slot /\ Slot \in Desc
      /\ des_next(a) = TxWrap(a + 1) /\ TxWrap(a + 1) \in Desc
  BY TxNext1 DEF TxInv, TxTypeOK, TypeOK, ThreadInv, Slot
<1>2. ToFree(a)
  BY <1>1 DEF ToFree, Ahead, Desc
<1>3. f \in Pbuf /\ ref[f] = 1 /\ f # p /\ ref' = [ref EXCEPT ![f] = @ - 1]
  BY <1>1, <1>2 DEF TxInv, RefInv, InUse
<1>4. TxTypeOK'
  <2>1. tx_active' \in Desc \union {NULL}
    BY <1>1
  <2>2. ref' \in [Pbuf -> 0 .. 1] /\ ref' \in [Pbuf -> 0 .. 2]
    BY <1>3 DEF TxInv, TxTypeOK
  <2> QED
    BY <2>1, <2>2 DEF TxInv, TxTypeOK, TypeOK
<1>5. ThreadInv'
  BY <1>3 DEF TxInv, ThreadInv, TxTypeOK, TypeOK
<1>6. DmaInv'
  BY <1>1 DEF TxInv, DmaInv
<1>7. ASSUME NEW d \in Desc, ToFree(d)' PROVE ToFree(d) /\ d # a
  <2>1. tx_active' = TxWrap(a + 1) /\ TxWrap(a + 1) # Slot
    BY <1>1, <1>7 DEF ToFree
  <2>2. Ahead(d, TxWrap(a + 1)) < Ahead(Slot, TxWrap(a + 1))
    BY <1>1, <1>7, <2>1 DEF ToFree
  <2> QED
    BY <1>1, <2>1, <2>2 DEF ToFree, Ahead, TxWrap, Wrap, Desc
<1>8. \A d \in Desc : InUse(d)' => InUse(d) /\ d # a
  BY <1>1, <1>7 DEF InUse
<1>9. RefInv'
  <2>1. InUse(a)
    BY <1>2 DEF InUse
  <2>2. \A d \in Desc : InUse(d)' => des[d].pbuf # f
    BY <1>1, <1>8, <2>1 DEF TxInv, RefInv
  <2> QED
    BY <1>3, <1>8, <2>2 DEF TxInv, RefInv, TxTypeOK, TypeOK
<1> QED
  BY <1>4, <1>5, <1>6, <1>9 DEF TxInv

(* The descriptor filled is not the DMA's; it may be one that housekeeping has  *)
(* not come to, and then takes the place of the frame it held.                 *)
LEMMA FillInv ==
    ASSUME Singles, TxInv, Fill
    PROVE  TxInv'
<1> USE RingAssumption DEF Fill
<1>1. /\ p \in Pbuf /\ q = 1 /\ Segments[p] = 1 /\ tdes \in Desc /\ Slot = tdes
      /\ Len(queued) \in Nat /\ Len(queued) < TX_BUFS /\ tdes = TxWrap(dma + Len(queued))
  BY DEF Singles, TxInv, ThreadInv, TxTypeOK, TypeOK, DmaInv, Slot
<1>2. ~des[tdes].own
  <2>1. Len(queued) \in 0 .. TX_BUFS - 1
    BY <1>1
  <2> QED
    BY <1>1, <2>1 DEF TxInv, DmaInv
<1>3. /\ pc' = "launch" /\ q' = 1 /\ tdes_first' = tdes
      /\ UNCHANGED <<tx_ptr, tx_active, p, tdes, ref, ethmac_tx_sem, dma, reading, queued, wire>>
  BY <1>1
<1>4. des' = [des EXCEPT ![tdes] = [own |-> FALSE, fs |-> FALSE, ls |-> TRUE,
                                     buf |-> <<p, 1>>, pbuf |-> p]]
  BY <1>1
<1>5. TxTypeOK'
  <2>1. [own |-> FALSE, fs |-> FALSE, ls |-> TRUE, buf |-> <<p, 1>>, pbuf |-> p]
            \in [own : BOOLEAN, fs : BOOLEAN, ls : BOOLEAN,
                 buf : {<<>>} \union (Pbuf \X Nat), pbuf : Pbuf \union {NULL}]
    BY <1>1
  <2> QED
    BY <1>1, <1>3, <1>4, <2>1 DEF TxInv, TxTypeOK, TypeOK
<1>6. /\ \A d \in Desc : d # tdes => des'[d] = des[d]
      /\ ~des'[tdes].own /\ des'[tdes].ls /\ des'[tdes].buf = <<p, 1>> /\ des'[tdes].pbuf = p
  BY <1>1, <1>4 DEF TxInv, TxTypeOK, TypeOK
<1>7. ThreadInv'
  BY <1>1, <1>3, <1>6 DEF TxInv, ThreadInv
<1>8. Slot' = Slot
  BY <1>3 DEF Slot
<1>9. DmaInv'
  <2>1. ASSUME NEW k \in 0 .. TX_BUFS - 1, k < Len(queued)
        PROVE  TxWrap(dma + k) # tdes /\ TxWrap(dma + k) \in Desc
    BY <1>1, <2>1, SMTT(40) DEF TxWrap, Wrap, Desc, TxInv, TxTypeOK, TypeOK
  <2>2. \A k \in 0 .. TX_BUFS - 1 : TxWrap(dma + k) \in Desc
    BY DEF TxWrap, Wrap, Desc, TxInv, TxTypeOK, TypeOK
  <2> QED
    BY <1>2, <1>3, <1>6, <1>8, <2>1, <2>2 DEF TxInv, DmaInv
<1>10. \A d \in Desc : InUse(d)' <=> InUse(d)
  BY <1>2, <1>3, <1>6, <1>8 DEF InUse, ToFree
<1>11. RefInv'
  BY <1>1, <1>3, <1>6, <1>10 DEF TxInv, RefInv, ThreadInv
<1> QED
  BY <1>5, <1>7, <1>9, <1>11 DEF TxInv

(* The frame joins the queue in the descriptor the DMA will come to last. *)
LEMMA LaunchInv ==
    ASSUME TxInv, Launch
    PROVE  TxInv'
<1> USE RingAssumption
<1>0. /\ pc = "launch" /\ pc' = "idle" /\ p' = NULL /\ q' = 0 /\ tdes' = 0 /\ tdes_first' = NULL
      /\ des' = [des EXCEPT ![tdes_first].own = TRUE, ![tdes_first].fs = TRUE]
      /\ tx_active' = IF tx_active = NULL THEN tdes_first ELSE tx_active
      /\ queued' = Append(queued, p)
      /\ UNCHANGED <<tx_ptr, ref, ethmac_tx_sem, dma>>
  BY DEF Launch
<1>1. /\ p \in Pbuf /\ ref[p] = 1 /\ tdes_first = tdes /\ tdes \in Desc /\ Slot = tdes
      /\ tx_ptr = TxWrap(tdes + 1) /\ tx_ptr \in Desc
      /\ Len(queued) \in Nat /\ Len(queued) < TX_BUFS /\ tdes = TxWrap(dma + Len(queued))
      /\ dma \in Desc /\ queued \in Seq(Pbuf)
      /\ des[tdes].buf = <<p, 1>> /\ des[tdes].pbuf = p /\ des[tdes].ls
  BY <1>0 DEF TxInv, ThreadInv, TxTypeOK, TypeOK, DmaInv, Slot
<1>2. Slot' = TxWrap(tdes + 1)
  BY <1>0, <1>1 DEF Slot
<1>3. /\ queued' \in Seq(Pbuf) /\ Len(queued') = Len(queued) + 1
      /\ queued'[Len(queued) + 1] = p
      /\ \A k \in 1 .. Len(queued) : queued'[k] = queued[k]
  BY <1>0, <1>1
<1>4. /\ \A d \in Desc : d # tdes => des'[d] = des[d]
      /\ des'[tdes].own /\ des'[tdes].ls /\ des'[tdes].buf = <<p, 1>> /\ des'[tdes].pbuf = p
  BY <1>0, <1>1 DEF TxInv, TxTypeOK, TypeOK
<1>5. TxTypeOK'
  <2>1. des' \in [Desc -> [own : BOOLEAN, fs : BOOLEAN, ls : BOOLEAN,
                          buf : {<<>>} \union (Pbuf \X Nat), pbuf : Pbuf \union {NULL}]]
    <3> DEFINE R == [own : BOOLEAN, fs : BOOLEAN, ls : BOOLEAN,
                     buf : {<<>>} \union (Pbuf \X Nat), pbuf : Pbuf \union {NULL}]
    <3>1. des \in [Desc -> R]
      BY DEF TxInv, TxTypeOK, TypeOK
    <3>2. des' = [[des EXCEPT ![tdes].own = TRUE] EXCEPT ![tdes].fs = TRUE]
      BY <1>0, <1>1
    <3>3. [des EXCEPT ![tdes].own = TRUE] \in [Desc -> R]
      BY <1>1, <3>1, ZenonT(40)
    <3>4. ASSUME NEW g \in [Desc -> R] PROVE [g EXCEPT ![tdes].fs = TRUE] \in [Desc -> R]
      BY <1>1, ZenonT(40)
    <3> QED
      BY <3>2, <3>3, <3>4
  <2>2. tx_active' \in Desc \union {NULL} /\ 0 \in Desc
    BY <1>0, <1>1 DEF TxInv, TxTypeOK, TypeOK, Desc
  <2> QED
    BY <1>0, <1>3, <2>1, <2>2 DEF TxInv, TxTypeOK, TypeOK
<1>6. ThreadInv'
  BY <1>0 DEF ThreadInv
<1>7. DmaInv'
  <2>0. Len(queued) \in 0 .. TX_BUFS - 1 /\ dma' = dma
    BY <1>0, <1>1
  <2>1. Slot' = TxWrap(dma' + Len(queued'))
    BY <1>1, <1>2, <1>3, <2>0, TxSteps
  <2>2. ASSUME NEW k \in 0 .. TX_BUFS - 1
        PROVE  /\ des'[TxWrap(dma + k)].own <=> k < Len(queued')
               /\ k < Len(queued') => /\ des'[TxWrap(dma + k)].buf = <<queued'[k + 1], 1>>
                                      /\ des'[TxWrap(dma + k)].pbuf = queued'[k + 1]
                                      /\ des'[TxWrap(dma + k)].ls
    <3>1. CASE k = Len(queued)
      <4>1. TxWrap(dma + k) = tdes /\ queued'[k + 1] = p /\ k < Len(queued')
        BY <1>1, <1>3, <3>1
      <4> QED
        BY <1>4, <4>1
    <3>2. CASE k # Len(queued)
      <4>1. TxWrap(dma + k) # tdes /\ TxWrap(dma + k) \in Desc
        BY <1>1, <2>0, <3>2, TxSteps
      <4>2. k < Len(queued') <=> k < Len(queued)
        BY <1>1, <1>3, <3>2
      <4>3. k < Len(queued) => queued'[k + 1] = queued[k + 1]
        BY <1>1, <1>3
      <4> QED
        BY <1>4, <4>1, <4>2, <4>3 DEF TxInv, DmaInv
    <3> QED
      BY <3>1, <3>2
  <2> QED
    BY <1>1, <1>3, <2>0, <2>1, <2>2 DEF DmaInv
<1>8. ASSUME NEW d \in Desc, InUse(d)' PROVE InUse(d) \/ d = tdes
  <2> SUFFICES ASSUME d # tdes, ToFree(d)' PROVE ToFree(d)
    BY <1>4, <1>8 DEF InUse
  <2>1. CASE tx_active = NULL
    <3>1. tx_active' = tdes
      BY <1>0, <1>1, <2>1
    <3>2. tdes \in Desc /\ Slot' = TxWrap(tdes + 1)
      BY <1>1, <1>2
    <3> QED
      BY <3>1, <3>2 DEF ToFree, Ahead, TxWrap, Wrap, Desc
  <2>2. CASE tx_active # NULL
    <3>1. tx_active' = tx_active /\ tx_active \in Desc
      BY <1>0, <2>2 DEF TxInv, TxTypeOK, TypeOK
    <3>2. tdes \in Desc /\ Slot' = TxWrap(tdes + 1) /\ Slot = tdes
      BY <1>1, <1>2
    <3> QED
      BY <2>2, <3>1, <3>2 DEF ToFree, Ahead, TxWrap, Wrap, Desc
  <2> QED
    BY <2>1, <2>2
<1>9. RefInv'
  <2>1. \A d \in Desc : InUse(d)' /\ d # tdes =>
            /\ des'[d].pbuf = des[d].pbuf /\ InUse(d)
            /\ des[d].pbuf \in Pbuf /\ ref[des[d].pbuf] = 1 /\ des[d].pbuf # p
    BY <1>4, <1>8 DEF TxInv, RefInv
  <2>2. p' = NULL /\ ref' = ref /\ NULL \notin Pbuf
    BY <1>0
  <2>3. p \in Pbuf /\ ref[p] = 1 /\ des'[tdes].pbuf = p
    BY <1>1, <1>4
  <2>4. \A d, e \in Desc : InUse(d) /\ InUse(e) /\ des[d].pbuf = des[e].pbuf => d = e
    BY DEF TxInv, RefInv
  <2>5. \A d \in Desc : InUse(d)' => des'[d].pbuf \in Pbuf /\ ref'[des'[d].pbuf] = 1
    BY <2>1, <2>2, <2>3
  <2>6. \A d, e \in Desc : InUse(d)' /\ InUse(e)' /\ des'[d].pbuf = des'[e].pbuf => d = e
    BY <2>1, <2>3, <2>4
  <2> QED
    BY <2>2, <2>5, <2>6 DEF RefInv
<1> QED
  BY <1>5, <1>6, <1>7, <1>9 DEF TxInv

(* The DMA sends the oldest frame and releases its descriptor. *)
LEMMA DmaSendInv ==
    ASSUME TxInv, DmaSend
    PROVE  TxInv'
<1> USE RingAssumption DEF DmaSend, thread
<1>1. dma \in Desc /\ Len(queued) \in Nat /\ queued \in Seq(Pbuf) /\ dma = TxWrap(dma + 0)
  BY DEF TxInv, TxTypeOK, TypeOK, Desc, TxWrap, Wrap
<1>2. 0 < Len(queued) /\ des[dma].ls
  <2>1. 0 \in 0 .. TX_BUFS - 1
    OBVIOUS
  <2> QED
    BY <1>1, <2>1 DEF TxInv, DmaInv
<1>3. /\ queued' = Tail(queued) /\ dma' = TxWrap(dma + 1) /\ dma' \in Desc
      /\ UNCHANGED <<tx_ptr, tx_active, pc, p, q, tdes, tdes_first, ref>>
      /\ ethmac_tx_sem' = TRUE
  BY <1>1, <1>2, TxNext1
<1>4. /\ queued' \in Seq(Pbuf) /\ Len(queued') = Len(queued) - 1
      /\ \A k \in 1 .. Len(queued) - 1 : queued'[k] = queued[k + 1]
  BY <1>1, <1>2, <1>3
<1>5. /\ \A d \in Desc : d # dma => des'[d] = des[d]
      /\ ~des'[dma].own
      /\ \A d \in Desc : des'[d].pbuf = des[d].pbuf /\ des'[d].buf = des[d].buf
                         /\ des'[d].ls = des[d].ls
  BY <1>1 DEF TxInv, TxTypeOK, TypeOK
<1>6. TxTypeOK'
  BY <1>1, <1>3, <1>4, ZenonT(40) DEF TxInv, TxTypeOK, TypeOK
<1>7. Slot' = Slot
  BY <1>3 DEF Slot
<1>8. ThreadInv'
  <2>1. tdes \in Desc /\ (Len(queued) < TX_BUFS => Len(queued') < TX_BUFS)
    BY <1>1, <1>4 DEF TxInv, TxTypeOK, TypeOK
  <2> QED
    BY <1>3, <1>5, <2>1 DEF TxInv, ThreadInv
<1>9. DmaInv'
  <2>1. Slot' = TxWrap(dma' + Len(queued'))
    BY <1>1, <1>2, <1>3, <1>4, <1>7 DEF TxInv, DmaInv, TxWrap, Wrap, Desc
  <2>2. ASSUME NEW k \in 0 .. TX_BUFS - 1
        PROVE  /\ des'[TxWrap(dma' + k)].own <=> k < Len(queued')
               /\ k < Len(queued') => /\ des'[TxWrap(dma' + k)].buf = <<queued'[k + 1], 1>>
                                      /\ des'[TxWrap(dma' + k)].pbuf = queued'[k + 1]
                                      /\ des'[TxWrap(dma' + k)].ls
    <3>1. CASE k = TX_BUFS - 1
      <4>1. TxWrap(dma' + k) = dma /\ ~(k < Len(queued'))
        <5>1. TxWrap(dma' + k) = TxWrap(dma + TX_BUFS)
          BY <1>1, <1>3, <3>1, TxSteps
        <5>2. Len(queued) <= TX_BUFS
          BY DEF TxInv, DmaInv
        <5> QED
          BY <1>1, <1>4, <3>1, <5>1, <5>2, TxSteps
      <4> QED
        BY <1>5, <4>1
    <3>2. CASE k < TX_BUFS - 1
      <4>1. /\ TxWrap(dma' + k) = TxWrap(dma + (k + 1)) /\ TxWrap(dma' + k) \in Desc
            /\ TxWrap(dma' + k) # dma /\ k + 1 \in 0 .. TX_BUFS - 1
        <5>1. k + 1 \in 0 .. TX_BUFS - 1 /\ 0 \in 0 .. TX_BUFS - 1 /\ k + 1 # 0
          BY <3>2
        <5>2. TxWrap(dma' + k) = TxWrap(dma + (k + 1))
          BY <1>1, <1>3, TxSteps
        <5> QED
          BY <1>1, <5>1, <5>2, TxSteps
      <4>2. k < Len(queued') <=> k + 1 < Len(queued)
        BY <1>1, <1>4
      <4>3. k < Len(queued') => queued'[k + 1] = queued[(k + 1) + 1]
        BY <1>1, <1>4
      <4> QED
        BY <1>5, <4>1, <4>2, <4>3 DEF TxInv, DmaInv
    <3> QED
      BY <3>1, <3>2
  <2> QED
    BY <1>1, <1>2, <1>4, <2>1, <2>2 DEF TxInv, DmaInv
<1>10. \A d \in Desc : InUse(d)' => InUse(d)
  BY <1>3, <1>5, <1>7 DEF InUse, ToFree
<1>11. RefInv'
  BY <1>3, <1>5, <1>10 DEF TxInv, RefInv
<1> QED
  BY <1>6, <1>8, <1>9, <1>11 DEF TxInv

(* What the run checks follows from the invariant. *)
LEMMA TxInvExact == TxInv => TypeOK /\ TxRingExact
<1> SUFFICES ASSUME TxInv PROVE TxRingExact
  BY DEF TxInv, TxTypeOK
<1> USE RingAssumption
<1>1. dma \in Desc /\ Len(queued) \in Nat /\ queued \in Seq(Pbuf)
  BY DEF TxInv, TxTypeOK, TypeOK
<1>2. ASSUME NEW k \in 1 .. TX_BUFS
      PROVE  IF k <= Len(queued)
             THEN /\ des[(dma + k - 1) % TX_BUFS].own
                  /\ des[(dma + k - 1) % TX_BUFS].buf = <<queued[k], 1>>
             ELSE ~des[(dma + k - 1) % TX_BUFS].own
  <2>1. dma + (k - 1) \in 0 .. 2 * TX_BUFS - 1 /\ k - 1 \in 0 .. TX_BUFS - 1
        /\ dma + k - 1 = dma + (k - 1) /\ (k - 1) + 1 = k
    BY <1>1 DEF Desc
  <2>2. (dma + k - 1) % TX_BUFS = TxWrap(dma + (k - 1))
    BY <2>1, WrapMod DEF TxWrap
  <2>3. k <= Len(queued) <=> k - 1 < Len(queued)
    BY <1>1
  <2> QED
    BY <2>1, <2>2, <2>3 DEF TxInv, DmaInv
<1>3. InOrder
  BY <1>2 DEF InOrder, TxInv, DmaInv
<1>4. DmaReadsLive
  <2> SUFFICES ASSUME NEW d \in Desc, des[d].own PROVE ref[des[d].buf[1]] > 0
    BY DEF DmaReadsLive
  <2>1. Ahead(d, dma) \in 0 .. TX_BUFS - 1 /\ d = TxWrap(dma + Ahead(d, dma))
    BY FromDma
  <2>2. des[d].buf = <<queued[Ahead(d, dma) + 1], 1>> /\ des[d].pbuf = queued[Ahead(d, dma) + 1]
    BY <2>1 DEF TxInv, DmaInv
  <2>3. des[d].buf[1] = des[d].pbuf
    BY <2>2
  <2>4. ref[des[d].pbuf] = 1
    BY DEF TxInv, RefInv, InUse
  <2> QED
    BY <2>3, <2>4
<1> QED
  BY <1>3, <1>4 DEF TxRingExact

(* For a ring of any size and frames of one pbuf, which is what do_udp_send    *)
(* and udp_reply build: the DMA finds the frames in the order of the calls and *)
(* nothing else, and reads no frame that has been freed, although housekeeping *)
(* may lose track of frames that wait in a full ring.                          *)
THEOREM TransmitRingExact == Singles /\ Spec => [](TypeOK /\ TxRingExact)
<1> SUFFICES ASSUME Singles PROVE Spec => [](TypeOK /\ TxRingExact)
  OBVIOUS
<1>1. TxInv /\ [Next]_vars => TxInv'
  <2> SUFFICES ASSUME TxInv, [Next]_vars PROVE TxInv'
    OBVIOUS
  <2>1. CASE UNCHANGED vars
    <3>1. TxTypeOK' /\ ThreadInv' /\ (Slot' = Slot)
      BY <2>1 DEF vars, ring, thread, TxInv, TxTypeOK, TypeOK, ThreadInv, Slot
    <3>2. DmaInv'
      BY <2>1, <3>1 DEF vars, ring, thread, TxInv, DmaInv
    <3>3. \A d \in Desc : InUse(d)' <=> InUse(d)
      BY <2>1, <3>1 DEF vars, ring, thread, InUse, ToFree
    <3>4. RefInv'
      BY <2>1, <3>3 DEF vars, ring, thread, TxInv, RefInv
    <3> QED
      BY <3>1, <3>2, <3>4 DEF TxInv
  <2> QED
    BY <2>1, TransmitInv, TimedOutInv, WalkInv, HousekeepingInv, FillInv, LaunchInv,
        DmaSendInv
    DEF Next, Step
<1> QED
  BY <1>1, TxInitInv, TxInvExact, PTL DEF Spec
=============================================================================
