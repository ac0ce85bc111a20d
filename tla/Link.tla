-------------------------------- MODULE Link ---------------------------------
(***************************************************************************)
(* The link: smi_read, smi_poll_link_status and smi_describe_link of        *)
(* eth_mac.c, and tcpip_checks, link_changed and interface_changed of       *)
(* tcpip.c.  The tcpip thread polls the PHY once a second, register by      *)
(* register, while the link comes and goes.  The info command of the main *)
(* thread, which has the higher priority, reads the PHY through the same    *)
(* MACMIIAR and MACMIIDR without a lock.  A register is a set of bits.      *)
(***************************************************************************)
EXTENDS Naturals, Sequences

CONSTANTS
    Abilities,    \* what a link partner may advertise: sets of LPA bits
    Controls      \* what BMCR may hold after the reset, by the straps of the PHY

BMSR_LSTATUS == 2
BMSR_RFAULT == 4
BMSR_ANEGCOMPLETE == 5
BMSR_10FULL == 12
BMSR_100HALF == 13
BMCR_FULLDPLX == 8
BMCR_ANENABLE == 12
BMCR_SPEED100 == 13
LPA_10HALF == 5
LPA_10FULL == 6
LPA_100HALF == 7
LPA_100FULL == 8
LPA_100BASE4 == 9

\* The code looks at LPA for any full duplex mode: it is right about a partner
\* that offers full duplex at the best speed it offers.
ASSUME LinkAssumption ==
    /\ \A a \in Abilities :
          /\ a \subseteq LPA_10HALF .. LPA_100BASE4
          /\ a \cap {LPA_100HALF, LPA_100BASE4} # {} /\ LPA_10FULL \in a => LPA_100FULL \in a
    /\ \A b \in Controls : b \subseteq {BMCR_FULLDPLX, BMCR_ANENABLE, BMCR_SPEED100}

VARIABLES
    phy,          \* the PHY: link, remote fault, negotiation complete, partner's abilities
    latch,        \* the link has been up ever since BMSR was last read
    bmcr,         \* the PHY's mode, not changed after its reset
    miidr,        \* MACMIIDR, until the thread has taken it
    lpc, rd, ended, \* the tcpip thread: where it is, the read it is at, its transfer has ended
    regs,         \* the local copies of the registers
    maccr,        \* FES and DM of MACCR
    mfl_link,     \* MFL_LINK
    link_up,      \* thisif: NETIF_FLAG_LINK_UP
    dhcp, if_up,  \* thisif: has dhcp; NETIF_FLAG_UP
    did_startup,
    hostname,     \* log_sethostname was called
    member,       \* of the IPv4 manycast group
    startups,     \* history: how often log_startup ran
    clean         \* history: since the poll began the PHY is as it was, and no transfer
                  \* of the thread was overtaken

poll_vars  == <<phy, latch, bmcr, miidr, lpc, rd, ended, regs, maccr, mfl_link, clean>>
netif_vars == <<link_up, dhcp, if_up, did_startup, hostname, member, startups>>
link_vars  == <<poll_vars, netif_vars>>

\* A remote fault is reported by a negotiation that ended.
Phys == {x \in [link : BOOLEAN, fault : BOOLEAN, done : BOOLEAN, lpa : Abilities] : x.fault => x.done}

NoRegs == [r \in {"BMSR", "BMCR", "LPA"} |-> {}]

\* mac_start and configure_interface; the thread has not run yet.
LinkInit ==
    /\ phy \in Phys /\ latch = FALSE /\ bmcr \in Controls /\ miidr = {}
    /\ lpc = "start" /\ rd = 1 /\ ended = FALSE
    /\ regs = NoRegs
    /\ maccr = {"FES", "DM"} /\ mfl_link = FALSE
    /\ link_up = FALSE /\ dhcp \in BOOLEAN /\ if_up = FALSE
    /\ did_startup = FALSE /\ hostname = FALSE /\ member = FALSE
    /\ startups = 0 /\ clean = FALSE

-----------------------------------------------------------------------------
(* The PHY. *)

\* The cable is pulled or plugged in, a negotiation ends or begins.
PhyChange ==
    /\ phy' \in Phys /\ phy' # phy
    /\ latch' = (latch /\ phy'.link)
    /\ clean' = FALSE
    /\ UNCHANGED <<bmcr, miidr, lpc, rd, ended, regs, maccr, mfl_link, netif_vars>>

\* What a read returns; LSTATUS says whether the link went down since the last.
Register(r) ==
    CASE r = "BMSR" -> {BMSR_10FULL, BMSR_100HALF}
                       \cup (IF latch THEN {BMSR_LSTATUS} ELSE {})
                       \cup (IF phy.fault THEN {BMSR_RFAULT} ELSE {})
                       \cup (IF phy.done THEN {BMSR_ANEGCOMPLETE} ELSE {})
      [] r = "BMCR" -> bmcr
      [] r = "LPA"  -> phy.lpa

-----------------------------------------------------------------------------
(* smi_poll_link_status. *)

\* Fault: BMSR is read once.
ReadsFault == <<"BMSR", "BMCR", "LPA">>

\* The registers in the order in which they are read; the first value of BMSR
\* is thrown away.
Reads == <<"BMSR", "BMSR", "BMCR", "LPA">>

\* tcpip_checks starts, a second after the last time.
BeginPoll ==
    /\ lpc = "sleep"
    /\ lpc' = "poll" /\ rd' = 1 /\ clean' = TRUE
    /\ UNCHANGED <<phy, latch, bmcr, miidr, ended, regs, maccr, mfl_link, netif_vars>>

\* smi_read: MACMIIAR is written and busy until the value is in MACMIIDR ...
Transfer ==
    /\ lpc = "poll" /\ ~ended
    /\ miidr' = Register(Reads[rd])
    /\ latch' = IF Reads[rd] = "BMSR" THEN phy.link ELSE latch
    /\ ended' = TRUE
    /\ UNCHANGED <<phy, bmcr, lpc, rd, regs, maccr, mfl_link, clean, netif_vars>>

\* ... and MACMIIDR is returned, whatever it holds by then.
Take ==
    /\ lpc = "poll" /\ ended
    /\ regs' = IF rd < Len(Reads) /\ Reads[rd + 1] = Reads[rd] THEN regs  \* thrown away
               ELSE [regs EXCEPT ![Reads[rd]] = miidr]
    /\ miidr' = {}
    /\ \/ rd < Len(Reads) /\ rd' = rd + 1 /\ UNCHANGED lpc
       \/ rd = Len(Reads) /\ lpc' = "judge" /\ rd' = 1
    /\ ended' = FALSE
    /\ UNCHANGED <<phy, latch, bmcr, maccr, mfl_link, clean, netif_vars>>

AutoNeg == BMCR_ANENABLE \in regs["BMCR"]

PolledUp ==
    IF AutoNeg THEN regs["BMSR"] \cap {BMSR_LSTATUS, BMSR_RFAULT, BMSR_ANEGCOMPLETE}
                       = {BMSR_LSTATUS, BMSR_ANEGCOMPLETE}
               ELSE BMSR_LSTATUS \in regs["BMSR"]

PolledMode ==
    LET fast == IF AutoNeg THEN regs["LPA"] \cap {LPA_100HALF, LPA_100FULL, LPA_100BASE4} # {}
                           ELSE BMCR_SPEED100 \in regs["BMCR"]
        full == IF AutoNeg THEN regs["LPA"] \cap {LPA_10FULL, LPA_100FULL} # {}
                           ELSE BMCR_FULLDPLX \in regs["BMCR"]
    IN  (IF fast THEN {"FES"} ELSE {}) \cup (IF full THEN {"DM"} ELSE {})

\* The end of smi_poll_link_status: MACCR is left alone when the link is down.
Judge ==
    /\ lpc = "judge"
    /\ mfl_link' = PolledUp
    /\ maccr' = IF PolledUp THEN PolledMode ELSE maccr
    /\ lpc' = "checks" /\ regs' = NoRegs
    /\ UNCHANGED <<phy, latch, bmcr, miidr, rd, ended, clean, netif_vars>>

\* smi_describe_link, from either thread: three reads, BMSR first and LPA last.
smi_describe_link == latch' = phy.link

\* cli_print_link in the main thread, which runs to its end before the tcpip
\* thread goes on.  If that was in smi_read, it finds MACMIIAR no longer busy and
\* the main thread's last value in MACMIIDR.
ShowLink ==
    /\ smi_describe_link
    /\ ended' \in {ended, lpc = "poll"}
    /\ miidr' = IF ended' THEN phy.lpa ELSE miidr
    /\ clean' = (clean /\ ~ended')
    /\ UNCHANGED <<phy, bmcr, lpc, rd, regs, maccr, mfl_link, netif_vars>>

-----------------------------------------------------------------------------
(* tcpip.c *)

\* log_startup with the test of did_startup around it.
StartupOnceIf(due) ==
    /\ did_startup' = (did_startup \/ due)
    /\ startups' = IF due /\ ~did_startup THEN startups + 1 ELSE startups

\* The rest of tcpip_checks: link_changed, then the flag of the interface.
Checks ==
    LET changed == link_up # mfl_link IN
    /\ lpc = "checks"
    /\ IF changed THEN smi_describe_link ELSE UNCHANGED latch
    /\ StartupOnceIf(changed /\ ~dhcp)
    /\ link_up' = mfl_link
    /\ lpc' = "sleep"
    /\ UNCHANGED <<phy, bmcr, miidr, rd, ended, regs, maccr, mfl_link, clean, dhcp, if_up, hostname, member>>

\* interface_changed, called by lwIP when NETIF_FLAG_UP changes.
interface_changed(up) ==
    /\ if_up' = up
    /\ member' = up
    /\ hostname' = (hostname \/ up)
    /\ StartupOnceIf(up /\ dhcp)

\* tcpip_thread before its loop: start DHCP or use the fixed address.
ThreadStart ==
    /\ lpc = "start"
    /\ IF dhcp THEN UNCHANGED <<if_up, member, hostname, did_startup, startups>>
               ELSE interface_changed(TRUE)
    /\ lpc' = "sleep"
    /\ UNCHANGED <<phy, latch, bmcr, miidr, rd, ended, regs, maccr, mfl_link, clean>>
    /\ UNCHANGED <<link_up, dhcp>>

\* lwIP, in the tcpip thread: a lease is got or lost.
Lease ==
    /\ lpc = "sleep" /\ dhcp
    /\ interface_changed(~if_up)
    /\ UNCHANGED <<poll_vars, link_up, dhcp>>

LinkNext ==
    \/ PhyChange \/ ShowLink \/ Lease
    \/ ThreadStart \/ BeginPoll \/ Transfer \/ Take \/ Judge \/ Checks

LinkSpec == LinkInit /\ [][LinkNext]_link_vars

-----------------------------------------------------------------------------
\* Whether the PHY can carry frames, and the mode both sides agreed on: the
\* first of the usual order of preference that the partner offers.
Linked == phy.link /\ (BMCR_ANENABLE \in bmcr => phy.done /\ ~phy.fault)
Negotiated ==
    IF BMCR_ANENABLE \notin bmcr
    THEN (IF BMCR_SPEED100 \in bmcr THEN {"FES"} ELSE {})
             \cup (IF BMCR_FULLDPLX \in bmcr THEN {"DM"} ELSE {})
    ELSE CASE LPA_100FULL \in phy.lpa -> {"FES", "DM"}
           [] LPA_100FULL \notin phy.lpa /\ phy.lpa \cap {LPA_100HALF, LPA_100BASE4} # {} -> {"FES"}
           [] phy.lpa \cap LPA_100HALF .. LPA_100BASE4 = {} /\ LPA_10FULL \in phy.lpa -> {"DM"}
           [] OTHER -> {}

\* A poll that met a steady PHY, and whose reads the info command of the main
\* thread did not overtake, leaves driver, MAC and interface in agreement with the
\* PHY, whatever happened before it: a link lost and found again between two
\* polls, a poll that went wrong, a partner of another speed.
PollTrue ==
    lpc = "sleep" /\ clean =>
        /\ link_up = Linked /\ mfl_link = Linked
        /\ Linked => maccr = Negotiated

\* log_startup runs once, with the hostname set, and is not missed by either of
\* the two places that may be the first to see the network.
StartupTold ==
    /\ startups <= 1 /\ (startups = 1 => hostname)
    /\ (dhcp /\ if_up) \/ (~dhcp /\ link_up) => startups = 1

\* smi_poll_link_status, tcpip_checks, link_changed and interface_changed keep
\* the interface true to the PHY and announce the start once.
LinkExact == PollTrue /\ StartupTold

\* smi_read returns the register it asked for: it does not, when the status
\* command runs between the end of a transfer and the read of MACMIIDR.
SmiReadsOwn == lpc = "judge" => regs["BMCR"] = bmcr
=============================================================================
