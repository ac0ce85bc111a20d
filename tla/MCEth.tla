-------------------------------- MODULE MCEth --------------------------------
(* The Ethernet driver and the interface, side by side: a behaviour is one of *)
(* the transmit side (a ring of three descriptors and more frames than it      *)
(* holds, every frame in one pbuf as do_udp_send and udp_reply build them),    *)
(* one of the receive side (the ring of the code, with a pool that runs out)   *)
(* or one of the link.                                                         *)
EXTENDS EthTx, EthRx, Link

VARIABLE half

Single == [f \in Pbuf |-> 1]
\* Chains of two, as tcp_write builds them.
Chains == [f \in Pbuf |-> 2]

EthInit ==
    /\ Init /\ RxInit /\ LinkInit /\ half \in {"tx", "rx", "link"}
    /\ half # "link" => phy = CHOOSE x \in Phys : TRUE
    /\ half # "link" => bmcr = CHOOSE x \in Controls : TRUE
    /\ half # "link" => ~dhcp

Tx(A) == half = "tx" /\ A /\ UNCHANGED <<half, rx_vars, link_vars>>
Rx(A) == half = "rx" /\ A /\ UNCHANGED <<half, vars, link_vars>>
Lk(A) == half = "link" /\ A /\ UNCHANGED <<half, vars, rx_vars>>

EthNext == Tx(Next) \/ Rx(RxNext) \/ Lk(LinkNext)

EthSpec ==
    /\ EthInit /\ [][EthNext]_<<half, vars, rx_vars, link_vars>>
    /\ WF_vars(Tx(Step)) /\ SF_vars(Tx(TimedOut)) /\ WF_rx_vars(Rx(RxThread))
=============================================================================
