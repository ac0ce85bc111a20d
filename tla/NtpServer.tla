------------------------------ MODULE NtpServer ------------------------------
(***************************************************************************)
(* ntp_recv of the tcpip thread beside the vtimer: the reply gets its        *)
(* stratum from the status flags first and its time from vtimer_now later,    *)
(* and pll_thread, which has the higher priority, may judge, step and set     *)
(* the time of day between the two.                                          *)
(***************************************************************************)
EXTENDS Vtimer

NoReply == 0

VARIABLE reply   \* the stratum of the reply that is being made, or NoReply

NtpInit == Init /\ reply = NoReply

\* A request: too short or not from a client, it is dropped; else the reply is begun.
\* A digest decides on its length only.
JudgeReply ==
    /\ reply = NoReply
    /\ reply' = Stratum
    /\ UNCHANGED vars

\* The rest: the reply is given the time of the vtimer now, and sent.
StampReply ==
    /\ reply # NoReply
    /\ reply' = NoReply
    /\ UNCHANGED vars

NtpNext == (Next /\ UNCHANGED reply) \/ JudgeReply \/ StampReply

NtpSpec == NtpInit /\ [][NtpNext]_<<vars, reply>>

-----------------------------------------------------------------------------
\* The synchronised state a reply announces is earned and true when its time is filled
\* in: neither the lock nor the time of day behind it is left over from before a step or
\* a reset, and pll_thread takes neither back between the stratum and the time.
SynchronisedHonest ==
    Stratum1Honest /\ LockNeedsPulses /\ (reply = 1 => off = 0)
=============================================================================
