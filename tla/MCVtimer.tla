------------------------------ MODULE MCVtimer ------------------------------
(* The duties of pll_thread, side by side.  A behaviour is one of the         *)
(* disciplined clock and the NTP server (every offset of up to one and a half *)
(* seconds at startup, the receiver gaining and losing its fix at any second), *)
(* of the watchdogs, of the arithmetic of the vtimer or of the quantisation    *)
(* corrections.                                                               *)
EXTENDS NtpServer, Watchdog, Vtime, Quant

VARIABLE duty

PllInit ==
    /\ NtpInit /\ WatchdogInit /\ VtimeInit /\ QuantInit
    /\ duty \in {"clock", "watchdog", "arithmetic", "corrections"}
    \* the parts that stand still have one state
    /\ duty # "clock" => phase = 0 /\ off = 0
    /\ duty # "corrections" => leadlag = "LEADING"

cvars == <<vars, reply>>

Clock(A) == duty = "clock" /\ A /\ UNCHANGED <<duty, wvars, vtvars, qvars>>
Guard(A) == duty = "watchdog" /\ A /\ UNCHANGED <<duty, cvars, vtvars, qvars>>

PllNext ==
    \/ Clock(NtpNext)
    \/ Guard(WatchdogNext)
    \/ duty = "arithmetic"  /\ VtimeNext /\ UNCHANGED <<duty, cvars, wvars, qvars>>
    \/ duty = "corrections" /\ QuantNext /\ UNCHANGED <<duty, cvars, wvars, vtvars>>

PllSpec ==
    /\ PllInit /\ [][PllNext]_<<duty, cvars, wvars, vtvars, qvars>>
    /\ WF_vars(Clock(Slot)) /\ WF_vars(Clock(SetUtc))
    /\ WF_vars(Clock(JudgePulse \/ JudgeNoPulse)) /\ WF_vars(Clock(Apply))
    /\ WF_wvars(Guard(Second)) /\ WF_wvars(Guard(Expire))
=============================================================================
