------------------------------ MODULE Watchdog ------------------------------
(***************************************************************************)
(* The software watchdogs: the main loop and tcpip_checks set their counters *)
(* to 5, every round of pll_thread counts them down and restarts the IWDG    *)
(* only while neither is zero.  A round takes about a second, the IWDG       *)
(* expires after 6.55 s at the nominal frequency of its oscillator.          *)
(***************************************************************************)
EXTENDS Naturals, FiniteSets

CONSTANTS
    Rounds,             \* what a thread sets its counter to, 5 in the code
    IwdgMin, IwdgMax    \* rounds the IWDG lasts, over the oscillator's tolerance

ASSUME WatchdogAssumption ==
    /\ {Rounds, IwdgMin, IwdgMax} \subseteq Nat
    /\ Rounds > 0 /\ 1 < IwdgMin /\ IwdgMin <= IwdgMax

VARIABLES
    watchdog,   \* watchdog_main and watchdog_net
    iwdg,       \* rounds since the IWDG was restarted
    hung,       \* the threads that do not run any more
    silent,     \* history: rounds since each thread set its counter
    late,       \* history: the IWDG went without a restart for a thread silent too long
    device      \* "runs" or "reset"

wvars == <<watchdog, iwdg, hung, silent, late, device>>

Watched == {"main", "tcpip"}
Thread == Watched \cup {"vtimer"}

\* main: iwdg_start, and both counters are set before the threads run.
WatchdogInit ==
    /\ watchdog = [t \in Watched |-> Rounds]
    /\ iwdg = 0 /\ hung = {} /\ silent = [t \in Watched |-> 0] /\ late = FALSE
    /\ device = "runs"

\* A thread blocks for good.
Hang(t) ==
    /\ device = "runs" /\ t \notin hung
    /\ hung' = hung \cup {t}
    /\ UNCHANGED <<watchdog, iwdg, silent, late, device>>

\* The head of main_thread's loop, and tcpip_checks.
Feed(t) ==
    /\ device = "runs" /\ t \notin hung
    /\ watchdog' = [watchdog EXCEPT ![t] = Rounds]
    /\ silent' = [silent EXCEPT ![t] = 0]
    /\ UNCHANGED <<iwdg, hung, late, device>>

\* Fault: one live thread is enough.
ClearFault ==
    IF \E t \in Watched : watchdog[t] > 0
    THEN iwdg' = 0 /\ watchdog' = [t \in Watched |-> IF watchdog[t] > 0 THEN watchdog[t] - 1
                                                      ELSE 0]
    ELSE iwdg' = iwdg + 1 /\ watchdog' = watchdog

\* Fault: the counters are counted down before they are looked at.
ClearEarlyFault ==
    IF \A t \in Watched : watchdog[t] > 1
    THEN iwdg' = 0 /\ watchdog' = [t \in Watched |-> watchdog[t] - 1]
    ELSE iwdg' = iwdg + 1 /\ watchdog' = watchdog

\* In pll_thread, with interrupts disabled.
Clear ==
    IF \A t \in Watched : watchdog[t] > 0
    THEN iwdg' = 0 /\ watchdog' = [t \in Watched |-> watchdog[t] - 1]
    ELSE iwdg' = iwdg + 1 /\ watchdog' = watchdog

\* A second passes; pll_thread makes its round unless it hangs.
Second ==
    /\ device = "runs" /\ iwdg < IwdgMax
    /\ IF "vtimer" \in hung THEN iwdg' = iwdg + 1 /\ watchdog' = watchdog ELSE Clear
    /\ silent' = [t \in Watched |-> IF silent[t] <= Rounds THEN silent[t] + 1 ELSE silent[t]]
    /\ late' = IF iwdg = 0 THEN iwdg' > 0 /\ \E t \in Watched : silent'[t] > Rounds
               ELSE iwdg' > 0 /\ late
    /\ UNCHANGED <<hung, device>>

\* The IWDG expires.
Expire ==
    /\ device = "runs" /\ iwdg >= IwdgMin
    /\ device' = "reset"
    /\ UNCHANGED <<watchdog, iwdg, hung, silent, late>>

\* The reset starts the firmware again.
Restart ==
    /\ device = "reset"
    /\ watchdog' = [t \in Watched |-> Rounds]
    /\ iwdg' = 0 /\ hung' = {} /\ silent' = [t \in Watched |-> 0] /\ late' = FALSE
    /\ device' = "runs"

WatchdogNext ==
    \/ \E t \in Thread : Hang(t)
    \/ \E t \in Watched : Feed(t)
    \/ Second \/ Expire \/ Restart

\* Time passes and the IWDG needs no processor.
WatchdogSpec == WatchdogInit /\ [][WatchdogNext]_wvars /\ WF_wvars(Second) /\ WF_wvars(Expire)

-----------------------------------------------------------------------------

\* No reset while every thread keeps up: it takes a thread that was silent for more
\* than Rounds rounds, or a hung pll_thread.
NoFalseReset == device = "reset" => late \/ "vtimer" \in hung

\* A thread that hangs brings the reset, also when the others go on.
HungResets == hung # {} ~> device = "reset"
=============================================================================
