------------------------------- MODULE Logging -------------------------------
(***************************************************************************)
(* logging.c with the threads that log: a logger takes log_mutex, sends the *)
(* line to the syslog server through the API of TcpApi, prints it on the    *)
(* terminal and gives the mutex back.  The tcpip thread logs too, from its  *)
(* once-a-second checks and from lwIP's callbacks (tcpip.c, relay.c); its   *)
(* own API calls run inline.                                               *)
(***************************************************************************)
EXTENDS TcpApi

CONSTANTS
    Logger,     \* the callers that log (the vtimer thread)
    Tcpip,      \* the tcpip thread
    Syslog,     \* cfg.syslog_ip is set
    Dhcp        \* the address comes from DHCP

ASSUME LoggerAssumption == Logger \subseteq Caller /\ Tcpip \notin Caller /\ Tcpip # None
ASSUME ConfigAssumption == Syslog \in BOOLEAN /\ Dhcp \in BOOLEAN

VARIABLES
    log_mutex,    \* the thread that holds it
    lpc,          \* per logger, where it is in log_write
    work,         \* the log calls the tcpip thread has still to make
    netif_up, link_up, did_startup

logVars == <<log_mutex, lpc, work, netif_up, link_up, did_startup>>
vars == <<apiVars, logVars>>

LogInit ==
    /\ log_mutex = None
    /\ lpc = [t \in Logger |-> "idle"]
    /\ work = <<>>
    /\ netif_up = FALSE /\ link_up = FALSE /\ did_startup = FALSE

Init == ApiInit /\ LogInit

Busy(t) == t \in Logger /\ lpc[t] # "idle"

-----------------------------------------------------------------------------
(* log_write in a thread other than the tcpip thread. *)

LogWrite(t) ==
    /\ lpc[t] = "idle" /\ pc[t] = "idle"
    /\ lpc' = [lpc EXCEPT ![t] = "want"]
    /\ UNCHANGED <<apiVars, log_mutex, work, netif_up, link_up, did_startup>>

LogTaken(t) ==
    /\ lpc[t] = "want"
    /\ log_mutex = None
    /\ log_mutex' = t
    /\ lpc' = [lpc EXCEPT ![t] = "send"]
    /\ UNCHANGED <<apiVars, work, netif_up, link_up, did_startup>>

\* syslog_send: nothing without a server or while the interface is down.
SyslogSend(t) ==
    /\ lpc[t] = "send"
    /\ \/ Syslog /\ netif_up /\ Call(t, "sync") /\ lpc' = [lpc EXCEPT ![t] = "sending"]
       \/ ~(Syslog /\ netif_up) /\ UNCHANGED apiVars /\ lpc' = [lpc EXCEPT ![t] = "print"]
    /\ UNCHANGED <<log_mutex, work, netif_up, link_up, did_startup>>

SyslogSent(t) ==
    /\ lpc[t] = "sending" /\ pc[t] = "idle"
    /\ lpc' = [lpc EXCEPT ![t] = "print"]
    /\ UNCHANGED <<apiVars, log_mutex, work, netif_up, link_up, did_startup>>

\* Fault: log_mutex is not given back.
LogGiveFault(t) ==
    /\ lpc[t] = "print"
    /\ lpc' = [lpc EXCEPT ![t] = "idle"]
    /\ UNCHANGED <<apiVars, log_mutex, work, netif_up, link_up, did_startup>>

LogGive(t) ==
    /\ lpc[t] = "print"
    /\ log_mutex' = None
    /\ lpc' = [lpc EXCEPT ![t] = "idle"]
    /\ UNCHANGED <<apiVars, work, netif_up, link_up, did_startup>>

-----------------------------------------------------------------------------
(* The handlers of the tcpip thread that log. *)

\* Start a handler that makes these log_write / log_sethostname calls.
Begin(calls) ==
    /\ tcpip = "loop"
    /\ work' = calls
    /\ tcpip' = IF calls = <<>> THEN "loop" ELSE "log"
    /\ UNCHANGED <<pc, op, ret, sem, api_mutex, tcpip_queue, recv_cb, timers, lookups,
                   log_mutex, lpc>>

Startup == IF did_startup THEN <<>> ELSE <<"log">>

\* tcpip_checks sees the PHY's link state differ from the interface's:
\* link_changed, then netif_set_link_up / netif_set_link_down.
LinkChanged ==
    /\ Begin(<<"log">> \o (IF Dhcp THEN <<>> ELSE Startup))
    /\ link_up' = ~link_up
    /\ did_startup' = (did_startup \/ ~Dhcp)
    /\ UNCHANGED netif_up

\* interface_changed, called by netif_set_up / netif_set_down.
InterfaceChanged ==
    /\ netif_up' = ~netif_up
    /\ Begin(IF netif_up THEN <<>>
             ELSE <<"host">> \o (IF Dhcp THEN Startup \o <<"log">> ELSE <<>>))
    /\ did_startup' = (did_startup \/ (Dhcp /\ ~netif_up))
    /\ UNCHANGED link_up

\* relay_accept, and an IPv6 address found assigned by tcpip_checks.
Notice ==
    /\ netif_up
    /\ Begin(<<"log">>)
    /\ UNCHANGED <<netif_up, link_up, did_startup>>

\* The tcpip thread gets the mutex; api_call runs its send inline.
TcpipTaken ==
    /\ tcpip = "log"
    /\ log_mutex = None
    /\ log_mutex' = Tcpip
    /\ UNCHANGED <<apiVars, lpc, work, netif_up, link_up, did_startup>>

TcpipGive ==
    /\ log_mutex = Tcpip
    /\ log_mutex' = None
    /\ work' = Tail(work)
    /\ tcpip' = IF Tail(work) = <<>> THEN "loop" ELSE "log"
    /\ UNCHANGED <<pc, op, ret, sem, api_mutex, tcpip_queue, recv_cb, timers, lookups,
                   lpc, netif_up, link_up, did_startup>>

-----------------------------------------------------------------------------
\* A logger that holds the mutex waits for the tcpip thread, and the tcpip
\* thread waits for the mutex.
MutualWait ==
    \E t \in Logger :
        /\ log_mutex = t
        /\ lpc[t] = "sending" /\ pc[t] # "idle" /\ sem[t] # "given"
        /\ tcpip = "log"

\* The vtimer thread no longer clears the independent watchdog.
WatchdogReset ==
    /\ MutualWait
    /\ pc' = [t \in Caller |-> "idle"]
    /\ op' = [t \in Caller |-> "sync"]
    /\ ret' = [t \in Caller |-> "ERR_OK"]
    /\ sem' = [t \in Caller |-> "none"]
    /\ api_mutex' = None /\ tcpip_queue' = <<>> /\ tcpip' = "loop"
    /\ recv_cb' = {} /\ timers' = {} /\ lookups' = {}
    /\ log_mutex' = None /\ lpc' = [t \in Logger |-> "idle"] /\ work' = <<>>
    /\ netif_up' = FALSE /\ link_up' = FALSE /\ did_startup' = FALSE

LogStep(t) == LogTaken(t) \/ SyslogSend(t) \/ SyslogSent(t) \/ LogGive(t)

Api ==
    /\ \/ \E t \in Caller :
             \/ ~Busy(t) /\ Call(t, "sync")
             \/ CallStep(t)
       \/ TcpipStep
       \/ EthIrq
    /\ UNCHANGED logVars

Next ==
    \/ Api
    \/ \E t \in Logger : LogWrite(t) \/ LogStep(t)
    \/ LinkChanged \/ InterfaceChanged \/ Notice \/ TcpipTaken \/ TcpipGive
    \/ WatchdogReset

\* Runnable threads run, and a mutex is handed to each thread that wants it.
Fairness ==
    /\ ApiFairness
    /\ \A t \in Logger :
          /\ SF_vars(LogTaken(t))
          /\ WF_vars(SyslogSend(t) \/ SyslogSent(t) \/ LogGive(t))
    /\ SF_vars(TcpipTaken) /\ WF_vars(TcpipGive)

Spec == Init /\ [][Next]_vars /\ Fairness

-----------------------------------------------------------------------------
LogTypeOK ==
    /\ ApiTypeOK
    /\ log_mutex \in Caller \union {None, Tcpip}
    /\ lpc \in [Logger -> {"idle", "want", "send", "sending", "print"}]
    /\ work \in Seq({"host", "log"})
    /\ netif_up \in BOOLEAN /\ link_up \in BOOLEAN /\ did_startup \in BOOLEAN

\* "can't sleep in api thread" (tcpapi.c:56): the tcpip thread, which runs
\* the API calls, never sleeps on log_mutex while its holder sleeps on it.
ApiThreadNeverStuck == ~MutualWait

\* log_write returns and the tcpip thread gets back to its loop, unless the
\* two wait for each other: nothing else can block either of them.
LogReturnsUnlessStuck ==
    /\ \A t \in Logger : lpc[t] # "idle" ~> lpc[t] = "idle" \/ MutualWait
    /\ tcpip = "log" ~> tcpip = "loop" \/ MutualWait
=============================================================================
