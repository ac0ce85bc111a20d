------------------------------ MODULE MCTcpip ------------------------------
(* The callers of the tcpip thread: a behaviour is one in which two threads    *)
(* make calls of every kind, or one in which the vtimer thread logs, the main  *)
(* thread relays GPS bytes over TCP, and the tcpip thread handles link,        *)
(* address and connection events.                                              *)
EXTENDS Logging

VARIABLE part

TcpipInit == Init /\ part \in {"calls", "log"}

TcpipNext ==
    \/ part = "calls" /\ ApiNext /\ UNCHANGED <<part, logVars>>
    \/ part = "log"   /\ Next    /\ UNCHANGED part

TcpipSpec == TcpipInit /\ [][TcpipNext]_<<part, vars>> /\ Fairness

\* Where the tcpip thread has nothing to log, every api_call returns, except a
\* receive that was given no timeout.
CallReturns ==
    \A t \in Caller :
        part = "calls" /\ pc[t] # "idle" /\ op[t] # "recv" ~> pc[t] = "idle"
============================================================================
