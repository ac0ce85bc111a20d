------------------------------- MODULE TcpApi -------------------------------
(***************************************************************************)
(* tcpapi.c: threads other than the tcpip thread call lwIP by posting a     *)
(* message to the tcpip thread and sleeping on a semaphore of their own.    *)
(*                                                                         *)
(* The message lives on the caller's stack, so it may be touched only while *)
(* its caller sleeps.  It is in one place at a time: in tcpip_queue, behind *)
(* a receive callback (with or without a timeout), or behind a name lookup. *)
(* Since a thread has one call at a time, a message is named by its caller. *)
(***************************************************************************)
EXTENDS Naturals, Sequences, FiniteSets

CONSTANTS
    Caller,     \* the threads that use the API, the tcpip thread excluded
    None,       \* no thread
    Wake,       \* the NULL message the Ethernet interrupt posts
    QueueLen    \* capacity of tcpip_queue (8 in the code)

ASSUME CallerAssumption == IsFiniteSet(Caller) /\ None \notin Caller /\ Wake \notin Caller
ASSUME QueueAssumption == QueueLen \in Nat \ {0}

\* What func does: finish in the tcpip thread (tcp_write, tcp_output,
\* udp_connect, udp_send), wait for a datagram, or wait for a name.
Op == {"sync", "recv", "recv_timeout", "gethostbyname"}
Final == {"ERR_OK", "ERR_TIMEOUT", "ERR_VAL", "ERR_MEM"}

VARIABLES
    pc,           \* per caller, where it is in api_call
    op, ret,      \* per caller, msg->func and msg->ret
    sem,          \* semlist: per caller, "none", "taken" or "given"
    api_mutex,    \* the thread that holds it
    tcpip_queue,
    tcpip,        \* where the tcpip thread is
    recv_cb,      \* messages with got_udp registered
    timers,       \* messages with got_udp_timedout scheduled
    lookups       \* messages with gethost_callback registered

apiVars == <<pc, op, ret, sem, api_mutex, tcpip_queue, tcpip, recv_cb, timers, lookups>>

ApiInit ==
    /\ pc = [t \in Caller |-> "idle"]
    /\ op = [t \in Caller |-> "sync"]
    /\ ret = [t \in Caller |-> "ERR_OK"]
    /\ sem = [t \in Caller |-> "none"]
    /\ api_mutex = None
    /\ tcpip_queue = <<>>
    /\ tcpip = "loop"
    /\ recv_cb = {} /\ timers = {} /\ lookups = {}

Room == Len(tcpip_queue) < QueueLen

-----------------------------------------------------------------------------
(* api_call, in the caller's thread. *)

Call(t, func) ==
    /\ pc[t] = "idle"
    /\ pc' = [pc EXCEPT ![t] = "mutex"]
    /\ op' = [op EXCEPT ![t] = func]
    /\ UNCHANGED <<ret, sem, api_mutex, tcpip_queue, tcpip, recv_cb, timers, lookups>>

TakeMutex(t) ==
    /\ pc[t] = "mutex"
    /\ api_mutex = None
    /\ api_mutex' = t
    /\ pc' = [pc EXCEPT ![t] = "sem"]
    /\ UNCHANGED <<op, ret, sem, tcpip_queue, tcpip, recv_cb, timers, lookups>>

\* Fault: the mutex is not given back.
FindSemFault(t) ==
    /\ pc[t] = "sem"
    /\ sem' = [sem EXCEPT ![t] = IF @ = "none" THEN "taken" ELSE @]
    /\ pc' = [pc EXCEPT ![t] = "post"]
    /\ UNCHANGED <<op, ret, api_mutex, tcpip_queue, tcpip, recv_cb, timers, lookups>>

\* Find the thread's semaphore in semlist, or create and link it.
FindSem(t) ==
    /\ pc[t] = "sem"
    /\ sem' = [sem EXCEPT ![t] = IF @ = "none" THEN "taken" ELSE @]
    /\ api_mutex' = None
    /\ pc' = [pc EXCEPT ![t] = "post"]
    /\ UNCHANGED <<op, ret, tcpip_queue, tcpip, recv_cb, timers, lookups>>

Post(t) ==
    /\ pc[t] = "post"
    /\ Room
    /\ tcpip_queue' = Append(tcpip_queue, t)
    /\ pc' = [pc EXCEPT ![t] = "wait"]
    /\ UNCHANGED <<op, ret, sem, api_mutex, tcpip, recv_cb, timers, lookups>>

\* xSemaphoreTake(msg.sem, portMAX_DELAY) succeeds.
Answered(t) == sem[t] = "given"

Return(t) ==
    /\ pc[t] = "wait"
    /\ Answered(t)
    /\ sem' = [sem EXCEPT ![t] = "taken"]
    /\ pc' = [pc EXCEPT ![t] = "idle"]
    /\ UNCHANGED <<op, ret, api_mutex, tcpip_queue, tcpip, recv_cb, timers, lookups>>

-----------------------------------------------------------------------------
(* The tcpip thread and the Ethernet interrupt. *)

\* msg->ret = r, then xSemaphoreGive(msg->sem).
Finish(t, r) ==
    /\ ret' = [ret EXCEPT ![t] = r]
    /\ sem' = [sem EXCEPT ![t] = "given"]

\* ETH_IRQHandler: a full queue drops the event, the thread polls anyway.
EthIrq ==
    /\ Room
    /\ tcpip_queue' = Append(tcpip_queue, Wake)
    /\ UNCHANGED <<pc, op, ret, sem, api_mutex, tcpip, recv_cb, timers, lookups>>

ReceiveWake ==
    /\ tcpip = "loop"
    /\ tcpip_queue # <<>> /\ Head(tcpip_queue) = Wake
    /\ tcpip_queue' = Tail(tcpip_queue)
    /\ UNCHANGED <<pc, op, ret, sem, api_mutex, tcpip, recv_cb, timers, lookups>>

\* api_accept: run the function; give the semaphore unless it is in progress.
AcceptNow(t, r) ==
    /\ op[t] \in {"sync", "gethostbyname"}
    /\ r \in Final \ {"ERR_TIMEOUT"}
    /\ Finish(t, r)
    /\ UNCHANGED <<recv_cb, timers, lookups>>

AcceptRecv(t) ==
    /\ op[t] \in {"recv", "recv_timeout"}
    /\ recv_cb' = recv_cb \union {t}
    /\ timers' = IF op[t] = "recv_timeout" THEN timers \union {t} ELSE timers
    /\ ret' = [ret EXCEPT ![t] = "ERR_INPROGRESS"]
    /\ UNCHANGED <<sem, lookups>>

AcceptLookup(t) ==
    /\ op[t] = "gethostbyname"
    /\ lookups' = lookups \union {t}
    /\ ret' = [ret EXCEPT ![t] = "ERR_INPROGRESS"]
    /\ UNCHANGED <<sem, recv_cb, timers>>

Accept(t) ==
    /\ tcpip = "loop"
    /\ tcpip_queue # <<>> /\ Head(tcpip_queue) = t
    /\ tcpip_queue' = Tail(tcpip_queue)
    /\ (\E r \in Final : AcceptNow(t, r)) \/ AcceptRecv(t) \/ AcceptLookup(t)
    /\ UNCHANGED <<pc, op, api_mutex, tcpip>>

\* Fault: the timeout is left scheduled.
UntimeoutFault(t) == timers

\* sys_untimeout(got_udp_timedout, msg).
Untimeout(t) == timers \ {t}

\* got_udp: a datagram for the caller's pcb, delivered by ethernetif_input.
GotUdp(t) ==
    /\ tcpip = "loop"
    /\ t \in recv_cb
    /\ recv_cb' = recv_cb \ {t}
    /\ timers' = Untimeout(t)
    /\ Finish(t, "ERR_OK")
    /\ UNCHANGED <<pc, op, api_mutex, tcpip_queue, tcpip, lookups>>

\* got_udp_timedout, run by sys_check_timeouts.
GotUdpTimedout(t) ==
    /\ tcpip = "loop"
    /\ t \in timers
    /\ recv_cb' = recv_cb \ {t}
    /\ timers' = timers \ {t}
    /\ Finish(t, "ERR_TIMEOUT")
    /\ UNCHANGED <<pc, op, api_mutex, tcpip_queue, tcpip, lookups>>

\* gethost_callback: lwIP reports an address, or NULL after its retries.
GetHostCallback(t) ==
    /\ tcpip = "loop"
    /\ t \in lookups
    /\ lookups' = lookups \ {t}
    /\ \E r \in {"ERR_OK", "ERR_VAL"} : Finish(t, r)
    /\ UNCHANGED <<pc, op, api_mutex, tcpip_queue, tcpip, recv_cb, timers>>

-----------------------------------------------------------------------------
CallStep(t) == TakeMutex(t) \/ FindSem(t) \/ Post(t) \/ Return(t)
TcpipStep ==
    \/ ReceiveWake
    \/ \E t \in Caller : Accept(t) \/ GotUdp(t) \/ GotUdpTimedout(t) \/ GetHostCallback(t)

ApiNext ==
    \/ \E t \in Caller : (\E func \in Op : Call(t, func)) \/ CallStep(t)
    \/ TcpipStep
    \/ EthIrq

\* A runnable caller runs, and gets the mutex and a queue slot in the end;
\* the tcpip thread serves its queue, its timers and the name server.
ApiFairness ==
    /\ \A t \in Caller :
          /\ SF_apiVars(TakeMutex(t)) /\ SF_apiVars(Post(t))
          /\ WF_apiVars(FindSem(t)) /\ WF_apiVars(Return(t))
          /\ WF_apiVars(Accept(t)) /\ WF_apiVars(GotUdpTimedout(t))
          /\ WF_apiVars(GetHostCallback(t))
    /\ WF_apiVars(ReceiveWake)

ApiSpec == ApiInit /\ [][ApiNext]_apiVars /\ ApiFairness

-----------------------------------------------------------------------------
(* What the API promises. *)

ApiTypeOK ==
    /\ pc \in [Caller -> {"idle", "mutex", "sem", "post", "wait"}]
    /\ op \in [Caller -> Op]
    /\ ret \in [Caller -> Final \union {"ERR_INPROGRESS"}]
    /\ sem \in [Caller -> {"none", "taken", "given"}]
    /\ api_mutex \in Caller \union {None}
    /\ tcpip_queue \in Seq(Caller \union {Wake}) /\ Len(tcpip_queue) <= QueueLen
    /\ tcpip \in {"loop", "log"}
    /\ recv_cb \subseteq Caller /\ timers \subseteq Caller /\ lookups \subseteq Caller

\* The places from which the semaphore of t will be, or has been, given.
Places(t) ==
    {p \in {"queue", "recv_cb", "lookups", "sem"} :
        \/ p = "queue"   /\ \E i \in 1 .. Len(tcpip_queue) : tcpip_queue[i] = t
        \/ p = "recv_cb" /\ t \in recv_cb
        \/ p = "lookups" /\ t \in lookups
        \/ p = "sem"     /\ sem[t] = "given"}

\* A message is reachable from exactly one place while its caller sleeps in
\* api_call and from none otherwise: it is answered once, and the tcpip
\* thread never writes to the stack of a caller that has returned.
AnsweredOnce ==
    \A t \in Caller :
        /\ IF pc[t] = "wait" THEN \E p \in Places(t) : Places(t) = {p}
                             ELSE Places(t) = {}
        /\ \A i, j \in 1 .. Len(tcpip_queue) :
               tcpip_queue[i] = t /\ tcpip_queue[j] = t => i = j
        /\ t \in timers => t \in recv_cb

\* The result api_call returns is the result of this call: when the
\* semaphore is given, func or its callback has stored a final code.
ResultReady ==
    \A t \in Caller : sem[t] = "given" =>
        /\ ret[t] \in Final
        /\ ret[t] = "ERR_TIMEOUT" => op[t] = "recv_timeout"

\* api_call and api_accept keep their contract in every interleaving of callers,
\* callbacks and timeouts: each message is answered once, with its own result.
AnsweredRight == AnsweredOnce /\ ResultReady
=============================================================================
