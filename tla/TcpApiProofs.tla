---------------------------- MODULE TcpApiProofs ----------------------------
(* Proofs, for any set of callers and loggers and any length of tcpip_queue,  *)
(* of what api_call and log_write promise: for the API alone, with calls of   *)
(* every kind (ApiSpec), and for the firmware's threads on top of it (Spec).  *)
EXTENDS Logging, TLAPS

-----------------------------------------------------------------------------
(* The inductive invariant of the API. *)

\* The message of t is in tcpip_queue.
Queued(t) == \E i \in 1 .. Len(tcpip_queue) : tcpip_queue[i] = t

\* No message is queued twice.
QueueInv ==
    \A i, j \in 1 .. Len(tcpip_queue) :
        tcpip_queue[i] \in Caller /\ tcpip_queue[i] = tcpip_queue[j] => i = j

\* Where the message of t is, against where t is in api_call.
PlaceOf(t) ==
    /\ pc[t] = "wait" => Queued(t) \/ t \in recv_cb \/ t \in lookups \/ sem[t] = "given"
    /\ Queued(t) => pc[t] = "wait" /\ t \notin recv_cb /\ t \notin lookups /\ sem[t] # "given"
    /\ t \in recv_cb => pc[t] = "wait" /\ t \notin lookups /\ sem[t] # "given"
    /\ t \in lookups => pc[t] = "wait" /\ sem[t] # "given"
    /\ sem[t] = "given" => pc[t] = "wait"

PlaceInv == \A t \in Caller : PlaceOf(t)

\* A timeout belongs to a receive in progress that asked for one.
TimerInv == \A t \in timers : t \in recv_cb /\ op[t] = "recv_timeout"

\* A thread is at semlist exactly while it holds api_mutex, and leaves it
\* with a semaphore of its own.
SemInv ==
    \A t \in Caller :
        /\ pc[t] = "sem" <=> api_mutex = t
        /\ pc[t] \in {"post", "wait"} => sem[t] # "none"

ApiInv == ApiTypeOK /\ QueueInv /\ PlaceInv /\ TimerInv /\ SemInv /\ ResultReady

\* No two threads search or extend semlist at once, and a thread whose message
\* the tcpip thread can reach has a semaphore for it to give.
SemlistSafe ==
    \A t, u \in Caller :
        /\ pc[t] = "sem" /\ pc[u] = "sem" => t = u
        /\ Queued(t) \/ t \in recv_cb \/ t \in lookups => sem[t] = "taken"

-----------------------------------------------------------------------------
(* The two operations on tcpip_queue. *)

(* Posting a message that is not queued keeps the queue's entries distinct. *)
LEMMA PostQueue ==
    ASSUME ApiTypeOK, QueueInv, Room, NEW x \in Caller \union {Wake},
           x \in Caller => ~Queued(x),
           tcpip_queue' = Append(tcpip_queue, x)
    PROVE  /\ tcpip_queue' \in Seq(Caller \union {Wake})
           /\ Len(tcpip_queue') <= QueueLen
           /\ QueueInv'
           /\ \A t \in Caller : Queued(t)' <=> Queued(t) \/ t = x
<1>1. /\ tcpip_queue \in Seq(Caller \union {Wake})
      /\ tcpip_queue' \in Seq(Caller \union {Wake})
      /\ Len(tcpip_queue) \in Nat
      /\ Len(tcpip_queue') = Len(tcpip_queue) + 1
      /\ \A i \in 1 .. Len(tcpip_queue) : tcpip_queue'[i] = tcpip_queue[i]
      /\ tcpip_queue'[Len(tcpip_queue) + 1] = x
  BY DEF ApiTypeOK
<1>2. Len(tcpip_queue') <= QueueLen
  BY <1>1, QueueAssumption DEF Room
<1>3. \A i \in 1 .. Len(tcpip_queue') :
          i \in 1 .. Len(tcpip_queue) \/ i = Len(tcpip_queue) + 1
  BY <1>1
<1>4. QueueInv'
  <2> SUFFICES ASSUME NEW i \in 1 .. Len(tcpip_queue'), NEW j \in 1 .. Len(tcpip_queue'),
                      tcpip_queue'[i] \in Caller, tcpip_queue'[i] = tcpip_queue'[j]
               PROVE  i = j
    BY DEF QueueInv
  <2>1. CASE i \in 1 .. Len(tcpip_queue) /\ j \in 1 .. Len(tcpip_queue)
    BY <1>1, <2>1 DEF QueueInv
  <2>2. CASE i \in 1 .. Len(tcpip_queue) /\ j = Len(tcpip_queue) + 1
    BY <1>1, <2>2 DEF Queued
  <2>3. CASE j \in 1 .. Len(tcpip_queue) /\ i = Len(tcpip_queue) + 1
    BY <1>1, <2>3 DEF Queued
  <2> QED
    BY <1>3, <2>1, <2>2, <2>3
<1>5. ASSUME NEW t \in Caller PROVE Queued(t)' <=> Queued(t) \/ t = x
  <2>1. Queued(t) => Queued(t)'
    BY <1>1 DEF Queued
  <2>2. t = x => Queued(t)'
    BY <1>1 DEF Queued
  <2>3. Queued(t)' => Queued(t) \/ t = x
    BY <1>1, <1>3 DEF Queued
  <2> QED
    BY <2>1, <2>2, <2>3
<1> QED
  BY <1>1, <1>2, <1>4, <1>5

(* Receiving removes the message at the head, and no other. *)
LEMMA ReceiveQueue ==
    ASSUME ApiTypeOK, QueueInv, tcpip_queue # <<>>,
           tcpip_queue' = Tail(tcpip_queue)
    PROVE  /\ tcpip_queue' \in Seq(Caller \union {Wake})
           /\ Len(tcpip_queue') <= QueueLen
           /\ QueueInv'
           /\ \A t \in Caller : Queued(t)' <=> Queued(t) /\ t # Head(tcpip_queue)
<1>1. /\ tcpip_queue \in Seq(Caller \union {Wake})
      /\ tcpip_queue' \in Seq(Caller \union {Wake})
      /\ Len(tcpip_queue) \in Nat \ {0}
      /\ Len(tcpip_queue') = Len(tcpip_queue) - 1
      /\ \A i \in 1 .. Len(tcpip_queue') : tcpip_queue'[i] = tcpip_queue[i + 1]
      /\ Head(tcpip_queue) = tcpip_queue[1]
      /\ Len(tcpip_queue) <= QueueLen
  BY DEF ApiTypeOK
<1>2. Len(tcpip_queue') <= QueueLen
  BY <1>1, QueueAssumption
<1>3. \A i \in 1 .. Len(tcpip_queue') : i + 1 \in 1 .. Len(tcpip_queue) /\ i + 1 # 1
  BY <1>1
<1>4. QueueInv'
  BY <1>1, <1>3 DEF QueueInv
<1>5. ASSUME NEW t \in Caller
      PROVE  Queued(t)' <=> Queued(t) /\ t # Head(tcpip_queue)
  <2>1. Queued(t)' => Queued(t)
    BY <1>1, <1>3 DEF Queued
  <2>2. Queued(t)' => t # Head(tcpip_queue)
    <3> SUFFICES ASSUME NEW i \in 1 .. Len(tcpip_queue'), tcpip_queue'[i] = t,
                        t = Head(tcpip_queue)
                 PROVE  FALSE
      BY DEF Queued
    <3>1. tcpip_queue[i + 1] = t /\ tcpip_queue[1] = t /\ 1 \in 1 .. Len(tcpip_queue)
      BY <1>1
    <3> QED
      BY <1>3, <3>1 DEF QueueInv
  <2>3. ASSUME Queued(t), t # Head(tcpip_queue) PROVE Queued(t)'
    <3>1. PICK i \in 1 .. Len(tcpip_queue) : tcpip_queue[i] = t
      BY <2>3 DEF Queued
    <3>2. i - 1 \in 1 .. Len(tcpip_queue') /\ tcpip_queue'[i - 1] = t
      BY <1>1, <2>3, <3>1
    <3> QED
      BY <3>2 DEF Queued
  <2> QED
    BY <2>1, <2>2, <2>3
<1> QED
  BY <1>1, <1>2, <1>4, <1>5

-----------------------------------------------------------------------------
(* One lemma per action of the API: it preserves the invariant. *)

(* No caller is the NULL message or no thread at all. *)
LEMMA Distinct == \A t \in Caller : t # Wake /\ t # None
  BY CallerAssumption

(* An idle system: nothing is queued, registered or scheduled. *)
LEMMA InitApiInv == ApiInit => ApiInv
<1> SUFFICES ASSUME ApiInit PROVE ApiInv
  OBVIOUS
<1> USE DEF ApiInit
<1>1. tcpip_queue \in Seq(Caller \union {Wake}) /\ Len(tcpip_queue) = 0
  OBVIOUS
<1>2. ApiTypeOK
  BY <1>1, QueueAssumption DEF ApiTypeOK, Op, Final
<1>3. QueueInv /\ \A t \in Caller : ~Queued(t)
  BY <1>1 DEF QueueInv, Queued
<1>4. PlaceInv /\ TimerInv /\ SemInv /\ ResultReady
  BY <1>3, Distinct DEF PlaceInv, PlaceOf, TimerInv, SemInv, ResultReady
<1> QED
  BY <1>2, <1>3, <1>4 DEF ApiInv

(* A call starts with no message outstanding, so func may be overwritten. *)
LEMMA CallInv ==
    ASSUME ApiInv, NEW t \in Caller, NEW func \in Op, Call(t, func)
    PROVE  ApiInv'
<1> USE DEF ApiInv, Call
<1>1. ApiTypeOK' /\ QueueInv' /\ \A u \in Caller : Queued(u)' <=> Queued(u)
  BY DEF ApiTypeOK, QueueInv, Queued
<1>2. t \notin recv_cb /\ sem[t] # "given"
  BY DEF PlaceInv, PlaceOf
<1>3. PlaceInv' /\ TimerInv' /\ SemInv' /\ ResultReady'
  BY <1>1, <1>2 DEF ApiTypeOK, PlaceInv, PlaceOf, TimerInv, SemInv, ResultReady
<1> QED
  BY <1>1, <1>3

(* api_mutex is taken only when no thread holds it. *)
LEMMA TakeMutexInv ==
    ASSUME ApiInv, NEW t \in Caller, TakeMutex(t)
    PROVE  ApiInv'
<1> USE DEF ApiInv, TakeMutex
<1>1. ApiTypeOK' /\ QueueInv' /\ \A u \in Caller : Queued(u)' <=> Queued(u)
  BY DEF ApiTypeOK, QueueInv, Queued
<1>2. PlaceInv' /\ TimerInv' /\ ResultReady'
  BY <1>1 DEF ApiTypeOK, PlaceInv, PlaceOf, TimerInv, ResultReady
<1>3. SemInv'
  BY Distinct DEF ApiTypeOK, SemInv
<1> QED
  BY <1>1, <1>2, <1>3

(* The thread leaves semlist with a semaphore and gives the mutex back. *)
LEMMA FindSemInv ==
    ASSUME ApiInv, NEW t \in Caller, FindSem(t)
    PROVE  ApiInv'
<1> USE DEF ApiInv, FindSem
<1>1. ApiTypeOK' /\ QueueInv' /\ \A u \in Caller : Queued(u)' <=> Queued(u)
  BY DEF ApiTypeOK, QueueInv, Queued
<1>2. PlaceInv' /\ TimerInv' /\ ResultReady'
  BY <1>1 DEF ApiTypeOK, PlaceInv, PlaceOf, TimerInv, ResultReady
<1>3. SemInv'
  BY Distinct DEF ApiTypeOK, SemInv
<1> QED
  BY <1>1, <1>2, <1>3

(* The message posted is in no other place. *)
LEMMA PostInv ==
    ASSUME ApiInv, NEW t \in Caller, Post(t)
    PROVE  ApiInv'
<1> USE DEF ApiInv, Post
<1>1. ~Queued(t)
  BY DEF PlaceInv, PlaceOf
<1>2. /\ tcpip_queue' \in Seq(Caller \union {Wake}) /\ Len(tcpip_queue') <= QueueLen
      /\ QueueInv'
      /\ \A u \in Caller : Queued(u)' <=> Queued(u) \/ u = t
  BY <1>1, PostQueue
<1>3. ApiTypeOK'
  BY <1>2 DEF ApiTypeOK
<1>4. PlaceInv' /\ TimerInv' /\ SemInv' /\ ResultReady'
  BY <1>2 DEF ApiTypeOK, PlaceInv, PlaceOf, TimerInv, SemInv, ResultReady
<1> QED
  BY <1>2, <1>3, <1>4

(* A caller that returns leaves no trace of its message. *)
LEMMA ReturnInv ==
    ASSUME ApiInv, NEW t \in Caller, Return(t)
    PROVE  ApiInv'
<1> USE DEF ApiInv, Return, Answered
<1>1. ApiTypeOK' /\ QueueInv' /\ \A u \in Caller : Queued(u)' <=> Queued(u)
  BY DEF ApiTypeOK, QueueInv, Queued
<1>2. PlaceInv' /\ TimerInv' /\ SemInv' /\ ResultReady'
  BY <1>1 DEF ApiTypeOK, PlaceInv, PlaceOf, TimerInv, SemInv, ResultReady
<1> QED
  BY <1>1, <1>2

(* The interrupt's NULL message is nobody's. *)
LEMMA EthIrqInv ==
    ASSUME ApiInv, EthIrq
    PROVE  ApiInv'
<1> USE DEF ApiInv, EthIrq
<1>1. /\ tcpip_queue' \in Seq(Caller \union {Wake}) /\ Len(tcpip_queue') <= QueueLen
      /\ QueueInv'
      /\ \A u \in Caller : Queued(u)' <=> Queued(u) \/ u = Wake
  BY Distinct, PostQueue
<1>2. ApiTypeOK'
  BY <1>1 DEF ApiTypeOK
<1>3. PlaceInv' /\ TimerInv' /\ SemInv' /\ ResultReady'
  BY <1>1, Distinct DEF PlaceInv, PlaceOf, TimerInv, SemInv, ResultReady
<1> QED
  BY <1>1, <1>2, <1>3

(* Taking the NULL message out leaves the callers' messages in. *)
LEMMA ReceiveWakeInv ==
    ASSUME ApiInv, ReceiveWake
    PROVE  ApiInv'
<1> USE DEF ApiInv, ReceiveWake
<1>1. /\ tcpip_queue' \in Seq(Caller \union {Wake}) /\ Len(tcpip_queue') <= QueueLen
      /\ QueueInv'
      /\ \A u \in Caller : Queued(u)' <=> Queued(u) /\ u # Wake
  BY ReceiveQueue
<1>2. ApiTypeOK'
  BY <1>1 DEF ApiTypeOK
<1>3. PlaceInv' /\ TimerInv' /\ SemInv' /\ ResultReady'
  BY <1>1, Distinct DEF PlaceInv, PlaceOf, TimerInv, SemInv, ResultReady
<1> QED
  BY <1>1, <1>2, <1>3

(* api_accept moves the message from the queue to exactly one other place. *)
LEMMA AcceptInv ==
    ASSUME ApiInv, NEW t \in Caller, Accept(t)
    PROVE  ApiInv'
<1> USE DEF ApiInv, Accept
<1>1. /\ tcpip_queue' \in Seq(Caller \union {Wake}) /\ Len(tcpip_queue') <= QueueLen
      /\ QueueInv'
      /\ \A u \in Caller : Queued(u)' <=> Queued(u) /\ u # t
  BY ReceiveQueue
<1>2. Queued(t)
  <2>1. Len(tcpip_queue) \in Nat \ {0} /\ tcpip_queue[1] = t
    BY DEF ApiTypeOK
  <2> QED
    BY <2>1 DEF Queued
<1>3. /\ pc[t] = "wait" /\ t \notin recv_cb /\ t \notin lookups /\ t \notin timers
      /\ sem[t] = "taken"
  BY <1>2 DEF PlaceInv, PlaceOf, SemInv, TimerInv, ApiTypeOK
<1>4. CASE \E r \in Final : AcceptNow(t, r)
  <2>1. PICK r \in Final : AcceptNow(t, r)
    BY <1>4
  <2> USE <2>1 DEF AcceptNow, Finish
  <2>2. ApiTypeOK'
    BY <1>1 DEF ApiTypeOK
  <2>3. PlaceInv' /\ TimerInv' /\ SemInv' /\ ResultReady'
    BY <1>1, <1>3 DEF ApiTypeOK, PlaceInv, PlaceOf, TimerInv, SemInv, ResultReady
  <2> QED
    BY <1>1, <2>2, <2>3
<1>5. CASE AcceptRecv(t)
  <2> USE <1>5 DEF AcceptRecv
  <2>1. ApiTypeOK'
    BY <1>1 DEF ApiTypeOK
  <2>2. PlaceInv'
    BY <1>1, <1>3 DEF ApiTypeOK, PlaceInv, PlaceOf
  <2>3. TimerInv' /\ SemInv' /\ ResultReady'
    BY <1>3 DEF ApiTypeOK, TimerInv, SemInv, ResultReady
  <2> QED
    BY <1>1, <2>1, <2>2, <2>3
<1>6. CASE AcceptLookup(t)
  <2> USE <1>6 DEF AcceptLookup
  <2>1. ApiTypeOK'
    BY <1>1 DEF ApiTypeOK
  <2>2. PlaceInv'
    BY <1>1, <1>3 DEF ApiTypeOK, PlaceInv, PlaceOf
  <2>3. TimerInv' /\ SemInv' /\ ResultReady'
    BY <1>3 DEF ApiTypeOK, TimerInv, SemInv, ResultReady
  <2> QED
    BY <1>1, <2>1, <2>2, <2>3
<1> QED
  BY <1>4, <1>5, <1>6

(* A datagram cancels the timeout and answers the receive. *)
LEMMA GotUdpInv ==
    ASSUME ApiInv, NEW t \in Caller, GotUdp(t)
    PROVE  ApiInv'
<1> USE DEF ApiInv, GotUdp, Finish, Untimeout
<1>1. ApiTypeOK' /\ QueueInv' /\ \A u \in Caller : Queued(u)' <=> Queued(u)
  BY DEF ApiTypeOK, QueueInv, Queued, Final
<1>2. PlaceInv' /\ TimerInv' /\ SemInv'
  BY <1>1 DEF ApiTypeOK, PlaceInv, PlaceOf, TimerInv, SemInv
<1>3. ResultReady'
  BY DEF ApiTypeOK, ResultReady, Final
<1> QED
  BY <1>1, <1>2, <1>3

(* A timeout takes the receive callback with it. *)
LEMMA GotUdpTimedoutInv ==
    ASSUME ApiInv, NEW t \in Caller, GotUdpTimedout(t)
    PROVE  ApiInv'
<1> USE DEF ApiInv, GotUdpTimedout, Finish
<1>1. ApiTypeOK' /\ QueueInv' /\ \A u \in Caller : Queued(u)' <=> Queued(u)
  BY DEF ApiTypeOK, QueueInv, Queued, Final
<1>2. t \in recv_cb /\ op[t] = "recv_timeout"
  BY DEF TimerInv
<1>3. PlaceInv' /\ TimerInv' /\ SemInv'
  BY <1>1, <1>2 DEF ApiTypeOK, PlaceInv, PlaceOf, TimerInv, SemInv
<1>4. ResultReady'
  BY <1>2 DEF ApiTypeOK, ResultReady, Final
<1> QED
  BY <1>1, <1>3, <1>4

(* lwIP's callback answers the lookup it was given. *)
LEMMA GetHostCallbackInv ==
    ASSUME ApiInv, NEW t \in Caller, GetHostCallback(t)
    PROVE  ApiInv'
<1> USE DEF ApiInv, GetHostCallback, Finish
<1>1. ApiTypeOK' /\ QueueInv' /\ \A u \in Caller : Queued(u)' <=> Queued(u)
  BY DEF ApiTypeOK, QueueInv, Queued, Final
<1>2. PlaceInv' /\ TimerInv' /\ SemInv'
  BY <1>1 DEF ApiTypeOK, PlaceInv, PlaceOf, TimerInv, SemInv
<1>3. ResultReady'
  BY DEF ApiTypeOK, ResultReady, Final
<1> QED
  BY <1>1, <1>2, <1>3

(* The tcpip thread's own progress through log_write touches no message. *)
LEMMA QuietInv ==
    ASSUME ApiInv, tcpip' \in {"loop", "log"},
           UNCHANGED <<pc, op, ret, sem, api_mutex, tcpip_queue, recv_cb, timers, lookups>>
    PROVE  ApiInv'
  BY DEF ApiInv, ApiTypeOK, QueueInv, Queued, PlaceInv, PlaceOf, TimerInv, SemInv,
      ResultReady

(* A step of a caller in api_call. *)
LEMMA CallStepInv ==
    ASSUME ApiInv, NEW t \in Caller, CallStep(t)
    PROVE  ApiInv'
  BY TakeMutexInv, FindSemInv, PostInv, ReturnInv DEF CallStep

(* A step of the tcpip thread. *)
LEMMA TcpipStepInv ==
    ASSUME ApiInv, TcpipStep
    PROVE  ApiInv'
  BY ReceiveWakeInv, AcceptInv, GotUdpInv, GotUdpTimedoutInv, GetHostCallbackInv
  DEF TcpipStep

(* The invariant says what the runs check. *)
LEMMA ApiInvAnswers == ApiInv => AnsweredRight /\ SemlistSafe
<1> SUFFICES ASSUME ApiInv PROVE AnsweredRight /\ SemlistSafe
  OBVIOUS
<1> USE DEF ApiInv
<1>1. ASSUME NEW t \in Caller
      PROVE  IF pc[t] = "wait" THEN \E p \in Places(t) : Places(t) = {p}
                               ELSE Places(t) = {}
  <2>1. \A p : p \in Places(t) <=>
            \/ p = "queue" /\ Queued(t)
            \/ p = "recv_cb" /\ t \in recv_cb
            \/ p = "lookups" /\ t \in lookups
            \/ p = "sem" /\ sem[t] = "given"
    BY DEF Places, Queued
  <2>2. PlaceOf(t)
    BY DEF PlaceInv
  <2>3. CASE pc[t] # "wait"
    BY <2>1, <2>2, <2>3 DEF PlaceOf
  <2>4. CASE pc[t] = "wait" /\ Queued(t)
    <3>1. Places(t) = {"queue"}
      BY <2>1, <2>2, <2>4 DEF PlaceOf
    <3> QED
      BY <2>4, <3>1
  <2>5. CASE pc[t] = "wait" /\ t \in recv_cb
    <3>1. Places(t) = {"recv_cb"}
      BY <2>1, <2>2, <2>5 DEF PlaceOf
    <3> QED
      BY <2>5, <3>1
  <2>6. CASE pc[t] = "wait" /\ t \in lookups
    <3>1. Places(t) = {"lookups"}
      BY <2>1, <2>2, <2>6 DEF PlaceOf
    <3> QED
      BY <2>6, <3>1
  <2>7. CASE pc[t] = "wait" /\ sem[t] = "given"
    <3>1. Places(t) = {"sem"}
      BY <2>1, <2>2, <2>7 DEF PlaceOf
    <3> QED
      BY <2>7, <3>1
  <2> QED
    BY <2>2, <2>3, <2>4, <2>5, <2>6, <2>7 DEF PlaceOf
<1>2. ASSUME NEW t \in Caller
      PROVE  /\ \A i, j \in 1 .. Len(tcpip_queue) :
                    tcpip_queue[i] = t /\ tcpip_queue[j] = t => i = j
             /\ t \in timers => t \in recv_cb
  BY DEF QueueInv, TimerInv
<1>3. AnsweredOnce
  BY <1>1, <1>2 DEF AnsweredOnce
<1>4. SemlistSafe
  BY DEF SemlistSafe, SemInv, PlaceInv, PlaceOf, ApiTypeOK
<1> QED
  BY <1>3, <1>4 DEF AnsweredRight

-----------------------------------------------------------------------------
(* log_write on top of the API. *)

\* t is between taking and giving log_mutex.
InLogWrite(t) == lpc[t] \in {"send", "sending", "print"}

\* A thread is between taking and giving log_mutex exactly while it holds it;
\* a logger has a call under way only from syslog_send; the tcpip thread has
\* log calls left exactly while it is in a handler that logs.
LogInv ==
    /\ LogTypeOK
    /\ \A t \in Logger :
          /\ InLogWrite(t) <=> log_mutex = t
          /\ lpc[t] \in {"want", "send", "print"} => pc[t] = "idle"
    /\ log_mutex \in Logger \union {None, Tcpip}
    /\ log_mutex = Tcpip => tcpip = "log"
    /\ tcpip = "log" <=> work # <<>>

\* log_mutex does its work: of the loggers and the tcpip thread at most one is
\* between sending a line to the syslog server and printing it, a logger's API
\* call is then a send, and a thread that waits for the mutex holds up no call.
LogExclusive ==
    \A t \in Logger :
        /\ \A u \in Logger :
               InLogWrite(t) /\ InLogWrite(u) => t = u
        /\ InLogWrite(t) => log_mutex # Tcpip
        /\ lpc[t] # "idle" /\ pc[t] # "idle" => lpc[t] = "sending"

(* The threads that can hold log_mutex differ from no thread and each other. *)
LEMMA LogDistinct == /\ Logger \subseteq Caller /\ Tcpip # None /\ None \notin Logger
                     /\ Tcpip \notin Logger
  BY CallerAssumption, LoggerAssumption

(* What is left of the tcpip thread's log calls is a sequence of log calls. *)
LEMMA WorkTail ==
    ASSUME work \in Seq({"host", "log"}), work # <<>>
    PROVE  Tail(work) \in Seq({"host", "log"})
  OBVIOUS

(* The handlers' lists of log calls are sequences of log calls. *)
LEMMA CallLists ==
    /\ <<>> \in Seq({"host", "log"})
    /\ <<"log">> \in Seq({"host", "log"}) /\ <<"host">> \in Seq({"host", "log"})
    /\ Startup \in Seq({"host", "log"})
    /\ \A a, b \in Seq({"host", "log"}) : a \o b \in Seq({"host", "log"})
<1>1. <<>> \in Seq({"host", "log"})
  OBVIOUS
<1>2. <<"log">> \in Seq({"host", "log"}) /\ <<"host">> \in Seq({"host", "log"})
  OBVIOUS
<1>3. Startup \in Seq({"host", "log"})
  BY <1>1, <1>2 DEF Startup
<1>4. \A a, b \in Seq({"host", "log"}) : a \o b \in Seq({"host", "log"})
  OBVIOUS
<1> QED
  BY <1>1, <1>2, <1>3, <1>4

(* Nothing is logged yet. *)
LEMMA InitLogInv == Init => ApiInv /\ LogInv
<1> SUFFICES ASSUME Init PROVE ApiInv /\ LogInv
  OBVIOUS
<1>1. ApiInv
  BY InitApiInv DEF Init
<1>2. LogTypeOK
  BY <1>1, CallLists DEF Init, LogInit, LogTypeOK, ApiInv
<1> QED
  BY <1>1, <1>2, LogDistinct DEF Init, ApiInit, LogInit, LogInv, InLogWrite

(* The steps of the API leave the loggers and the mutex as they were. *)
LEMMA ApiLogInv ==
    ASSUME ApiInv, LogInv, Api
    PROVE  ApiInv' /\ LogInv'
<1> USE DEF LogInv, InLogWrite
<1>1. ApiInv'
  <2>1. ASSUME NEW t \in Caller, ~Busy(t) /\ Call(t, "sync") PROVE ApiInv'
    BY <2>1, CallInv DEF Op
  <2>2. ASSUME NEW t \in Caller, CallStep(t) PROVE ApiInv'
    BY <2>2, CallStepInv
  <2> QED
    BY <2>1, <2>2, TcpipStepInv, EthIrqInv DEF Api
<1>2. UNCHANGED logVars
  BY DEF Api
<1>3. tcpip' = tcpip
  BY DEF Api, Call, CallStep, TakeMutex, FindSem, Post, Return, TcpipStep, ReceiveWake,
      Accept, GotUdp, GotUdpTimedout, GetHostCallback, EthIrq
<1>4. LogTypeOK'
  BY <1>1, <1>2 DEF LogTypeOK, ApiInv, logVars
<1>5. \A t \in Logger : pc[t] = "idle" /\ lpc[t] # "idle" => pc'[t] = "idle"
  BY LogDistinct DEF Api, Busy, Call, CallStep, TakeMutex, FindSem, Post, Return,
      TcpipStep, ReceiveWake, Accept, GotUdp, GotUdpTimedout, GetHostCallback, EthIrq,
      ApiInv, ApiTypeOK
<1> QED
  BY <1>1, <1>2, <1>3, <1>4, <1>5 DEF logVars

(* A logger's way through log_write. *)
LEMMA LoggerInv ==
    ASSUME ApiInv, LogInv, NEW t \in Logger, LogWrite(t) \/ LogStep(t)
    PROVE  ApiInv' /\ LogInv'
<1> USE LogDistinct DEF LogInv, InLogWrite
<1>1. CASE LogWrite(t)
  <2>1. ApiInv'
    BY <1>1, QuietInv DEF LogWrite, apiVars, ApiInv, ApiTypeOK
  <2> QED
    BY <1>1, <2>1 DEF LogWrite, apiVars, LogTypeOK, ApiInv
<1>2. CASE LogTaken(t)
  <2>1. ApiInv'
    BY <1>2, QuietInv DEF LogTaken, apiVars, ApiInv, ApiTypeOK
  <2> QED
    BY <1>2, <2>1 DEF LogTaken, apiVars, LogTypeOK, ApiInv
<1>3. CASE SyslogSend(t)
  <2>1. ApiInv'
    <3>1. CASE Call(t, "sync")
      BY <3>1, CallInv DEF Op
    <3>2. CASE UNCHANGED apiVars
      BY <3>2, QuietInv DEF apiVars, ApiInv, ApiTypeOK
    <3> QED
      BY <1>3, <3>1, <3>2 DEF SyslogSend
  <2>2. LogTypeOK' /\ tcpip' = tcpip
    BY <1>3, <2>1 DEF SyslogSend, Call, apiVars, LogTypeOK, ApiInv
  <2>3. /\ \A u \in Logger \ {t} : pc'[u] = pc[u] /\ lpc'[u] = lpc[u]
        /\ lpc'[t] = "sending" \/ (lpc'[t] = "print" /\ pc'[t] = pc[t])
    BY <1>3 DEF SyslogSend, Call, apiVars, LogTypeOK, ApiInv, ApiTypeOK
  <2> QED
    BY <1>3, <2>1, <2>2, <2>3 DEF SyslogSend
<1>4. CASE SyslogSent(t)
  <2>1. ApiInv'
    BY <1>4, QuietInv DEF SyslogSent, apiVars, ApiInv, ApiTypeOK
  <2> QED
    BY <1>4, <2>1 DEF SyslogSent, apiVars, LogTypeOK, ApiInv
<1>5. CASE LogGive(t)
  <2>1. ApiInv'
    BY <1>5, QuietInv DEF LogGive, apiVars, ApiInv, ApiTypeOK
  <2> QED
    BY <1>5, <2>1 DEF LogGive, apiVars, LogTypeOK, ApiInv
<1> QED
  BY <1>1, <1>2, <1>3, <1>4, <1>5 DEF LogStep

(* A handler of the tcpip thread starts with its log calls to make. *)
LEMMA BeginInv ==
    ASSUME ApiInv, LogInv, NEW calls \in Seq({"host", "log"}), Begin(calls),
           netif_up' \in BOOLEAN, link_up' \in BOOLEAN, did_startup' \in BOOLEAN
    PROVE  ApiInv' /\ LogInv'
<1> USE DEF LogInv, InLogWrite
<1>1. ApiInv'
  BY QuietInv DEF Begin
<1> QED
  BY <1>1, LogDistinct DEF Begin, LogTypeOK, ApiInv

(* The tcpip thread's handlers that log. *)
LEMMA HandlerInv ==
    ASSUME ApiInv, LogInv,
           LinkChanged \/ InterfaceChanged \/ Notice \/ TcpipTaken \/ TcpipGive
    PROVE  ApiInv' /\ LogInv'
<1>1. CASE LinkChanged
  <2>1. <<"log">> \o (IF Dhcp THEN <<>> ELSE Startup) \in Seq({"host", "log"})
    BY CallLists
  <2> QED
    BY <1>1, <2>1, BeginInv DEF LinkChanged, LogInv, LogTypeOK
<1>2. CASE InterfaceChanged
  <2> DEFINE calls == IF netif_up THEN <<>>
                      ELSE <<"host">> \o (IF Dhcp THEN Startup \o <<"log">> ELSE <<>>)
  <2>1. calls \in Seq({"host", "log"})
    BY CallLists
  <2>2. Begin(calls)
    BY <1>2 DEF InterfaceChanged
  <2> HIDE DEF calls
  <2> QED
    BY <1>2, <2>1, <2>2, BeginInv DEF InterfaceChanged, LogInv, LogTypeOK
<1>3. CASE Notice
  <2> QED
    BY <1>3, CallLists, BeginInv DEF Notice, LogInv, LogTypeOK
<1>4. CASE TcpipTaken
  <2>1. ApiInv'
    BY <1>4, QuietInv DEF TcpipTaken, apiVars, ApiInv, ApiTypeOK
  <2> QED
    BY <1>4, <2>1, LogDistinct DEF TcpipTaken, apiVars, LogInv, InLogWrite, LogTypeOK, ApiInv
<1>5. CASE TcpipGive
  <2>1. ApiInv'
    BY <1>5, QuietInv DEF TcpipGive
  <2>2. work' \in Seq({"host", "log"})
    BY <1>5, WorkTail DEF TcpipGive, LogInv, LogTypeOK
  <2> QED
    BY <1>5, <2>1, <2>2, LogDistinct DEF TcpipGive, LogInv, InLogWrite, LogTypeOK,
        ApiInv
<1> QED
  BY <1>1, <1>2, <1>3, <1>4, <1>5

(* The watchdog's reset leaves the state the firmware starts in. *)
LEMMA ResetInv == WatchdogReset => ApiInv' /\ LogInv'
<1> SUFFICES ASSUME WatchdogReset PROVE ApiInv' /\ LogInv'
  OBVIOUS
<1> USE DEF WatchdogReset
<1>1. tcpip_queue' \in Seq(Caller \union {Wake}) /\ Len(tcpip_queue') = 0
  OBVIOUS
<1>2. ApiTypeOK'
  BY <1>1, QueueAssumption DEF ApiTypeOK, Op, Final
<1>3. QueueInv' /\ \A t \in Caller : ~Queued(t)'
  BY <1>1 DEF QueueInv, Queued
<1>4. PlaceInv' /\ TimerInv' /\ SemInv' /\ ResultReady'
  BY <1>3, Distinct DEF PlaceInv, PlaceOf, TimerInv, SemInv, ResultReady
<1>5. ApiInv'
  BY <1>2, <1>3, <1>4 DEF ApiInv
<1>6. LogTypeOK'
  BY <1>2, CallLists DEF LogTypeOK
<1> QED
  BY <1>5, <1>6, LogDistinct DEF LogInv, InLogWrite

(* Every step of the firmware's threads preserves the invariant. *)
LEMMA NextLogInv == ApiInv /\ LogInv /\ [Next]_vars => ApiInv' /\ LogInv'
<1> SUFFICES ASSUME ApiInv, LogInv, [Next]_vars PROVE ApiInv' /\ LogInv'
  OBVIOUS
<1>1. CASE Next
  BY <1>1, ApiLogInv, LoggerInv, HandlerInv, ResetInv DEF Next
<1>2. CASE UNCHANGED vars
  <2>1. ApiInv'
    BY <1>2, QuietInv DEF vars, apiVars, ApiInv, ApiTypeOK
  <2> QED
    BY <1>2, <2>1 DEF vars, apiVars, logVars, LogInv, InLogWrite, LogTypeOK,
        ApiInv
<1> QED
  BY <1>1, <1>2

-----------------------------------------------------------------------------
(* The theorems. *)

(* In every interleaving of calls of every kind, datagrams, timeouts, name     *)
(* lookups and interrupts, each api_call message is reachable from one place   *)
(* while its caller sleeps and from none otherwise, and is answered once with  *)
(* a result of its own call.                                                   *)
THEOREM ApiAnswersRight == ApiSpec => []AnsweredRight
<1>1. ApiInv /\ [ApiNext]_apiVars => ApiInv'
  <2> SUFFICES ASSUME ApiInv, [ApiNext]_apiVars PROVE ApiInv'
    OBVIOUS
  <2>1. CASE ApiNext
    BY <2>1, CallInv, CallStepInv, TcpipStepInv, EthIrqInv DEF ApiNext
  <2>2. CASE UNCHANGED apiVars
    BY <2>2, QuietInv DEF apiVars, ApiInv, ApiTypeOK
  <2> QED
    BY <2>1, <2>2
<1> QED
  BY <1>1, InitApiInv, ApiInvAnswers, PTL DEF ApiSpec

(* The same holds of the firmware: with the threads that log on top of the API *)
(* and the watchdog's reset at any mutual wait, api_call keeps its contract.   *)
THEOREM FirmwareAnswersRight == Spec => []AnsweredRight
  BY InitLogInv, NextLogInv, ApiInvAnswers, PTL DEF Spec

(* semlist is searched and extended by one thread at a time, and the tcpip     *)
(* thread never gives a semaphore that was not created.                        *)
THEOREM FirmwareSemlistSafe == Spec => []SemlistSafe
  BY InitLogInv, NextLogInv, ApiInvAnswers, PTL DEF Spec

(* log_mutex keeps log lines whole: one thread at a time sends and prints.     *)
THEOREM LogLinesWhole == Spec => [](LogTypeOK /\ LogExclusive)
<1>1. LogInv => LogTypeOK /\ LogExclusive
  BY LogDistinct DEF LogInv, InLogWrite, LogExclusive, LogTypeOK
<1> QED
  BY <1>1, InitLogInv, NextLogInv, PTL DEF Spec
=============================================================================
