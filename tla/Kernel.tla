------------------------------- MODULE Kernel -------------------------------
(***************************************************************************)
(* FreeRTOS as the firmware uses it: queue.c (queues, semaphores, mutexes,   *)
(* queue sets) and the part of tasks.c that blocks, wakes and switches       *)
(* threads.  A step is a critical section, or what a thread does with the    *)
(* scheduler suspended between two of them; interrupts come between any two  *)
(* steps.  Time is left open: a finite wait may expire at any tick.          *)
(***************************************************************************)
EXTENDS Naturals, Integers, Sequences, FiniteSets, SequencesExt, Lists

CONSTANTS
    Task, IDLE,     \* threads, and the idle task among them
    BasePriority,   \* of each thread
    Handle,         \* queues, semaphores, mutexes and queue sets
    Length,         \* uxLength of each
    Mutex,          \* the handles that are mutexes
    Outer,          \* log_mutex, the one that is held while another is asked for
    Direct,         \* the threads that ask for the others without it too
    Container,      \* pxQueueSetContainer of each, NULL for most
    Item,           \* what is sent
    Workload,       \* what is asked of the kernel: the calls each thread makes, and the
                    \* handles that interrupt handlers send to and receive from
    MaxLock,        \* bound on the lock counts
    NULL

ASSUME KernelAssumption ==
    /\ IsFiniteSet(Task) /\ IDLE \in Task /\ Mutex \subseteq Handle
    /\ BasePriority \in [Task -> Nat] /\ \A t \in Task \ {IDLE} : BasePriority[t] > BasePriority[IDLE]
    /\ Length \in [Handle -> Nat \ {0}] /\ \A h \in Mutex : Length[h] = 1
    /\ Container \in [Handle -> Handle \cup {NULL}] /\ NULL \notin Handle \cup Task
    /\ \A h \in Handle : Container[h] \notin Mutex \cup {h}
    /\ MaxLock \in Nat
ASSUME WorkloadAssumption ==
    \A w \in Workload :
        /\ w.sends \subseteq Handle /\ w.receives \subseteq Handle
        /\ \A t \in Task : \A c \in w.calls[t] :
              /\ c.op \in {"send", "receive", "delay"} /\ c.wait \in {"no", "finite", "forever"}
              /\ c.op # "delay" => c.h \in Handle /\ c.item \in Item \cup {NULL}
              \* serial_get(cli_serial, TIMEOUT_NOBLOCK)
              /\ c.op = "receive" /\ Container[c.h] # NULL => c.wait = "no"

\* Mutexes are taken with portMAX_DELAY, not used by interrupt handlers, and in no set.
ASSUME MutexAssumption ==
    /\ Outer \in Mutex
    /\ \A h \in Mutex : Container[h] = NULL
    /\ \A w \in Workload :
          /\ w.sends \cap Mutex = {} /\ w.receives \cap Mutex = {}
          /\ \A t \in Task : \A c \in w.calls[t] :
                c.op = "receive" /\ c.h \in Mutex => c.wait # "finite"

\* The threads that log.
Nests == {t \in Task : \E w \in Workload : \E c \in w.calls[t] : c.op = "receive" /\ c.h = Outer}

\* The vtimer thread writes to serial ports and calls the TCP/IP API only to log.  Of the
\* threads that log only the lowest, the tcpip thread, is below one that takes those
\* mutexes without logging, the main thread.
ASSUME PriorityAssumption ==
    \A w \in Direct, t, x \in Nests :
        x # t /\ BasePriority[t] < BasePriority[w] => BasePriority[t] < BasePriority[x]

VARIABLES
    buf, uxMessagesWaiting, pcWriteTo, pcReadFrom,  \* Queue_t: the ring, per handle
    xTxLock, xRxLock,
    waitingToSend, waitingToReceive,                \* the event lists
    pxMutexHolder,
    uxPriority, uxMutexesHeld,                      \* TCB_t, per thread
    ready,          \* the threads in the ready lists
    blocked,        \* for how long each thread is blocked: "no", "finite", "forever"
    xPendingReadyList,
    pxCurrentTCB, uxSchedulerSuspended, xYieldPending,
    pendsv,         \* a context switch has been requested
    pc, call,       \* per thread: where it is, and in which call
    fate,           \* per thread: what it does after the queue is unlocked
    expired,        \* per thread: its wait ended with a tick
    received,       \* the item each receiver got last
    work            \* the member of Workload at hand

ring   == <<buf, uxMessagesWaiting, pcWriteTo, pcReadFrom>>
locks  == <<xTxLock, xRxLock>>
lists  == <<waitingToSend, waitingToReceive>>
prio   == <<pxMutexHolder, uxPriority, uxMutexesHeld>>
sched  == <<ready, blocked, xPendingReadyList, pxCurrentTCB, uxSchedulerSuspended,
            xYieldPending, pendsv>>
thread == <<pc, call, fate, expired>>
kvars  == <<ring, locks, lists, prio, sched, thread, received, work>>

queueUNLOCKED == -1
NoCall == [op |-> "none", h |-> NULL, wait |-> "no", item |-> NULL]

\* xQueueGenericReset for every queue, xQueueCreateMutex for the mutexes (a mutex is
\* created full), xTaskCreate for the threads, vTaskStartScheduler.
KernelInit ==
    /\ buf = [h \in Handle |-> [i \in 0 .. Length[h] - 1 |-> NULL]]
    /\ uxMessagesWaiting = [h \in Handle |-> IF h \in Mutex THEN 1 ELSE 0]
    /\ pcWriteTo = [h \in Handle |-> 0] /\ pcReadFrom = [h \in Handle |-> Length[h] - 1]
    /\ xTxLock = [h \in Handle |-> queueUNLOCKED] /\ xRxLock = [h \in Handle |-> queueUNLOCKED]
    /\ waitingToSend = [h \in Handle |-> << >>] /\ waitingToReceive = [h \in Handle |-> << >>]
    /\ pxMutexHolder = [h \in Handle |-> NULL]
    /\ uxPriority = BasePriority /\ uxMutexesHeld = [t \in Task |-> 0]
    /\ ready = Task /\ blocked = [t \in Task |-> "no"] /\ xPendingReadyList = {}
    /\ pxCurrentTCB \in {t \in Task : \A u \in Task : BasePriority[u] <= BasePriority[t]}
    /\ uxSchedulerSuspended = FALSE /\ xYieldPending = FALSE /\ pendsv = FALSE
    /\ pc = [t \in Task |-> "run"] /\ call = [t \in Task |-> NoCall]
    /\ fate = [t \in Task |-> "retry"] /\ expired = [t \in Task |-> FALSE]
    /\ received = [r \in Task \cup {"isr"} |-> << >>]
    /\ work \in Workload

-----------------------------------------------------------------------------
(* The ring. *)

HasRoom(h) == uxMessagesWaiting[h] < Length[h]

Advance(h, i) == (i + 1) % Length[h]

\* prvCopyDataToQueue with queueSEND_TO_BACK, for the items in[h] of the handles H;
\* a mutex has no data.
CopyTo(H, in) ==
    /\ buf' = [h \in Handle |-> IF h \in H \ Mutex
                                THEN [buf[h] EXCEPT ![pcWriteTo[h]] = in[h]] ELSE buf[h]]
    /\ pcWriteTo' = [h \in Handle |-> IF h \in H \ Mutex THEN Advance(h, pcWriteTo[h])
                                      ELSE pcWriteTo[h]]
    /\ uxMessagesWaiting' = [h \in Handle |-> uxMessagesWaiting[h] + (IF h \in H THEN 1 ELSE 0)]
    /\ pcReadFrom' = pcReadFrom

\* Fault: the read pointer is used before it is advanced.
CopyFromFault(h, r) ==
    /\ pcReadFrom' = [pcReadFrom EXCEPT ![h] = IF h \in Mutex THEN @ ELSE Advance(h, @)]
    /\ received' = [received EXCEPT ![r] = <<h, IF h \in Mutex THEN NULL
                                               ELSE buf[h][pcReadFrom[h]]>>]
    /\ uxMessagesWaiting' = [uxMessagesWaiting EXCEPT ![h] = @ - 1]
    /\ UNCHANGED <<buf, pcWriteTo>>

\* prvCopyDataFromQueue, which advances first, and the decrement after it.
CopyFrom(h, r) ==
    /\ pcReadFrom' = [pcReadFrom EXCEPT ![h] = IF h \in Mutex THEN @ ELSE Advance(h, @)]
    /\ received' = [received EXCEPT ![r] = <<h, IF h \in Mutex THEN NULL
                                               ELSE buf[h][pcReadFrom'[h]]>>]
    /\ uxMessagesWaiting' = [uxMessagesWaiting EXCEPT ![h] = @ - 1]
    /\ UNCHANGED <<buf, pcWriteTo>>

-----------------------------------------------------------------------------
(* Event lists and the scheduler. *)

\* vListInsert: in priority order, behind the ones of the same priority.  A thread that
\* inherits a priority while it waits keeps its place, so the walk may end early.
InsertByPriority(list, t) ==
    LET n == Cardinality({i \in DOMAIN list :
                             \A j \in 1 .. i : uxPriority[list[j]] >= uxPriority[t]})
    IN  SubSeq(list, 1, n) \o <<t>> \o SubSeq(list, n + 1, Len(list))

\* The first n threads of an event list, or all.
FirstOf(list, n) == {list[i] : i \in 1 .. (IF n < Len(list) THEN n ELSE Len(list))}

Higher(W) == \E t \in W : uxPriority'[t] > uxPriority'[pxCurrentTCB]

\* xTaskRemoveFromEventList for the threads W, which the caller takes off the event
\* list: into the ready lists, or kept pending while the scheduler is suspended.
Unblock(W) ==
    /\ IF uxSchedulerSuspended
       THEN xPendingReadyList' = xPendingReadyList \cup W /\ UNCHANGED <<ready, blocked>>
       ELSE /\ ready' = ready \cup W
            /\ blocked' = [t \in Task |-> IF t \in W THEN "no" ELSE blocked[t]]
            /\ UNCHANGED xPendingReadyList
    /\ xYieldPending' = (xYieldPending \/ Higher(W))

\* PendSV: vTaskSwitchContext, unless the scheduler is suspended.
PendSV ==
    /\ pendsv
    /\ pendsv' = FALSE
    /\ IF uxSchedulerSuspended
       THEN xYieldPending' = TRUE /\ UNCHANGED pxCurrentTCB
       ELSE /\ xYieldPending' = FALSE
            /\ pxCurrentTCB' \in {t \in ready : \A u \in ready : uxPriority[u] <= uxPriority[t]}
    /\ UNCHANGED <<ring, locks, lists, prio, ready, blocked, xPendingReadyList,
                   uxSchedulerSuspended, thread, received>>

Running(t, l) == pxCurrentTCB = t /\ ~pendsv /\ pc[t] = l

Goto(t, l) == pc' = [pc EXCEPT ![t] = l]

\* The call returns.
Return(t) ==
    /\ Goto(t, "run")
    /\ call' = [call EXCEPT ![t] = NoCall]
    /\ fate' = [fate EXCEPT ![t] = "retry"]
    /\ expired' = [expired EXCEPT ![t] = FALSE]

-----------------------------------------------------------------------------
(* xQueueGenericSend and xQueueGenericReceive, and what is built on them. *)

\* The threads take one mutex at a time, but log_write holds log_mutex around the calls
\* that take those of the serial port and of the TCP/IP API.
MayTake(t, h) ==
    IF uxMutexesHeld[t] = 0 THEN h = Outer \/ t \in Direct
    ELSE h # Outer /\ uxMutexesHeld[t] = 1 /\ pxMutexHolder[Outer] = t

MayGive(t, h) == pxMutexHolder[h] = t /\ (h = Outer => uxMutexesHeld[t] = 1)

\* A thread calls; xSemaphoreGive on a mutex only as its holder, and a member of a set
\* is read only after the set has named it.
Enter(t, c) ==
    /\ Running(t, "run")
    /\ c.h \in Mutex => IF c.op = "send" THEN MayGive(t, c.h) ELSE MayTake(t, c.h)
    /\ (c.h # NULL /\ Container[c.h] # NULL) => received[t] = <<Container[c.h], c.h>>
    /\ Goto(t, IF c.op = "delay" THEN "delay" ELSE "try")
    /\ call' = [call EXCEPT ![t] = c]
    /\ expired' = [expired EXCEPT ![t] = FALSE]
    /\ UNCHANGED <<ring, locks, lists, prio, sched, fate, received>>

\* xTaskPriorityDisinherit: back to the base priority with the last mutex.
Disinherit(t, h) ==
    IF h \in Mutex
    THEN /\ uxMutexesHeld' = [uxMutexesHeld EXCEPT ![t] = @ - 1]
         /\ uxPriority' = [uxPriority EXCEPT ![t] = IF uxMutexesHeld[t] = 1
                                                    THEN BasePriority[t] ELSE @]
         /\ pxMutexHolder' = [pxMutexHolder EXCEPT ![h] = NULL]
    ELSE UNCHANGED prio

\* The handles a send to h fills: h and its set, which gets the handle if it has room.
Filled(h) == {h} \cup {s \in {Container[h]} \ {NULL} : HasRoom(s)}
Data(h, x) == [g \in Filled(h) |-> IF g = h THEN x ELSE h]

\* The handle whose waiting thread a send wakes: prvNotifyQueueSetContainer wakes
\* the one that waits for the set, and does not ask whether the set is locked.
Notified(h) == IF Container[h] # NULL THEN Container[h] ELSE h

\* xTasksWaitingToReceive of h, or of its set if that has room.
Waiters(h) == IF Container[h] # NULL /\ Filled(h) = {h} THEN << >>
              ELSE waitingToReceive[Notified(h)]

WakeOne(h) == FirstOf(Waiters(h), 1)

\* The critical section of xQueueGenericSend when there is room.
SendItem(t) ==
    LET h == call[t].h
        W == WakeOne(h)
    IN  /\ Running(t, "try") /\ call[t].op = "send" /\ HasRoom(h)
        /\ CopyTo(Filled(h), Data(h, call[t].item))
        /\ Disinherit(t, h)
        /\ waitingToReceive' = [waitingToReceive EXCEPT ![Notified(h)] = Without(@, W)]
        /\ Unblock(W)
        /\ pendsv' = (Higher(W) \/ (W = {} /\ uxPriority' # uxPriority))
        /\ Return(t)
        /\ UNCHANGED <<locks, waitingToSend, pxCurrentTCB, uxSchedulerSuspended, received>>

\* The critical section of xQueueGenericReceive when there is an item.
ReceiveItem(t) ==
    LET h == call[t].h
        W == FirstOf(waitingToSend[h], 1)
    IN  /\ Running(t, "try") /\ call[t].op = "receive" /\ uxMessagesWaiting[h] > 0
        /\ CopyFrom(h, t)
        /\ IF h \in Mutex
           THEN /\ pxMutexHolder' = [pxMutexHolder EXCEPT ![h] = t]
                /\ uxMutexesHeld' = [uxMutexesHeld EXCEPT ![t] = @ + 1]
                /\ UNCHANGED uxPriority
           ELSE UNCHANGED prio
        /\ waitingToSend' = [waitingToSend EXCEPT ![h] = Without(@, W)]
        /\ Unblock(W)
        /\ pendsv' = Higher(W)
        /\ Return(t)
        /\ UNCHANGED <<locks, waitingToReceive, pxCurrentTCB, uxSchedulerSuspended>>

Stuck(t) == IF call[t].op = "send" THEN ~HasRoom(call[t].h)
                                   ELSE uxMessagesWaiting[call[t].h] = 0

\* The same critical sections when the call cannot be served.
Refused(t) ==
    /\ Running(t, "try") /\ Stuck(t)
    /\ IF call[t].wait = "no" THEN Return(t)
       ELSE Goto(t, "suspend") /\ UNCHANGED <<call, fate, expired>>
    /\ UNCHANGED <<ring, locks, lists, prio, sched, received>>

SuspendAll(t) ==
    /\ Running(t, "suspend")
    /\ uxSchedulerSuspended' = TRUE
    /\ Goto(t, "lock")
    /\ UNCHANGED <<ring, locks, lists, prio, ready, blocked, xPendingReadyList, pxCurrentTCB,
                   xYieldPending, pendsv, call, fate, expired, received>>

LockCount(n) == IF n = queueUNLOCKED THEN 0 ELSE n

prvLockQueue(t) ==
    /\ Running(t, "lock")
    /\ xTxLock' = [xTxLock EXCEPT ![call[t].h] = LockCount(@)]
    /\ xRxLock' = [xRxLock EXCEPT ![call[t].h] = LockCount(@)]
    /\ Goto(t, "check")
    /\ UNCHANGED <<ring, lists, prio, sched, call, fate, expired, received>>

\* xTaskCheckForTimeOut: true once a tick has ended the wait, and maybe before.
TimedOut(t) == IF call[t].wait = "forever" THEN {FALSE}
               ELSE IF expired[t] THEN {TRUE} ELSE BOOLEAN

\* xTaskCheckForTimeOut, then prvIsQueueFull or prvIsQueueEmpty.
Check(t) ==
    /\ Running(t, "check")
    /\ \E out \in TimedOut(t) :
          /\ fate' = [fate EXCEPT ![t] = IF out THEN "fail" ELSE IF Stuck(t) THEN "block"
                                         ELSE "retry"]
          /\ Goto(t, IF ~out /\ Stuck(t) THEN "place" ELSE "unlocktx")
    /\ UNCHANGED <<ring, locks, lists, prio, sched, call, expired, received>>

\* vTaskPriorityInherit.
Inherit(t) ==
    LET m == pxMutexHolder[call[t].h] IN
    uxPriority' = IF call[t].h \in Mutex /\ m # NULL /\ uxPriority[m] < uxPriority[t]
                  THEN [uxPriority EXCEPT ![m] = uxPriority[t]] ELSE uxPriority

\* vTaskPlaceOnEventList: onto the event list, off the ready list.
Place(t) ==
    LET h == call[t].h IN
    /\ Running(t, "place")
    /\ Inherit(t)
    /\ IF call[t].op = "send"
       THEN /\ waitingToSend' = [waitingToSend EXCEPT ![h] = InsertByPriority(@, t)]
            /\ UNCHANGED waitingToReceive
       ELSE /\ waitingToReceive' = [waitingToReceive EXCEPT ![h] = InsertByPriority(@, t)]
            /\ UNCHANGED waitingToSend
    /\ ready' = ready \ {t}
    /\ blocked' = [blocked EXCEPT ![t] = call[t].wait]
    /\ Goto(t, "unlocktx")
    /\ UNCHANGED <<ring, locks, pxMutexHolder, uxMutexesHeld, xPendingReadyList, pxCurrentTCB,
                   uxSchedulerSuspended, xYieldPending, pendsv, call, fate, expired, received>>

\* Fault: items that were sent while the queue was locked wake nobody.
UnlockTxFault(t) ==
    /\ Running(t, "unlocktx")
    /\ xTxLock' = [xTxLock EXCEPT ![call[t].h] = queueUNLOCKED]
    /\ Goto(t, "unlockrx")
    /\ UNCHANGED <<ring, lists, prio, sched, xRxLock, call, fate, expired, received>>

\* prvUnlockQueue, first half: a thread is woken for every item an interrupt handler
\* sent while the queue was locked; vTaskMissedYield.
UnlockTx(t) ==
    LET h == call[t].h
        W == FirstOf(waitingToReceive[h], xTxLock[h])
    IN  /\ Running(t, "unlocktx")
        /\ waitingToReceive' = [waitingToReceive EXCEPT ![h] = Without(@, W)]
        /\ UNCHANGED prio /\ Unblock(W)
        /\ xTxLock' = [xTxLock EXCEPT ![h] = queueUNLOCKED]
        /\ Goto(t, "unlockrx")
        /\ UNCHANGED <<ring, xRxLock, waitingToSend, pxCurrentTCB, uxSchedulerSuspended, pendsv,
                       call, fate, expired, received>>

\* Second half: the same for items that were received.
UnlockRx(t) ==
    LET h == call[t].h
        W == FirstOf(waitingToSend[h], xRxLock[h])
    IN  /\ Running(t, "unlockrx")
        /\ waitingToSend' = [waitingToSend EXCEPT ![h] = Without(@, W)]
        /\ UNCHANGED prio /\ Unblock(W)
        /\ xRxLock' = [xRxLock EXCEPT ![h] = queueUNLOCKED]
        /\ Goto(t, "resume")
        /\ UNCHANGED <<ring, xTxLock, waitingToReceive, pxCurrentTCB, uxSchedulerSuspended,
                       pendsv, call, fate, expired, received>>

Delayed == {t \in Task : blocked[t] = "finite" /\ t \notin xPendingReadyList}

\* xTaskIncrementTick for the threads E whose time has come: they leave the event list
\* they may be on and become ready.
WakeExpired(E) ==
    /\ waitingToSend' = [h \in Handle |-> Without(waitingToSend[h], E)]
    /\ waitingToReceive' = [h \in Handle |-> Without(waitingToReceive[h], E)]

Expire(E) == expired' = [t \in Task |-> expired[t] \/ t \in E]

AtLeastCurrent(W) == \E t \in W : uxPriority[t] >= uxPriority[pxCurrentTCB]

\* Fault: a yield that was held back while the scheduler was suspended is forgotten.
MustYieldFault(t) == fate[t] = "block"

MustYield(t) == xYieldPending' \/ fate[t] = "block"

\* xTaskResumeAll: the pending threads become ready, the ticks that were held back are
\* counted; it yields if it has to, and a thread that has blocked yields anyway.
ResumeAll(t) ==
    /\ Running(t, "resume")
    /\ uxSchedulerSuspended' = FALSE
    /\ \E E \in SUBSET Delayed :
          /\ WakeExpired(E)
          /\ IF fate[t] = "fail" THEN Return(t)
             ELSE Goto(t, IF call[t].op = "delay" THEN "woken" ELSE "try") /\ Expire(E)
                  /\ UNCHANGED <<call, fate>>
          /\ ready' = ready \cup xPendingReadyList \cup E
          /\ blocked' = [u \in Task |-> IF u \in xPendingReadyList \cup E THEN "no"
                                        ELSE blocked[u]]
          /\ xYieldPending' = (xYieldPending \/ AtLeastCurrent(xPendingReadyList \cup E))
    /\ xPendingReadyList' = {}
    /\ pendsv' = MustYield(t)
    /\ UNCHANGED <<ring, locks, prio, pxCurrentTCB, received>>

\* vTaskDelay, up to its xTaskResumeAll.
vTaskDelay(t) ==
    /\ Running(t, "delay")
    /\ uxSchedulerSuspended' = TRUE
    /\ ready' = ready \ {t}
    /\ blocked' = [blocked EXCEPT ![t] = "finite"]
    /\ fate' = [fate EXCEPT ![t] = "block"]
    /\ Goto(t, "resume")
    /\ UNCHANGED <<ring, locks, lists, prio, xPendingReadyList, pxCurrentTCB, xYieldPending,
                   pendsv, call, expired, received>>

EndDelay(t) ==
    /\ Running(t, "woken")
    /\ Return(t)
    /\ UNCHANGED <<ring, locks, lists, prio, sched, received>>

-----------------------------------------------------------------------------
(* Interrupts. *)

NotLocked(n) == n = queueUNLOCKED

\* xQueueGenericSendFromISR and portEND_SWITCHING_ISR.
SendFromISR(h, x) ==
    LET W == IF NotLocked(xTxLock[h]) THEN WakeOne(h) ELSE {}
    IN  /\ HasRoom(h) /\ xTxLock[h] < MaxLock
        /\ CopyTo(IF NotLocked(xTxLock[h]) THEN Filled(h) ELSE {h}, Data(h, x))
        /\ waitingToReceive' = [waitingToReceive EXCEPT ![Notified(h)] = Without(@, W)]
        /\ UNCHANGED prio /\ Unblock(W)
        /\ pendsv' = (pendsv \/ Higher(W))
        /\ xTxLock' = [xTxLock EXCEPT ![h] = IF NotLocked(@) THEN @ ELSE @ + 1]
        /\ UNCHANGED <<xRxLock, waitingToSend, pxCurrentTCB, uxSchedulerSuspended, thread,
                       received>>

\* xQueueReceiveFromISR.
ReceiveFromISR(h) ==
    LET W == IF NotLocked(xRxLock[h]) THEN FirstOf(waitingToSend[h], 1) ELSE {}
    IN  /\ uxMessagesWaiting[h] > 0 /\ xRxLock[h] < MaxLock
        /\ CopyFrom(h, "isr")
        /\ waitingToSend' = [waitingToSend EXCEPT ![h] = Without(@, W)]
        /\ UNCHANGED prio /\ Unblock(W)
        /\ pendsv' = (pendsv \/ Higher(W))
        /\ xRxLock' = [xRxLock EXCEPT ![h] = IF NotLocked(@) THEN @ ELSE @ + 1]
        /\ UNCHANGED <<xTxLock, waitingToReceive, pxCurrentTCB, uxSchedulerSuspended, thread>>

\* The tick interrupt while the scheduler runs.
SysTick(E) ==
    /\ ~uxSchedulerSuspended /\ E # {}
    /\ WakeExpired(E) /\ Expire(E)
    /\ ready' = ready \cup E
    /\ blocked' = [t \in Task |-> IF t \in E THEN "no" ELSE blocked[t]]
    /\ pendsv' = (pendsv \/ xYieldPending \/ AtLeastCurrent(E))
    /\ UNCHANGED <<ring, locks, prio, xPendingReadyList, pxCurrentTCB, uxSchedulerSuspended,
                   xYieldPending, pc, call, fate, received>>

-----------------------------------------------------------------------------

Step(t) ==
    \/ \E c \in work.calls[t] : Enter(t, c)
    \/ SendItem(t) \/ ReceiveItem(t) \/ Refused(t) \/ SuspendAll(t) \/ prvLockQueue(t)
    \/ Check(t) \/ Place(t) \/ UnlockTx(t) \/ UnlockRx(t) \/ ResumeAll(t) \/ vTaskDelay(t)
    \/ EndDelay(t)

KernelNext ==
    /\ \/ \E t \in Task : Step(t)
       \/ PendSV
       \/ \E h \in work.sends, x \in Item : SendFromISR(h, x)
       \/ \E h \in work.receives : ReceiveFromISR(h)
       \/ \E E \in SUBSET Delayed : SysTick(E)
    /\ work' = work

KernelSpec == KernelInit /\ [][KernelNext]_kvars

-----------------------------------------------------------------------------

\* The items of a queue, oldest first, as its ring holds them.
ContentsOf(h) ==
    [i \in 1 .. uxMessagesWaiting[h] |->
        IF h \in Mutex THEN NULL ELSE buf[h][(pcReadFrom[h] + i) % Length[h]]]

Q == INSTANCE QueueSpec WITH
        contents <- [h \in Handle |-> ContentsOf(h)],
        Item <- Item \cup Handle \cup {NULL},
        Receiver <- Task \cup {"isr"}

\* The kernel's queues, with their rings, locks, event lists and retries, are the
\* queues the drivers count on: bounded, first in first out, every item to one receiver.
QueuesImplemented == Q!QSpec

\* Awake in a call on h that an item, or a free place, would let return.
Coming(h, op) == {t \in ready \cup xPendingReadyList : pc[t] # "run" /\ call[t].op = op
                                                        /\ call[t].h = h}

Settled(h) == xTxLock[h] = queueUNLOCKED /\ xRxLock[h] = queueUNLOCKED

NoLostWakeupOn(h) ==
    Settled(h) =>
        /\ waitingToReceive[h] # << >> => uxMessagesWaiting[h] <= Cardinality(Coming(h, "receive"))
        /\ waitingToSend[h] # << >>
             => Length[h] - uxMessagesWaiting[h] <= Cardinality(Coming(h, "send"))

\* No lost wakeup: while a thread waits for an item, or for room, each item or free
\* place there is has a thread that was woken for it, wherever interrupts fall in the
\* steps from the first look at the queue to the sleep.  Queue sets are excepted.
NoLostWakeup == \A h \in Handle : (\A g \in Handle : Container[g] # h) => NoLostWakeupOn(h)

\* "Locking a queue prevents an ISR from accessing the queue event lists": a thread
\* that selects from a set is not left asleep while the set has an entry.
SetWakesSelector == \A h \in Handle : NoLostWakeupOn(h)

\* Between a context switch and the next request for one, the running thread is one of
\* the ready threads of the highest priority, inherited priorities included.
HighestRuns ==
    (~pendsv /\ ~uxSchedulerSuspended) =>
        pxCurrentTCB \in ready /\ \A t \in ready : uxPriority[t] <= uxPriority[pxCurrentTCB]

\* A thread that waits for a mutex is not held up by threads of lower priority: the
\* holder has at least the priority of that thread, and has more than its own only as
\* long as it holds a mutex.  What the waiting thread itself inherits meanwhile, for a
\* mutex it holds, vTaskPriorityInherit does not pass on.
Inheritance ==
    /\ \A h \in Mutex, t \in Task :
          t \in Range(waitingToReceive[h]) /\ pxMutexHolder[h] # NULL
              => uxPriority[pxMutexHolder[h]] >= BasePriority[t]
    /\ \A t \in Task : uxPriority[t] # BasePriority[t] => uxMutexesHeld[t] > 0

\* vTaskSwitchContext and the priority inheritance of mutexes together keep the promise
\* of the priorities in main.c: the vtimer thread runs when it can, with log_mutex held
\* around the serial port's mutex and around api_mutex as without.
PrioritiesHold == HighestRuns /\ Inheritance
=============================================================================
