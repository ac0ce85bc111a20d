-------------------------------- MODULE Ticks --------------------------------
(***************************************************************************)
(* The time of FreeRTOS (tasks.c): a tick count that wraps, the two delayed  *)
(* lists it switches between, ticks held back while the scheduler is        *)
(* suspended, vTaskDelay, and a receive with a timeout, as queue.c makes it   *)
(* out of xTaskCheckForTimeOut and vTaskPlaceOnEventList.  Any thread that is *)
(* not blocked may run; Kernel has the priorities, and queues in detail.     *)
(***************************************************************************)
EXTENDS Integers, Sequences, FiniteSets, SequencesExt, Lists

CONSTANTS
    Sleeper,     \* threads
    TickMod,     \* 2^32: ticks until the count wraps
    Delays,      \* ticks to wait, less than portMAX_DELAY
    MaxPended,   \* bound: ticks while the scheduler is suspended
    NOBODY

ASSUME TicksAssumption ==
    /\ TickMod \in Nat \ {0} /\ MaxPended \in Nat /\ Delays \subseteq 1 .. TickMod - 2
    /\ NOBODY \notin Sleeper

VARIABLES
    xTickCount, xNextTaskUnblockTime,
    delayed, overflow,   \* pxDelayedTaskList, pxOverflowDelayedTaskList
    uxPendedTicks,
    asserted,            \* history: a configASSERT of the tick has failed
    suspender,           \* the thread that has suspended the scheduler, or NOBODY
    pending,             \* xPendingReadyList
    events,              \* the queue's event list
    full,                \* the queue has an item
    sentLocked,          \* xTxLock > 0: it was sent while the queue was locked
    tpc,                 \* where each thread is
    timeout,             \* TimeOut_t and xTicksToWait of each; over: the count has wrapped since
    asked, spent         \* history: ticks the call is to last, and ticks counted since it began

clock == <<xTickCount, xNextTaskUnblockTime, delayed, overflow, uxPendedTicks, asserted>>
queue == <<pending, events, full, sentLocked>>
tvars == <<clock, suspender, queue, tpc, timeout, asked, spent>>

MAX_DELAY == TickMod - 1

NoTimeOut == [entering |-> 0, over |-> FALSE, wait |-> 0]

TicksInit ==
    /\ xTickCount = 0 /\ xNextTaskUnblockTime = MAX_DELAY
    /\ delayed = << >> /\ overflow = << >> /\ uxPendedTicks = 0 /\ asserted = FALSE
    /\ suspender = NOBODY
    /\ pending = {} /\ events = << >> /\ full = FALSE /\ sentLocked = FALSE
    /\ tpc = [t \in Sleeper |-> "idle"]
    /\ timeout = [t \in Sleeper |-> NoTimeOut]
    /\ asked = [t \in Sleeper |-> 0] /\ spent = asked

\* A list of threads in the order of their wake times.
TasksOn(list) == {e.task : e \in ToSet(list)}
Dropped(list, W) == Kept(list, {i \in DOMAIN list : list[i].task \notin W})

Blocked(t) == t \in TasksOn(delayed \o overflow)

-----------------------------------------------------------------------------
(* xTaskIncrementTick. *)

\* prvResetNextTaskUnblockTime.
NextUnblock(list) == IF list = << >> THEN MAX_DELAY ELSE Head(list).wake

\* Fault: xNextTaskUnblockTime is left as it is.
SwitchLists_fault(c) ==
    [c EXCEPT !.delayed = c.overflow, !.overflow = c.delayed, !.asserted = @ \/ c.delayed # << >>]

\* taskSWITCH_DELAYED_LISTS.
SwitchLists(c) ==
    [c EXCEPT !.delayed = c.overflow, !.overflow = c.delayed, !.asserted = @ \/ c.delayed # << >>,
              !.next = NextUnblock(c.overflow)]

\* The loop over the head of the list: those whose time has come are woken.
WakeDue(c) ==
    LET due == {e.task : e \in {x \in ToSet(c.delayed) : x.wake <= c.tick}}
        rest == Dropped(c.delayed, due)
    IN  IF c.tick < c.next THEN c
        ELSE [c EXCEPT !.delayed = rest, !.next = NextUnblock(rest), !.woken = @ \cup due]

xTaskIncrementTick(c) ==
    LET d == [c EXCEPT !.tick = (@ + 1) % TickMod, !.ticks = @ + 1]
    IN  WakeDue(IF d.tick = 0 THEN [SwitchLists(d) EXCEPT !.over = TRUE] ELSE d)

\* xTaskIncrementTick k times, as xTaskResumeAll calls it for the ticks held back.
Ticked(c, k) ==
    LET counted[i \in 0 .. k] == IF i = 0 THEN c ELSE xTaskIncrementTick(counted[i - 1])
    IN  counted[k]

\* The state that xTaskIncrementTick works on, without the threads W.
Clock(W) ==
    [tick |-> xTickCount, next |-> xNextTaskUnblockTime, asserted |-> asserted,
     delayed |-> Dropped(delayed, W), overflow |-> Dropped(overflow, W),
     woken |-> {}, ticks |-> 0, over |-> FALSE]

\* In xQueueGenericReceive, before its timeout.
InWait(t) == tpc[t] \in {"lock", "check", "unlock", "resume", "try"}

SetClock(c) ==
    /\ xTickCount' = c.tick /\ xNextTaskUnblockTime' = c.next /\ asserted' = c.asserted
    /\ delayed' = c.delayed /\ overflow' = c.overflow
    /\ events' = Without(events, c.woken)
    /\ timeout' = [t \in Sleeper |-> [timeout[t] EXCEPT !.over = InWait(t) /\ (@ \/ c.over)]]
    /\ spent' = [t \in Sleeper |->
                    IF tpc[t] = "idle" THEN 0
                    ELSE IF InWait(t) \/ Blocked(t) THEN spent[t] + c.ticks ELSE spent[t]]

\* Bound: a thread that is ready runs before the count has come round to where its
\* call began; 497 days at 100 Hz.
AllInTime(n) == \A t \in Sleeper : InWait(t) => spent[t] + n < TickMod

\* xPortSysTickHandler.
TickInterrupt ==
    /\ AllInTime(uxPendedTicks + 1)
    /\ \/ /\ suspender = NOBODY
          /\ SetClock(xTaskIncrementTick(Clock({})))
          /\ UNCHANGED uxPendedTicks
       \/ /\ suspender # NOBODY /\ uxPendedTicks < MaxPended
          /\ uxPendedTicks' = uxPendedTicks + 1
          /\ UNCHANGED <<xTickCount, xNextTaskUnblockTime, delayed, overflow, asserted, events,
                         timeout, spent>>
    /\ UNCHANGED <<suspender, pending, full, sentLocked, tpc, asked>>

-----------------------------------------------------------------------------
(* The threads. *)

At(t, pc) == tpc[t] = pc /\ IF suspender = NOBODY THEN ~Blocked(t) ELSE suspender = t
GoTo(t, pc) == tpc' = [tpc EXCEPT ![t] = pc]

\* vTaskDelay, up to its vTaskSuspendAll.
StartDelay(t, n) ==
    /\ At(t, "idle")
    /\ suspender' = t
    /\ asked' = [asked EXCEPT ![t] = n] /\ spent' = [spent EXCEPT ![t] = 0]
    /\ GoTo(t, "add")
    /\ UNCHANGED <<clock, queue, timeout>>

\* prvAddCurrentTaskToDelayedList: vListInsert puts it behind those of the same time.
AddToDelayed(t, ticks) ==
    LET wake == (xTickCount + ticks) % TickMod
        Insert(list) ==
            InsertAt(list, Cardinality({i \in DOMAIN list : list[i].wake <= wake}) + 1,
                     [task |-> t, wake |-> wake])
    IN  /\ IF wake < xTickCount
           THEN /\ overflow' = Insert(overflow)
                /\ UNCHANGED <<delayed, xNextTaskUnblockTime>>
           ELSE /\ delayed' = Insert(delayed)
                /\ xNextTaskUnblockTime' = IF wake < xNextTaskUnblockTime THEN wake
                                           ELSE xNextTaskUnblockTime
                /\ UNCHANGED overflow
        /\ UNCHANGED <<xTickCount, uxPendedTicks, asserted>>

AddDelay(t) ==
    /\ At(t, "add")
    /\ AddToDelayed(t, asked[t])
    /\ GoTo(t, "delaying")
    /\ UNCHANGED <<suspender, queue, timeout, asked, spent>>

\* xTaskResumeAll: the threads that events have woken, then the ticks held back.
xTaskResumeAll(t, from, to) ==
    /\ At(t, from)
    /\ suspender' = NOBODY
    /\ SetClock(Ticked(Clock(pending), uxPendedTicks))
    /\ uxPendedTicks' = 0 /\ pending' = {}
    /\ GoTo(t, to)
    /\ UNCHANGED <<full, sentLocked, asked>>

\* The call returns.
Ended(t) ==
    /\ GoTo(t, "idle")
    /\ asked' = [asked EXCEPT ![t] = 0] /\ spent' = [spent EXCEPT ![t] = 0]
    /\ timeout' = [timeout EXCEPT ![t] = NoTimeOut]

\* vTaskDelay returns, or the receive with errQUEUE_EMPTY.
EndWait(t) ==
    /\ At(t, "delayed") \/ At(t, "expired")
    /\ Ended(t)
    /\ UNCHANGED <<clock, suspender, queue>>

\* vTaskSetTimeOutState.
Entering(wait) == [entering |-> xTickCount, over |-> FALSE, wait |-> wait]

\* xQueueGenericReceive finds the queue empty, in its first critical section.
StartWait(t, n) ==
    /\ At(t, "idle") /\ ~full
    /\ timeout' = [timeout EXCEPT ![t] = Entering(n)]
    /\ asked' = [asked EXCEPT ![t] = n] /\ spent' = [spent EXCEPT ![t] = 0]
    /\ GoTo(t, "lock")
    /\ UNCHANGED <<clock, suspender, queue>>

\* vTaskSuspendAll and prvLockQueue.
SuspendAndLock(t) ==
    /\ At(t, "lock")
    /\ suspender' = t
    /\ GoTo(t, "check")
    /\ UNCHANGED <<clock, queue, timeout, asked, spent>>

\* xTaskCheckForTimeOut, in the arithmetic of TickType_t.
Elapsed(t) == (xTickCount - timeout[t].entering) % TickMod
Remaining(t) == timeout[t].wait - Elapsed(t)
TimeIsUp(t) ==
    \/ timeout[t].over /\ xTickCount >= timeout[t].entering
    \/ Elapsed(t) >= timeout[t].wait

\* The check, and vTaskPlaceOnEventList if the queue is still empty; the threads have
\* one priority here.
CheckAndPlace(t) ==
    /\ At(t, "check")
    /\ IF TimeIsUp(t)
       THEN GoTo(t, "fail") /\ UNCHANGED <<clock, events, timeout>>
       ELSE /\ timeout' = [timeout EXCEPT ![t] = Entering(Remaining(t))]
            /\ GoTo(t, "unlock")
            /\ IF full THEN UNCHANGED <<clock, events>>
               ELSE /\ events' = Append(events, t)
                    /\ AddToDelayed(t, Remaining(t))
    /\ UNCHANGED <<suspender, pending, full, sentLocked, asked, spent>>

\* xTaskRemoveFromEventList: the head of the event list is woken, or kept pending while
\* the scheduler is suspended.
WakeFirst ==
    LET W == IF events = << >> THEN {} ELSE {Head(events)}
    IN  /\ events' = Without(events, W)
        /\ IF suspender = NOBODY
           THEN /\ delayed' = Dropped(delayed, W) /\ overflow' = Dropped(overflow, W)
                /\ UNCHANGED pending
           ELSE pending' = pending \cup W /\ UNCHANGED <<delayed, overflow>>
        /\ UNCHANGED <<xTickCount, xNextTaskUnblockTime, uxPendedTicks, asserted>>

\* prvUnlockQueue.
Unlock(t, from, to) ==
    /\ At(t, from)
    /\ sentLocked' = FALSE
    /\ IF sentLocked THEN WakeFirst ELSE UNCHANGED <<clock, events, pending>>
    /\ GoTo(t, to)
    /\ UNCHANGED <<suspender, full, timeout, asked, spent>>

\* The next turn of the loop: an item at last, or once more from the top.
Retry(t) ==
    /\ At(t, "try")
    /\ IF full
       THEN full' = FALSE /\ Ended(t)
       ELSE GoTo(t, "lock") /\ UNCHANGED <<full, asked, spent, timeout>>
    /\ UNCHANGED <<clock, suspender, pending, events, sentLocked>>

Locked == suspender # NOBODY /\ tpc[suspender] \in {"check", "unlock", "fail"}

\* An interrupt handler sends an item.
SendFromIsr ==
    /\ ~full /\ full' = TRUE
    /\ IF Locked THEN sentLocked' = TRUE /\ UNCHANGED <<clock, pending, events>>
                 ELSE WakeFirst /\ UNCHANGED sentLocked
    /\ UNCHANGED <<suspender, tpc, timeout, asked, spent>>

TicksNext ==
    \/ TickInterrupt \/ SendFromIsr
    \/ \E t \in Sleeper :
          \/ \E n \in Delays : StartDelay(t, n) \/ StartWait(t, n)
          \/ AddDelay(t) \/ xTaskResumeAll(t, "delaying", "delayed") \/ EndWait(t)
          \/ SuspendAndLock(t) \/ CheckAndPlace(t) \/ Retry(t)
          \/ Unlock(t, "unlock", "resume") \/ xTaskResumeAll(t, "resume", "try")
          \/ Unlock(t, "fail", "failed") \/ xTaskResumeAll(t, "failed", "expired")

TicksSpec == TicksInit /\ [][TicksNext]_tvars

-----------------------------------------------------------------------------

\* A thread sleeps for the ticks its call asked for, across a wrap of the count, ticks
\* held back and waits begun anew: while it is blocked its wake time is that many ticks
\* away and in the list that will be looked at then, and neither a delay nor a timeout
\* comes to an end before.
WakesOnTime ==
    /\ ~asserted
    /\ \A e \in ToSet(delayed \o overflow) :
          /\ spent[e.task] < asked[e.task]
          /\ e.wake = (xTickCount + asked[e.task] - spent[e.task]) % TickMod
    /\ \A t \in Sleeper :
          \/ tpc[t] = "delayed" /\ ~Blocked(t)
          \/ tpc[t] \in {"fail", "failed", "expired"}
          => spent[t] >= asked[t]
=============================================================================
