----------------------------- MODULE PpsCapture -----------------------------
(***************************************************************************)
(* The 64-bit monotonic clock of ppscapture.c.                             *)
(*                                                                         *)
(* TIM3 counts 0 .. MONO_PERIOD-1 in hardware and raises UIF each time it  *)
(* rolls over; the PPS edge latches the count in CCR and raises CCxIF.     *)
(* The handler extends the count to 64 bits in mono_epoch, converts a      *)
(* latched edge to mono_capture and wakes the one thread that sleeps on    *)
(* the clock.  Threads read the clock with interrupts masked and run the   *)
(* handler inline when they see the counter go backwards.                  *)
(*                                                                         *)
(* Reading the status register, clearing it, and the rest of the handler   *)
(* are steps of their own, and so are the two reads of the counter in      *)
(* monotonic_now: the counter moves between any two of them.               *)
(***************************************************************************)
EXTENDS Integers

CONSTANTS
    MONO_PERIOD,  \* counts per rollover (65536 in the code)
    IrqLatency,   \* counts within which a raised flag has been handled
    PpsGap,       \* counts between two PPS edges, at least (a second)
    MaxEpoch,     \* bound: the value of mono_epoch at which the counter stops
    SleepHorizon  \* bound: how far ahead of the clock a thread may sleep

ASSUME PeriodAssumption == MONO_PERIOD \in Nat \ {0}
\* The handler tells a capture before the rollover from one after it by the
\* half of the period it lies in: flags are handled within half a period.
ASSUME LatencyAssumption == IrqLatency \in Nat /\ 2 * IrqLatency < MONO_PERIOD
ASSUME GapAssumption == PpsGap \in Nat /\ PpsGap > IrqLatency
ASSUME BoundAssumption == MaxEpoch \in Nat /\ SleepHorizon \in Nat

VARIABLES
    base, cnt,            \* TIM3: true time at the last rollover, CNT
    uif, ccif, ccr,       \* TIM3: SR.UIF, SR.CC1IF/CC3IF, CCR1/CCR3
    mono_epoch, mono_capture, sleep_epoch, sleep_flag,
    isr, sr,              \* where TIM3_IRQHandler is, and its copy of SR
    now, tmr1, ret,       \* where monotonic_now is, and its locals
    sleeper,              \* the pll thread: awake, or in monotonic_sleep_until
    pulse,                \* history: true time of the latest PPS edge
    since,                \* history: true time of monotonic_now's last step
    stale,                \* history: UIF was pending when tmr1 was read
    result,               \* history: what monotonic_now returned last
    got,                  \* history: the latest capture handed to a caller
    target                \* history: the epoch the sleeper asked for

hw      == <<base, cnt, uif, ccif, ccr, pulse>>
clock   == <<mono_epoch, mono_capture, sleep_epoch, sleep_flag, got>>
handler == <<isr, sr>>
reader  == <<now, tmr1, ret, since, stale, result>>
sleep   == <<sleeper, target>>
vars    == <<hw, clock, handler, reader, sleep>>

TrueTime == base + cnt

\* A flag is outstanding from the edge to the end of the handler that took it.
RollPending == uif \/ (isr # "idle" /\ sr.uif)
EdgePending == ccif \/ (isr # "idle" /\ sr.cc)

\* The processor runs thread code outside every critical section.
Unmasked == isr = "idle" /\ now = "idle"

NoFlags == [uif |-> FALSE, cc |-> FALSE]

Init ==
    /\ base = MONO_PERIOD /\ cnt = 0
    /\ uif = FALSE /\ ccif = FALSE /\ ccr = 0
    /\ mono_epoch = MONO_PERIOD
    /\ mono_capture = 0 /\ sleep_epoch = 0 /\ sleep_flag = FALSE
    /\ isr = "idle" /\ sr = NoFlags
    /\ now = "idle" /\ tmr1 = 0 /\ ret = 0
    /\ sleeper = "awake"
    /\ pulse = 0 /\ since = 0 /\ stale = FALSE /\ result = 0 /\ got = 0
    /\ target = 0

-----------------------------------------------------------------------------
(* TIM3, the hardware timer. *)

ARR == MONO_PERIOD - 1

Slack == IF now = "tmr1" THEN 1 ELSE 0

\* One count.  Within IrqLatency counts software handles a raised flag, and
\* monotonic_now, with interrupts masked, gets to its next step; it reads
\* tmr1 early enough to see the counter move before it reads tmr2.
Tick ==
    /\ RollPending => cnt + Slack < IrqLatency
    /\ EdgePending => TrueTime - pulse + Slack < IrqLatency
    /\ now # "idle" => TrueTime - since < IrqLatency
    /\ \/ /\ cnt < ARR
          /\ cnt' = cnt + 1
          /\ UNCHANGED <<base, uif>>
       \/ /\ cnt = ARR
          /\ base < MaxEpoch
          /\ cnt' = 0
          /\ base' = base + MONO_PERIOD
          /\ uif' = TRUE
    /\ UNCHANGED <<ccif, ccr, pulse, clock, handler, reader, sleep>>

\* The PPS edge.
PpsEdge ==
    /\ TrueTime - pulse >= PpsGap
    /\ ccr' = cnt
    /\ ccif' = TRUE
    /\ pulse' = TrueTime
    /\ UNCHANGED <<base, cnt, uif, clock, handler, reader, sleep>>

-----------------------------------------------------------------------------
(* TIM3_IRQHandler, entered by the interrupt or inline by monotonic_now. *)

\* sr = TIM3->SR, on entry.
ReadSR ==
    /\ isr' = "clear"
    /\ sr' = [uif |-> uif, cc |-> ccif]

IrqEnter ==
    /\ Unmasked
    /\ uif \/ ccif
    /\ ReadSR
    /\ UNCHANGED <<hw, clock, reader, sleep>>

\* Fault: TIM3->SR = 0.
ClearedFault(flag, read) == FALSE

\* TIM3->SR = ~sr clears the flags that were read, not one raised since.
Cleared(flag, read) == flag /\ ~read

ClearSR ==
    /\ isr = "clear"
    /\ uif' = Cleared(uif, sr.uif)
    /\ ccif' = Cleared(ccif, sr.cc)
    /\ isr' = "body"
    /\ UNCHANGED <<base, cnt, ccr, pulse, sr, clock, reader, sleep>>

EpochAfter == IF sr.uif THEN mono_epoch + MONO_PERIOD ELSE mono_epoch

\* Fault: a capture is always counted from the present period.
CaptureOfFault(epoch) == epoch + ccr

\* A capture read together with a rollover lies before it when the count is
\* in the upper half of the period.
CaptureOf(epoch) ==
    IF sr.uif /\ ccr > MONO_PERIOD \div 2
    THEN epoch + ccr - MONO_PERIOD
    ELSE epoch + ccr

\* Fault: any rollover ends the sleep.
SleepDueEarly == sr.uif /\ sleep_epoch # 0

\* Fault: only the rollover of the very period asked for ends the sleep.
SleepDueEqual == sr.uif /\ sleep_epoch # 0 /\ EpochAfter = sleep_epoch

\* The rollover ends the sleep in progress.
SleepDue == sr.uif /\ sleep_epoch # 0 /\ EpochAfter >= sleep_epoch

HandlerBody ==
    /\ isr = "body"
    /\ mono_epoch' = EpochAfter
    /\ \/ /\ SleepDue
          /\ sleep_epoch' = 0
          /\ sleep_flag' = TRUE
       \/ /\ ~SleepDue
          /\ UNCHANGED <<sleep_epoch, sleep_flag>>
    /\ mono_capture' = IF sr.cc THEN CaptureOf(EpochAfter) ELSE mono_capture
    /\ isr' = "idle"
    /\ sr' = NoFlags
    /\ UNCHANGED <<hw, got, reader, sleep>>

-----------------------------------------------------------------------------
(* monotonic_now, by whichever thread holds the critical section. *)

\* A pending interrupt that is not masked preempts the thread first.
NowEnter ==
    /\ Unmasked /\ ~uif /\ ~ccif
    /\ base < MaxEpoch
    /\ now' = "tmr1"
    /\ since' = TrueTime
    /\ UNCHANGED <<hw, clock, handler, tmr1, ret, stale, result, sleep>>

\* tmr1 = CNT; ret = mono_epoch.
NowTmr1 ==
    /\ now = "tmr1" /\ isr = "idle"
    /\ tmr1' = cnt
    /\ ret' = mono_epoch
    /\ since' = TrueTime
    /\ stale' = uif
    /\ now' = "tmr2"
    /\ UNCHANGED <<hw, clock, handler, result, sleep>>

\* Fault: the second read is not compared with the first.
RolledOverFault == FALSE

\* The counter moves between the two reads: tmr2 = CNT differs from tmr1.
RolledOver == cnt <= tmr1

\* tmr2 is past tmr1: leave the critical section and return ret + tmr2.
NowReturn ==
    /\ now = "tmr2" /\ TrueTime > since
    /\ ~RolledOver
    /\ result' = ret + cnt
    /\ now' = "idle"
    /\ tmr1' = 0 /\ ret' = 0 /\ since' = 0 /\ stale' = FALSE
    /\ UNCHANGED <<hw, clock, handler, sleep>>

\* tmr2 is not past tmr1: call the handler and sample again.
NowRetry ==
    /\ now = "tmr2" /\ TrueTime > since
    /\ RolledOver
    /\ ReadSR
    /\ now' = "tmr1"
    /\ tmr1' = 0 /\ ret' = 0 /\ since' = TrueTime /\ stale' = FALSE
    /\ UNCHANGED <<hw, clock, result, sleep>>

-----------------------------------------------------------------------------
(* monotonic_get_capture and monotonic_sleep_until. *)

GetCapture ==
    /\ Unmasked
    /\ got' = IF mono_capture = 0 THEN got ELSE mono_capture
    /\ mono_capture' = 0
    /\ UNCHANGED <<hw, mono_epoch, sleep_epoch, sleep_flag, handler, reader, sleep>>

RoundDown(t) == t - (t % MONO_PERIOD)

\* The caller's target is at or after mono_last, an earlier reading of the
\* clock; a caller that was held up asks for a time that has passed.
SleepUntil(mono_when) ==
    /\ Unmasked
    /\ sleeper = "awake"
    /\ sleep_epoch' = RoundDown(mono_when)
    /\ target' = RoundDown(mono_when)
    /\ sleeper' = "asleep"
    /\ UNCHANGED <<hw, mono_epoch, mono_capture, sleep_flag, got, handler, reader>>

\* xSemaphoreTake(sleep_flag) succeeds.
SleepWake ==
    /\ Unmasked
    /\ sleeper = "asleep"
    /\ sleep_flag
    /\ sleep_flag' = FALSE
    /\ sleeper' = "awake"
    /\ target' = 0
    /\ UNCHANGED <<hw, mono_epoch, mono_capture, sleep_epoch, got, handler, reader>>

-----------------------------------------------------------------------------
Irq  == IrqEnter \/ ClearSR \/ HandlerBody
Now  == NowEnter \/ NowTmr1 \/ NowReturn \/ NowRetry
Sleep ==
    \/ \E mono_when \in MONO_PERIOD .. TrueTime + SleepHorizon :
           RoundDown(mono_when) < MaxEpoch /\ base < MaxEpoch /\ SleepUntil(mono_when)
    \/ SleepWake

Next == Tick \/ PpsEdge \/ Irq \/ Now \/ GetCapture \/ Sleep

\* The counter counts, a pending interrupt is taken once it is unmasked, a
\* thread that holds the processor executes its next instruction, and the
\* sleeper, the thread of highest priority, runs once it is ready.
Fairness ==
    /\ WF_vars(Tick)
    /\ SF_vars(IrqEnter) /\ WF_vars(ClearSR \/ HandlerBody)
    /\ WF_vars(NowTmr1 \/ NowReturn \/ NowRetry)
    /\ SF_vars(SleepWake)

Spec == Init /\ [][Next]_vars /\ Fairness

-----------------------------------------------------------------------------
(* What the clock promises. *)

TypeOK ==
    /\ base \in Nat /\ cnt \in 0 .. MONO_PERIOD - 1
    /\ uif \in BOOLEAN /\ ccif \in BOOLEAN /\ ccr \in 0 .. MONO_PERIOD - 1
    /\ mono_epoch \in Nat /\ mono_capture \in Nat
    /\ sleep_epoch \in Nat /\ sleep_flag \in BOOLEAN
    /\ isr \in {"idle", "clear", "body"} /\ sr \in [uif : BOOLEAN, cc : BOOLEAN]
    /\ now \in {"idle", "tmr1", "tmr2"}
    /\ tmr1 \in 0 .. MONO_PERIOD - 1 /\ ret \in Nat
    /\ sleeper \in {"awake", "asleep"}
    /\ pulse \in Nat /\ since \in Nat /\ stale \in BOOLEAN
    /\ result \in Nat /\ got \in Nat /\ target \in Nat

\* mono_epoch is the true time of the last rollover, or exactly one period
\* less while that rollover's UIF waits for TIM3_IRQHandler: no rollover is
\* lost or counted twice, whether the handler runs by interrupt or inline.
EpochTracksTime ==
    mono_epoch = IF RollPending THEN base - MONO_PERIOD ELSE base

\* Once TIM3_IRQHandler is through with an edge, mono_capture holds the true
\* time of that edge until monotonic_get_capture hands it out: the choice
\* between the two periods around a rollover is right and no edge is lost.
CaptureExact ==
    ~EdgePending => IF mono_capture # 0 THEN mono_capture = pulse ELSE got = pulse

\* monotonic_get_capture hands out an edge once: what waits in mono_capture
\* is later than every capture that was read before.
CaptureFresh == mono_capture # 0 => mono_capture > got

\* monotonic_now returns the true time, or one period less when UIF was
\* already pending as it read tmr1: a rollover between its two reads of the
\* counter is always noticed.
NowExactOrStale ==
    [][result' # result => result' = IF stale THEN TrueTime - MONO_PERIOD ELSE TrueTime]_vars

\* "Get value of monotonic clock" (ppscapture.c:88): a later monotonic_now
\* does not return an earlier time.
NowMonotonic == [][result' >= result]_vars

\* monotonic_sleep_until returns only when the period it was asked for has
\* begun: no wakeup is left over from an earlier sleep.
SleepNotEarly ==
    [][sleeper = "asleep" /\ sleeper' = "awake" => base >= target]_vars

\* Every monotonic_sleep_until returns, also when the target's period has
\* already begun as sleep_epoch is stored.
SleepWakes == sleeper = "asleep" ~> sleeper = "awake"

\* Every pulse reaches monotonic_get_capture with its true time, and once.
CaptureExactOnce == CaptureExact /\ CaptureFresh
=============================================================================
