-------------------------- MODULE PpsCaptureProofs --------------------------
(* Proofs about time.  For every period, latency and pulse spacing that      *)
(* satisfy the assumptions of PpsCapture: the safety properties of the       *)
(* monotonic clock.  For every number of years: the dates of Epoch.          *)
EXTENDS PpsCapture, Epoch, TLAPS

-----------------------------------------------------------------------------
(* The inductive invariant, one conjunct per thing the clock keeps apart.    *)

\* Where the handler is against the flags: what it read is still set until
\* it clears it, and nothing it took is raised again before it is done.
FlagsInv ==
    /\ isr = "idle" => sr = NoFlags
    /\ isr = "clear" => (sr.uif => uif) /\ (sr.cc => ccif)
    /\ isr = "body" => ~(sr.uif /\ uif) /\ ~(sr.cc /\ ccif)

\* The real-time assumption in force: outstanding flags are young.
AgeInv ==
    /\ base >= MONO_PERIOD
    /\ RollPending => cnt <= IrqLatency /\ base >= 2 * MONO_PERIOD
    /\ pulse <= TrueTime
    /\ EdgePending => TrueTime - pulse <= IrqLatency

\* Where an outstanding edge lies relative to the last rollover.
EdgeInv ==
    /\ EdgePending => ccr = IF pulse >= base THEN pulse - base
                                             ELSE pulse - base + MONO_PERIOD
    /\ EdgePending /\ ~RollPending => pulse >= base
    /\ isr # "idle" /\ sr.uif /\ ccif /\ ~sr.cc => pulse >= base
    /\ isr # "idle" /\ sr.cc /\ ~sr.uif /\ uif => pulse < base

CaptureInv ==
    /\ got <= pulse /\ mono_capture <= pulse
    /\ EdgePending => got < pulse /\ mono_capture < pulse

\* monotonic_now between its two reads: nothing rolled over, or UIF is set
\* and was not when tmr1 was read.
ReaderInv ==
    now = "tmr2" =>
        /\ isr = "idle"
        /\ ret = mono_epoch
        /\ TrueTime - since <= IrqLatency
        /\ \/ since = base + tmr1 /\ stale = uif
           \/ since = base + tmr1 - MONO_PERIOD /\ uif /\ ~stale

SleepInv ==
    /\ sleeper = "awake" => ~sleep_flag /\ sleep_epoch = 0
    /\ sleep_flag => base >= target /\ sleep_epoch = 0
    /\ sleep_epoch # 0 => sleep_epoch = target

IInv ==
    /\ TypeOK /\ FlagsInv /\ AgeInv /\ EpochTracksTime
    /\ EdgeInv /\ CaptureExact /\ CaptureFresh /\ CaptureInv
    /\ ReaderInv /\ SleepInv

-----------------------------------------------------------------------------
(* Rounding a target down to its period does not leave the naturals. *)
LEMMA RoundDownNat ==
    ASSUME NEW t \in Nat
    PROVE  RoundDown(t) \in Nat
  BY PeriodAssumption DEF RoundDown

(* The state ppscapture_start leaves satisfies the invariant. *)
LEMMA InitIInv == Init => IInv
<1> SUFFICES ASSUME Init PROVE IInv
  OBVIOUS
<1> USE DEF Init
<1>1. TypeOK
  <2>1. 0 \in 0 .. MONO_PERIOD - 1 /\ MONO_PERIOD \in Nat
    BY PeriodAssumption
  <2>2. sr \in [uif : BOOLEAN, cc : BOOLEAN]
    BY DEF NoFlags
  <2> QED
    BY <2>1, <2>2 DEF TypeOK
<1>2. ~RollPending /\ ~EdgePending
  BY DEF RollPending, EdgePending
<1>3. FlagsInv /\ AgeInv
  BY <1>2, PeriodAssumption DEF FlagsInv, AgeInv, TrueTime, NoFlags
<1>4. EpochTracksTime /\ EdgeInv
  BY <1>2 DEF EpochTracksTime, EdgeInv
<1>5. CaptureExact /\ CaptureFresh /\ CaptureInv
  BY <1>2 DEF CaptureExact, CaptureFresh, CaptureInv
<1>6. ReaderInv /\ SleepInv
  BY DEF ReaderInv, SleepInv
<1> QED
  BY <1>1, <1>3, <1>4, <1>5, <1>6 DEF IInv

-----------------------------------------------------------------------------
(* One lemma per action: it preserves the invariant. *)

(* A count: a rollover raises UIF, and latency keeps a second one away. *)
LEMMA TickIInv ==
    ASSUME IInv, Tick
    PROVE  IInv'
<1> USE DEF IInv, Tick, ARR, hw, clock, handler, reader, sleep
<1>1. TypeOK'
  <2>1. base' \in Nat /\ cnt' \in 0 .. MONO_PERIOD - 1
    BY PeriodAssumption DEF TypeOK
  <2>2. uif' \in BOOLEAN
    BY DEF TypeOK
  <2> QED
    BY <2>1, <2>2 DEF TypeOK
<1>2. FlagsInv'
  BY PeriodAssumption, LatencyAssumption DEF FlagsInv, RollPending, Slack
<1>3. AgeInv'
  BY PeriodAssumption, LatencyAssumption DEF TypeOK, AgeInv, RollPending,
      EdgePending, TrueTime, Slack
<1>4. EpochTracksTime'
  BY PeriodAssumption, LatencyAssumption DEF EpochTracksTime, RollPending, Slack
<1>5. EdgeInv'
  BY PeriodAssumption, LatencyAssumption DEF TypeOK, EdgeInv, RollPending,
      EdgePending, Slack
<1>6. ReaderInv'
  BY PeriodAssumption, LatencyAssumption DEF TypeOK, AgeInv, ReaderInv,
      RollPending, TrueTime
<1>7. SleepInv'
  BY PeriodAssumption DEF TypeOK, SleepInv
<1>8. CaptureExact' /\ CaptureFresh' /\ CaptureInv'
  BY DEF CaptureExact, EdgePending, CaptureFresh, CaptureInv
<1> QED
  BY <1>1, <1>2, <1>3, <1>4, <1>5, <1>6, <1>7, <1>8

(* The PPS edge: PpsGap keeps it away from an edge not yet handled. *)
LEMMA PpsEdgeIInv ==
    ASSUME IInv, PpsEdge
    PROVE  IInv'
<1> USE DEF IInv, PpsEdge, hw, clock, handler, reader, sleep
<1>1. TypeOK'
  BY DEF TypeOK, TrueTime
<1>2. FlagsInv'
  BY LatencyAssumption, GapAssumption DEF TypeOK, FlagsInv, AgeInv, EdgePending,
      TrueTime
<1>3. AgeInv'
  BY LatencyAssumption DEF AgeInv, RollPending, TrueTime
<1>4. EdgeInv'
  BY LatencyAssumption, GapAssumption DEF TypeOK, AgeInv, EdgeInv, EdgePending,
      TrueTime
<1>5. CaptureInv'
  BY LatencyAssumption, GapAssumption DEF TypeOK, CaptureInv, TrueTime
<1>6. EpochTracksTime' /\ CaptureExact' /\ CaptureFresh' /\ ReaderInv' /\ SleepInv'
  BY DEF EpochTracksTime, RollPending, CaptureExact, EdgePending, CaptureFresh,
      ReaderInv, TrueTime, SleepInv
<1> QED
  BY <1>1, <1>2, <1>3, <1>4, <1>5, <1>6

(* Entering TIM3_IRQHandler reads SR and changes nothing else. *)
LEMMA IrqEnterIInv ==
    ASSUME IInv, IrqEnter
    PROVE  IInv'
<1> USE DEF IInv, IrqEnter, ReadSR, Unmasked, hw, clock, handler, reader, sleep
<1>1. FlagsInv'
  BY DEF FlagsInv
<1>2. AgeInv'
  BY DEF AgeInv, RollPending, EdgePending, TrueTime
<1>3. EpochTracksTime'
  BY DEF EpochTracksTime, RollPending
<1>4. EdgeInv'
  BY DEF EdgeInv, RollPending, EdgePending
<1>5. TypeOK' /\ CaptureExact' /\ CaptureFresh' /\ CaptureInv' /\ ReaderInv' /\ SleepInv'
  BY DEF TypeOK, CaptureExact, EdgePending, CaptureFresh, CaptureInv, ReaderInv,
      SleepInv
<1> QED
  BY <1>1, <1>2, <1>3, <1>4, <1>5

(* Clearing SR drops only flags the handler has read. *)
LEMMA ClearSRIInv ==
    ASSUME IInv, ClearSR
    PROVE  IInv'
<1> USE DEF IInv, ClearSR, Cleared, hw, clock, handler, reader, sleep
<1>1. FlagsInv'
  BY DEF FlagsInv
<1>2. AgeInv'
  BY DEF AgeInv, RollPending, EdgePending, TrueTime
<1>3. EpochTracksTime'
  BY DEF EpochTracksTime, RollPending
<1>4. EdgeInv'
  BY DEF EdgeInv, RollPending, EdgePending
<1>5. TypeOK' /\ CaptureExact' /\ CaptureFresh' /\ CaptureInv' /\ ReaderInv' /\ SleepInv'
  BY DEF TypeOK, CaptureExact, EdgePending, CaptureFresh, CaptureInv, ReaderInv,
      SleepInv
<1> QED
  BY <1>1, <1>2, <1>3, <1>4, <1>5

(* The body counts the rollover, dates the edge and ends a due sleep. *)
LEMMA HandlerBodyIInv ==
    ASSUME IInv, HandlerBody
    PROVE  IInv'
<1> USE DEF IInv, HandlerBody, SleepDue, EpochAfter, CaptureOf, hw, clock, handler, reader, sleep
<1>1. TypeOK'
  <2>1. mono_epoch' \in Nat /\ mono_epoch' >= MONO_PERIOD
    BY PeriodAssumption DEF TypeOK, AgeInv, EpochTracksTime, RollPending
  <2>2. mono_capture' \in Nat
    BY <2>1, PeriodAssumption DEF TypeOK
  <2>3. sr' \in [uif : BOOLEAN, cc : BOOLEAN]
    BY DEF NoFlags
  <2>4. sleep_epoch' \in Nat
    BY DEF TypeOK
  <2>5. sleep_flag' \in BOOLEAN
    BY DEF TypeOK
  <2> QED
    BY <2>1, <2>2, <2>3, <2>4, <2>5 DEF TypeOK
<1>2. FlagsInv'
  BY DEF FlagsInv
<1>3. EpochTracksTime'
  BY PeriodAssumption DEF TypeOK, FlagsInv, EpochTracksTime, RollPending
<1>4. EdgeInv'
  BY DEF FlagsInv, EdgeInv, RollPending, EdgePending
<1>5. CaptureExact'
  BY PeriodAssumption, LatencyAssumption DEF TypeOK, AgeInv, EpochTracksTime,
      EdgeInv, CaptureExact, RollPending, EdgePending, TrueTime
<1>6. CaptureFresh'
  BY PeriodAssumption, LatencyAssumption DEF TypeOK, AgeInv, EpochTracksTime,
      EdgeInv, CaptureFresh, CaptureInv, RollPending, EdgePending, TrueTime
<1>7. CaptureInv'
  BY PeriodAssumption, LatencyAssumption DEF TypeOK, FlagsInv, AgeInv,
      EpochTracksTime, EdgeInv, CaptureInv, RollPending, EdgePending, TrueTime
<1>8. SleepInv'
  BY PeriodAssumption DEF TypeOK, EpochTracksTime, SleepInv, RollPending
<1>9. AgeInv' /\ ReaderInv'
  BY DEF AgeInv, RollPending, EdgePending, TrueTime, ReaderInv
<1> QED
  BY <1>1, <1>2, <1>3, <1>4, <1>5, <1>6, <1>7, <1>8, <1>9

(* monotonic_now enters its critical section. *)
LEMMA NowEnterIInv ==
    ASSUME IInv, NowEnter
    PROVE  IInv'
<1> USE DEF IInv, NowEnter, Unmasked, hw, clock, handler, reader, sleep
<1>1. TypeOK'
  BY DEF TypeOK, TrueTime
<1>2. FlagsInv' /\ AgeInv' /\ EpochTracksTime' /\ EdgeInv' /\ CaptureExact' /\ CaptureFresh' /\ CaptureInv' /\ ReaderInv' /\ SleepInv'
  BY DEF FlagsInv, AgeInv, RollPending, EdgePending, TrueTime, EpochTracksTime,
      EdgeInv, CaptureExact, CaptureFresh, CaptureInv, ReaderInv, SleepInv
<1> QED
  BY <1>1, <1>2

(* monotonic_now reads tmr1 and the epoch. *)
LEMMA NowTmr1IInv ==
    ASSUME IInv, NowTmr1
    PROVE  IInv'
<1> USE DEF IInv, NowTmr1, hw, clock, handler, reader, sleep
<1>1. TypeOK'
  BY DEF TypeOK, TrueTime
<1>2. ReaderInv'
  BY LatencyAssumption DEF ReaderInv, TrueTime
<1>3. FlagsInv' /\ AgeInv' /\ EpochTracksTime' /\ EdgeInv' /\ CaptureExact' /\ CaptureFresh' /\ CaptureInv' /\ SleepInv'
  BY DEF FlagsInv, AgeInv, RollPending, EdgePending, TrueTime, EpochTracksTime,
      EdgeInv, CaptureExact, CaptureFresh, CaptureInv, SleepInv
<1> QED
  BY <1>1, <1>2, <1>3

(* monotonic_now returns. *)
LEMMA NowReturnIInv ==
    ASSUME IInv, NowReturn
    PROVE  IInv'
<1> USE DEF IInv, NowReturn, RolledOver, hw, clock, handler, reader, sleep
<1>1. TypeOK'
  <2>1. 0 \in 0 .. MONO_PERIOD - 1 /\ ret + cnt \in Nat
    BY PeriodAssumption DEF TypeOK
  <2> QED
    BY <2>1 DEF TypeOK
<1>2. ReaderInv'
  BY DEF ReaderInv
<1>3. FlagsInv' /\ AgeInv' /\ EpochTracksTime' /\ EdgeInv' /\ CaptureExact' /\ CaptureFresh' /\ CaptureInv' /\ SleepInv'
  BY DEF FlagsInv, AgeInv, RollPending, EdgePending, TrueTime, EpochTracksTime,
      EdgeInv, CaptureExact, CaptureFresh, CaptureInv, SleepInv
<1> QED
  BY <1>1, <1>2, <1>3

(* monotonic_now calls TIM3_IRQHandler inline and samples again. *)
LEMMA NowRetryIInv ==
    ASSUME IInv, NowRetry
    PROVE  IInv'
<1> USE DEF IInv, NowRetry, RolledOver, ReadSR, hw, clock, handler, reader, sleep
<1>1. TypeOK'
  <2>1. 0 \in 0 .. MONO_PERIOD - 1 /\ base + cnt \in Nat
    BY PeriodAssumption DEF TypeOK
  <2>2. sr' \in [uif : BOOLEAN, cc : BOOLEAN]
    BY DEF TypeOK
  <2> QED
    BY <2>1, <2>2 DEF TypeOK, TrueTime
<1>2. FlagsInv'
  BY DEF FlagsInv
<1>3. AgeInv'
  BY DEF AgeInv, RollPending, EdgePending, TrueTime
<1>4. EpochTracksTime'
  BY DEF EpochTracksTime, ReaderInv, RollPending
<1>5. EdgeInv'
  BY DEF TypeOK, FlagsInv, EdgeInv, RollPending, EdgePending
<1>6. CaptureExact'
  BY DEF CaptureExact, ReaderInv, EdgePending
<1>7. ReaderInv'
  BY DEF ReaderInv
<1>8. CaptureFresh' /\ CaptureInv' /\ SleepInv'
  BY DEF CaptureFresh, CaptureInv, EdgePending, SleepInv
<1> QED
  BY <1>1, <1>2, <1>3, <1>4, <1>5, <1>6, <1>7, <1>8

(* monotonic_get_capture hands the capture out and clears it. *)
LEMMA GetCaptureIInv ==
    ASSUME IInv, GetCapture
    PROVE  IInv'
<1> USE DEF IInv, GetCapture, Unmasked, hw, clock, handler, reader, sleep
<1>1. TypeOK'
  BY DEF TypeOK
<1>2. CaptureExact'
  BY DEF CaptureExact, EdgePending
<1>3. CaptureFresh'
  BY DEF CaptureFresh
<1>4. CaptureInv'
  BY DEF TypeOK, CaptureInv, EdgePending
<1>5. FlagsInv' /\ AgeInv' /\ EpochTracksTime' /\ EdgeInv' /\ ReaderInv' /\ SleepInv'
  BY DEF FlagsInv, AgeInv, RollPending, EdgePending, TrueTime, EpochTracksTime,
      EdgeInv, ReaderInv, SleepInv
<1> QED
  BY <1>1, <1>2, <1>3, <1>4, <1>5

(* monotonic_sleep_until stores the epoch it waits for. *)
LEMMA SleepUntilIInv ==
    ASSUME IInv, NEW mono_when \in Nat, SleepUntil(mono_when)
    PROVE  IInv'
<1> USE DEF IInv, SleepUntil, Unmasked, hw, clock, handler, reader, sleep
<1>1. TypeOK'
  BY RoundDownNat DEF TypeOK
<1>2. SleepInv'
  BY DEF SleepInv
<1>3. FlagsInv' /\ AgeInv' /\ EpochTracksTime' /\ EdgeInv'
  BY DEF FlagsInv, AgeInv, EpochTracksTime, EdgeInv, RollPending, EdgePending,
      TrueTime
<1>4. CaptureExact' /\ CaptureFresh' /\ CaptureInv' /\ ReaderInv'
  BY DEF CaptureExact, CaptureFresh, CaptureInv, ReaderInv, EdgePending
<1> QED
  BY <1>1, <1>2, <1>3, <1>4

(* The sleeper takes sleep_flag and returns. *)
LEMMA SleepWakeIInv ==
    ASSUME IInv, SleepWake
    PROVE  IInv'
<1> USE DEF IInv, SleepWake, Unmasked, hw, clock, handler, reader, sleep
<1>1. TypeOK'
  BY DEF TypeOK
<1>2. SleepInv'
  <2>1. sleep_epoch = 0
    BY DEF SleepInv
  <2> QED
    BY <2>1 DEF SleepInv
<1>3. FlagsInv' /\ AgeInv' /\ EpochTracksTime' /\ EdgeInv'
  BY DEF FlagsInv, AgeInv, EpochTracksTime, EdgeInv, RollPending, EdgePending,
      TrueTime
<1>4. CaptureExact' /\ CaptureFresh' /\ CaptureInv' /\ ReaderInv'
  BY DEF CaptureExact, CaptureFresh, CaptureInv, ReaderInv, EdgePending
<1> QED
  BY <1>1, <1>2, <1>3, <1>4

(* A step that leaves every variable alone. *)
LEMMA StutterIInv ==
    ASSUME IInv, UNCHANGED vars
    PROVE  IInv'
<1> USE DEF IInv, vars, hw, clock, handler, reader, sleep
<1>1. TypeOK' /\ FlagsInv' /\ AgeInv' /\ EpochTracksTime' /\ EdgeInv'
  BY DEF TypeOK, FlagsInv, AgeInv, EpochTracksTime, EdgeInv, RollPending,
      EdgePending, TrueTime
<1>2. CaptureExact' /\ CaptureFresh' /\ CaptureInv' /\ ReaderInv' /\ SleepInv'
  BY DEF CaptureExact, CaptureFresh, CaptureInv, ReaderInv, SleepInv, EdgePending,
      TrueTime
<1> QED
  BY <1>1, <1>2

-----------------------------------------------------------------------------
(* Every step of the clock preserves the invariant. *)
LEMMA NextIInv == IInv /\ [Next]_vars => IInv'
<1> SUFFICES ASSUME IInv, [Next]_vars PROVE IInv'
  OBVIOUS
<1>1. CASE Tick
  BY <1>1, TickIInv
<1>2. CASE PpsEdge
  BY <1>2, PpsEdgeIInv
<1>3. CASE Irq
  BY <1>3, IrqEnterIInv, ClearSRIInv, HandlerBodyIInv DEF Irq
<1>4. CASE Now
  BY <1>4, NowEnterIInv, NowTmr1IInv, NowReturnIInv, NowRetryIInv DEF Now
<1>5. CASE GetCapture
  BY <1>5, GetCaptureIInv
<1>6. CASE Sleep
  <2>1. CASE SleepWake
    BY <2>1, SleepWakeIInv
  <2>2. ASSUME NEW mono_when \in MONO_PERIOD .. TrueTime + SleepHorizon,
               SleepUntil(mono_when)
        PROVE  IInv'
    <3>1. mono_when \in Nat
      BY PeriodAssumption, BoundAssumption DEF IInv, TypeOK, TrueTime
    <3> QED
      BY <3>1, <2>2, SleepUntilIInv
  <2> QED
    BY <1>6, <2>1, <2>2 DEF Sleep
<1>7. CASE UNCHANGED vars
  BY <1>7, StutterIInv
<1> QED
  BY <1>1, <1>2, <1>3, <1>4, <1>5, <1>6, <1>7 DEF Next

(* The invariant holds in every state of every behaviour. *)
THEOREM Invariance == Spec => []IInv
<1>1. Init => IInv
  BY InitIInv
<1>2. IInv /\ [Next]_vars => IInv'
  BY NextIInv
<1> QED
  BY <1>1, <1>2, PTL DEF Spec

(* Every variable of the clock keeps its type: in particular no subtraction *)
(* in TIM3_IRQHandler or in monotonic_sleep_until goes below zero.          *)
THEOREM TypeCorrect == Spec => []TypeOK
<1>1. IInv => TypeOK
  BY DEF IInv
<1> QED
  BY <1>1, Invariance, PTL

(* mono_epoch counts every rollover of TIM3 exactly once, whether its UIF is *)
(* handled by the interrupt or inline by monotonic_now.                      *)
THEOREM EpochCorrect == Spec => []EpochTracksTime
<1>1. IInv => EpochTracksTime
  BY DEF IInv
<1> QED
  BY <1>1, Invariance, PTL

(* TIM3_IRQHandler dates every PPS edge exactly, on either side of a         *)
(* rollover, provided flags are handled within half a period.                *)
THEOREM CaptureCorrect == Spec => []CaptureExact
<1>1. IInv => CaptureExact
  BY DEF IInv
<1> QED
  BY <1>1, Invariance, PTL

(* monotonic_get_capture hands out no edge twice. *)
THEOREM CaptureOnce == Spec => []CaptureFresh
<1>1. IInv => CaptureFresh
  BY DEF IInv
<1> QED
  BY <1>1, Invariance, PTL

(* Both at once: each pulse reaches monotonic_get_capture with its true time *)
(* and a single time, for every latency below half a period.                  *)
THEOREM CaptureRight == Spec => []CaptureExactOnce
<1>1. CaptureExact /\ CaptureFresh => CaptureExactOnce
  BY DEF CaptureExactOnce
<1> QED
  BY <1>1, CaptureCorrect, CaptureOnce, PTL

(* monotonic_now notices every rollover that happens between its two reads  *)
(* of the counter: what it returns is exact, or exactly one period early    *)
(* when the rollover was pending before the first.                          *)
THEOREM NowCorrect == Spec => NowExactOrStale
<1> DEFINE Returned ==
      result' # result => result' = IF stale THEN TrueTime - MONO_PERIOD ELSE TrueTime
<1>1. IInv /\ [Next]_vars => [Returned]_vars
  <2> SUFFICES ASSUME IInv, Next, result' # result
               PROVE  result' = IF stale THEN TrueTime - MONO_PERIOD ELSE TrueTime
    OBVIOUS
  <2>1. NowReturn
    BY DEF Next, Irq, Now, Sleep, Tick, PpsEdge, IrqEnter, ClearSR, HandlerBody,
        NowEnter, NowTmr1, NowRetry, GetCapture, SleepUntil, SleepWake, reader
  <2>2. ret = IF uif THEN base - MONO_PERIOD ELSE base
    BY <2>1 DEF NowReturn, RolledOver, IInv, ReaderInv, EpochTracksTime, RollPending
  <2>3. since = base + tmr1 /\ stale = uif
    BY <2>1, LatencyAssumption, PeriodAssumption
    DEF NowReturn, RolledOver, IInv, TypeOK, ReaderInv, TrueTime
  <2>4. result' = ret + cnt
    BY <2>1 DEF NowReturn
  <2> QED
    BY <2>2, <2>3, <2>4, PeriodAssumption DEF IInv, TypeOK, TrueTime
<1> QED
  BY <1>1, Invariance, PTL DEF Spec, NowExactOrStale

(* monotonic_sleep_until never returns before its period: sleep_flag holds  *)
(* no wakeup from an earlier sleep.                                          *)
THEOREM SleepCorrect == Spec => SleepNotEarly
<1> DEFINE Woken == sleeper = "asleep" /\ sleeper' = "awake" => base >= target
<1>1. IInv /\ [Next]_vars => [Woken]_vars
  <2> SUFFICES ASSUME IInv, Next, sleeper = "asleep", sleeper' = "awake"
               PROVE  base >= target
    OBVIOUS
  <2>1. SleepWake
    BY DEF Next, Irq, Now, Sleep, Tick, PpsEdge, IrqEnter, ClearSR, HandlerBody,
        NowEnter, NowTmr1, NowReturn, NowRetry, GetCapture, SleepUntil, sleep
  <2> QED
    BY <2>1 DEF SleepWake, IInv, SleepInv
<1> QED
  BY <1>1, Invariance, PTL DEF Spec, SleepNotEarly

-----------------------------------------------------------------------------
(* The calendar. *)

\* The day as epoch.c counts it, from the date.
Ordinal(y, m, d) == days_before_year(y) + days_before_month(y, m) + d

\* The date is one of the calendar, and the days counted are those that epoch.c finds.
EpochInv ==
    /\ today = [y |-> today.y, m |-> today.m, d |-> today.d]
    /\ today.y \in 1900 .. LastYear /\ today.m \in 1 .. 12
    /\ today.d \in 1 .. days_in_month(today.y, today.m)
    /\ elapsed = Ordinal(today.y, today.m, today.d) - NTP_EPOCH_ORDINAL

(* The leap years of the calendar are those of is_leap. *)
LEMMA LeapYearsRight ==
    ASSUME NEW y \in 1900 .. LastYear PROVE (y \in LeapYears) <=> is_leap(y)
<1>1. LastYear \in Nat /\ y \in Nat /\ y >= 1900 /\ y <= LastYear
  BY EpochAssumption
<1> DEFINE C == {z \in {1900 + 100 * c : c \in 0 .. LastYear} : z % 400 # 0}
<1>2. y \in LeapYears <=> y % 4 = 0 /\ y \notin C
  BY DEF LeapYears
<1>3. y \in C <=> y % 100 = 0 /\ y % 400 # 0
  <2>1. ASSUME y % 100 = 0 PROVE \E c \in 0 .. LastYear : y = 1900 + 100 * c
    <3> DEFINE c == (y \div 100) - 19
    <3>1. y = 100 * (y \div 100) /\ y \div 100 \in Int
      BY <1>1, <2>1
    <3>2. c \in 0 .. LastYear /\ y = 1900 + 100 * c
      BY <1>1, <3>1
    <3> QED
      BY <3>2
  <2>2. ASSUME NEW c \in 0 .. LastYear, y = 1900 + 100 * c PROVE y % 100 = 0
    BY <1>1, <2>2
  <2> QED
    BY <2>1, <2>2
<1>4. y % 400 = 0 => y % 100 = 0
  BY <1>1
<1> HIDE DEF C
<1> QED
  BY <1>2, <1>3, <1>4 DEF is_leap

(* A number is a multiple when its predecessor is the last of a group. *)
LEMMA NextGroup ==
    ASSUME NEW y \in Nat \ {0}
    PROVE  /\ y \div 4 = ((y - 1) \div 4) + (IF y % 4 = 0 THEN 1 ELSE 0)
           /\ y \div 100 = ((y - 1) \div 100) + (IF y % 100 = 0 THEN 1 ELSE 0)
           /\ y \div 400 = ((y - 1) \div 400) + (IF y % 400 = 0 THEN 1 ELSE 0)
  OBVIOUS

(* A year has 365 days, or 366. *)
LEMMA YearLength ==
    ASSUME NEW y \in Nat \ {0}
    PROVE  /\ days_before_year(y) \in Int
           /\ days_before_year(y + 1) = days_before_year(y) + (IF is_leap(y) THEN 366 ELSE 365)
<1> DEFINE a == (y - 1) \div 4
           b == (y - 1) \div 100
           c == (y - 1) \div 400
<1>1. a \in Int /\ b \in Int /\ c \in Int
  OBVIOUS
<1>2. days_before_year(y) = (y - 1) * 365 + a - b + c
  BY DEF days_before_year
<1>3. (y + 1) - 1 = y
  OBVIOUS
<1>4. days_before_year(y + 1) = y * 365 + y \div 4 - y \div 100 + y \div 400
  BY <1>3 DEF days_before_year
<1>5. /\ y \div 4 = a + (IF y % 4 = 0 THEN 1 ELSE 0)
      /\ y \div 100 = b + (IF y % 100 = 0 THEN 1 ELSE 0)
      /\ y \div 400 = c + (IF y % 400 = 0 THEN 1 ELSE 0)
  BY NextGroup
<1>6. (y % 400 = 0 => y % 100 = 0) /\ (y % 100 = 0 => y % 4 = 0)
  OBVIOUS
<1> HIDE DEF a, b, c
<1> QED
  BY <1>1, <1>2, <1>4, <1>5, <1>6 DEF is_leap

(* The months follow each other without a gap. *)
LEMMA MonthsFollow ==
    ASSUME NEW y \in Nat, NEW m \in 1 .. 12
    PROVE  /\ days_in_month(y, m) \in 28 .. 31 /\ days_before_month(y, m) \in 0 .. 335
           /\ days_before_month(y, 1) = 0
           /\ m < 12 => days_before_month(y, m + 1) = days_before_month(y, m) + days_in_month(y, m)
           /\ m = 12 => days_before_month(y, m) + days_in_month(y, m) = IF is_leap(y) THEN 366 ELSE 365
<1> USE DEF days_in_month, days_before_month, _days_in_month, _days_before_month
<1>1. days_before_month(y, 1) = 0
  OBVIOUS
<1>2. m \in {1, 2, 3, 4, 5, 6, 7, 8, 9, 10, 11, 12}
  OBVIOUS
<1>3. CASE m \in {1, 2, 3, 4}
  BY <1>3
<1>4. CASE m \in {5, 6, 7, 8}
  BY <1>4
<1>5. CASE m \in {9, 10, 11, 12}
  BY <1>5
<1> QED
  BY <1>1, <1>2, <1>3, <1>4, <1>5

(* The calendar's months are those of days_in_month. *)
LEMMA MonthLengthRight ==
    ASSUME NEW y \in 1900 .. LastYear, NEW m \in 1 .. 12
    PROVE  MonthLength(y, m) = days_in_month(y, m)
<1>1. (y \in LeapYears) <=> is_leap(y)
  BY LeapYearsRight
<1>2. m \in {1, 2, 3, 4, 5, 6, 7, 8, 9, 10, 11, 12}
  OBVIOUS
<1> QED
  BY <1>1, <1>2 DEF MonthLength, LongMonth, days_in_month, _days_in_month

(* The calendar starts on the day that epoch.c numbers 0. *)
LEMMA EpochStarts ==
    EpochInit => EpochInv
<1> SUFFICES ASSUME EpochInit PROVE EpochInv
  OBVIOUS
<1>1. today = [y |-> 1900, m |-> 1, d |-> 1] /\ elapsed = 0
  BY DEF EpochInit
<1>2. days_before_year(1900) = 693595
  BY SMT DEF days_before_year
<1>3. days_before_month(1900, 1) = 0 /\ days_in_month(1900, 1) = 31
  BY DEF days_before_month, days_in_month, _days_before_month, _days_in_month
<1> QED
  BY <1>1, <1>2, <1>3, EpochAssumption, SMT DEF EpochInv, Ordinal, NTP_EPOCH_ORDINAL

(* The next day has the next number. *)
LEMMA NextDayRight ==
    ASSUME EpochInv, NextDay PROVE EpochInv'
<1>1. PICK y, m, d :
        /\ y \in 1900 .. LastYear /\ m \in 1 .. 12 /\ d \in 1 .. days_in_month(y, m)
        /\ today = [y |-> y, m |-> m, d |-> d] /\ elapsed = Ordinal(y, m, d) - NTP_EPOCH_ORDINAL
  BY DEF EpochInv
<1>2. y \in Nat \ {0} /\ LastYear \in Nat
  BY <1>1, EpochAssumption
<1>3. days_before_year(y) \in Int
  BY <1>2, YearLength
<1>4. /\ days_in_month(y, m) \in 28 .. 31 /\ days_before_month(y, m) \in 0 .. 335
      /\ m < 12 => days_before_month(y, m + 1) = days_before_month(y, m) + days_in_month(y, m)
  <2>1. y \in Nat /\ m \in 1 .. 12
    BY <1>1, <1>2
  <2>2. days_in_month(y, m) \in 28 .. 31 /\ days_before_month(y, m) \in 0 .. 335
    BY <2>1, MonthsFollow, SMTT(30)
  <2>3. ASSUME m < 12
        PROVE  days_before_month(y, m + 1) = days_before_month(y, m) + days_in_month(y, m)
    BY <2>1, <2>3, MonthsFollow
  <2> QED
    BY <2>2, <2>3
<1>5. MonthLength(y, m) = days_in_month(y, m)
  BY <1>1, MonthLengthRight
<1>6. d \in Int
  BY <1>1, <1>4
<1>7. CASE d < days_in_month(y, m)
  <2>1. today' = [y |-> y, m |-> m, d |-> d + 1]
    BY <1>1, <1>5, <1>7 DEF NextDay
  <2>2. d + 1 \in 1 .. days_in_month(y, m)
    BY <1>1, <1>4, <1>6, <1>7
  <2>3. elapsed' = Ordinal(y, m, d + 1) - NTP_EPOCH_ORDINAL
    BY <1>1, <1>3, <1>4, <1>6, SMT DEF NextDay, Ordinal, NTP_EPOCH_ORDINAL
  <2> QED
    BY <1>1, <2>1, <2>2, <2>3 DEF EpochInv
<1>8. CASE ~(d < days_in_month(y, m))
  <2>1. today' = [y |-> y, m |-> m + 1, d |-> 1]
    BY <1>1, <1>5, <1>8 DEF NextDay
  <2>2. m < 12 /\ m + 1 \in 1 .. 12 /\ d = days_in_month(y, m)
    BY <1>1, <1>4, <1>6, <1>8, <2>1 DEF NextDay
  <2>3. elapsed' = Ordinal(y, m + 1, 1) - NTP_EPOCH_ORDINAL
    BY <1>1, <1>3, <1>4, <1>6, <2>2, SMT DEF NextDay, Ordinal, NTP_EPOCH_ORDINAL
  <2>4. days_in_month(y, m + 1) \in 28 .. 31
    BY <1>2, <2>2, MonthsFollow
  <2> QED
    BY <1>1, <2>1, <2>2, <2>3, <2>4 DEF EpochInv
<1> QED
  BY <1>7, <1>8

(* The first day of the next year is numbered by the length of the year. *)
LEMMA NextYearRight ==
    ASSUME EpochInv, NextYear PROVE EpochInv'
<1>1. PICK y \in 1900 .. LastYear : today = [y |-> y, m |-> 1, d |-> 1]
                                    /\ elapsed = Ordinal(y, 1, 1) - NTP_EPOCH_ORDINAL
  BY DEF EpochInv, NextYear
<1>2. y \in Nat \ {0} /\ LastYear \in Nat /\ y < LastYear /\ y + 1 \in 1900 .. LastYear
  BY <1>1, EpochAssumption DEF NextYear
<1>3. today' = [y |-> y + 1, m |-> 1, d |-> 1]
  BY <1>1 DEF NextYear
<1>4. elapsed' = elapsed + (IF is_leap(y) THEN 366 ELSE 365)
  BY <1>1, LeapYearsRight DEF NextYear
<1>5. /\ days_before_year(y) \in Int
      /\ days_before_year(y + 1) = days_before_year(y) + (IF is_leap(y) THEN 366 ELSE 365)
  BY <1>2, YearLength
<1>6. /\ days_before_month(y, 1) = 0 /\ days_before_month(y + 1, 1) = 0
      /\ days_in_month(y + 1, 1) \in 28 .. 31
  BY <1>2, MonthsFollow
<1>7. elapsed' = Ordinal(y + 1, 1, 1) - NTP_EPOCH_ORDINAL
  BY <1>1, <1>4, <1>5, <1>6, SMT DEF Ordinal, NTP_EPOCH_ORDINAL
<1> QED
  BY <1>2, <1>3, <1>6, <1>7 DEF EpochInv

-----------------------------------------------------------------------------
(* From the number of a day back to its date. *)

\* The days of a year that is no leap year, as ord_to_ymd divides by them.
DI1Y == 365

(* The years before a year are whole cycles of 400, 100 and 4, and what is left. *)
LEMMA YearsSplit ==
    ASSUME NEW y \in Nat \ {0}
    PROVE  LET a == (y - 1) \div 400
               p == (y - 1) % 400
               b == p \div 100
               q == p % 100
               c == q \div 4
               e == q % 4
           IN  /\ a \in Nat /\ b \in 0 .. 3 /\ c \in 0 .. 24 /\ e \in 0 .. 3
               /\ y = 400 * a + 100 * b + 4 * c + e + 1
               /\ days_before_year(y) = DI400Y * a + DI100Y * b + DI4Y * c + DI1Y * e
               /\ is_leap(y) <=> e = 3 /\ (c # 24 \/ b = 3)
<1> DEFINE a == (y - 1) \div 400
           p == (y - 1) % 400
           b == p \div 100
           q == p % 100
           c == q \div 4
           e == q % 4
<1>1. a \in Nat /\ p \in 0 .. 399 /\ y - 1 = 400 * a + p
  BY SMT
<1>2. b \in 0 .. 3 /\ q \in 0 .. 99 /\ p = 100 * b + q
  BY <1>1, SMT
<1>3. c \in 0 .. 24 /\ e \in 0 .. 3 /\ q = 4 * c + e
  BY <1>2, SMT
<1> HIDE DEF a, b, c, e, p, q
<1>4. y = 400 * a + 100 * b + 4 * c + e + 1 /\ y - 1 = 400 * a + 100 * b + 4 * c + e
  BY <1>1, <1>2, <1>3, SMT
<1>5. (y - 1) \div 4 = 100 * a + 25 * b + c
  BY <1>1, <1>2, <1>3, <1>4, SMT
<1>6. (y - 1) \div 100 = 4 * a + b
  BY <1>1, <1>2, <1>3, <1>4, SMT
<1>7. (y - 1) \div 400 = a
  BY DEF a
<1>8. days_before_year(y) = DI400Y * a + DI100Y * b + DI4Y * c + DI1Y * e
  BY <1>1, <1>2, <1>3, <1>4, <1>5, <1>6, <1>7, SMT DEF days_before_year, DI400Y, DI100Y, DI4Y, DI1Y
<1>9. y % 4 = 0 <=> e = 3
  BY <1>1, <1>2, <1>3, <1>4, SMT
<1>10. ASSUME e = 3 PROVE (y % 100 = 0 <=> c = 24) /\ (c = 24 => (y % 400 = 0 <=> b = 3))
  BY <1>1, <1>2, <1>3, <1>4, <1>10, SMT
<1>11. is_leap(y) <=> e = 3 /\ (c # 24 \/ b = 3)
  BY <1>9, <1>10, <1>4, <1>1, <1>2, <1>3, SMT DEF is_leap
<1>12. /\ a \in Nat /\ b \in 0 .. 3 /\ c \in 0 .. 24 /\ e \in 0 .. 3
       /\ y = 400 * a + 100 * b + 4 * c + e + 1
       /\ days_before_year(y) = DI400Y * a + DI100Y * b + DI4Y * c + DI1Y * e
       /\ is_leap(y) <=> e = 3 /\ (c # 24 \/ b = 3)
  BY <1>1, <1>2, <1>3, <1>4, <1>8, <1>11
<1> QED
  BY <1>12, ZenonT(40) DEF a, p, b, q, c, e

(* Division of a multiple and a remainder. *)
LEMMA DivMod ==
    ASSUME NEW n \in Nat \ {0}, NEW q \in Int, NEW r \in Int, 0 <= r, r < n, NEW x, x = n * q + r
    PROVE  x \div n = q /\ x % n = r
  BY SMT

(* The cycles have days. *)
LEMMA CyclesLast ==
    DI400Y \in Nat \ {0} /\ DI100Y \in Nat \ {0} /\ DI4Y \in Nat \ {0} /\ DI1Y \in Nat \ {0}
  BY SMT DEF DI400Y, DI100Y, DI4Y, DI1Y

(* The estimate of the month, corrected, is the month. *)
LEMMA MonthFound ==
    ASSUME NEW y \in Nat, NEW m \in 1 .. 12, NEW d \in 1 .. days_in_month(y, m)
    PROVE  LET k == days_before_month(y, m) + d - 1
           IN  k \in 0 .. 364 => month_of(k, is_leap(y)) = m
<1>1. days_in_month(y, m) \in 28 .. 31
  BY MonthsFollow
<1>2. d \in 1 .. 31
  BY <1>1
<1>3. m \in {1, 2, 3, 4, 5, 6, 7, 8, 9, 10, 11, 12}
  OBVIOUS
<1> DEFINE l == is_leap(y)
<1>4. l \in BOOLEAN
  BY DEF is_leap
<1> HIDE DEF l
<1>5. SUFFICES ASSUME NEW k \in 0 .. 364,
                      k = _days_before_month[m] + (IF m > 2 /\ l THEN 1 ELSE 0) + d - 1,
                      d <= (IF m = 2 /\ l THEN 29 ELSE _days_in_month[m])
               PROVE  month_of(k, l) = m
  BY <1>1 DEF l, days_before_month, days_in_month
<1> DEFINE n == (k + 50) \div 32
<1>6. n \in 1 .. 12 /\ 32 * n <= k + 50 /\ k + 50 < 32 * n + 32
  OBVIOUS
<1> HIDE DEF n
<1>7. month_of(k, l) = IF _days_before_month[n] + (IF n > 2 /\ l THEN 1 ELSE 0) > k THEN n - 1 ELSE n
  BY DEF month_of, n
<1> USE DEF _days_before_month, _days_in_month
<1>8. CASE m \in {1, 2, 3}
  BY <1>2, <1>5, <1>6, <1>7, <1>8
<1>9. CASE m \in {4, 5, 6}
  BY <1>2, <1>5, <1>6, <1>7, <1>9
<1>10. CASE m \in {7, 8, 9}
  BY <1>2, <1>5, <1>6, <1>7, <1>10
<1>11. CASE m \in {10, 11, 12}
  BY <1>2, <1>5, <1>6, <1>7, <1>11
<1> QED
  BY <1>3, <1>8, <1>9, <1>10, <1>11

(* The date of a day that epoch.c numbers is the date it was numbered from. *)
LEMMA DateFound ==
    ASSUME NEW y \in Nat \ {0}, NEW m \in 1 .. 12, NEW d \in 1 .. days_in_month(y, m)
    PROVE  ord_to_ymd(Ordinal(y, m, d)) = [y |-> y, m |-> m, d |-> d]
<1> DEFINE a == (y - 1) \div 400
           p == (y - 1) % 400
           b == p \div 100
           q == p % 100
           c == q \div 4
           e == q % 4
<1>1. /\ a \in Nat /\ b \in 0 .. 3 /\ c \in 0 .. 24 /\ e \in 0 .. 3
      /\ y = 400 * a + 100 * b + 4 * c + e + 1
      /\ days_before_year(y) = DI400Y * a + DI100Y * b + DI4Y * c + DI1Y * e
      /\ is_leap(y) <=> e = 3 /\ (c # 24 \/ b = 3)
  BY YearsSplit
<1> HIDE DEF a, p, b, q, c, e
<1> DEFINE k == days_before_month(y, m) + d - 1
           o == Ordinal(y, m, d) - 1
<1>2. y \in Nat /\ d \in Int
  <2>1. y \in Nat
    OBVIOUS
  <2>2. days_in_month(y, m) \in 28 .. 31
    BY <2>1, MonthsFollow
  <2> QED
    BY <2>1, <2>2
<1>3. /\ k \in Int /\ 0 <= k /\ k <= 365 /\ days_before_month(y, m) \in Int
      /\ k = 365 => is_leap(y) /\ m = 12 /\ d = 31
  <2>1. m \in {1, 2, 3, 4, 5, 6, 7, 8, 9, 10, 11, 12}
    OBVIOUS
  <2>2. is_leap(y) \in BOOLEAN
    BY DEF is_leap
  <2>3. CASE m \in {1, 2, 3, 4, 5, 6}
    BY <1>2, <2>2, <2>3 DEF days_before_month, days_in_month, _days_before_month, _days_in_month
  <2>4. CASE m \in {7, 8, 9, 10, 11, 12}
    BY <1>2, <2>2, <2>4 DEF days_before_month, days_in_month, _days_before_month, _days_in_month
  <2> QED
    BY <2>1, <2>3, <2>4
<1>4. k # 365 => month_of(k, is_leap(y)) = m
  <2>1. k # 365 => k \in 0 .. 364
    BY <1>3
  <2>2. k \in 0 .. 364 => month_of(k, is_leap(y)) = m
    BY <1>2, MonthFound
  <2> QED
    BY <2>1, <2>2
<1>5. o = DI400Y * a + DI100Y * b + DI4Y * c + DI1Y * e + k
  BY <1>1, <1>2, <1>3, SMT DEF Ordinal, DI400Y, DI100Y, DI4Y, DI1Y
<1> DEFINE k400 == o % DI400Y
           n400 == o \div DI400Y
           n100 == k400 \div DI100Y
           k100 == k400 % DI100Y
           n4 == k100 \div DI4Y
           k4 == k100 % DI4Y
           n1 == k4 \div DI1Y
           j == k4 % DI1Y
           year == n400 * 400 + 1 + n100 * 100 + n4 * 4 + n1
           leapyear == n1 = 3 /\ (n4 # 24 \/ n100 = 3)
           month == month_of(j, leapyear)
<1>6. ord_to_ymd(Ordinal(y, m, d)) =
        IF n1 = 4 \/ n100 = 4 THEN [y |-> year - 1, m |-> 12, d |-> 31]
        ELSE [y |-> year, m |-> month, d |-> j - days_before_month(year, month) + 1]
  BY Zenon DEF ord_to_ymd, DI1Y
<1> HIDE DEF k, o
<1>7. CASE ~(k = 365 /\ c = 24)
  <2> DEFINE f == IF k = 365 THEN 4 ELSE e
             g == IF k = 365 THEN 0 ELSE k
             w == DI1Y * f + g
             z == DI4Y * c + w
             x == DI100Y * b + z
  <2>1. /\ f \in Int /\ g \in Int /\ 0 <= g /\ g <= 364 /\ 0 <= f
        /\ 365 * f + g <= 1460 /\ (c = 24 => 365 * f + g <= 1459)
    BY <1>1, <1>3, <1>7, SMT
  <2>2. o = DI400Y * a + x
    BY <1>1, <1>3, <1>5, <1>7, SMT DEF DI1Y, DI4Y, DI100Y, DI400Y
  <2>3. f = (IF k = 365 THEN 4 ELSE e) /\ g = (IF k = 365 THEN 0 ELSE k)
    OBVIOUS
  <2> HIDE DEF f, g
  <2>4. w = DI1Y * f + g /\ w \in Int /\ 0 <= w /\ w <= 1460 /\ (c = 24 => w <= 1459)
    BY <2>1, SMT DEF DI1Y
  <2>5. z = DI4Y * c + w /\ x = DI100Y * b + z
    OBVIOUS
  <2> HIDE DEF w, z, x
  <2>6. z \in Int /\ 0 <= z /\ z <= 36523
    BY <1>1, <2>4, <2>5, SMT DEF DI4Y
  <2>7. x \in Int /\ 0 <= x /\ x <= 146095
    BY <1>1, <2>5, <2>6, SMT DEF DI100Y
  <2>8. w < DI4Y /\ z < DI100Y /\ x < DI400Y /\ g < DI1Y
    <3>1. w < DI4Y
      BY <2>4, SMT DEF DI4Y
    <3>2. z < DI100Y
      BY <2>6, SMT DEF DI100Y
    <3>3. x < DI400Y
      BY <2>7, SMT DEF DI400Y
    <3>4. g < DI1Y
      BY <2>1, SMT DEF DI1Y
    <3> QED
      BY <3>1, <3>2, <3>3, <3>4
  <2>9. /\ a \in Int /\ b \in Int /\ c \in Int /\ f \in Int /\ g \in Int /\ 0 <= g
        /\ w \in Int /\ 0 <= w /\ z \in Int /\ 0 <= z /\ x \in Int /\ 0 <= x
    BY <1>1, <2>1, <2>4, <2>6, <2>7, SMT
  <2>10. w \div DI1Y = f /\ w % DI1Y = g
    <3>1. w = DI1Y * f + g
      BY <2>4
    <3> QED
      BY <2>8, <2>9, <3>1, CyclesLast, DivMod, Zenon
  <2>11. z \div DI4Y = c /\ z % DI4Y = w
    <3>1. z = DI4Y * c + w
      BY <2>5
    <3> QED
      BY <2>8, <2>9, <3>1, CyclesLast, DivMod, Zenon
  <2>12. x \div DI100Y = b /\ x % DI100Y = z
    <3>1. x = DI100Y * b + z
      BY <2>5
    <3> QED
      BY <2>8, <2>9, <3>1, CyclesLast, DivMod, Zenon
  <2>13. o \div DI400Y = a /\ o % DI400Y = x
    BY <2>2, <2>8, <2>9, CyclesLast, DivMod, Zenon
  <2>14. n400 = a /\ n100 = b /\ n4 = c /\ n1 = f /\ j = g
    BY <2>10, <2>11, <2>12, <2>13, Zenon
  <2> HIDE DEF n400, n100, n4, n1, j
  <2>15. CASE k = 365
    <3>1. n1 = 4 /\ e = 3 /\ m = 12 /\ d = 31
      BY <1>1, <1>3, <2>3, <2>14, <2>15
    <3>2. year - 1 = y
      BY <1>1, <2>14, <3>1, SMT
    <3> QED
      BY <1>6, <3>1, <3>2
  <2>16. CASE k # 365
    <3>1. f = e /\ g = k
      BY <2>3, <2>16
    <3>2. year = y /\ n1 # 4 /\ n100 # 4
      BY <1>1, <2>14, <3>1, SMT
    <3>3. leapyear = is_leap(y)
      <4>1. leapyear <=> is_leap(y)
        BY <1>1, <2>14, <3>1
      <4>2. leapyear \in BOOLEAN /\ is_leap(y) \in BOOLEAN
        BY Zenon DEF is_leap
      <4> HIDE DEF leapyear
      <4> QED
        BY <4>1, <4>2
    <3>4. month = m
      BY <1>4, <2>14, <2>16, <3>1, <3>3
    <3>5. j - days_before_month(year, month) + 1 = d
      BY <1>2, <1>3, <2>14, <3>1, <3>2, <3>4 DEF k
    <3> QED
      BY <1>6, <3>2, <3>4, <3>5
  <2> QED
    BY <2>15, <2>16
<1>8. CASE k = 365 /\ c = 24
  <2>1. b = 3 /\ e = 3 /\ m = 12 /\ d = 31
    BY <1>1, <1>3, <1>8
  <2>2. PICK r \in Int : r = 146096
    BY SMT
  <2>3. o = DI400Y * a + r /\ a \in Int
    BY <1>1, <1>5, <1>8, <2>1, <2>2, SMT DEF DI1Y, DI4Y, DI100Y, DI400Y
  <2>4. 0 <= r /\ r < DI400Y
    BY <2>2, SMT DEF DI400Y
  <2>5. o \div DI400Y = a /\ o % DI400Y = r
    BY <2>3, <2>4, CyclesLast, DivMod, Zenon
  <2>6. r \div DI100Y = 4 /\ r % DI100Y = 0
    BY <2>2, SMT DEF DI100Y
  <2>7. 0 \div DI4Y = 0 /\ 0 % DI4Y = 0 /\ 0 \div DI1Y = 0
    BY SMT DEF DI4Y, DI1Y
  <2>8. n400 = a /\ n100 = 4 /\ n4 = 0 /\ n1 = 0
    BY <2>5, <2>6, <2>7
  <2> HIDE DEF n400, n100, n4, n1, j
  <2>9. year - 1 = y
    BY <1>1, <1>8, <2>1, <2>8, SMT
  <2> QED
    BY <1>6, <2>1, <2>8, <2>9
<1> QED
  BY <1>7, <1>8

-----------------------------------------------------------------------------
(* Dates agree. *)

(* A second of a day, however it is given, is the second of that day. *)
LEMMA TimeOfDay ==
    ASSUME NEW n \in Int, NEW s \in Int, 0 <= s, s < 86400
    PROVE  Time(n, s) = <<n, s>>
<1>1. s \div 86400 = 0 /\ s % 86400 = s
  BY SMT
<1> QED
  BY <1>1, SMT DEF Time

(* In every state that the calendar reaches, the two agree. *)
LEMMA InvAgrees == EpochInv => DatesAgree
<1> SUFFICES ASSUME EpochInv PROVE DatesAgree
  OBVIOUS
<1>1. PICK y, m, d :
        /\ y \in 1900 .. LastYear /\ m \in 1 .. 12 /\ d \in 1 .. days_in_month(y, m)
        /\ today = [y |-> y, m |-> m, d |-> d] /\ elapsed = Ordinal(y, m, d) - NTP_EPOCH_ORDINAL
  BY DEF EpochInv
<1>2. y \in Nat \ {0} /\ y \in Nat
  BY <1>1, EpochAssumption
<1>3. days_before_year(y) \in Int /\ days_before_month(y, m) \in Int /\ d \in Int /\ Ordinal(y, m, d) \in Int
  <2>1. days_before_year(y) \in Int
    BY <1>2, YearLength
  <2>2. days_in_month(y, m) \in 28 .. 31 /\ days_before_month(y, m) \in 0 .. 335
    BY <1>1, <1>2, MonthsFollow
  <2> QED
    BY <1>1, <2>1, <2>2 DEF Ordinal
<1>4. elapsed \in Int /\ elapsed + NTP_EPOCH_ORDINAL = Ordinal(y, m, d)
  BY <1>1, <1>3, SMT DEF NTP_EPOCH_ORDINAL
<1>5. today.y = y /\ today.m = m /\ today.d = d
  BY <1>1
<1>6. ASSUME NEW hour, NEW minute, NEW second
      PROVE  datetime_to_epoch(today.y, today.m, today.d, hour, minute, second)
               = Time(elapsed, hour * 3600 + minute * 60 + second)
  <2>1. elapsed = days_before_year(y) + days_before_month(y, m) + d - NTP_EPOCH_ORDINAL
    <3>1. elapsed = Ordinal(y, m, d) - NTP_EPOCH_ORDINAL
      BY <1>1
    <3> QED
      BY <1>3, <3>1, SMT DEF Ordinal, NTP_EPOCH_ORDINAL
  <2>2. datetime_to_epoch(y, m, d, hour, minute, second)
          = Time(days_before_year(y) + days_before_month(y, m) + d - NTP_EPOCH_ORDINAL,
                 hour * 3600 + minute * 60 + second)
    BY SMT DEF datetime_to_epoch
  <2> QED
    BY <1>5, <2>1, <2>2, SMT
<1>7. ord_to_ymd(elapsed + NTP_EPOCH_ORDINAL) = today
  <2>1. ord_to_ymd(Ordinal(y, m, d)) = [y |-> y, m |-> m, d |-> d]
    BY <1>1, <1>2, DateFound
  <2> QED
    BY <1>1, <1>4, <2>1, SMT
<1>8. ASSUME NEW s \in {0, 59}
      PROVE  LET time == datetime_to_epoch(today.y, today.m, today.d, 23, s, s)
             IN  /\ time = <<elapsed, 82800 + 61 * s>>
                 /\ epoch_to_datetime(time) = [date |-> today, hour |-> 23, min |-> s, sec |-> s]
  <2>1. PICK t \in Int : t = 82800 + 61 * s
    BY SMT
  <2>2. t = 23 * 3600 + s * 60 + s /\ 0 <= t /\ t < 86400
    BY <2>1, SMT
  <2>3. datetime_to_epoch(today.y, today.m, today.d, 23, s, s) = Time(elapsed, t)
    BY <1>6, <2>2, SMT
  <2>4. Time(elapsed, t) = <<elapsed, t>>
    BY <1>4, <2>2, TimeOfDay, SMT
  <2>5. t % 60 = s /\ (t \div 60) % 60 = s /\ ((t \div 60) \div 60) % 24 = 23
    <3>1. CASE s = 0
      <4>1. t = 82800
        BY <2>1, <3>1, SMT
      <4> QED
        BY <3>1, <4>1, SMT
    <3>2. CASE s = 59
      <4>1. t = 86399
        BY <2>1, <3>2, SMT
      <4> QED
        BY <3>2, <4>1, SMT
    <3> QED
      BY <3>1, <3>2
  <2>6. epoch_to_datetime(<<elapsed, t>>) = [date |-> today, hour |-> 23, min |-> s, sec |-> s]
    <3>1. <<elapsed, t>>[1] = elapsed /\ <<elapsed, t>>[2] = t
      OBVIOUS
    <3>2. epoch_to_datetime(<<elapsed, t>>) =
            [date |-> ord_to_ymd(elapsed + NTP_EPOCH_ORDINAL), sec |-> t % 60,
             min |-> (t \div 60) % 60, hour |-> ((t \div 60) \div 60) % 24]
      BY <3>1, SMT DEF epoch_to_datetime
    <3> QED
      BY <1>7, <2>5, <3>2, SMT
  <2> QED
    BY <2>1, <2>3, <2>4, <2>6, SMT
<1>9. datetime_to_epoch(today.y, today.m, today.d, 23, 59, 60) = <<elapsed + 1, 0>>
  <2>1. datetime_to_epoch(today.y, today.m, today.d, 23, 59, 60) = Time(elapsed, 23 * 3600 + 59 * 60 + 60)
    BY <1>6, SMT
  <2>2. (23 * 3600 + 59 * 60 + 60) \div 86400 = 1 /\ (23 * 3600 + 59 * 60 + 60) % 86400 = 0
    BY SMT
  <2> QED
    BY <2>1, <2>2, SMT DEF Time
<1>10. ASSUME NEW w \in Int, w = elapsed - NTP_GPS_EPOCH, w >= 0
       PROVE  gps_to_epoch(w \div 7, (w % 7) * 86400 + 9)
                = datetime_to_epoch(today.y, today.m, today.d, 0, 0, 9)
  <2>1. datetime_to_epoch(today.y, today.m, today.d, 0, 0, 9) = Time(elapsed, 9)
    <3>1. 0 * 3600 + 0 * 60 + 9 = 9
      BY SMT
    <3> QED
      BY <1>6, <3>1, SMT
  <2>2. Time(elapsed, 9) = <<elapsed, 9>>
    BY <1>4, TimeOfDay, SMT
  <2>3. PICK i \in Int, l \in Int : /\ i = w \div 7 /\ l = w % 7
                                    /\ 0 <= l /\ l <= 6 /\ w = 7 * i + l
    BY <1>10, SMT
  <2>4. (l * 86400 + 9) \div 86400 = l /\ (l * 86400 + 9) % 86400 = 9
    BY <2>3, SMT
  <2>5. NTP_GPS_EPOCH + i * 7 + l = elapsed
    BY <1>4, <1>10, <2>3, SMT DEF NTP_GPS_EPOCH
  <2>6. gps_to_epoch(i, l * 86400 + 9) = <<NTP_GPS_EPOCH + i * 7 + l, 9>>
    BY <2>4, SMT DEF gps_to_epoch, Time
  <2> QED
    BY <2>1, <2>2, <2>3, <2>5, <2>6, SMT
<1>11. elapsed - NTP_GPS_EPOCH \in Int
  BY <1>4, SMT DEF NTP_GPS_EPOCH
<1> QED
  BY <1>8, <1>9, <1>10, <1>11, SMT DEF DatesAgree

(* Dates agree on every day, however long the calendar runs: a date becomes the days that
   went by since 1900, and those days become the date again. *)
THEOREM DatesAlwaysAgree == EpochSpec => []DatesAgree
<1>1. ASSUME EpochInv, [EpochNext]_evars PROVE EpochInv'
  <2>1. CASE UNCHANGED evars
    BY <1>1, <2>1 DEF EpochInv, evars
  <2> QED
    BY <1>1, <2>1, NextDayRight, NextYearRight DEF EpochNext
<1>2. EpochSpec => []EpochInv
  BY <1>1, EpochStarts, PTL DEF EpochSpec
<1> QED
  BY <1>2, InvAgrees, PTL
=============================================================================
