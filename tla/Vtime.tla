-------------------------------- MODULE Vtime --------------------------------
(***************************************************************************)
(* The arithmetic of vtimer.c: a base (vt_last, mono_last) that pll_thread   *)
(* moves once a second, and the time read from it at vt_rate fractions for   *)
(* each tick.  kern_freq changes the rate of the ticks that are already past *)
(* as well as of those to come; monotonic_now may return a period too little *)
(* (NowExactOrStale of PpsCapture).                                          *)
(*                                                                         *)
(* Ticks are counted from mono_last, fractions from vt_last, so that neither *)
(* needs a bound.                                                           *)
(***************************************************************************)
EXTENDS Integers

CONSTANTS
    MONO,        \* MONO_PERIOD, in ticks
    SECOND,      \* NTP_SECOND, in fractions
    SUB_TIME,    \* PLL_SUB_TIME, in fractions
    PREC,        \* 2^VT_RATE_PREC
    NOMINAL,     \* vt_rate_nominal * PREC
    MaxFreq,     \* what kern_freq lets through, 500 ppm of NOMINAL
    Word,        \* 2^64, or less
    Steps,       \* sizes of steps to the pulse, in fractions
    Late,        \* bound: ticks a round may be late when its thread is blocked
    Horizon      \* bound: ticks between two readings

\* The longest time from one move of the base to the next.
LongestRound == ((2 * SECOND * PREC) \div (NOMINAL - MaxFreq)) + Late + MONO

ASSUME VtimeAssumption ==
    /\ {MONO, SECOND, SUB_TIME, PREC, NOMINAL, MaxFreq, Word, Late, Horizon} \subseteq Nat
    \* A round is longer than what a stale reading of the monotonic clock is off.
    /\ 2 * MONO * (NOMINAL + MaxFreq) < SUB_TIME * PREC
    /\ 0 < MONO /\ 0 < PREC /\ 0 < SUB_TIME /\ SUB_TIME < SECOND
    /\ MaxFreq < NOMINAL /\ Steps \subseteq Nat
    \* The product fits: the watchdog ends a round before the eight seconds are over
    \* after which it would not.
    /\ 2 * (NOMINAL + MaxFreq) * LongestRound < Word

VARIABLES
    since,     \* monotonic time minus mono_last
    frac,      \* vt_last within its second
    vt_rate,
    wake,      \* monotonic_sleep_until: when pll_thread's sleep ends, from mono_last
    when,      \* history: the fraction it was to end at, from vt_last
    seen       \* history: an earlier reading of the clock

vtvars == <<since, frac, vt_rate, wake, when, seen>>

\* The clock was read ticks ago, when its base was base ticks old; it showed vt
\* fractions less than vt_last is now; the base has been moved moves times since.
Reading == [vt : Int, ticks : Nat, base : Nat, moves : Nat]

\* int64_t: the product is taken modulo the word.
Signed(n) == LET m == n % Word IN IF 2 * m >= Word THEN m - Word ELSE m

\* What vtimer_getI adds to vt_last, ticks after mono_last; >> rounds down.
vtimer_getI(rate, ticks) == Signed(rate * ticks) \div PREC

\* vtimer_sleep_until: the ticks from mono_last to a time that many fractions ahead.
SleepTicks(rate, fractions) == Signed(fractions * PREC) \div rate

\* The end of the next sleep but two: SUB_TIME of the next second.
NextRound(f) == SECOND - f + SUB_TIME

\* The first round has set the rate and moved the base.
VtimeInit ==
    /\ since = 0 /\ frac = 0 /\ vt_rate = NOMINAL
    /\ when = NextRound(0) /\ wake = SleepTicks(NOMINAL, NextRound(0))
    /\ seen = [vt |-> 0, ticks |-> 0, base |-> 0, moves |-> 0]

\* TIM3 counts.  The interrupt handler ends the sleep with the period it ends in.
VtTick ==
    /\ since < wake + Late
    /\ since' = since + 1
    /\ seen' = [seen EXCEPT !.ticks = @ + 1]
    /\ seen.ticks < Horizon
    /\ UNCHANGED <<frac, vt_rate, wake, when>>

\* vtimer_now, and a reading to compare the next ones with.
Look ==
    /\ seen' = [vt |-> -vtimer_getI(vt_rate, since), ticks |-> 0, base |-> since, moves |-> 0]
    /\ UNCHANGED <<since, frac, vt_rate, wake, when>>

\* kern_freq: frequencies out of range are cut off.
kern_freq(f) ==
    NOMINAL + (IF f > MaxFreq THEN MaxFreq ELSE IF f < -MaxFreq THEN -MaxFreq ELSE f)

\* Fault: only the vtimer's half of the base is moved.
updateI_fault(rate, vt, ticks, stale) ==
    [vt |-> vt + vtimer_getI(rate, ticks - stale), since |-> ticks]

\* vtimer_updateI: where the base is moved to, and the ticks since then.
vtimer_updateI(rate, vt, ticks, stale) ==
    [vt |-> vt + vtimer_getI(rate, ticks - stale), since |-> stale]

\* The base has been moved by b.vt, n times; the thread sleeps again.
Moved(b, rate, n, stepped) ==
    LET f == (frac + b.vt) % SECOND
    IN  /\ frac' = f /\ since' = b.since /\ vt_rate' = rate
        /\ when' = NextRound(f) /\ wake' = SleepTicks(rate, NextRound(f))
        /\ seen' = IF stepped
                   THEN [vt |-> -vtimer_getI(rate, b.since), ticks |-> 0, base |-> b.since, moves |-> 0]
                   ELSE [seen EXCEPT !.vt = @ + b.vt, !.moves = @ + n]

\* A round of pll_thread.  Nothing else runs from kern_freq to vtimer_updateI.
VtRound ==
    /\ since >= wake - (MONO - 1)
    /\ \E f \in -(MaxFreq + 1) .. MaxFreq + 1, stale \in {0, MONO} :
          Moved(vtimer_updateI(kern_freq(f), 0, since, stale), kern_freq(f), 1, FALSE)

\* A round that steps to the pulse: the second past is counted at the old rate, and
\* vtimer_updateI finds next to nothing more.
VtStepPps ==
    /\ since >= wake - (MONO - 1)
    /\ \E dd \in Steps \cup {-s : s \in Steps}, f \in -MaxFreq .. MaxFreq :
          LET b == vtimer_updateI(vt_rate, dd, since, 0)
          IN  Moved(vtimer_updateI(kern_freq(f), b.vt, b.since, 0), kern_freq(f), 2, TRUE)

\* A round that steps by whole seconds, after the update.
VtStepUtc ==
    /\ since >= wake - (MONO - 1)
    /\ \E f \in -MaxFreq .. MaxFreq, seconds \in {-1, 1} :
          LET b == vtimer_updateI(kern_freq(f), 0, since, 0)
              c == vtimer_updateI(kern_freq(f), b.vt + seconds * SECOND, b.since, 0)
          IN  Moved(vtimer_updateI(kern_freq(f), c.vt, c.since, 0), kern_freq(f), 3, TRUE)

VtimeNext == VtTick \/ Look \/ VtRound \/ VtStepPps \/ VtStepUtc

VtimeSpec == VtimeInit /\ [][VtimeNext]_vtvars

-----------------------------------------------------------------------------
Elapsed == seen.vt + vtimer_getI(vt_rate, since)

Abs(n) == IF n < 0 THEN -n ELSE n

\* Between steps the clock of vtimer_now runs at the nominal rate within MaxFreq: a
\* change of rate reaches back to the base and no further, a stale reading of the
\* monotonic clock is made up for by the next one, and neither adds up over the rounds.
\* Each move of the base rounds down by less than a fraction.
ClockContinuous ==
    Abs(PREC * Elapsed - NOMINAL * seen.ticks)
        <= MaxFreq * seen.ticks + 2 * MaxFreq * seen.base + PREC * (seen.moves + 1)

\* vtimer_sleep_until ends in the tick of the time it was asked for, never in
\* another second.
SleepExact ==
    since = wake =>
        /\ vtimer_getI(vt_rate, since) <= when
        /\ vtimer_getI(vt_rate, since + 1) >= when

ClockRight == ClockContinuous /\ SleepExact
=============================================================================
