------------------------------- MODULE Vtimer -------------------------------
(***************************************************************************)
(* The disciplined clock of vtimer.c: the once-a-second round of pll_thread, *)
(* the status flags it keeps and the control part of pllmath.c.             *)
(*                                                                         *)
(* Time is counted in slots, K to the second.  GPS time defines the second; *)
(* the PPS edge falls in slot 0 and the GPS time message of the second in    *)
(* a later slot.  The vtimer is ahead of GPS time by off slots.  A round    *)
(* runs when the vtimer shows slot K-1 (PLL_SUB_TIME).  An offset of a slot *)
(* or more is past STEP_THRESH; below that the vtimer is within SETTLED_    *)
(* THRESH or not by choice of the environment.  Everything is relative to   *)
(* the present second, so time needs no bound.                              *)
(*                                                                         *)
(* The pll thread has the highest priority; other threads see its state     *)
(* only where it blocks: in a sleep, or in log_write between the two halves *)
(* of a round.                                                             *)
(***************************************************************************)
EXTENDS Integers

CONSTANTS
    K,            \* slots per second
    DesyncLimit,  \* pulses past STEP_THRESH before a step (5 in the code)
    PpsTimeout,   \* seconds without a pulse until PPS_OK is cleared (5)
    Holdover,     \* cfg.holdover, in seconds
    DL0, MJ,      \* pllmath: initial delay timer, least averaging factor
    MaxOff        \* bound: the offset at startup, in slots

ASSUME SlotAssumption == K \in Nat /\ K >= 4
ASSUME LimitAssumption ==
    /\ DesyncLimit \in Nat \ {0} /\ PpsTimeout \in Nat \ {0}
    /\ Holdover \in Nat /\ Holdover >= 2
    /\ MaxOff \in Nat
\* A clock that is a slot off is stepped before the PLL can leave state 1.
ASSUME PllAssumption == DL0 \in Nat /\ MJ \in Nat /\ DL0 >= DesyncLimit

NoUtc == 1  \* utc_next is clear: no message names a second still to come

VARIABLES
    phase, off,   \* slot of the GPS second; vtimer minus GPS time, in slots
    gps, told,    \* the receiver has a fix; it has sent this second's time
    at, timer,    \* pll_thread: asleep or mid-round; slots until it wakes
    cap,          \* a pulse waits in mono_capture
    utc,          \* utc_next, in seconds relative to the GPS second, or NoUtc
    status,       \* status_flags
    pll,          \* pll_state: st, dl; history: pulses since st was 0
    desync,
    age,          \* slots since last_pps
    test          \* FLAG_HOLDOVER_TEST

env  == <<phase, gps, told>>
vars == <<env, off, at, timer, cap, utc, status, pll, desync, age, test>>

AgeCap == K * (IF Holdover > PpsTimeout THEN Holdover ELSE PpsTimeout) + 2 * K
Capped(n, max) == IF n < max THEN n ELSE max

Init ==
    /\ phase \in 0 .. K - 1 /\ off \in -MaxOff .. MaxOff
    /\ gps = FALSE /\ told = FALSE
    /\ at = "sleep" /\ timer = 0
    /\ cap = FALSE /\ utc = NoUtc
    /\ status = {} /\ desync = 0 /\ age = 0
    /\ pll = [st |-> 0, dl |-> 0, pulses |-> 0]
    /\ test = FALSE

-----------------------------------------------------------------------------
(* The environment: time, the GPS receiver, the threads that feed pll_thread. *)

\* A slot passes while the pll thread sleeps.  A receiver with a fix gives
\* the edge in slot 0 and has sent the time of the second before slot K-1.
Slot ==
    /\ at = "sleep" /\ timer > 0
    /\ gps /\ ~told => phase # K - 2
    /\ phase' = (phase + 1) % K
    /\ \/ /\ phase < K - 1
          /\ UNCHANGED <<gps, told, cap, utc>>
       \/ /\ phase = K - 1
          /\ gps' \in BOOLEAN
          /\ told' = FALSE
          /\ cap' = (cap \/ gps')
          /\ utc' = IF utc = NoUtc THEN NoUtc ELSE utc - 1
    /\ timer' = timer - 1
    /\ age' = Capped(age + 1, AgeCap)
    /\ UNCHANGED <<off, at, status, pll, desync, test>>

\* vtimer_set_utc / vtimer_set_gps, called by a GPS parser in the main thread.
SetUtc ==
    /\ gps /\ ~told /\ phase > 0
    /\ told' = TRUE
    /\ utc' = 0
    /\ UNCHANGED <<phase, gps, off, at, timer, cap, status, pll, desync, age, test>>

\* "set holdover_test=..." on the command line.
SetHoldoverTest ==
    /\ test' = ~test
    /\ UNCHANGED <<env, off, at, timer, cap, utc, status, pll, desync, age>>

-----------------------------------------------------------------------------
(* pllmath.c: which states pll_math may leave behind.  Comparisons of       *)
(* floating-point averages go either way.                                  *)

PllReset(p) == [p EXCEPT !.st = 0]

\* State 0 initialises everything and goes to 1; then the timer counts down.
PllCount(p) ==
    LET q == IF p.st = 0 THEN [st |-> 1, dl |-> DL0, pulses |-> 0] ELSE p
    IN  [q EXCEPT !.dl = IF @ < 0 THEN @ ELSE @ - 1,
                  !.pulses = Capped(@ + 1, DL0 + MJ + 2)]

PllGoto(p, s) == [p EXCEPT !.st = s, !.dl = MJ]

\* The timer has expired: climb, or tighten the loop, or wait.
PllExpired(p) ==
    CASE p.st = 1 -> {p, PllGoto(p, 2)}
      [] p.st = 2 -> {PllGoto(p, 3)}
      [] p.st = 3 -> {p, PllGoto(p, 4)}
      [] p.st = 4 -> {p, PllGoto(p, 4), [p EXCEPT !.st = 5], PllGoto(p, 5)}
      [] p.st = 5 -> {p, PllGoto(p, 5)}

\* Lock is lost, the timer is rearmed, or the timer decides.
PllTimer(p) ==
    (IF p.st >= 4 THEN {PllReset(p), PllGoto(p, p.st)} ELSE {})
    \union (IF p.dl >= 0 THEN {p} ELSE PllExpired(p))

\* A frequency correction out of range (b, which is zero below state 3)
\* starts over.
PllMath(p) ==
    PllTimer(PllCount(p))
    \union (IF p.st >= 3 THEN PllTimer(PllCount(PllReset(p))) ELSE {})

-----------------------------------------------------------------------------
(* pll_thread. *)

\* vtimer_get_frac_delta: the vtimer's fraction at the edge, in -K/2 .. K/2.
Delta == IF 2 * (off % K) > K THEN (off % K) - K ELSE off % K

Far == Delta # 0

Stepping == Far /\ desync + 1 >= DesyncLimit

\* The lock flag: judged before this pulse goes into pll_math.
JudgeLock(settled) ==
    IF "PLL_OK" \in status
    THEN IF pll.st < 3 THEN status \ {"PLL_OK"} ELSE status
    ELSE IF pll.st >= 3 /\ ~Far /\ settled THEN status \union {"PLL_OK"} ELSE status

\* Shift the vtimer by dd slots.
vtimer_step(dd) == off' = off + dd

\* A round with a pulse, down to pll_math.
JudgePulse ==
    /\ at = "sleep" /\ timer = 0
    /\ cap /\ ~test
    /\ \E settled \in BOOLEAN :
          status' = JudgeLock(settled)
                    \union (IF 10 * age < 11 * K THEN {"PPS_OK"} ELSE {})
    /\ vtimer_step(IF Stepping THEN -Delta ELSE 0)
    /\ desync' = IF Far /\ ~Stepping THEN desync + 1 ELSE 0
    /\ pll' \in PllMath(IF Stepping THEN PllReset(pll) ELSE pll)
    /\ age' = 0
    /\ cap' = FALSE
    /\ at' = "apply"
    /\ UNCHANGED <<env, timer, utc, test>>

\* Fault: holdover is counted from the round after the last pulse.
HoldoverOverLate == age > K * (Holdover + 1)

PpsTimedOut  == age >= K * PpsTimeout
HoldoverOver == age >= K * Holdover

\* A round without one: PPS and holdover timeouts; pll_poll.
JudgeNoPulse ==
    /\ at = "sleep" /\ timer = 0
    /\ ~(cap /\ ~test)
    /\ status' = (status \ (IF PpsTimedOut THEN {"PPS_OK"} ELSE {}))
                         \ (IF HoldoverOver THEN {"PLL_OK"} ELSE {})
    /\ cap' = FALSE
    /\ at' = "apply"
    /\ UNCHANGED <<env, off, timer, utc, pll, desync, age, test>>

\* Fault: the vtimer's time is rounded to the nearest second.
VtSecondFault == (phase + off + K \div 2) \div K

\* The vtimer's second, relative to the GPS second.
VtSecond == (phase + off) \div K

\* vtimer_sleep_until: the top of the next second, and from there slot K-1.
SlotsToSleep == (K - ((phase + off) % K)) + (K - 1)

\* The rest of the round: take utc_next and step by whole seconds, then sleep.
Apply ==
    /\ at = "apply"
    /\ IF utc = NoUtc
       THEN UNCHANGED <<off, utc, status>>
       ELSE /\ vtimer_step(K * (utc - VtSecond))
            /\ utc' = NoUtc
            /\ status' = status \union {"TOD_OK"}
    /\ timer' = SlotsToSleep
    /\ at' = "sleep"
    /\ UNCHANGED <<env, cap, pll, desync, age, test>>

-----------------------------------------------------------------------------
Next == Slot \/ SetUtc \/ SetHoldoverTest \/ JudgePulse \/ JudgeNoPulse \/ Apply

\* Time passes, the receiver keeps its promise, and the pll thread runs.
Fairness ==
    /\ WF_vars(Slot) /\ WF_vars(SetUtc)
    /\ WF_vars(JudgePulse \/ JudgeNoPulse) /\ WF_vars(Apply)

Spec == Init /\ [][Next]_vars /\ Fairness

-----------------------------------------------------------------------------
\* Fault: any of the flags is enough.
StratumFault == IF {"PLL_OK", "TOD_OK"} \cap status # {} THEN 1 ELSE 16

\* ntp_recv: the stratum of a reply sent now.
Stratum == IF {"PLL_OK", "TOD_OK"} \subseteq status THEN 1 ELSE 16

TypeOK ==
    /\ phase \in 0 .. K - 1 /\ off \in Int
    /\ gps \in BOOLEAN /\ told \in BOOLEAN /\ test \in BOOLEAN /\ cap \in BOOLEAN
    /\ at \in {"sleep", "apply"} /\ timer \in 0 .. 2 * K - 1
    /\ utc \in Int /\ utc <= NoUtc
    /\ status \subseteq {"PPS_OK", "TOD_OK", "PLL_OK"}
    /\ pll \in [st : 0 .. 5, dl : Int, pulses : 0 .. DL0 + MJ + 2]
    /\ desync \in 0 .. DesyncLimit - 1
    /\ age \in 0 .. AgeCap

\* Every reply with stratum 1 carries GPS time: whatever second a message
\* was matched with before the vtimer was stepped to the pulse has been put
\* right before ntp_recv calls the clock synchronised.
Stratum1Honest == Stratum = 1 => off = 0

\* Lock is claimed only after an uninterrupted run of pulses since the PLL
\* was last reset by a step, a lost lock or an out-of-range frequency.
LockNeedsPulses == pll.st >= 3 => pll.pulses >= DL0 + MJ + 2

\* "After this time has elapsed, all NTP responses will be marked with a
\* Stratum value of 16" (config.rst): the flag is down within one round.
HoldoverEnds == "PLL_OK" \in status => age < K * (Holdover + 1)

\* Once the receiver keeps its fix, the vtimer is right for good and the
\* flags say that time of day and pulse are valid.
Converges ==
    <>[](gps /\ ~test) => <>[](off = 0 /\ {"PPS_OK", "TOD_OK"} \subseteq status)

\* Holdover lasts as long as holdover_time says, no longer, and no shorter: "will
\* continue serving time normally for this many seconds" (config.rst).  A round drops
\* the lock flag only when the PLL lost lock or holdover is over.
HoldoverExact ==
    [][ /\ "PLL_OK" \in status \ status' => pll.st < 3 \/ age >= K * Holdover
        /\ HoldoverEnds' ]_vars
=============================================================================
