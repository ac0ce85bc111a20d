---------------------------- MODULE VtimerProofs ----------------------------
(* Proofs about the duties of pll_thread, for every value of the constants     *)
(* that satisfies the modules' assumptions: the watchdogs, the quantisation    *)
(* corrections, the arithmetic of the vtimer, and the disciplined clock with   *)
(* the NTP server.                                                             *)
EXTENDS NtpServer, Watchdog, Vtime, Quant, TLAPS

-----------------------------------------------------------------------------
(* Division. *)

(* Quotient and remainder. *)
LEMMA DivMod ==
    ASSUME NEW n \in Nat \ {0}, NEW x \in Int
    PROVE  x \div n \in Int /\ x % n \in 0 .. n - 1 /\ x = n * (x \div n) + (x % n)
  OBVIOUS

(* They are the only ones. *)
LEMMA DivModUnique ==
    ASSUME NEW n \in Nat \ {0}, NEW x \in Int, NEW q \in Int, NEW r \in 0 .. n - 1,
           x = n * q + r
    PROVE  x \div n = q /\ x % n = r
<1> DEFINE e == x \div n
           m == x % n
<1>1. e \in Int /\ m \in 0 .. n - 1 /\ x = n * e + m
  BY DivMod
<1> HIDE DEF e, m
<1>2. n * (e - q) = r - m
  BY <1>1
<1>3. e - q < 1
  <2>1. SUFFICES ASSUME e - q >= 1 PROVE FALSE
    BY <1>1
  <2>2. n * (e - q) >= n
    BY <2>1, <1>1
  <2> QED
    BY <2>2, <1>2, <1>1
<1>4. e - q > -1
  <2>1. SUFFICES ASSUME e - q <= -1 PROVE FALSE
    BY <1>1
  <2>2. n * (e - q) <= -n
    BY <2>1, <1>1
  <2> QED
    BY <2>2, <1>2, <1>1
<1>5. e = q
  BY <1>1, <1>3, <1>4
<1> QED
  BY <1>1, <1>5 DEF e, m

(* A multiple of the divisor goes into the quotient. *)
LEMMA DivModShift ==
    ASSUME NEW n \in Nat \ {0}, NEW x \in Int, NEW k \in Int
    PROVE  (x + n * k) % n = x % n /\ (x + n * k) \div n = x \div n + k
<1> DEFINE e == x \div n
           m == x % n
<1>1. e \in Int /\ m \in 0 .. n - 1 /\ x = n * e + m
  BY DivMod
<1> HIDE DEF e, m
<1>2. x + n * k = n * (e + k) + m /\ n * k \in Int
  BY <1>1
<1>3. (x + n * k) \div n = e + k /\ (x + n * k) % n = m
  BY <1>1, <1>2, DivModUnique
<1> QED
  BY <1>3 DEF e, m

-----------------------------------------------------------------------------
(* The watchdogs. *)

WdTypeOK ==
    /\ watchdog \in [Watched -> 0 .. Rounds] /\ silent \in [Watched -> 0 .. Rounds + 1]
    /\ iwdg \in Nat /\ hung \subseteq Thread /\ late \in BOOLEAN
    /\ device \in {"runs", "reset"}

\* A counter has lost at most one for each round its thread was silent, and the
\* IWDG goes without a restart only for a reason.
WdInv ==
    /\ WdTypeOK
    /\ \A t \in Watched : watchdog[t] + silent[t] >= Rounds
    /\ iwdg > 0 => late \/ "vtimer" \in hung
    /\ device = "reset" => iwdg > 0

(* What the code's 5 has of an arbitrary counter start. *)
LEMMA RoundsNat == Rounds \in Nat /\ Rounds > 0 /\ IwdgMin \in Nat /\ IwdgMin > 1
  BY WatchdogAssumption

(* main sets both counters before the threads run. *)
LEMMA WdInitInv == WatchdogInit => WdInv
<1> SUFFICES ASSUME WatchdogInit PROVE WdInv
  OBVIOUS
<1>1. Rounds \in Nat /\ Rounds \in 0 .. Rounds /\ 0 \in 0 .. Rounds + 1
  BY RoundsNat
<1>2. watchdog \in [Watched -> 0 .. Rounds] /\ silent \in [Watched -> 0 .. Rounds + 1]
  BY <1>1 DEF WatchdogInit
<1>3. iwdg \in Nat /\ hung \subseteq Thread /\ late \in BOOLEAN /\ device \in {"runs", "reset"}
  BY DEF WatchdogInit
<1> QED
  BY <1>1, <1>2, <1>3 DEF WatchdogInit, WdInv, WdTypeOK

(* A second: the counters lose one each, or the IWDG is not restarted. *)
LEMMA SecondInv == WdInv /\ Second => WdInv'
<1> SUFFICES ASSUME WdInv, Second PROVE WdInv'
  OBVIOUS
<1> USE DEF WdInv
<1>1. Rounds \in Nat /\ Rounds > 0
  BY RoundsNat
<1>2. \A t \in Watched : /\ watchdog[t] \in 0 .. Rounds /\ silent[t] \in 0 .. Rounds + 1
                         /\ silent'[t] = IF silent[t] <= Rounds THEN silent[t] + 1 ELSE silent[t]
  BY DEF WdTypeOK, Second
<1>3. silent' \in [Watched -> 0 .. Rounds + 1]
  BY <1>1, <1>2 DEF Second
<1>4. CASE "vtimer" \in hung
  <2>1. iwdg' = iwdg + 1 /\ watchdog' = watchdog /\ hung' = hung /\ device' = "runs"
    BY <1>4 DEF Second
  <2>2. late' \in BOOLEAN
    BY DEF Second, WdTypeOK
  <2> QED
    BY <1>1, <1>2, <1>3, <1>4, <2>1, <2>2 DEF WdTypeOK
<1>5. CASE "vtimer" \notin hung /\ \A t \in Watched : watchdog[t] > 0
  <2>1. /\ iwdg' = 0 /\ watchdog' = [t \in Watched |-> watchdog[t] - 1]
        /\ hung' = hung /\ device' = "runs"
    BY <1>5 DEF Second, Clear
  <2>2. late' \in BOOLEAN
    BY DEF Second, WdTypeOK
  <2>3. \A t \in Watched : watchdog[t] - 1 \in 0 .. Rounds /\ watchdog[t] - 1 + silent'[t] >= Rounds
    BY <1>1, <1>2, <1>5
  <2> QED
    BY <1>3, <2>1, <2>2, <2>3 DEF WdTypeOK
<1>6. CASE "vtimer" \notin hung /\ ~\A t \in Watched : watchdog[t] > 0
  <2>1. iwdg' = iwdg + 1 /\ watchdog' = watchdog /\ hung' = hung /\ device' = "runs"
    BY <1>6 DEF Second, Clear
  <2>2. PICK t \in Watched : watchdog[t] = 0
    BY <1>2, <1>6
  <2>3. silent'[t] > Rounds
    BY <1>1, <1>2, <2>2
  <2>4. iwdg' > 0
    BY <2>1 DEF WdTypeOK
  <2>5. late' = TRUE
    <3>1. CASE iwdg = 0
      <4>1. late' = (iwdg' > 0 /\ \E u \in Watched : silent'[u] > Rounds)
        BY <3>1 DEF Second
      <4> QED
        BY <2>3, <2>4, <4>1
    <3>2. CASE iwdg # 0
      <4>1. late = TRUE
        BY <1>6, <3>2 DEF WdTypeOK
      <4>2. late' = (iwdg' > 0 /\ late)
        BY <3>2 DEF Second
      <4> QED
        BY <2>4, <4>1, <4>2
    <3> QED
      BY <3>1, <3>2
  <2>6. iwdg' \in Nat /\ \A u \in Watched : watchdog[u] + silent'[u] >= Rounds
    BY <1>1, <1>2, <2>1 DEF WdTypeOK
  <2> QED
    BY <1>3, <2>1, <2>5, <2>6 DEF WdTypeOK
<1> QED
  BY <1>4, <1>5, <1>6

(* The other steps. *)
LEMMA WdNextInv == WdInv /\ [WatchdogNext]_wvars => WdInv'
<1> SUFFICES ASSUME WdInv, [WatchdogNext]_wvars PROVE WdInv'
  OBVIOUS
<1> USE RoundsNat DEF WdInv, WdTypeOK
<1>1. ASSUME NEW t \in Thread, Hang(t) PROVE WdInv'
  BY <1>1 DEF Hang
<1>2. ASSUME NEW t \in Watched, Feed(t) PROVE WdInv'
  BY <1>2 DEF Feed
<1>3. CASE Expire
  BY <1>3 DEF Expire
<1>4. CASE Restart
  <2>1. Rounds \in Nat /\ Rounds \in 0 .. Rounds /\ 0 \in 0 .. Rounds + 1
    OBVIOUS
  <2>2. watchdog' \in [Watched -> 0 .. Rounds] /\ silent' \in [Watched -> 0 .. Rounds + 1]
    BY <1>4, <2>1 DEF Restart
  <2>3. /\ iwdg' \in Nat /\ hung' \subseteq Thread /\ late' \in BOOLEAN
        /\ device' \in {"runs", "reset"}
    BY <1>4 DEF Restart
  <2> QED
    BY <1>4, <2>1, <2>2, <2>3 DEF Restart
<1>5. CASE UNCHANGED wvars
  BY <1>5 DEF wvars
<1> QED
  BY <1>1, <1>2, <1>3, <1>4, <1>5, SecondInv DEF WatchdogNext

(* For any counter start and any IWDG: the device is reset only after a thread *)
(* was silent for more than Rounds rounds or pll_thread itself hangs; threads  *)
(* that keep up are never reset.                                               *)
THEOREM NeverFalselyReset == WatchdogSpec => []NoFalseReset
<1>1. WdInv => NoFalseReset
  BY DEF WdInv, NoFalseReset
<1> QED
  BY <1>1, WdInitInv, WdNextInv, PTL DEF WatchdogSpec

-----------------------------------------------------------------------------
(* The quantisation corrections. *)

QTypeOK ==
    /\ leadlag \in {"LEADING", "LAGGING"}
    /\ stage \in {"pulse", "message", "round", "late"}
    /\ captured \in BOOLEAN /\ testing \in BOOLEAN
    /\ sent \in BOOLEAN /\ sentBefore \in BOOLEAN
    /\ steady \in 0 .. 2

\* What a measured round leaves behind: nothing deferred from an earlier second,
\* and after two of them nothing but what the receiver sent in this one.
QInv ==
    /\ QTypeOK
    /\ stage = "message" => ~sent
    /\ leadlag = "LAGGING" => quant_corr_deferred = Zero
    /\ leadlag = "LEADING" /\ steady >= 1 =>
          quant_corr_deferred = IF stage = "round" /\ sent THEN 1 ELSE Zero
    /\ leadlag = "LEADING" /\ steady = 2 =>
          quant_corr = IF stage \in {"late", "pulse"} THEN IF sent THEN 1 ELSE Zero
                       ELSE IF sentBefore THEN 0 ELSE Zero
    /\ leadlag = "LAGGING" /\ steady >= 1 =>
          quant_corr = IF stage = "round" /\ sent THEN 0 ELSE Zero

(* For both kinds of receiver: from the third ordinary second on a pulse is    *)
(* measured with its own correction, or with none if its message was lost.     *)
THEOREM CorrectionsBelong == QuantSpec => []CorrectionBelongs
<1>1. QuantInit => QInv
  <2> SUFFICES ASSUME QuantInit PROVE QInv
    OBVIOUS
  <2>0. FALSE \in BOOLEAN /\ 0 \in 0 .. 2
    OBVIOUS
  <2>1. QTypeOK
    BY <2>0 DEF QuantInit, QTypeOK
  <2> QED
    BY <2>1 DEF QuantInit, QInv
<1>2. QInv /\ [QuantNext]_qvars => QInv'
  <2> SUFFICES ASSUME QInv, [QuantNext]_qvars PROVE QInv'
    OBVIOUS
  <2> USE DEF QInv, QTypeOK
  <2>1. CASE PulseOrNot
    <3>1. QTypeOK' /\ stage' = "message" /\ sent' = FALSE /\ sentBefore' = sent
      BY <2>1 DEF PulseOrNot
    <3>2. Aged(Zero) = Zero /\ Aged(1) = 0
      BY DEF Aged, Zero, Oldest
    <3> QED
      BY <2>1, <3>1, <3>2 DEF PulseOrNot
  <2>2. CASE Message
    BY <2>2 DEF Message, vtimer_set_correction
  <2>3. CASE NoMessage
    BY <2>3 DEF NoMessage
  <2>4. CASE MeasureRound
    <3>1. /\ stage = "round" /\ stage' = "late" /\ captured' = FALSE
          /\ UNCHANGED <<leadlag, testing, sent, sentBefore>>
      BY <2>4 DEF MeasureRound
    <3>2. \/ /\ quant_corr' = quant_corr_deferred /\ quant_corr_deferred' = Zero
             /\ steady' = IF steady < 2 THEN steady + 1 ELSE 2
          \/ steady' = 0 /\ quant_corr_deferred' = quant_corr_deferred
      BY <2>4 DEF MeasureRound, vtimer_get_frac_delta
    <3>3. captured' \in BOOLEAN
      BY <3>1
    <3>4. steady' \in 0 .. 2
      <4>1. steady \in 0 .. 2
        OBVIOUS
      <4> QED
        BY <3>2, <4>1
    <3>5. QTypeOK'
      BY <3>1, <3>3, <3>4
    <3>6. CASE /\ quant_corr' = quant_corr_deferred /\ quant_corr_deferred' = Zero
               /\ steady' = IF steady < 2 THEN steady + 1 ELSE 2
      <4>1. steady' >= 1 /\ (steady' = 2 => steady >= 1)
        BY <3>6
      <4> QED
        BY <3>1, <3>6, <3>5, <4>1
    <3>7. CASE steady' = 0 /\ quant_corr_deferred' = quant_corr_deferred
      BY <3>1, <3>7, <3>5
    <3> QED
      BY <3>2, <3>6, <3>7
  <2>5. CASE ToggleTest
    BY <2>5 DEF ToggleTest
  <2>6. CASE UNCHANGED qvars
    BY <2>6 DEF qvars
  <2> QED
    BY <2>1, <2>2, <2>3, <2>4, <2>5, <2>6 DEF QuantNext
<1>3. QInv => CorrectionBelongs
  BY DEF QInv, QTypeOK, CorrectionBelongs, Due
<1> QED
  BY <1>1, <1>2, <1>3, PTL DEF QuantSpec

-----------------------------------------------------------------------------
(* The disciplined clock and the NTP server. *)

\* The vtimer's seconds begin with the GPS seconds.
Fine == off % K = 0

\* The rounds come in the last slot of each GPS second, and what they have been told
\* since the last one is about the second that is ending.
Cadence ==
    /\ utc \in {NoUtc, 0}
    /\ at = "apply" => phase = K - 1
    /\ at = "sleep" =>
          \/ phase = K - 1 /\ timer = K /\ ~cap /\ utc = NoUtc
          \/ /\ timer < K /\ phase = K - 1 - timer
             /\ cap => gps
             /\ gps /\ told => utc = 0

\* The vtimer is right, or has not been told the time yet.
Settled == Fine /\ Cadence /\ ("TOD_OK" \in status => off = 0)

\* What the timer and the pulses say of each other in the states of pll_math.
PllInv(p) ==
    /\ p.dl >= -1
    /\ p.st = 1 => p.pulses + p.dl >= DL0
    /\ p.st = 2 => p.pulses + p.dl >= DL0 + MJ + 1
    /\ p.st >= 3 => p.pulses >= DL0 + MJ + 2

\* A clock off by a slot is stepped before its pulses count for anything.
PulsesInv ==
    /\ ~Fine => pll.pulses <= desync
    /\ Fine /\ pll.pulses >= 1 /\ at = "sleep" => (phase + timer) % K = K - 1
    /\ Fine /\ pll.pulses >= 2 =>
          /\ at = "sleep" => Cadence
          /\ at = "apply" => phase = K - 1
    /\ Fine /\ pll.pulses >= 3 =>
          /\ at = "sleep" => Settled
          /\ at = "apply" => Cadence /\ ("TOD_OK" \in status => off = 0 \/ utc = 0)

EnvInv ==
    /\ gps /\ phase = K - 1 => told
    /\ at = "apply" => ~cap /\ timer = 0

HoldInv ==
    "PLL_OK" \in status =>
        /\ at = "sleep" => age + timer < K * (Holdover + 1)
        /\ at = "apply" => age < K * Holdover

ClockInv ==
    /\ TypeOK /\ EnvInv /\ PllInv(pll) /\ PulsesInv /\ HoldInv
    /\ "PLL_OK" \in status => Settled

NtpInv == ClockInv /\ reply \in {NoReply, 1, 16} /\ (reply = 1 => Settled /\ off = 0)

(* Numbers of the clock's model. *)
LEMMA ClockNumbers ==
    /\ K \in Nat \ {0} /\ K >= 4 /\ DL0 \in Nat /\ MJ \in Nat /\ DL0 >= DesyncLimit
    /\ DesyncLimit \in Nat /\ DesyncLimit >= 1 /\ DL0 + MJ + 2 >= 3
    /\ Holdover \in Nat /\ K * Holdover \in Nat /\ K * Holdover > 0
    /\ K * (Holdover + 1) = (K * Holdover) + K
    /\ AgeCap \in Nat
<1>1. /\ K \in Nat \ {0} /\ K >= 4 /\ DL0 \in Nat /\ MJ \in Nat /\ DL0 >= DesyncLimit
      /\ DesyncLimit \in Nat /\ DesyncLimit >= 1 /\ Holdover \in Nat /\ Holdover >= 2
      /\ PpsTimeout \in Nat
  BY SlotAssumption, LimitAssumption, PllAssumption
<1>2. DL0 + MJ + 2 >= 3
  BY <1>1
<1>3. K * Holdover \in Nat /\ K * Holdover > 0
  BY <1>1
<1>4. K * (Holdover + 1) = (K * Holdover) + K
  BY <1>1
<1>5. AgeCap \in Nat
  BY <1>1 DEF AgeCap
<1> QED
  BY <1>1, <1>2, <1>3, <1>4, <1>5

(* The slots of a second. *)
LEMMA Slots == K \in Nat \ {0} /\ K >= 4
  BY SlotAssumption

(* vtimer_get_frac_delta is zero where the seconds agree, and otherwise steps  *)
(* to the nearest one.                                                        *)
LEMMA DeltaRight ==
    ASSUME off \in Int
    PROVE  Delta \in Int /\ (Far <=> ~Fine) /\ (off - Delta) % K = 0
<1> USE ClockNumbers
<1> DEFINE m == off % K
           e == off \div K
<1>1. e \in Int /\ m \in 0 .. K - 1 /\ off = K * e + m
  BY DivMod
<1>2. Delta = IF 2 * m > K THEN m - K ELSE m
  BY DEF Delta
<1>3. Fine <=> m = 0
  BY DEF Fine
<1> HIDE DEF e, m
<1>4. Delta \in Int /\ (Far <=> ~Fine)
  BY <1>1, <1>2, <1>3 DEF Far
<1>5. \A k \in Int : (K * k) % K = 0
  <2> TAKE k \in Int
  <2>1. K * k \in Int /\ K * k = K * k + 0 /\ 0 \in 0 .. K - 1
    OBVIOUS
  <2> QED
    BY <2>1, DivModUnique
<1>6. CASE 2 * m > K
  <2>1. off - Delta = K * (e + 1)
    BY <1>1, <1>2, <1>6
  <2> QED
    BY <1>1, <1>4, <1>5, <2>1, SMTT(40)
<1>7. CASE ~(2 * m > K)
  <2>1. off - Delta = K * e
    BY <1>1, <1>2, <1>7
  <2> QED
    BY <1>1, <1>4, <1>5, <2>1
<1> QED
  BY <1>1, <1>4, <1>6, <1>7

(* pll_math keeps its account of the pulses, starts it over at a reset, and    *)
(* never counts a pulse twice.                                                *)
LEMMA PllMathRight ==
    ASSUME NEW p \in [st : 0 .. 5, dl : Int, pulses : 0 .. DL0 + MJ + 2], PllInv(p),
           NEW q \in PllMath(p)
    PROVE  /\ q \in [st : 0 .. 5, dl : Int, pulses : 0 .. DL0 + MJ + 2] /\ PllInv(q)
           /\ q.pulses >= 1 /\ q.pulses <= p.pulses + 1
           /\ p.st = 0 => q.pulses = 1
<1> DEFINE P == [st : 0 .. 5, dl : Int, pulses : 0 .. DL0 + MJ + 2]
           Update(r, d, n) == [r EXCEPT !.dl = d, !.pulses = n]
           Counted(r) == /\ r \in P /\ PllInv(r) /\ r.st > 0
                         /\ r.pulses >= 1 /\ r.pulses <= p.pulses + 1
                         /\ p.st = 0 => r.pulses = 1
<1> USE ClockNumbers
<1>0. ASSUME NEW r \in P, NEW d \in Int, NEW n \in 0 .. DL0 + MJ + 2
      PROVE  /\ Update(r, d, n) \in P /\ Update(r, d, n).st = r.st
             /\ Update(r, d, n).dl = d /\ Update(r, d, n).pulses = n
  OBVIOUS
<1>1. ASSUME NEW r \in P, PllInv(r), r = p \/ (p.st # 0 /\ r.st = 0 /\ r.pulses = p.pulses)
      PROVE  Counted(PllCount(r))
  <2> DEFINE c == PllCount(r)
  <2>1. CASE r.st = 0
    <3> DEFINE z == [st |-> 1, dl |-> DL0, pulses |-> 0]
    <3>1. c = Update(z, IF z.dl < 0 THEN z.dl ELSE z.dl - 1, Capped(z.pulses + 1, DL0 + MJ + 2))
      BY <2>1 DEF PllCount
    <3>2. z \in P /\ z.st = 1 /\ z.dl = DL0 /\ z.pulses = 0
      OBVIOUS
    <3> HIDE DEF c, z, Update
    <3>3. c = Update(z, DL0 - 1, 1) /\ DL0 - 1 \in Int /\ 1 \in 0 .. DL0 + MJ + 2
      BY <3>1, <3>2 DEF Capped
    <3>4. c \in P /\ c.st = 1 /\ c.dl = DL0 - 1 /\ c.pulses = 1
      BY <1>0, <3>2, <3>3
    <3>5. PllInv(c)
      BY <3>4 DEF PllInv
    <3>6. Counted(c)
      BY <1>1, <3>4, <3>5
    <3> QED
      BY <3>6 DEF c
  <2>2. CASE r.st # 0
    <3> DEFINE d == IF r.dl < 0 THEN r.dl ELSE r.dl - 1
               n == IF r.pulses + 1 < DL0 + MJ + 2 THEN r.pulses + 1 ELSE DL0 + MJ + 2
    <3>1. c = Update(r, d, n)
      BY <2>2 DEF PllCount, Capped
    <3>2. d \in Int /\ n \in 0 .. DL0 + MJ + 2
      OBVIOUS
    <3> HIDE DEF c, d, n, Update
    <3>3. c \in P /\ c.st = r.st /\ c.dl = d /\ c.pulses = n
      BY <1>0, <3>1, <3>2
    <3>4. r = p /\ c \in P /\ c.st = r.st
          /\ c.dl = (IF r.dl < 0 THEN r.dl ELSE r.dl - 1)
          /\ c.pulses = (IF r.pulses + 1 < DL0 + MJ + 2 THEN r.pulses + 1 ELSE DL0 + MJ + 2)
      BY <1>1, <2>2, <3>3 DEF d, n
    <3>5. /\ r.st \in 0 .. 5 /\ r.dl \in Int /\ r.pulses \in 0 .. DL0 + MJ + 2
          /\ r.dl >= -1
      BY <1>1 DEF PllInv
    <3>6. PllInv(c)
      BY <1>1, <2>2, <3>4, <3>5 DEF PllInv
    <3>7. Counted(c)
      BY <2>2, <3>4, <3>5, <3>6
    <3> QED
      BY <3>7 DEF c
  <2> QED
    BY <2>1, <2>2
<1>2. ASSUME NEW r, Counted(r), NEW t \in PllTimer(r)
      PROVE  t \in P /\ PllInv(t) /\ t.pulses = r.pulses
  <2>1. /\ r.st \in 1 .. 5 /\ r.dl \in Int /\ r.dl >= -1 /\ r.pulses \in 0 .. DL0 + MJ + 2
        /\ r.st = 1 => r.pulses + r.dl >= DL0
        /\ r.st = 2 => r.pulses + r.dl >= DL0 + MJ + 1
        /\ r.st >= 3 => r.pulses >= DL0 + MJ + 2
    BY <1>2 DEF PllInv
  <2>2. \A s \in 0 .. 5 : /\ PllGoto(r, s) \in P /\ PllGoto(r, s).st = s
                          /\ PllGoto(r, s).dl = MJ /\ PllGoto(r, s).pulses = r.pulses
    <3> TAKE s \in 0 .. 5
    <3>1. r \in P /\ MJ \in Int
      BY <1>2
    <3> QED
      BY <3>1 DEF PllGoto
  <2>3. CASE t = r
    BY <1>2, <2>3
  <2>4. CASE r.st >= 3 /\ \E s \in 3 .. 5 : t = PllGoto(r, s)
    BY <2>1, <2>2, <2>4 DEF PllInv
  <2>5. CASE t = PllReset(r)
    BY <1>2, <2>1, <2>5 DEF PllReset, PllInv
  <2>6. CASE r.st = 1 /\ r.dl < 0 /\ t = PllGoto(r, 2)
    BY <2>1, <2>2, <2>6 DEF PllInv
  <2>7. CASE r.st = 2 /\ r.dl < 0 /\ t = PllGoto(r, 3)
    BY <2>1, <2>2, <2>7 DEF PllInv
  <2>8. CASE r.st = 4 /\ t = [r EXCEPT !.st = 5]
    BY <1>2, <2>1, <2>8 DEF PllInv
  <2>9. \/ t = r \/ t = PllReset(r)
        \/ r.st >= 3 /\ \E s \in 3 .. 5 : t = PllGoto(r, s)
        \/ r.st = 1 /\ r.dl < 0 /\ t = PllGoto(r, 2)
        \/ r.st = 2 /\ r.dl < 0 /\ t = PllGoto(r, 3)
        \/ r.st = 4 /\ t = [r EXCEPT !.st = 5]
    BY <1>2, <2>1 DEF PllTimer, PllExpired
  <2> QED
    BY <2>3, <2>4, <2>5, <2>6, <2>7, <2>8, <2>9
<1>3. /\ PllReset(p) \in P /\ PllReset(p).st = 0 /\ PllReset(p).pulses = p.pulses
      /\ PllReset(p).dl = p.dl
  BY DEF PllReset
<1>4. PllInv(PllReset(p))
  BY <1>3 DEF PllInv
<1>5. CASE q \in PllTimer(PllCount(p))
  <2>1. Counted(PllCount(p))
    BY <1>1
  <2> QED
    BY <1>2, <1>5, <2>1
<1>6. CASE p.st >= 3 /\ q \in PllTimer(PllCount(PllReset(p)))
  <2>1. Counted(PllCount(PllReset(p)))
    BY <1>1, <1>3, <1>4, <1>6
  <2> QED
    BY <1>2, <1>6, <2>1
<1> QED
  BY <1>5, <1>6 DEF PllMath

(* The slot after the last one is slot 0. *)
LEMMA NextSlot ==
    ASSUME phase \in 0 .. K - 1
    PROVE  (phase + 1) % K = IF phase = K - 1 THEN 0 ELSE phase + 1
<1> USE ClockNumbers
<1>1. CASE phase = K - 1
  <2>1. phase + 1 = K * 1 + 0 /\ 0 \in 0 .. K - 1 /\ phase + 1 \in Int
    BY <1>1
  <2> QED
    BY <1>1, <2>1, DivModUnique
<1>2. CASE phase # K - 1
  <2>1. phase + 1 = K * 0 + (phase + 1) /\ phase + 1 \in 0 .. K - 1
    BY <1>2
  <2> QED
    BY <1>2, <2>1, DivModUnique
<1> QED
  BY <1>1, <1>2

(* What a round reads off a vtimer whose seconds are the GPS seconds. *)
LEMMA FineNumbers ==
    ASSUME phase \in 0 .. K - 1, off \in Int, Fine
    PROVE  /\ (phase + off) % K = phase
           /\ VtSecond \in Int /\ off = K * VtSecond
           /\ SlotsToSleep = (2 * K) - 1 - phase
<1> USE ClockNumbers
<1>1. off \div K \in Int /\ off = K * (off \div K)
  BY DivMod DEF Fine
<1>2. phase + off = K * (off \div K) + phase
  BY <1>1
<1>3. phase + off \in Int
  OBVIOUS
<1>4. (phase + off) \div K = off \div K /\ (phase + off) % K = phase
  BY <1>1, <1>2, <1>3, DivModUnique
<1> QED
  BY <1>1, <1>4 DEF VtSecond, SlotsToSleep

(* A step by whole seconds leaves the fraction alone. *)
LEMMA WholeSeconds ==
    ASSUME phase \in 0 .. K - 1, off \in Int, utc \in Int
    PROVE  /\ VtSecond \in Int /\ off + K * (utc - VtSecond) \in Int
           /\ (off + K * (utc - VtSecond)) % K = off % K
<1>0. K \in Nat \ {0}
  BY ClockNumbers
<1>1. VtSecond \in Int
  BY <1>0, DivMod DEF VtSecond
<1> DEFINE k == utc - VtSecond
<1>2. k \in Int /\ K * k \in Int
  BY <1>0, <1>1
<1> HIDE DEF k
<1>3. (off + K * k) % K = off % K
  BY <1>0, <1>2, DivModShift
<1> QED
  BY <1>1, <1>2, <1>3 DEF k

(* A slot, in numbers. *)
LEMMA SlotNumbers ==
    ASSUME TypeOK, Slot
    PROVE  /\ at = "sleep" /\ timer \in 1 .. (2 * K) - 1 /\ timer' = timer - 1
           /\ phase \in 0 .. K - 1 /\ phase' = (IF phase = K - 1 THEN 0 ELSE phase + 1)
           /\ phase # K - 1 => UNCHANGED <<gps, told, cap, utc>>
           /\ phase = K - 1 =>
                 /\ gps' \in BOOLEAN /\ told' = FALSE /\ (cap' <=> cap \/ gps')
                 /\ utc' = IF utc = NoUtc THEN NoUtc ELSE utc - 1
           /\ UNCHANGED <<off, at, status, pll, desync, test>>
           /\ age' \in 0 .. AgeCap /\ age' <= age + 1
<1> USE ClockNumbers
<1>1. phase \in 0 .. K - 1 /\ timer \in 0 .. (2 * K) - 1 /\ age \in 0 .. AgeCap
  BY DEF TypeOK
<1>2. phase' = IF phase = K - 1 THEN 0 ELSE phase + 1
  BY <1>1, NextSlot DEF Slot
<1>3. at = "sleep" /\ timer > 0 /\ timer' = timer - 1
      /\ UNCHANGED <<off, at, status, pll, desync, test>>
  BY DEF Slot
<1>4. age' \in 0 .. AgeCap /\ age' <= age + 1
  BY <1>1 DEF Slot, Capped
<1>5. phase # K - 1 => UNCHANGED <<gps, told, cap, utc>>
  BY <1>1 DEF Slot
<1>6. phase = K - 1 =>
                 /\ gps' \in BOOLEAN /\ told' = FALSE /\ (cap' <=> cap \/ gps')
                 /\ utc' = IF utc = NoUtc THEN NoUtc ELSE utc - 1
  <2> SUFFICES ASSUME phase = K - 1
               PROVE  /\ gps' \in BOOLEAN /\ told' = FALSE /\ (cap' <=> cap \/ gps')
                      /\ utc' = IF utc = NoUtc THEN NoUtc ELSE utc - 1
    OBVIOUS
  <2>1. ~(phase < K - 1)
    BY <1>1
  <2>2. /\ gps' \in BOOLEAN /\ told' = FALSE /\ cap' = (cap \/ gps')
        /\ utc' = IF utc = NoUtc THEN NoUtc ELSE utc - 1
    BY <2>1 DEF Slot
  <2> QED
    BY <2>2
<1> QED
  BY <1>1, <1>2, <1>3, <1>4, <1>5, <1>6

(* The cadence outlasts every slot and every message. *)
LEMMA CadenceStays ==
    ASSUME TypeOK, EnvInv, Cadence, Slot \/ SetUtc
    PROVE  Cadence'
<1> USE ClockNumbers DEF NoUtc
<1>1. CASE Slot
  <2>1. /\ at = "sleep" /\ timer \in 1 .. (2 * K) - 1 /\ timer' = timer - 1
        /\ phase \in 0 .. K - 1 /\ phase' = (IF phase = K - 1 THEN 0 ELSE phase + 1)
        /\ phase # K - 1 => UNCHANGED <<gps, told, cap, utc>>
        /\ phase = K - 1 =>
              /\ gps' \in BOOLEAN /\ told' = FALSE /\ (cap' <=> cap \/ gps')
              /\ utc' = IF utc = NoUtc THEN NoUtc ELSE utc - 1
        /\ at' = at
    BY <1>1, SlotNumbers
  <2>2. CASE phase = K - 1
    <3>1. timer = K /\ ~cap /\ utc = NoUtc
      BY <2>1, <2>2 DEF Cadence
    <3> QED
      BY <2>1, <2>2, <3>1 DEF Cadence
  <2>3. CASE phase # K - 1
    BY <2>1, <2>3 DEF Cadence
  <2> QED
    BY <2>2, <2>3
<1>2. CASE SetUtc
  <2>1. gps /\ ~told /\ told' = TRUE /\ utc' = 0 /\ UNCHANGED <<phase, gps, at, timer, cap>>
    BY <1>2 DEF SetUtc
  <2>2. phase # K - 1
    BY <2>1 DEF EnvInv
  <2> QED
    BY <2>1, <2>2 DEF Cadence, TypeOK
<1> QED
  BY <1>1, <1>2

(* Once right, the clock stays right. *)
LEMMA SettledStays ==
    ASSUME TypeOK, EnvInv, Settled, Next
    PROVE  Settled' /\ (off = 0 => off' = 0)
<1> USE ClockNumbers
<1>0. off \in Int /\ phase \in 0 .. K - 1 /\ timer \in 0 .. (2 * K) - 1 /\ Fine /\ Cadence
  BY DEF TypeOK, Settled
<1>1. CASE Slot
  BY <1>0, <1>1, SlotNumbers, CadenceStays DEF Settled, Fine
<1>2. CASE SetUtc
  <2>1. UNCHANGED <<off, status>>
    BY <1>2 DEF SetUtc
  <2> QED
    BY <1>0, <1>2, <2>1, CadenceStays DEF Settled, Fine
<1>3. CASE SetHoldoverTest
  BY <1>3 DEF SetHoldoverTest, env, Settled, Fine, Cadence
<1>4. CASE JudgePulse
  <2>1. ~Far /\ ~Stepping
    BY <1>0, DeltaRight DEF Stepping
  <2>2. /\ at = "sleep" /\ timer = 0 /\ at' = "apply" /\ cap' = FALSE
        /\ UNCHANGED <<phase, gps, told, utc>>
    BY <1>4 DEF JudgePulse, env
  <2>3. off' = off
    BY <1>0, <1>4, <2>1 DEF JudgePulse, vtimer_step
  <2>4. "TOD_OK" \in status' => "TOD_OK" \in status
    BY <1>4 DEF JudgePulse, JudgeLock
  <2>5. Cadence'
    BY <1>0, <2>2 DEF Cadence
  <2> QED
    BY <1>0, <2>3, <2>4, <2>5 DEF Settled, Fine
<1>5. CASE JudgeNoPulse
  <2>1. /\ at = "sleep" /\ timer = 0 /\ at' = "apply" /\ UNCHANGED <<phase, gps, told, utc, off>>
    BY <1>5 DEF JudgeNoPulse, env
  <2>2. "TOD_OK" \in status' => "TOD_OK" \in status
    BY <1>5 DEF JudgeNoPulse
  <2>3. Cadence'
    BY <1>0, <2>1 DEF Cadence
  <2> QED
    BY <1>0, <2>1, <2>2, <2>3 DEF Settled, Fine
<1>6. CASE Apply
  <2>1. /\ VtSecond \in Int /\ off = K * VtSecond /\ SlotsToSleep = (2 * K) - 1 - phase
    BY <1>0, FineNumbers
  <2>2. /\ at = "apply" /\ at' = "sleep" /\ timer' = SlotsToSleep
        /\ UNCHANGED <<phase, gps, told, cap>>
    BY <1>6 DEF Apply, env
  <2>3. phase = K - 1 /\ ~cap /\ utc \in {NoUtc, 0}
    BY <1>0, <2>2 DEF Cadence, EnvInv
  <2>4. timer' = K /\ phase' = K - 1 /\ cap' = cap
    BY <2>1, <2>2, <2>3
  <2>5. CASE utc = NoUtc
    <3>1. UNCHANGED <<off, utc, status>>
      BY <1>6, <2>5 DEF Apply
    <3>2. Cadence'
      BY <2>2, <2>3, <2>4, <2>5, <3>1 DEF Cadence
    <3> QED
      BY <3>1, <3>2 DEF Settled, Fine
  <2>6. CASE utc # NoUtc
    <3>1. utc = 0 /\ utc' = NoUtc /\ off' = off + K * (0 - VtSecond)
      BY <1>6, <2>3, <2>6 DEF Apply, vtimer_step
    <3>2. off' = 0
      BY <2>1, <3>1
    <3>3. Cadence'
      BY <2>2, <2>3, <2>4, <3>1 DEF Cadence
    <3>4. 0 % K = 0
      OBVIOUS
    <3> QED
      BY <3>2, <3>3, <3>4 DEF Settled, Fine
  <2> QED
    BY <2>5, <2>6
<1> QED
  BY <1>1, <1>2, <1>3, <1>4, <1>5, <1>6 DEF Next

(* The clock starts anywhere, unlocked and untold. *)
LEMMA ClockInitInv == Init => ClockInv
<1> SUFFICES ASSUME Init PROVE ClockInv
  OBVIOUS
<1> USE ClockNumbers
<1>1. off \in Int
  BY LimitAssumption DEF Init
<1>2. pll \in [st : 0 .. 5, dl : Int, pulses : 0 .. DL0 + MJ + 2]
  BY DEF Init
<1>3. FALSE \in BOOLEAN /\ 0 \in 0 .. (2 * K) - 1 /\ 0 \in 0 .. DesyncLimit - 1 /\ 0 \in 0 .. AgeCap
  OBVIOUS
<1>4. TypeOK
  <2>1. /\ phase \in 0 .. K - 1 /\ at \in {"sleep", "apply"} /\ utc \in Int /\ utc <= NoUtc
        /\ status \subseteq {"PPS_OK", "TOD_OK", "PLL_OK"}
    BY DEF Init, NoUtc
  <2>2. gps \in BOOLEAN /\ told \in BOOLEAN /\ test \in BOOLEAN /\ cap \in BOOLEAN
    BY <1>3 DEF Init
  <2>3. timer \in 0 .. 2 * K - 1 /\ desync \in 0 .. DesyncLimit - 1 /\ age \in 0 .. AgeCap
    BY <1>3 DEF Init
  <2> QED
    BY <1>1, <1>2, <2>1, <2>2, <2>3 DEF TypeOK
<1>5. EnvInv /\ HoldInv
  BY DEF Init, EnvInv, HoldInv
<1>6. pll.st = 0 /\ pll.dl = 0 /\ pll.pulses = 0 /\ desync = 0
  BY DEF Init
<1>7. PllInv(pll) /\ PulsesInv
  BY <1>6 DEF PllInv, PulsesInv
<1> QED
  BY <1>4, <1>5, <1>7 DEF Init, ClockInv

(* A slot passes. *)
LEMMA SlotInv == ClockInv /\ Slot => ClockInv'
<1> SUFFICES ASSUME ClockInv, Slot PROVE ClockInv'
  OBVIOUS
<1> USE Slots
<1>1. TypeOK /\ EnvInv /\ PllInv(pll) /\ PulsesInv /\ HoldInv
  BY DEF ClockInv
<1>2. /\ at = "sleep" /\ timer \in 1 .. (2 * K) - 1 /\ timer' = timer - 1
      /\ phase \in 0 .. K - 1 /\ phase' = (IF phase = K - 1 THEN 0 ELSE phase + 1)
      /\ phase # K - 1 => UNCHANGED <<gps, told, cap, utc>>
      /\ phase = K - 1 =>
            /\ gps' \in BOOLEAN /\ told' = FALSE /\ (cap' <=> cap \/ gps')
            /\ utc' = IF utc = NoUtc THEN NoUtc ELSE utc - 1
      /\ UNCHANGED <<off, at, status, pll, desync, test>>
      /\ age' \in 0 .. AgeCap /\ age' <= age + 1
  BY <1>1, SlotNumbers
<1>3. TypeOK'
  <2>1. phase' \in 0 .. K - 1 /\ timer' \in 0 .. (2 * K) - 1
    BY <1>2
  <2>2. gps' \in BOOLEAN /\ told' \in BOOLEAN
    BY <1>1, <1>2 DEF TypeOK
  <2>3. utc' \in Int /\ utc' <= NoUtc
    BY <1>1, <1>2 DEF TypeOK, NoUtc
  <2>4. cap' \in BOOLEAN
    BY <1>1 DEF TypeOK, Slot
  <2> QED
    BY <1>1, <1>2, <2>1, <2>2, <2>3, <2>4 DEF TypeOK
<1>4. EnvInv'
  <2>1. ASSUME phase' = K - 1, gps' PROVE told'
    <3>0. phase # K - 1
      BY <1>2, <2>1
    <3>1. phase = K - 2
      BY <1>2, <2>1, <3>0
    <3>2. gps' = gps /\ told' = told
      BY <1>2, <3>0
    <3> QED
      BY <2>1, <3>1, <3>2 DEF Slot
  <2> QED
    BY <1>2, <2>1 DEF EnvInv
<1>5. PllInv(pll)'
  BY <1>1, <1>2 DEF PllInv
<1>6. HoldInv'
  <2>1. age \in Nat /\ age' \in Nat
    BY <1>1, <1>2, ClockNumbers DEF TypeOK
  <2>2. age' + timer' <= age + timer
    BY <1>2, <2>1
  <2>3. K * (Holdover + 1) \in Int
    BY ClockNumbers
  <2>4. "PLL_OK" \in status => age + timer < K * (Holdover + 1)
    BY <1>1, <1>2 DEF HoldInv
  <2>5. "PLL_OK" \in status => age' + timer' < K * (Holdover + 1)
    BY <1>2, <2>1, <2>2, <2>3, <2>4
  <2> QED
    BY <1>2, <2>5 DEF HoldInv
<1>7. Settled => Settled'
  BY <1>1, SettledStays DEF Next
<1>8. PulsesInv'
  <2>1. (Fine <=> Fine') /\ pll'.pulses = pll.pulses /\ desync' = desync
    BY <1>2 DEF Fine
  <2>2. Cadence => Cadence'
    BY <1>1, CadenceStays
  <2>3. (phase + timer) % K = K - 1 => (phase' + timer') % K = K - 1
    <3>1. CASE phase = K - 1
      <4> DEFINE x == phase + timer
                 k == -1
      <4>1. phase' + timer' = x + K * k /\ x \in Int /\ k \in Int
        BY <1>2, <3>1
      <4> HIDE DEF x, k
      <4>2. (x + K * k) % K = x % K
        BY <4>1, DivModShift
      <4> QED
        BY <4>1, <4>2 DEF x
    <3>2. CASE phase # K - 1
      <4>1. phase' + timer' = phase + timer
        BY <1>2, <3>2
      <4> QED
        BY <4>1
    <3> QED
      BY <3>1, <3>2
  <2> QED
    BY <1>1, <1>2, <1>7, <2>1, <2>2, <2>3 DEF PulsesInv
<1> QED
  BY <1>2, <1>3, <1>4, <1>5, <1>6, <1>7, <1>8 DEF ClockInv

(* A message arrives. *)
LEMMA SetUtcInv == ClockInv /\ SetUtc => ClockInv'
<1> SUFFICES ASSUME ClockInv, SetUtc PROVE ClockInv'
  OBVIOUS
<1> USE Slots
<1>1. TypeOK /\ EnvInv /\ PllInv(pll) /\ PulsesInv /\ HoldInv
  BY DEF ClockInv
<1>2. /\ gps /\ ~told /\ told' = TRUE /\ utc' = 0
      /\ UNCHANGED <<phase, gps, off, at, timer, cap, status, pll, desync, age, test>>
  BY DEF SetUtc
<1>3. TypeOK' /\ EnvInv' /\ PllInv(pll)' /\ HoldInv'
  <2>1. TRUE \in BOOLEAN /\ 0 \in Int /\ 0 <= NoUtc
    BY DEF NoUtc
  <2>2. TypeOK'
    BY <1>1, <1>2, <2>1 DEF TypeOK
  <2>3. EnvInv' /\ HoldInv'
    BY <1>1, <1>2 DEF EnvInv, HoldInv
  <2>4. PllInv(pll)'
    BY <1>1, <1>2 DEF PllInv
  <2> QED
    BY <2>2, <2>3, <2>4
<1>4. (Settled => Settled') /\ (Cadence => Cadence') /\ (Fine <=> Fine')
  BY <1>1, <1>2, SettledStays, CadenceStays DEF Next, Fine
<1>5. phase # K - 1
  BY <1>1, <1>2 DEF EnvInv
<1>6. PulsesInv'
  <2>1. at = "apply" /\ Fine => pll.pulses < 2
    BY <1>1, <1>5 DEF PulsesInv, TypeOK
  <2> QED
    BY <1>1, <1>2, <1>4, <1>5, <2>1 DEF PulsesInv, TypeOK
<1> QED
  BY <1>2, <1>3, <1>4, <1>6 DEF ClockInv

(* The command line switches the test. *)
LEMMA TestInv == ClockInv /\ SetHoldoverTest => ClockInv'
<1> SUFFICES ASSUME ClockInv, SetHoldoverTest PROVE ClockInv'
  OBVIOUS
<1>1. UNCHANGED <<phase, gps, told, off, at, timer, cap, utc, status, pll, desync, age>>
  BY DEF SetHoldoverTest, env
<1>2. test' \in BOOLEAN
  BY DEF SetHoldoverTest, ClockInv, TypeOK
<1>3. TypeOK' /\ EnvInv'
  BY <1>1, <1>2 DEF ClockInv, TypeOK, EnvInv
<1>4. PllInv(pll)' /\ HoldInv'
  BY <1>1 DEF ClockInv, PllInv, HoldInv
<1>5. PulsesInv'
  BY <1>1 DEF ClockInv, PulsesInv, Fine, Cadence, Settled
<1>6. "PLL_OK" \in status' => Settled'
  BY <1>1 DEF ClockInv, Fine, Cadence, Settled
<1> QED
  BY <1>3, <1>4, <1>5, <1>6 DEF ClockInv

(* A round with a pulse. *)
LEMMA JudgePulseInv == ClockInv /\ JudgePulse => ClockInv'
<1> SUFFICES ASSUME ClockInv, JudgePulse PROVE ClockInv'
  OBVIOUS
<1> USE Slots
<1> DEFINE P == [st : 0 .. 5, dl : Int, pulses : 0 .. DL0 + MJ + 2]
           p == IF Stepping THEN PllReset(pll) ELSE pll
<1>1. TypeOK /\ EnvInv /\ PllInv(pll) /\ PulsesInv /\ HoldInv
  BY DEF ClockInv
<1>2. /\ at = "sleep" /\ timer = 0 /\ cap /\ at' = "apply" /\ cap' = FALSE /\ age' = 0
      /\ UNCHANGED <<phase, gps, told, timer, utc, test>>
  BY DEF JudgePulse, env
<1>3. /\ off \in Int /\ phase \in 0 .. K - 1 /\ pll \in P /\ desync \in 0 .. DesyncLimit - 1
      /\ DesyncLimit \in Nat /\ DL0 \in Nat /\ MJ \in Nat /\ DL0 + MJ + 2 >= 3
      /\ DL0 >= DesyncLimit
  BY <1>1, ClockNumbers DEF TypeOK
<1>4. Delta \in Int /\ (Far <=> ~Fine) /\ (off - Delta) % K = 0
  BY <1>3, DeltaRight
<1>5. /\ off' \in Int /\ (Stepping => Fine') /\ (~Stepping => off' = off)
  BY <1>3, <1>4 DEF JudgePulse, vtimer_step, Fine
<1>6. /\ pll' \in P /\ PllInv(pll') /\ pll'.pulses >= 1
      /\ pll'.pulses <= pll.pulses + 1 /\ (Stepping => pll'.pulses = 1)
  <2>1. p \in P /\ PllInv(p) /\ p.pulses = pll.pulses /\ (Stepping => p.st = 0)
    <3>1. CASE Stepping
      <4>1. /\ PllReset(pll) \in P /\ PllReset(pll).st = 0 /\ PllReset(pll).dl = pll.dl
            /\ PllReset(pll).pulses = pll.pulses
        BY <1>3 DEF PllReset
      <4>2. PllInv(PllReset(pll))
        BY <1>1, <4>1 DEF PllInv
      <4> QED
        BY <3>1, <4>1, <4>2
    <3>2. CASE ~Stepping
      BY <1>1, <1>3, <3>2
    <3> QED
      BY <3>1, <3>2
  <2>2. pll' \in PllMath(p)
    BY DEF JudgePulse
  <2> HIDE DEF p
  <2> QED
    BY <2>1, <2>2, PllMathRight
<1>7. desync' \in 0 .. DesyncLimit - 1 /\ (Far /\ ~Stepping => desync' = desync + 1)
  BY <1>3 DEF JudgePulse, Stepping
<1>8. status' \subseteq {"PPS_OK", "TOD_OK", "PLL_OK"}
  BY <1>1 DEF TypeOK, JudgePulse, JudgeLock
<1>9. TypeOK'
  <2>1. FALSE \in BOOLEAN /\ 0 \in 0 .. AgeCap
    BY ClockNumbers
  <2> QED
    BY <1>1, <1>2, <1>5, <1>6, <1>7, <1>8, <2>1 DEF TypeOK
<1>10. EnvInv'
  BY <1>1, <1>2 DEF EnvInv
<1>11. HoldInv'
  BY <1>2, ClockNumbers DEF HoldInv
<1>12. Settled => Settled'
  BY <1>1, SettledStays DEF Next
<1>13. "PLL_OK" \in status' => Settled'
  <2> SUFFICES ASSUME "PLL_OK" \in status' PROVE Settled
    BY <1>12
  <2>1. CASE "PLL_OK" \in status
    BY <2>1 DEF ClockInv
  <2>2. CASE "PLL_OK" \notin status
    <3>1. pll.st >= 3 /\ ~Far
      BY <2>2 DEF JudgePulse, JudgeLock
    <3>2. Fine /\ pll.pulses >= 3
      BY <1>1, <1>3, <1>4, <3>1 DEF PllInv
    <3> QED
      BY <1>1, <1>2, <3>2 DEF PulsesInv
  <2> QED
    BY <2>1, <2>2
<1>14. PulsesInv'
  <2>1. CASE Stepping
    BY <1>2, <1>5, <1>6, <2>1 DEF PulsesInv
  <2>2. CASE ~Stepping /\ Far
    <3>1. ~Fine /\ ~Fine' /\ desync' = desync + 1
      BY <1>4, <1>5, <1>7, <2>2 DEF Fine
    <3>2. pll.pulses <= desync /\ pll.pulses \in Int /\ pll'.pulses \in Int
      BY <1>1, <1>3, <1>6, <3>1 DEF PulsesInv
    <3>3. pll'.pulses <= desync'
      BY <1>3, <1>6, <3>1, <3>2
    <3> QED
      BY <3>1, <3>3 DEF PulsesInv
  <2>3. CASE ~Stepping /\ ~Far
    <3>1. Fine /\ Fine' /\ off' = off /\ pll.pulses \in Int /\ pll'.pulses \in Int
      BY <1>3, <1>4, <1>5, <1>6, <2>3 DEF Fine
    <3>2. pll'.pulses >= 2 => phase = K - 1
      <4>1. pll'.pulses >= 2 => phase % K = K - 1
        BY <1>1, <1>2, <1>3, <1>6, <3>1 DEF PulsesInv
      <4>2. phase % K = phase
        BY <1>3
      <4> QED
        BY <4>1, <4>2
    <3>3. ASSUME pll'.pulses >= 3 PROVE Cadence' /\ utc' = 0
      <4>1. Cadence
        BY <1>1, <1>2, <1>6, <3>1, <3>3 DEF PulsesInv
      <4>2. gps /\ phase = K - 1 /\ (gps /\ told => utc = 0)
        BY <1>2, <4>1 DEF Cadence
      <4>3. utc = 0
        BY <1>1, <4>2 DEF EnvInv
      <4> QED
        BY <1>2, <4>1, <4>2, <4>3 DEF Cadence
    <3> QED
      BY <1>2, <3>1, <3>2, <3>3 DEF PulsesInv
  <2> QED
    BY <2>1, <2>2, <2>3
<1> QED
  BY <1>6, <1>9, <1>10, <1>11, <1>13, <1>14 DEF ClockInv

(* A round without one. *)
LEMMA JudgeNoPulseInv == ClockInv /\ JudgeNoPulse => ClockInv'
<1> SUFFICES ASSUME ClockInv, JudgeNoPulse PROVE ClockInv'
  OBVIOUS
<1> USE Slots
<1>1. TypeOK /\ EnvInv /\ PllInv(pll) /\ PulsesInv /\ HoldInv
  BY DEF ClockInv
<1>2. /\ at = "sleep" /\ timer = 0 /\ at' = "apply" /\ cap' = FALSE
      /\ UNCHANGED <<phase, gps, told, off, timer, utc, pll, desync, age, test>>
  BY DEF JudgeNoPulse, env
<1>3. status' \subseteq status
  BY DEF JudgeNoPulse
<1>4. TypeOK'
  <2>1. FALSE \in BOOLEAN
    OBVIOUS
  <2> QED
    BY <1>1, <1>2, <1>3, <2>1 DEF TypeOK
<1>5. EnvInv'
  BY <1>1, <1>2 DEF EnvInv
<1>6. PllInv(pll)'
  BY <1>1, <1>2 DEF PllInv
<1>7. HoldInv'
  <2>1. "PLL_OK" \in status' => ~(age >= K * Holdover)
    BY DEF JudgeNoPulse, HoldoverOver
  <2>2. age \in Int /\ K * Holdover \in Int
    BY <1>1, ClockNumbers DEF TypeOK
  <2> QED
    BY <1>2, <2>1, <2>2 DEF HoldInv
<1>8. Settled => Settled'
  BY <1>1, SettledStays DEF Next
<1>9. PulsesInv'
  <2>1. (Fine <=> Fine') /\ pll.pulses \in Int
    BY <1>1, <1>2 DEF Fine, TypeOK
  <2>2. Cadence => phase = K - 1
    BY <1>2 DEF Cadence
  <2>3. Settled' => Cadence' /\ ("TOD_OK" \in status' => off' = 0)
    BY DEF Settled
  <2> QED
    BY <1>1, <1>2, <1>8, <2>1, <2>2, <2>3 DEF PulsesInv
<1> QED
  BY <1>3, <1>4, <1>5, <1>6, <1>7, <1>8, <1>9 DEF ClockInv

(* The second half of a round. *)
LEMMA ApplyInv == ClockInv /\ Apply => ClockInv'
<1> SUFFICES ASSUME ClockInv, Apply PROVE ClockInv'
  OBVIOUS
<1> USE Slots
<1>1. TypeOK /\ EnvInv /\ PllInv(pll) /\ PulsesInv /\ HoldInv
  BY DEF ClockInv
<1>2. /\ at = "apply" /\ at' = "sleep" /\ timer' = SlotsToSleep
      /\ UNCHANGED <<phase, gps, told, cap, pll, desync, age, test>>
  BY DEF Apply, env
<1>3. /\ utc = NoUtc => UNCHANGED <<off, utc, status>>
      /\ utc # NoUtc => /\ off' = off + K * (utc - VtSecond)
                        /\ utc' = NoUtc /\ status' = status \union {"TOD_OK"}
  BY DEF Apply, vtimer_step
<1>4. off \in Int /\ phase \in 0 .. K - 1 /\ utc \in Int /\ ~cap
  BY <1>1, <1>2 DEF TypeOK, EnvInv
<1>5. off' \in Int /\ (Fine <=> Fine')
  BY <1>3, <1>4, WholeSeconds DEF Fine
<1>6. timer' \in 0 .. (2 * K) - 1
  <2> DEFINE m == (phase + off) % K
  <2>1. m \in 0 .. K - 1 /\ timer' = (K - m) + (K - 1)
    BY <1>2, <1>4, DivMod DEF SlotsToSleep
  <2> HIDE DEF m
  <2> QED
    BY <2>1
<1>7. TypeOK'
  <2>1. utc' \in Int /\ utc' <= NoUtc
    BY <1>1, <1>3 DEF TypeOK, NoUtc
  <2>2. status' \subseteq {"PPS_OK", "TOD_OK", "PLL_OK"}
    BY <1>1, <1>3 DEF TypeOK
  <2> QED
    BY <1>1, <1>2, <1>5, <1>6, <2>1, <2>2 DEF TypeOK
<1>8. EnvInv'
  BY <1>1, <1>2 DEF EnvInv
<1>9. PllInv(pll)'
  BY <1>1, <1>2 DEF PllInv
<1>10. Settled => Settled'
  BY <1>1, SettledStays DEF Next
<1>11. "PLL_OK" \in status' => "PLL_OK" \in status
  BY <1>3
<1>12. Fine => timer' = (2 * K) - 1 - phase
  BY <1>2, <1>4, FineNumbers
<1>13. utc' = NoUtc
  BY <1>3
<1>14. Fine /\ phase = K - 1 => Cadence'
  BY <1>2, <1>4, <1>12, <1>13 DEF Cadence
<1>15. HoldInv'
  <2> SUFFICES ASSUME "PLL_OK" \in status' PROVE age + timer' < K * (Holdover + 1)
    BY <1>2 DEF HoldInv
  <2>1. age < K * Holdover /\ Settled
    BY <1>1, <1>2, <1>11 DEF HoldInv, ClockInv
  <2>2. timer' = K
    BY <1>2, <1>4, <1>12, <2>1 DEF Settled, Cadence
  <2>3. age \in Int /\ K * Holdover \in Int /\ K * (Holdover + 1) = (K * Holdover) + K
    BY <1>1, ClockNumbers DEF TypeOK
  <2> QED
    BY <2>1, <2>2, <2>3
<1>16. ASSUME Fine, pll.pulses >= 3 PROVE Settled'
  <2>1. Cadence /\ ("TOD_OK" \in status => off = 0 \/ utc = 0) /\ phase = K - 1
    BY <1>1, <1>2, <1>16 DEF PulsesInv, Cadence
  <2>2. CASE utc = NoUtc
    <3>1. "TOD_OK" \in status' => off' = 0
      BY <1>3, <2>1, <2>2 DEF NoUtc
    <3> QED
      BY <1>5, <1>14, <1>16, <2>1, <3>1 DEF Settled
  <2>3. CASE utc # NoUtc
    <3>1. utc = 0 /\ VtSecond \in Int /\ off = K * VtSecond
      BY <1>4, <1>16, <2>1, <2>3, FineNumbers DEF Cadence
    <3>2. off' = 0
      BY <1>3, <2>3, <3>1
    <3> QED
      BY <1>5, <1>14, <1>16, <2>1, <3>2 DEF Settled
  <2> QED
    BY <2>2, <2>3
<1>17. PulsesInv'
  <2>1. ASSUME Fine PROVE (phase + timer') % K = K - 1
    <3> DEFINE x == (2 * K) - 1
    <3>1. phase + timer' = x
      BY <1>4, <1>12, <2>1
    <3>2. x = K * 1 + (K - 1) /\ x \in Int /\ K - 1 \in 0 .. K - 1
      OBVIOUS
    <3>3. x % K = K - 1
      BY <3>2, DivModUnique
    <3> QED
      BY <3>1, <3>3
  <2>2. Fine /\ pll.pulses >= 2 => Cadence'
    BY <1>1, <1>2, <1>14 DEF PulsesInv
  <2> QED
    BY <1>1, <1>2, <1>5, <1>16, <2>1, <2>2 DEF PulsesInv
<1> QED
  BY <1>7, <1>8, <1>9, <1>10, <1>11, <1>15, <1>17 DEF ClockInv

(* Every step of the clock. *)
LEMMA ClockNextInv == ClockInv /\ [Next]_vars => ClockInv'
<1> SUFFICES ASSUME ClockInv, [Next]_vars PROVE ClockInv'
  OBVIOUS
<1>1. CASE UNCHANGED vars
  <2>1. UNCHANGED <<phase, gps, told, off, at, timer, cap, utc, status, pll, desync, age, test>>
    BY <1>1 DEF vars, env
  <2>2. TypeOK' /\ EnvInv' /\ PllInv(pll)' /\ HoldInv'
    BY <2>1 DEF ClockInv, TypeOK, EnvInv, PllInv, HoldInv
  <2>3. PulsesInv' /\ ("PLL_OK" \in status' => Settled')
    BY <2>1 DEF ClockInv, PulsesInv, Fine, Cadence, Settled
  <2> QED
    BY <2>2, <2>3 DEF ClockInv
<1> QED
  BY <1>1, SlotInv, SetUtcInv, TestInv, JudgePulseInv, JudgeNoPulseInv, ApplyInv DEF Next

(* A reply that is being made stays as good as it was. *)
LEMMA NtpNextInv == NtpInv /\ [NtpNext]_<<vars, reply>> => NtpInv'
<1> SUFFICES ASSUME NtpInv, [NtpNext]_<<vars, reply>> PROVE NtpInv'
  OBVIOUS
<1>1. ClockInv /\ ClockInv'
  BY ClockNextInv DEF NtpInv, NtpNext, JudgeReply, StampReply
<1>2. ASSUME UNCHANGED vars PROVE (Settled => Settled') /\ off' = off /\ Stratum' = Stratum
  BY <1>2 DEF vars, env, Settled, Fine, Cadence, Stratum
<1>3. CASE Next /\ UNCHANGED reply
  BY <1>1, <1>3, SettledStays DEF NtpInv, ClockInv
<1>4. CASE JudgeReply
  <2>1. reply' = Stratum /\ UNCHANGED vars
    BY <1>4 DEF JudgeReply
  <2>2. Stratum = 1 => Settled /\ off = 0
    BY <1>1 DEF Stratum, ClockInv, Settled
  <2>3. Stratum \in {1, 16}
    BY DEF Stratum
  <2> QED
    BY <1>1, <1>2, <2>1, <2>2, <2>3 DEF NtpInv
<1>5. CASE StampReply
  <2>1. reply' = NoReply /\ NoReply # 1
    BY <1>5 DEF StampReply, NoReply
  <2> QED
    BY <1>1, <2>1 DEF NtpInv
<1>6. CASE UNCHANGED <<vars, reply>>
  BY <1>1, <1>2, <1>6 DEF NtpInv
<1> QED
  BY <1>3, <1>4, <1>5, <1>6 DEF NtpNext

(* For any number of slots, any limits, timeouts and delays and any offset at  *)
(* startup: a reply that announces stratum 1 carries GPS time also when it is  *)
(* stamped, and the lock behind it has had its pulses since the last reset.    *)
THEOREM SynchronisedIsHonest == NtpSpec => []SynchronisedHonest
<1>1. NtpInit => NtpInv
  BY ClockInitInv DEF NtpInit, NtpInv, NoReply
<1>2. NtpInv => SynchronisedHonest
  <2> SUFFICES ASSUME NtpInv PROVE SynchronisedHonest
    OBVIOUS
  <2>1. Stratum1Honest
    BY DEF NtpInv, ClockInv, Settled, Stratum1Honest, Stratum
  <2>2. LockNeedsPulses
    BY DEF NtpInv, ClockInv, PllInv, LockNeedsPulses
  <2> QED
    BY <2>1, <2>2 DEF NtpInv, SynchronisedHonest
<1> QED
  BY <1>1, <1>2, NtpNextInv, PTL DEF NtpSpec

(* The type invariant, of the clock whatever its fairness. *)
THEOREM ClockTyped == Spec => []TypeOK
<1>1. ClockInv => TypeOK
  BY DEF ClockInv
<1> QED
  BY <1>1, ClockInitInv, ClockNextInv, PTL DEF Spec

(* For any holdover time: a round drops the lock flag only when the PLL lost   *)
(* lock or holdover is over, and the flag is down a second after that.         *)
THEOREM HoldoverIsExact == Spec => HoldoverExact
<1> DEFINE Drop == "PLL_OK" \in status \ status' => pll.st < 3 \/ age >= K * Holdover
<1>1. ClockInv => HoldoverEnds
  <2> SUFFICES ASSUME ClockInv, "PLL_OK" \in status PROVE age < K * (Holdover + 1)
    BY DEF HoldoverEnds
  <2>1. /\ age \in Nat /\ timer \in Nat /\ K \in Nat /\ K * Holdover \in Nat
        /\ K * (Holdover + 1) = (K * Holdover) + K
    BY ClockNumbers DEF ClockInv, TypeOK
  <2>2. at \in {"sleep", "apply"}
    BY DEF ClockInv, TypeOK
  <2>3. at = "sleep" => age + timer < K * (Holdover + 1)
    BY DEF ClockInv, HoldInv
  <2>4. at = "apply" => age < K * Holdover
    BY DEF ClockInv, HoldInv
  <2> HIDE DEF ClockInv
  <2> QED
    BY <2>1, <2>2, <2>3, <2>4
<1>2. ClockInv /\ [Next]_vars => [Drop]_vars
  <2> SUFFICES ASSUME ClockInv, Next PROVE Drop
    OBVIOUS
  <2>1. CASE Slot \/ SetUtc \/ SetHoldoverTest
    BY <2>1 DEF Slot, SetUtc, SetHoldoverTest
  <2>2. CASE JudgePulse
    BY <2>2 DEF JudgePulse, JudgeLock
  <2>3. CASE JudgeNoPulse
    BY <2>3 DEF JudgeNoPulse, HoldoverOver
  <2>4. CASE Apply
    BY <2>4 DEF Apply
  <2> QED
    BY <2>1, <2>2, <2>3, <2>4 DEF Next
<1>3. ClockInv /\ [Next]_vars => [Drop /\ HoldoverEnds']_vars
  <2>1. ClockInv' => HoldoverEnds'
    BY <1>1, PTL
  <2> QED
    BY <1>2, <2>1, ClockNextInv
<1> QED
  BY <1>3, ClockInitInv, ClockNextInv, PTL DEF Spec, HoldoverExact

-----------------------------------------------------------------------------
(* The arithmetic of the vtimer. *)

Rate == NOMINAL - MaxFreq .. NOMINAL + MaxFreq

\* The base, seen from the earlier reading: it has moved with the rates of the rounds
\* since then, each within MaxFreq, and lost less than a fraction in each move.
Drift ==
    LET error  == PREC * seen.vt - NOMINAL * (seen.ticks - since)
        spread == MaxFreq * (seen.ticks + 2 * seen.base - since)
    IN  error >= -spread - PREC * seen.moves /\ error <= spread + PREC

VtInv ==
    /\ since \in Nat /\ frac \in 0 .. SECOND - 1 /\ vt_rate \in Rate /\ seen \in Reading
    /\ when = NextRound(frac) /\ wake = SleepTicks(vt_rate, when)
    /\ since <= wake + Late
    /\ Drift

(* Products keep the order. *)
LEMMA Times ==
    ASSUME NEW a \in Nat, NEW b \in Int, NEW c \in Int, b <= c
    PROVE  a * b <= a * c
  OBVIOUS

(* Rounding down. *)
LEMMA Floor ==
    ASSUME NEW n \in Nat \ {0}, NEW x \in Int
    PROVE  x \div n \in Int /\ n * (x \div n) <= x /\ x < n * (x \div n) + n
<1> DEFINE e == x \div n
           m == x % n
<1>1. e \in Int /\ m \in 0 .. n - 1 /\ x = n * e + m
  BY DivMod
<1> HIDE DEF e, m
<1>2. n * e \in Int
  BY <1>1
<1>3. n * e <= x /\ x < n * e + n
  BY <1>1, <1>2
<1> QED
  BY <1>1, <1>3 DEF e

(* The quotient is the largest whose product fits. *)
LEMMA FloorBounds ==
    ASSUME NEW n \in Nat \ {0}, NEW x \in Int, NEW q \in Int
    PROVE  (n * q <= x => q <= x \div n) /\ (x < n * (q + 1) => x \div n <= q)
<1> DEFINE e == x \div n
<1>1. e \in Int /\ n * e <= x /\ x < n * e + n
  BY Floor
<1> HIDE DEF e
<1>2. ASSUME n * q <= x, q > e PROVE FALSE
  <2>1. n * (e + 1) <= n * q
    BY <1>1, <1>2, Times
  <2>2. n * (e + 1) = n * e + n
    BY <1>1
  <2> QED
    BY <1>1, <1>2, <2>1, <2>2
<1>3. ASSUME x < n * (q + 1), e > q PROVE FALSE
  <2>1. n * (q + 1) <= n * e
    BY <1>1, <1>3, Times
  <2> QED
    BY <1>1, <1>3, <2>1
<1>4. (n * q <= x => q <= e) /\ (x < n * (q + 1) => e <= q)
  BY <1>1, <1>2, <1>3
<1> QED
  BY <1>4 DEF e

(* Numbers of the vtimer's model. *)
LEMMA VtNumbers ==
    /\ MONO \in Nat /\ SECOND \in Nat /\ SUB_TIME \in Nat /\ PREC \in Nat /\ NOMINAL \in Nat
    /\ MaxFreq \in Nat /\ Word \in Nat /\ Late \in Nat /\ Steps \subseteq Nat
    /\ 0 < MONO /\ 0 < PREC /\ 0 < SUB_TIME /\ SUB_TIME < SECOND /\ MaxFreq < NOMINAL
  BY VtimeAssumption

(* The longest sleep, and what the longest round leaves for lateness. *)
LEMMA LongestSleep ==
    /\ LongestRound \in Nat
    /\ \A rate \in Rate, n \in 0 .. 2 * SECOND :
          /\ n * PREC \in Nat /\ 2 * (n * PREC) < Word
          /\ (n * PREC) \div rate \in Nat
          /\ (n * PREC) \div rate + Late + MONO <= LongestRound
<1> DEFINE low == NOMINAL - MaxFreq
           x == 2 * SECOND * PREC
           e == x \div low
<1> USE VtNumbers
<1>1. low \in Nat \ {0} /\ x \in Nat
  OBVIOUS
<1>2. LongestRound = e + Late + MONO
  BY DEF LongestRound
<1> HIDE DEF low, x, e
<1>3. e \in Int /\ low * e <= x /\ x < low * e + low
  BY <1>1, Floor DEF e
<1>4. e \in Nat
  <2>1. low * 0 <= x
    BY <1>1
  <2>2. 0 <= e
    BY <1>1, <2>1, FloorBounds DEF e
  <2> QED
    BY <1>3, <2>2
<1>5. LongestRound \in Nat
  BY <1>2, <1>4
<1>6. 2 * x < Word
  <2>1. low * (e + 1) <= low * LongestRound
    BY <1>1, <1>2, <1>4, <1>5, Times
  <2>2. low * (e + 1) = low * e + low
    BY <1>1, <1>3
  <2>3. LongestRound * low <= LongestRound * (NOMINAL + MaxFreq)
    BY <1>1, <1>5, Times DEF low
  <2>4. 2 * (NOMINAL + MaxFreq) * LongestRound < Word
    BY VtimeAssumption
  <2>5. /\ 2 * (NOMINAL + MaxFreq) * LongestRound = 2 * (LongestRound * (NOMINAL + MaxFreq))
        /\ low * LongestRound = LongestRound * low
    BY <1>1, <1>5
  <2>6. /\ low * e \in Int /\ LongestRound * (NOMINAL + MaxFreq) \in Int
        /\ low * LongestRound \in Int
    BY <1>1, <1>3, <1>5
  <2> QED
    BY <1>1, <1>3, <2>1, <2>2, <2>3, <2>4, <2>5, <2>6
<1>7. ASSUME NEW rate \in Rate, NEW n \in 0 .. 2 * SECOND
      PROVE  /\ n * PREC \in Nat /\ 2 * (n * PREC) < Word
             /\ (n * PREC) \div rate \in Nat
             /\ (n * PREC) \div rate + Late + MONO <= LongestRound
  <2> DEFINE y == n * PREC
             d == y \div rate
  <2>1. rate \in Nat \ {0} /\ low <= rate
    BY DEF Rate, low
  <2>2. y \in Nat /\ y <= x
    <3>1. PREC * n <= PREC * (2 * SECOND)
      BY Times
    <3> QED
      BY <3>1 DEF x
  <2> HIDE DEF y, d
  <2>3. d \in Int /\ rate * d <= y /\ y < rate * d + rate
    BY <2>1, <2>2, Floor DEF d
  <2>4. 0 <= d
    <3>1. rate * 0 <= y
      BY <2>1, <2>2
    <3> QED
      BY <2>1, <2>2, <3>1, FloorBounds DEF d
  <2>5. d <= e
    <3>1. d * low <= d * rate
      BY <1>1, <2>1, <2>3, <2>4, Times
    <3>2. low * d <= x
      BY <1>1, <2>1, <2>2, <2>3, <3>1
    <3> QED
      BY <1>1, <2>3, <3>2, FloorBounds DEF e
  <2>6. y \in Nat /\ 2 * y < Word /\ d \in Nat /\ d + Late + MONO <= LongestRound
    BY <1>1, <1>2, <1>4, <1>6, <2>2, <2>3, <2>4, <2>5
  <2> QED
    BY <2>6 DEF y, d
<1> QED
  BY <1>5, <1>7

(* The word is wide enough for half of its numbers. *)
LEMMA SignedFits ==
    ASSUME NEW n \in Nat, 2 * n < Word
    PROVE  Signed(n) = n
<1>1. Word \in Nat \ {0} /\ n \in 0 .. Word - 1 /\ n = Word * 0 + n
  BY VtNumbers
<1>2. n % Word = n
  BY <1>1, DivModUnique
<1> QED
  BY <1>2, VtNumbers DEF Signed

(* What vtimer_getI returns within a round: the product rounded down, within   *)
(* MaxFreq of the nominal rate.                                               *)
LEMMA GetIRight ==
    ASSUME NEW rate \in Rate, NEW t \in 0 .. LongestRound
    PROVE  /\ vtimer_getI(rate, t) \in Int /\ rate * t \in Nat
           /\ vtimer_getI(rate, t) = (rate * t) \div PREC
           /\ PREC * vtimer_getI(rate, t) <= rate * t
           /\ rate * t < PREC * vtimer_getI(rate, t) + PREC
           /\ rate * t <= NOMINAL * t + MaxFreq * t
           /\ NOMINAL * t - MaxFreq * t <= rate * t
<1> USE VtNumbers
<1>1. rate \in Nat /\ t \in Nat /\ LongestRound \in Nat /\ t <= LongestRound
      /\ NOMINAL - MaxFreq <= rate /\ rate <= NOMINAL + MaxFreq
  BY LongestSleep DEF Rate
<1>2. t * rate <= t * (NOMINAL + MaxFreq) /\ t * (NOMINAL - MaxFreq) <= t * rate
  BY <1>1, Times
<1>3. rate * t \in Nat /\ rate * t <= NOMINAL * t + MaxFreq * t /\ NOMINAL * t - MaxFreq * t <= rate * t
  BY <1>1, <1>2
<1>4. 2 * (rate * t) < Word
  <2>1. (NOMINAL + MaxFreq) * t <= (NOMINAL + MaxFreq) * LongestRound
    BY <1>1, Times
  <2>2. 2 * (NOMINAL + MaxFreq) * LongestRound < Word
    BY VtimeAssumption
  <2>3. /\ 2 * (NOMINAL + MaxFreq) * LongestRound = 2 * ((NOMINAL + MaxFreq) * LongestRound)
        /\ (NOMINAL + MaxFreq) * LongestRound \in Int
        /\ (NOMINAL + MaxFreq) * t = t * (NOMINAL + MaxFreq)
        /\ rate * t = t * rate /\ (NOMINAL + MaxFreq) * t \in Int
    BY <1>1
  <2> QED
    BY <1>2, <1>3, <2>1, <2>2, <2>3
<1> DEFINE x == rate * t
<1>5. vtimer_getI(rate, t) = x \div PREC
  BY <1>3, <1>4, SignedFits DEF vtimer_getI
<1>6. x \in Int
  BY <1>3
<1> HIDE DEF x
<1>7. x \div PREC \in Int /\ PREC * (x \div PREC) <= x /\ x < PREC * (x \div PREC) + PREC
  BY <1>6, Floor
<1> QED
  BY <1>3, <1>5, <1>7 DEF x

(* The sleep of vtimer_sleep_until: two periods at least, at most what the     *)
(* longest round allows, and it ends in the tick of its time.                  *)
LEMMA SleepRight ==
    ASSUME NEW rate \in Rate, NEW f \in 0 .. SECOND - 1
    PROVE  /\ NextRound(f) \in Nat /\ SleepTicks(rate, NextRound(f)) \in Nat
           /\ 2 * MONO <= SleepTicks(rate, NextRound(f))
           /\ SleepTicks(rate, NextRound(f)) + Late + MONO <= LongestRound
           /\ rate * SleepTicks(rate, NextRound(f)) <= NextRound(f) * PREC
           /\ NextRound(f) * PREC <= rate * (SleepTicks(rate, NextRound(f)) + 1)
<1> USE VtNumbers
<1> DEFINE n == NextRound(f)
           y == n * PREC
           d == y \div rate
<1>1. n \in 0 .. 2 * SECOND /\ SUB_TIME + 1 <= n
  BY DEF NextRound
<1>2. rate \in Nat \ {0} /\ rate <= NOMINAL + MaxFreq
  BY DEF Rate
<1> HIDE DEF n
<1>3. y \in Nat /\ 2 * y < Word /\ d \in Nat /\ d + Late + MONO <= LongestRound
  BY <1>1, LongestSleep
<1> HIDE DEF y, d
<1>4. SleepTicks(rate, n) = d
  BY <1>3, SignedFits DEF SleepTicks, y, d
<1>5. rate * d <= y /\ y < rate * d + rate
  BY <1>2, <1>3, Floor DEF d
<1>6. y <= rate * (d + 1)
  <2>1. rate * (d + 1) = rate * d + rate /\ rate * d \in Int
    BY <1>2, <1>3
  <2> QED
    BY <1>2, <1>3, <1>5, <2>1
<1>7. 2 * MONO <= d
  <2>1. (2 * MONO) * rate <= (2 * MONO) * (NOMINAL + MaxFreq)
    BY <1>2, Times
  <2>2. 2 * MONO * (NOMINAL + MaxFreq) < SUB_TIME * PREC
    BY VtimeAssumption
  <2>3. PREC * SUB_TIME <= PREC * n
    BY <1>1, Times
  <2>4. rate * (2 * MONO) <= y
    BY <1>1, <1>2, <1>3, <2>1, <2>2, <2>3 DEF y
  <2> QED
    BY <1>2, <1>3, <2>4, FloorBounds DEF d
<1>8. /\ n \in Nat /\ SleepTicks(rate, n) \in Nat /\ 2 * MONO <= SleepTicks(rate, n)
      /\ SleepTicks(rate, n) + Late + MONO <= LongestRound
      /\ rate * SleepTicks(rate, n) <= n * PREC
      /\ n * PREC <= rate * (SleepTicks(rate, n) + 1)
  BY <1>1, <1>3, <1>4, <1>5, <1>6, <1>7 DEF y
<1> QED
  BY <1>8 DEF n

(* kern_freq keeps every rate in range. *)
LEMMA FreqRight == ASSUME NEW f \in Int PROVE kern_freq(f) \in Rate
  BY VtNumbers DEF kern_freq, Rate

(* What the invariant says of the present round. *)
LEMMA VtFacts ==
    ASSUME VtInv
    PROVE  /\ wake \in Nat /\ 2 * MONO <= wake /\ wake + Late + MONO <= LongestRound
           /\ since \in 0 .. LongestRound
<1>1. wake \in Nat /\ 2 * MONO <= wake /\ wake + Late + MONO <= LongestRound
  BY SleepRight DEF VtInv
<1> QED
  BY <1>1, VtNumbers, LongestSleep DEF VtInv

(* A fresh reading: the base is where it was. *)
LEMMA FreshDrift ==
    ASSUME NEW rate \in Rate, NEW t \in 0 .. LongestRound, since' = t,
           seen' = [vt |-> -vtimer_getI(rate, t), ticks |-> 0, base |-> t, moves |-> 0]
    PROVE  seen' \in Reading /\ Drift'
<1> USE VtNumbers
<1> DEFINE g == vtimer_getI(rate, t)
<1>1. t \in Nat
  BY LongestSleep
<1>2. /\ g \in Int /\ rate * t \in Nat
      /\ PREC * g <= rate * t /\ rate * t < PREC * g + PREC
      /\ rate * t <= NOMINAL * t + MaxFreq * t
      /\ NOMINAL * t - MaxFreq * t <= rate * t
  BY GetIRight
<1> HIDE DEF g
<1>3. seen'.vt = -g /\ seen'.ticks = 0 /\ seen'.base = t /\ seen'.moves = 0
  BY DEF g
<1>4. seen' \in Reading
  BY <1>1, <1>2 DEF Reading, g
<1>5. /\ PREC * (-g) = -(PREC * g) /\ NOMINAL * (0 - t) = -(NOMINAL * t)
      /\ MaxFreq * (0 + 2 * t - t) = MaxFreq * t
      /\ PREC * g \in Int /\ NOMINAL * t \in Int /\ MaxFreq * t \in Int /\ PREC * 0 = 0
  BY <1>1, <1>2
<1>6. Drift'
  BY <1>2, <1>3, <1>5 DEF Drift
<1> QED
  BY <1>4, <1>6

(* Moving the base: the thread sleeps again, and the base is as far from the   *)
(* earlier reading as the rates since then allow.                             *)
LEMMA MovedInv ==
    ASSUME VtInv, NEW b, NEW rate \in Rate, NEW n \in Nat, NEW stepped \in BOOLEAN,
           Moved(b, rate, n, stepped), b.vt \in Int, b.since \in {0, MONO},
           stepped \/ (n = 1 /\ b.since <= since /\ b.vt = vtimer_getI(rate, since - b.since))
    PROVE  VtInv'
<1> USE VtNumbers
<1> DEFINE f == (frac + b.vt) % SECOND
           s == b.since
<1>1. f \in 0 .. SECOND - 1
  <2>1. frac + b.vt \in Int /\ SECOND \in Nat \ {0}
    BY DEF VtInv
  <2> QED
    BY <2>1, DivMod
<1>2. /\ frac' = f /\ since' = s /\ vt_rate' = rate
      /\ when' = NextRound(f) /\ wake' = SleepTicks(rate, NextRound(f))
      /\ seen' = IF stepped
                 THEN [vt |-> -vtimer_getI(rate, s), ticks |-> 0, base |-> s, moves |-> 0]
                 ELSE [seen EXCEPT !.vt = @ + b.vt, !.moves = @ + n]
  BY DEF Moved
<1> HIDE DEF f
<1>3. s \in Nat /\ s <= MONO
  OBVIOUS
<1>4. wake' \in Nat /\ 2 * MONO <= wake' /\ wake' + Late + MONO <= LongestRound
  BY <1>1, <1>2, SleepRight
<1>5. since' <= wake' + Late /\ s \in 0 .. LongestRound
  BY <1>2, <1>3, <1>4, LongestSleep
<1> HIDE DEF s
<1>6. seen' \in Reading /\ Drift'
  <2>1. CASE stepped
    BY <1>2, <1>5, <2>1, FreshDrift
  <2>2. CASE ~stepped
    <3> DEFINE d == since - s
               g == vtimer_getI(rate, d)
    <3>1. n = 1 /\ s <= since /\ b.vt = g
      BY <2>2 DEF s
    <3>2. d \in 0 .. LongestRound /\ d \in Nat /\ since \in Nat /\ since = d + s
      BY <1>3, <3>1, VtFacts, LongestSleep
    <3> HIDE DEF d
    <3>3. /\ g \in Int /\ rate * d \in Nat
          /\ PREC * g <= rate * d /\ rate * d < PREC * g + PREC
          /\ rate * d <= NOMINAL * d + MaxFreq * d
          /\ NOMINAL * d - MaxFreq * d <= rate * d
      BY <3>2, GetIRight
    <3> HIDE DEF g
    <3>4. seen \in Reading /\ seen' = [seen EXCEPT !.vt = @ + g, !.moves = @ + 1]
      BY <1>2, <2>2, <3>1 DEF VtInv
    <3>5. /\ seen'.vt = seen.vt + g /\ seen'.moves = seen.moves + 1
          /\ seen'.ticks = seen.ticks /\ seen'.base = seen.base
          /\ seen.vt \in Int /\ seen.ticks \in Nat /\ seen.base \in Nat /\ seen.moves \in Nat
      BY <3>4 DEF Reading
    <3>6. seen' \in Reading
      <4>1. seen.vt + g \in Int /\ seen.moves + 1 \in Nat
        BY <3>3, <3>5
      <4> QED
        BY <3>4, <4>1 DEF Reading
    <3> DEFINE v == seen.vt
               k == seen.ticks
               w == seen.base
               m == seen.moves
    <3>7. v \in Int /\ k \in Nat /\ w \in Nat /\ m \in Nat
      BY <3>5
    <3>8. /\ PREC * v - NOMINAL * (k - since) >= -(MaxFreq * (k + 2 * w - since)) - PREC * m
          /\ PREC * v - NOMINAL * (k - since) <= MaxFreq * (k + 2 * w - since) + PREC
      BY DEF VtInv, Drift
    <3> HIDE DEF v, k, w, m
    <3>9. /\ PREC * (v + g) = PREC * v + PREC * g
          /\ NOMINAL * (k - s) = NOMINAL * (k - since) + NOMINAL * d
          /\ MaxFreq * (k + 2 * w - s) = MaxFreq * (k + 2 * w - since) + MaxFreq * d
          /\ PREC * (m + 1) = PREC * m + PREC
          /\ PREC * v \in Int /\ PREC * g \in Int /\ NOMINAL * (k - since) \in Int
          /\ NOMINAL * d \in Int /\ MaxFreq * (k + 2 * w - since) \in Int
          /\ MaxFreq * d \in Int /\ PREC * m \in Int
      BY <1>3, <3>2, <3>3, <3>7
    <3>10. /\ PREC * (v + g) - NOMINAL * (k - s) >= -(MaxFreq * (k + 2 * w - s)) - PREC * (m + 1)
           /\ PREC * (v + g) - NOMINAL * (k - s) <= MaxFreq * (k + 2 * w - s) + PREC
      BY <3>3, <3>8, <3>9
    <3>11. Drift'
      BY <1>2, <3>5, <3>10 DEF Drift, v, k, w, m
    <3> QED
      BY <3>6, <3>11
  <2> QED
    BY <2>1, <2>2
<1> QED
  BY <1>1, <1>2, <1>3, <1>5, <1>6 DEF VtInv

(* Every step of the vtimer. *)
LEMMA VtNextInv == VtInv /\ [VtimeNext]_vtvars => VtInv'
<1> SUFFICES ASSUME VtInv, [VtimeNext]_vtvars PROVE VtInv'
  OBVIOUS
<1> USE VtNumbers
<1>1. CASE VtTick
  <2>1. /\ since < wake + Late /\ since' = since + 1 /\ seen' = [seen EXCEPT !.ticks = @ + 1]
        /\ UNCHANGED <<frac, vt_rate, wake, when>>
    BY <1>1 DEF VtTick
  <2>2. since \in Nat /\ wake \in Nat /\ seen \in Reading
    BY VtFacts DEF VtInv
  <2>3. /\ seen' \in Reading /\ seen'.vt = seen.vt /\ seen'.ticks = seen.ticks + 1
        /\ seen'.base = seen.base /\ seen'.moves = seen.moves
        /\ seen.ticks \in Nat /\ seen.base \in Nat
    BY <2>1, <2>2 DEF Reading
  <2>4. /\ seen'.ticks - since' = seen.ticks - since
        /\ seen'.ticks + 2 * seen'.base - since' = seen.ticks + 2 * seen.base - since
    BY <2>1, <2>2, <2>3
  <2>5. Drift'
    BY <2>3, <2>4 DEF Drift, VtInv
  <2>6. since' \in Nat /\ since' <= wake + Late
    BY <2>1, <2>2
  <2> QED
    BY <2>1, <2>3, <2>5, <2>6 DEF VtInv
<1>2. CASE Look
  <2>1. /\ seen' = [vt |-> -vtimer_getI(vt_rate, since), ticks |-> 0, base |-> since, moves |-> 0]
        /\ UNCHANGED <<since, frac, vt_rate, wake, when>>
    BY <1>2 DEF Look
  <2>2. seen' \in Reading /\ Drift'
    BY <2>1, VtFacts, FreshDrift DEF VtInv
  <2> QED
    BY <2>1, <2>2 DEF VtInv
<1>3. CASE VtRound
  <2>1. PICK f \in -(MaxFreq + 1) .. MaxFreq + 1, stale \in {0, MONO} :
           Moved(vtimer_updateI(kern_freq(f), 0, since, stale), kern_freq(f), 1, FALSE)
    BY <1>3 DEF VtRound
  <2> DEFINE rate == kern_freq(f)
             b == vtimer_updateI(rate, 0, since, stale)
  <2>2. rate \in Rate
    BY FreqRight
  <2>3. since >= MONO /\ since - stale \in 0 .. LongestRound /\ stale <= since
    <3>1. wake \in Nat /\ 2 * MONO <= wake /\ since \in 0 .. LongestRound /\ LongestRound \in Nat
      BY VtFacts, LongestSleep
    <3>2. since >= wake - (MONO - 1)
      BY <1>3 DEF VtRound
    <3> QED
      BY <3>1, <3>2
  <2> HIDE DEF rate
  <2>4. vtimer_getI(rate, since - stale) \in Int
    BY <2>2, <2>3, GetIRight
  <2>5. b.vt = vtimer_getI(rate, since - stale) /\ b.since = stale
    BY <2>4 DEF vtimer_updateI
  <2> HIDE DEF b
  <2>6. Moved(b, rate, 1, FALSE)
    BY <2>1 DEF b, rate
  <2> QED
    BY <2>2, <2>3, <2>4, <2>5, <2>6, MovedInv
<1>4. CASE VtStepPps
  <2>1. PICK dd \in Steps \cup {-s : s \in Steps}, f \in -MaxFreq .. MaxFreq :
           LET b == vtimer_updateI(vt_rate, dd, since, 0)
           IN  Moved(vtimer_updateI(kern_freq(f), b.vt, b.since, 0), kern_freq(f), 2, TRUE)
    BY <1>4 DEF VtStepPps
  <2> DEFINE rate == kern_freq(f)
             b == vtimer_updateI(vt_rate, dd, since, 0)
             c == vtimer_updateI(rate, b.vt, b.since, 0)
  <2>2. rate \in Rate /\ vt_rate \in Rate
    BY FreqRight DEF VtInv
  <2>3. dd \in Int
    OBVIOUS
  <2>4. since \in 0 .. LongestRound /\ 0 \in 0 .. LongestRound /\ since - 0 = since /\ 0 - 0 = 0
    BY VtFacts, LongestSleep
  <2>5. Moved(c, rate, 2, TRUE)
    BY <2>1
  <2> HIDE DEF rate
  <2>6. vtimer_getI(vt_rate, since) \in Int /\ vtimer_getI(rate, 0) \in Int
    BY <2>2, <2>4, GetIRight
  <2>7. b.vt \in Int /\ b.since = 0
    BY <2>3, <2>4, <2>6 DEF vtimer_updateI
  <2> HIDE DEF b
  <2>8. c.vt \in Int /\ c.since = 0
    BY <2>4, <2>6, <2>7 DEF vtimer_updateI
  <2> HIDE DEF c
  <2> QED
    BY <2>2, <2>5, <2>8, MovedInv
<1>5. CASE VtStepUtc
  <2>1. PICK f \in -MaxFreq .. MaxFreq, seconds \in {-1, 1} :
           LET b == vtimer_updateI(kern_freq(f), 0, since, 0)
               c == vtimer_updateI(kern_freq(f), b.vt + seconds * SECOND, b.since, 0)
           IN  Moved(vtimer_updateI(kern_freq(f), c.vt, c.since, 0), kern_freq(f), 3, TRUE)
    BY <1>5 DEF VtStepUtc
  <2> DEFINE rate == kern_freq(f)
             b == vtimer_updateI(rate, 0, since, 0)
             c == vtimer_updateI(rate, b.vt + seconds * SECOND, b.since, 0)
             d == vtimer_updateI(rate, c.vt, c.since, 0)
  <2>2. rate \in Rate
    BY FreqRight
  <2>3. seconds * SECOND \in Int
    OBVIOUS
  <2>4. since \in 0 .. LongestRound /\ 0 \in 0 .. LongestRound /\ since - 0 = since /\ 0 - 0 = 0
    BY VtFacts, LongestSleep
  <2>5. Moved(d, rate, 3, TRUE)
    BY <2>1
  <2> HIDE DEF rate
  <2>6. vtimer_getI(rate, since) \in Int /\ vtimer_getI(rate, 0) \in Int
    BY <2>2, <2>4, GetIRight
  <2>7. b.vt \in Int /\ b.since = 0
    BY <2>4, <2>6 DEF vtimer_updateI
  <2> HIDE DEF b
  <2>8. c.vt \in Int /\ c.since = 0
    BY <2>3, <2>4, <2>6, <2>7 DEF vtimer_updateI
  <2> HIDE DEF c
  <2>9. d.vt \in Int /\ d.since = 0
    BY <2>4, <2>6, <2>8 DEF vtimer_updateI
  <2> HIDE DEF d
  <2> QED
    BY <2>2, <2>5, <2>9, MovedInv
<1>6. CASE UNCHANGED vtvars
  BY <1>6 DEF vtvars, VtInv, Drift
<1> QED
  BY <1>1, <1>2, <1>3, <1>4, <1>5, <1>6 DEF VtimeNext

(* For any period, rate, precision and lateness that fit the word: between     *)
(* steps the clock that vtimer_now shows runs at the nominal rate within       *)
(* MaxFreq, with no error that adds up over the rounds but the rounding of     *)
(* each move, and a sleep ends in the tick of the time it was asked for.       *)
THEOREM ClockIsRight == VtimeSpec => []ClockRight
<1> USE VtNumbers
<1>1. VtimeInit => VtInv
  <2> SUFFICES ASSUME VtimeInit PROVE VtInv
    OBVIOUS
  <2>1. NOMINAL \in Rate /\ 0 \in 0 .. SECOND - 1 /\ 0 \in 0 .. LongestRound
    BY LongestSleep DEF Rate
  <2>2. /\ since = 0 /\ frac = 0 /\ vt_rate = NOMINAL
        /\ when = NextRound(0) /\ wake = SleepTicks(NOMINAL, NextRound(0))
        /\ seen = [vt |-> 0, ticks |-> 0, base |-> 0, moves |-> 0]
    BY DEF VtimeInit
  <2>3. seen \in Reading
    BY <2>2 DEF Reading
  <2>4. Drift
    <3>1. seen.vt = 0 /\ seen.ticks = 0 /\ seen.base = 0 /\ seen.moves = 0
      BY <2>2
    <3> QED
      BY <2>2, <3>1 DEF Drift
  <2>5. wake \in Nat
    BY <2>1, <2>2, SleepRight
  <2>6. since \in Nat /\ since <= wake + Late
    BY <2>2, <2>5
  <2> QED
    BY <2>1, <2>2, <2>3, <2>4, <2>6 DEF VtInv
<1>2. VtInv => ClockContinuous
  <2> SUFFICES ASSUME VtInv PROVE ClockContinuous
    OBVIOUS
  <2> DEFINE g == vtimer_getI(vt_rate, since)
             v == seen.vt
             k == seen.ticks
             w == seen.base
             m == seen.moves
             x == vt_rate * since
             error == PREC * (v + g) - NOMINAL * k
             bound == MaxFreq * k + 2 * MaxFreq * w + PREC * (m + 1)
  <2>1. since \in 0 .. LongestRound /\ since \in Nat /\ vt_rate \in Rate
    BY VtFacts DEF VtInv
  <2>2. /\ g \in Int /\ x \in Nat /\ PREC * g <= x /\ x < PREC * g + PREC
        /\ x <= NOMINAL * since + MaxFreq * since
        /\ NOMINAL * since - MaxFreq * since <= x
    BY <2>1, GetIRight
  <2>3. v \in Int /\ k \in Nat /\ w \in Nat /\ m \in Nat
    BY DEF VtInv, Reading
  <2>4. /\ PREC * v - NOMINAL * (k - since) >= -(MaxFreq * (k + 2 * w - since)) - PREC * m
        /\ PREC * v - NOMINAL * (k - since) <= MaxFreq * (k + 2 * w - since) + PREC
    BY DEF VtInv, Drift
  <2>5. Abs(error) <= bound => ClockContinuous
    BY DEF ClockContinuous, Elapsed
  <2> HIDE DEF g, v, k, w, m, x
  <2>6. /\ PREC * (v + g) = PREC * v + PREC * g
        /\ NOMINAL * (k - since) = NOMINAL * k - NOMINAL * since
        /\ MaxFreq * (k + 2 * w - since) = MaxFreq * k + 2 * MaxFreq * w - MaxFreq * since
        /\ PREC * (m + 1) = PREC * m + PREC
    BY <2>1, <2>2, <2>3
  <2>7. /\ PREC * v \in Int /\ PREC * g \in Int /\ NOMINAL * k \in Int /\ NOMINAL * since \in Int
        /\ MaxFreq * k \in Int /\ 2 * MaxFreq * w \in Int /\ MaxFreq * since \in Int
        /\ PREC * m \in Int /\ PREC * m >= 0
    BY <2>1, <2>2, <2>3
  <2>8. error \in Int /\ error <= bound /\ -bound <= error
    BY <2>2, <2>4, <2>6, <2>7
  <2>9. bound \in Int
    BY <2>6, <2>7
  <2> HIDE DEF error, bound
  <2> QED
    BY <2>5, <2>8, <2>9 DEF Abs
<1>3. VtInv => SleepExact
  <2> SUFFICES ASSUME VtInv, since = wake
               PROVE  /\ vtimer_getI(vt_rate, wake) <= when
                      /\ vtimer_getI(vt_rate, wake + 1) >= when
    BY DEF SleepExact
  <2>1. /\ when \in Nat /\ wake \in Nat /\ wake + Late + MONO <= LongestRound
        /\ vt_rate * wake <= when * PREC /\ when * PREC <= vt_rate * (wake + 1)
    BY SleepRight DEF VtInv
  <2>2. wake \in 0 .. LongestRound /\ wake + 1 \in 0 .. LongestRound /\ vt_rate \in Rate
    BY <2>1, LongestSleep DEF VtInv
  <2> DEFINE x == vt_rate * wake
             y == vt_rate * (wake + 1)
  <2>3. /\ x \in Nat /\ vtimer_getI(vt_rate, wake) = x \div PREC
        /\ y \in Nat /\ vtimer_getI(vt_rate, wake + 1) = y \div PREC
    BY <2>2, GetIRight
  <2>4. x <= PREC * when /\ PREC * when <= y
    BY <2>1
  <2> HIDE DEF x, y
  <2>5. x < PREC * (when + 1)
    BY <2>1, <2>3, <2>4
  <2>6. x \div PREC <= when /\ when <= y \div PREC
    BY <2>1, <2>3, <2>4, <2>5, FloorBounds
  <2>7. x \div PREC \in Int /\ y \div PREC \in Int
    BY <2>3, Floor
  <2> QED
    BY <2>1, <2>3, <2>6, <2>7
<1> QED
  BY <1>1, <1>2, <1>3, VtNextInv, PTL DEF VtimeSpec, ClockRight
=============================================================================
