-------------------------------- MODULE Epoch --------------------------------
(***************************************************************************)
(* epoch.c: dates, days and seconds since the NTP epoch of 1900.  A 64-bit   *)
(* time is a pair of the day and the second of the day.  The reference is a  *)
(* calendar that is turned over day by day.                                  *)
(***************************************************************************)
EXTENDS Integers, Sequences

CONSTANTS LastYear   \* bound: the calendar ends with it

ASSUME EpochAssumption == LastYear \in Nat /\ LastYear >= 1981

VARIABLES
    today,   \* the calendar: year, month and day
    elapsed  \* days since 1 January 1900

evars == <<today, elapsed>>

-----------------------------------------------------------------------------
(* epoch.c; C's / and % of a non-negative number are \div and %. *)

NTP_EPOCH_ORDINAL == 693596
NTP_GPS_EPOCH == 29224     \* 2524953600 in the code, in days here
DI4Y == 1461
DI100Y == 36524
DI400Y == 146097

_days_in_month == <<31, 28, 31, 30, 31, 30, 31, 31, 30, 31, 30, 31>>
_days_before_month == <<0, 31, 59, 90, 120, 151, 181, 212, 243, 273, 304, 334>>

is_leap(year) == year % 4 = 0 /\ (year % 100 # 0 \/ year % 400 = 0)

days_in_month(year, month) ==
    IF month = 2 /\ is_leap(year) THEN 29 ELSE _days_in_month[month]

days_before_month(year, month) ==
    _days_before_month[month] + (IF month > 2 /\ is_leap(year) THEN 1 ELSE 0)

days_before_year(year) ==
    LET y == year - 1 IN y * 365 + y \div 4 - y \div 100 + y \div 400

\* Fault: the estimate of the month is not corrected.
month_of_fault(k, leapyear) == (k + 50) \div 32

\* The month that holds day k of a year: an estimate that may be one too large.
month_of(k, leapyear) ==
    LET m == (k + 50) \div 32
        preceding == _days_before_month[m] + (IF m > 2 /\ leapyear THEN 1 ELSE 0)
    IN  IF preceding > k THEN m - 1 ELSE m

ord_to_ymd(ordinal) ==
    LET k400 == (ordinal - 1) % DI400Y
        n100 == k400 \div DI100Y
        k100 == k400 % DI100Y
        n4   == k100 \div DI4Y
        k4   == k100 % DI4Y
        n1   == k4 \div 365
        k    == k4 % 365
        year == ((ordinal - 1) \div DI400Y) * 400 + 1 + n100 * 100 + n4 * 4 + n1
        leapyear == n1 = 3 /\ (n4 # 24 \/ n100 = 3)
        month == month_of(k, leapyear)
    IN  IF n1 = 4 \/ n100 = 4 THEN [y |-> year - 1, m |-> 12, d |-> 31]
        ELSE [y |-> year, m |-> month, d |-> k - days_before_month(year, month) + 1]

Time(days, seconds) == <<days + seconds \div 86400, seconds % 86400>>

datetime_to_epoch(year, month, day, hour, minute, second) ==
    Time(days_before_year(year) + days_before_month(year, month) + day - NTP_EPOCH_ORDINAL,
         hour * 3600 + minute * 60 + second)

gps_to_epoch(wkn, tow) == Time(NTP_GPS_EPOCH + wkn * 7, tow)

epoch_to_datetime(time) ==
    [date |-> ord_to_ymd(time[1] + NTP_EPOCH_ORDINAL), sec |-> time[2] % 60,
     min |-> (time[2] \div 60) % 60, hour |-> ((time[2] \div 60) \div 60) % 24]

-----------------------------------------------------------------------------
(* The calendar. *)

LongMonth == {1, 3, 5, 7, 8, 10, 12}
LeapYears == {y \in 1900 .. LastYear : y % 4 = 0} \ {y \in {1900 + 100 * c : c \in 0 .. LastYear} :
                                                       y % 400 # 0}
MonthLength(y, m) == IF m \in LongMonth THEN 31 ELSE IF m # 2 THEN 30
                     ELSE IF y \in LeapYears THEN 29 ELSE 28

EpochInit == today = [y |-> 1900, m |-> 1, d |-> 1] /\ elapsed = 0

NextDay ==
    /\ today' = IF today.d < MonthLength(today.y, today.m) THEN [today EXCEPT !.d = @ + 1]
                ELSE [y |-> today.y, m |-> today.m + 1, d |-> 1]
    /\ today'.m <= 12
    /\ elapsed' = elapsed + 1

\* From one 1 January to the next at a stride.
NextYear ==
    /\ today.m = 1 /\ today.d = 1 /\ today.y < LastYear
    /\ today' = [today EXCEPT !.y = @ + 1]
    /\ elapsed' = elapsed + (IF today.y \in LeapYears THEN 366 ELSE 365)

EpochNext == NextDay \/ NextYear
EpochSpec == EpochInit /\ [][EpochNext]_evars

-----------------------------------------------------------------------------

\* On every day, the date that a receiver sends becomes the number of days the calendar
\* has counted, a leap second becomes the next day's first second, the time is shown to
\* the user as the date it came from, and a receiver that sends weeks since the GPS
\* epoch sets the same day.
DatesAgree ==
    /\ \A s \in {0, 59} :
          LET time == datetime_to_epoch(today.y, today.m, today.d, 23, s, s)
          IN  /\ time = <<elapsed, 82800 + 61 * s>>
              /\ epoch_to_datetime(time) = [date |-> today, hour |-> 23, min |-> s, sec |-> s]
    /\ datetime_to_epoch(today.y, today.m, today.d, 23, 59, 60) = <<elapsed + 1, 0>>
    /\ LET w == elapsed - NTP_GPS_EPOCH
       IN  w >= 0 => gps_to_epoch(w \div 7, (w % 7) * 86400 + 9)
                       = datetime_to_epoch(today.y, today.m, today.d, 0, 0, 9)
=============================================================================
