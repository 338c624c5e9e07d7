------------------------------ MODULE Calendar ------------------------------
(* The date of a second, as lum_gmtime computes it (lumTimeData.c).  The   *)
(* loops over years and months subtract whole days, so the second is kept  *)
(* as the number of its day since 1970: the U32 second 2^32 - 1 is in day  *)
(* 49710, in February 2106.                                                *)
EXTENDS Clock, CivilCalendar, Sequences

CONSTANT LastDay    \* the day of the greatest U32 second

ASSUME DayAssumption == LastDay \in Nat

\* Mutant of bLeapYear: every fourth year is a leap year.
JulianYear(y) == IF y % 4 = 0 THEN 1 ELSE 0

bLeapYear(y) ==
  IF y % 100 = 0 THEN IF y % 400 = 0 THEN 1 ELSE 0
                 ELSE IF y % 4 = 0 THEN 1 ELSE 0

DAYS_PER_YR == <<365, 366>>
DAYS_PER_MT ==
  <<<<31, 28, 31, 30, 31, 30, 31, 31, 30, 31, 30, 31>>,
    <<31, 29, 31, 30, 31, 30, 31, 31, 30, 31, 30, 31>>>>
WEEK_DAY_INFO == <<0, 3, 2, 5, 0, 3, 5, 1, 4, 6, 2, 4>>

\* The two loops, from a year or month and the days that are left when it begins
\* to those in which the rest fits.  The table of the months is never left (see
\* the README).
YearLoop[p \in Nat \X Nat] ==
  LET length == DAYS_PER_YR[bLeapYear(p[1]) + 1]
  IN  IF p[2] < length THEN p ELSE YearLoop[<<p[1] + 1, p[2] - length>>]

MonthLoop[p \in (0 .. 12) \X Nat \X {0, 1}] ==
  LET length == DAYS_PER_MT[p[3] + 1][p[1] + 1]
  IN  IF p[1] = 12 \/ p[2] < length THEN p
      ELSE MonthLoop[<<p[1] + 1, p[2] - length, p[3]>>]

\* The day of the week, of a month from 1 to 12.
DayOfWeek(m, d, y) ==
  LET z == IF m < 3 THEN y - 1 ELSE y
  IN  (z + z \div 4 - z \div 100 + z \div 400 + WEEK_DAY_INFO[m] + d) % 7

gmtime(second) ==
  LET y == YearLoop[<<1970, second>>]
      m == MonthLoop[<<0, y[2], bLeapYear(y[1])>>]
  IN  [year |-> y[1], month |-> m[1], day |-> m[2] + 1,
       week |-> DayOfWeek(m[1] + 1, m[2] + 1, y[1])]

Gregorian ==
  /\ gmtime(0) = Epoch
  /\ \A d \in 1 .. LastDay : gmtime(d) = NextDate(gmtime(d - 1))

(* From 1970 to the end of the U32 range, over every leap year and the     *)
(* century 2100 that is none, lum_gmtime gives each day the date and the   *)
(* day of the week that follow the day before's.  It depends on no state:  *)
(* the first one shows it.                                                 *)
Dates == ClockInit => Gregorian
=============================================================================
