---------------------------- MODULE CivilCalendar ----------------------------
(* What a date promises: from one day to the next it advances by the rules *)
(* of the Gregorian calendar, and the day of the week by one.              *)
EXTENDS Integers

Leap(y) == (y % 4 = 0 /\ y % 100 # 0) \/ y % 400 = 0

\* The days of month m of year y, where 0 is January.
MonthLength(y, m) ==
  CASE m = 1               -> IF Leap(y) THEN 29 ELSE 28
    [] m \in {3, 5, 8, 10} -> 30
    [] OTHER               -> 31

\* Thursday, the first of January 1970
Epoch == [year |-> 1970, month |-> 0, day |-> 1, week |-> 4]

NextDate(d) ==
  LET last == d.day = MonthLength(d.year, d.month)
  IN  [year  |-> IF last /\ d.month = 11 THEN d.year + 1 ELSE d.year,
       month |-> IF last THEN (d.month + 1) % 12 ELSE d.month,
       day   |-> IF last THEN 1 ELSE d.day + 1,
       week  |-> (d.week + 1) % 7]
=============================================================================
