--------------------------- MODULE ScheduleProofs ---------------------------
(***************************************************************************)
(* Alarms and absences, for days and weeks of any length, any number of    *)
(* places and any infos that the app stores, edits at every step of a      *)
(* check, missed minutes and restarts: what becomes of an alarm, what the  *)
(* alarms make of the switch, and when an absence runs.  Then the timer    *)
(* that has every minute checked and the countdown that it ends, the clock *)
(* that both read, and the dates of any number of days.                    *)
(***************************************************************************)
EXTENDS Schedule, MinuteCheck, Calendar, FiniteSets, FiniteSetTheorems, TLAPS

(* Where the threads are, and the alarm whose copy is on its way back.     *)
Working ==
  /\ pc[Message] \in {"idle", "absences", "save absences", "act"}
  /\ pc[Timer] # "idle" => ~checked
  /\ pc[Timer] \in {"absences", "save absences", "act"} => slot = MAX_ALARM_COUNT

CopyOut ==
  At(Timer, "save alarm") =>
    \E i \in Alarms, a \in Infos :
      /\ slot = i + 1 /\ copies[Timer] = {<<i, a>>} /\ a.week = {}
      /\ i \notin stale => alarms[i] = a

(* Minutes since the time of the start of an alarm or absence.             *)
Round(a) == IF Minute >= a.start THEN Minute - a.start ELSE DAY + Minute - a.start

(* A one-shot alarm that has opened the switch is inactive, about to be,   *)
(* or between its two times.                                               *)
Compared(i) == checked \/ (~At(Timer, "idle") /\ slot > i)
InWindow(i) ==
  LET a == alarms[i]
  IN  /\ a.start \in Minutes /\ a.stop \in Minutes /\ a.start # a.stop
      /\ \/ 0 < Round(a) /\ Round(a) < Length(a)
         \/ Round(a) = 0 /\ Compared(i)
         \/ Round(a) = Length(a) /\ ~Compared(i)
Opened(i) ==
  /\ opened[i] <= 1
  /\ opened[i] = 1 =>
       ~alarms[i].active \/ (At(Timer, "save alarm") /\ slot = i + 1) \/ InWindow(i)
OpenedOnce ==
  \A i \in Alarms : stored[i].week = {} /\ i \notin stale /\ ~missed => Opened(i)

(* The next change of the switch by the absence that runs.                 *)
ToGo == (nextAbsenceMinute - Minute) % DAY
Ahead ==
  absenceRunning /\ ~missed =>
    /\ nextAbsenceMinute \in Minutes
    /\ ToGo <= MAX_ABSENCE_OPEN_INTERVAL \/ ToGo <= MAX_ABSENCE_CLOSE_INTERVAL
    /\ checked => ToGo > 0

(* When an absence runs.  Unless an edit met the check, one thread at a    *)
(* time looks at the absences, and acts on what they are.                  *)
Runs(statuses) == statuses \cap {"start", "within"} # {}
InForce(a)     == Status(a) \in {"start", "within"}
Should         == \E i \in Absences : InForce(absences[i])
ActiveTimes ==
  \A i \in Absences :
    absences[i].active => absences[i].start \in Minutes /\ absences[i].stop \in Minutes
Acts(t) ==
  /\ pc[t] \in {"save absences", "act"} => (Runs(status[t]) <=> Should)
  /\ pc[t] = "save absences" => copies[t] = {<<i, absences[i]>> : i \in Ended}
Settled ==
  ~raced =>
    /\ At(Timer, "idle") \/ At(Message, "idle")
    /\ checked /\ Idle => (absenceRunning <=> Should)
    /\ \A t \in Threads : Acts(t)

(* Minutes since an alarm or absence of day d began.                       *)
Week == WEEK * DAY
Since(a, d, t) == (t - (d * DAY + a.start)) % Week

(* While one repeating alarm alone works the switch, the switch is as the  *)
(* alarm wants it, unless the alarm has not begun yet in that time.        *)
Follows(a, t, n) == (switch <=> InPeriod(a, t)) \/ \A d \in DaysOf(a) : Since(a, d, t) >= n
QuietMinutes ==
  quiet > 0 =>
    /\ stale = {} /\ At(Message, "idle") /\ ~At(Timer, "save alarm")
    /\ \E i \in Alarms : Alone(i)
    /\ ~checked => ~absenceRunning
Followed ==
  \A i \in Alarms :
    quiet > 0 /\ Alone(i) /\ ~absenceRunning =>
      IF Compared(i) THEN Follows(alarms[i], now, quiet)
                     ELSE Follows(alarms[i], now - 1, quiet - 1)

ScheduleIInv ==
  /\ TypeOK /\ Working /\ CopyOut /\ EditKept /\ OpenedOnce
  /\ Ahead /\ ActiveTimes /\ Settled /\ QuietMinutes /\ Followed

-----------------------------------------------------------------------------
(* Division with a remainder.                                              *)
LEMMA Division ==
  ASSUME NEW a \in Int, NEW n \in Nat \ {0}
  PROVE  a \div n \in Int /\ a % n \in 0 .. n - 1 /\ a = n * (a \div n) + (a % n)
<1>0. n \in Nat /\ n > 0 OBVIOUS
<1>1. a \div n \in Int BY Z3
<1>2. a % n \in 0 .. n - 1 BY Z3
<1>3. a = n * (a \div n) + (a % n) BY <1>0, Z3
<1> QED BY <1>1, <1>2, <1>3

LEMMA Remains ==
  ASSUME NEW a \in Int, NEW n \in Nat \ {0}, NEW q \in Int, NEW r \in 0 .. n - 1,
         a = n * q + r
  PROVE  a % n = r /\ a \div n = q
<1>1. a \div n \in Int /\ a % n \in 0 .. n - 1 /\ a = n * (a \div n) + (a % n) BY Division
<1> DEFINE p == a \div n
           s == a % n
<1> HIDE DEF p, s
<1>2. p \in Int /\ s \in 0 .. n - 1 /\ n * q + r = n * p + s BY <1>1 DEF p, s
<1>3. n * (p - q) = r - s BY <1>2
<1>4. p - q < 1
  <2> SUFFICES ASSUME p - q >= 1 PROVE FALSE BY <1>2
  <2>1. n * (p - q) >= n BY <1>2
  <2> QED BY <2>1, <1>3, <1>2
<1>5. p - q > -1
  <2> SUFFICES ASSUME p - q <= -1 PROVE FALSE BY <1>2
  <2>1. n * (p - q) <= -n BY <1>2
  <2> QED BY <2>1, <1>3, <1>2
<1>6. p = q BY <1>2, <1>4, <1>5
<1>7. s = r BY <1>2, <1>6
<1> QED BY <1>6, <1>7 DEF p, s

LEMMA TurnOn ==
  ASSUME NEW a \in Int, NEW n \in Nat \ {0}
  PROVE  (a + 1) % n = IF a % n = n - 1 THEN 0 ELSE (a % n) + 1
<1>1. PICK q \in Int, r \in 0 .. n - 1 : r = a % n /\ a = n * q + r BY Division
<1>2. CASE r = n - 1
  <2>1. a + 1 = n * (q + 1) + 0 BY <1>1, <1>2
  <2>2. a + 1 \in Int /\ q + 1 \in Int /\ 0 \in 0 .. n - 1 BY <1>1
  <2>3. (a + 1) % n = 0 BY <2>1, <2>2, Remains, Zenon
  <2> QED BY <2>3, <1>1, <1>2
<1>3. CASE r # n - 1
  <2>1. a + 1 = n * q + (r + 1) /\ r + 1 \in 0 .. n - 1 BY <1>1, <1>3
  <2>2. a + 1 \in Int BY <1>1
  <2>3. (a + 1) % n = r + 1 BY <2>1, <2>2, <1>1, Remains, Zenon
  <2> QED BY <2>3, <1>1, <1>3
<1> QED BY <1>2, <1>3

LEMMA Small ==
  ASSUME NEW n \in Nat \ {0}, NEW r \in 0 .. n - 1
  PROVE  r % n = r
<1>1. r \in Int /\ 0 \in Int /\ r = n * 0 + r OBVIOUS
<1> QED BY <1>1, Remains, Zenon

(* The time from minute s of day d to minute m of day e, in whole days and *)
(* minutes.                                                                *)
LEMMA WeekElapsed ==
  ASSUME NEW e \in Days, NEW m \in Minutes, NEW d \in Days, NEW s \in Minutes
  PROVE  \E k \in Days :
            /\ ((e * DAY + m) - (d * DAY + s)) % (WEEK * DAY)
                 = IF m >= s THEN k * DAY + (m - s) ELSE k * DAY + (DAY + m - s)
            /\ k = 0 <=> IF m >= s THEN e = d ELSE e = (d + 1) % WEEK
<1> DEFINE x == (e * DAY + m) - (d * DAY + s)
           n == WEEK * DAY
           r == IF m >= s THEN m - s ELSE DAY + m - s
           f == IF m >= s THEN e - d ELSE e - d - 1
<1>1. DAY \in Nat /\ DAY > 0 /\ WEEK \in Nat /\ WEEK > 0 BY TimeAssumption
<1>2. n \in Nat \ {0} BY <1>1
<1>3. r \in 0 .. DAY - 1 /\ f \in Int /\ f >= -WEEK /\ f < WEEK BY <1>1 DEF Minutes, Days
<1>4. x = f * DAY + r BY <1>1 DEF Minutes, Days
<1>5. x \in Int BY <1>1 DEF Minutes, Days
<1>6. ASSUME NEW k \in Days, NEW q \in Int, f = WEEK * q + k PROVE x % n = k * DAY + r
  <2>1. x = n * q + (k * DAY + r) BY <1>1, <1>3, <1>4, <1>6 DEF Days
  <2>2. k * DAY <= (WEEK - 1) * DAY /\ k * DAY >= 0 BY <1>1 DEF Days
  <2>3. k * DAY + r \in 0 .. n - 1 BY <2>2, <1>1, <1>3 DEF Days
  <2> HIDE DEF x, n, r, f
  <2> QED BY <2>1, <2>3, <1>2, <1>5, <1>6, Remains, Zenon
<1>7. (d + 1) % WEEK = IF d = WEEK - 1 THEN 0 ELSE d + 1
  <2>1. d \in Int /\ d \in 0 .. WEEK - 1 BY DEF Days
  <2>2. d % WEEK = d BY <2>1, TimeAssumption, Small
  <2> QED BY <2>1, <2>2, TimeAssumption, TurnOn, Zenon
<1>8. \E k \in Days : (\E q \in Int : f = WEEK * q + k)
                    /\ (k = 0 <=> IF m >= s THEN e = d ELSE e = (d + 1) % WEEK)
  <2>1. CASE f >= 0
    <3>1. f \in Days /\ f = WEEK * 0 + f BY <2>1, <1>1, <1>3 DEF Days
    <3>2. f = 0 <=> IF m >= s THEN e = d ELSE e = (d + 1) % WEEK
          BY <2>1, <1>1, <1>7 DEF Minutes, Days
    <3>3. \E q \in Int : f = WEEK * q + f BY <3>1
    <3> QED BY <3>1, <3>2, <3>3, Zenon
  <2>2. CASE f < 0
    <3>1. WEEK + f \in Days /\ f = WEEK * (-1) + (WEEK + f) BY <2>2, <1>1, <1>3 DEF Days
    <3>2. WEEK + f = 0 <=> IF m >= s THEN e = d ELSE e = (d + 1) % WEEK
          BY <2>2, <1>1, <1>7 DEF Minutes, Days
    <3>3. \E q \in Int : f = WEEK * q + (WEEK + f) BY <3>1
    <3> QED BY <3>1, <3>2, <3>3, Zenon
  <2> QED BY <2>1, <2>2, <1>3
<1>9. PICK k \in Days : (\E q \in Int : f = WEEK * q + k)
                    /\ (k = 0 <=> IF m >= s THEN e = d ELSE e = (d + 1) % WEEK)
      BY <1>8
<1>10. x % n = k * DAY + r BY <1>6, <1>9
<1>11. x % n = IF m >= s THEN k * DAY + (m - s) ELSE k * DAY + (DAY + m - s)
  <2>1. m >= s => r = m - s BY DEF Minutes
  <2>2. ~(m >= s) => r = DAY + m - s BY DEF Minutes
  <2> QED BY <2>1, <2>2, <1>10, Zenon
<1> QED BY <1>9, <1>11

-----------------------------------------------------------------------------
(* The time, and what is true of an info at that time.                     *)
LEMMA ScheduleConstants ==
  /\ DAY \in Nat /\ DAY > 0 /\ WEEK \in Nat /\ WEEK > 0
  /\ Week \in Nat \ {0} /\ Week >= DAY
<1>1. DAY \in Nat /\ DAY > 0 /\ WEEK \in Nat /\ WEEK > 0 BY TimeAssumption
<1>2. WEEK * DAY \in Nat /\ WEEK * DAY >= DAY BY <1>1
<1> QED BY <1>1, <1>2 DEF Week

LEMMA TimeIs ==
  ASSUME now \in 0 .. Week - 1
  PROVE  Minute \in Minutes /\ Day \in Days /\ now = Day * DAY + Minute
<1>1. DAY \in Nat \ {0} /\ WEEK \in Nat \ {0} BY TimeAssumption
<1>2. now \in Int BY ScheduleConstants
<1>3. Day \in Int /\ Minute \in 0 .. DAY - 1 /\ now = DAY * Day + Minute
      BY <1>1, <1>2, Division, Zenon DEF Day, Minute
<1>4. now >= 0 /\ now < WEEK * DAY BY ScheduleConstants DEF Week
<1>5. Day >= 0
  <2> SUFFICES ASSUME Day <= -1 PROVE FALSE BY <1>3
  <2>1. DAY * Day <= -DAY BY <1>1, <1>3
  <2> QED BY <2>1, <1>1, <1>3, <1>4
<1>6. Day < WEEK
  <2> SUFFICES ASSUME Day >= WEEK PROVE FALSE BY <1>1, <1>3
  <2>1. DAY * Day >= DAY * WEEK BY <1>1, <1>3
  <2> QED BY <2>1, <1>1, <1>3, <1>4
<1> QED BY <1>1, <1>3, <1>5, <1>6 DEF Minutes, Days

(* Whether the present round of an alarm or absence began on day d.        *)
Present(a, d)  == IF Minute >= a.start THEN Day = d ELSE Day = (d + 1) % WEEK

LEMMA SinceIs ==
  ASSUME now \in 0 .. Week - 1, NEW a \in Infos, a.start \in Minutes, NEW d \in Days
  PROVE  /\ Round(a) \in 0 .. DAY - 1
         /\ Since(a, d, now) \in 0 .. Week - 1 /\ Since(a, d, now) >= Round(a)
         /\ Present(a, d) => Since(a, d, now) = Round(a)
         /\ ~Present(a, d) => Since(a, d, now) >= DAY
<1> DEFINE s == Since(a, d, now)
<1>1. Minute \in Minutes /\ Day \in Days /\ now = Day * DAY + Minute BY TimeIs
<1>2. PICK k \in Days :
        /\ ((Day * DAY + Minute) - (d * DAY + a.start)) % (WEEK * DAY)
             = IF Minute >= a.start THEN k * DAY + (Minute - a.start)
                                    ELSE k * DAY + (DAY + Minute - a.start)
        /\ k = 0 <=> IF Minute >= a.start THEN Day = d ELSE Day = (d + 1) % WEEK
  <2>1. PICK e \in Days : e = Day BY <1>1
  <2>2. PICK m \in Minutes : m = Minute BY <1>1
  <2>3. PICK b \in Minutes : b = a.start OBVIOUS
  <2>4. \E k \in Days :
           /\ ((e * DAY + m) - (d * DAY + b)) % (WEEK * DAY)
                = IF m >= b THEN k * DAY + (m - b) ELSE k * DAY + (DAY + m - b)
           /\ k = 0 <=> IF m >= b THEN e = d ELSE e = (d + 1) % WEEK
        BY WeekElapsed
  <2> QED BY <2>1, <2>2, <2>3, <2>4
<1>3. s = ((Day * DAY + Minute) - (d * DAY + a.start)) % (WEEK * DAY)
      BY <1>1, Zenon DEF Since, Week
<1>4. Round(a) \in 0 .. DAY - 1 BY <1>1, ScheduleConstants DEF Round, Minutes
<1>5. s = k * DAY + Round(a)
  <2>1. Minute >= a.start => Round(a) = Minute - a.start BY DEF Round
  <2>2. ~(Minute >= a.start) => Round(a) = DAY + Minute - a.start BY DEF Round
  <2> QED BY <2>1, <2>2, <1>2, <1>3, Zenon
<1>6. Present(a, d) <=> k = 0 BY <1>2, Zenon DEF Present
<1>7. k \in Nat /\ k < WEEK BY ScheduleConstants DEF Days
<1>8. k * DAY \in Nat /\ k * DAY <= (WEEK - 1) * DAY BY <1>7, ScheduleConstants
<1>9. (WEEK - 1) * DAY = Week - DAY BY ScheduleConstants DEF Week
<1>10. k = 0 => k * DAY = 0 BY ScheduleConstants
<1>11. k # 0 => k * DAY >= DAY BY <1>7, ScheduleConstants
<1>12. s \in 0 .. Week - 1 /\ s >= Round(a)
  <2> HIDE DEF s
  <2>1. PICK p \in Nat : p = k * DAY BY <1>8
  <2> QED BY <2>1, <1>4, <1>5, <1>8, <1>9, ScheduleConstants
<1>13. k = 0 => s = Round(a)
  <2> HIDE DEF s
  <2> QED BY <1>4, <1>5, <1>10, ScheduleConstants
<1>14. k # 0 => s >= DAY
  <2> HIDE DEF s
  <2>1. PICK p \in Nat : p = k * DAY BY <1>8
  <2> QED BY <2>1, <1>4, <1>5, <1>11, ScheduleConstants
<1> QED BY <1>4, <1>6, <1>12, <1>13, <1>14, Zenon

LEMMA LengthIs ==
  ASSUME NEW a \in Infos, a.start \in Minutes, a.stop \in Minutes
  PROVE  Length(a) \in 1 .. DAY /\ (a.start # a.stop => Length(a) \in 1 .. DAY - 1)
BY ScheduleConstants DEF Length, Minutes

LEMMA DaysAre ==
  ASSUME NEW a \in Infos
  PROVE  /\ DaysOf(a) \subseteq Days /\ DaysOf(a) # {}
         /\ a.week # {} => DaysOf(a) = WeekAddOne(a.week)
<1>1. a.week \subseteq Days BY DEF Infos
<1>2. \A b \in Days : (b + 1) % WEEK \in Days
  <2> TAKE b \in Days
  <2>1. b + 1 \in Int BY ScheduleConstants DEF Days
  <2>2. (b + 1) % WEEK \in 0 .. WEEK - 1 BY <2>1, TimeAssumption, Division, Zenon
  <2> QED BY <2>2 DEF Days
<1>3. 0 \in Days BY ScheduleConstants DEF Days
<1>4. CASE a.week = {} BY <1>3, <1>4 DEF DaysOf
<1>5. CASE a.week # {}
  <2>1. DaysOf(a) = WeekAddOne(a.week) BY <1>5, Zenon DEF DaysOf, WeekAddOne
  <2>2. WeekAddOne(a.week) \subseteq Days BY <1>1, <1>2 DEF WeekAddOne
  <2>3. WeekAddOne(a.week) # {} BY <1>5 DEF WeekAddOne
  <2> QED BY <2>1, <2>2, <2>3
<1> QED BY <1>4, <1>5

LEMMA PeriodIs ==
  ASSUME now \in 0 .. Week - 1, NEW a \in Infos, a.start \in Minutes, a.stop \in Minutes
  PROVE  InPeriod(a, now) <=> /\ Round(a) < Length(a)
                              /\ \E d \in DaysOf(a) : Present(a, d)
<1>1. Length(a) \in 1 .. DAY BY LengthIs
<1>2. ASSUME NEW d \in DaysOf(a)
      PROVE  Since(a, d, now) < Length(a) <=> Present(a, d) /\ Round(a) < Length(a)
  <2>1. d \in Days BY DaysAre
  <2>2. /\ Round(a) \in 0 .. DAY - 1 /\ Since(a, d, now) \in 0 .. Week - 1
        /\ Present(a, d) => Since(a, d, now) = Round(a)
        /\ ~Present(a, d) => Since(a, d, now) >= DAY
        BY <2>1, SinceIs
  <2> QED BY <2>2, <1>1, ScheduleConstants
<1>3. InPeriod(a, now) <=> \E d \in DaysOf(a) : Since(a, d, now) < Length(a)
      BY Zenon DEF InPeriod, Since, Week
<1> QED BY <1>2, <1>3, Zenon

LEMMA DayIs ==
  ASSUME NEW a \in Infos
  PROVE  /\ compareWeekData(a.week) <=> (a.week = {} \/ Day \in DaysOf(a))
         /\ Day \in Days /\ a.week = {} => Day \in DaysOf(a)
         /\ compareWeekData(WeekAddOne(a.week))
              <=> (a.week = {} \/ \E d \in DaysOf(a) : Day = (d + 1) % WEEK)
<1>1. compareWeekData(a.week) <=> (a.week = {} \/ Day \in DaysOf(a))
      BY Zenon DEF compareWeekData, DaysOf
<1>2. Day \in Days /\ a.week = {} => Day \in DaysOf(a) BY DEF DaysOf
<1>3. WeekAddOne(a.week) = {} <=> a.week = {} BY DEF WeekAddOne
<1>4. a.week # {} => DaysOf(a) = WeekAddOne(a.week) BY DaysAre
<1>5. compareWeekData(WeekAddOne(a.week))
        <=> (WeekAddOne(a.week) = {} \/ \E d \in WeekAddOne(a.week) : Day = (d + 1) % WEEK)
      BY DEF compareWeekData
<1> QED BY <1>1, <1>2, <1>3, <1>4, <1>5, Zenon

(* Some day is the day before.                                             *)
LEMMA DayBefore == \A e \in Days : \E d \in Days : e = (d + 1) % WEEK
<1> TAKE e \in Days
<1>1. CASE e = 0
  <2>1. WEEK - 1 \in Days /\ WEEK - 1 \in Int BY ScheduleConstants DEF Days
  <2>2. (WEEK - 1) % WEEK = WEEK - 1
    <3>1. WEEK - 1 \in 0 .. WEEK - 1 BY ScheduleConstants
    <3> QED BY <3>1, TimeAssumption, Small, Zenon
  <2>3. (WEEK - 1 + 1) % WEEK = 0 BY <2>1, <2>2, TimeAssumption, TurnOn, Zenon
  <2> QED BY <1>1, <2>1, <2>3, Zenon
<1>2. CASE e # 0
  <2>1. e - 1 \in Days /\ e \in 0 .. WEEK - 1 /\ e = e - 1 + 1
        BY <1>2, ScheduleConstants DEF Days
  <2>2. e % WEEK = e BY <2>1, TimeAssumption, Small, Zenon
  <2> QED BY <2>1, <2>2, Zenon
<1> QED BY <1>1, <1>2

(* What lum_compareAbsence says of an absence is that it is in its period. *)
LEMMA StatusIs ==
  ASSUME now \in 0 .. Week - 1, NEW a \in Infos, a.active,
         a.start \in Minutes, a.stop \in Minutes
  PROVE  InForce(a) <=> InPeriod(a, now)
<1> DEFINE today    == a.week = {} \/ Day \in DaysOf(a)
           tomorrow == a.week = {} \/ \E d \in DaysOf(a) : Day = (d + 1) % WEEK
<1>1. Minute \in Minutes /\ Day \in Days BY TimeIs
<1>2. InForce(a) <=> WithinPeriod(a) /\ (a.start = Minute \/ a.stop # Minute)
  <2>1. ~WithinPeriod(a) => Status(a) = "out" BY DEF Status
  <2>2. WithinPeriod(a) /\ a.start = Minute => Status(a) = "start" BY DEF Status
  <2>3. WithinPeriod(a) /\ a.start # Minute /\ a.stop = Minute => Status(a) = "end"
        BY DEF Status
  <2>4. WithinPeriod(a) /\ a.start # Minute /\ a.stop # Minute => Status(a) = "within"
        BY DEF Status
  <2> QED BY <2>1, <2>2, <2>3, <2>4 DEF InForce
<1>3. compareWeekData(a.week) <=> today BY DayIs
<1>4. compareWeekData(WeekAddOne(a.week)) <=> tomorrow BY DayIs
<1>5. WithinPeriod(a) <=>
        \/ Minute >= a.start /\ today /\ (Minute <= a.stop \/ a.start >= a.stop)
        \/ Minute < a.start /\ a.start >= a.stop /\ tomorrow /\ Minute <= a.stop
      BY <1>3, <1>4, Zenon DEF WithinPeriod
<1>6. (\E d \in DaysOf(a) : Present(a, d)) <=> IF Minute >= a.start THEN today ELSE tomorrow
  <2>1. CASE Minute >= a.start
    <3>1. \A d : Present(a, d) <=> Day = d BY <2>1 DEF Present
    <3>2. today <=> Day \in DaysOf(a) BY <1>1, DayIs, Zenon
    <3> QED BY <3>1, <3>2, <2>1, Zenon
  <2>2. CASE ~(Minute >= a.start)
    <3>1. \A d : Present(a, d) <=> Day = (d + 1) % WEEK BY <2>2 DEF Present
    <3>2. tomorrow <=> \E d \in DaysOf(a) : Day = (d + 1) % WEEK
      <4>1. a.week = {} => DaysOf(a) = Days BY DEF DaysOf
      <4> QED BY <4>1, <1>1, DayBefore, Zenon
    <3> QED BY <3>1, <3>2, <2>2, Zenon
  <2> QED BY <2>1, <2>2
<1>7. InPeriod(a, now) <=> /\ Round(a) < Length(a)
                           /\ IF Minute >= a.start THEN today ELSE tomorrow
      BY <1>6, PeriodIs, Zenon
<1>8. Minute >= a.start =>
        (Round(a) < Length(a) <=> Minute < a.stop \/ a.start >= a.stop)
      BY <1>1, ScheduleConstants DEF Round, Length, Minutes
<1>9. ~(Minute >= a.start) =>
        (Round(a) < Length(a) <=> Minute < a.stop /\ a.start >= a.stop)
      BY <1>1, ScheduleConstants DEF Round, Length, Minutes
<1> HIDE DEF today, tomorrow
<1> QED BY <1>1, <1>2, <1>5, <1>7, <1>8, <1>9, ScheduleConstants DEF Minutes

(* A repeating alarm with two times opens the switch at the start and      *)
(* closes it at the end of each of its periods.                            *)
Repeats(a) ==
  /\ a.active /\ a.week # {} /\ a.start # a.stop
  /\ a.start \in Minutes /\ a.stop \in Minutes

LEMMA OpensIs ==
  ASSUME now \in 0 .. Week - 1, NEW a \in Infos, Repeats(a)
  PROVE  Opens(a) <=> \E d \in DaysOf(a) : Since(a, d, now) = 0
<1>1. a.active /\ a.week # {} /\ a.start \in Minutes BY DEF Repeats
<1>2. Minute \in Minutes /\ Day \in Days BY TimeIs
<1>3. ASSUME NEW d \in DaysOf(a)
      PROVE  Since(a, d, now) = 0 <=> a.start = Minute /\ Day = d
  <2>1. d \in Days BY DaysAre
  <2>2. /\ Round(a) \in 0 .. DAY - 1 /\ Since(a, d, now) \in 0 .. Week - 1
        /\ Since(a, d, now) >= Round(a)
        /\ Present(a, d) => Since(a, d, now) = Round(a)
        /\ ~Present(a, d) => Since(a, d, now) >= DAY
        BY <1>1, <2>1, SinceIs
  <2>3. Round(a) = 0 <=> a.start = Minute
        BY <1>1, <1>2, ScheduleConstants DEF Round, Minutes
  <2>4. a.start = Minute => (Present(a, d) <=> Day = d)
        BY <1>1, <1>2, ScheduleConstants DEF Present, Minutes
  <2> QED BY <2>2, <2>3, <2>4, ScheduleConstants
<1>4. Opens(a) <=> a.start = Minute /\ Day \in DaysOf(a)
      BY <1>1, DayIs, Zenon DEF Opens
<1> QED BY <1>3, <1>4, Zenon

LEMMA ClosesIs ==
  ASSUME now \in 0 .. Week - 1, NEW a \in Infos, Repeats(a)
  PROVE  Closes(a) <=> \E d \in DaysOf(a) : Since(a, d, now) = Length(a)
<1>1. a.active /\ a.week # {} /\ a.start \in Minutes /\ a.stop \in Minutes /\ a.start # a.stop
      BY DEF Repeats
<1>2. Minute \in Minutes /\ Day \in Days BY TimeIs
<1>3. ASSUME NEW d \in DaysOf(a)
      PROVE  Since(a, d, now) = Length(a)
               <=> a.stop = Minute /\ IF a.stop <= a.start THEN Day = (d + 1) % WEEK ELSE Day = d
  <2>1. d \in Days BY DaysAre
  <2>2. /\ Round(a) \in 0 .. DAY - 1 /\ Since(a, d, now) \in 0 .. Week - 1
        /\ Since(a, d, now) >= Round(a)
        /\ Present(a, d) => Since(a, d, now) = Round(a)
        /\ ~Present(a, d) => Since(a, d, now) >= DAY
        BY <1>1, <2>1, SinceIs
  <2>3. Round(a) = Length(a) <=> a.stop = Minute
        BY <1>1, <1>2, ScheduleConstants DEF Round, Length, Minutes
  <2>4. CASE a.stop # Minute BY <2>2, <2>3, <2>4, <1>1, LengthIs, ScheduleConstants
  <2>5. CASE a.stop = Minute
    <3>1. Minute >= a.start <=> ~(a.stop <= a.start)
          BY <2>5, <1>1, <1>2, ScheduleConstants DEF Minutes
    <3>2. Present(a, d) <=> IF a.stop <= a.start THEN Day = (d + 1) % WEEK ELSE Day = d
          BY <3>1, Zenon DEF Present
    <3>3. Since(a, d, now) = Length(a) <=> Present(a, d)
          BY <2>2, <2>3, <2>5, <1>1, LengthIs, ScheduleConstants
    <3> QED BY <3>2, <3>3, <2>5
  <2> QED BY <2>4, <2>5
<1>4. a.start # NoTime BY <1>1, ScheduleConstants DEF NoTime, Minutes
<1>5. CASE a.stop <= a.start
  <2>1. Closes(a) <=> a.stop = Minute /\ \E d \in DaysOf(a) : Day = (d + 1) % WEEK
        BY <1>1, <1>4, <1>5, DayIs, Zenon DEF Closes
  <2> QED BY <2>1, <1>3, <1>5, Zenon
<1>6. CASE ~(a.stop <= a.start)
  <2>1. Closes(a) <=> a.stop = Minute /\ Day \in DaysOf(a)
        BY <1>1, <1>6, DayIs, Zenon DEF Closes
  <2> QED BY <2>1, <1>3, <1>6, Zenon
<1> QED BY <1>5, <1>6

-----------------------------------------------------------------------------
(* The infos.                                                              *)
LEMMA TypesOfInfos ==
  ASSUME NEW a \in Infos
  PROVE  /\ Inactive(a) \in Infos /\ ~Inactive(a).active
         /\ Inactive(a).start = a.start /\ Inactive(a).stop = a.stop
         /\ Inactive(a).week = a.week /\ Inactive(Inactive(a)) = Inactive(a)
         /\ Erased(a) \in Infos /\ ~Erased(a).active
BY DEF Inactive, Erased, Infos

LEMMA NoInfoIs ==
  /\ NoInfo \in Infos /\ ~NoInfo.active
  /\ LET a == [week |-> {}, active |-> FALSE, start |-> NoTime, stop |-> 0]
     IN  a \in Infos /\ ~a.active
<1>1. 0 \in Minutes BY ScheduleConstants DEF Minutes
<1> QED BY <1>1 DEF NoInfo, Infos

LEMMA StatusTyped == \A a : Status(a) \in {"out", "start", "end", "within"}
BY DEF Status

(* What the app can do to the places.                                      *)
Stores == \E S \in SUBSET Alarms : \E new \in [S -> Infos] : StoreAlarms(new)
StoresAbsences ==
  \E S \in SUBSET Absences : \E new \in [S -> Infos] :
    /\ StoreAbsences(new) /\ again' \in BOOLEAN
    /\ \A i \in S : new[i].active => new[i].start \in Minutes /\ new[i].stop \in Minutes

LEMMA AlarmsStored ==
  ASSUME alarms \in [Alarms -> Infos], SetAlarmData \/ AddAlarmData \/ DeleteAlarmData
  PROVE  Stores
<1>1. ASSUME NEW a \in AlarmInfos, NEW i \in Alarms, StoreAlarms([j \in {i} |-> a])
      PROVE  Stores
  <2>1. {i} \in SUBSET Alarms /\ [j \in {i} |-> a] \in [{i} -> Infos] BY InfoAssumption
  <2> QED BY <1>1, <2>1, Zenon DEF Stores
<1>2. ASSUME NEW S \in SUBSET Alarms, StoreAlarms([i \in S |-> Erased(alarms[i])])
      PROVE  Stores
  <2>1. \A i \in S : Erased(alarms[i]) \in Infos BY TypesOfInfos
  <2>2. [i \in S |-> Erased(alarms[i])] \in [S -> Infos] BY <2>1
  <2> QED BY <1>2, <2>2, Zenon DEF Stores
<1>3. CASE SetAlarmData BY <1>1, <1>3, Zenon DEF SetAlarmData
<1>4. CASE AddAlarmData BY <1>1, <1>4, Zenon DEF AddAlarmData
<1>5. CASE DeleteAlarmData BY <1>2, <1>5, Zenon DEF DeleteAlarmData
<1> QED BY <1>3, <1>4, <1>5

LEMMA AbsencesStored ==
  ASSUME again \in BOOLEAN, SetAbsenceData \/ AddAbsenceData \/ DeleteAbsenceData
  PROVE  StoresAbsences
<1>1. ASSUME NEW a \in AbsenceInfos, NEW i \in Absences, StoreAbsences([j \in {i} |-> a]),
             again' = again
      PROVE  StoresAbsences
  <2>1. a \in Infos /\ a.start # NoTime /\ a.stop # NoTime BY InfoAssumption
  <2>2. a.start \in Minutes /\ a.stop \in Minutes BY <2>1 DEF Infos
  <2> DEFINE new == [j \in {i} |-> a]
  <2>3. {i} \in SUBSET Absences /\ new \in [{i} -> Infos] BY <2>1
  <2>4. \A j \in {i} : new[j].start \in Minutes /\ new[j].stop \in Minutes BY <2>2
  <2> QED BY <1>1, <2>3, <2>4, Zenon DEF StoresAbsences
<1>2. ASSUME NEW S \in SUBSET Absences, again' \in BOOLEAN,
             StoreAbsences([i \in S |->
               [week |-> {}, active |-> FALSE, start |-> NoTime, stop |-> 0]])
      PROVE  StoresAbsences
  <2> DEFINE a == [week |-> {}, active |-> FALSE, start |-> NoTime, stop |-> 0]
             new == [i \in S |-> a]
  <2>1. a \in Infos /\ ~a.active BY NoInfoIs
  <2>2. new \in [S -> Infos] /\ \A i \in S : ~new[i].active BY <2>1
  <2> QED BY <1>2, <2>2, Zenon DEF StoresAbsences
<1>3. CASE SetAbsenceData BY <1>1, <1>3, Zenon DEF SetAbsenceData
<1>4. CASE AddAbsenceData BY <1>1, <1>4, Zenon DEF AddAbsenceData
<1>5. CASE DeleteAbsenceData
  <2>1. PICK S \in SUBSET Absences :
          /\ StoreAbsences([i \in S |->
               [week |-> {}, active |-> FALSE, start |-> NoTime, stop |-> 0]])
          /\ again' \in {Cardinality(S) = 1, FALSE}
        BY <1>5 DEF DeleteAbsenceData
  <2>2. again' \in BOOLEAN BY <2>1
  <2> QED BY <1>2, <2>1, <2>2
<1> QED BY <1>3, <1>4, <1>5

-----------------------------------------------------------------------------
(* The types, in parts.                                                    *)
InfosTyped ==
  alarms \in [Alarms -> Infos] /\ absences \in [Absences -> Infos]
    /\ stored \in [Alarms -> Infos]
FlagsTyped ==
  /\ switch \in BOOLEAN /\ absenceRunning \in BOOLEAN /\ again \in BOOLEAN
  /\ checked \in BOOLEAN /\ missed \in BOOLEAN /\ raced \in BOOLEAN
NumbersTyped ==
  /\ now \in 0 .. Week - 1 /\ slot \in 0 .. MAX_ALARM_COUNT
  /\ nextAbsenceMinute \in Minutes \cup {NoMinute} /\ quiet \in 0 .. Week
BoundsTyped == edits \in 0 .. MaxEdits /\ misses \in 0 .. MaxMissed
Steps == {"idle", "alarms", "save alarm", "absences", "save absences", "act"}
ThreadsTyped ==
  /\ pc \in [Threads -> Steps] /\ copies \in [Threads -> SUBSET (Int \X Infos)]
  /\ status \in [Threads -> SUBSET {"out", "start", "end", "within"}]
HistoryTyped == stale \subseteq Alarms /\ opened \in [Alarms -> 0 .. 2]
Typed ==
  /\ InfosTyped /\ FlagsTyped /\ NumbersTyped /\ BoundsTyped /\ ThreadsTyped
  /\ HistoryTyped

LEMMA TypesAre == Typed <=> TypeOK
BY DEF Typed, InfosTyped, FlagsTyped, NumbersTyped, BoundsTyped, ThreadsTyped, HistoryTyped,
   TypeOK, Steps, Week

LEMMA CountsAre ==
  /\ MAX_ALARM_COUNT \in Nat /\ MAX_ABSENCE_COUNT \in Nat
  /\ MaxEdits \in Nat /\ MaxMissed \in Nat
BY CountAssumption

LEMMA InitTyped == Init => Typed
<1> SUFFICES ASSUME Init PROVE Typed OBVIOUS
<1>1. InfosTyped BY NoInfoIs DEF Init, InfosTyped
<1>2. FlagsTyped BY DEF Init, FlagsTyped
<1>3. NumbersTyped BY CountsAre, ScheduleConstants DEF Init, NumbersTyped, Week
<1>4. BoundsTyped BY CountsAre DEF Init, BoundsTyped
<1>5. ThreadsTyped BY DEF Init, ThreadsTyped, Steps
<1>6. HistoryTyped BY DEF Init, HistoryTyped
<1> QED BY <1>1, <1>2, <1>3, <1>4, <1>5, <1>6 DEF Typed

LEMMA Action ==
  ASSUME Typed, [Next]_vars
  PROVE  \/ StartCheck \/ CompareAlarm \/ InactiveAlarm \/ AlarmsDone
         \/ \E t \in Threads : CompareAbsences(t) \/ InactiveAbsence(t) \/ Act(t)
         \/ Stores \/ StoresAbsences \/ SetSwitchStatus
         \/ MinutePasses \/ MinuteMissed \/ Restart \/ UNCHANGED vars
<1>1. alarms \in [Alarms -> Infos] /\ again \in BOOLEAN BY DEF Typed, InfosTyped, FlagsTyped
<1>2. SetAlarmData \/ AddAlarmData \/ DeleteAlarmData => Stores BY <1>1, AlarmsStored
<1>3. SetAbsenceData \/ AddAbsenceData \/ DeleteAbsenceData => StoresAbsences
      BY <1>1, AbsencesStored
<1> QED BY <1>2, <1>3, Zenon DEF Next, CheckTimer, CheckAbsence

LEMMA ThreadsAre ==
  /\ Timer \in Threads /\ Message \in Threads /\ Timer # Message
  /\ \A t \in Threads : t = Timer \/ t = Message
BY DEF Threads, Timer, Message

LEMMA Moved ==
  ASSUME pc \in [Threads -> Steps], NEW t \in Threads, NEW step \in Steps,
         pc' = [pc EXCEPT ![t] = step]
  PROVE  /\ pc' \in [Threads -> Steps] /\ pc'[t] = step
         /\ \A u \in Threads : u # t => pc'[u] = pc[u]
OBVIOUS

LEMMA NextMinutes ==
  ASSUME now \in 0 .. Week - 1
  PROVE  (now + 1) % (WEEK * DAY) \in 0 .. Week - 1
<1>1. now + 1 \in Int /\ Week \in Nat \ {0} BY ScheduleConstants
<1> QED BY <1>1, Division, Zenon DEF Week

LEMMA Intervals ==
  /\ MIN_ABSENCE_OPEN_INTERVAL .. MAX_ABSENCE_OPEN_INTERVAL \subseteq 1 .. DAY - 1
  /\ MIN_ABSENCE_CLOSE_INTERVAL .. MAX_ABSENCE_CLOSE_INTERVAL \subseteq 1 .. DAY - 1
BY IntervalAssumption, ScheduleConstants

(* A change of the switch by an absence sets the next one in time.         *)
LEMMA ChangeIs ==
  ASSUME now \in 0 .. Week - 1, NEW open \in BOOLEAN, Change(open)
  PROVE  /\ switch' \in BOOLEAN /\ switch' = open
         /\ nextAbsenceMinute' \in Minutes
         /\ \E r \in 1 .. DAY - 1 :
              /\ nextAbsenceMinute' = (Minute + r) % DAY
              /\ r <= MAX_ABSENCE_OPEN_INTERVAL \/ r <= MAX_ABSENCE_CLOSE_INTERVAL
<1>1. switch' = open BY DEF Change
<1>2. PICK r : /\ r \in IF open THEN MIN_ABSENCE_OPEN_INTERVAL .. MAX_ABSENCE_OPEN_INTERVAL
                         ELSE MIN_ABSENCE_CLOSE_INTERVAL .. MAX_ABSENCE_CLOSE_INTERVAL
               /\ nextAbsenceMinute' = (Minute + r) % DAY
      BY Zenon DEF Change
<1>3. \/ r \in MIN_ABSENCE_OPEN_INTERVAL .. MAX_ABSENCE_OPEN_INTERVAL
      \/ r \in MIN_ABSENCE_CLOSE_INTERVAL .. MAX_ABSENCE_CLOSE_INTERVAL
      BY <1>2
<1>4. r \in 1 .. DAY - 1 BY <1>3, Intervals
<1>5. r <= MAX_ABSENCE_OPEN_INTERVAL \/ r <= MAX_ABSENCE_CLOSE_INTERVAL
      BY <1>3, IntervalAssumption
<1>6. Minute \in Minutes BY TimeIs
<1>7. Minute + r \in Int BY <1>4, <1>6, ScheduleConstants DEF Minutes
<1>8. (Minute + r) % DAY \in 0 .. DAY - 1 BY <1>7, TimeAssumption, Division, Zenon
<1>9. nextAbsenceMinute' \in Minutes BY <1>2, <1>8 DEF Minutes
<1> QED BY <1>1, <1>2, <1>4, <1>5, <1>9

(* What follows from the states of the absences.                           *)
LEMMA ActIs ==
  ASSUME Typed, NEW t \in Threads, Act(t)
  PROVE  /\ switch' \in BOOLEAN /\ absenceRunning' = Runs(status[t])
         /\ nextAbsenceMinute' \in Minutes \cup {NoMinute}
         /\ ~absenceRunning /\ ~absenceRunning' => switch' = switch
         /\ absenceRunning' =>
              \/ /\ absenceRunning /\ nextAbsenceMinute' = nextAbsenceMinute
                 /\ nextAbsenceMinute # Minute
              \/ \E r \in 1 .. DAY - 1 :
                   /\ nextAbsenceMinute' = (Minute + r) % DAY
                   /\ r <= MAX_ABSENCE_OPEN_INTERVAL \/ r <= MAX_ABSENCE_CLOSE_INTERVAL
<1>1. now \in 0 .. Week - 1 /\ nextAbsenceMinute \in Minutes \cup {NoMinute}
      BY DEF Typed, NumbersTyped
<1>2. switch \in BOOLEAN /\ absenceRunning \in BOOLEAN BY DEF Typed, FlagsTyped
<1>3. StartAbsence(t) \/ KeepAbsence(t) \/ StopAbsence(t) BY DEF Act
<1>4. CASE StartAbsence(t)
  <2>1. Runs(status[t]) /\ absenceRunning' = TRUE /\ Change(TRUE)
        BY <1>4 DEF StartAbsence, Runs
  <2>2. TRUE \in BOOLEAN OBVIOUS
  <2> QED BY <2>1, <2>2, <1>1, ChangeIs
<1>5. CASE KeepAbsence(t)
  <2>1. Runs(status[t]) /\ absenceRunning' = absenceRunning /\ absenceRunning
        BY <1>5 DEF KeepAbsence, Runs
  <2>2. CASE Minute = nextAbsenceMinute
    <3>1. Change(~switch) BY <2>2, <1>5 DEF KeepAbsence
    <3>2. (~switch) \in BOOLEAN OBVIOUS
    <3> QED BY <3>1, <3>2, <2>1, <1>1, <1>2, ChangeIs
  <2>3. CASE Minute # nextAbsenceMinute
    <3>1. switch' = switch /\ nextAbsenceMinute' = nextAbsenceMinute
          BY <2>3, <1>5 DEF KeepAbsence
    <3> QED BY <3>1, <2>1, <2>3, <1>1, <1>2
  <2> QED BY <2>2, <2>3
<1>6. CASE StopAbsence(t)
  <2>1. ~Runs(status[t]) BY <1>6 DEF StopAbsence, Runs
  <2>2. CASE absenceRunning
    <3>1. switch' = FALSE /\ absenceRunning' = FALSE /\ nextAbsenceMinute' = NoMinute
          BY <2>2, <1>6 DEF StopAbsence
    <3>2. absenceRunning' = Runs(status[t]) BY <3>1, <2>1 DEF Runs
    <3> QED BY <3>1, <3>2, <2>2
  <2>3. CASE ~absenceRunning
    <3>1. switch' = switch /\ absenceRunning' = absenceRunning
            /\ nextAbsenceMinute' = nextAbsenceMinute
          BY <2>3, <1>6 DEF StopAbsence, running
    <3>2. absenceRunning' = FALSE BY <3>1, <2>3, <1>2
    <3>3. absenceRunning' = Runs(status[t]) BY <3>2, <2>1 DEF Runs
    <3> QED BY <3>1, <3>2, <3>3, <1>1, <1>2
  <2> QED BY <2>2, <2>3
<1> QED BY <1>3, <1>4, <1>5, <1>6

LEMMA TypesKept ==
  ASSUME Typed, [Next]_vars
  PROVE  Typed'
<1> USE DEF vars, config, running, bounds, Goes, At
<1>0. /\ now \in 0 .. Week - 1 /\ pc \in [Threads -> Steps] /\ switch \in BOOLEAN
      /\ (now + 1) % (WEEK * DAY) \in 0 .. Week - 1
      BY NextMinutes DEF Typed, NumbersTyped, ThreadsTyped, FlagsTyped
<1>1. CASE StartCheck
  <2>1. InfosTyped' BY <1>1 DEF Typed, InfosTyped, StartCheck
  <2>2. FlagsTyped' BY <1>1 DEF Typed, FlagsTyped, StartCheck
  <2>3. NumbersTyped' BY <1>1, CountsAre DEF Typed, NumbersTyped, StartCheck
  <2>4. BoundsTyped' BY <1>1, CountsAre DEF Typed, BoundsTyped, StartCheck
  <2>5. ThreadsTyped' BY <1>1, <1>0, ThreadsAre, Moved DEF Typed, ThreadsTyped, StartCheck, Steps
  <2>6. HistoryTyped' BY <1>1 DEF Typed, HistoryTyped, StartCheck
  <2> QED BY <2>1, <2>2, <2>3, <2>4, <2>5, <2>6 DEF Typed
<1>2. CASE CompareAlarm
  <2>1. InfosTyped' BY <1>2 DEF Typed, InfosTyped, CompareAlarm
  <2>2. FlagsTyped'
    <3>1. PICK b \in BOOLEAN : b = ~Closes(alarms[slot]) OBVIOUS
    <3>2. switch' = switch \/ switch' = b BY <1>2, <3>1 DEF CompareAlarm
    <3>3. switch' \in BOOLEAN BY <3>2, <1>0
    <3>4. UNCHANGED <<absenceRunning, again, checked, missed, raced>> BY <1>2 DEF CompareAlarm
    <3>5. FlagsTyped BY DEF Typed
    <3> QED BY <3>3, <3>4, <3>5, Zenon DEF FlagsTyped
  <2>3. NumbersTyped'
    <3>1. /\ slot \in Alarms /\ slot' = slot + 1
          /\ UNCHANGED <<now, nextAbsenceMinute, quiet>>
          BY <1>2 DEF CompareAlarm
    <3>2. slot' \in 0 .. MAX_ALARM_COUNT BY <3>1, CountsAre DEF Alarms
    <3> QED BY <3>1, <3>2 DEF Typed, NumbersTyped
  <2>4. BoundsTyped' BY <1>2, CountsAre DEF Typed, BoundsTyped, CompareAlarm
  <2>5. ThreadsTyped'
    <3>1. pc' \in [Threads -> Steps]
      <4>1. \E step \in Steps : pc' = [pc EXCEPT ![Timer] = step]
            BY <1>2 DEF CompareAlarm, Steps
      <4> QED BY <4>1, <1>0, ThreadsAre, Moved
    <3>a. slot \in Alarms /\ alarms \in [Alarms -> Infos]
          BY <1>2 DEF CompareAlarm, Typed, InfosTyped
    <3>2. slot \in Int /\ alarms[slot] \in Infos BY <3>a, CountsAre DEF Alarms
    <3>3. {<<slot, alarms[slot]>>} \in SUBSET (Int \X Infos) BY <3>2
    <3>4. \/ copies' = copies
          \/ copies' = [copies EXCEPT ![Timer] = {<<slot, alarms[slot]>>}]
          BY <1>2 DEF CompareAlarm
    <3>5. copies' \in [Threads -> SUBSET (Int \X Infos)]
          BY <3>3, <3>4, ThreadsAre DEF Typed, ThreadsTyped
    <3> QED BY <1>2, <3>1, <3>5 DEF Typed, ThreadsTyped, CompareAlarm
  <2>6. HistoryTyped'
    <3>1. opened' \in [Alarms -> 0 .. 2]
      <4>1. slot \in Alarms /\ opened \in [Alarms -> 0 .. 2]
            BY <1>2 DEF CompareAlarm, Typed, HistoryTyped
      <4>2. \/ opened' = opened
            \/ opened[slot] < 2 /\ opened' = [opened EXCEPT ![slot] = @ + 1]
            BY <1>2 DEF CompareAlarm
      <4> QED BY <4>1, <4>2
    <3> QED BY <1>2, <3>1 DEF Typed, HistoryTyped, CompareAlarm
  <2> QED BY <2>1, <2>2, <2>3, <2>4, <2>5, <2>6 DEF Typed
<1>3. CASE InactiveAlarm
  <2>1. InfosTyped'
    <3>1. copies[Timer] \subseteq Int \X Infos BY ThreadsAre DEF Typed, ThreadsTyped
    <3>2. PICK c \in copies[Timer] : alarms' = [alarms EXCEPT ![c[1]] = Inactive(c[2])]
          BY <1>3 DEF InactiveAlarm
    <3>3. Inactive(c[2]) \in Infos BY <3>1, <3>2, TypesOfInfos
    <3> QED BY <1>3, <3>2, <3>3 DEF Typed, InfosTyped, InactiveAlarm
  <2>2. FlagsTyped' BY <1>3 DEF Typed, FlagsTyped, InactiveAlarm
  <2>3. NumbersTyped' BY <1>3, CountsAre DEF Typed, NumbersTyped, InactiveAlarm
  <2>4. BoundsTyped' BY <1>3, CountsAre DEF Typed, BoundsTyped, InactiveAlarm
  <2>5. ThreadsTyped' BY <1>3, <1>0, ThreadsAre, Moved DEF Typed, ThreadsTyped, InactiveAlarm, Steps
  <2>6. HistoryTyped' BY <1>3 DEF Typed, HistoryTyped, InactiveAlarm
  <2> QED BY <2>1, <2>2, <2>3, <2>4, <2>5, <2>6 DEF Typed
<1>4. CASE AlarmsDone
  <2>1. InfosTyped' BY <1>4 DEF Typed, InfosTyped, AlarmsDone
  <2>2. FlagsTyped' BY <1>4 DEF Typed, FlagsTyped, AlarmsDone
  <2>3. NumbersTyped' BY <1>4, CountsAre DEF Typed, NumbersTyped, AlarmsDone
  <2>4. BoundsTyped' BY <1>4, CountsAre DEF Typed, BoundsTyped, AlarmsDone
  <2>5. ThreadsTyped' BY <1>4, <1>0, ThreadsAre, Moved DEF Typed, ThreadsTyped, AlarmsDone, Steps
  <2>6. HistoryTyped' BY <1>4 DEF Typed, HistoryTyped, AlarmsDone
  <2> QED BY <2>1, <2>2, <2>3, <2>4, <2>5, <2>6 DEF Typed
<1>5. ASSUME NEW t \in Threads, CompareAbsences(t) PROVE Typed'
  <2>1. InfosTyped' BY <1>5 DEF Typed, InfosTyped, CompareAbsences
  <2>2. FlagsTyped' BY <1>5 DEF Typed, FlagsTyped, CompareAbsences
  <2>3. NumbersTyped' BY <1>5, CountsAre DEF Typed, NumbersTyped, CompareAbsences
  <2>4. BoundsTyped' BY <1>5, CountsAre DEF Typed, BoundsTyped, CompareAbsences
  <2>5. ThreadsTyped'
    <3>1. pc' \in [Threads -> Steps]
      <4>1. \E step \in Steps : pc' = [pc EXCEPT ![t] = step]
            BY <1>5 DEF CompareAbsences, Steps
      <4> QED BY <4>1, <1>0, Moved
    <3>2. \A i \in Absences : i \in Int /\ absences[i] \in Infos
          BY CountsAre DEF Absences, Typed, InfosTyped
    <3>3. {<<i, absences[i]>> : i \in Ended} \subseteq Int \X Infos BY <3>2 DEF Ended
    <3>4. {Status(absences[i]) : i \in Absences} \subseteq {"out", "start", "end", "within"}
          BY StatusTyped
    <3>5. /\ status' = [status EXCEPT ![t] = {Status(absences[i]) : i \in Absences}]
          /\ copies' = [copies EXCEPT ![t] = {<<i, absences[i]>> : i \in Ended}]
          BY <1>5 DEF CompareAbsences
    <3>6. copies' \in [Threads -> SUBSET (Int \X Infos)] BY <3>3, <3>5 DEF Typed, ThreadsTyped
    <3>7. status' \in [Threads -> SUBSET {"out", "start", "end", "within"}]
          BY <3>4, <3>5 DEF Typed, ThreadsTyped
    <3> QED BY <3>1, <3>6, <3>7 DEF ThreadsTyped
  <2>6. HistoryTyped' BY <1>5 DEF Typed, HistoryTyped, CompareAbsences
  <2> QED BY <2>1, <2>2, <2>3, <2>4, <2>5, <2>6 DEF Typed
<1>6. ASSUME NEW t \in Threads, InactiveAbsence(t) PROVE Typed'
  <2>1. InfosTyped'
    <3>1. copies[t] \subseteq Int \X Infos BY DEF Typed, ThreadsTyped
    <3>2. ASSUME NEW i \in Absences PROVE absences'[i] \in Infos
      <4>1. CASE \E c \in copies[t] : c[1] = i
        <5>1. PICK d : d \in copies[t] /\ d = CHOOSE c \in copies[t] : c[1] = i
              BY <4>1
        <5>2. absences'[i] = Inactive(d[2]) BY <1>6, <4>1, <5>1 DEF InactiveAbsence
        <5>3. d[2] \in Infos BY <3>1, <5>1
        <5> QED BY <5>2, <5>3, TypesOfInfos
      <4>2. CASE ~\E c \in copies[t] : c[1] = i
        <5>1. absences'[i] = absences[i] BY <1>6, <4>2 DEF InactiveAbsence
        <5> QED BY <5>1 DEF Typed, InfosTyped
      <4> QED BY <4>1, <4>2
    <3>3. absences' = [i \in Absences |-> absences'[i]] BY <1>6 DEF InactiveAbsence
    <3>4. absences' \in [Absences -> Infos] BY <3>2, <3>3
    <3> QED BY <1>6, <3>4 DEF Typed, InfosTyped, InactiveAbsence
  <2>2. FlagsTyped' BY <1>6 DEF Typed, FlagsTyped, InactiveAbsence
  <2>3. NumbersTyped' BY <1>6, CountsAre DEF Typed, NumbersTyped, InactiveAbsence
  <2>4. BoundsTyped' BY <1>6, CountsAre DEF Typed, BoundsTyped, InactiveAbsence
  <2>5. ThreadsTyped' BY <1>6, <1>0, ThreadsAre, Moved DEF Typed, ThreadsTyped, InactiveAbsence, Steps
  <2>6. HistoryTyped' BY <1>6 DEF Typed, HistoryTyped, InactiveAbsence
  <2> QED BY <2>1, <2>2, <2>3, <2>4, <2>5, <2>6 DEF Typed
<1>7. ASSUME NEW t \in Threads, Act(t) PROVE Typed'
  <2>1. InfosTyped' BY <1>7 DEF Typed, InfosTyped, Act
  <2>2. FlagsTyped'
    <3>1. switch' \in BOOLEAN /\ absenceRunning' = Runs(status[t]) BY <1>7, ActIs
    <3>2. absenceRunning' \in BOOLEAN BY <3>1 DEF Runs
    <3>3. PICK b \in BOOLEAN : b = (again /\ t # Message) OBVIOUS
    <3>4. PICK c \in BOOLEAN : c = (checked \/ t = Timer) OBVIOUS
    <3>5. again' = b /\ checked' = c /\ missed' = missed /\ raced' = raced
          BY <1>7, <3>3, <3>4, Zenon DEF Act
    <3> QED BY <3>1, <3>2, <3>5 DEF Typed, FlagsTyped
  <2>3. NumbersTyped'
    <3>1. nextAbsenceMinute' \in Minutes \cup {NoMinute} BY <1>7, ActIs
    <3> QED BY <1>7, <3>1 DEF Typed, NumbersTyped, Act
  <2>4. BoundsTyped' BY <1>7, CountsAre DEF Typed, BoundsTyped, Act
  <2>5. ThreadsTyped'
    <3>1. pc' \in [Threads -> Steps]
      <4>1. \E step \in Steps : pc' = [pc EXCEPT ![t] = step] BY <1>7 DEF Act, Steps
      <4> QED BY <4>1, <1>0, Moved
    <3> QED BY <1>7, <3>1 DEF Typed, ThreadsTyped, Act
  <2>6. HistoryTyped' BY <1>7 DEF Typed, HistoryTyped, Act
  <2> QED BY <2>1, <2>2, <2>3, <2>4, <2>5, <2>6 DEF Typed
<1>8. CASE Stores
  <2>0. PICK S \in SUBSET Alarms : \E new \in [S -> Infos] : StoreAlarms(new)
        BY <1>8 DEF Stores
  <2>a. PICK new \in [S -> Infos] : StoreAlarms(new) BY <2>0
  <2>b. alarms \in [Alarms -> Infos] /\ stored \in [Alarms -> Infos]
          /\ absences \in [Absences -> Infos]
        BY DEF Typed, InfosTyped
  <2>c. DOMAIN new = S /\ \A i \in S : new[i] \in Infos OBVIOUS
  <2>1. InfosTyped'
    <3>1. /\ alarms' = [i \in Alarms |-> IF i \in S THEN new[i] ELSE alarms[i]]
          /\ stored' = [i \in Alarms |-> IF i \in S THEN new[i] ELSE stored[i]]
          /\ absences' = absences
          BY <2>a, <2>c DEF StoreAlarms
    <3> QED BY <3>1, <2>b, <2>c DEF InfosTyped
  <2>2. FlagsTyped'
    <3>1. PICK b \in BOOLEAN : b = (raced \/ ~At(Timer, "idle")) OBVIOUS
    <3>2. /\ raced' = b /\ switch' = switch /\ absenceRunning' = absenceRunning
          /\ again' = again /\ checked' = checked /\ missed' = missed
          BY <2>a, <3>1 DEF StoreAlarms, Edits
    <3>3. FlagsTyped BY DEF Typed
    <3> QED BY <3>2, <3>3, Zenon DEF FlagsTyped
  <2>3. NumbersTyped'
    <3>1. quiet' = 0 /\ UNCHANGED <<now, nextAbsenceMinute, slot>> BY <2>a DEF StoreAlarms, Edits
    <3> QED BY <3>1, ScheduleConstants DEF Typed, NumbersTyped
  <2>4. BoundsTyped'
    <3>1. edits < MaxEdits /\ edits' = edits + 1 /\ misses' = misses
          BY <2>a DEF StoreAlarms, Edits
    <3> QED BY <3>1, CountsAre DEF Typed, BoundsTyped
  <2>5. ThreadsTyped' BY <2>a DEF Typed, ThreadsTyped, StoreAlarms, Edits
  <2>6. HistoryTyped'
    <3>1. /\ opened' = [i \in Alarms |-> IF i \in S THEN 0 ELSE opened[i]]
          /\ stale' \subseteq stale \cup S
          BY <2>a, <2>c DEF StoreAlarms
    <3> QED BY <3>1 DEF Typed, HistoryTyped
  <2> QED BY <2>1, <2>2, <2>3, <2>4, <2>5, <2>6 DEF Typed
<1>9. CASE StoresAbsences
  <2>0. PICK S \in SUBSET Absences : \E new \in [S -> Infos] :
          StoreAbsences(new) /\ again' \in BOOLEAN
        BY <1>9 DEF StoresAbsences
  <2>a. PICK new \in [S -> Infos] : StoreAbsences(new) /\ again' \in BOOLEAN BY <2>0
  <2>b. absences \in [Absences -> Infos] BY DEF Typed, InfosTyped
  <2>c. DOMAIN new = S /\ \A i \in S : new[i] \in Infos OBVIOUS
  <2>1. InfosTyped'
    <3>1. /\ absences' = [i \in Absences |-> IF i \in S THEN new[i] ELSE absences[i]]
          /\ stored' = stored /\ alarms' = alarms
          BY <2>a, <2>c DEF StoreAbsences
    <3> QED BY <3>1, <2>b, <2>c DEF Typed, InfosTyped
  <2>2. FlagsTyped'
    <3>1. PICK b \in BOOLEAN : b = (raced \/ ~At(Timer, "idle")) OBVIOUS
    <3>2. /\ raced' = b /\ switch' = switch /\ absenceRunning' = absenceRunning
          /\ again' \in BOOLEAN /\ checked' = checked /\ missed' = missed
          BY <2>a, <3>1 DEF StoreAbsences, Edits
    <3>3. FlagsTyped BY DEF Typed
    <3> QED BY <3>2, <3>3, Zenon DEF FlagsTyped
  <2>3. NumbersTyped'
    <3>1. quiet' = 0 /\ UNCHANGED <<now, nextAbsenceMinute, slot>> BY <2>a DEF StoreAbsences, Edits
    <3> QED BY <3>1, ScheduleConstants DEF Typed, NumbersTyped
  <2>4. BoundsTyped' BY <2>a, CountsAre DEF Typed, BoundsTyped, StoreAbsences, Edits
  <2>5. ThreadsTyped' BY <2>a, <1>0, ThreadsAre, Moved DEF Typed, ThreadsTyped, StoreAbsences, Edits, Steps
  <2>6. HistoryTyped' BY <2>a DEF Typed, HistoryTyped, StoreAbsences, Edits
  <2> QED BY <2>1, <2>2, <2>3, <2>4, <2>5, <2>6 DEF Typed
<1>10. CASE SetSwitchStatus
  <2>1. InfosTyped' BY <1>10 DEF Typed, InfosTyped, SetSwitchStatus
  <2>2. FlagsTyped'
    <3>1. switch' \in BOOLEAN /\ UNCHANGED <<absenceRunning, again, checked, missed, raced>>
          BY <1>10 DEF SetSwitchStatus
    <3>2. FlagsTyped BY DEF Typed
    <3> QED BY <3>1, <3>2, Zenon DEF FlagsTyped
  <2>3. NumbersTyped'
    <3>1. quiet' = 0 /\ UNCHANGED <<now, nextAbsenceMinute, slot>> BY <1>10 DEF SetSwitchStatus
    <3> QED BY <3>1, ScheduleConstants DEF Typed, NumbersTyped
  <2>4. BoundsTyped' BY <1>10, CountsAre DEF Typed, BoundsTyped, SetSwitchStatus
  <2>5. ThreadsTyped' BY <1>10 DEF Typed, ThreadsTyped, SetSwitchStatus
  <2>6. HistoryTyped' BY <1>10 DEF Typed, HistoryTyped, SetSwitchStatus
  <2> QED BY <2>1, <2>2, <2>3, <2>4, <2>5, <2>6 DEF Typed
<1>11. CASE MinutePasses
  <2>1. InfosTyped' BY <1>11 DEF Typed, InfosTyped, MinutePasses, NextMinute
  <2>2. FlagsTyped' BY <1>11 DEF Typed, FlagsTyped, MinutePasses, NextMinute
  <2>3. NumbersTyped' BY <1>11, CountsAre, <1>0, ScheduleConstants DEF Typed, NumbersTyped, MinutePasses, NextMinute, Week
  <2>4. BoundsTyped' BY <1>11, CountsAre DEF Typed, BoundsTyped, MinutePasses, NextMinute
  <2>5. ThreadsTyped' BY <1>11, <1>0, ThreadsAre, Moved DEF Typed, ThreadsTyped, MinutePasses, NextMinute, Steps
  <2>6. HistoryTyped' BY <1>11 DEF Typed, HistoryTyped, MinutePasses, NextMinute
  <2> QED BY <2>1, <2>2, <2>3, <2>4, <2>5, <2>6 DEF Typed
<1>12. CASE MinuteMissed
  <2>1. InfosTyped' BY <1>12 DEF Typed, InfosTyped, MinuteMissed, NextMinute
  <2>2. FlagsTyped' BY <1>12 DEF Typed, FlagsTyped, MinuteMissed, NextMinute
  <2>3. NumbersTyped' BY <1>12, CountsAre, <1>0, ScheduleConstants DEF Typed, NumbersTyped, MinuteMissed, NextMinute
  <2>4. BoundsTyped' BY <1>12, CountsAre DEF Typed, BoundsTyped, MinuteMissed, NextMinute
  <2>5. ThreadsTyped' BY <1>12, <1>0, ThreadsAre, Moved DEF Typed, ThreadsTyped, MinuteMissed, NextMinute, Steps
  <2>6. HistoryTyped' BY <1>12 DEF Typed, HistoryTyped, MinuteMissed, NextMinute
  <2> QED BY <2>1, <2>2, <2>3, <2>4, <2>5, <2>6 DEF Typed
<1>13. CASE Restart
  <2>1. InfosTyped' BY <1>13 DEF Typed, InfosTyped, Restart
  <2>2. FlagsTyped' BY <1>13 DEF Typed, FlagsTyped, Restart
  <2>3. NumbersTyped' BY <1>13, CountsAre, <1>0, ScheduleConstants DEF Typed, NumbersTyped, Restart
  <2>4. BoundsTyped' BY <1>13, CountsAre DEF Typed, BoundsTyped, Restart
  <2>5. ThreadsTyped' BY <1>13, <1>0, ThreadsAre, Moved DEF Typed, ThreadsTyped, Restart, Steps
  <2>6. HistoryTyped' BY <1>13 DEF Typed, HistoryTyped, Restart
  <2> QED BY <2>1, <2>2, <2>3, <2>4, <2>5, <2>6 DEF Typed
<1>14. CASE UNCHANGED vars
  <2>1. InfosTyped' BY <1>14 DEF Typed, InfosTyped
  <2>2. FlagsTyped' BY <1>14 DEF Typed, FlagsTyped
  <2>3. NumbersTyped' BY <1>14, CountsAre DEF Typed, NumbersTyped
  <2>4. BoundsTyped' BY <1>14, CountsAre DEF Typed, BoundsTyped
  <2>5. ThreadsTyped' BY <1>14 DEF Typed, ThreadsTyped
  <2>6. HistoryTyped' BY <1>14 DEF Typed, HistoryTyped
  <2> QED BY <2>1, <2>2, <2>3, <2>4, <2>5, <2>6 DEF Typed
<1> QED BY Action, <1>1, <1>2, <1>3, <1>4, <1>5, <1>6, <1>7, <1>8, <1>9, <1>10, <1>11, <1>12, <1>13, <1>14

LEMMA StoresIs ==
  ASSUME Stores
  PROVE  /\ UNCHANGED <<now, switch, absenceRunning, nextAbsenceMinute, pc, slot, copies>>
         /\ UNCHANGED <<absences, status, again, checked, missed>>
         /\ quiet' = 0 /\ At(Message, "idle") /\ raced' = (raced \/ ~At(Timer, "idle"))
         /\ \E S \in SUBSET Alarms : \E new \in [S -> Infos] :
              /\ alarms' = [i \in Alarms |-> IF i \in S THEN new[i] ELSE alarms[i]]
              /\ stored' = [i \in Alarms |-> IF i \in S THEN new[i] ELSE stored[i]]
              /\ opened' = [i \in Alarms |-> IF i \in S THEN 0 ELSE opened[i]]
              /\ \A i \in Alarms :
                   i \in stale' <=>
                     \/ i \in stale /\ i \notin S
                     \/ i \in S /\ At(Timer, "save alarm") /\ \E c \in copies[Timer] : c[1] = i
<1>1. PICK S \in SUBSET Alarms : \E new \in [S -> Infos] : StoreAlarms(new)
      BY DEF Stores
<1>2. PICK new \in [S -> Infos] : StoreAlarms(new) BY <1>1
<1>3. DOMAIN new = S OBVIOUS
<1>4. /\ UNCHANGED <<now, switch, absenceRunning, nextAbsenceMinute, pc, slot, copies>>
      /\ UNCHANGED <<absences, status, again, checked, missed>>
      BY <1>2 DEF StoreAlarms, running
<1>5. quiet' = 0 /\ At(Message, "idle") /\ raced' = (raced \/ ~At(Timer, "idle"))
      BY <1>2, Zenon DEF StoreAlarms, Edits
<1>6. /\ alarms' = [i \in Alarms |-> IF i \in S THEN new[i] ELSE alarms[i]]
      /\ stored' = [i \in Alarms |-> IF i \in S THEN new[i] ELSE stored[i]]
      /\ opened' = [i \in Alarms |-> IF i \in S THEN 0 ELSE opened[i]]
      BY <1>2, <1>3 DEF StoreAlarms
<1>7. \A i \in Alarms :
        i \in stale' <=>
          \/ i \in stale /\ i \notin S
          \/ i \in S /\ At(Timer, "save alarm") /\ \E c \in copies[Timer] : c[1] = i
      BY <1>2, <1>3 DEF StoreAlarms
<1> QED BY <1>4, <1>5, <1>6, <1>7

LEMMA StoresAbsencesIs ==
  ASSUME StoresAbsences
  PROVE  /\ UNCHANGED <<now, switch, absenceRunning, nextAbsenceMinute, slot, copies>>
         /\ UNCHANGED <<alarms, stored, opened, stale, status, checked, missed>>
         /\ quiet' = 0 /\ At(Message, "idle") /\ raced' = (raced \/ ~At(Timer, "idle"))
         /\ Goes(Message, "absences")
         /\ \E S \in SUBSET Absences : \E new \in [S -> Infos] :
              /\ absences' = [i \in Absences |-> IF i \in S THEN new[i] ELSE absences[i]]
              /\ \A i \in S :
                   new[i].active => new[i].start \in Minutes /\ new[i].stop \in Minutes
<1>1. PICK S \in SUBSET Absences : \E new \in [S -> Infos] :
        /\ StoreAbsences(new)
        /\ \A i \in S : new[i].active => new[i].start \in Minutes /\ new[i].stop \in Minutes
      BY Zenon DEF StoresAbsences
<1>2. PICK new \in [S -> Infos] :
        /\ StoreAbsences(new)
        /\ \A i \in S : new[i].active => new[i].start \in Minutes /\ new[i].stop \in Minutes
      BY <1>1
<1>3. DOMAIN new = S OBVIOUS
<1>4. /\ UNCHANGED <<now, switch, absenceRunning, nextAbsenceMinute, slot, copies>>
      /\ UNCHANGED <<alarms, stored, opened, stale, status, checked, missed>>
      BY <1>2 DEF StoreAbsences, running
<1>5. /\ quiet' = 0 /\ At(Message, "idle") /\ raced' = (raced \/ ~At(Timer, "idle"))
      /\ Goes(Message, "absences")
      BY <1>2, Zenon DEF StoreAbsences, Edits
<1>6. absences' = [i \in Absences |-> IF i \in S THEN new[i] ELSE absences[i]]
      BY <1>2, <1>3 DEF StoreAbsences
<1> QED BY <1>2, <1>4, <1>5, <1>6

LEMMA ActMoves ==
  ASSUME Typed, NEW t \in Threads, Act(t)
  PROVE  /\ At(t, "act")
         /\ pc'[t] \in {"idle", "absences"} /\ (t = Timer => pc'[t] = "idle")
         /\ pc' \in [Threads -> Steps]
         /\ \A u \in Threads : u # t => pc'[u] = pc[u]
         /\ checked' = (checked \/ t = Timer)
         /\ UNCHANGED <<now, alarms, absences, slot, copies>>
         /\ UNCHANGED <<stored, stale, opened, missed, raced, quiet>>
<1>1. pc \in [Threads -> Steps] BY DEF Typed, ThreadsTyped
<1>2. CASE t = Message /\ again
  <2>1. pc' = [pc EXCEPT ![t] = "absences"] /\ "absences" \in Steps
        BY <1>2 DEF Act, Goes, Steps
  <2> QED BY <1>1, <1>2, <2>1, Moved, ThreadsAre DEF Act, config
<1>3. CASE ~(t = Message /\ again)
  <2>1. pc' = [pc EXCEPT ![t] = "idle"] /\ "idle" \in Steps
        BY <1>3 DEF Act, Goes, Steps
  <2> QED BY <1>1, <1>3, <2>1, Moved, ThreadsAre DEF Act, config
<1> QED BY <1>2, <1>3

-----------------------------------------------------------------------------
(* Where the threads are, and what they hold.                              *)
LEMMA WorkingKept ==
  ASSUME Typed, Working, [Next]_vars
  PROVE  Working'
<1> USE DEF vars, config, running, bounds, Goes, At
<1>0. /\ pc \in [Threads -> Steps] /\ slot \in 0 .. MAX_ALARM_COUNT /\ MAX_ALARM_COUNT \in Nat
      BY CountsAre DEF Typed, NumbersTyped, ThreadsTyped
<1>1. CASE StartCheck
  BY <1>0, <1>1, ThreadsAre, Moved DEF Working, Alarms, Steps, StartCheck
<1>2. CASE CompareAlarm
  BY <1>0, <1>2, ThreadsAre, Moved DEF Working, Alarms, Steps, CompareAlarm
<1>3. CASE InactiveAlarm
  <2>1. /\ pc[Timer] = "save alarm" /\ pc' = [pc EXCEPT ![Timer] = "alarms"]
        /\ UNCHANGED <<slot, checked>>
        BY <1>3 DEF InactiveAlarm
  <2> QED BY <1>0, <2>1, ThreadsAre, Moved DEF Working, Steps
<1>4. CASE AlarmsDone
  <2>1. /\ pc[Timer] = "alarms" /\ pc' = [pc EXCEPT ![Timer] = "absences"]
        /\ UNCHANGED <<slot, checked>> /\ slot \notin Alarms
        BY <1>4 DEF AlarmsDone
  <2>2. slot = MAX_ALARM_COUNT BY <2>1, <1>0 DEF Alarms
  <2> QED BY <1>0, <2>1, <2>2, ThreadsAre, Moved DEF Working, Steps
<1>5. ASSUME NEW t \in Threads, CompareAbsences(t) PROVE Working'
  BY <1>0, <1>5, ThreadsAre, Moved DEF Working, Alarms, Steps, CompareAbsences
<1>6. ASSUME NEW t \in Threads, InactiveAbsence(t) PROVE Working'
  BY <1>0, <1>6, ThreadsAre, Moved DEF Working, Alarms, Steps, InactiveAbsence
<1>7. ASSUME NEW t \in Threads, Act(t) PROVE Working'
  <2>1. /\ pc[t] = "act" /\ pc'[t] \in {"idle", "absences"} /\ (t = Timer => pc'[t] = "idle")
        /\ \A u \in Threads : u # t => pc'[u] = pc[u]
        /\ checked' = (checked \/ t = Timer) /\ slot' = slot
        BY <1>7, ActMoves
  <2>2. CASE t = Timer BY <2>1, <2>2, ThreadsAre DEF Working
  <2>3. CASE t = Message
    <3>1. checked' = checked BY <2>1, <2>3, ThreadsAre, Zenon DEF Typed, FlagsTyped
    <3> QED BY <3>1, <2>1, <2>3, ThreadsAre DEF Working
  <2> QED BY <2>2, <2>3, ThreadsAre
<1>8. CASE Stores
  <2>1. UNCHANGED <<pc, slot, checked>> BY <1>8, StoresIs
  <2> QED BY <2>1 DEF Working
<1>9. CASE StoresAbsences
  <2>1. pc' = [pc EXCEPT ![Message] = "absences"] /\ UNCHANGED <<slot, checked>>
        BY <1>9, StoresAbsencesIs
  <2> QED BY <1>0, <2>1, ThreadsAre, Moved DEF Working, Steps
<1>10. CASE SetSwitchStatus
  BY <1>0, <1>10, ThreadsAre, Moved DEF Working, Alarms, Steps, SetSwitchStatus
<1>11. CASE MinutePasses
  BY <1>0, <1>11, ThreadsAre, Moved
     DEF Working, Alarms, Steps, MinutePasses, NextMinute, Idle
<1>12. CASE MinuteMissed
  BY <1>0, <1>12, ThreadsAre, Moved
     DEF Working, Alarms, Steps, MinuteMissed, NextMinute, Idle
<1>13. CASE Restart
  BY <1>0, <1>13, ThreadsAre, Moved DEF Working, Alarms, Steps, Restart
<1>14. CASE UNCHANGED vars
  BY <1>0, <1>14, ThreadsAre, Moved DEF Working, Alarms, Steps
<1> QED BY Action, <1>1, <1>2, <1>3, <1>4, <1>5, <1>6, <1>7, <1>8, <1>9, <1>10, <1>11, <1>12, <1>13, <1>14

LEMMA OtherThread ==
  ASSUME pc \in [Threads -> Steps], copies \in [Threads -> SUBSET (Int \X Infos)],
         CopyOut, UNCHANGED <<alarms, slot, stale>>, NEW t \in Threads,
         \E step \in {"act", "save absences"} : pc' = [pc EXCEPT ![t] = step],
         \E new : copies' = [copies EXCEPT ![t] = new]
  PROVE  CopyOut'
<1>1. pc'[t] \in {"act", "save absences"} OBVIOUS
<1>2. \A u \in Threads : u # t => pc'[u] = pc[u] /\ copies'[u] = copies[u] OBVIOUS
<1>3. CASE t = Timer BY <1>1, <1>3 DEF CopyOut, At
<1>4. CASE t # Timer
  <2>1. pc'[Timer] = pc[Timer] /\ copies'[Timer] = copies[Timer] BY <1>2, <1>4, ThreadsAre
  <2> QED BY <2>1, Zenon DEF CopyOut, At
<1> QED BY <1>3, <1>4

LEMMA CopyOutKept ==
  ASSUME Typed, CopyOut, [Next]_vars
  PROVE  CopyOut'
<1> USE DEF vars, config, running, bounds, Goes, At
<1>0. /\ pc \in [Threads -> Steps] /\ copies \in [Threads -> SUBSET (Int \X Infos)]
      /\ alarms \in [Alarms -> Infos]
      BY DEF Typed, InfosTyped, ThreadsTyped
<1>1. CASE StartCheck
  BY <1>0, <1>1, ThreadsAre, Moved DEF CopyOut, Steps, StartCheck
<1>2. CASE CompareAlarm
  <2> DEFINE a == alarms[slot]
  <2>1. slot \in Alarms /\ slot' = slot + 1 /\ UNCHANGED <<alarms, stale>>
        BY <1>2 DEF CompareAlarm
  <2>2. a \in Infos BY <1>0, <2>1
  <2>3. CASE Spent(a)
    <3>1. a.week = {} BY <2>3 DEF Spent
    <3>2. copies' = [copies EXCEPT ![Timer] = {<<slot, a>>}] BY <1>2, <2>3 DEF CompareAlarm
    <3>3. copies'[Timer] = {<<slot, a>>} BY <1>0, <3>2, ThreadsAre
    <3> HIDE DEF a
    <3>4. a = alarms[slot] BY DEF a
    <3> QED BY <2>1, <2>2, <3>1, <3>3, <3>4 DEF CopyOut
  <2>4. CASE ~Spent(a)
    <3>1. pc' = [pc EXCEPT ![Timer] = "alarms"] BY <1>2, <2>4 DEF CompareAlarm
    <3> QED BY <3>1, <1>0, ThreadsAre DEF CopyOut
  <2> QED BY <2>3, <2>4
<1>3. CASE InactiveAlarm
  BY <1>0, <1>3, ThreadsAre, Moved DEF CopyOut, Steps, InactiveAlarm
<1>4. CASE AlarmsDone
  BY <1>0, <1>4, ThreadsAre, Moved DEF CopyOut, Steps, AlarmsDone
<1>5. ASSUME NEW t \in Threads, CompareAbsences(t) PROVE CopyOut'
  <2>1. UNCHANGED <<alarms, slot, stale>> BY <1>5 DEF CompareAbsences
  <2>2. \E step \in {"act", "save absences"} : pc' = [pc EXCEPT ![t] = step]
        BY <1>5 DEF CompareAbsences
  <2>3. \E new : copies' = [copies EXCEPT ![t] = new] BY <1>5 DEF CompareAbsences
  <2> QED BY <1>0, <2>1, <2>2, <2>3, OtherThread
<1>6. ASSUME NEW t \in Threads, InactiveAbsence(t) PROVE CopyOut'
  <2>1. UNCHANGED <<alarms, slot, stale>> BY <1>6 DEF InactiveAbsence
  <2>2. \E step \in {"act", "save absences"} : pc' = [pc EXCEPT ![t] = step]
        BY <1>6 DEF InactiveAbsence
  <2>3. \E new : copies' = [copies EXCEPT ![t] = new] BY <1>6 DEF InactiveAbsence
  <2> QED BY <1>0, <2>1, <2>2, <2>3, OtherThread
<1>7. ASSUME NEW t \in Threads, Act(t) PROVE CopyOut'
  <2>1. /\ pc[t] = "act" /\ pc'[t] \in {"idle", "absences"}
        /\ \A u \in Threads : u # t => pc'[u] = pc[u]
        /\ UNCHANGED <<alarms, slot, copies, stale>>
        BY <1>7, ActMoves
  <2> QED BY <2>1, ThreadsAre DEF CopyOut
<1>8. CASE Stores
  <2>1. UNCHANGED <<pc, slot, copies>> BY <1>8, StoresIs
  <2>b. PICK S \in SUBSET Alarms : \E new \in [S -> Infos] :
          /\ alarms' = [i \in Alarms |-> IF i \in S THEN new[i] ELSE alarms[i]]
          /\ stored' = [i \in Alarms |-> IF i \in S THEN new[i] ELSE stored[i]]
          /\ opened' = [i \in Alarms |-> IF i \in S THEN 0 ELSE opened[i]]
          /\ \A i \in Alarms :
               i \in stale' <=>
                 \/ i \in stale /\ i \notin S
                 \/ i \in S /\ At(Timer, "save alarm") /\ \E c \in copies[Timer] : c[1] = i
        BY <1>8, StoresIs, Zenon
  <2>c. PICK new \in [S -> Infos] :
          /\ alarms' = [i \in Alarms |-> IF i \in S THEN new[i] ELSE alarms[i]]
          /\ stored' = [i \in Alarms |-> IF i \in S THEN new[i] ELSE stored[i]]
          /\ opened' = [i \in Alarms |-> IF i \in S THEN 0 ELSE opened[i]]
          /\ \A i \in Alarms :
               i \in stale' <=>
                 \/ i \in stale /\ i \notin S
                 \/ i \in S /\ At(Timer, "save alarm") /\ \E c \in copies[Timer] : c[1] = i
        BY <2>b, Zenon
  <2>2. /\ \A i \in Alarms : i \notin S => alarms'[i] = alarms[i]
        /\ \A i \in Alarms :
             i \in stale' <=>
               \/ i \in stale /\ i \notin S
               \/ i \in S /\ At(Timer, "save alarm") /\ \E c \in copies[Timer] : c[1] = i
        BY <2>c
  <2> SUFFICES ASSUME At(Timer, "save alarm") PROVE CopyOut'
      BY <2>1 DEF CopyOut
  <2>3. PICK i \in Alarms, a \in Infos :
          /\ slot = i + 1 /\ copies[Timer] = {<<i, a>>} /\ a.week = {}
          /\ i \notin stale => alarms[i] = a
        BY DEF CopyOut
  <2>a. <<i, a>> \in copies[Timer] /\ <<i, a>>[1] = i BY <2>3
  <2>4. \E c \in copies[Timer] : c[1] = i BY <2>a, Zenon
  <2>5. i \notin stale' => i \notin S /\ i \notin stale BY <2>2, <2>4
  <2>6. i \notin stale' => alarms'[i] = a BY <2>2, <2>3, <2>5
  <2> QED BY <2>1, <2>3, <2>6 DEF CopyOut
<1>9. CASE StoresAbsences
  <2>1. /\ pc' = [pc EXCEPT ![Message] = "absences"]
        /\ UNCHANGED <<alarms, slot, copies, stale>>
        BY <1>9, StoresAbsencesIs
  <2>2. pc'[Timer] = pc[Timer] BY <1>0, <2>1, ThreadsAre
  <2> QED BY <2>1, <2>2, Zenon DEF CopyOut
<1>10. CASE SetSwitchStatus
  BY <1>0, <1>10, ThreadsAre, Moved DEF CopyOut, Steps, SetSwitchStatus
<1>11. CASE MinutePasses
  BY <1>0, <1>11, ThreadsAre, Moved DEF CopyOut, Steps, MinutePasses, NextMinute, Idle
<1>12. CASE MinuteMissed
  BY <1>0, <1>12, ThreadsAre, Moved DEF CopyOut, Steps, MinuteMissed, NextMinute, Idle
<1>13. CASE Restart
  BY <1>0, <1>13, ThreadsAre, Moved DEF CopyOut, Steps, Restart
<1>14. CASE UNCHANGED vars
  BY <1>0, <1>14, ThreadsAre, Moved DEF CopyOut, Steps
<1> QED BY Action, <1>1, <1>2, <1>3, <1>4, <1>5, <1>6, <1>7, <1>8, <1>9, <1>10, <1>11, <1>12, <1>13, <1>14

-----------------------------------------------------------------------------
(* What becomes of an alarm that the app stored.                           *)
LEMMA InactiveAlarmIs ==
  ASSUME Typed, CopyOut, InactiveAlarm
  PROVE  /\ At(Timer, "save alarm") /\ pc' = [pc EXCEPT ![Timer] = "alarms"]
         /\ UNCHANGED <<now, absences, switch, absenceRunning, nextAbsenceMinute, slot, status>>
         /\ UNCHANGED <<again, checked, stored, stale, opened, missed, raced, quiet>>
         /\ \E i \in Alarms, a \in Infos :
              /\ slot = i + 1 /\ a.week = {} /\ (i \notin stale => alarms[i] = a)
              /\ alarms' = [alarms EXCEPT ![i] = Inactive(a)]
<1>1. /\ At(Timer, "save alarm") /\ pc' = [pc EXCEPT ![Timer] = "alarms"]
      /\ UNCHANGED <<now, absences, switch, absenceRunning, nextAbsenceMinute, slot, status>>
      /\ UNCHANGED <<again, checked, stored, stale, opened, missed, raced, quiet>>
      BY DEF InactiveAlarm, Goes, running
<1>2. PICK i \in Alarms, a \in Infos :
        /\ slot = i + 1 /\ copies[Timer] = {<<i, a>>} /\ a.week = {}
        /\ i \notin stale => alarms[i] = a
      BY <1>1, Zenon DEF CopyOut
<1>3. PICK c \in copies[Timer] : alarms' = [alarms EXCEPT ![c[1]] = Inactive(c[2])]
      BY DEF InactiveAlarm
<1>4. c = <<i, a>> BY <1>2, <1>3
<1>5. alarms' = [alarms EXCEPT ![i] = Inactive(a)] BY <1>3, <1>4
<1> QED BY <1>1, <1>2, <1>5

LEMMA OthersKeepAlarms ==
  ASSUME Typed, NEW t \in Threads,
         StartCheck \/ CompareAlarm \/ AlarmsDone \/ CompareAbsences(t) \/ InactiveAbsence(t)
           \/ Act(t) \/ StoresAbsences \/ SetSwitchStatus \/ MinutePasses \/ MinuteMissed
           \/ Restart \/ UNCHANGED vars
  PROVE  UNCHANGED <<alarms, stored, stale>>
<1> USE DEF vars, config
<1>1. CASE StoresAbsences BY <1>1, StoresAbsencesIs
<1>2. CASE Act(t) BY <1>2, ActMoves
<1>3. CASE MinutePasses \/ MinuteMissed BY <1>3 DEF MinutePasses, MinuteMissed, NextMinute
<1>4. CASE StartCheck \/ CompareAlarm \/ AlarmsDone
      BY <1>4 DEF StartCheck, CompareAlarm, AlarmsDone
<1>5. CASE CompareAbsences(t) \/ InactiveAbsence(t)
      BY <1>5 DEF CompareAbsences, InactiveAbsence
<1>6. CASE SetSwitchStatus \/ Restart \/ UNCHANGED vars BY <1>6 DEF SetSwitchStatus, Restart
<1> QED BY <1>1, <1>2, <1>3, <1>4, <1>5, <1>6, Zenon

LEMMA EditKeptKept ==
  ASSUME Typed, CopyOut, EditKept, [Next]_vars
  PROVE  EditKept'
<1>0. alarms \in [Alarms -> Infos] /\ stored \in [Alarms -> Infos] BY DEF Typed, InfosTyped
<1>1. CASE InactiveAlarm
  <2>1. UNCHANGED <<stored, stale>> BY <1>1, InactiveAlarmIs
  <2>2. PICK i \in Alarms, a \in Infos :
          /\ slot = i + 1 /\ a.week = {} /\ (i \notin stale => alarms[i] = a)
          /\ alarms' = [alarms EXCEPT ![i] = Inactive(a)]
        BY <1>1, InactiveAlarmIs
  <2> SUFFICES ASSUME NEW j \in Alarms \ stale
               PROVE  \/ alarms'[j] = stored[j]
                      \/ stored[j].week = {} /\ alarms'[j] = Inactive(stored[j])
      BY <2>1 DEF EditKept
  <2>3. \/ alarms[j] = stored[j]
        \/ stored[j].week = {} /\ alarms[j] = Inactive(stored[j])
        BY DEF EditKept
  <2>4. CASE j = i
    <3>1. alarms'[j] = Inactive(alarms[j]) /\ alarms[j].week = {} BY <2>2, <2>4, <1>0
    <3>2. CASE alarms[j] = stored[j] BY <3>1, <3>2
    <3>3. CASE stored[j].week = {} /\ alarms[j] = Inactive(stored[j])
      <4>1. Inactive(Inactive(stored[j])) = Inactive(stored[j]) BY <1>0, TypesOfInfos
      <4> QED BY <3>1, <3>3, <4>1
    <3> QED BY <2>3, <3>2, <3>3
  <2>5. CASE j # i
    <3>1. alarms'[j] = alarms[j] BY <2>2, <2>5, <1>0
    <3> QED BY <2>3, <3>1
  <2> QED BY <2>4, <2>5
<1>2. CASE Stores
  <2>a. PICK S \in SUBSET Alarms : \E new \in [S -> Infos] :
          /\ alarms' = [i \in Alarms |-> IF i \in S THEN new[i] ELSE alarms[i]]
          /\ stored' = [i \in Alarms |-> IF i \in S THEN new[i] ELSE stored[i]]
          /\ opened' = [i \in Alarms |-> IF i \in S THEN 0 ELSE opened[i]]
          /\ \A i \in Alarms :
               i \in stale' <=>
                 \/ i \in stale /\ i \notin S
                 \/ i \in S /\ At(Timer, "save alarm") /\ \E c \in copies[Timer] : c[1] = i
        BY <1>2, StoresIs, Zenon
  <2>b. PICK new \in [S -> Infos] :
          /\ alarms' = [i \in Alarms |-> IF i \in S THEN new[i] ELSE alarms[i]]
          /\ stored' = [i \in Alarms |-> IF i \in S THEN new[i] ELSE stored[i]]
          /\ opened' = [i \in Alarms |-> IF i \in S THEN 0 ELSE opened[i]]
          /\ \A i \in Alarms :
               i \in stale' <=>
                 \/ i \in stale /\ i \notin S
                 \/ i \in S /\ At(Timer, "save alarm") /\ \E c \in copies[Timer] : c[1] = i
        BY <2>a, Zenon
  <2>1. /\ \A i \in Alarms : i \in S => alarms'[i] = stored'[i]
        /\ \A i \in Alarms : i \notin S => alarms'[i] = alarms[i] /\ stored'[i] = stored[i]
        /\ \A i \in Alarms : i \notin stale' /\ i \notin S => i \notin stale
        BY <2>b
  <2>2. ASSUME NEW j \in Alarms, j \notin stale'
        PROVE  \/ alarms'[j] = stored'[j]
               \/ stored'[j].week = {} /\ alarms'[j] = Inactive(stored'[j])
    <3>1. CASE j \in S BY <2>1, <3>1
    <3>2. CASE j \notin S
      <4>1. j \notin stale /\ alarms'[j] = alarms[j] /\ stored'[j] = stored[j]
            BY <2>1, <2>2, <3>2
      <4> QED BY <4>1 DEF EditKept
    <3> QED BY <3>1, <3>2
  <2> QED BY <2>2 DEF EditKept
<1>3. CASE UNCHANGED <<alarms, stored, stale>> BY <1>3 DEF EditKept
<1> QED BY <1>1, <1>2, <1>3, Action, OthersKeepAlarms, ThreadsAre

(* How the time since a start goes on.                                     *)
LEMMA MinuteAfter ==
  ASSUME NEW n \in 0 .. Week - 1
  PROVE  /\ (n + 1) % (WEEK * DAY) = IF n = Week - 1 THEN 0 ELSE n + 1
         /\ ((n + 1) % (WEEK * DAY)) % DAY = IF n % DAY = DAY - 1 THEN 0 ELSE (n % DAY) + 1
<1>1. n \in Int /\ DAY \in Nat \ {0} /\ Week \in Nat \ {0} /\ WEEK - 1 \in Int
      BY ScheduleConstants
<1>2. (n + 1) % Week = IF n = Week - 1 THEN 0 ELSE n + 1
  <2>1. n % Week = n BY <1>1, Small, Zenon
  <2> QED BY <1>1, <2>1, TurnOn, Zenon
<1>3. (n + 1) % DAY = IF n % DAY = DAY - 1 THEN 0 ELSE (n % DAY) + 1 BY <1>1, TurnOn, Zenon
<1>4. CASE n = Week - 1
  <2>1. n = DAY * (WEEK - 1) + (DAY - 1) BY <1>4, ScheduleConstants DEF Week
  <2>2. DAY - 1 \in 0 .. DAY - 1 /\ 0 \in 0 .. DAY - 1 BY ScheduleConstants
  <2>3. n % DAY = DAY - 1 BY <1>1, <2>1, <2>2, Remains, Zenon
  <2>4. 0 % DAY = 0 BY <1>1, <2>2, Small, Zenon
  <2>5. (n + 1) % Week = 0 BY <1>2, <1>4, Zenon
  <2> QED BY <1>2, <2>3, <2>4, <2>5, Zenon DEF Week
<1>5. CASE n # Week - 1
  <2>1. (n + 1) % Week = n + 1 BY <1>2, <1>5, Zenon
  <2> QED BY <1>2, <1>3, <2>1, Zenon DEF Week
<1> QED BY <1>4, <1>5

LEMMA RoundAfter ==
  ASSUME now \in 0 .. Week - 1, now' = (now + 1) % (WEEK * DAY),
         NEW a \in Infos, a.start \in Minutes, NEW r, r = Round(a), NEW q, q = Round(a)'
  PROVE  q = IF r = DAY - 1 THEN 0 ELSE r + 1
<1>1. PICK n \in 0 .. Week - 1 : n = now OBVIOUS
<1>2. Minute' = IF Minute = DAY - 1 THEN 0 ELSE Minute + 1
  <2>1. ((n + 1) % (WEEK * DAY)) % DAY = IF n % DAY = DAY - 1 THEN 0 ELSE (n % DAY) + 1
        BY MinuteAfter
  <2> QED BY <1>1, <2>1, Zenon DEF Minute
<1>3. PICK m \in Minutes : m = Minute BY TimeIs
<1>4. PICK l \in Minutes : l = IF m = DAY - 1 THEN 0 ELSE m + 1
      BY ScheduleConstants DEF Minutes
<1>5. l = Minute' BY <1>2, <1>3, <1>4, Zenon
<1>6. r = IF m >= a.start THEN m - a.start ELSE DAY + m - a.start BY <1>3 DEF Round
<1>7. q = IF l >= a.start THEN l - a.start ELSE DAY + l - a.start BY <1>5 DEF Round
<1> QED BY <1>4, <1>6, <1>7, ScheduleConstants DEF Minutes

-----------------------------------------------------------------------------
(* A one-shot alarm opens the switch once.                                 *)
LEMMA OpenedStays ==
  ASSUME NEW i \in Alarms, Opened(i), Round(alarms[i])' = Round(alarms[i]),
         alarms'[i] = alarms[i], opened'[i] = opened[i],
         At(Timer, "save alarm") /\ slot = i + 1 => pc'[Timer] = "save alarm" /\ slot' = i + 1,
         Compared(i)' <=> Compared(i)
  PROVE  Opened(i)'
<1>1. InWindow(i) => InWindow(i)' BY Zenon DEF InWindow, Length
<1> QED BY <1>1, Zenon DEF Opened, At

LEMMA OneShot ==
  ASSUME Typed, EditKept, NEW i \in Alarms, stored[i].week = {}, i \notin stale
  PROVE  alarms[i].week = {}
<1>1. stored[i] \in Infos BY DEF Typed, InfosTyped
<1>2. alarms[i] = stored[i] \/ alarms[i] = Inactive(stored[i]) BY DEF EditKept
<1> QED BY <1>1, <1>2, TypesOfInfos

LEMMA OneShotSpent ==
  ASSUME NEW a \in Infos, a.week = {}, a.active
  PROVE  /\ Opens(a) <=> a.start = Minute
         /\ Closes(a) <=> a.stop = Minute
         /\ Spent(a) <=> (a.start = Minute /\ a.stop = NoTime) \/ a.stop = Minute
<1>1. compareWeekData(a.week) BY DEF compareWeekData
<1>2. WeekAddOne(a.week) = {} BY DEF WeekAddOne
<1>3. compareWeekData(WeekAddOne(a.week)) BY <1>2 DEF compareWeekData
<1> QED BY <1>1, <1>3, Zenon DEF Opens, Closes, Spent

LEMMA OpenedCompare ==
  ASSUME Typed, Working, EditKept, CompareAlarm, NEW i \in Alarms,
         stored[i].week = {}, i \notin stale, Opened(i)
  PROVE  Opened(i)'
<1>1. /\ pc[Timer] = "alarms" /\ slot \in Alarms /\ slot' = slot + 1 /\ ~checked
      /\ UNCHANGED <<now, alarms, checked>>
      BY DEF CompareAlarm, At, config, Working
<1>2. pc'[Timer] = IF Spent(alarms[slot]) THEN "save alarm" ELSE "alarms"
      BY ThreadsAre DEF CompareAlarm, Goes, Typed, ThreadsTyped
<1>3. /\ alarms[i] \in Infos /\ alarms[i].week = {} /\ opened \in [Alarms -> 0 .. 2]
      /\ now \in 0 .. Week - 1 /\ i \in Int /\ slot \in Int
      BY <1>1, OneShot, CountsAre DEF Typed, InfosTyped, HistoryTyped, NumbersTyped, Alarms
<1>4. Round(alarms[i])' = Round(alarms[i]) /\ Length(alarms[i])' = Length(alarms[i])
      BY <1>1 DEF Round, Minute, Length
<1>5. Compared(i) <=> slot > i BY <1>1 DEF Compared, At
<1>6. Compared(i)' <=> slot + 1 > i BY <1>1, <1>2 DEF Compared, At
<1>7. CASE slot # i
  <2>1. opened'[i] = opened[i] BY <1>1, <1>3, <1>7 DEF CompareAlarm
  <2>2. slot > i <=> slot + 1 > i BY <1>3, <1>7
  <2>3. Compared(i)' <=> Compared(i) BY <1>5, <1>6, <2>2
  <2>4. alarms'[i] = alarms[i] BY <1>1
  <2>5. ~(At(Timer, "save alarm") /\ slot = i + 1) BY <1>1 DEF At
  <2> QED BY <1>4, <2>1, <2>3, <2>4, <2>5, OpenedStays
<1>8. CASE slot = i
  <2> DEFINE a == alarms[i]
  <2>1. ~Compared(i) /\ Compared(i)' BY <1>3, <1>5, <1>6, <1>8
  <2>2. ~At(Timer, "save alarm") BY <1>1 DEF At
  <2>3. alarms'[i] = a /\ slot' = i + 1 BY <1>1, <1>8
  <2>4. opened'[i] = IF Opens(a) /\ opened[i] < 2 THEN opened[i] + 1 ELSE opened[i]
        BY <1>3, <1>8 DEF CompareAlarm
  <2>5. Minute \in Minutes BY <1>3, TimeIs
  <2>9. opened[i] \in {0, 1}
    <3>1. opened[i] \in 0 .. 2 BY <1>3
    <3>2. opened[i] <= 1 BY DEF Opened
    <3> QED BY <3>1, <3>2
  <2>6. CASE ~a.active
    <3>1. ~Opens(a) BY <2>6 DEF Opens
    <3>2. opened'[i] = opened[i] BY <2>4, <3>1
    <3> QED BY <2>3, <2>6, <3>2 DEF Opened
  <2>7. CASE a.active /\ Spent(a)
    <3>1. pc'[Timer] = "save alarm" /\ slot' = i + 1 BY <1>2, <1>8, <2>3, <2>7
    <3>2. opened'[i] <= 1
      <4>1. CASE Opens(a)
        <5>1. Round(a) = 0 BY <2>5, <4>1, ScheduleConstants DEF Opens, Round, Minutes
        <5>2. ~InWindow(i)
          <6>1. InWindow(i) => Length(a) > 0
                BY <1>3, LengthIs, ScheduleConstants DEF InWindow
          <6> QED BY <2>1, <5>1, <6>1 DEF InWindow
        <5>3. opened[i] # 1 BY <2>2, <2>7, <5>2 DEF Opened
        <5>4. opened[i] = 0 BY <2>9, <5>3
        <5>5. opened'[i] = 0 + 1 BY <2>4, <4>1, <5>4
        <5> QED BY <5>5
      <4>2. CASE ~Opens(a) BY <2>4, <4>2 DEF Opened
      <4> QED BY <4>1, <4>2
    <3> QED BY <3>1, <3>2 DEF Opened, At
  <2>8. CASE a.active /\ ~Spent(a)
    <3>1. ~(a.start = Minute /\ a.stop = NoTime) /\ a.stop # Minute
          BY <1>3, <2>8, OneShotSpent
    <3>2. CASE a.start = Minute
      <4>1. Round(a) = 0 BY <2>5, <3>2, ScheduleConstants DEF Round, Minutes
      <4>2. ~InWindow(i)
        <5>1. InWindow(i) => Length(a) > 0
              BY <1>3, LengthIs, ScheduleConstants DEF InWindow
        <5> QED BY <2>1, <4>1, <5>1 DEF InWindow
      <4>3. opened[i] # 1 BY <2>2, <2>8, <4>2 DEF Opened
      <4>a. opened[i] = 0 BY <2>9, <4>3
      <4>4. opened'[i] <= 1
        <5>1. opened'[i] = 0 + 1 \/ opened'[i] = 0 BY <2>4, <4>a
        <5> QED BY <5>1
      <4>5. a.stop \in Minutes /\ a.start \in Minutes /\ a.stop # a.start
            BY <1>3, <2>5, <3>1, <3>2 DEF Infos
      <4>6. InWindow(i)' BY <1>4, <2>1, <2>3, <4>1, <4>5, Zenon DEF InWindow
      <4> QED BY <4>4, <4>6 DEF Opened
    <3>3. CASE a.start # Minute
      <4>1. ~Opens(a) BY <3>3 DEF Opens
      <4>2. opened'[i] = opened[i] BY <2>4, <4>1
      <4>3. ASSUME InWindow(i) PROVE InWindow(i)'
        <5>1. /\ a.start \in Minutes /\ a.stop \in Minutes /\ a.start # a.stop
              /\ \/ 0 < Round(a) /\ Round(a) < Length(a)
                 \/ Round(a) = Length(a)
              BY <2>1, <4>3 DEF InWindow
        <5>2. Round(a) # Length(a)
              BY <2>5, <3>1, <5>1, <1>3, ScheduleConstants DEF Round, Length, Minutes
        <5>3. 0 < Round(a) /\ Round(a) < Length(a) BY <5>1, <5>2
        <5> QED BY <1>4, <2>3, <5>1, <5>3, Zenon DEF InWindow
      <4> QED BY <2>2, <2>8, <4>2, <4>3 DEF Opened
    <3> QED BY <3>2, <3>3
  <2> QED BY <2>6, <2>7, <2>8
<1> QED BY <1>7, <1>8

LEMMA OpenedPasses ==
  ASSUME Typed, EditKept, MinutePasses, NEW i \in Alarms, Opened(i)
  PROVE  Opened(i)'
<1>1. /\ checked /\ checked' = FALSE /\ pc[Timer] = "idle" /\ pc' = pc
      /\ now' = (now + 1) % (WEEK * DAY) /\ UNCHANGED <<alarms, opened>>
      BY ThreadsAre DEF MinutePasses, NextMinute, Idle, At, config
<1>2. Compared(i) /\ ~Compared(i)' BY <1>1 DEF Compared, At
<1>3. ~At(Timer, "save alarm") BY <1>1 DEF At
<1>4. alarms[i] \in Infos /\ now \in 0 .. Week - 1 BY DEF Typed, InfosTyped, NumbersTyped
<1>5. ASSUME InWindow(i) PROVE InWindow(i)'
  <2> DEFINE a == alarms[i]
  <2>1. /\ a.start \in Minutes /\ a.stop \in Minutes /\ a.start # a.stop
        /\ \/ 0 < Round(a) /\ Round(a) < Length(a)
           \/ Round(a) = 0
        BY <1>2, <1>5 DEF InWindow
  <2>2. Length(a) \in 1 .. DAY - 1 BY <1>4, <2>1, LengthIs
  <2>3. PICK r : r = Round(a) OBVIOUS
  <2>4. PICK q : q = Round(a)' OBVIOUS
  <2>5. Minute \in Minutes BY <1>4, TimeIs
  <2>6. r \in 0 .. DAY - 1 BY <2>1, <2>3, <2>5, ScheduleConstants DEF Round, Minutes
  <2>7. PICK b \in Infos : b = a BY <1>4
  <2>8. PICK c : c = Round(b)' OBVIOUS
  <2>9. b.start \in Minutes /\ r = Round(b) BY <2>1, <2>3, <2>7
  <2>10. c = IF r = DAY - 1 THEN 0 ELSE r + 1 BY <1>1, <1>4, <2>8, <2>9, RoundAfter
  <2>11. alarms'[i] = b BY <1>1, <2>7
  <2>12. Round(alarms[i])' = c BY <2>8, <2>11, Zenon DEF Round
  <2>13. Length(alarms[i])' = Length(a) BY <2>7, <2>11, Zenon DEF Length
  <2>14. \/ 0 < c /\ c < Length(a)
         \/ c = Length(a)
         BY <2>1, <2>2, <2>3, <2>6, <2>10
  <2> QED BY <1>2, <2>1, <2>7, <2>11, <2>12, <2>13, <2>14, Zenon DEF InWindow
<1>6. alarms'[i] = alarms[i] /\ opened'[i] = opened[i] BY <1>1
<1> QED BY <1>3, <1>5, <1>6, Zenon DEF Opened

LEMMA OpenedOnceKept ==
  ASSUME Typed, Working, CopyOut, EditKept, OpenedOnce, [Next]_vars
  PROVE  OpenedOnce'
<1> USE DEF vars, config, running, bounds
<1>0. /\ pc \in [Threads -> Steps] /\ alarms \in [Alarms -> Infos]
      /\ slot \in 0 .. MAX_ALARM_COUNT /\ MAX_ALARM_COUNT \in Nat /\ Alarms \subseteq Nat
      /\ \A i \in Alarms : i < MAX_ALARM_COUNT
      BY CountsAre DEF Typed, InfosTyped, NumbersTyped, ThreadsTyped, Alarms
<1>a. ASSUME UNCHANGED <<stored, stale, missed, opened, alarms, now>>,
             pc[Timer] # "save alarm" \/ (pc'[Timer] = "save alarm" /\ slot' = slot),
             \A i \in Alarms : Compared(i)' <=> Compared(i)
      PROVE  OpenedOnce'
  <2> SUFFICES ASSUME NEW i \in Alarms, stored[i].week = {}, i \notin stale, ~missed
               PROVE  Opened(i)'
      BY <1>a DEF OpenedOnce
  <2>1. Opened(i) BY DEF OpenedOnce
  <2>2. alarms'[i] = alarms[i] /\ opened'[i] = opened[i] BY <1>a
  <2>3. Round(alarms[i])' = Round(alarms[i]) BY <1>a DEF Round, Minute
  <2> QED BY <1>a, <2>1, <2>2, <2>3, OpenedStays DEF At
<1>b. ASSUME UNCHANGED <<stored, stale, missed, opened, alarms, now, slot, checked>>,
             pc'[Timer] = pc[Timer]
      PROVE  OpenedOnce'
  <2>1. \A i \in Alarms : Compared(i)' <=> Compared(i) BY <1>b DEF Compared, At
  <2> QED BY <1>a, <1>b, <2>1
<1>c. ASSUME UNCHANGED <<stored, stale, missed, opened, alarms, now, slot, checked>>,
             pc[Timer] \notin {"idle", "save alarm"}, pc'[Timer] # "idle"
      PROVE  OpenedOnce'
  <2>1. \A i \in Alarms : Compared(i)' <=> Compared(i) BY <1>c DEF Compared, At
  <2> QED BY <1>a, <1>c, <2>1
<1>1. CASE StartCheck
  <2>1. /\ pc[Timer] = "idle" /\ ~checked /\ slot' = 0
        /\ UNCHANGED <<stored, stale, missed, opened, alarms, now, checked>>
        BY <1>1 DEF StartCheck, At
  <2>2. pc'[Timer] = "alarms" BY <1>0, <1>1, ThreadsAre DEF StartCheck, Goes
  <2>3. \A i \in Alarms : ~(0 > i) BY <1>0
  <2>4. \A i \in Alarms : Compared(i)' <=> Compared(i)
        BY <2>1, <2>3 DEF Compared, At
  <2> QED BY <1>a, <2>1, <2>4
<1>2. CASE CompareAlarm
  <2>1. UNCHANGED <<stored, stale, missed>> BY <1>2 DEF CompareAlarm
  <2> SUFFICES ASSUME NEW i \in Alarms, stored[i].week = {}, i \notin stale, ~missed
               PROVE  Opened(i)'
      BY <2>1 DEF OpenedOnce
  <2>2. Opened(i) BY DEF OpenedOnce
  <2> QED BY <1>2, <2>2, OpenedCompare
<1>3. CASE InactiveAlarm
  <2>1. /\ pc[Timer] = "save alarm" /\ pc' = [pc EXCEPT ![Timer] = "alarms"]
        /\ UNCHANGED <<stored, stale, missed, opened, now, slot, checked>>
        BY <1>3, InactiveAlarmIs DEF At
  <2>2. PICK j \in Alarms, a \in Infos :
          slot = j + 1 /\ alarms' = [alarms EXCEPT ![j] = Inactive(a)]
        BY <1>3, InactiveAlarmIs
  <2> SUFFICES ASSUME NEW i \in Alarms, stored[i].week = {}, i \notin stale, ~missed
               PROVE  Opened(i)'
      BY <2>1 DEF OpenedOnce
  <2>3. Opened(i) BY DEF OpenedOnce
  <2>4. opened'[i] = opened[i] BY <2>1
  <2>5. CASE i = j
    <3>1. alarms'[i] = Inactive(a) BY <1>0, <2>2, <2>5
    <3>2. ~alarms'[i].active BY <3>1, TypesOfInfos
    <3> QED BY <2>3, <2>4, <3>2, Zenon DEF Opened
  <2>6. CASE i # j
    <3>1. alarms'[i] = alarms[i] BY <1>0, <2>2, <2>6
    <3>2. slot # i + 1 BY <1>0, <2>2, <2>6
    <3>3. pc'[Timer] = "alarms" BY <1>0, <2>1, ThreadsAre
    <3>4. Compared(i)' <=> Compared(i) BY <2>1, <3>3 DEF Compared, At
    <3>5. Round(alarms[i])' = Round(alarms[i]) BY <2>1, <3>1 DEF Round, Minute
    <3> QED BY <2>3, <2>4, <3>1, <3>2, <3>4, <3>5, OpenedStays
  <2> QED BY <2>5, <2>6
<1>4. CASE AlarmsDone
  <2>1. /\ pc[Timer] = "alarms"
        /\ UNCHANGED <<stored, stale, missed, opened, alarms, now, slot, checked>>
        BY <1>4 DEF AlarmsDone, At
  <2>2. pc'[Timer] = "absences" BY <1>0, <1>4, ThreadsAre DEF AlarmsDone, Goes
  <2> QED BY <1>c, <2>1, <2>2
<1>5. ASSUME NEW t \in Threads, CompareAbsences(t) \/ InactiveAbsence(t) PROVE OpenedOnce'
  <2>1. /\ UNCHANGED <<stored, stale, missed, opened, alarms, now, slot, checked>>
        /\ pc[t] \in {"absences", "save absences"}
        /\ \E step \in {"act", "save absences"} : pc' = [pc EXCEPT ![t] = step]
        BY <1>5 DEF CompareAbsences, InactiveAbsence, At, Goes
  <2>2. pc'[t] \in {"act", "save absences"} /\ \A u \in Threads : u # t => pc'[u] = pc[u]
        BY <1>0, <2>1
  <2>3. CASE t = Timer BY <1>c, <2>1, <2>2, <2>3
  <2>4. CASE t # Timer BY <1>b, <2>1, <2>2, <2>4, ThreadsAre
  <2> QED BY <2>3, <2>4
<1>6. ASSUME NEW t \in Threads, Act(t) PROVE OpenedOnce'
  <2>1. /\ pc[t] = "act" /\ \A u \in Threads : u # t => pc'[u] = pc[u]
        /\ checked' = (checked \/ t = Timer)
        /\ UNCHANGED <<stored, stale, missed, opened, alarms, now, slot>>
        BY <1>6, ActMoves DEF At
  <2>2. CASE t = Timer
    <3>1. slot = MAX_ALARM_COUNT BY <2>1, <2>2 DEF Working
    <3>2. \A i \in Alarms : slot > i BY <1>0, <3>1
    <3>3. \A i \in Alarms : Compared(i) /\ Compared(i)'
          BY <2>1, <2>2, <3>2 DEF Compared, At
    <3> QED BY <1>a, <2>1, <2>2, <3>3
  <2>3. CASE t # Timer
    <3>1. checked' = checked BY <2>1, <2>3, Zenon DEF Typed, FlagsTyped
    <3> QED BY <1>b, <2>1, <2>3, <3>1, ThreadsAre
  <2> QED BY <2>2, <2>3
<1>7. CASE Stores
  <2>1. UNCHANGED <<pc, slot, checked, now, missed>> BY <1>7, StoresIs
  <2>2. PICK S \in SUBSET Alarms : \E new \in [S -> Infos] :
          /\ alarms' = [i \in Alarms |-> IF i \in S THEN new[i] ELSE alarms[i]]
          /\ stored' = [i \in Alarms |-> IF i \in S THEN new[i] ELSE stored[i]]
          /\ opened' = [i \in Alarms |-> IF i \in S THEN 0 ELSE opened[i]]
          /\ \A i \in Alarms :
               i \in stale' <=>
                 \/ i \in stale /\ i \notin S
                 \/ i \in S /\ At(Timer, "save alarm") /\ \E c \in copies[Timer] : c[1] = i
        BY <1>7, StoresIs
  <2>3. ASSUME NEW i \in Alarms, stored'[i].week = {}, i \notin stale', ~missed
        PROVE  Opened(i)'
    <3>1. CASE i \in S
      <4>1. opened'[i] = 0 BY <2>2, <3>1
      <4> QED BY <4>1 DEF Opened
    <3>2. CASE i \notin S
      <4>1. /\ alarms'[i] = alarms[i] /\ stored'[i] = stored[i] /\ opened'[i] = opened[i]
            /\ i \notin stale
            BY <2>2, <2>3, <3>2
      <4>2. Opened(i) BY <2>3, <4>1 DEF OpenedOnce
      <4>3. Round(alarms[i])' = Round(alarms[i]) BY <2>1, <4>1 DEF Round, Minute
      <4>4. Compared(i)' <=> Compared(i) BY <2>1 DEF Compared, At
      <4> QED BY <2>1, <4>1, <4>2, <4>3, <4>4, OpenedStays DEF At
    <3> QED BY <3>1, <3>2
  <2> QED BY <2>1, <2>3 DEF OpenedOnce
<1>8. CASE StoresAbsences
  <2>1. /\ UNCHANGED <<stored, stale, missed, opened, alarms, now, slot, checked>>
        /\ pc' = [pc EXCEPT ![Message] = "absences"]
        BY <1>8, StoresAbsencesIs DEF Goes
  <2>2. pc'[Timer] = pc[Timer] BY <1>0, <2>1, ThreadsAre
  <2> QED BY <1>b, <2>1, <2>2
<1>9. CASE SetSwitchStatus \/ UNCHANGED vars
  BY <1>9, <1>b DEF SetSwitchStatus
<1>10. CASE MinutePasses
  <2>1. UNCHANGED <<stored, stale, missed>> BY <1>10 DEF MinutePasses, NextMinute
  <2> SUFFICES ASSUME NEW i \in Alarms, stored[i].week = {}, i \notin stale, ~missed
               PROVE  Opened(i)'
      BY <2>1 DEF OpenedOnce
  <2>2. Opened(i) BY DEF OpenedOnce
  <2> QED BY <1>10, <2>2, OpenedPasses
<1>11. CASE MinuteMissed \/ Restart
  <2>1. missed' BY <1>11 DEF MinuteMissed, Restart
  <2> QED BY <2>1 DEF OpenedOnce
<1> QED BY <1>1, <1>2, <1>3, <1>4, <1>5, <1>6, <1>7, <1>8, <1>9, <1>10, <1>11, Action

-----------------------------------------------------------------------------
(* The next change of the switch by an absence is ahead.                   *)
LEMMA DueIs ==
  ASSUME NEW m \in Minutes, NEW x \in Minutes
  PROVE  (x - m) % DAY = IF x >= m THEN x - m ELSE DAY + x - m
<1>1. DAY \in Nat \ {0} /\ x - m \in Int BY ScheduleConstants DEF Minutes
<1>2. CASE x >= m
  <2>1. x - m \in 0 .. DAY - 1 BY <1>2, ScheduleConstants DEF Minutes
  <2> QED BY <1>1, <1>2, <2>1, Small, Zenon
<1>3. CASE ~(x >= m)
  <2>1. DAY + x - m \in 0 .. DAY - 1 /\ -1 \in Int /\ x - m = DAY * (-1) + (DAY + x - m)
        BY <1>3, ScheduleConstants DEF Minutes
  <2> QED BY <1>1, <1>3, <2>1, Remains, Zenon
<1> QED BY <1>2, <1>3

LEMMA DueAfter ==
  ASSUME NEW m \in Minutes, NEW r \in 1 .. DAY - 1
  PROVE  (m + r) % DAY \in Minutes /\ (((m + r) % DAY) - m) % DAY = r
<1>1. DAY \in Nat \ {0} /\ m + r \in Int /\ 1 \in Int BY ScheduleConstants DEF Minutes
<1>2. CASE m + r < DAY
  <2>1. m + r \in 0 .. DAY - 1 BY <1>2, ScheduleConstants DEF Minutes
  <2>2. (m + r) % DAY = m + r BY <1>1, <2>1, Small, Zenon
  <2>3. PICK x \in Minutes : x = m + r BY <2>1 DEF Minutes
  <2>4. (x - m) % DAY = IF x >= m THEN x - m ELSE DAY + x - m BY DueIs
  <2>5. x >= m /\ x - m = r BY <2>3 DEF Minutes
  <2>6. (x - m) % DAY = r BY <2>4, <2>5, Zenon
  <2> QED BY <2>2, <2>3, <2>6
<1>3. CASE ~(m + r < DAY)
  <2>1. m + r - DAY \in 0 .. DAY - 1 /\ m + r = DAY * 1 + (m + r - DAY)
        BY <1>3, ScheduleConstants DEF Minutes
  <2>2. (m + r) % DAY = m + r - DAY BY <1>1, <2>1, Remains, Zenon
  <2>3. PICK x \in Minutes : x = m + r - DAY BY <2>1 DEF Minutes
  <2>4. (x - m) % DAY = IF x >= m THEN x - m ELSE DAY + x - m BY DueIs
  <2>5. ~(x >= m) /\ DAY + x - m = r BY <2>3, ScheduleConstants DEF Minutes
  <2>6. (x - m) % DAY = r BY <2>4, <2>5, Zenon
  <2> QED BY <2>2, <2>3, <2>6
<1> QED BY <1>2, <1>3

LEMMA AheadKept ==
  ASSUME Typed, Ahead, [Next]_vars
  PROVE  Ahead'
<1> USE DEF vars, config, running, bounds
<1>0. now \in 0 .. Week - 1 /\ Minute \in Minutes BY TimeIs DEF Typed, NumbersTyped
<1>a. ASSUME UNCHANGED <<absenceRunning, nextAbsenceMinute, now, missed, checked>>
      PROVE  Ahead'
  BY <1>a DEF Ahead, ToGo, Minute
<1>1. CASE StartCheck \/ CompareAlarm \/ InactiveAlarm \/ AlarmsDone
  BY <1>1, <1>a DEF StartCheck, CompareAlarm, InactiveAlarm, AlarmsDone
<1>2. ASSUME NEW t \in Threads, CompareAbsences(t) \/ InactiveAbsence(t) PROVE Ahead'
  BY <1>2, <1>a DEF CompareAbsences, InactiveAbsence
<1>3. ASSUME NEW t \in Threads, Act(t) PROVE Ahead'
  <2>1. UNCHANGED <<now, missed>> BY <1>3, ActMoves
  <2>2. Minute' = Minute BY <2>1 DEF Minute
  <2> SUFFICES ASSUME absenceRunning', ~missed
               PROVE  /\ nextAbsenceMinute' \in Minutes
                      /\ ToGo' <= MAX_ABSENCE_OPEN_INTERVAL \/ ToGo' <= MAX_ABSENCE_CLOSE_INTERVAL
                      /\ ToGo' > 0
      BY <2>1 DEF Ahead
  <2>3. CASE /\ absenceRunning /\ nextAbsenceMinute' = nextAbsenceMinute
             /\ nextAbsenceMinute # Minute
    <3>1. /\ nextAbsenceMinute \in Minutes
          /\ ToGo <= MAX_ABSENCE_OPEN_INTERVAL \/ ToGo <= MAX_ABSENCE_CLOSE_INTERVAL
          BY <2>3 DEF Ahead
    <3>2. ToGo' = ToGo BY <2>2, <2>3 DEF ToGo
    <3>3. PICK m \in Minutes, x \in Minutes : m = Minute /\ x = nextAbsenceMinute
          BY <1>0, <3>1
    <3>4. ToGo = IF x >= m THEN x - m ELSE DAY + x - m
      <4>1. (x - m) % DAY = IF x >= m THEN x - m ELSE DAY + x - m BY DueIs
      <4> QED BY <3>3, <4>1, Zenon DEF ToGo
    <3>5. x # m BY <2>3, <3>3
    <3>6. ToGo > 0 BY <3>4, <3>5, ScheduleConstants DEF Minutes
    <3> QED BY <2>3, <3>1, <3>2, <3>6
  <2>4. ASSUME NEW r \in 1 .. DAY - 1,
               nextAbsenceMinute' = (Minute + r) % DAY,
               r <= MAX_ABSENCE_OPEN_INTERVAL \/ r <= MAX_ABSENCE_CLOSE_INTERVAL
        PROVE  /\ nextAbsenceMinute' \in Minutes
               /\ ToGo' <= MAX_ABSENCE_OPEN_INTERVAL \/ ToGo' <= MAX_ABSENCE_CLOSE_INTERVAL
               /\ ToGo' > 0
    <3>1. PICK m \in Minutes : m = Minute BY <1>0
    <3>2. (m + r) % DAY \in Minutes /\ (((m + r) % DAY) - m) % DAY = r BY DueAfter
    <3>3. ToGo' = r BY <2>2, <2>4, <3>1, <3>2, Zenon DEF ToGo
    <3>4. nextAbsenceMinute' \in Minutes BY <2>4, <3>1, <3>2, Zenon
    <3> QED BY <2>4, <3>3, <3>4
  <2> QED BY <1>3, <2>3, <2>4, ActIs
<1>4. CASE Stores BY <1>4, <1>a, StoresIs
<1>5. CASE StoresAbsences BY <1>5, <1>a, StoresAbsencesIs
<1>6. CASE SetSwitchStatus \/ UNCHANGED vars BY <1>6, <1>a DEF SetSwitchStatus
<1>7. CASE MinutePasses
  <2>1. /\ checked /\ ~checked' /\ now' = (now + 1) % (WEEK * DAY)
        /\ UNCHANGED <<absenceRunning, nextAbsenceMinute, missed>>
        BY <1>7 DEF MinutePasses, NextMinute
  <2> SUFFICES ASSUME absenceRunning, ~missed
               PROVE  /\ nextAbsenceMinute \in Minutes
                      /\ ToGo' <= MAX_ABSENCE_OPEN_INTERVAL \/ ToGo' <= MAX_ABSENCE_CLOSE_INTERVAL
      BY <2>1 DEF Ahead
  <2>2. /\ nextAbsenceMinute \in Minutes /\ ToGo > 0
        /\ ToGo <= MAX_ABSENCE_OPEN_INTERVAL \/ ToGo <= MAX_ABSENCE_CLOSE_INTERVAL
        BY <2>1 DEF Ahead
  <2>3. PICK m \in Minutes, x \in Minutes : m = Minute /\ x = nextAbsenceMinute
        BY <1>0, <2>2
  <2>4. ToGo = IF x >= m THEN x - m ELSE DAY + x - m
    <3>1. (x - m) % DAY = IF x >= m THEN x - m ELSE DAY + x - m BY DueIs
    <3> QED BY <2>3, <3>1, Zenon DEF ToGo
  <2>5. PICK l \in Minutes : l = IF m = DAY - 1 THEN 0 ELSE m + 1
        BY ScheduleConstants DEF Minutes
  <2>6. Minute' = l
    <3>1. PICK n \in 0 .. Week - 1 : n = now BY <1>0
    <3>2. ((n + 1) % (WEEK * DAY)) % DAY = IF n % DAY = DAY - 1 THEN 0 ELSE (n % DAY) + 1
          BY MinuteAfter
    <3> QED BY <2>1, <2>3, <2>5, <3>1, <3>2, Zenon DEF Minute
  <2>7. ToGo' = IF x >= l THEN x - l ELSE DAY + x - l
    <3>1. (x - l) % DAY = IF x >= l THEN x - l ELSE DAY + x - l BY DueIs
    <3>2. nextAbsenceMinute' = x BY <2>1, <2>3
    <3> QED BY <2>6, <3>1, <3>2, Zenon DEF ToGo
  <2>9. PICK k \in Int : k = ToGo
    <3>1. x - m \in Int /\ DAY + x - m \in Int BY ScheduleConstants DEF Minutes
    <3>2. ToGo \in Int BY <2>4, <3>1, Zenon
    <3> QED BY <3>2, Zenon
  <2>10. PICK q : q = ToGo' OBVIOUS
  <2>11. q = k - 1
    <3>1. k > 0 /\ k = IF x >= m THEN x - m ELSE DAY + x - m BY <2>2, <2>4, <2>9
    <3>2. q = IF x >= l THEN x - l ELSE DAY + x - l BY <2>7, <2>10
    <3> QED BY <3>1, <3>2, <2>5, ScheduleConstants DEF Minutes
  <2>8. ToGo' = ToGo - 1 BY <2>9, <2>10, <2>11
  <2> QED BY <2>2, <2>8, <2>9, IntervalAssumption, ScheduleConstants
<1>8. CASE MinuteMissed \/ Restart
  BY <1>8 DEF MinuteMissed, Restart, Ahead
<1> QED BY <1>1, <1>2, <1>3, <1>4, <1>5, <1>6, <1>7, <1>8, Action

-----------------------------------------------------------------------------
(* An absence runs in its period.                                          *)
LEMMA InactiveAbsenceIs ==
  ASSUME Typed, NEW t \in Threads, InactiveAbsence(t)
  PROVE  /\ pc[t] = "save absences" /\ pc'[t] = "act"
         /\ pc' \in [Threads -> Steps] /\ \A u \in Threads : u # t => pc'[u] = pc[u]
         /\ UNCHANGED <<now, alarms, switch, absenceRunning, nextAbsenceMinute, slot>>
         /\ UNCHANGED <<status, again, checked, stored, stale, opened, missed, raced, quiet>>
         /\ \A i \in Absences :
              IF \E c \in copies[t] : c[1] = i
              THEN \E c \in copies[t] : c[1] = i /\ absences'[i] = Inactive(c[2])
              ELSE absences'[i] = absences[i]
<1>1. pc[t] = "save absences" /\ pc' = [pc EXCEPT ![t] = "act"] /\ "act" \in Steps
      BY DEF InactiveAbsence, At, Goes, Steps
<1>2. pc \in [Threads -> Steps] BY DEF Typed, ThreadsTyped
<1>3. /\ UNCHANGED <<now, alarms, switch, absenceRunning, nextAbsenceMinute, slot>>
      /\ UNCHANGED <<status, again, checked, stored, stale, opened, missed, raced, quiet>>
      BY DEF InactiveAbsence, running
<1>4. ASSUME NEW i \in Absences
      PROVE  IF \E c \in copies[t] : c[1] = i
             THEN \E c \in copies[t] : c[1] = i /\ absences'[i] = Inactive(c[2])
             ELSE absences'[i] = absences[i]
  <2>1. absences' = [j \in Absences |->
                       IF \E c \in copies[t] : c[1] = j
                       THEN Inactive((CHOOSE c \in copies[t] : c[1] = j)[2])
                       ELSE absences[j]]
        BY DEF InactiveAbsence
  <2>2. absences'[i] = IF \E c \in copies[t] : c[1] = i
                       THEN Inactive((CHOOSE c \in copies[t] : c[1] = i)[2])
                       ELSE absences[i]
        BY <2>1
  <2>3. CASE \E c \in copies[t] : c[1] = i
    <3>1. PICK d : d \in copies[t] /\ d[1] = i /\ d = CHOOSE c \in copies[t] : c[1] = i
          BY <2>3
    <3>2. absences'[i] = Inactive(d[2]) BY <2>2, <2>3, <3>1, Zenon
    <3> QED BY <2>3, <3>1, <3>2, Zenon
  <2>4. CASE ~\E c \in copies[t] : c[1] = i BY <2>2, <2>4, Zenon
  <2> QED BY <2>3, <2>4
<1> QED BY <1>1, <1>2, <1>3, <1>4, Moved

LEMMA ActiveTimesKept ==
  ASSUME Typed, ActiveTimes, [Next]_vars
  PROVE  ActiveTimes'
<1> USE DEF vars, config, running, bounds
<1>0. absences \in [Absences -> Infos] BY DEF Typed, InfosTyped
<1>a. ASSUME absences' = absences PROVE ActiveTimes' BY <1>a DEF ActiveTimes
<1>1. CASE StartCheck \/ CompareAlarm \/ InactiveAlarm \/ AlarmsDone
  BY <1>1, <1>a DEF StartCheck, CompareAlarm, InactiveAlarm, AlarmsDone
<1>2. ASSUME NEW t \in Threads, CompareAbsences(t) PROVE ActiveTimes'
  BY <1>2, <1>a DEF CompareAbsences
<1>3. ASSUME NEW t \in Threads, InactiveAbsence(t) PROVE ActiveTimes'
  <2>1. copies[t] \subseteq Int \X Infos BY DEF Typed, ThreadsTyped
  <2> SUFFICES ASSUME NEW i \in Absences, absences'[i].active
               PROVE  absences'[i].start \in Minutes /\ absences'[i].stop \in Minutes
      BY DEF ActiveTimes
  <2>2. CASE \E c \in copies[t] : c[1] = i
    <3>1. PICK c \in copies[t] : absences'[i] = Inactive(c[2])
          BY <1>3, <2>2, InactiveAbsenceIs
    <3>2. c[2] \in Infos BY <2>1, <3>1
    <3> QED BY <3>1, <3>2, TypesOfInfos
  <2>3. CASE ~\E c \in copies[t] : c[1] = i
    <3>1. absences'[i] = absences[i] BY <1>3, <2>3, InactiveAbsenceIs
    <3> QED BY <3>1 DEF ActiveTimes
  <2> QED BY <2>2, <2>3
<1>4. ASSUME NEW t \in Threads, Act(t) PROVE ActiveTimes'
  BY <1>4, <1>a, ActMoves
<1>5. CASE Stores BY <1>5, <1>a, StoresIs
<1>6. CASE StoresAbsences
  <2>1. PICK S \in SUBSET Absences : \E new \in [S -> Infos] :
          /\ absences' = [i \in Absences |-> IF i \in S THEN new[i] ELSE absences[i]]
          /\ \A i \in S :
               new[i].active => new[i].start \in Minutes /\ new[i].stop \in Minutes
        BY <1>6, StoresAbsencesIs
  <2> QED BY <2>1 DEF ActiveTimes
<1>7. CASE SetSwitchStatus \/ MinutePasses \/ MinuteMissed \/ Restart \/ UNCHANGED vars
  BY <1>7, <1>a DEF SetSwitchStatus, MinutePasses, MinuteMissed, NextMinute, Restart
<1> QED BY <1>1, <1>2, <1>3, <1>4, <1>5, <1>6, <1>7, Action

LEMMA ForceKept ==
  ASSUME now' = now, absences' = absences
  PROVE  (Should' <=> Should) /\ Ended' = Ended
         /\ {<<i, absences[i]>> : i \in Ended}' = {<<i, absences[i]>> : i \in Ended}
<1>1. \A a : Status(a)' = Status(a)
      BY Zenon DEF Status, WithinPeriod, compareWeekData, Minute, Day
<1>2. Ended' = Ended BY <1>1 DEF Ended
<1>3. Should' <=> Should BY <1>1 DEF Should, InForce
<1> QED BY <1>2, <1>3

LEMMA SettledKept ==
  ASSUME Typed, Working, Settled, [Next]_vars
  PROVE  Settled'
<1> USE DEF vars, config, running, bounds
<1>0. /\ pc \in [Threads -> Steps] /\ absences \in [Absences -> Infos]
      /\ status \in [Threads -> SUBSET {"out", "start", "end", "within"}]
      /\ copies \in [Threads -> SUBSET (Int \X Infos)]
      BY DEF Typed, InfosTyped, ThreadsTyped
\* Nothing that the checks of the absences depend on changes.
<1>a. ASSUME UNCHANGED <<now, absences, status, raced, absenceRunning>>,
             ~raced => /\ pc'[Timer] = "idle" \/ pc'[Message] = "idle"
                       /\ \A t \in Threads :
                            pc'[t] \notin {"save absences", "act"}
                              \/ (pc'[t] = pc[t] /\ copies'[t] = copies[t]),
             ~raced => ~(checked' /\ Idle') \/ (checked' = checked /\ pc' = pc)
      PROVE  Settled'
  <2> SUFFICES ASSUME ~raced
               PROVE  /\ At(Timer, "idle")' \/ At(Message, "idle")'
                      /\ checked' /\ Idle' => (absenceRunning' <=> Should')
                      /\ \A t \in Threads : Acts(t)'
      BY <1>a DEF Settled
  <2>1. (Should' <=> Should) /\ {<<i, absences[i]>> : i \in Ended}'
          = {<<i, absences[i]>> : i \in Ended}
        BY <1>a, ForceKept
  <2>2. At(Timer, "idle")' \/ At(Message, "idle")' BY <1>a DEF At
  <2>3. checked' /\ Idle' => (absenceRunning' <=> Should')
    <3>1. checked' /\ Idle' => checked /\ Idle BY <1>a DEF Idle, At
    <3> QED BY <1>a, <2>1, <3>1 DEF Settled
  <2>4. ASSUME NEW t \in Threads PROVE Acts(t)'
    <3>1. Acts(t) BY DEF Settled
    <3>2. CASE pc'[t] \notin {"save absences", "act"} BY <3>2 DEF Acts
    <3>3. CASE pc'[t] = pc[t] /\ copies'[t] = copies[t]
      <4>1. status'[t] = status[t] BY <1>a
      <4>2. Runs(status[t])' <=> Runs(status[t]) BY <4>1 DEF Runs
      <4> QED BY <2>1, <3>1, <3>3, <4>2, Zenon DEF Acts
    <3> QED BY <1>a, <3>2, <3>3
  <2> QED BY <2>2, <2>3, <2>4
<1>1. CASE StartCheck
  <2>1. /\ UNCHANGED <<now, absences, status, absenceRunning>>
        /\ raced' = ~At(Message, "idle") /\ pc' = [pc EXCEPT ![Timer] = "alarms"]
        BY <1>1 DEF StartCheck, Goes
  <2>2. pc'[Timer] = "alarms" /\ pc'[Message] = pc[Message] BY <1>0, <2>1, ThreadsAre
  <2> SUFFICES ASSUME ~raced'
               PROVE  /\ At(Timer, "idle")' \/ At(Message, "idle")'
                      /\ checked' /\ Idle' => (absenceRunning' <=> Should')
                      /\ \A t \in Threads : Acts(t)'
      BY DEF Settled
  <2>3. pc[Message] = "idle" BY <2>1 DEF At
  <2>4. \A t \in Threads : pc'[t] \notin {"save absences", "act"} BY <2>2, <2>3, ThreadsAre
  <2>5. ~Idle' BY <2>2, ThreadsAre DEF Idle, At
  <2> QED BY <2>2, <2>3, <2>4, <2>5 DEF At, Acts
<1>2. CASE CompareAlarm \/ InactiveAlarm \/ AlarmsDone
  <2>1. /\ UNCHANGED <<now, absences, status, raced, absenceRunning>>
        /\ \E step \in {"alarms", "save alarm", "absences"} : pc' = [pc EXCEPT ![Timer] = step]
        /\ pc[Timer] # "idle" /\ copies'[Message] = copies[Message]
        BY <1>0, <1>2, ThreadsAre DEF CompareAlarm, InactiveAlarm, AlarmsDone, At, Goes
  <2>2. pc'[Timer] \in {"alarms", "save alarm", "absences"} /\ pc'[Message] = pc[Message]
        BY <1>0, <2>1, ThreadsAre
  <2>3. ~Idle' BY <2>2, ThreadsAre DEF Idle, At
  <2>4. ~raced => pc[Message] = "idle" BY <2>1 DEF Settled, At
  <2>5. ~raced => \A t \in Threads : pc'[t] \notin {"save absences", "act"}
        BY <2>2, <2>4, ThreadsAre
  <2> QED BY <1>a, <2>1, <2>2, <2>3, <2>4, <2>5
<1>3. ASSUME NEW t \in Threads, CompareAbsences(t) PROVE Settled'
  <2>1. /\ pc[t] = "absences" /\ UNCHANGED <<now, absences, raced, checked, absenceRunning>>
        /\ status' = [status EXCEPT ![t] = {Status(absences[i]) : i \in Absences}]
        /\ copies' = [copies EXCEPT ![t] = {<<i, absences[i]>> : i \in Ended}]
        /\ \E step \in {"act", "save absences"} : pc' = [pc EXCEPT ![t] = step]
        BY <1>3 DEF CompareAbsences, At, Goes
  <2>2. pc'[t] \in {"act", "save absences"} /\ \A u \in Threads : u # t => pc'[u] = pc[u]
        BY <1>0, <2>1
  <2> SUFFICES ASSUME ~raced
               PROVE  /\ At(Timer, "idle")' \/ At(Message, "idle")'
                      /\ checked' /\ Idle' => (absenceRunning' <=> Should')
                      /\ \A u \in Threads : Acts(u)'
      BY <2>1 DEF Settled
  <2>3. \A u \in Threads : u # t => pc'[u] = "idle"
        BY <2>1, <2>2, ThreadsAre DEF Settled, At
  <2>4. ~Idle' BY <2>2 DEF Idle, At
  <2>5. status'[t] = {Status(absences[i]) : i \in Absences}
          /\ copies'[t] = {<<i, absences[i]>> : i \in Ended}
        BY <1>0, <2>1
  <2>6. (Should' <=> Should) /\ {<<i, absences[i]>> : i \in Ended}'
          = {<<i, absences[i]>> : i \in Ended}
        BY <2>1, ForceKept
  <2>7. Runs({Status(absences[i]) : i \in Absences}) <=> Should
    <3>1. Should => \E x \in {Status(absences[i]) : i \in Absences} : x \in {"start", "within"}
          BY DEF Should, InForce
    <3>2. (\E x \in {Status(absences[i]) : i \in Absences} : x \in {"start", "within"}) => Should
          BY DEF Should, InForce
    <3> QED BY <3>1, <3>2 DEF Runs
  <2>8. Runs(status[t])' <=> Should BY <2>5, <2>7, Zenon DEF Runs
  <2>9. Acts(t)' BY <2>5, <2>6, <2>8, Zenon DEF Acts
  <2>10. \A u \in Threads : u # t => Acts(u)' BY <2>3 DEF Acts
  <2>11. At(Timer, "idle")' \/ At(Message, "idle")' BY <2>3, ThreadsAre DEF At
  <2> QED BY <2>4, <2>9, <2>10, <2>11, Zenon
<1>4. ASSUME NEW t \in Threads, InactiveAbsence(t) PROVE Settled'
  <2>1. /\ pc[t] = "save absences" /\ pc'[t] = "act"
        /\ \A u \in Threads : u # t => pc'[u] = pc[u]
        /\ UNCHANGED <<now, raced, checked, absenceRunning, status>>
        BY <1>4, InactiveAbsenceIs
  <2> SUFFICES ASSUME ~raced
               PROVE  /\ At(Timer, "idle")' \/ At(Message, "idle")'
                      /\ checked' /\ Idle' => (absenceRunning' <=> Should')
                      /\ \A u \in Threads : Acts(u)'
      BY <2>1 DEF Settled
  <2>2. \A u \in Threads : u # t => pc'[u] = "idle"
        BY <2>1, ThreadsAre DEF Settled, At
  <2>3. ~Idle' BY <2>1 DEF Idle, At
  <2>4. (Runs(status[t]) <=> Should) /\ copies[t] = {<<i, absences[i]>> : i \in Ended}
        BY <2>1 DEF Settled, Acts
  <2>5. \A a : Status(a)' = Status(a)
        BY <2>1, Zenon DEF Status, WithinPeriod, compareWeekData, Minute, Day
  <2>6. ASSUME NEW i \in Absences PROVE InForce(absences[i])' <=> InForce(absences[i])
    <3>1. CASE i \in Ended
      <4>a. <<i, absences[i]>> \in copies[t] /\ <<i, absences[i]>>[1] = i BY <2>4, <3>1
      <4>1. \E c \in copies[t] : c[1] = i BY <4>a, Zenon
      <4>2. PICK c \in copies[t] : c[1] = i /\ absences'[i] = Inactive(c[2])
            BY <1>4, <4>1, InactiveAbsenceIs
      <4>3. c[2] = absences[i] BY <2>4, <4>2
      <4>4. ~absences'[i].active BY <1>0, <4>2, <4>3, TypesOfInfos
      <4>5. Status(absences'[i]) = "out"
            BY <4>4 DEF Status, WithinPeriod
      <4>6. Status(absences[i])' = "out"
        <5>1. PICK a : a = absences'[i] OBVIOUS
        <5>2. Status(a)' = "out" BY <2>5, <4>5, <5>1
        <5> QED BY <5>1, <5>2, Zenon DEF Status, WithinPeriod
      <4>7. Status(absences[i]) = "end" BY <3>1 DEF Ended
      <4> QED BY <4>6, <4>7 DEF InForce
    <3>2. CASE i \notin Ended
      <4>1. ~\E c \in copies[t] : c[1] = i BY <2>4, <3>2
      <4>2. absences'[i] = absences[i] BY <1>4, <4>1, InactiveAbsenceIs
      <4>3. Status(absences[i])' = Status(absences[i])
            BY <2>1, <4>2, Zenon DEF Status, WithinPeriod, compareWeekData, Minute, Day
      <4> QED BY <4>3 DEF InForce
    <3> QED BY <3>1, <3>2
  <2>7. Should' <=> Should BY <2>6 DEF Should
  <2>8. Runs(status[t])' <=> Runs(status[t]) BY <2>1 DEF Runs
  <2>9. Acts(t)' BY <2>1, <2>4, <2>7, <2>8 DEF Acts
  <2>10. \A u \in Threads : u # t => Acts(u)' BY <2>2 DEF Acts
  <2>11. At(Timer, "idle")' \/ At(Message, "idle")' BY <2>2, ThreadsAre DEF At
  <2> QED BY <2>3, <2>9, <2>10, <2>11, Zenon
<1>5. ASSUME NEW t \in Threads, Act(t) PROVE Settled'
  <2>1. /\ pc[t] = "act" /\ pc'[t] \in {"idle", "absences"}
        /\ \A u \in Threads : u # t => pc'[u] = pc[u]
        /\ UNCHANGED <<now, absences, raced, copies>>
        BY <1>5, ActMoves DEF At
  <2>2. absenceRunning' = Runs(status[t]) BY <1>5, ActIs
  <2> SUFFICES ASSUME ~raced
               PROVE  /\ At(Timer, "idle")' \/ At(Message, "idle")'
                      /\ checked' /\ Idle' => (absenceRunning' <=> Should')
                      /\ \A u \in Threads : Acts(u)'
      BY <2>1 DEF Settled
  <2>3. \A u \in Threads : u # t => pc'[u] = "idle"
        BY <2>1, ThreadsAre DEF Settled, At
  <2>4. Runs(status[t]) <=> Should BY <2>1 DEF Settled, Acts
  <2>5. Should' <=> Should BY <2>1, ForceKept
  <2>6. \A u \in Threads : pc'[u] \notin {"save absences", "act"} BY <2>1, <2>3
  <2>7. \A u \in Threads : Acts(u)' BY <2>6 DEF Acts
  <2>8. At(Timer, "idle")' \/ At(Message, "idle")' BY <2>3, ThreadsAre DEF At
  <2> QED BY <2>2, <2>4, <2>5, <2>7, <2>8, Zenon
<1>6. CASE Stores
  <2>1. /\ UNCHANGED <<now, absences, status, absenceRunning, pc, copies, checked>>
        /\ raced' = (raced \/ ~At(Timer, "idle")) /\ At(Message, "idle")
        BY <1>6, StoresIs
  <2>2. CASE raced'
    BY <2>2 DEF Settled
  <2>3. CASE ~raced'
    <3>1. ~raced /\ raced' = raced BY <2>1, <2>3, Zenon DEF Typed, FlagsTyped
    <3> QED BY <1>a, <2>1, <3>1 DEF At
  <2> QED BY <2>2, <2>3
<1>7. CASE StoresAbsences
  <2>1. /\ UNCHANGED <<now, absenceRunning>>
        /\ raced' = (raced \/ ~At(Timer, "idle")) /\ pc' = [pc EXCEPT ![Message] = "absences"]
        BY <1>7, StoresAbsencesIs DEF Goes
  <2>2. pc'[Message] = "absences" /\ pc'[Timer] = pc[Timer] BY <1>0, <2>1, ThreadsAre
  <2> SUFFICES ASSUME ~raced'
               PROVE  /\ At(Timer, "idle")' \/ At(Message, "idle")'
                      /\ checked' /\ Idle' => (absenceRunning' <=> Should')
                      /\ \A t \in Threads : Acts(t)'
      BY DEF Settled
  <2>3. pc[Timer] = "idle" BY <2>1 DEF At
  <2>4. \A t \in Threads : pc'[t] \notin {"save absences", "act"} BY <2>2, <2>3, ThreadsAre
  <2>5. ~Idle' BY <2>2, ThreadsAre DEF Idle, At
  <2> QED BY <2>2, <2>3, <2>4, <2>5 DEF At, Acts
<1>8. CASE SetSwitchStatus \/ UNCHANGED vars
  <2>1. UNCHANGED <<now, absences, status, raced, absenceRunning, pc, copies, checked>>
        BY <1>8 DEF SetSwitchStatus
  <2> QED BY <1>a, <2>1 DEF Settled, At
<1>9. CASE MinutePasses \/ MinuteMissed \/ Restart
  <2>1. ~checked' /\ \A t \in Threads : pc'[t] = "idle"
        BY <1>9 DEF MinutePasses, MinuteMissed, NextMinute, Restart, Idle, At
  <2> QED BY <2>1, ThreadsAre DEF Settled, Acts, At
<1> QED BY <1>1, <1>2, <1>3, <1>4, <1>5, <1>6, <1>7, <1>8, <1>9, Action

LEMMA InItsPeriod ==
  ASSUME Typed, ActiveTimes, Settled
  PROVE  RunsInPeriod
<1> SUFFICES ASSUME checked, Idle, ~raced
             PROVE  absenceRunning <=>
                      \E i \in Absences : /\ absences[i].active /\ absences[i].start # NoTime
                                          /\ InPeriod(absences[i], now)
    BY DEF RunsInPeriod
<1>1. absenceRunning <=> Should BY DEF Settled
<1>2. absences \in [Absences -> Infos] /\ now \in 0 .. Week - 1
      BY DEF Typed, InfosTyped, NumbersTyped
<1>3. ASSUME NEW i \in Absences
      PROVE  InForce(absences[i]) <=> /\ absences[i].active /\ absences[i].start # NoTime
                                     /\ InPeriod(absences[i], now)
  <2>1. CASE ~absences[i].active
    <3>1. Status(absences[i]) = "out" BY <2>1 DEF Status, WithinPeriod
    <3> QED BY <2>1, <3>1 DEF InForce
  <2>2. CASE absences[i].active
    <3>1. absences[i].start \in Minutes /\ absences[i].stop \in Minutes
          BY <2>2 DEF ActiveTimes
    <3>2. absences[i].start # NoTime BY <3>1, ScheduleConstants DEF Minutes, NoTime
    <3>3. absences[i] \in Infos BY <1>2
    <3> QED BY <1>2, <2>2, <3>1, <3>2, <3>3, StatusIs
  <2> QED BY <2>1, <2>2
<1> QED BY <1>1, <1>3 DEF Should

-----------------------------------------------------------------------------
(* The switch follows an alarm that works it alone.                        *)
LEMMA AloneRepeats ==
  ASSUME Typed, NEW i \in Alarms, Alone(i)
  PROVE  Repeats(alarms[i]) /\ alarms[i] \in Infos
<1>1. alarms[i] \in Infos BY DEF Typed, InfosTyped
<1> QED BY <1>1 DEF Alone, Repeats, Infos

LEMMA NoneSpent ==
  ASSUME Typed, NEW i \in Alarms, Alone(i), NEW j \in Alarms
  PROVE  ~Spent(alarms[j])
<1>1. j # i => ~Opens(alarms[j]) /\ ~Closes(alarms[j]) BY DEF Alone, Opens, Closes
<1>2. alarms[i].week # {} BY DEF Alone
<1> QED BY <1>1, <1>2 DEF Spent

LEMMA OneStepOn ==
  ASSUME NEW t \in Int, NEW b \in Int
  PROVE  (t - b) % Week = IF (t - 1 - b) % Week = Week - 1 THEN 0 ELSE ((t - 1 - b) % Week) + 1
<1>1. t - 1 - b \in Int /\ Week \in Nat \ {0} /\ t - b = t - 1 - b + 1 BY ScheduleConstants
<1> QED BY <1>1, TurnOn, Zenon

\* A comparison with the time carries on what the switch follows.
LEMMA FollowsOn ==
  ASSUME now \in 0 .. Week - 1, NEW a \in Infos, Repeats(a), NEW n \in Nat, switch \in BOOLEAN,
         Follows(a, now - 1, n),
         NEW open, open = IF Opens(a) \/ Closes(a) THEN ~Closes(a) ELSE switch
  PROVE  (open <=> InPeriod(a, now)) \/ \A d \in DaysOf(a) : Since(a, d, now) >= n + 1
<1> DEFINE L == Length(a)
           s(d) == Since(a, d, now)
           p(d) == Since(a, d, now - 1)
<1>0. /\ a.start \in Minutes /\ a.stop \in Minutes /\ L \in 1 .. DAY - 1
      /\ DaysOf(a) \subseteq Days
      BY LengthIs, DaysAre DEF Repeats
<1>1. ASSUME NEW d \in DaysOf(a)
      PROVE  /\ s(d) \in 0 .. Week - 1 /\ p(d) \in 0 .. Week - 1
             /\ s(d) = IF p(d) = Week - 1 THEN 0 ELSE p(d) + 1
             /\ s(d) >= Round(a) /\ (s(d) = Round(a) \/ s(d) >= DAY) /\ Round(a) \in 0 .. DAY - 1
  <2>1. d \in Days BY <1>0
  <2>2. /\ Round(a) \in 0 .. DAY - 1
        /\ s(d) \in 0 .. Week - 1 /\ s(d) >= Round(a)
        /\ (s(d) = Round(a) \/ s(d) >= DAY)
        BY <1>0, <2>1, SinceIs
  <2>3. PICK b \in Int : b = d * DAY + a.start
        BY <1>0, <2>1, ScheduleConstants DEF Days, Minutes
  <2>4. now \in Int /\ now - 1 - b \in Int /\ Week \in Nat \ {0}
        BY <2>3, ScheduleConstants
  <2>5. s(d) = IF p(d) = Week - 1 THEN 0 ELSE p(d) + 1
    <3>1. (now - b) % Week = IF (now - 1 - b) % Week = Week - 1 THEN 0
                             ELSE ((now - 1 - b) % Week) + 1
          BY <2>4, OneStepOn
    <3> QED BY <2>3, <3>1, Zenon DEF Since
  <2>6. p(d) \in 0 .. Week - 1 BY <2>3, <2>4, Division, Zenon DEF Since
  <2> QED BY <2>2, <2>5, <2>6
<1>2. InPeriod(a, now) <=> \E d \in DaysOf(a) : s(d) < L BY Zenon DEF InPeriod, Since, Week
<1>3. InPeriod(a, now - 1) <=> \E d \in DaysOf(a) : p(d) < L BY Zenon DEF InPeriod, Since, Week
<1>4. Opens(a) <=> \E d \in DaysOf(a) : s(d) = 0 BY OpensIs
<1>5. Closes(a) <=> \E d \in DaysOf(a) : s(d) = L BY ClosesIs
<1>6. (switch <=> InPeriod(a, now - 1)) \/ \A d \in DaysOf(a) : p(d) >= n BY DEF Follows
<1> HIDE DEF L, s, p
<1>7. CASE Closes(a)
  <2>1. PICK d \in DaysOf(a) : s(d) = L BY <1>5, <1>7
  <2>2. Round(a) = L BY <1>0, <1>1, <2>1, ScheduleConstants
  <2>3. ~InPeriod(a, now) BY <1>0, <1>1, <1>2, <2>2, ScheduleConstants
  <2>4. open = FALSE BY <1>7
  <2> QED BY <2>3, <2>4
<1>8. CASE Opens(a) /\ ~Closes(a)
  <2>1. InPeriod(a, now) BY <1>0, <1>2, <1>4, <1>8
  <2>2. open = TRUE BY <1>8
  <2> QED BY <2>1, <2>2
<1>9. CASE ~Opens(a) /\ ~Closes(a)
  <2>1. open = switch BY <1>9
  <2>2. \A d \in DaysOf(a) : s(d) # 0 /\ s(d) # L BY <1>4, <1>5, <1>9
  <2>3. \A d \in DaysOf(a) : s(d) = p(d) + 1 BY <1>1, <2>2
  <2>4. \A d \in DaysOf(a) : s(d) < L <=> p(d) < L BY <1>0, <1>1, <2>2, <2>3
  <2>5. InPeriod(a, now) <=> InPeriod(a, now - 1) BY <1>2, <1>3, <2>4
  <2>6. CASE switch <=> InPeriod(a, now - 1) BY <2>1, <2>5, <2>6
  <2>7. CASE \A d \in DaysOf(a) : p(d) >= n
    <3>1. \A d \in DaysOf(a) : s(d) >= n + 1 BY <1>1, <2>3, <2>7
    <3> QED BY <3>1 DEF s
  <2> QED BY <1>6, <2>6, <2>7
<1> QED BY <1>7, <1>8, <1>9

LEMMA QuietKept ==
  ASSUME Typed, QuietMinutes, [Next]_vars
  PROVE  QuietMinutes'
<1> USE DEF vars, config, running, bounds
<1>0. pc \in [Threads -> Steps] BY DEF Typed, ThreadsTyped
<1>a. ASSUME UNCHANGED <<alarms, stale, quiet>>,
             quiet > 0 => /\ pc'[Message] = "idle" /\ pc'[Timer] # "save alarm"
                          /\ ~checked' => ~absenceRunning'
      PROVE  QuietMinutes'
  <2>1. \A i : Alone(i)' <=> Alone(i) BY <1>a, Zenon DEF Alone
  <2> QED BY <1>a, <2>1 DEF QuietMinutes, At
<1>1. CASE StartCheck
  <2>1. /\ UNCHANGED <<alarms, stale, quiet, absenceRunning, checked>>
        /\ pc' = [pc EXCEPT ![Timer] = "alarms"]
        BY <1>1 DEF StartCheck, Goes
  <2>2. pc'[Timer] = "alarms" /\ pc'[Message] = pc[Message] BY <1>0, <2>1, ThreadsAre
  <2> QED BY <1>a, <2>1, <2>2 DEF QuietMinutes, At
<1>2. CASE CompareAlarm
  <2>1. /\ UNCHANGED <<alarms, stale, quiet, absenceRunning, checked>> /\ slot \in Alarms
        /\ pc' = [pc EXCEPT ![Timer] = IF Spent(alarms[slot]) THEN "save alarm" ELSE "alarms"]
        BY <1>2 DEF CompareAlarm, Goes
  <2>2. quiet > 0 => ~Spent(alarms[slot]) BY <2>1, NoneSpent DEF QuietMinutes
  <2>3. /\ pc'[Message] = pc[Message]
        /\ pc'[Timer] = IF Spent(alarms[slot]) THEN "save alarm" ELSE "alarms"
        BY <1>0, <2>1, ThreadsAre
  <2>4. quiet > 0 => pc'[Timer] = "alarms" BY <2>2, <2>3
  <2>5. quiet > 0 => pc'[Message] = "idle" BY <2>3 DEF QuietMinutes, At
  <2>6. quiet > 0 /\ ~checked' => ~absenceRunning' BY <2>1 DEF QuietMinutes
  <2> QED BY <1>a, <2>1, <2>4, <2>5, <2>6
<1>3. CASE InactiveAlarm
  BY <1>3 DEF InactiveAlarm, QuietMinutes
<1>4. CASE AlarmsDone
  <2>1. /\ UNCHANGED <<alarms, stale, quiet, absenceRunning, checked>>
        /\ pc' = [pc EXCEPT ![Timer] = "absences"]
        BY <1>4 DEF AlarmsDone, Goes
  <2>2. pc'[Timer] = "absences" /\ pc'[Message] = pc[Message] BY <1>0, <2>1, ThreadsAre
  <2> QED BY <1>a, <2>1, <2>2 DEF QuietMinutes, At
<1>5. ASSUME NEW t \in Threads, CompareAbsences(t) \/ InactiveAbsence(t) PROVE QuietMinutes'
  <2>1. /\ UNCHANGED <<alarms, stale, quiet, absenceRunning, checked>>
        /\ pc[t] \in {"absences", "save absences"}
        /\ \E step \in {"act", "save absences"} : pc' = [pc EXCEPT ![t] = step]
        BY <1>5 DEF CompareAbsences, InactiveAbsence, At, Goes
  <2>2. pc'[t] \in {"act", "save absences"} /\ \A u \in Threads : u # t => pc'[u] = pc[u]
        BY <1>0, <2>1
  <2>3. quiet > 0 => t = Timer BY <2>1, ThreadsAre DEF QuietMinutes, At
  <2> QED BY <1>a, <2>1, <2>2, <2>3, ThreadsAre DEF QuietMinutes, At
<1>6. ASSUME NEW t \in Threads, Act(t) PROVE QuietMinutes'
  <2>1. /\ UNCHANGED <<alarms, stale, quiet>> /\ pc[t] = "act" /\ (t = Timer => pc'[t] = "idle")
        /\ \A u \in Threads : u # t => pc'[u] = pc[u]
        /\ checked' = (checked \/ t = Timer)
        BY <1>6, ActMoves DEF At
  <2>2. quiet > 0 => t = Timer BY <2>1, ThreadsAre DEF QuietMinutes, At
  <2>3. quiet > 0 => checked' BY <2>1, <2>2
  <2> QED BY <1>a, <2>1, <2>2, <2>3, ThreadsAre DEF QuietMinutes, At
<1>7. CASE Stores
  <2>1. quiet' = 0 BY <1>7, StoresIs
  <2>2. ~(quiet' > 0) BY <2>1
  <2> QED BY <2>2, Zenon DEF QuietMinutes
<1>8. CASE StoresAbsences
  <2>1. quiet' = 0 BY <1>8, StoresAbsencesIs
  <2>2. ~(quiet' > 0) BY <2>1
  <2> QED BY <2>2, Zenon DEF QuietMinutes
<1>9. CASE SetSwitchStatus \/ MinuteMissed \/ Restart
  <2>1. quiet' = 0 BY <1>9 DEF SetSwitchStatus, MinuteMissed, Restart
  <2>2. ~(quiet' > 0) BY <2>1
  <2> QED BY <2>2, Zenon DEF QuietMinutes
<1>10. CASE MinutePasses
  <2>1. /\ UNCHANGED <<alarms, stale, pc, absenceRunning>> /\ Idle
        /\ ~Undisturbed => quiet' = 0
        BY <1>10 DEF MinutePasses, NextMinute
  <2>2. \A i : Alone(i)' <=> Alone(i) BY <2>1, Zenon DEF Alone
  <2>3. pc[Message] = "idle" /\ pc[Timer] = "idle" BY <2>1, ThreadsAre DEF Idle, At
  <2> QED BY <2>1, <2>2, <2>3 DEF Undisturbed, QuietMinutes, At
<1>11. CASE UNCHANGED vars
  BY <1>11, <1>a DEF QuietMinutes, At
<1> QED BY <1>1, <1>2, <1>3, <1>4, <1>5, <1>6, <1>7, <1>8, <1>9, <1>10, <1>11, Action

LEMMA BackAgain ==
  ASSUME NEW n \in 0 .. Week - 1, NEW b \in Int
  PROVE  (((n + 1) % (WEEK * DAY)) - 1 - b) % Week = (n - b) % Week
<1>1. n \in Int /\ n - b \in Int /\ Week \in Nat \ {0} BY ScheduleConstants
<1>2. (n + 1) % (WEEK * DAY) = IF n = Week - 1 THEN 0 ELSE n + 1 BY MinuteAfter
<1>3. CASE n = Week - 1
  <2>1. PICK q \in Int, r \in 0 .. Week - 1 : r = (n - b) % Week /\ n - b = Week * q + r
        BY <1>1, Division
  <2>2. 0 - 1 - b = Week * (q - 1) + r
    <3>1. PICK w \in Int : w = Week BY <1>1
    <3>2. n = w - 1 /\ n - b = w * q + r BY <1>3, <2>1, <3>1
    <3>3. 0 - 1 - b = w * (q - 1) + r BY <1>1, <3>1, <3>2
    <3> QED BY <3>1, <3>3
  <2>3. 0 - 1 - b \in Int /\ q - 1 \in Int BY <2>1
  <2>4. (0 - 1 - b) % Week = r BY <1>1, <2>2, <2>3, Remains, Zenon
  <2>5. (n + 1) % (WEEK * DAY) = 0 BY <1>2, <1>3, Zenon
  <2> QED BY <2>1, <2>4, <2>5, Zenon
<1>4. CASE n # Week - 1
  <2>1. (n + 1) % (WEEK * DAY) = n + 1 BY <1>2, <1>4, Zenon
  <2>2. PICK x \in Int : x = (n + 1) % (WEEK * DAY) BY <1>1, <2>1
  <2>3. x - 1 - b = n - b BY <1>1, <2>1, <2>2
  <2> QED BY <2>2, <2>3, Zenon
<1> QED BY <1>3, <1>4

LEMMA FollowedCompare ==
  ASSUME Typed, Working, QuietMinutes, Followed, CompareAlarm
  PROVE  Followed'
<1>1. /\ pc[Timer] = "alarms" /\ slot \in Alarms /\ slot' = slot + 1 /\ ~checked
      /\ UNCHANGED <<now, alarms, checked, quiet, absenceRunning>>
      BY DEF CompareAlarm, At, config, running, Working
<1>2. pc'[Timer] # "idle"
      BY ThreadsAre DEF CompareAlarm, Goes, Typed, ThreadsTyped
<1> SUFFICES ASSUME NEW i \in Alarms, quiet > 0, Alone(i), ~absenceRunning
             PROVE  IF Compared(i)' THEN Follows(alarms[i], now, quiet)'
                    ELSE Follows(alarms[i], now - 1, quiet - 1)'
  <2>1. \A i : Alone(i)' <=> Alone(i) BY <1>1, Zenon DEF Alone
  <2> QED BY <1>1, <2>1, Zenon DEF Followed
<1>3. i \in Int /\ slot \in Int /\ now \in 0 .. Week - 1 /\ switch \in BOOLEAN /\ quiet \in Nat
      BY <1>1, CountsAre, ScheduleConstants DEF Alarms, Typed, NumbersTyped, FlagsTyped
<1>4. Compared(i) <=> slot > i BY <1>1 DEF Compared, At
<1>5. Compared(i)' <=> slot + 1 > i BY <1>1, <1>2 DEF Compared, At
<1>6. PICK a \in Infos : a = alarms[i] BY AloneRepeats
<1>7. PICK n \in Nat : n = quiet BY <1>3
<1>8. switch' = IF Opens(alarms[slot]) \/ Closes(alarms[slot])
                THEN ~Closes(alarms[slot]) ELSE switch
      BY DEF CompareAlarm
<1>9. alarms'[i] = a /\ quiet' = n /\ now' = now BY <1>1, <1>6, <1>7
<1>10. CASE slot # i
  <2>1. ~Opens(alarms[slot]) /\ ~Closes(alarms[slot])
        BY <1>1, <1>10 DEF Alone, Opens, Closes
  <2>2. switch' = switch BY <1>8, <2>1
  <2>3. slot > i <=> slot + 1 > i BY <1>3, <1>10
  <2>4. \A t, k : (switch' <=> InPeriod(a, t)) \/ (\A d \in DaysOf(a) : Since(a, d, t) >= k)
                  <=> Follows(a, t, k)
        BY <2>2, Zenon DEF Follows
  <2>5. Follows(alarms[i], now, quiet)' <=> Follows(alarms[i], now, quiet)
        BY <1>1, <2>2, Zenon DEF Follows, InPeriod, DaysOf, Length, Since
  <2>6. Follows(alarms[i], now - 1, quiet - 1)' <=> Follows(alarms[i], now - 1, quiet - 1)
        BY <1>1, <2>2, Zenon DEF Follows, InPeriod, DaysOf, Length, Since
  <2> QED BY <1>4, <1>5, <2>3, <2>5, <2>6, Zenon DEF Followed
<1>11. CASE slot = i
  <2>1. ~Compared(i) /\ Compared(i)' BY <1>3, <1>4, <1>5, <1>11
  <2>2. Follows(alarms[i], now - 1, quiet - 1) BY <2>1 DEF Followed
  <2>3. Follows(a, now - 1, n - 1) BY <1>6, <1>7, <2>2
  <2>4. n - 1 \in Nat /\ n - 1 + 1 = n BY <1>7
  <2>5. Repeats(a) BY <1>6, AloneRepeats
  <2>6. PICK open : open = IF Opens(a) \/ Closes(a) THEN ~Closes(a) ELSE switch OBVIOUS
  <2>7. (open <=> InPeriod(a, now)) \/ \A d \in DaysOf(a) : Since(a, d, now) >= n - 1 + 1
        BY <1>3, <2>3, <2>4, <2>5, <2>6, FollowsOn
  <2>8. switch' = open BY <1>6, <1>8, <1>11, <2>6, Zenon
  <2>9. (switch' <=> InPeriod(a, now)) \/ \A d \in DaysOf(a) : Since(a, d, now) >= n
        BY <2>4, <2>7, <2>8, Zenon
  <2>10. Follows(alarms[i], now, quiet)'
        BY <1>9, <2>9, Zenon DEF Follows, InPeriod, DaysOf, Length, Since
  <2> QED BY <2>1, <2>10, Zenon
<1> QED BY <1>10, <1>11

LEMMA FollowedPasses ==
  ASSUME Typed, Followed, MinutePasses
  PROVE  Followed'
<1>1. /\ checked /\ ~checked' /\ Idle /\ UNCHANGED <<alarms, pc, switch, absenceRunning>>
      /\ now' = (now + 1) % (WEEK * DAY)
      /\ quiet' = IF ~Undisturbed THEN 0 ELSE IF quiet < WEEK * DAY THEN quiet + 1 ELSE quiet
      BY DEF MinutePasses, NextMinute, config, running
<1>2. pc[Timer] = "idle" BY <1>1, ThreadsAre DEF Idle, At
<1> SUFFICES ASSUME NEW i \in Alarms, quiet' > 0, Alone(i)'
             PROVE  Follows(alarms[i], now - 1, quiet - 1)'
  <2>1. \A i \in Alarms : ~Compared(i)' BY <1>1, <1>2 DEF Compared, At
  <2> QED BY <2>1, Zenon DEF Followed
<1>3. Alone(i) BY <1>1, Zenon DEF Alone
<1>4. Undisturbed /\ ~absenceRunning BY <1>1 DEF Undisturbed
<1>5. PICK a \in Infos : a = alarms[i] BY <1>3, AloneRepeats
<1>6. Repeats(a) BY <1>3, <1>5, AloneRepeats
<1>7. PICK n \in 0 .. Week - 1 : n = now BY DEF Typed, NumbersTyped
<1>8. PICK k \in Nat : k = quiet /\ k <= Week
      BY ScheduleConstants DEF Typed, NumbersTyped
<1>9. ASSUME NEW d \in DaysOf(a)
      PROVE  /\ Since(a, d, now' - 1) = Since(a, d, now)
             /\ Since(a, d, now) \in 0 .. Week - 1
  <2>1. d \in Days /\ a.start \in Minutes BY <1>6, DaysAre DEF Repeats
  <2>2. PICK b \in Int : b = d * DAY + a.start BY <2>1, ScheduleConstants DEF Days, Minutes
  <2>3. (((n + 1) % (WEEK * DAY)) - 1 - b) % Week = (n - b) % Week BY BackAgain
  <2>4. n - b \in Int /\ Week \in Nat \ {0} BY <2>2, ScheduleConstants
  <2>5. (n - b) % Week \in 0 .. Week - 1 BY <2>4, Division, Zenon
  <2> QED BY <1>1, <1>7, <2>2, <2>3, <2>5, Zenon DEF Since
<1>10. InPeriod(a, now' - 1) <=> InPeriod(a, now)
  <2>1. InPeriod(a, now' - 1) <=> \E d \in DaysOf(a) : Since(a, d, now' - 1) < Length(a)
        BY Zenon DEF InPeriod, Since, Week
  <2>2. InPeriod(a, now) <=> \E d \in DaysOf(a) : Since(a, d, now) < Length(a)
        BY Zenon DEF InPeriod, Since, Week
  <2> QED BY <1>9, <2>1, <2>2, Zenon
<1>11. PICK q \in Nat : q = quiet' /\ (q - 1 = k \/ q - 1 = k - 1) /\ (k = 0 => q - 1 = 0)
  <2>1. WEEK * DAY = Week /\ Week \in Nat /\ Week > 0 BY ScheduleConstants DEF Week
  <2>2. quiet' = IF k < Week THEN k + 1 ELSE k BY <1>1, <1>4, <1>8, <2>1
  <2> QED BY <1>8, <2>1, <2>2
<1>12. (switch <=> InPeriod(a, now' - 1)) \/ \A d \in DaysOf(a) : Since(a, d, now' - 1) >= q - 1
  <2>1. CASE k = 0 BY <1>9, <1>11, <2>1, ScheduleConstants
  <2>2. CASE k > 0
    <3>1. Compared(i) BY <1>1 DEF Compared
    <3>2. Follows(alarms[i], now, quiet) BY <1>3, <1>4, <1>8, <2>2, <3>1 DEF Followed
    <3>3. (switch <=> InPeriod(a, now)) \/ \A d \in DaysOf(a) : Since(a, d, now) >= k
          BY <1>5, <1>8, <3>2, Zenon DEF Follows
    <3>4. CASE switch <=> InPeriod(a, now) BY <1>10, <3>4
    <3>5. CASE \A d \in DaysOf(a) : Since(a, d, now) >= k
      <4>1. ASSUME NEW d \in DaysOf(a) PROVE Since(a, d, now' - 1) >= q - 1
        <5>1. PICK z \in 0 .. Week - 1 : z = Since(a, d, now' - 1) /\ z = Since(a, d, now)
              BY <1>9
        <5>2. z \in Int BY ScheduleConstants
        <5>3. z >= k BY <3>5, <5>1
        <5>4. q - 1 <= k
          <6>1. q \in Nat /\ k \in Nat /\ (q - 1 = k \/ q - 1 = k - 1) BY <1>11, <1>8
          <6> QED BY <6>1
        <5>5. q \in Nat /\ k \in Nat BY <1>11, <1>8
        <5>6. z >= q - 1 BY <5>2, <5>3, <5>4, <5>5
        <5> QED BY <5>1, <5>6
      <4> QED BY <4>1
    <3> QED BY <3>3, <3>4, <3>5
  <2> QED BY <2>1, <2>2
<1>13. switch' = switch /\ alarms'[i] = a BY <1>1, <1>5
<1> QED BY <1>11, <1>12, <1>13, Zenon DEF Follows, InPeriod, DaysOf, Length, Since

LEMMA FollowedKept ==
  ASSUME Typed, Working, QuietMinutes, Followed, [Next]_vars
  PROVE  Followed'
<1> USE DEF vars, config, running, bounds
<1>0. /\ pc \in [Threads -> Steps] /\ slot \in 0 .. MAX_ALARM_COUNT
      /\ MAX_ALARM_COUNT \in Nat /\ Alarms \subseteq Nat
      /\ \A i \in Alarms : i < MAX_ALARM_COUNT
      BY CountsAre DEF Typed, NumbersTyped, ThreadsTyped, Alarms
<1>a. ASSUME quiet' = quiet, UNCHANGED <<alarms, now>>,
             quiet > 0 /\ ~absenceRunning' => ~absenceRunning /\ switch' = switch,
             quiet > 0 => \A i \in Alarms : Compared(i)' <=> Compared(i)
      PROVE  Followed'
  <2> SUFFICES ASSUME NEW i \in Alarms, quiet > 0, Alone(i), ~absenceRunning'
               PROVE  IF Compared(i)' THEN Follows(alarms[i], now, quiet)'
                      ELSE Follows(alarms[i], now - 1, quiet - 1)'
    <3>1. \A i : Alone(i)' <=> Alone(i) BY <1>a, Zenon DEF Alone
    <3> QED BY <1>a, <3>1, Zenon DEF Followed
  <2>1. ~absenceRunning /\ switch' = switch BY <1>a
  <2>2. Compared(i)' <=> Compared(i) BY <1>a
  <2>3. Follows(alarms[i], now, quiet)' <=> Follows(alarms[i], now, quiet)
        BY <1>a, <2>1, Zenon DEF Follows, InPeriod, DaysOf, Length, Since
  <2>4. Follows(alarms[i], now - 1, quiet - 1)' <=> Follows(alarms[i], now - 1, quiet - 1)
        BY <1>a, <2>1, Zenon DEF Follows, InPeriod, DaysOf, Length, Since
  <2> QED BY <2>1, <2>2, <2>3, <2>4, Zenon DEF Followed
<1>1. CASE StartCheck
  <2>1. /\ pc[Timer] = "idle" /\ ~checked /\ slot' = 0
        /\ UNCHANGED <<quiet, alarms, now, checked, absenceRunning, switch>>
        BY <1>1 DEF StartCheck, At
  <2>2. \A i \in Alarms : ~(0 > i) BY <1>0
  <2>3. \A i \in Alarms : Compared(i)' <=> Compared(i) BY <2>1, <2>2 DEF Compared, At
  <2> QED BY <1>a, <2>1, <2>3
<1>2. CASE CompareAlarm BY <1>2, FollowedCompare
<1>3. CASE InactiveAlarm
  <2>1. ~(quiet' > 0) BY <1>3 DEF InactiveAlarm, QuietMinutes
  <2> QED BY <2>1, Zenon DEF Followed
<1>4. CASE AlarmsDone
  <2>1. /\ pc[Timer] = "alarms" /\ pc' = [pc EXCEPT ![Timer] = "absences"]
        /\ UNCHANGED <<quiet, alarms, now, checked, slot, absenceRunning, switch>>
        BY <1>4 DEF AlarmsDone, At, Goes
  <2>2. pc'[Timer] = "absences" BY <1>0, <2>1, ThreadsAre
  <2>3. \A i \in Alarms : Compared(i)' <=> Compared(i) BY <2>1, <2>2 DEF Compared, At
  <2> QED BY <1>a, <2>1, <2>3
<1>5. ASSUME NEW t \in Threads, CompareAbsences(t) \/ InactiveAbsence(t) PROVE Followed'
  <2>1. /\ UNCHANGED <<quiet, alarms, now, checked, slot, absenceRunning, switch>>
        /\ pc[t] \in {"absences", "save absences"}
        /\ \E step \in {"act", "save absences"} : pc' = [pc EXCEPT ![t] = step]
        BY <1>5 DEF CompareAbsences, InactiveAbsence, At, Goes
  <2>2. pc'[t] \in {"act", "save absences"} BY <1>0, <2>1
  <2>3. quiet > 0 => t = Timer BY <2>1, ThreadsAre DEF QuietMinutes, At
  <2>4. quiet > 0 => \A i \in Alarms : Compared(i)' <=> Compared(i)
        BY <2>1, <2>2, <2>3 DEF Compared, At
  <2> QED BY <1>a, <2>1, <2>4
<1>6. ASSUME NEW t \in Threads, Act(t) PROVE Followed'
  <2>1. /\ UNCHANGED <<alarms, now, quiet, slot>> /\ pc[t] = "act"
        /\ checked' = (checked \/ t = Timer)
        BY <1>6, ActMoves DEF At
  <2>2. quiet > 0 => t = Timer BY <2>1, ThreadsAre DEF QuietMinutes, At
  <2>3. t = Timer => ~checked /\ slot = MAX_ALARM_COUNT BY <2>1 DEF Working
  <2>4. t = Timer => \A i \in Alarms : Compared(i)' /\ Compared(i)
        BY <1>0, <2>1, <2>3 DEF Compared, At
  <2>5. quiet > 0 => ~absenceRunning BY <2>2, <2>3 DEF QuietMinutes
  <2>6. ~absenceRunning /\ ~absenceRunning' => switch' = switch BY <1>6, ActIs
  <2>7. quiet > 0 => \A i \in Alarms : Compared(i)' <=> Compared(i) BY <2>2, <2>4
  <2> QED BY <1>a, <2>1, <2>5, <2>6, <2>7
<1>7. CASE Stores
  <2>1. quiet' = 0 BY <1>7, StoresIs
  <2>2. ~(quiet' > 0) BY <2>1
  <2> QED BY <2>2, Zenon DEF Followed
<1>8. CASE StoresAbsences
  <2>1. quiet' = 0 BY <1>8, StoresAbsencesIs
  <2>2. ~(quiet' > 0) BY <2>1
  <2> QED BY <2>2, Zenon DEF Followed
<1>9. CASE SetSwitchStatus \/ MinuteMissed \/ Restart
  <2>1. quiet' = 0 BY <1>9 DEF SetSwitchStatus, MinuteMissed, Restart
  <2>2. ~(quiet' > 0) BY <2>1
  <2> QED BY <2>2, Zenon DEF Followed
<1>10. CASE MinutePasses BY <1>10, FollowedPasses
<1>11. CASE UNCHANGED vars
  <2>1. UNCHANGED <<quiet, alarms, now, checked, slot, absenceRunning, switch, pc>> BY <1>11
  <2>2. \A i \in Alarms : Compared(i)' <=> Compared(i) BY <2>1 DEF Compared, At
  <2> QED BY <1>a, <2>1, <2>2
<1> QED BY <1>1, <1>2, <1>3, <1>4, <1>5, <1>6, <1>7, <1>8, <1>9, <1>10, <1>11, Action

-----------------------------------------------------------------------------
LEMMA ScheduleStarts == Init => ScheduleIInv
<1> SUFFICES ASSUME Init PROVE ScheduleIInv OBVIOUS
<1>1. TypeOK BY InitTyped, TypesAre
<1>2. /\ pc = [t \in Threads |-> "idle"] /\ alarms = [i \in Alarms |-> NoInfo]
      /\ absences = [i \in Absences |-> NoInfo] /\ stored = alarms /\ stale = {}
      /\ opened = [i \in Alarms |-> 0] /\ absenceRunning = FALSE /\ checked = FALSE /\ quiet = 0
      BY DEF Init
<1>3. Working /\ CopyOut BY <1>2, ThreadsAre DEF Working, CopyOut, At
<1>4. EditKept BY <1>2 DEF EditKept
<1>5. OpenedOnce BY <1>2 DEF OpenedOnce, Opened
<1>6. Ahead BY <1>2 DEF Ahead
<1>7. ActiveTimes BY <1>2, NoInfoIs DEF ActiveTimes
<1>8. Settled BY <1>2, ThreadsAre DEF Settled, Acts, At
<1>9. ~(quiet > 0) BY <1>2
<1>10. QuietMinutes /\ Followed BY <1>9, Zenon DEF QuietMinutes, Followed
<1> QED BY <1>1, <1>3, <1>4, <1>5, <1>6, <1>7, <1>8, <1>10 DEF ScheduleIInv

LEMMA ScheduleGoes == ScheduleIInv /\ [Next]_vars => ScheduleIInv'
<1> SUFFICES ASSUME ScheduleIInv, [Next]_vars PROVE ScheduleIInv' OBVIOUS
<1>1. /\ TypeOK /\ Working /\ CopyOut /\ EditKept /\ OpenedOnce
      /\ Ahead /\ ActiveTimes /\ Settled /\ QuietMinutes /\ Followed
      BY DEF ScheduleIInv
<1>2. Typed BY <1>1, TypesAre
<1>3. Typed' BY <1>2, TypesKept
<1>4. TypeOK' BY <1>3, TypesAre, PTL
<1>5. Working' BY <1>1, <1>2, WorkingKept
<1>6. CopyOut' BY <1>1, <1>2, CopyOutKept
<1>7. EditKept' BY <1>1, <1>2, EditKeptKept
<1>8. OpenedOnce' BY <1>1, <1>2, OpenedOnceKept
<1>9. Ahead' BY <1>1, <1>2, AheadKept
<1>10. ActiveTimes' BY <1>1, <1>2, ActiveTimesKept
<1>11. Settled' BY <1>1, <1>2, SettledKept
<1>12. QuietMinutes' BY <1>1, <1>2, QuietKept
<1>13. Followed' BY <1>1, <1>2, FollowedKept
<1> QED BY <1>4, <1>5, <1>6, <1>7, <1>8, <1>9, <1>10, <1>11, <1>12, <1>13, Zenon
    DEF ScheduleIInv

LEMMA InTime == ASSUME Typed, Ahead PROVE ToggleAhead
<1> SUFFICES ASSUME absenceRunning, ~missed
             PROVE  /\ nextAbsenceMinute # NoMinute
                    /\ ToGo <= MAX_ABSENCE_OPEN_INTERVAL \/ ToGo <= MAX_ABSENCE_CLOSE_INTERVAL
                    /\ checked /\ Idle => ToGo > 0
    BY Zenon DEF ToggleAhead, ToGo
<1>1. /\ nextAbsenceMinute \in Minutes /\ (checked => ToGo > 0)
      /\ ToGo <= MAX_ABSENCE_OPEN_INTERVAL \/ ToGo <= MAX_ABSENCE_CLOSE_INTERVAL
      BY DEF Ahead
<1>2. nextAbsenceMinute # NoMinute BY <1>1, ScheduleConstants DEF Minutes, NoMinute
<1> QED BY <1>1, <1>2

LEMMA AsScheduled == ASSUME Typed, Followed PROVE OnSchedule
<1> SUFFICES ASSUME NEW i \in Alarms, checked, ~absenceRunning, quiet = Week, Alone(i)
             PROVE  switch <=> InPeriod(alarms[i], now)
    BY Zenon DEF OnSchedule, Week
<1>1. quiet > 0 /\ Compared(i) BY ScheduleConstants DEF Compared
<1>2. Follows(alarms[i], now, quiet) BY <1>1 DEF Followed
<1>3. PICK a \in Infos : a = alarms[i] BY AloneRepeats
<1>4. Repeats(a) BY <1>3, AloneRepeats
<1>5. PICK d \in DaysOf(a) : d \in Days BY DaysAre
<1>6. now \in 0 .. Week - 1 BY DEF Typed, NumbersTyped
<1>7. Since(a, d, now) \in 0 .. Week - 1 BY <1>4, <1>5, <1>6, SinceIs DEF Repeats
<1>8. ~(Since(a, d, now) >= quiet) BY <1>7, ScheduleConstants
<1> QED BY <1>2, <1>3, <1>5, <1>8, Zenon DEF Follows

LEMMA ScheduleIs == ScheduleIInv => AlarmInv /\ AbsenceInv
<1> SUFFICES ASSUME ScheduleIInv PROVE AlarmInv /\ AbsenceInv OBVIOUS
<1>1. TypeOK /\ EditKept /\ OpenedOnce /\ Ahead /\ ActiveTimes /\ Settled /\ Followed
      BY DEF ScheduleIInv
<1>2. Typed BY <1>1, TypesAre
<1>3. OneShotOnce BY <1>1 DEF OneShotOnce, OpenedOnce, Opened
<1>4. OnSchedule BY <1>1, <1>2, AsScheduled
<1>5. RunsInPeriod BY <1>1, <1>2, InItsPeriod
<1>6. ToggleAhead BY <1>1, <1>2, InTime
<1> QED BY <1>1, <1>3, <1>4, <1>5, <1>6 DEF AlarmInv, AbsenceInv

LEMMA ScheduleAlways == Spec => []ScheduleIInv
BY ScheduleStarts, ScheduleGoes, PTL DEF Spec

(* An alarm is what the app last stored in its place, a one-shot opens the *)
(* switch at most once, and a repeating alarm that has worked the switch   *)
(* alone for a week has it open exactly in its periods: for days and weeks *)
(* of any length and any alarms (lum_checkAlarm, lum_compareAlarm,         *)
(* lum_checkInactiveAlarm and the handlers that store alarms).             *)
THEOREM AlarmsCorrect == Spec => []AlarmInv
<1>1. ScheduleIInv => AlarmInv BY ScheduleIs
<1> QED BY <1>1, ScheduleAlways, PTL

(* An absence runs exactly while the time is in the period of a stored     *)
(* active one, unless an edit met the check, and as long as it runs and no *)
(* minute was missed it will work the switch within the longest interval   *)
(* (lum_checkAbsence, lum_checkAbsenceWhileChange,                         *)
(* lum_changeSwitchByAbsence).                                             *)
THEOREM AbsencesCorrect == Spec => []AbsenceInv
<1>1. ScheduleIInv => AbsenceInv BY ScheduleIs
<1> QED BY <1>1, ScheduleAlways, PTL

-----------------------------------------------------------------------------
(* The timer that checks every minute once, and the countdown (module       *)
(* MinuteCheck).                                                            *)

(* The types in groups.                                                     *)
SecondsTyped ==
  /\ second \in Nat /\ delay \in Delays /\ left \in -delay .. LATE + NOT_NTP
  /\ curTime \in Nat /\ base \in Nat /\ turn \in Int /\ fired \in Int
PlaceTyped ==
  /\ stage \in {"idle", "read", "check", "remove"}
  /\ lastCheckMinute \in {NoCheck} \cup 0 .. HOUR - 1
  /\ total \in 0 .. LIMIT /\ nth \in 0 .. total
  /\ sets \in 0 .. MaxSets /\ requests \in 0 .. MaxRequests
NotesTyped ==
  /\ excused \in BOOLEAN /\ jumped \in BOOLEAN
  /\ accepted \in {"no", "ahead", "checked"} /\ lost \subseteq {"no", "ahead", "checked"}
CountdownsTyped ==
  /\ countdown \in [active: BOOLEAN, count: Nat] /\ copy \in [active: BOOLEAN, count: Nat]
CheckTypes == SecondsTyped /\ PlaceTyped /\ NotesTyped /\ CountdownsTyped

(* A check works on minutes of a clock that was set, and while nobody sets  *)
(* the clock, it reads it again and again before the timer's period is over.*)
Checking ==
  /\ stage # "idle" => curTime > YEAR_2015 /\ nth \in 1 .. total
  /\ stage = "read" => nth = 1
UnderWay ==
  stage # "idle" /\ ~jumped =>
    curTime <= base /\ base <= second /\ second + left <= curTime

(* Between two checks the timer fires in the minute after that of the last  *)
(* one.                                                                     *)
Rested ==
  LET start == MINUTE * MinuteOf(curTime)
  IN  /\ second > YEAR_2015
      /\ lastCheckMinute = MinuteField(MinuteOf(curTime)) /\ MinuteOf(curTime) <= turn
      /\ start + LATE <= second + left /\ second + left <= start + LATE + delay

(* The minute that is checked next.                                         *)
Turns ==
  /\ stage = "idle" /\ ~excused => Rested
  /\ stage # "idle" /\ ~excused => ~jumped
  /\ stage = "read" /\ ~excused => turn + total = MinuteOf(curTime)
  /\ stage = "check" /\ ~excused => turn + 1 = MinuteOf(base) - (total - nth)
  /\ stage = "remove" => turn = MinuteOf(base) - (total - nth)

(* What a countdown that was accepted relies on: its minute is checked      *)
(* before it is over.                                                       *)
Unmoved == accepted # "no" => IF stage = "idle" THEN ~excused ELSE ~jumped
Promised ==
  /\ countdown.active
  /\ second + left + delay <= MINUTE * MinuteOf(countdown.count) + Latest
  /\ stage = "idle" => turn < MinuteOf(countdown.count)
  /\ stage # "read"
  /\ stage = "check" =>
       total = 1 /\ base = curTime /\ MinuteOf(curTime) <= MinuteOf(countdown.count)
Promise == OnTime /\ accepted = "ahead" => Promised

CheckIInv ==
  /\ CheckTypes /\ Checking /\ UnderWay /\ Turns /\ Unmoved /\ Promise
  /\ NotLost /\ EndsNear
-----------------------------------------------------------------------------
(* Minutes of seconds.                                                      *)
LEMMA CheckConstants ==
  /\ MINUTE \in Nat \ {0} /\ HOUR \in Nat \ {0} /\ LIMIT \in Nat \ {0}
  /\ LATE \in Nat /\ NOT_NTP \in Nat \ {0} /\ YEAR_2015 \in Nat
  /\ LATE > MINUTE /\ LIMIT < HOUR
  /\ MaxSecond \in Nat /\ MaxSets \in Nat /\ MaxRequests \in Nat
  /\ Delays \subseteq Nat /\ Starts \subseteq Nat
  /\ Jumps \subseteq Int /\ Wishes \subseteq Int
BY MinuteAssumption, CheckBoundAssumption

LEMMA MinuteIs ==
  ASSUME NEW t \in Int
  PROVE  /\ MinuteOf(t) \in Int /\ t % MINUTE \in 0 .. MINUTE - 1
         /\ t = MINUTE * MinuteOf(t) + (t % MINUTE)
<1>1. MINUTE \in Nat \ {0} BY CheckConstants
<1> QED BY <1>1, Division DEF MinuteOf

LEMMA InMinute ==
  ASSUME NEW t \in Int, NEW k \in Int
  PROVE  /\ MINUTE * k <= t => k <= MinuteOf(t)
         /\ t < MINUTE * k + MINUTE => MinuteOf(t) <= k
<1>1. PICK m \in Int, r \in 0 .. MINUTE - 1 : m = MinuteOf(t) /\ t = MINUTE * m + r
      BY MinuteIs
<1>2. MINUTE \in Nat \ {0} BY CheckConstants
<1>3. ASSUME MINUTE * k <= t, k >= m + 1 PROVE FALSE
  <2>1. MINUTE * k >= MINUTE * (m + 1) BY <1>2, <1>3
  <2>2. MINUTE * (m + 1) = MINUTE * m + MINUTE BY <1>2
  <2> QED BY <1>1, <1>2, <1>3, <2>1, <2>2
<1>4. ASSUME t < MINUTE * k + MINUTE, m >= k + 1 PROVE FALSE
  <2>1. MINUTE * m >= MINUTE * (k + 1) BY <1>2, <1>4
  <2>2. MINUTE * (k + 1) = MINUTE * k + MINUTE BY <1>2
  <2> QED BY <1>1, <1>2, <1>4, <2>1, <2>2
<1> QED BY <1>1, <1>3, <1>4

LEMMA MinutesBack ==
  ASSUME NEW t \in Int, NEW k \in Int
  PROVE  MinuteOf(t - k * MINUTE) = MinuteOf(t) - k
<1>1. PICK m \in Int, r \in 0 .. MINUTE - 1 : m = MinuteOf(t) /\ t = MINUTE * m + r
      BY MinuteIs
<1>2. MINUTE \in Nat \ {0} BY CheckConstants
<1>3. t - k * MINUTE = MINUTE * (m - k) + r /\ t - k * MINUTE \in Int /\ m - k \in Int
      BY <1>1, <1>2
<1>4. (t - k * MINUTE) \div MINUTE = m - k BY <1>2, <1>3, Remains, Zenon
<1> QED BY <1>1, <1>4 DEF MinuteOf

LEMMA CheckedIs ==
  ASSUME CheckTypes
  PROVE  Checked = MinuteOf(base) - (total - nth)
<1>1. base \in Int /\ total - nth \in Int BY CheckConstants DEF CheckTypes, SecondsTyped, PlaceTyped
<1> QED BY <1>1, MinutesBack DEF Checked

(* Minutes that went by are seen by the minute of the hour.                 *)
LEMMA ElapsedIs ==
  ASSUME NEW m \in Int, NEW n \in Int, m < n, n <= m + LIMIT,
         lastCheckMinute = MinuteField(m)
  PROVE  Elapsed(n) = n - m
<1> DEFINE a == m \div HOUR
           r == m % HOUR
           d == n - m
<1>1. HOUR \in Nat \ {0} /\ LIMIT \in Nat /\ LIMIT < HOUR BY CheckConstants
<1>2. a \in Int /\ r \in 0 .. HOUR - 1 /\ m = HOUR * a + r BY <1>1, Division
<1>3. d \in 1 .. HOUR - 1 /\ n = m + d BY <1>1
<1>4. lastCheckMinute = r BY DEF MinuteField
<1> HIDE DEF a, r, d
<1>5. lastCheckMinute # NoCheck BY <1>2, <1>4 DEF NoCheck
<1>6. CASE r + d < HOUR
  <2>1. n = HOUR * a + (r + d) /\ r + d \in 0 .. HOUR - 1 BY <1>1, <1>2, <1>3, <1>6
  <2>2. n % HOUR = r + d BY <1>1, <1>2, <2>1, Remains, Zenon
  <2>3. MinuteField(n) = r + d BY <2>2 DEF MinuteField
  <2>4. ~(r + d < r) BY <1>2, <1>3
  <2>5. Elapsed(n) = (r + d) - r + 0 BY <1>4, <1>5, <2>3, <2>4 DEF Elapsed
  <2> QED BY <2>5, <1>2, <1>3 DEF d
<1>7. CASE r + d >= HOUR
  <2>1. n = HOUR * (a + 1) + (r + d - HOUR) /\ r + d - HOUR \in 0 .. HOUR - 1 /\ a + 1 \in Int
        BY <1>1, <1>2, <1>3, <1>7
  <2>2. n % HOUR = r + d - HOUR BY <1>1, <2>1, Remains, Zenon
  <2>3. MinuteField(n) = r + d - HOUR BY <2>2 DEF MinuteField
  <2>4. r + d - HOUR < r BY <1>1, <1>2, <1>3
  <2>5. Elapsed(n) = (r + d - HOUR) - r + HOUR
        BY <1>4, <1>5, <2>3, <2>4 DEF Elapsed
  <2> QED BY <2>5, <1>1, <1>2, <1>3 DEF d
<1> QED BY <1>1, <1>2, <1>3, <1>6, <1>7

LEMMA ClockIs ==
  ASSUME NEW m \in Int
  PROVE  MinuteField(m) \in 0 .. HOUR - 1
<1>1. HOUR \in Nat \ {0} BY CheckConstants
<1> QED BY <1>1, Division DEF MinuteField

(* However many minutes went by, at least one and no more than LIMIT are    *)
(* checked.                                                                 *)
LEMMA ElapsedTyped ==
  ASSUME NEW m \in Int, lastCheckMinute \in {NoCheck} \cup 0 .. HOUR - 1
  PROVE  Elapsed(m) \in Int
<1>1. HOUR \in Nat \ {0} BY CheckConstants
<1>2. MinuteField(m) \in 0 .. HOUR - 1 BY ClockIs
<1> QED BY <1>1, <1>2 DEF Elapsed, NoCheck
-----------------------------------------------------------------------------
(* What the steps do.                                                       *)
LEMMA StartCheckIs ==
  ASSUME CheckTypes, MinuteCheckProtect
  PROVE  /\ stage = "idle" /\ left <= 0 /\ second > YEAR_2015
         /\ curTime' = second /\ base' = second /\ nth' = 1 /\ total' \in 1 .. LIMIT
         /\ LET n == Elapsed(MinuteOf(second))
            IN  total' = IF n > LIMIT \/ n <= 1 THEN 1 ELSE n
         /\ stage' = IF total' > 1 THEN "read" ELSE "check"
         /\ ~jumped'
         /\ excused' = (excused \/ MinuteOf(second) > turn + LIMIT \/ MinuteOf(curTime) # turn)
         /\ UNCHANGED <<second, left, lastCheckMinute, countdown, copy, turn, accepted>>
         /\ UNCHANGED <<lost, fired, sets, requests, delay>>
<1>1. second \in Int /\ lastCheckMinute \in {NoCheck} \cup 0 .. HOUR - 1
      BY DEF CheckTypes, SecondsTyped, PlaceTyped
<1>2. MinuteOf(second) \in Int BY <1>1, MinuteIs
<1>3. PICK n \in Int : n = Elapsed(MinuteOf(second)) BY <1>1, <1>2, ElapsedTyped
<1>4. total' = IF n > LIMIT \/ n <= 1 THEN 1 ELSE n BY <1>3 DEF MinuteCheckProtect
<1>5. total' \in 1 .. LIMIT BY <1>4, CheckConstants
<1>6. UNCHANGED <<second, left, lastCheckMinute, countdown, copy, turn, accepted>>
      BY DEF MinuteCheckProtect
<1>7. UNCHANGED <<lost, fired, sets, requests, delay>> BY DEF MinuteCheckProtect, checkBounds
<1>8. /\ stage = "idle" /\ left <= 0 /\ second > YEAR_2015
      /\ curTime' = second /\ base' = second /\ nth' = 1
      /\ stage' = IF total' > 1 THEN "read" ELSE "check"
      BY DEF MinuteCheckProtect
<1>9. /\ ~jumped'
      /\ excused' = (excused \/ MinuteOf(second) > turn + LIMIT \/ MinuteOf(curTime) # turn)
      BY Zenon DEF MinuteCheckProtect
<1> QED BY <1>3, <1>4, <1>5, <1>6, <1>7, <1>8, <1>9

(* A check that goes on checks the next minute, or ends.                    *)
GoesOn == nth < total /\ nth' = nth + 1 /\ stage' = "check" /\ UNCHANGED <<left, lastCheckMinute>>
IsOver ==
  /\ nth = total /\ stage' = "idle" /\ nth' = nth
  /\ lastCheckMinute' = MinuteField(MinuteOf(curTime))
  /\ left' = LATE - (curTime % MINUTE)

LEMMA ProceedIs ==
  ASSUME CheckTypes, nth \in 1 .. total, Proceed
  PROVE  GoesOn \/ IsOver
<1>1. total \in Int BY DEF CheckTypes, PlaceTyped
<1>2. CASE nth < total BY <1>2 DEF Proceed, GoesOn
<1>3. CASE ~(nth < total)
  <2>1. nth = total BY <1>1, <1>3
  <2> QED BY <1>3, <2>1 DEF Proceed, IsOver
<1> QED BY <1>2, <1>3

(* A check of one minute, and what it does with the countdown.              *)
Kept ==
  /\ UNCHANGED <<second, curTime, base, total, jumped>>
  /\ UNCHANGED <<sets, requests, delay>>
CheckSteps ==
  NoCountdown \/ OldCountdown \/ CountdownEnds \/ CountdownGoesOn
Stays == stage' = "remove" /\ UNCHANGED <<left, lastCheckMinute, nth>>

LEMMA CheckStepIs ==
  ASSUME CheckTypes, Checking, CheckSteps
  PROVE  /\ stage = "check" /\ Kept /\ UNCHANGED <<countdown, accepted>>
         /\ turn' = Checked /\ excused' = jumped
         /\ \/ /\ (GoesOn \/ IsOver) /\ UNCHANGED <<copy, lost, fired>>
               /\ ~countdown.active \/ MinuteOf(countdown.count) # Checked
            \/ /\ Stays /\ copy' = countdown /\ Old /\ countdown.active
               /\ lost' = lost \cup {accepted} /\ fired' = fired
            \/ /\ Stays /\ copy' = countdown /\ ~Old /\ countdown.active
               /\ MinuteOf(countdown.count) = Checked
               /\ lost' = lost
               /\ fired' = IF accepted = "no" THEN 0 ELSE second - countdown.count
<1>1. CASE NoCountdown
  <2>1. stage = "check" BY <1>1 DEF NoCountdown
  <2>2. nth \in 1 .. total BY <2>1 DEF Checking
  <2>3. GoesOn \/ IsOver BY <1>1, <2>2, ProceedIs DEF NoCountdown
  <2> QED BY <1>1, <2>1, <2>3 DEF NoCountdown, Turn, Kept, checkBounds
<1>2. CASE OldCountdown
  BY <1>2 DEF OldCountdown, Turn, Kept, checkBounds, Stays
<1>3. CASE CountdownEnds
  BY <1>3
     DEF CountdownEnds, Turn, Kept, checkBounds, Stays, Due
<1>4. CASE CountdownGoesOn
  <2>1. stage = "check" BY <1>4 DEF CountdownGoesOn
  <2>2. nth \in 1 .. total BY <2>1 DEF Checking
  <2>3. GoesOn \/ IsOver BY <1>4, <2>2, ProceedIs DEF CountdownGoesOn
  <2> QED BY <1>4, <2>1, <2>3
          DEF CountdownGoesOn, Turn, Kept, checkBounds, Due
<1> QED BY <1>1, <1>2, <1>3, <1>4 DEF CheckSteps

LEMMA InactiveIs ==
  ASSUME CheckTypes, Checking, InactiveCountdown
  PROVE  /\ stage = "remove" /\ Kept /\ (GoesOn \/ IsOver)
         /\ countdown' = [copy EXCEPT !.active = FALSE] /\ copy' = Off /\ accepted' = "no"
         /\ UNCHANGED <<turn, excused, lost, fired>>
<1>1. stage = "remove" BY DEF InactiveCountdown
<1>2. nth \in 1 .. total BY <1>1 DEF Checking
<1>3. GoesOn \/ IsOver BY <1>2, ProceedIs DEF InactiveCountdown
<1> QED BY <1>1, <1>3 DEF InactiveCountdown, Kept, checkBounds

LEMMA SetIs ==
  ASSUME CheckTypes, SetCountDownData
  PROVE  /\ UNCHANGED <<second, left, lastCheckMinute, stage, curTime, base, total, nth, copy>>
         /\ UNCHANGED <<sets, delay, turn, excused, jumped, lost, fired>>
         /\ requests' = requests + 1 /\ requests < MaxRequests
         /\ \E n \in Nat : /\ countdown' = [active |-> TRUE, count |-> n]
                           /\ accepted' \in {"no", "ahead", "checked"}
                           /\ accepted' # "no" =>
                                second > YEAR_2015 /\ ~excused /\ stage = "idle"
                           /\ accepted' = "ahead" => MinuteOf(n) > turn
<1>1. PICK c \in Wishes \cup {r + second : r \in Wishes} :
         /\ Valid(c)
         /\ countdown' = [active |-> TRUE, count |-> Ends(c)]
         /\ accepted' = IF second <= YEAR_2015 \/ excused \/ stage # "idle" THEN "no"
                        ELSE IF MinuteOf(Ends(c)) > turn THEN "ahead"
                             ELSE "checked"
      BY DEF SetCountDownData
<1>2. c \in Int /\ second \in Nat /\ YEAR_2015 \in Nat
      BY CheckConstants DEF CheckTypes, SecondsTyped
<1>3. Ends(c) \in Nat BY <1>1, <1>2 DEF Valid, Ends
<1>4. /\ UNCHANGED <<second, left, lastCheckMinute, stage, curTime, base, total, nth, copy>>
      /\ UNCHANGED <<sets, delay, turn, excused, jumped, lost, fired>>
      /\ requests' = requests + 1 /\ requests < MaxRequests
      BY DEF SetCountDownData, callback
<1>5. /\ accepted' \in {"no", "ahead", "checked"}
      /\ accepted' # "no" => ~(second <= YEAR_2015) /\ ~excused /\ stage = "idle"
      /\ accepted' = "ahead" => MinuteOf(Ends(c)) > turn
      BY <1>1, Zenon
<1>6. accepted' # "no" => second > YEAR_2015 /\ ~excused /\ stage = "idle" BY <1>2, <1>5
<1> QED BY <1>1, <1>3, <1>4, <1>5, <1>6 

LEMMA DeleteIs ==
  ASSUME DeleteCountDownData
  PROVE  /\ UNCHANGED <<second, left, lastCheckMinute, stage, curTime, base, total, nth, copy>>
         /\ UNCHANGED <<sets, delay, turn, excused, jumped, lost, fired>>
         /\ requests' = requests + 1 /\ requests < MaxRequests
         /\ countdown' = Off /\ accepted' = "no"
BY DEF DeleteCountDownData, callback

LEMMA TickIs ==
  ASSUME SecondPasses
  PROVE  /\ left > -delay /\ second' = second + 1 /\ left' = left - 1
         /\ UNCHANGED <<lastCheckMinute, stage, curTime, base, total, nth, copy, countdown>>
         /\ UNCHANGED <<sets, requests, delay, turn, excused, jumped, accepted, lost, fired>>
BY DEF SecondPasses, callback, checkBounds, history

LEMMA SetClockIs ==
  ASSUME CheckTypes, SetClock
  PROVE  /\ second' \in Nat /\ sets' = sets + 1 /\ sets < MaxSets
         /\ excused' /\ jumped' /\ accepted' = "no"
         /\ excused' \in BOOLEAN /\ jumped' \in BOOLEAN
         /\ UNCHANGED <<left, lastCheckMinute, stage, curTime, base, total, nth, copy>>
         /\ UNCHANGED <<countdown, requests, delay, turn, lost, fired>>
<1>1. PICK d \in Jumps : second' = second + d /\ second' >= 0 BY DEF SetClock
<1>2. d \in Int /\ second \in Nat BY CheckConstants DEF CheckTypes, SecondsTyped
<1>3. second' \in Nat BY <1>1, <1>2
<1> QED BY <1>3 DEF SetClock, callback

LEMMA NoTimeIs ==
  ASSUME NoTimeYet
  PROVE  /\ stage = "idle" /\ second <= YEAR_2015 /\ left' = NOT_NTP
         /\ UNCHANGED <<second, lastCheckMinute, stage, curTime, base, total, nth, copy>>
         /\ UNCHANGED <<countdown, sets, requests, delay, turn, excused, jumped, accepted>>
         /\ UNCHANGED <<lost, fired>>
BY DEF NoTimeYet, callback, checkBounds, history

LEMMA StutterIs ==
  ASSUME UNCHANGED checkVars
  PROVE  /\ UNCHANGED <<second, left, lastCheckMinute, stage, curTime, base, total, nth, copy>>
         /\ UNCHANGED <<countdown, sets, requests, delay, turn, excused, jumped, accepted>>
         /\ UNCHANGED <<lost, fired>>
BY DEF checkVars, callback, checkBounds, history

LEMMA CheckAction ==
  ASSUME [CheckNext]_checkVars
  PROVE  \/ NoTimeYet \/ MinuteCheckProtect \/ ReadAgain \/ CheckSteps
         \/ InactiveCountdown \/ SetCountDownData \/ DeleteCountDownData
         \/ SecondPasses \/ SetClock \/ UNCHANGED checkVars
BY DEF CheckNext, CheckTimerCallback, CheckSteps

LEMMA ReadAgainIs ==
  ASSUME ReadAgain
  PROVE  /\ stage = "read" /\ stage' = "check" /\ base' = second
         /\ excused' = (excused \/ MinuteOf(second) # MinuteOf(curTime))
         /\ UNCHANGED <<second, left, lastCheckMinute, curTime, total, nth, copy>>
         /\ UNCHANGED <<countdown, sets, requests, delay, turn, jumped, accepted, lost, fired>>
<1>1. stage = "read" /\ stage' = "check" /\ base' = second BY DEF ReadAgain
<1>2. excused' = (excused \/ MinuteOf(second) # MinuteOf(curTime))
      BY Zenon DEF ReadAgain
<1>3. /\ UNCHANGED <<second, left, lastCheckMinute, curTime, total, nth, copy>>
      /\ UNCHANGED <<countdown, sets, requests, delay, turn, jumped, accepted, lost, fired>>
      BY DEF ReadAgain, checkBounds
<1> QED BY <1>1, <1>2, <1>3

-----------------------------------------------------------------------------
LEMMA CheckTypesKept ==
  ASSUME CheckTypes, Checking, [CheckNext]_checkVars
  PROVE  CheckTypes'
<1>0. /\ MINUTE \in Nat /\ LATE \in Nat /\ NOT_NTP \in Nat \ {0} /\ Delays \subseteq Nat
      /\ LIMIT \in Nat \ {0} /\ HOUR \in Nat \ {0} /\ LATE > MINUTE
      /\ MaxSets \in Nat /\ MaxRequests \in Nat
      BY CheckConstants
<1>a. delay \in Nat /\ left \in Int /\ second \in Nat /\ delay \in Delays
      BY <1>0 DEF CheckTypes, SecondsTyped
<1>b. ASSUME GoesOn \/ IsOver, total' = total
      PROVE  /\ left' \in -delay .. LATE + NOT_NTP
             /\ stage' \in {"idle", "read", "check", "remove"}
             /\ lastCheckMinute' \in {NoCheck} \cup 0 .. HOUR - 1
             /\ nth' \in 0 .. total'
  <2>1. CASE GoesOn BY <1>0, <1>b, <2>1 DEF GoesOn, CheckTypes, SecondsTyped, PlaceTyped
  <2>2. CASE IsOver
    <3>1. curTime \in Int BY DEF CheckTypes, SecondsTyped
    <3>2. curTime % MINUTE \in 0 .. MINUTE - 1 /\ MinuteOf(curTime) \in Int BY <3>1, MinuteIs
    <3>3. left' \in 0 .. LATE BY <1>0, <2>2, <3>2 DEF IsOver
    <3>4. lastCheckMinute' \in 0 .. HOUR - 1 BY <2>2, <3>2, ClockIs DEF IsOver
    <3>5. left' \in -delay .. LATE + NOT_NTP BY <1>0, <1>a, <3>3
    <3> QED BY <1>b, <2>2, <3>4, <3>5 DEF IsOver, CheckTypes, PlaceTyped
  <2> QED BY <1>b, <2>1, <2>2
<1>1. CASE NoTimeYet
  <2>1. left' \in -delay .. LATE + NOT_NTP BY <1>0, <1>a, <1>1, NoTimeIs
  <2>2. SecondsTyped' BY <1>1, <2>1, NoTimeIs DEF CheckTypes, SecondsTyped
  <2>3. PlaceTyped' BY <1>1, NoTimeIs DEF CheckTypes, PlaceTyped
  <2>4. NotesTyped' BY <1>1, NoTimeIs DEF CheckTypes, NotesTyped
  <2>5. CountdownsTyped' BY <1>1, NoTimeIs DEF CheckTypes, CountdownsTyped
  <2> QED BY <2>2, <2>3, <2>4, <2>5 DEF CheckTypes
<1>2. CASE MinuteCheckProtect
  <2>1. /\ curTime' = second /\ base' = second /\ nth' = 1 /\ total' \in 1 .. LIMIT
        /\ stage' = IF total' > 1 THEN "read" ELSE "check"
        /\ ~jumped'
        /\ excused' = (excused \/ MinuteOf(second) > turn + LIMIT \/ MinuteOf(curTime) # turn)
        BY <1>2, StartCheckIs
  <2>2. /\ UNCHANGED <<second, left, lastCheckMinute, countdown, copy, turn, accepted>>
        /\ UNCHANGED <<lost, fired, sets, requests, delay>>
        BY <1>2, StartCheckIs
  <2>3. excused' \in BOOLEAN BY <2>1, Zenon
  <2>4. jumped' \in BOOLEAN BY <1>2 DEF MinuteCheckProtect
  <2>5. SecondsTyped' BY <2>1, <2>2, <1>a DEF CheckTypes, SecondsTyped
  <2>6. PlaceTyped' BY <1>0, <2>1, <2>2 DEF CheckTypes, PlaceTyped
  <2>7. NotesTyped' BY <2>2, <2>3, <2>4 DEF CheckTypes, NotesTyped
  <2>8. CountdownsTyped' BY <2>2 DEF CheckTypes, CountdownsTyped
  <2> QED BY <2>5, <2>6, <2>7, <2>8 DEF CheckTypes
<1>3. CASE ReadAgain
  <2>1. excused' \in BOOLEAN BY <1>3, ReadAgainIs, Zenon
  <2>2. SecondsTyped' BY <1>3, <1>a, ReadAgainIs DEF CheckTypes, SecondsTyped
  <2>3. PlaceTyped' BY <1>3, ReadAgainIs DEF CheckTypes, PlaceTyped
  <2>4. NotesTyped' BY <1>3, <2>1, ReadAgainIs DEF CheckTypes, NotesTyped
  <2>5. CountdownsTyped' BY <1>3, ReadAgainIs DEF CheckTypes, CountdownsTyped
  <2> QED BY <2>2, <2>3, <2>4, <2>5 DEF CheckTypes
<1>4. CASE CheckSteps
  <2>1. Kept /\ UNCHANGED <<countdown, accepted>> /\ turn' = Checked /\ excused' = jumped
        BY <1>4, CheckStepIs
  <2>2. GoesOn \/ IsOver \/ Stays BY <1>4, CheckStepIs
  <2>3. copy' = copy \/ copy' = countdown BY <1>4, CheckStepIs
  <2>4. lost' = lost \/ lost' = lost \cup {accepted} BY <1>4, CheckStepIs
  <2>5. fired' = fired \/ fired' = IF accepted = "no" THEN 0 ELSE second - countdown.count
        BY <1>4, CheckStepIs
  <2>6. turn' \in Int
    <3>1. base \in Int /\ total \in Int /\ nth \in Int
          BY <1>0 DEF CheckTypes, SecondsTyped, PlaceTyped
    <3>2. MinuteOf(base) \in Int BY <3>1, MinuteIs
    <3> QED BY <2>1, <3>1, <3>2, CheckedIs
  <2>7. countdown.count \in Int BY DEF CheckTypes, CountdownsTyped
  <2>8. fired' \in Int BY <2>5, <2>7, <1>a DEF CheckTypes, SecondsTyped
  <2>9. total' = total /\ delay' = delay BY <2>1 DEF Kept
  <2>10. left' \in -delay .. LATE + NOT_NTP
    <3>1. CASE Stays BY <3>1 DEF Stays, CheckTypes, SecondsTyped
    <3> QED BY <1>b, <2>2, <2>9, <3>1
  <2>11. SecondsTyped' BY <2>1, <2>6, <2>8, <2>10 DEF CheckTypes, SecondsTyped, Kept
  <2>12. PlaceTyped'
    <3>1. CASE Stays BY <2>1, <3>1 DEF CheckTypes, PlaceTyped, Stays, Kept
    <3>2. CASE GoesOn \/ IsOver BY <1>b, <2>1, <2>9, <3>2 DEF CheckTypes, PlaceTyped, Kept
    <3> QED BY <2>2, <3>1, <3>2
  <2>13. NotesTyped' BY <2>1, <2>4 DEF CheckTypes, NotesTyped, Kept
  <2>14. CountdownsTyped' BY <2>1, <2>3 DEF CheckTypes, CountdownsTyped
  <2> QED BY <2>11, <2>12, <2>13, <2>14 DEF CheckTypes
<1>5. CASE InactiveCountdown
  <2>1. /\ Kept /\ (GoesOn \/ IsOver)
        /\ countdown' = [copy EXCEPT !.active = FALSE] /\ copy' = Off /\ accepted' = "no"
        /\ UNCHANGED <<turn, excused, lost, fired>>
        BY <1>5, InactiveIs
  <2>2. total' = total /\ delay' = delay BY <2>1 DEF Kept
  <2>3. SecondsTyped' BY <1>b, <2>1, <2>2 DEF CheckTypes, SecondsTyped, Kept
  <2>4. PlaceTyped' BY <1>b, <2>1, <2>2 DEF CheckTypes, PlaceTyped, Kept
  <2>5. NotesTyped' BY <2>1 DEF CheckTypes, NotesTyped, Kept
  <2>6. CountdownsTyped' BY <2>1 DEF CheckTypes, CountdownsTyped, Off
  <2> QED BY <2>3, <2>4, <2>5, <2>6 DEF CheckTypes
<1>6. CASE SetCountDownData
  <2>1. /\ UNCHANGED <<second, left, lastCheckMinute, stage, curTime, base, total, nth, copy>>
        /\ UNCHANGED <<sets, delay, turn, excused, jumped, lost, fired>>
        /\ requests' = requests + 1 /\ requests < MaxRequests
        BY <1>6, SetIs
  <2>2. PICK n \in Nat : /\ countdown' = [active |-> TRUE, count |-> n]
                         /\ accepted' \in {"no", "ahead", "checked"}
        BY <1>6, SetIs
  <2>3. SecondsTyped' BY <2>1, <1>a DEF CheckTypes, SecondsTyped
  <2>4. PlaceTyped' BY <1>0, <2>1 DEF CheckTypes, PlaceTyped
  <2>5. NotesTyped' BY <2>1, <2>2 DEF CheckTypes, NotesTyped
  <2>6. CountdownsTyped' BY <2>1, <2>2 DEF CheckTypes, CountdownsTyped
  <2> QED BY <2>3, <2>4, <2>5, <2>6 DEF CheckTypes
<1>7. CASE DeleteCountDownData
  <2>1. /\ UNCHANGED <<second, left, lastCheckMinute, stage, curTime, base, total, nth, copy>>
        /\ UNCHANGED <<sets, delay, turn, excused, jumped, lost, fired>>
        /\ requests' = requests + 1 /\ requests < MaxRequests
        /\ countdown' = Off /\ accepted' = "no"
        BY <1>7, DeleteIs
  <2>3. SecondsTyped' BY <2>1, <1>a DEF CheckTypes, SecondsTyped
  <2>4. PlaceTyped' BY <1>0, <2>1 DEF CheckTypes, PlaceTyped
  <2>5. NotesTyped' BY <2>1 DEF CheckTypes, NotesTyped
  <2>6. CountdownsTyped' BY <2>1 DEF CheckTypes, CountdownsTyped, Off
  <2> QED BY <2>3, <2>4, <2>5, <2>6 DEF CheckTypes
<1>8. CASE SecondPasses
  <2>1. left' \in -delay .. LATE + NOT_NTP /\ second' \in Nat
    <3>1. left \in -delay .. LATE + NOT_NTP BY DEF CheckTypes, SecondsTyped
    <3>2. left > -delay /\ second' = second + 1 /\ left' = left - 1 BY <1>8, TickIs
    <3> QED BY <1>0, <1>a, <3>1, <3>2
  <2>2. SecondsTyped' BY <1>8, <2>1, TickIs DEF CheckTypes, SecondsTyped
  <2>3. PlaceTyped' BY <1>8, TickIs DEF CheckTypes, PlaceTyped
  <2>4. NotesTyped' BY <1>8, TickIs DEF CheckTypes, NotesTyped
  <2>5. CountdownsTyped' BY <1>8, TickIs DEF CheckTypes, CountdownsTyped
  <2> QED BY <2>2, <2>3, <2>4, <2>5 DEF CheckTypes
<1>9. CASE SetClock
  <2>1. SecondsTyped' BY <1>9, <1>a, SetClockIs DEF CheckTypes, SecondsTyped
  <2>2. PlaceTyped' BY <1>0, <1>9, SetClockIs DEF CheckTypes, PlaceTyped
  <2>3. NotesTyped' BY <1>9, SetClockIs DEF CheckTypes, NotesTyped
  <2>4. CountdownsTyped' BY <1>9, SetClockIs DEF CheckTypes, CountdownsTyped
  <2> QED BY <2>1, <2>2, <2>3, <2>4 DEF CheckTypes
<1>10. CASE UNCHANGED checkVars
  BY <1>10, StutterIs DEF CheckTypes, SecondsTyped, PlaceTyped, NotesTyped, CountdownsTyped
<1> QED BY CheckAction, <1>1, <1>2, <1>3, <1>4, <1>5, <1>6, <1>7, <1>8, <1>9, <1>10

LEMMA CheckingKept ==
  ASSUME CheckTypes, Checking, [CheckNext]_checkVars
  PROVE  Checking'
<1>0. nth \in Int /\ total \in Int BY CheckConstants DEF CheckTypes, PlaceTyped
<1>1. CASE NoTimeYet BY <1>1, NoTimeIs DEF Checking
<1>2. CASE MinuteCheckProtect
  <2>1. /\ second > YEAR_2015 /\ curTime' = second /\ nth' = 1 /\ total' \in 1 .. LIMIT
        BY <1>2, StartCheckIs
  <2>2. nth' \in 1 .. total' BY <2>1, CheckConstants
  <2> QED BY <2>1, <2>2 DEF Checking
<1>3. CASE ReadAgain BY <1>3, ReadAgainIs DEF Checking
<1>4. CASE CheckSteps
  <2>1. stage = "check" /\ Kept /\ (GoesOn \/ IsOver \/ Stays) BY <1>4, CheckStepIs
  <2> QED BY <1>0, <2>1 DEF Checking, Kept, GoesOn, IsOver, Stays
<1>5. CASE InactiveCountdown
  <2>1. stage = "remove" /\ Kept /\ (GoesOn \/ IsOver) BY <1>5, InactiveIs
  <2> QED BY <1>0, <2>1 DEF Checking, Kept, GoesOn, IsOver
<1>6. CASE SetCountDownData BY <1>6, SetIs DEF Checking
<1>7. CASE DeleteCountDownData BY <1>7, DeleteIs DEF Checking
<1>8. CASE SecondPasses BY <1>8, TickIs DEF Checking
<1>9. CASE SetClock BY <1>9, SetClockIs DEF Checking
<1>10. CASE UNCHANGED checkVars BY <1>10, StutterIs DEF Checking
<1> QED BY CheckAction, <1>1, <1>2, <1>3, <1>4, <1>5, <1>6, <1>7, <1>8, <1>9, <1>10

LEMMA UnderWayKept ==
  ASSUME CheckTypes, Checking, UnderWay, [CheckNext]_checkVars
  PROVE  UnderWay'
<1>0. second \in Nat /\ left \in Int /\ curTime \in Nat /\ base \in Nat
  <2>1. delay \in Int /\ LATE + NOT_NTP \in Int
        BY CheckConstants DEF CheckTypes, SecondsTyped
  <2> QED BY <2>1 DEF CheckTypes, SecondsTyped
<1>1. CASE NoTimeYet BY <1>1, NoTimeIs DEF UnderWay
<1>2. CASE MinuteCheckProtect
  <2>1. left <= 0 /\ curTime' = second /\ base' = second /\ second' = second /\ left' = left
        BY <1>2, StartCheckIs
  <2> QED BY <1>0, <2>1 DEF UnderWay
<1>3. CASE ReadAgain
  <2>1. /\ stage = "read" /\ base' = second
        /\ UNCHANGED <<second, left, curTime, jumped>>
        BY <1>3, ReadAgainIs
  <2> QED BY <1>0, <2>1 DEF UnderWay
<1>4. CASE CheckSteps
  <2>1. stage = "check" /\ Kept /\ (GoesOn \/ IsOver \/ Stays) BY <1>4, CheckStepIs
  <2> QED BY <2>1 DEF UnderWay, Kept, GoesOn, IsOver, Stays
<1>5. CASE InactiveCountdown
  <2>1. stage = "remove" /\ Kept /\ (GoesOn \/ IsOver) BY <1>5, InactiveIs
  <2> QED BY <2>1 DEF UnderWay, Kept, GoesOn, IsOver
<1>6. CASE SetCountDownData BY <1>6, SetIs DEF UnderWay
<1>7. CASE DeleteCountDownData BY <1>7, DeleteIs DEF UnderWay
<1>8. CASE SecondPasses
  <2>1. second' = second + 1 /\ left' = left - 1 /\ UNCHANGED <<stage, curTime, base, jumped>>
        BY <1>8, TickIs
  <2> QED BY <1>0, <2>1 DEF UnderWay
<1>9. CASE SetClock BY <1>9, SetClockIs DEF UnderWay
<1>10. CASE UNCHANGED checkVars BY <1>10, StutterIs DEF UnderWay
<1> QED BY CheckAction, <1>1, <1>2, <1>3, <1>4, <1>5, <1>6, <1>7, <1>8, <1>9, <1>10

(* When a check that nobody disturbed is over, the timer is set for the     *)
(* minute after it.                                                         *)
LEMMA RestsThen ==
  ASSUME CheckTypes, stage # "idle", ~jumped, Checking, UnderWay, IsOver,
         UNCHANGED <<second, curTime, delay>>, turn' = MinuteOf(base)
  PROVE  Rested'
<1>1. PICK m \in Int, r \in 0 .. MINUTE - 1 :
        m = MinuteOf(curTime) /\ r = curTime % MINUTE /\ curTime = MINUTE * m + r
  <2>1. curTime \in Int BY DEF CheckTypes, SecondsTyped
  <2> QED BY <2>1, MinuteIs
<1>2. /\ second \in Nat /\ left \in Int /\ curTime \in Nat /\ base \in Nat /\ delay \in Nat
      /\ LATE \in Nat /\ MINUTE \in Nat \ {0} /\ left >= -delay
  <2>1. delay \in Nat /\ LATE + NOT_NTP \in Int
        BY CheckConstants DEF CheckTypes, SecondsTyped
  <2> QED BY <2>1, CheckConstants DEF CheckTypes, SecondsTyped
<1>3. curTime > YEAR_2015 /\ curTime <= base /\ base <= second /\ second + left <= curTime
      BY DEF Checking, UnderWay
<1>4. left' = LATE - r /\ lastCheckMinute' = MinuteField(m) BY <1>1 DEF IsOver
<1>5. second > YEAR_2015 BY <1>2, <1>3, CheckConstants
<1>6. m <= MinuteOf(base)
  <2>1. MINUTE * m <= base
    <3>1. MINUTE * m \in Int BY <1>1, <1>2
    <3> QED BY <1>1, <1>2, <1>3, <3>1
  <2> QED BY <1>1, <1>2, <2>1, InMinute
<1>7. MinuteOf(curTime)' = m BY <1>1 DEF MinuteOf
<1>8. /\ MINUTE * m + LATE <= second + left'
      /\ second + left' <= MINUTE * m + LATE + delay
  <2>1. PICK p \in Int : p = MINUTE * m BY <1>1, <1>2
  <2>a. r \in Int BY <1>2
  <2>b. curTime = p + r BY <1>1, <2>1
  <2>2. curTime = p + r /\ r \in Int BY <2>a, <2>b
  <2>3. curTime <= second /\ second <= curTime + delay BY <1>2, <1>3
  <2>4. p + LATE <= second + left' /\ second + left' <= p + LATE + delay
        BY <1>2, <1>4, <2>1, <2>2, <2>3
  <2> QED BY <2>1, <2>4
<1>9. /\ second' > YEAR_2015 /\ m <= turn'
      /\ MINUTE * m + LATE <= second' + left' /\ second' + left' <= MINUTE * m + LATE + delay'
      BY <1>5, <1>6, <1>8
<1>10. (MinuteField(MinuteOf(curTime)))' = MinuteField(m) BY <1>7 DEF MinuteField
<1> QED BY <1>4, <1>7, <1>9, <1>10 DEF Rested

(* Between two checks the timer does not fire before the next minute.       *)
LEMMA NextMinuteIs ==
  ASSUME CheckTypes, Rested, left <= 0
  PROVE  MinuteOf(second) > MinuteOf(curTime)
<1>1. PICK m \in Int : m = MinuteOf(curTime)
  <2>1. curTime \in Int BY DEF CheckTypes, SecondsTyped
  <2> QED BY <2>1, MinuteIs
<1>2. second \in Nat /\ left \in Int /\ LATE \in Nat /\ MINUTE \in Nat \ {0} /\ LATE > MINUTE
  <2>1. delay \in Nat /\ LATE + NOT_NTP \in Int
        BY CheckConstants DEF CheckTypes, SecondsTyped
  <2> QED BY <2>1, CheckConstants DEF CheckTypes, SecondsTyped
<1>3. MINUTE * m + LATE <= second + left BY <1>1 DEF Rested
<1>4. MINUTE * (m + 1) = MINUTE * m + MINUTE /\ MINUTE * m \in Int BY <1>1, <1>2
<1>5. MINUTE * (m + 1) <= second BY <1>2, <1>3, <1>4
<1>6. m + 1 <= MinuteOf(second) /\ MinuteOf(second) \in Int
      BY <1>1, <1>2, <1>5, InMinute, MinuteIs
<1> QED BY <1>1, <1>6

LEMMA TurnsKept ==
  ASSUME CheckTypes, Checking, UnderWay, Turns, [CheckNext]_checkVars
  PROVE  Turns'
<1>0. /\ nth \in Int /\ total \in Int /\ turn \in Int /\ second \in Int /\ curTime \in Int
      /\ base \in Int /\ left \in Int /\ delay \in Int /\ LIMIT \in Nat \ {0}
  <2>1. delay \in Nat /\ LATE + NOT_NTP \in Int
        BY CheckConstants DEF CheckTypes, SecondsTyped
  <2> QED BY <2>1, CheckConstants DEF CheckTypes, SecondsTyped, PlaceTyped
<1>m. MinuteOf(base) \in Int /\ MinuteOf(curTime) \in Int /\ MinuteOf(second) \in Int
      BY <1>0, MinuteIs
<1>a. ASSUME UNCHANGED <<second, left, lastCheckMinute, stage, curTime, base, total, nth>>,
             UNCHANGED <<delay, turn, excused, jumped>>
      PROVE  Turns'
      BY <1>a DEF Turns, Rested, MinuteOf, MinuteField
<1>1. CASE NoTimeYet
  <2>1. /\ stage = "idle" /\ second <= YEAR_2015
        /\ UNCHANGED <<second, lastCheckMinute, stage, curTime, base, total, nth, excused>>
        BY <1>1, NoTimeIs
  <2>2. excused BY <1>0, <2>1, CheckConstants DEF Turns, Rested
  <2> QED BY <2>1, <2>2 DEF Turns
<1>2. CASE MinuteCheckProtect
  <2>1. /\ stage = "idle" /\ left <= 0 /\ second > YEAR_2015
        /\ curTime' = second /\ base' = second /\ nth' = 1 /\ total' \in 1 .. LIMIT
        /\ stage' = IF total' > 1 THEN "read" ELSE "check"
        /\ ~jumped' /\ turn' = turn
        BY <1>2, StartCheckIs
  <2>2. excused' = (excused \/ MinuteOf(second) > turn + LIMIT \/ MinuteOf(curTime) # turn)
        BY <1>2, StartCheckIs
  <2>3. PICK n : /\ n = Elapsed(MinuteOf(second))
                 /\ total' = IF n > LIMIT \/ n <= 1 THEN 1 ELSE n
        BY <1>2, StartCheckIs
  <2>4. ASSUME ~excused' PROVE turn + total' = MinuteOf(second)
    <3>1. ~excused /\ ~(MinuteOf(second) > turn + LIMIT) /\ MinuteOf(curTime) = turn
          BY <2>2, <2>4, Zenon
    <3>2. Rested BY <2>1, <3>1 DEF Turns
    <3>3. MinuteOf(second) > turn BY <2>1, <3>1, <3>2, NextMinuteIs
    <3>4. lastCheckMinute = MinuteField(turn) BY <3>1, <3>2 DEF Rested
    <3>5. turn < MinuteOf(second) /\ MinuteOf(second) <= turn + LIMIT
          BY <1>0, <1>m, <3>1, <3>3
    <3>6. n = MinuteOf(second) - turn BY <1>0, <1>m, <2>3, <3>4, <3>5, ElapsedIs
    <3> QED BY <1>0, <1>m, <2>3, <3>5, <3>6
  <2>5. MinuteOf(curTime)' = MinuteOf(second) /\ MinuteOf(base)' = MinuteOf(second)
        BY <2>1 DEF MinuteOf
  <2>6. total' \in Int BY <2>1
  <2>7. CASE total' > 1 BY <2>1, <2>4, <2>5, <2>7 DEF Turns
  <2>8. CASE ~(total' > 1)
    <3>1. total' = 1 BY <1>0, <2>1, <2>8
    <3>2. ~excused' => turn + 1 = MinuteOf(second) - (1 - 1) BY <1>0, <1>m, <2>4, <3>1
    <3> QED BY <2>1, <2>5, <2>8, <3>1, <3>2 DEF Turns
  <2> QED BY <2>7, <2>8
<1>3. CASE ReadAgain
  <2>1. /\ stage = "read" /\ stage' = "check" /\ base' = second
        /\ UNCHANGED <<curTime, total, nth, turn, jumped>>
        BY <1>3, ReadAgainIs
  <2>2. excused' = (excused \/ MinuteOf(second) # MinuteOf(curTime)) BY <1>3, ReadAgainIs
  <2>3. nth = 1 BY <2>1 DEF Checking
  <2>4. MinuteOf(base)' = MinuteOf(second) BY <2>1 DEF MinuteOf
  <2>5. ASSUME ~excused' PROVE ~jumped /\ turn + 1 = MinuteOf(second) - (total - nth)
    <3>1. ~excused /\ MinuteOf(second) = MinuteOf(curTime) BY <2>2, <2>5, Zenon
    <3>2. ~jumped /\ turn + total = MinuteOf(second) BY <2>1, <3>1 DEF Turns
    <3> QED BY <1>0, <1>m, <2>3, <3>2
  <2> QED BY <2>1, <2>4, <2>5 DEF Turns
<1>b. ASSUME GoesOn \/ IsOver, Kept, turn' = MinuteOf(base) - (total - nth), stage # "idle",
             ~excused' => ~jumped
      PROVE  Turns'
  <2>1. MinuteOf(base)' = MinuteOf(base) BY <1>b DEF Kept, MinuteOf
  <2>2. total' = total /\ jumped' = jumped /\ UNCHANGED <<second, curTime, delay>>
        BY <1>b DEF Kept
  <2>3. CASE GoesOn
    <3>1. nth' = nth + 1 /\ stage' = "check" BY <2>3 DEF GoesOn
    <3>2. turn' + 1 = MinuteOf(base) - (total - (nth + 1)) BY <1>0, <1>m, <1>b
    <3> QED BY <1>b, <2>1, <2>2, <3>1, <3>2 DEF Turns
  <2>4. CASE IsOver
    <3>1. nth = total /\ stage' = "idle" BY <2>4 DEF IsOver
    <3>2. turn' = MinuteOf(base) BY <1>0, <1>m, <1>b, <3>1
    <3>3. ~excused' => Rested' BY <1>b, <2>2, <2>4, <3>2, RestsThen
    <3> QED BY <3>1, <3>3 DEF Turns
  <2> QED BY <1>b, <2>3, <2>4
<1>4. CASE CheckSteps
  <2>1. /\ stage = "check" /\ Kept /\ turn' = MinuteOf(base) - (total - nth)
        /\ excused' = jumped /\ (GoesOn \/ IsOver \/ Stays)
        BY <1>4, CheckStepIs, CheckedIs
  <2>2. ~excused' => ~jumped BY <2>1
  <2>3. CASE GoesOn \/ IsOver BY <1>b, <2>1, <2>2, <2>3
  <2>4. CASE Stays
    <3>1. stage' = "remove" /\ nth' = nth BY <2>4 DEF Stays
    <3>2. MinuteOf(base)' = MinuteOf(base) /\ total' = total /\ jumped' = jumped
          BY <2>1 DEF Kept, MinuteOf
    <3> QED BY <2>1, <2>2, <3>1, <3>2 DEF Turns
  <2> QED BY <2>1, <2>3, <2>4
<1>5. CASE InactiveCountdown
  <2>1. stage = "remove" /\ Kept /\ (GoesOn \/ IsOver) /\ turn' = turn /\ excused' = excused
        BY <1>5, InactiveIs
  <2>2. turn = MinuteOf(base) - (total - nth) /\ (~excused => ~jumped) BY <2>1 DEF Turns
  <2> QED BY <1>b, <2>1, <2>2
<1>6. CASE SetCountDownData BY <1>6, <1>a, SetIs
<1>7. CASE DeleteCountDownData BY <1>7, <1>a, DeleteIs
<1>8. CASE SecondPasses
  <2>1. /\ second' = second + 1 /\ left' = left - 1
        /\ UNCHANGED <<lastCheckMinute, stage, curTime, base, total, nth>>
        /\ UNCHANGED <<delay, turn, excused, jumped>>
        BY <1>8, TickIs
  <2>2. second' + left' = second + left BY <1>0, <2>1
  <2>3. /\ MinuteOf(base)' = MinuteOf(base) /\ MinuteOf(curTime)' = MinuteOf(curTime)
        /\ (MinuteField(MinuteOf(curTime)))' = MinuteField(MinuteOf(curTime))
        BY <2>1 DEF MinuteOf, MinuteField
  <2>4. second > YEAR_2015 => second' > YEAR_2015 BY <1>0, <2>1, CheckConstants
  <2>5. Rested => Rested' BY <2>1, <2>2, <2>3, <2>4 DEF Rested
  <2> QED BY <2>1, <2>3, <2>5 DEF Turns
<1>9. CASE SetClock
  <2>1. /\ UNCHANGED <<stage, base, total, nth, turn>> /\ excused'
        BY <1>9, SetClockIs
  <2>2. MinuteOf(base)' = MinuteOf(base) BY <2>1 DEF MinuteOf
  <2> QED BY <2>1, <2>2 DEF Turns
<1>10. CASE UNCHANGED checkVars BY <1>10, <1>a, StutterIs
<1> QED BY CheckAction, <1>1, <1>2, <1>3, <1>4, <1>5, <1>6, <1>7, <1>8, <1>9, <1>10

LEMMA UnmovedKept ==
  ASSUME CheckTypes, Checking, Unmoved, [CheckNext]_checkVars
  PROVE  Unmoved'
<1>1. CASE NoTimeYet BY <1>1, NoTimeIs DEF Unmoved
<1>2. CASE MinuteCheckProtect
  <2>1. ~jumped' /\ stage' # "idle" BY <1>2, StartCheckIs
  <2> QED BY <2>1 DEF Unmoved
<1>3. CASE ReadAgain BY <1>3, ReadAgainIs DEF Unmoved
<1>4. CASE CheckSteps
  <2>1. /\ stage = "check" /\ Kept /\ accepted' = accepted /\ excused' = jumped
        BY <1>4, CheckStepIs
  <2> QED BY <2>1 DEF Unmoved, Kept
<1>5. CASE InactiveCountdown BY <1>5, InactiveIs DEF Unmoved
<1>6. CASE SetCountDownData
  <2>1. UNCHANGED <<stage, excused, jumped>> BY <1>6, SetIs
  <2>2. accepted' # "no" => ~excused /\ stage = "idle" BY <1>6, SetIs
  <2> QED BY <2>1, <2>2 DEF Unmoved
<1>7. CASE DeleteCountDownData BY <1>7, DeleteIs DEF Unmoved
<1>8. CASE SecondPasses BY <1>8, TickIs DEF Unmoved
<1>9. CASE SetClock BY <1>9, SetClockIs DEF Unmoved
<1>10. CASE UNCHANGED checkVars BY <1>10, StutterIs DEF Unmoved
<1> QED BY CheckAction, <1>1, <1>2, <1>3, <1>4, <1>5, <1>6, <1>7, <1>8, <1>9, <1>10

(* What a countdown that ends in a later minute than the last check's can   *)
(* rely on.                                                                 *)
LEMMA PromiseThen ==
  ASSUME NEW t \in Int, NEW d \in Int, NEW m \in Int, NEW n \in Int,
         m < n, t <= MINUTE * m + LATE + d
  PROVE  t + d <= MINUTE * n + ((LATE - MINUTE) + 2 * d)
<1>1. LATE \in Int /\ MINUTE \in Nat \ {0} BY CheckConstants
<1>2. PICK p \in Int, q \in Int : p = MINUTE * m /\ q = MINUTE * n BY <1>1
<1>3. p + MINUTE <= q
  <2>1. MINUTE * (m + 1) <= MINUTE * n BY <1>1
  <2>2. MINUTE * (m + 1) = MINUTE * m + MINUTE BY <1>1
  <2> QED BY <1>1, <1>2, <2>1, <2>2
<1>4. t <= p + LATE + d BY <1>2
<1>5. t + d <= q + ((LATE - MINUTE) + 2 * d) BY <1>1, <1>3, <1>4
<1> QED BY <1>2, <1>5

(* In time, the timer fires in the minute after that of the last check.     *)
LEMMA OnTimeIs ==
  ASSUME CheckTypes, OnTime, Rested, left <= 0
  PROVE  MinuteOf(second) = MinuteOf(curTime) + 1
<1>1. PICK m \in Int : m = MinuteOf(curTime)
  <2>1. curTime \in Int BY DEF CheckTypes, SecondsTyped
  <2> QED BY <2>1, MinuteIs
<1>2. /\ second \in Nat /\ left \in Int /\ LATE \in Nat /\ MINUTE \in Nat \ {0}
      /\ delay \in Nat /\ left >= -delay
  <2>1. delay \in Nat /\ LATE + NOT_NTP \in Int
        BY CheckConstants DEF CheckTypes, SecondsTyped
  <2> QED BY <2>1, CheckConstants DEF CheckTypes, SecondsTyped
<1>3. MinuteOf(second) \in Int /\ MinuteOf(second) >= m + 1
  <2>1. MinuteOf(second) \in Int BY <1>2, MinuteIs
  <2> QED BY <1>1, <2>1, NextMinuteIs
<1>4. second + left <= MINUTE * m + LATE + delay BY <1>1 DEF Rested
<1>5. (LATE - MINUTE) + 2 * delay < MINUTE BY DEF OnTime, Latest
<1>6. PICK p \in Int : p = MINUTE * m BY <1>1, <1>2
<1>7. MINUTE * (m + 1) = p + MINUTE BY <1>1, <1>2, <1>6
<1>8. second < p + MINUTE + MINUTE BY <1>2, <1>4, <1>5, <1>6
<1>9. second < MINUTE * (m + 1) + MINUTE BY <1>7, <1>8
<1>10. MinuteOf(second) <= m + 1 BY <1>1, <1>2, <1>9, InMinute
<1> QED BY <1>1, <1>3, <1>10

LEMMA PromiseKept ==
  ASSUME CheckTypes, Checking, UnderWay, Turns, Unmoved, Promise,
         [CheckNext]_checkVars
  PROVE  Promise'
<1> SUFFICES ASSUME OnTime', accepted' = "ahead" PROVE Promised' BY DEF Promise
<1>0. /\ nth \in Int /\ total \in Int /\ turn \in Int /\ second \in Int /\ curTime \in Int
      /\ base \in Int /\ left \in Int /\ delay \in Int /\ LATE \in Int /\ MINUTE \in Int
  <2>1. delay \in Nat /\ LATE + NOT_NTP \in Int
        BY CheckConstants DEF CheckTypes, SecondsTyped
  <2> QED BY <2>1, CheckConstants DEF CheckTypes, SecondsTyped, PlaceTyped
<1>c. countdown.count \in Int BY DEF CheckTypes, CountdownsTyped
<1>m. /\ MinuteOf(base) \in Int /\ MinuteOf(curTime) \in Int /\ MinuteOf(second) \in Int
      /\ MinuteOf(countdown.count) \in Int
      BY <1>0, <1>c, MinuteIs
<1>a. delay' = delay => OnTime /\ (Latest)' = Latest
      BY DEF OnTime, Latest
<1>b. ASSUME delay' = delay, accepted' = accepted PROVE Promised
      BY <1>a, <1>b DEF Promise
<1>d. countdown' = countdown => MinuteOf(countdown.count)' = MinuteOf(countdown.count)
      BY DEF MinuteOf
<1>e. curTime' = curTime => MinuteOf(curTime)' = MinuteOf(curTime)
      BY DEF MinuteOf
<1>1. CASE NoTimeYet
  <2>1. /\ stage = "idle" /\ second <= YEAR_2015 /\ accepted' = accepted
        BY <1>1, NoTimeIs
  <2>2. ~excused BY <2>1 DEF Unmoved
  <2>3. second > YEAR_2015 BY <2>1, <2>2 DEF Turns, Rested
  <2> QED BY <1>0, <2>1, <2>3, CheckConstants
<1>2. CASE MinuteCheckProtect
  <2>1. /\ stage = "idle" /\ left <= 0
        /\ curTime' = second /\ base' = second
        /\ stage' = IF total' > 1 THEN "read" ELSE "check"
        /\ UNCHANGED <<second, left, lastCheckMinute, countdown, turn, accepted, delay>>
        BY <1>2, StartCheckIs
  <2>2. PICK n : /\ n = Elapsed(MinuteOf(second))
                 /\ total' = IF n > LIMIT \/ n <= 1 THEN 1 ELSE n
        BY <1>2, StartCheckIs
  <2>3. Promised /\ OnTime BY <1>a, <1>b, <2>1
  <2>4. ~excused BY <2>1 DEF Unmoved
  <2>5. Rested BY <2>1, <2>4 DEF Turns
  <2>6. MinuteOf(second) = MinuteOf(curTime) + 1 BY <2>1, <2>3, <2>5, OnTimeIs
  <2>7. MinuteOf(curTime) <= turn /\ lastCheckMinute = MinuteField(MinuteOf(curTime))
        BY <2>5 DEF Rested
  <2>8. n = 1
    <3>1. MinuteOf(curTime) < MinuteOf(second) /\ MinuteOf(second) <= MinuteOf(curTime) + LIMIT
          BY <1>m, <2>6, CheckConstants
    <3>2. n = MinuteOf(second) - MinuteOf(curTime) BY <1>m, <2>2, <2>7, <3>1, ElapsedIs
    <3> QED BY <1>m, <2>6, <3>2
  <2>9. total' = 1 /\ stage' = "check" BY <2>1, <2>2, <2>8
  <2>10. MinuteOf(second) <= MinuteOf(countdown.count)
    <3>1. turn < MinuteOf(countdown.count) BY <2>1, <2>3 DEF Promised
    <3> QED BY <1>0, <1>m, <2>6, <2>7, <3>1
  <2>11. MinuteOf(curTime)' = MinuteOf(second) BY <2>1 DEF MinuteOf
  <2> QED BY <1>a, <1>d, <2>1, <2>3, <2>9, <2>10, <2>11 DEF Promised
<1>3. CASE ReadAgain
  <2>1. stage = "read" /\ delay' = delay /\ accepted' = accepted BY <1>3, ReadAgainIs
  <2> QED BY <1>b, <2>1 DEF Promised
<1>4. CASE CheckSteps
  <2>1. /\ stage = "check" /\ Kept /\ UNCHANGED <<countdown, accepted>>
        /\ turn' = MinuteOf(base) - (total - nth) /\ excused' = jumped
        /\ GoesOn \/ IsOver \/ Stays
        BY <1>4, CheckStepIs, CheckedIs
  <2>2. UNCHANGED <<second, curTime, base, total, jumped, delay>> BY <2>1 DEF Kept
  <2>3. Promised BY <1>b, <2>1, <2>2
  <2>4. total = 1 /\ base = curTime /\ MinuteOf(curTime) <= MinuteOf(countdown.count)
        BY <2>1, <2>3 DEF Promised
  <2>5. CASE Stays
    <3>1. stage' = "remove" /\ left' = left BY <2>5 DEF Stays
    <3> QED BY <1>a, <1>d, <2>1, <2>2, <2>3, <3>1 DEF Promised
  <2>6. nth = 1 BY <1>0, <2>1, <2>4 DEF Checking
  <2>7. CASE GoesOn
    <3>1. nth < total BY <2>7 DEF GoesOn
    <3> QED BY <2>4, <2>6, <3>1
  <2>8. CASE IsOver
    <3>1. stage' = "idle" BY <2>8 DEF IsOver
    <3>2. ~jumped BY <2>1 DEF Unmoved
    <3>3. turn' = MinuteOf(base) BY <1>m, <2>1, <2>4, <2>6
    <3>4. Rested' BY <2>1, <2>2, <2>8, <3>2, <3>3, RestsThen
    <3>5. MinuteOf(countdown.count) # Checked
      <4>1. stage' # "remove" BY <3>1
      <4>2. ~countdown.active \/ MinuteOf(countdown.count) # Checked
            BY <1>4, <4>1, CheckStepIs DEF Stays
      <4> QED BY <2>3, <4>2 DEF Promised
    <3>6. MinuteOf(countdown.count) # MinuteOf(base) BY <1>m, <2>1, <2>4, <2>6, <3>5, CheckedIs
    <3>7. turn' < MinuteOf(countdown.count) BY <1>m, <2>4, <3>3, <3>6
    <3>8. MinuteOf(curTime)' <= turn' /\ second' + left' <= (MINUTE * MinuteOf(curTime))' + LATE + delay'
          BY <3>4 DEF Rested
    <3>a. PICK m \in Int : m = MinuteOf(curTime) BY <1>m
    <3>9. PICK t \in Int : t = second + left'
      <4>1. LATE - (curTime % MINUTE) \in Int
        <5>1. curTime % MINUTE \in 0 .. MINUTE - 1 BY <1>0, MinuteIs
        <5> QED BY <1>0, <5>1
      <4>2. left' \in Int BY <2>8, <4>1 DEF IsOver
      <4>3. second \in Int BY <1>0
      <4>4. second + left' \in Int BY <4>2, <4>3
      <4> QED BY <4>4
    <3>10. m < MinuteOf(countdown.count) /\ t <= MINUTE * m + LATE + delay
      <4>1. MinuteOf(curTime)' = m BY <1>e, <2>2, <3>a
      <4>2. m <= MinuteOf(base) /\ t <= MINUTE * m + LATE + delay
        <5>1. (MINUTE * MinuteOf(curTime))' = MINUTE * m BY <4>1
        <5> QED BY <2>2, <3>3, <3>8, <3>9, <4>1, <5>1
      <4> QED BY <1>m, <3>3, <3>7, <3>a, <4>2
    <3>11. t + delay <= MINUTE * MinuteOf(countdown.count) + ((LATE - MINUTE) + 2 * delay)
           BY <1>0, <1>m, <3>a, <3>9, <3>10, PromiseThen
    <3>12. second' + left' + delay' <= MINUTE * MinuteOf(countdown.count) + Latest
           BY <2>2, <3>9, <3>11 DEF Latest
    <3> QED BY <1>a, <1>d, <2>1, <2>2, <2>3, <3>1, <3>7, <3>12 DEF Promised
  <2> QED BY <2>1, <2>5, <2>7, <2>8
<1>5. CASE InactiveCountdown BY <1>5, InactiveIs
<1>6. CASE SetCountDownData
  <2>1. UNCHANGED <<second, left, stage, curTime, base, total, turn, delay>> BY <1>6, SetIs
  <2>2. PICK n \in Nat : /\ countdown' = [active |-> TRUE, count |-> n]
                         /\ ~excused /\ stage = "idle" /\ MinuteOf(n) > turn
        BY <1>6, SetIs
  <2>3. Rested BY <2>2 DEF Turns
  <2>4. MinuteOf(n) \in Int BY <2>2, MinuteIs
  <2>5. /\ MinuteOf(curTime) < MinuteOf(n)
        /\ second + left <= MINUTE * MinuteOf(curTime) + LATE + delay
    <3>1. MinuteOf(curTime) <= turn BY <2>3 DEF Rested
    <3> QED BY <1>0, <1>m, <2>2, <2>3, <2>4, <3>1 DEF Rested
  <2>6. second + left \in Int BY <1>0
  <2>7. second + left + delay <= MINUTE * MinuteOf(n) + ((LATE - MINUTE) + 2 * delay)
        BY <1>0, <1>m, <2>4, <2>5, <2>6, PromiseThen
  <2>8. MinuteOf(countdown.count)' = MinuteOf(n) /\ countdown'.active
        BY <2>2 DEF MinuteOf
  <2>9. Latest = (LATE - MINUTE) + 2 * delay BY DEF Latest
  <2>10. turn < MinuteOf(n) BY <1>0, <2>2, <2>4
  <2> QED BY <1>a, <2>1, <2>2, <2>7, <2>8, <2>9, <2>10 DEF Promised
<1>7. CASE DeleteCountDownData BY <1>7, DeleteIs
<1>8. CASE SecondPasses
  <2>1. /\ second' = second + 1 /\ left' = left - 1
        /\ UNCHANGED <<stage, curTime, base, total, turn, delay, accepted, countdown>>
        BY <1>8, TickIs
  <2>2. second' + left' + delay' = second + left + delay BY <1>0, <2>1
  <2> QED BY <1>a, <1>b, <1>d, <1>e, <2>1, <2>2 DEF Promised
<1>9. CASE SetClock BY <1>9, SetClockIs
<1>10. CASE UNCHANGED checkVars
  <2>1. /\ UNCHANGED <<second, left, delay, accepted, countdown>>
        /\ UNCHANGED <<stage, curTime, base, total, turn>>
        BY <1>10, StutterIs
  <2> QED BY <1>a, <1>b, <1>d, <1>e, <2>1 DEF Promised
<1> QED BY CheckAction, <1>1, <1>2, <1>3, <1>4, <1>5, <1>6, <1>7, <1>8, <1>9, <1>10

LEMMA EndsKept ==
  ASSUME CheckTypes, Checking, UnderWay, Unmoved, Promise,
         NotLost, EndsNear, [CheckNext]_checkVars
  PROVE  NotLost' /\ EndsNear'
<1>0. /\ second \in Int /\ left \in Int /\ delay \in Int /\ MINUTE \in Nat \ {0}
      /\ base \in Nat /\ left >= -delay /\ total \in Int /\ nth \in Int /\ curTime \in Int
  <2>1. delay \in Nat /\ LATE + NOT_NTP \in Int
        BY CheckConstants DEF CheckTypes, SecondsTyped
  <2> QED BY <2>1, CheckConstants DEF CheckTypes, SecondsTyped, PlaceTyped
<1>c. countdown.count \in Int BY DEF CheckTypes, CountdownsTyped
<1>1. CASE UNCHANGED <<lost, fired, delay>>
  BY <1>1 DEF NotLost, EndsNear, OnTime, Latest
<1>2. CASE CheckSteps
  <2>1. stage = "check" /\ Kept BY <1>2, CheckStepIs
  <2>2. delay' = delay BY <2>1 DEF Kept
  <2>3. PICK n \in Int, p \in Int :
          /\ n = MinuteOf(countdown.count) /\ p = MINUTE * n
          /\ p <= countdown.count /\ countdown.count < p + MINUTE
    <3>1. PICK n \in Int, r \in 0 .. MINUTE - 1 :
            n = MinuteOf(countdown.count) /\ countdown.count = MINUTE * n + r
          BY <1>c, MinuteIs
    <3>2. PICK p \in Int : p = MINUTE * n BY <1>0, <3>1
    <3>3. countdown.count = p + r BY <3>1, <3>2
    <3>4. p <= countdown.count /\ countdown.count < p + MINUTE BY <1>0, <3>2, <3>3
    <3> QED BY <3>1, <3>2, <3>4
  <2>4. CASE UNCHANGED <<lost, fired>> BY <1>1, <2>2, <2>4
  <2>5. CASE Old /\ lost' = lost \cup {accepted} /\ fired' = fired
    <3>1. ASSUME OnTime, accepted = "ahead" PROVE FALSE
      <4>1. Promised BY <3>1 DEF Promise
      <4>2. second + left + delay <= p + Latest BY <2>3, <4>1 DEF Promised
      <4>3. Latest < MINUTE /\ Latest \in Int
        <5>1. LATE \in Int BY CheckConstants
        <5> QED BY <1>0, <3>1, <5>1 DEF OnTime, Latest
      <4>4. second - countdown.count < MINUTE BY <1>0, <1>c, <2>3, <4>2, <4>3
      <4>5. second - countdown.count > MINUTE BY <2>5 DEF Old
      <4> QED BY <1>0, <1>c, <4>4, <4>5
    <3>2. OnTime' => OnTime BY <2>2 DEF OnTime, Latest
    <3>3. NotLost'
      <4>1. OnTime => "ahead" \notin lost /\ accepted # "ahead" BY <3>1 DEF NotLost
      <4>2. OnTime' => "ahead" \notin lost' BY <2>5, <3>2, <4>1
      <4> QED BY <4>2 DEF NotLost
    <3> QED BY <2>5, <3>3 DEF EndsNear
  <2>6. CASE /\ ~Old /\ MinuteOf(countdown.count) = Checked /\ lost' = lost
             /\ fired' = IF accepted = "no" THEN 0 ELSE second - countdown.count
    <3>1. NotLost' BY <2>2, <2>6 DEF NotLost, OnTime, Latest
    <3>2. CASE accepted = "no"
      <4>1. fired' = 0 BY <2>6, <3>2
      <4> QED BY <1>0, <3>1, <4>1 DEF EndsNear
    <3>3. CASE accepted # "no"
      <4>1. fired' = second - countdown.count BY <2>6, <3>3
      <4>2. second - countdown.count <= MINUTE BY <1>0, <1>c, <2>6 DEF Old
      <4>3. ~jumped BY <2>1, <3>3 DEF Unmoved
      <4>4. base <= second /\ nth <= total BY <1>0, <2>1, <4>3 DEF UnderWay, Checking
      <4>5. PICK b \in Int, q \in Int : b = MinuteOf(base) /\ q = MINUTE * b /\ q <= base
        <5>a. base \in Int BY <1>0
        <5>1. PICK b \in Int, r \in 0 .. MINUTE - 1 : b = MinuteOf(base) /\ base = MINUTE * b + r
              BY <5>a, MinuteIs
        <5>2. PICK q \in Int : q = MINUTE * b BY <1>0, <5>1
        <5>3. base = q + r BY <5>1, <5>2
        <5>4. q <= base BY <1>0, <5>2, <5>3
        <5> QED BY <5>1, <5>2, <5>4
      <4>6. n <= b BY <1>0, <2>3, <2>6, <4>4, <4>5, CheckedIs
      <4>7. p <= q
        <5>1. MINUTE * n <= MINUTE * b BY <1>0, <2>3, <4>5, <4>6
        <5> QED BY <2>3, <4>5, <5>1
      <4>8. second - countdown.count > -MINUTE BY <1>0, <1>c, <2>3, <4>4, <4>5, <4>7
      <4> QED BY <3>1, <4>1, <4>2, <4>8 DEF EndsNear
    <3> QED BY <3>2, <3>3
  <2> QED BY <1>2, <2>4, <2>5, <2>6, CheckStepIs
<1>3. CASE NoTimeYet BY <1>1, <1>3, NoTimeIs
<1>4. CASE MinuteCheckProtect
  <2>1. UNCHANGED <<lost, fired, sets, requests, delay>> BY <1>4, StartCheckIs
  <2> QED BY <1>1, <2>1
<1>5. CASE ReadAgain BY <1>1, <1>5, ReadAgainIs
<1>6. CASE InactiveCountdown
  <2>1. Kept /\ UNCHANGED <<turn, excused, lost, fired>> BY <1>6, InactiveIs
  <2> QED BY <1>1, <2>1 DEF Kept
<1>7. CASE SetCountDownData
  <2>1. UNCHANGED <<sets, delay, turn, excused, jumped, lost, fired>> BY <1>7, SetIs
  <2> QED BY <1>1, <2>1
<1>8. CASE DeleteCountDownData BY <1>1, <1>8, DeleteIs
<1>9. CASE SecondPasses BY <1>1, <1>9, TickIs
<1>10. CASE SetClock
  <2>1. UNCHANGED <<countdown, requests, delay, turn, lost, fired>> BY <1>10, SetClockIs
  <2> QED BY <1>1, <2>1
<1>11. CASE UNCHANGED checkVars BY <1>1, <1>11, StutterIs
<1> QED BY CheckAction, <1>2, <1>3, <1>4, <1>5, <1>6, <1>7, <1>8, <1>9, <1>10, <1>11

-----------------------------------------------------------------------------
LEMMA CheckStarts ==
  ASSUME CheckInit
  PROVE  CheckIInv
<1>1. /\ second \in Starts /\ left = NOT_NTP /\ delay \in Delays
      /\ lastCheckMinute = NoCheck /\ stage = "idle"
      /\ curTime = 0 /\ base = 0 /\ total = 0 /\ nth = 0
      /\ countdown = Off /\ copy = Off /\ sets = 0 /\ requests = 0
      /\ turn = 0 /\ excused /\ excused \in BOOLEAN /\ jumped \in BOOLEAN
      /\ accepted = "no" /\ lost = {} /\ fired = 0
      BY DEF CheckInit
<1>2. /\ LATE \in Nat /\ NOT_NTP \in Nat \ {0} /\ Delays \subseteq Nat /\ Starts \subseteq Nat
      /\ LIMIT \in Nat /\ MaxSets \in Nat /\ MaxRequests \in Nat /\ MINUTE \in Nat \ {0}
      BY CheckConstants
<1>3. SecondsTyped BY <1>1, <1>2 DEF SecondsTyped
<1>4. PlaceTyped BY <1>1, <1>2 DEF PlaceTyped
<1>5. NotesTyped /\ CountdownsTyped BY <1>1 DEF NotesTyped, CountdownsTyped, Off
<1>6. Checking /\ UnderWay /\ Turns /\ Unmoved /\ Promise
      BY <1>1 DEF Checking, UnderWay, Turns, Unmoved, Promise
<1>7. NotLost /\ EndsNear BY <1>1, <1>2 DEF NotLost, EndsNear
<1> QED BY <1>3, <1>4, <1>5, <1>6, <1>7 DEF CheckIInv, CheckTypes

LEMMA CheckGoes ==
  ASSUME CheckIInv, [CheckNext]_checkVars
  PROVE  CheckIInv'
<1>1. /\ CheckTypes /\ Checking /\ UnderWay /\ Turns /\ Unmoved /\ Promise
      /\ NotLost /\ EndsNear
      BY DEF CheckIInv
<1>2. CheckTypes' /\ Checking' /\ UnderWay'
      BY <1>1, CheckTypesKept, CheckingKept, UnderWayKept
<1>3. Turns' /\ Unmoved' BY <1>1, TurnsKept, UnmovedKept
<1>4. Promise' BY <1>1, PromiseKept
<1>5. NotLost' /\ EndsNear' BY <1>1, EndsKept
<1> QED BY <1>2, <1>3, <1>4, <1>5 DEF CheckIInv

LEMMA CheckIs ==
  ASSUME CheckIInv
  PROVE  CountdownInv
<1>1. /\ CheckTypes /\ Checking /\ UnderWay /\ Turns /\ Unmoved /\ Promise
      /\ NotLost /\ EndsNear
      BY DEF CheckIInv
<1>0. /\ second \in Int /\ left \in Int /\ delay \in Int /\ MINUTE \in Nat \ {0}
      /\ curTime \in Int /\ turn \in Int /\ left >= -delay /\ LATE \in Int
  <2>1. delay \in Nat /\ LATE + NOT_NTP \in Int
        BY <1>1, CheckConstants DEF CheckTypes, SecondsTyped
  <2> QED BY <1>1, <2>1, CheckConstants DEF CheckTypes, SecondsTyped
<1>2. CheckTypeOK
      BY <1>1
         DEF CheckTypes, SecondsTyped, PlaceTyped, NotesTyped, CountdownsTyped, CheckTypeOK
<1>3. NoneForgotten
  <2> SUFFICES ASSUME stage = "idle", ~excused
               PROVE  MinuteOf(second - 1 - Latest) <= turn
      BY DEF NoneForgotten
  <2>1. Rested BY <1>1 DEF Turns
  <2>2. PICK m \in Int, p \in Int : m = MinuteOf(curTime) /\ p = MINUTE * m
    <3>1. PICK m \in Int : m = MinuteOf(curTime) BY <1>0, MinuteIs
    <3>2. PICK p \in Int : p = MINUTE * m BY <1>0, <3>1
    <3> QED BY <3>1, <3>2
  <2>3. m <= turn /\ second + left <= p + LATE + delay BY <2>1, <2>2 DEF Rested
  <2>4. PICK t \in Int : t = second - 1 - Latest /\ t = second - 1 - ((LATE - MINUTE) + 2 * delay)
        BY <1>0 DEF Latest
  <2>5. t < p + MINUTE BY <1>0, <2>3, <2>4
  <2>6. MinuteOf(t) <= m /\ MinuteOf(t) \in Int BY <2>2, <2>4, <2>5, InMinute, MinuteIs
  <2> QED BY <1>0, <2>3, <2>4, <2>6
<1>4. EndsInTime
  <2> SUFFICES ASSUME OnTime, accepted = "ahead"
               PROVE  second <= MINUTE * MinuteOf(countdown.count) + Latest
      BY DEF EndsInTime
  <2>1. second + left + delay <= MINUTE * MinuteOf(countdown.count) + Latest
        BY <1>1 DEF Promise, Promised
  <2>2. PICK p \in Int : p = MINUTE * MinuteOf(countdown.count)
    <3>1. countdown.count \in Int BY <1>1 DEF CheckTypes, CountdownsTyped
    <3>2. MinuteOf(countdown.count) \in Int BY <3>1, MinuteIs
    <3> QED BY <1>0, <3>2
  <2>3. Latest \in Int BY <1>0 DEF Latest
  <2> QED BY <1>0, <2>1, <2>2, <2>3
<1> QED BY <1>1, <1>2, <1>3, <1>4 DEF CountdownInv

(* For minutes and hours of any length, a timer that is late by anything,   *)
(* and any number of settings and requests: while nobody sets the clock no  *)
(* minute is forgotten, and when the timer's delays leave it within the     *)
(* minute a countdown that was set ahead of the check ends in time          *)
(* (lum_minuteCheckProtect, lum_checkTimerCallback, lum_compareCountdown).  *)
THEOREM CountdownCorrect == CheckSpec => []CountdownInv
<1>1. CheckInit => CheckIInv BY CheckStarts
<1>2. CheckIInv /\ [CheckNext]_checkVars => CheckIInv' BY CheckGoes
<1>3. CheckIInv => CountdownInv BY CheckIs
<1> QED BY <1>1, <1>2, <1>3, PTL DEF CheckSpec

(* While nobody sets the clock and the check does not read it in two        *)
(* different minutes, each minute is checked after the one before, and      *)
(* once: over the end of the hour, and when some were missed                *)
(* (lum_minuteCheckProtect).                                                *)
THEOREM MinutesInTurn == CheckSpec => InTurn
<1>1. CheckInit => CheckIInv BY CheckStarts
<1>2. CheckIInv /\ [CheckNext]_checkVars => CheckIInv' BY CheckGoes
<1>3. CheckIInv /\ [CheckNext]_checkVars => [CheckSteps /\ ~excused => turn' = turn + 1]_checkVars
  <2> SUFFICES ASSUME CheckIInv, CheckSteps, ~excused PROVE turn' = turn + 1 OBVIOUS
  <2>1. CheckTypes /\ Checking /\ Turns BY DEF CheckIInv
  <2>2. stage = "check" /\ turn' = MinuteOf(base) - (total - nth)
        BY <2>1, CheckStepIs, CheckedIs
  <2> QED BY <2>1, <2>2 DEF Turns
<1>4. CheckIInv /\ [CheckNext]_checkVars =>
        [(NoCountdown \/ OldCountdown \/ CountdownEnds \/ CountdownGoesOn)
         /\ ~excused => turn' = turn + 1]_checkVars
      BY <1>3 DEF CheckSteps
<1> QED BY <1>1, <1>2, <1>4, PTL DEF CheckSpec, InTurn

-----------------------------------------------------------------------------
(* The wall clock (module Clock).                                           *)

(* The types in groups.                                                     *)
TimesTyped ==
  /\ milli \in 0 .. MaxTime /\ lastUTCTime \in Nat /\ lastSystemTime \in 0 .. RANGE - 1
  /\ networkTime \in Nat \cup {None}
CallsTyped ==
  /\ curTimeMs \in [Users -> 0 .. RANGE - 1] /\ loaded \in [Users -> 0 .. RANGE - 1]
  /\ sum \in [Users -> Nat] /\ begun \in [Users -> 0 .. MaxTime]
PlacesTyped == call \in [Users -> {"idle", "log", "test", "plain"} \cup Writing]
RecordsTyped ==
  /\ setting \in Settings
  /\ reading \in [value: Nat, from: 0 .. MaxTime, to: 0 .. MaxTime,
                  set: Settings, raced: BOOLEAN]
RacesTyped == met \in BOOLEAN /\ foreign \in BOOLEAN
WallTypes == TimesTyped /\ CallsTyped /\ PlacesTyped /\ RecordsTyped /\ RacesTyped

(* The message thread is about to set the clock to a time it was given.     *)
TakesTime == GetUtcTime \/ CheckCaliDateByApp

Limit == MaxPause + MaxStall

(* What the threads' places say, and what the bounds on time leave.         *)
Placed ==
  /\ \A t \in Readers : call[t] \notin {"log", "set", "settle"}
  /\ call[Setter] \in {"log", "set", "settle"} => networkTime # None
  /\ call[Setter] = "idle" => networkTime = None
WriterAlone == ~met => \A t \in Users : call[t] \in Writing => Sole(t)
Stalls ==
  /\ \A t \in Users : begun[t] <= milli
  /\ \A t \in Users : Busy(t) => milli - begun[t] <= MaxStall
  /\ milli - reading.from <= Limit
  /\ reading.from <= reading.to /\ reading.to <= milli
  /\ setting.at <= milli /\ reading.set.at <= reading.to

(* The network's time, when it was asked for and when it was set.           *)
Near(seconds, at, lag) ==
  LET ms == PER_SECOND * (seconds - Offset)
  IN  ms <= at /\ at <= ms + lag + PER_SECOND - 1
Network ==
  /\ networkTime # None /\ ~foreign => Near(networkTime, begun[Setter], 0)
  /\ setting.from = "network" => Near(setting.seconds, setting.at, MaxStall)
  /\ reading.set.from = "network" => Near(reading.set.seconds, reading.set.at, MaxStall)

(* The counter's values from the setting up to the next wrap and after it.  *)
Lap     == RANGE * (setting.at \div RANGE)
Wrap    == Lap + RANGE
Spared  == setting.at - Lap >= Limit
OneWrap == milli < Wrap + RANGE
Quiet   == ~met /\ Spared /\ OneWrap /\ ~Stands(Setter, "settle")

Corrected == lastSystemTime < Limit  \* the wrap has been counted
Rebased   == Wrap + lastSystemTime                 \* when it was
Up(ms)    == setting.seconds + Seconds(ms - setting.at)

Told == ~reading.raced /\ reading.set = setting
ToldBefore ==
  Told => \E ms \in setting.at .. reading.to : ms < Wrap /\ reading.value <= Up(ms)
ToldAfter ==
  Told => /\ Rebased <= reading.to
          /\ reading.value <= lastUTCTime + Seconds(reading.to - Rebased)

Memory ==
  Quiet =>
    IF Corrected
    THEN Rebased <= milli /\ lastUTCTime = Up(Rebased - 1) /\ ToldAfter
    ELSE /\ lastSystemTime = setting.at - Lap /\ reading.from < Wrap /\ ToldBefore
         /\ (\A t \in Users : call[t] # "rebase") => lastUTCTime = setting.seconds
Settling == ~met /\ Stands(Setter, "settle") => lastUTCTime = networkTime

(* A call loaded the counter at ms, and what it has made of it.             *)
Fetched(t, ms) ==
  /\ ms >= begun[t] /\ ms <= milli /\ ms >= setting.at
  /\ curTimeMs[t] = IF ms < Wrap THEN ms - Lap ELSE ms - Wrap
Counted(t, ms) == ~Corrected /\ ms >= Wrap /\ sum[t] = Up(ms - 1)
Doing(t, ms) ==
  /\ call[t] = "test" => (Corrected => ms >= Rebased)
  /\ call[t] = "plain" =>
       loaded[t] = lastSystemTime /\ IF Corrected THEN ms >= Rebased ELSE ms < Wrap
  /\ call[t] = "add" => loaded[t] = lastSystemTime /\ ~Corrected /\ ms >= Wrap
  /\ call[t] = "store" => Counted(t, ms)
  /\ call[t] = "rebase" => Counted(t, ms) /\ lastUTCTime = sum[t]
Reading == {"test", "plain", "add", "store", "rebase"}
Calls ==
  Quiet => \A t \in Users :
    call[t] \in Reading => \E ms \in 0 .. milli : Fetched(t, ms) /\ Doing(t, ms)

WallIInv ==
  /\ WallTypes /\ Placed /\ WriterAlone /\ Stalls /\ Network
  /\ Memory /\ Settling /\ Calls /\ Accurate
-----------------------------------------------------------------------------
(* Seconds of milliseconds, and laps of the counter.                        *)
LEMMA WallConstants ==
  /\ PER_SECOND \in Nat \ {0} /\ RANGE \in Nat \ {0}
  /\ MaxTime \in Nat /\ MaxStall \in Nat /\ MaxPause \in Nat /\ Offset \in Nat
  /\ DIFF_SEC_1900_1970 \in Nat
  /\ Setter \notin Readers /\ Unset \subseteq Nat /\ AppDates \subseteq Nat
  /\ Users = Readers \cup {Setter} /\ Setter \in Users
BY ThreadAssumption, UnitAssumption, BoundAssumption, UnsetAssumption DEF Users

LEMMA SecondsAre ==
  ASSUME NEW x \in Int
  PROVE  /\ Seconds(x) \in Int /\ PER_SECOND * Seconds(x) \in Int
         /\ PER_SECOND * Seconds(x) <= x
         /\ x < PER_SECOND * Seconds(x) + PER_SECOND
<1>1. PER_SECOND \in Nat \ {0} BY WallConstants
<1>2. PICK q \in Int, r \in 0 .. PER_SECOND - 1 :
        q = x \div PER_SECOND /\ x = PER_SECOND * q + r
      BY <1>1, Division
<1>3. PICK p \in Int : p = PER_SECOND * q BY <1>1
<1> QED BY <1>1, <1>2, <1>3 DEF Seconds

LEMMA InSeconds ==
  ASSUME NEW x \in Int, NEW k \in Int, PER_SECOND * k <= x
  PROVE  k <= Seconds(x)
<1>1. PER_SECOND \in Nat \ {0} BY WallConstants
<1>2. PICK q \in Int : q = Seconds(x) /\ x < PER_SECOND * q + PER_SECOND BY SecondsAre
<1>3. ASSUME k >= q + 1 PROVE FALSE
  <2>1. PER_SECOND * k >= PER_SECOND * (q + 1) BY <1>1, <1>3
  <2>2. PER_SECOND * (q + 1) = PER_SECOND * q + PER_SECOND BY <1>1
  <2>3. PER_SECOND * k \in Int /\ PER_SECOND * q \in Int BY <1>1
  <2> QED BY <1>1, <1>2, <2>1, <2>2, <2>3
<1> QED BY <1>2, <1>3

LEMMA SecondsGrow ==
  ASSUME NEW x \in Int, NEW y \in Int, x <= y
  PROVE  Seconds(x) <= Seconds(y)
<1>1. PER_SECOND * Seconds(x) <= y /\ Seconds(x) \in Int BY SecondsAre
<1> QED BY <1>1, InSeconds

LEMMA SecondsNat ==
  ASSUME NEW x \in Nat
  PROVE  Seconds(x) \in Nat
<1>1. PER_SECOND * 0 <= x BY WallConstants
<1>2. 0 <= Seconds(x) BY <1>1, InSeconds
<1> QED BY <1>2, SecondsAre

LEMMA LapOf ==
  ASSUME NEW at \in Nat
  PROVE  /\ RANGE * (at \div RANGE) \in Int /\ RANGE \in Nat \ {0}
         /\ RANGE * (at \div RANGE) <= at /\ at < RANGE * (at \div RANGE) + RANGE
         /\ at % RANGE = at - RANGE * (at \div RANGE)
<1>1. RANGE \in Nat \ {0} /\ at \in Int BY WallConstants
<1>2. /\ at \div RANGE \in Int /\ at % RANGE \in 0 .. RANGE - 1
      /\ at = RANGE * (at \div RANGE) + (at % RANGE)
      BY <1>1, Division, Zenon
<1>3. PICK q \in Int, r \in 0 .. RANGE - 1 :
        q = at \div RANGE /\ r = at % RANGE /\ at = RANGE * q + r
      BY <1>2, Zenon
<1>4. PICK p \in Int : p = RANGE * q BY <1>1
<1>5. p = RANGE * (at \div RANGE) /\ at = p + r BY <1>3, <1>4, Zenon
<1>6. p <= at /\ at < p + RANGE /\ r = at - p BY <1>1, <1>4, <1>5
<1> QED BY <1>1, <1>3, <1>4, <1>5, <1>6, Zenon

LEMMA LapIs ==
  ASSUME RecordsTyped
  PROVE  /\ setting.at \in Nat /\ Lap \in Int /\ Wrap = Lap + RANGE /\ RANGE \in Nat \ {0}
         /\ Lap <= setting.at /\ setting.at < Wrap /\ setting.at % RANGE = setting.at - Lap
<1>1. setting.at \in Nat BY WallConstants DEF RecordsTyped, Settings
<1> QED BY <1>1, LapOf, Zenon DEF Lap, Wrap

LEMMA CounterIs ==
  ASSUME RecordsTyped, NEW ms \in Int, Lap <= ms, ms < Wrap + RANGE
  PROVE  ms % RANGE = IF ms < Wrap THEN ms - Lap ELSE ms - Wrap
<1>1. RANGE \in Nat \ {0} /\ Wrap = Lap + RANGE BY LapIs
<1>2. PICK q \in Int : Lap = RANGE * q
  <2>1. setting.at \in Int BY LapIs
  <2>2. setting.at \div RANGE \in Int BY <1>1, <2>1, Division, Zenon
  <2> QED BY <2>2, <1>1 DEF Lap
<1>3. PICK p \in Int : p = RANGE * q /\ p = Lap BY <1>1, <1>2
<1>4. CASE ms < Wrap
  <2>1. PICK r \in 0 .. RANGE - 1 : r = ms - Lap BY <1>1, <1>3, <1>4
  <2>2. ms = RANGE * q + r BY <1>3, <2>1
  <2>3. ms % RANGE = r BY <1>1, <2>2, Remains, Zenon
  <2> QED BY <1>4, <2>1, <2>3
<1>5. CASE ms >= Wrap
  <2>1. PICK r \in 0 .. RANGE - 1 : r = ms - Wrap BY <1>1, <1>3, <1>5
  <2>2. RANGE * (q + 1) = p + RANGE BY <1>1, <1>3
  <2>3. ms = RANGE * (q + 1) + r /\ q + 1 \in Int BY <1>1, <1>3, <2>1, <2>2
  <2>4. ms % RANGE = r BY <1>1, <2>3, Remains, Zenon
  <2>5. ~(ms < Wrap) BY <1>1, <1>3, <1>5
  <2> QED BY <2>1, <2>4, <2>5
<1>6. ms < Wrap \/ ms >= Wrap BY <1>1, <1>3
<1> QED BY <1>4, <1>5, <1>6

LEMMA LapsOn ==
  ASSUME RecordsTyped, NEW ms \in Nat
  PROVE  ms \div RANGE <= (setting.at \div RANGE) + 1 <=> ms < Wrap + RANGE
<1>1. RANGE \in Nat \ {0} /\ Wrap = Lap + RANGE /\ Lap \in Int BY LapIs
<1>2. PICK q \in Int : q = setting.at \div RANGE
  <2>1. setting.at \in Int BY LapIs
  <2> QED BY <1>1, <2>1, Division, Zenon
<1>3. PICK p \in Int : p = RANGE * q /\ p = Lap BY <1>1, <1>2 DEF Lap
<1>4. PICK m \in Int, r \in 0 .. RANGE - 1 : m = ms \div RANGE /\ ms = RANGE * m + r
      BY <1>1, Division
<1>5. PICK n \in Int : n = RANGE * m BY <1>1
<1>6. CASE m <= q + 1
  <2>1. RANGE * m <= RANGE * (q + 1) BY <1>1, <1>6
  <2>2. RANGE * (q + 1) = p + RANGE BY <1>1, <1>3
  <2> QED BY <1>1, <1>2, <1>3, <1>4, <1>5, <1>6, <2>1, <2>2
<1>7. CASE m >= q + 2
  <2>1. RANGE * m >= RANGE * (q + 2) BY <1>1, <1>7
  <2>2. RANGE * (q + 2) = p + 2 * RANGE BY <1>1, <1>3
  <2> QED BY <1>1, <1>2, <1>3, <1>4, <1>5, <1>7, <2>1, <2>2
<1> QED BY <1>6, <1>7

(* The difference of two values of the counter less than a lap apart.       *)
LEMMA LessThanALap ==
  ASSUME NEW d \in Int, 0 <= d, d < RANGE
  PROVE  d % RANGE = d
<1>1. RANGE \in Nat \ {0} BY WallConstants
<1>2. d \in 0 .. RANGE - 1 /\ d = RANGE * 0 + d BY <1>1
<1> QED BY <1>1, <1>2, Remains
-----------------------------------------------------------------------------
(* The steps.                                                               *)
LEMMA WallAction ==
  ASSUME [ClockNext]_clockVars
  PROVE  \/ \E t \in Users :
              \/ GetTime(t) \/ TestWrap(t) \/ Plain(t)
              \/ AddWrapped(t) \/ StoreSum(t) \/ Rebase(t)
         \/ TakesTime \/ SetUTCTime \/ SetSystemTime
         \/ Tick \/ UNCHANGED clockVars
BY DEF ClockNext, GetSystemTime, Set, TakesTime

LEMMA StillIs ==
  ASSUME UNCHANGED clockVars
  PROVE  UNCHANGED <<milli, lastUTCTime, lastSystemTime, call, curTimeMs, loaded, sum,
                     networkTime, foreign, begun, setting, reading, met>>
BY DEF clockVars, memory, locals

LEMMA TickIsOne ==
  ASSUME Tick
  PROVE  /\ milli < MaxTime /\ milli' = milli + 1
         /\ \A t \in Users : Busy(t) => milli - begun[t] < MaxStall
         /\ milli - reading.from < MaxPause
         /\ UNCHANGED <<lastUTCTime, lastSystemTime, call, curTimeMs, loaded, sum,
                        networkTime, foreign, begun, setting, reading>>
BY DEF Tick, memory, locals

LEMMA GetTimeIs ==
  ASSUME NEW t \in Users, GetTime(t)
  PROVE  /\ call[t] \in {"idle", "log"} /\ call' = [call EXCEPT ![t] = "test"]
         /\ curTimeMs' = [curTimeMs EXCEPT ![t] = milli % RANGE]
         /\ begun' = IF call[t] = "idle" THEN [begun EXCEPT ![t] = milli] ELSE begun
         /\ UNCHANGED <<milli, lastUTCTime, lastSystemTime, loaded, sum, networkTime, foreign,
                        setting, reading>>
BY DEF GetTime, Stands, GoesTo, Counter, memory

LEMMA TestWrapIs ==
  ASSUME NEW t \in Users, TestWrap(t)
  PROVE  /\ call[t] = "test" /\ loaded' = [loaded EXCEPT ![t] = lastSystemTime]
         /\ call' = [call EXCEPT
              ![t] = IF curTimeMs[t] < lastSystemTime THEN "add" ELSE "plain"]
         /\ UNCHANGED <<milli, lastUTCTime, lastSystemTime, curTimeMs, sum, networkTime,
                        foreign, begun, setting, reading>>
BY DEF TestWrap, Stands, GoesTo, memory

\* What a call leaves when it returns a value.
Leaves(t, value) ==
  /\ curTimeMs' = [curTimeMs EXCEPT ![t] = 0] /\ loaded' = [loaded EXCEPT ![t] = 0]
  /\ sum' = [sum EXCEPT ![t] = 0]
  /\ \/ /\ t = Setter /\ networkTime # None
        /\ call' = [call EXCEPT ![t] = "set"] /\ begun' = begun
     \/ /\ ~(t = Setter /\ networkTime # None)
        /\ call' = [call EXCEPT ![t] = "idle"] /\ begun' = [begun EXCEPT ![t] = 0]
  /\ reading' = [value |-> value, from |-> begun[t], to |-> milli, set |-> setting,
                 raced |-> met]

LEMMA LeavesIs ==
  ASSUME NEW t \in Users, NEW value, Returns(t, value)
  PROVE  Leaves(t, value)
BY DEF Leaves, Returns, Forgets, GoesTo, Rests

LEMMA PlainIs ==
  ASSUME NEW t \in Users, Plain(t)
  PROVE  /\ call[t] = "plain"
         /\ \E b \in {loaded[t], lastSystemTime} :
              Leaves(t, lastUTCTime + Seconds((curTimeMs[t] - b) % RANGE))
         /\ UNCHANGED <<milli, lastUTCTime, lastSystemTime, networkTime, foreign, setting>>
<1>1. PICK b \in {loaded[t], lastSystemTime} :
        Returns(t, lastUTCTime + Seconds((curTimeMs[t] - b) % RANGE))
      BY DEF Plain
<1>2. Leaves(t, lastUTCTime + Seconds((curTimeMs[t] - b) % RANGE)) BY <1>1, LeavesIs
<1> QED BY <1>2 DEF Plain, Stands, memory

LEMMA AddWrappedIs ==
  ASSUME NEW t \in Users, AddWrapped(t)
  PROVE  /\ call[t] = "add" /\ call' = [call EXCEPT ![t] = "store"]
         /\ \E b \in {loaded[t], lastSystemTime} :
              sum' = [sum EXCEPT ![t] =
                 lastUTCTime + Seconds((RANGE - 1 - b + curTimeMs[t]) % RANGE)]
         /\ UNCHANGED <<milli, lastUTCTime, lastSystemTime, curTimeMs, loaded, networkTime,
                        foreign, begun, setting, reading>>
BY DEF AddWrapped, Stands, GoesTo, memory

LEMMA StoreSumIs ==
  ASSUME NEW t \in Users, StoreSum(t)
  PROVE  /\ call[t] = "store" /\ call' = [call EXCEPT ![t] = "rebase"]
         /\ lastUTCTime' = sum[t]
         /\ UNCHANGED <<milli, lastSystemTime, curTimeMs, loaded, sum, networkTime, foreign,
                        begun, setting, reading>>
BY DEF StoreSum, Stands, GoesTo

LEMMA RebaseIs ==
  ASSUME NEW t \in Users, Rebase(t)
  PROVE  /\ call[t] = "rebase" /\ lastSystemTime' = curTimeMs[t]
         /\ \E value \in {sum[t], lastUTCTime} : Leaves(t, value)
         /\ UNCHANGED <<milli, lastUTCTime, networkTime, foreign, setting>>
<1>1. PICK value \in {sum[t], lastUTCTime} : Returns(t, value) BY DEF Rebase
<1>2. Leaves(t, value) BY <1>1, LeavesIs
<1> QED BY <1>2 DEF Rebase, Stands

LEMMA GetUtcTimeIs ==
  ASSUME TimesTyped, GetUtcTime
  PROVE  /\ call[Setter] = "idle" /\ call' = [call EXCEPT ![Setter] = "log"]
         /\ begun' = [begun EXCEPT ![Setter] = milli]
         /\ networkTime' \in Nat /\ foreign' \in BOOLEAN
         /\ ~foreign' => networkTime' = Seconds(milli) + Offset
         /\ UNCHANGED <<milli, lastUTCTime, lastSystemTime, curTimeMs, loaded, sum, setting,
                        reading>>
<1>1. PICK answer \in getUtcTimeFromNetwork :
        /\ answer.utcTime > DIFF_SEC_1900_1970
        /\ Sync(answer.utcTime - DIFF_SEC_1900_1970, answer.failed)
      BY DEF GetUtcTime
<1>2. milli \in Nat /\ milli \in Int BY WallConstants DEF TimesTyped
<1>3. Seconds(milli) \in Nat BY <1>2, SecondsNat
<1>10. \/ \E time \in Answers : answer = [utcTime |-> time, failed |-> FALSE]
       \/ \E time \in Unset : answer = [utcTime |-> time, failed |-> TRUE]
      BY <1>1, SMT DEF getUtcTimeFromNetwork
<1>4. \/ answer.utcTime \in Answers /\ answer.failed = FALSE
      \/ answer.utcTime \in Unset /\ answer.failed = TRUE
      BY <1>10, SMT
<1>5. answer.utcTime \in Nat
  <2>1. Answers \subseteq Nat BY <1>3, WallConstants DEF Answers
  <2>2. Unset \subseteq Nat BY WallConstants
  <2> QED BY <1>4, <2>1, <2>2
<1>6. answer.utcTime \in Answers =>
        answer.utcTime = Seconds(milli) + Offset + DIFF_SEC_1900_1970
      BY <1>1, <1>5, WallConstants DEF Answers
<1>7. networkTime' = answer.utcTime - DIFF_SEC_1900_1970 /\ foreign' = answer.failed
      BY <1>1 DEF Sync
<1>8. networkTime' \in Nat /\ (~foreign' => networkTime' = Seconds(milli) + Offset)
      BY <1>1, <1>3, <1>4, <1>5, <1>6, <1>7, WallConstants
<1>9. foreign' \in BOOLEAN BY <1>4, <1>7
<1> QED BY <1>1, <1>8, <1>9 DEF Sync, Stands, GoesTo, memory

LEMMA TakesTimeIs ==
  ASSUME TimesTyped, TakesTime
  PROVE  /\ call[Setter] = "idle" /\ call' = [call EXCEPT ![Setter] = "log"]
         /\ begun' = [begun EXCEPT ![Setter] = milli]
         /\ networkTime' \in Nat /\ foreign' \in BOOLEAN
         /\ ~foreign' => networkTime' = Seconds(milli) + Offset
         /\ UNCHANGED <<milli, lastUTCTime, lastSystemTime, curTimeMs, loaded, sum, setting,
                        reading>>
<1>1. CASE GetUtcTime BY <1>1, GetUtcTimeIs
<1>2. CASE CheckCaliDateByApp
  <2>1. PICK appDate \in AppDates : Sync(appDate, TRUE) BY <1>2 DEF CheckCaliDateByApp
  <2>2. appDate \in Nat BY <2>1, WallConstants
  <2> QED BY <2>1, <2>2 DEF Sync, Stands, GoesTo, memory
<1> QED BY <1>1, <1>2 DEF TakesTime

LEMMA SetUTCTimeIs ==
  ASSUME SetUTCTime
  PROVE  /\ call[Setter] = "set" /\ call' = [call EXCEPT ![Setter] = "settle"]
         /\ lastUTCTime' = networkTime
         /\ UNCHANGED <<milli, lastSystemTime, curTimeMs, loaded, sum, networkTime, foreign,
                        begun, setting, reading>>
BY DEF SetUTCTime, Stands, GoesTo

LEMMA SetSystemTimeIs ==
  ASSUME SetSystemTime
  PROVE  /\ call[Setter] = "settle" /\ call' = [call EXCEPT ![Setter] = "idle"]
         /\ begun' = [begun EXCEPT ![Setter] = 0]
         /\ lastSystemTime' = milli % RANGE
         /\ setting' = [at |-> milli, seconds |-> networkTime,
                        from |-> IF foreign THEN "other" ELSE "network"]
         /\ networkTime' = None /\ foreign' = FALSE
         /\ UNCHANGED <<milli, lastUTCTime, curTimeMs, loaded, sum, reading>>
BY DEF SetSystemTime, Stands, GoesTo, Rests, Counter
-----------------------------------------------------------------------------
(* The types are kept.                                                      *)
LEMMA WallTyped ==
  ASSUME WallTypes
  PROVE  /\ milli \in Nat /\ lastUTCTime \in Nat /\ lastSystemTime \in Nat
         /\ lastSystemTime < RANGE /\ MaxTime \in Nat /\ milli <= MaxTime
         /\ \A t \in Users : curTimeMs[t] \in Nat /\ curTimeMs[t] < RANGE
         /\ \A t \in Users : loaded[t] \in Nat /\ loaded[t] < RANGE
         /\ \A t \in Users : sum[t] \in Nat /\ begun[t] \in Nat
         /\ reading.value \in Nat /\ reading.from \in Nat /\ reading.to \in Nat
         /\ setting.at \in Nat /\ setting.seconds \in Nat
         /\ reading.set.at \in Nat /\ reading.set.seconds \in Nat
         /\ RANGE \in Nat \ {0}
<1>1. MaxTime \in Nat /\ RANGE \in Nat \ {0} BY WallConstants
<1>2. /\ milli \in Nat /\ lastUTCTime \in Nat /\ lastSystemTime \in Nat
      /\ lastSystemTime < RANGE /\ milli <= MaxTime
      BY <1>1 DEF WallTypes, TimesTyped
<1>3. /\ \A t \in Users : curTimeMs[t] \in 0 .. RANGE - 1 /\ loaded[t] \in 0 .. RANGE - 1
      /\ \A t \in Users : sum[t] \in Nat /\ begun[t] \in 0 .. MaxTime
      BY DEF WallTypes, CallsTyped
<1>4. /\ reading.value \in Nat /\ reading.from \in 0 .. MaxTime /\ reading.to \in 0 .. MaxTime
      /\ reading.set \in Settings /\ setting \in Settings
      BY DEF WallTypes, RecordsTyped
<1>5. /\ setting.at \in 0 .. MaxTime /\ setting.seconds \in Nat
      /\ reading.set.at \in 0 .. MaxTime /\ reading.set.seconds \in Nat
      BY <1>4 DEF Settings
<1> QED BY <1>1, <1>2, <1>3, <1>4, <1>5

LEMMA CounterTyped ==
  ASSUME NEW x \in Int
  PROVE  x % RANGE \in 0 .. RANGE - 1 /\ x % RANGE \in Nat
<1>1. RANGE \in Nat \ {0} BY WallConstants
<1>2. x % RANGE \in 0 .. RANGE - 1 BY <1>1, Division, Zenon
<1> QED BY <1>1, <1>2

LEMMA LeavesTyped ==
  ASSUME WallTypes, NEW t \in Users, NEW value \in Nat, Leaves(t, value)
  PROVE  CallsTyped' /\ PlacesTyped' /\ (setting' = setting => RecordsTyped')
<1>1. 0 \in 0 .. RANGE - 1 /\ 0 \in 0 .. MaxTime BY WallConstants
<1>2. CallsTyped' BY <1>1 DEF Leaves, WallTypes, CallsTyped
<1>3. PlacesTyped' BY DEF Leaves, WallTypes, PlacesTyped, Writing
<1>4. begun[t] \in 0 .. MaxTime /\ milli \in 0 .. MaxTime /\ met \in BOOLEAN
      /\ setting \in Settings
      BY DEF WallTypes, CallsTyped, TimesTyped, RacesTyped, RecordsTyped
<1>5. reading' \in [value: Nat, from: 0 .. MaxTime, to: 0 .. MaxTime,
                    set: Settings, raced: BOOLEAN]
      BY <1>4 DEF Leaves
<1> QED BY <1>2, <1>3, <1>4, <1>5 DEF RecordsTyped

LEMMA RacesKept ==
  ASSUME RacesTyped, foreign' \in BOOLEAN, [ClockNext]_clockVars
  PROVE  RacesTyped'
<1>1. met' \in BOOLEAN
  <2>1. CASE UNCHANGED clockVars BY <2>1, StillIs DEF RacesTyped
  <2>2. CASE ClockNext
    <3>1. (met \/ Met') \in BOOLEAN BY DEF Met
    <3> QED BY <2>2, <3>1 DEF ClockNext
  <2> QED BY <2>1, <2>2
<1> QED BY <1>1 DEF RacesTyped

LEMMA WallTypesKept ==
  ASSUME WallTypes, Placed, [ClockNext]_clockVars
  PROVE  WallTypes'
<1>0. /\ TimesTyped /\ CallsTyped /\ PlacesTyped /\ RecordsTyped /\ RacesTyped
      BY DEF WallTypes
<1>1. ASSUME NEW t \in Users, GetTime(t) PROVE WallTypes'
  <2>1. milli % RANGE \in 0 .. RANGE - 1
    <3>1. milli \in Int BY WallTyped
    <3> QED BY <3>1, CounterTyped
  <2>2. milli \in 0 .. MaxTime BY <1>0 DEF TimesTyped
  <2>3. CallsTyped' BY <1>0, <1>1, <2>1, <2>2, GetTimeIs DEF CallsTyped
  <2>4. PlacesTyped' BY <1>0, <1>1, GetTimeIs DEF PlacesTyped
  <2>5. TimesTyped' /\ RecordsTyped' BY <1>0, <1>1, GetTimeIs DEF TimesTyped, RecordsTyped
  <2>6. RacesTyped' BY <1>0, <1>1, GetTimeIs, RacesKept DEF RacesTyped
  <2> QED BY <2>3, <2>4, <2>5, <2>6 DEF WallTypes
<1>2. ASSUME NEW t \in Users, TestWrap(t) PROVE WallTypes'
  <2>1. lastSystemTime \in 0 .. RANGE - 1 BY <1>0 DEF TimesTyped
  <2>3. CallsTyped' BY <1>0, <1>2, <2>1, TestWrapIs DEF CallsTyped
  <2>4. PlacesTyped' BY <1>0, <1>2, TestWrapIs DEF PlacesTyped, Writing
  <2>5. TimesTyped' /\ RecordsTyped' BY <1>0, <1>2, TestWrapIs DEF TimesTyped, RecordsTyped
  <2>6. RacesTyped' BY <1>0, <1>2, TestWrapIs, RacesKept DEF RacesTyped
  <2> QED BY <2>3, <2>4, <2>5, <2>6 DEF WallTypes
<1>3. ASSUME NEW t \in Users, Plain(t) PROVE WallTypes'
  <2>1. PICK b \in {loaded[t], lastSystemTime} :
          Leaves(t, lastUTCTime + Seconds((curTimeMs[t] - b) % RANGE))
        BY <1>3, PlainIs
  <2>2. curTimeMs[t] \in Nat /\ loaded[t] \in Nat /\ lastSystemTime \in Nat BY WallTyped
  <2>3. (curTimeMs[t] - b) \in Int BY <2>2
  <2>4. (curTimeMs[t] - b) % RANGE \in Nat BY <2>3, CounterTyped, Zenon
  <2>5. Seconds((curTimeMs[t] - b) % RANGE) \in Nat BY <2>4, SecondsNat, Zenon
  <2>6. lastUTCTime + Seconds((curTimeMs[t] - b) % RANGE) \in Nat
        BY <1>0, <2>5 DEF TimesTyped
  <2>7. CallsTyped' /\ PlacesTyped' /\ RecordsTyped' BY <1>3, <2>1, <2>6, LeavesTyped, PlainIs
  <2>8. TimesTyped' BY <1>0, <1>3, PlainIs DEF TimesTyped
  <2>9. RacesTyped' BY <1>0, <1>3, PlainIs, RacesKept DEF RacesTyped
  <2> QED BY <2>7, <2>8, <2>9 DEF WallTypes
<1>4. ASSUME NEW t \in Users, AddWrapped(t) PROVE WallTypes'
  <2>1. PICK b \in {loaded[t], lastSystemTime} :
          sum' = [sum EXCEPT ![t] =
            lastUTCTime + Seconds((RANGE - 1 - b + curTimeMs[t]) % RANGE)]
        BY <1>4, AddWrappedIs
  <2>2. /\ curTimeMs[t] \in Nat /\ loaded[t] \in Nat /\ lastSystemTime \in Nat
        /\ RANGE \in Nat
        BY WallTyped
  <2>3. (RANGE - 1 - b + curTimeMs[t]) \in Int BY <2>2
  <2>4. (RANGE - 1 - b + curTimeMs[t]) % RANGE \in Nat BY <2>3, CounterTyped, Zenon
  <2>5. Seconds((RANGE - 1 - b + curTimeMs[t]) % RANGE) \in Nat
        BY <2>4, SecondsNat, Zenon
  <2>6. lastUTCTime + Seconds((RANGE - 1 - b + curTimeMs[t]) % RANGE) \in Nat
        BY <1>0, <2>5 DEF TimesTyped
  <2>7. CallsTyped' BY <1>0, <1>4, <2>1, <2>6, AddWrappedIs DEF CallsTyped
  <2>8. PlacesTyped' BY <1>0, <1>4, AddWrappedIs DEF PlacesTyped, Writing
  <2>9. TimesTyped' /\ RecordsTyped'
        BY <1>0, <1>4, AddWrappedIs DEF TimesTyped, RecordsTyped
  <2>10. RacesTyped' BY <1>0, <1>4, AddWrappedIs, RacesKept DEF RacesTyped
  <2> QED BY <2>7, <2>8, <2>9, <2>10 DEF WallTypes
<1>5. ASSUME NEW t \in Users, StoreSum(t) PROVE WallTypes'
  <2>1. sum[t] \in Nat BY WallTyped
  <2>2. TimesTyped' BY <1>0, <1>5, <2>1, StoreSumIs DEF TimesTyped
  <2>3. CallsTyped' /\ RecordsTyped'
        BY <1>0, <1>5, StoreSumIs DEF CallsTyped, RecordsTyped
  <2>4. PlacesTyped' BY <1>0, <1>5, StoreSumIs DEF PlacesTyped, Writing
  <2>5. RacesTyped' BY <1>0, <1>5, StoreSumIs, RacesKept DEF RacesTyped
  <2> QED BY <2>2, <2>3, <2>4, <2>5 DEF WallTypes
<1>6. ASSUME NEW t \in Users, Rebase(t) PROVE WallTypes'
  <2>1. PICK value \in {sum[t], lastUTCTime} : Leaves(t, value) BY <1>6, RebaseIs
  <2>2. value \in Nat BY WallTyped
  <2>3. CallsTyped' /\ PlacesTyped' /\ RecordsTyped' BY <1>6, <2>1, <2>2, LeavesTyped, RebaseIs
  <2>4. curTimeMs[t] \in 0 .. RANGE - 1 BY <1>0 DEF CallsTyped
  <2>5. TimesTyped' BY <1>0, <1>6, <2>4, RebaseIs DEF TimesTyped
  <2>6. RacesTyped' BY <1>0, <1>6, RebaseIs, RacesKept DEF RacesTyped
  <2> QED BY <2>3, <2>5, <2>6 DEF WallTypes
<1>7. ASSUME TakesTime PROVE WallTypes'
  <2>1. Setter \in Users BY WallConstants
  <2>2. milli \in 0 .. MaxTime BY <1>0 DEF TimesTyped
  <2>3. CallsTyped' BY <1>0, <1>7, <2>1, <2>2, TakesTimeIs DEF CallsTyped
  <2>4. PlacesTyped' BY <1>0, <1>7, <2>1, TakesTimeIs DEF PlacesTyped
  <2>5. TimesTyped' /\ RecordsTyped'
        BY <1>0, <1>7, TakesTimeIs DEF TimesTyped, RecordsTyped
  <2>6. RacesTyped' BY <1>0, <1>7, TakesTimeIs, RacesKept
  <2> QED BY <2>3, <2>4, <2>5, <2>6 DEF WallTypes
<1>8. ASSUME SetUTCTime PROVE WallTypes'
  <2>1. networkTime \in Nat BY <1>0, <1>8, SetUTCTimeIs DEF Placed, TimesTyped
  <2>2. TimesTyped' BY <1>0, <1>8, <2>1, SetUTCTimeIs DEF TimesTyped
  <2>3. CallsTyped' /\ RecordsTyped'
        BY <1>0, <1>8, SetUTCTimeIs DEF CallsTyped, RecordsTyped
  <2>4. PlacesTyped' BY <1>0, <1>8, SetUTCTimeIs DEF PlacesTyped, Writing
  <2>5. RacesTyped' BY <1>0, <1>8, SetUTCTimeIs, RacesKept DEF RacesTyped
  <2> QED BY <2>2, <2>3, <2>4, <2>5 DEF WallTypes
<1>9. ASSUME SetSystemTime PROVE WallTypes'
  <2>1. networkTime \in Nat BY <1>0, <1>9, SetSystemTimeIs DEF Placed, TimesTyped
  <2>2. milli \in 0 .. MaxTime /\ milli \in Int BY <1>0, WallTyped DEF TimesTyped
  <2>3. milli % RANGE \in 0 .. RANGE - 1 BY <2>2, CounterTyped
  <2>4. TimesTyped' BY <1>0, <1>9, <2>3, SetSystemTimeIs DEF TimesTyped
  <2>5. setting' \in Settings
        BY <1>0, <1>9, <2>1, <2>2, SetSystemTimeIs DEF Settings, RacesTyped
  <2>6. RecordsTyped' BY <1>0, <1>9, <2>5, SetSystemTimeIs DEF RecordsTyped
  <2>7. 0 \in 0 .. MaxTime BY WallConstants
  <2>8. CallsTyped' BY <1>0, <1>9, <2>7, SetSystemTimeIs DEF CallsTyped
  <2>9. PlacesTyped' BY <1>0, <1>9, SetSystemTimeIs DEF PlacesTyped
  <2>10. RacesTyped' BY <1>0, <1>9, SetSystemTimeIs, RacesKept DEF RacesTyped
  <2> QED BY <2>4, <2>6, <2>8, <2>9, <2>10 DEF WallTypes
<1>10. ASSUME Tick PROVE WallTypes'
  <2>1. milli' \in 0 .. MaxTime BY <1>10, WallTyped, TickIsOne
  <2>2. TimesTyped' BY <1>0, <1>10, <2>1, TickIsOne DEF TimesTyped
  <2>3. CallsTyped' /\ RecordsTyped' /\ PlacesTyped'
        BY <1>0, <1>10, TickIsOne DEF CallsTyped, RecordsTyped, PlacesTyped
  <2>4. RacesTyped' BY <1>0, <1>10, TickIsOne, RacesKept DEF RacesTyped
  <2> QED BY <2>2, <2>3, <2>4 DEF WallTypes
<1>11. ASSUME UNCHANGED clockVars PROVE WallTypes'
  BY <1>0, <1>11, StillIs
     DEF WallTypes, TimesTyped, CallsTyped, PlacesTyped, RecordsTyped, RacesTyped
<1> QED BY WallAction, <1>1, <1>2, <1>3, <1>4, <1>5, <1>6, <1>7, <1>8, <1>9, <1>10, <1>11
-----------------------------------------------------------------------------
(* Whose step it is.                                                        *)
Others(t) ==
  \A u \in Users \ {t} :
    /\ call'[u] = call[u] /\ begun'[u] = begun[u]
    /\ curTimeMs'[u] = curTimeMs[u] /\ loaded'[u] = loaded[u] /\ sum'[u] = sum[u]

LEMMA LeavesOthers ==
  ASSUME WallTypes, NEW t \in Users, NEW value, Leaves(t, value)
  PROVE  /\ Others(t)
         /\ \/ t = Setter /\ networkTime # None /\ call'[t] = "set" /\ begun'[t] = begun[t]
            \/ /\ ~(t = Setter /\ networkTime # None)
               /\ call'[t] = "idle" /\ begun'[t] = 0
BY DEF Leaves, WallTypes, PlacesTyped, CallsTyped, Others

LEMMA StepsOf ==
  ASSUME WallTypes, NEW t \in Users
  PROVE  /\ GetTime(t) =>
              Others(t) /\ call'[t] = "test" /\ curTimeMs'[t] = milli % RANGE
              /\ begun'[t] = (IF call[t] = "idle" THEN milli ELSE begun[t])
         /\ TestWrap(t) =>
              Others(t) /\ curTimeMs'[t] = curTimeMs[t] /\ begun'[t] = begun[t]
              /\ loaded'[t] = lastSystemTime
              /\ call'[t] = (IF curTimeMs[t] < lastSystemTime THEN "add" ELSE "plain")
         /\ AddWrapped(t) =>
              Others(t) /\ call'[t] = "store" /\ curTimeMs'[t] = curTimeMs[t]
              /\ begun'[t] = begun[t]
         /\ StoreSum(t) =>
              Others(t) /\ call'[t] = "rebase" /\ curTimeMs'[t] = curTimeMs[t]
              /\ begun'[t] = begun[t] /\ sum'[t] = sum[t]
<1>0. PlacesTyped /\ CallsTyped BY DEF WallTypes
<1>1. GetTime(t) =>
        Others(t) /\ call'[t] = "test" /\ curTimeMs'[t] = milli % RANGE
        /\ begun'[t] = (IF call[t] = "idle" THEN milli ELSE begun[t])
      BY <1>0, GetTimeIs DEF Others, PlacesTyped, CallsTyped
<1>2. TestWrap(t) =>
        Others(t) /\ curTimeMs'[t] = curTimeMs[t] /\ begun'[t] = begun[t]
        /\ loaded'[t] = lastSystemTime
        /\ call'[t] = (IF curTimeMs[t] < lastSystemTime THEN "add" ELSE "plain")
      BY <1>0, TestWrapIs DEF Others, PlacesTyped, CallsTyped
<1>3. AddWrapped(t) =>
        Others(t) /\ call'[t] = "store" /\ curTimeMs'[t] = curTimeMs[t] /\ begun'[t] = begun[t]
      BY <1>0, AddWrappedIs DEF Others, PlacesTyped, CallsTyped
<1>4. StoreSum(t) =>
        Others(t) /\ call'[t] = "rebase" /\ curTimeMs'[t] = curTimeMs[t]
        /\ begun'[t] = begun[t] /\ sum'[t] = sum[t]
      BY <1>0, StoreSumIs DEF Others, PlacesTyped, CallsTyped
<1> QED BY <1>1, <1>2, <1>3, <1>4

LEMMA StepsOfSetter ==
  ASSUME WallTypes
  PROVE  /\ TakesTime =>
              Others(Setter) /\ call'[Setter] = "log" /\ begun'[Setter] = milli
         /\ SetUTCTime =>
              Others(Setter) /\ call'[Setter] = "settle" /\ begun'[Setter] = begun[Setter]
         /\ SetSystemTime =>
              Others(Setter) /\ call'[Setter] = "idle" /\ begun'[Setter] = 0
<1>0. PlacesTyped /\ CallsTyped /\ TimesTyped /\ Setter \in Users
      BY WallConstants DEF WallTypes
<1>1. TakesTime => Others(Setter) /\ call'[Setter] = "log" /\ begun'[Setter] = milli
      BY <1>0, TakesTimeIs DEF Others, PlacesTyped, CallsTyped
<1>2. SetUTCTime =>
        Others(Setter) /\ call'[Setter] = "settle" /\ begun'[Setter] = begun[Setter]
      BY <1>0, SetUTCTimeIs DEF Others, PlacesTyped, CallsTyped
<1>3. SetSystemTime => Others(Setter) /\ call'[Setter] = "idle" /\ begun'[Setter] = 0
      BY <1>0, SetSystemTimeIs DEF Others, PlacesTyped, CallsTyped
<1> QED BY <1>1, <1>2, <1>3

LEMMA ReturnsAre ==
  ASSUME WallTypes, NEW t \in Users, Plain(t) \/ Rebase(t)
  PROVE  /\ Others(t) /\ call[t] \in {"plain", "rebase"}
         /\ \/ t = Setter /\ networkTime # None /\ call'[t] = "set" /\ begun'[t] = begun[t]
            \/ /\ ~(t = Setter /\ networkTime # None)
               /\ call'[t] = "idle" /\ begun'[t] = 0
         /\ reading' = [value |-> reading'.value, from |-> begun[t], to |-> milli,
                        set |-> setting, raced |-> met]
         /\ milli' = milli /\ lastUTCTime' = lastUTCTime /\ setting' = setting
         /\ networkTime' = networkTime /\ foreign' = foreign
<1>1. PICK value : Leaves(t, value) BY PlainIs, RebaseIs
<1>2. reading' = [value |-> reading'.value, from |-> begun[t], to |-> milli,
                  set |-> setting, raced |-> met]
      BY <1>1 DEF Leaves
<1>3. call[t] \in {"plain", "rebase"} BY PlainIs, RebaseIs
<1>4. /\ milli' = milli /\ lastUTCTime' = lastUTCTime /\ setting' = setting
      /\ networkTime' = networkTime /\ foreign' = foreign
      BY PlainIs, RebaseIs
<1> QED BY <1>1, <1>2, <1>3, <1>4, LeavesOthers

LEMMA StillOrTick ==
  ASSUME Tick \/ UNCHANGED clockVars
  PROVE  UNCHANGED <<lastUTCTime, lastSystemTime, call, curTimeMs, loaded, sum,
                     networkTime, foreign, begun, setting, reading>>
BY TickIsOne, StillIs

LEMMA PlacedKept ==
  ASSUME WallTypes, Placed, [ClockNext]_clockVars
  PROVE  Placed'
<1>0. /\ Setter \notin Readers /\ Users = Readers \cup {Setter} /\ TimesTyped
      BY WallConstants DEF WallTypes
<1>1. ASSUME NEW t \in Users, GetTime(t) PROVE Placed'
  <2>1. Others(t) /\ call'[t] = "test" /\ networkTime' = networkTime
        BY <1>1, StepsOf, GetTimeIs
  <2> QED BY <1>0, <2>1 DEF Placed, Others
<1>2. ASSUME NEW t \in Users, TestWrap(t) PROVE Placed'
  <2>1. Others(t) /\ call'[t] \in {"add", "plain"} /\ networkTime' = networkTime
        BY <1>2, StepsOf, TestWrapIs
  <2> QED BY <1>0, <2>1 DEF Placed, Others
<1>3. ASSUME NEW t \in Users, Plain(t) \/ Rebase(t) PROVE Placed'
  <2>1. /\ Others(t) /\ networkTime' = networkTime
        /\ \/ t = Setter /\ networkTime # None /\ call'[t] = "set"
           \/ ~(t = Setter /\ networkTime # None) /\ call'[t] = "idle"
        BY <1>3, ReturnsAre
  <2> QED BY <1>0, <2>1 DEF Placed, Others
<1>4. ASSUME NEW t \in Users, AddWrapped(t) PROVE Placed'
  <2>1. Others(t) /\ call'[t] = "store" /\ networkTime' = networkTime
        BY <1>4, StepsOf, AddWrappedIs
  <2> QED BY <1>0, <2>1 DEF Placed, Others
<1>5. ASSUME NEW t \in Users, StoreSum(t) PROVE Placed'
  <2>1. Others(t) /\ call'[t] = "rebase" /\ networkTime' = networkTime
        BY <1>5, StepsOf, StoreSumIs
  <2> QED BY <1>0, <2>1 DEF Placed, Others
<1>6. ASSUME TakesTime PROVE Placed'
  <2>1. Others(Setter) /\ call'[Setter] = "log" /\ networkTime' \in Nat
        BY <1>0, <1>6, StepsOfSetter, TakesTimeIs
  <2>2. networkTime' # None BY <2>1 DEF None
  <2> QED BY <1>0, <2>1, <2>2 DEF Placed, Others
<1>7. ASSUME SetUTCTime PROVE Placed'
  <2>1. /\ Others(Setter) /\ call[Setter] = "set" /\ call'[Setter] = "settle"
        /\ networkTime' = networkTime
        BY <1>7, StepsOfSetter, SetUTCTimeIs
  <2> QED BY <1>0, <2>1 DEF Placed, Others
<1>8. ASSUME SetSystemTime PROVE Placed'
  <2>1. Others(Setter) /\ call'[Setter] = "idle" /\ networkTime' = None
        BY <1>8, StepsOfSetter, SetSystemTimeIs
  <2> QED BY <1>0, <2>1 DEF Placed, Others
<1>9. ASSUME Tick \/ UNCHANGED clockVars PROVE Placed'
  <2>1. call' = call /\ networkTime' = networkTime BY <1>9, StillOrTick
  <2> QED BY <2>1 DEF Placed
<1> QED BY WallAction, <1>1, <1>2, <1>3, <1>4, <1>5, <1>6, <1>7, <1>8, <1>9

(* Only the second half of a setting forgets that calls have met.           *)
LEMMA MeetsOrSets ==
  ASSUME WallTypes, [ClockNext]_clockVars
  PROVE  \/ UNCHANGED clockVars
         \/ met' = (met \/ Met')
         \/ SetUTCTime /\ Sole(Setter) /\ met' = FALSE
<1>0. PlacesTyped /\ Setter \in Users BY WallConstants DEF WallTypes
<1>1. SUFFICES ASSUME ClockNext, Stands(Setter, "set"), call'[Setter] = "settle",
                      Sole(Setter), met' = FALSE
               PROVE  SetUTCTime
      BY DEF ClockNext
<1>2. call[Setter] = "set" BY <1>1 DEF Stands
<1>3. ASSUME NEW t \in Users, GetTime(t) PROVE FALSE
  <2>1. Others(t) /\ call'[t] = "test" BY <1>3, StepsOf
  <2> QED BY <1>0, <1>1, <1>2, <2>1 DEF Others
<1>4. ASSUME NEW t \in Users, TestWrap(t) PROVE FALSE
  <2>1. Others(t) /\ call'[t] \in {"add", "plain"} BY <1>4, StepsOf
  <2> QED BY <1>0, <1>1, <1>2, <2>1 DEF Others
<1>5. ASSUME NEW t \in Users, Plain(t) \/ Rebase(t) PROVE FALSE
  <2>1. Others(t) /\ call'[t] \in {"idle", "set"} BY <1>5, ReturnsAre
  <2> QED BY <1>0, <1>1, <1>2, <2>1 DEF Others
<1>6. ASSUME NEW t \in Users, AddWrapped(t) PROVE FALSE
  <2>1. Others(t) /\ call'[t] = "store" BY <1>6, StepsOf
  <2> QED BY <1>0, <1>1, <1>2, <2>1 DEF Others
<1>7. ASSUME NEW t \in Users, StoreSum(t) PROVE FALSE
  <2>1. Others(t) /\ call'[t] = "rebase" BY <1>7, StepsOf
  <2> QED BY <1>0, <1>1, <1>2, <2>1 DEF Others
<1>8. ASSUME TakesTime PROVE FALSE BY <1>1, <1>8, StepsOfSetter
<1>9. ASSUME SetSystemTime PROVE FALSE BY <1>1, <1>9, StepsOfSetter
<1>10. ASSUME Tick \/ UNCHANGED clockVars PROVE FALSE
       BY <1>1, <1>2, <1>10, StillOrTick
<1> QED BY WallAction, <1>1, <1>3, <1>4, <1>5, <1>6, <1>7, <1>8, <1>9, <1>10

LEMMA WriterAloneKept ==
  ASSUME WallTypes, WriterAlone, [ClockNext]_clockVars
  PROVE  WriterAlone'
<1>1. CASE UNCHANGED clockVars
  <2>1. met' = met /\ call' = call BY <1>1, StillIs
  <2> QED BY <2>1 DEF WriterAlone, Sole, Busy
<1>2. CASE met' = (met \/ Met')
  <2> SUFFICES ASSUME ~met', NEW t \in Users, call'[t] \in Writing,
                      NEW u \in Users \ {t}
               PROVE  call'[u] = "idle"
      BY DEF WriterAlone, Sole, Busy
  <2>1. ~Met' BY <1>2
  <2> QED BY <2>1 DEF Met, Busy
<1>3. CASE SetUTCTime /\ Sole(Setter)
  <2>1. Others(Setter) BY <1>3, StepsOfSetter
  <2>2. \A u \in Users \ {Setter} : call'[u] = "idle"
        BY <1>3, <2>1 DEF Others, Sole, Busy
  <2>3. \A t \in Users : call'[t] \in Writing => t = Setter BY <2>2 DEF Writing
  <2> QED BY <2>2, <2>3 DEF WriterAlone, Sole, Busy
<1> QED BY MeetsOrSets, <1>1, <1>2, <1>3

LEMMA StallsKept ==
  ASSUME WallTypes, Stalls, [ClockNext]_clockVars
  PROVE  Stalls'
<1>0. /\ milli \in Nat /\ MaxStall \in Nat /\ MaxPause \in Nat /\ Setter \in Users
      /\ reading.from \in Nat /\ reading.to \in Nat /\ setting.at \in Nat
      /\ \A t \in Users : begun[t] \in Nat
      /\ Limit = MaxPause + MaxStall /\ Limit \in Nat
      BY WallTyped, WallConstants DEF Limit
<1>1. /\ \A t \in Users : begun[t] <= milli
      /\ \A t \in Users : call[t] # "idle" => milli - begun[t] <= MaxStall
      /\ milli - reading.from <= Limit
      /\ reading.from <= reading.to /\ reading.to <= milli
      /\ setting.at <= milli /\ reading.set.at <= reading.to
      BY DEF Stalls, Busy
<1> DEFINE CallsStall ==
             /\ \A t \in Users : begun'[t] <= milli'
             /\ \A t \in Users : call'[t] # "idle" => milli' - begun'[t] <= MaxStall
           RecordsStall ==
             /\ milli' - reading'.from <= Limit
             /\ reading'.from <= reading'.to /\ reading'.to <= milli'
             /\ setting'.at <= milli' /\ reading'.set.at <= reading'.to
<1>2. SUFFICES CallsStall /\ RecordsStall BY DEF Stalls, Busy
<1>3. ASSUME NEW t \in Users, Others(t), milli' = milli,
             \/ begun'[t] = begun[t] /\ (call'[t] # "idle" => call[t] # "idle")
             \/ begun'[t] = milli
             \/ begun'[t] = 0 /\ call'[t] = "idle"
      PROVE  CallsStall
  <2>1. begun'[t] <= milli' /\ (call'[t] # "idle" => milli' - begun'[t] <= MaxStall)
        BY <1>0, <1>1, <1>3
  <2>2. \A u \in Users \ {t} : begun'[u] <= milli' /\ (call'[u] # "idle" => milli' - begun'[u] <= MaxStall)
        BY <1>1, <1>3 DEF Others
  <2> QED BY <2>1, <2>2
<1>4. ASSUME milli' = milli, setting' = setting, reading' = reading PROVE RecordsStall
      BY <1>1, <1>4
<1> HIDE DEF CallsStall, RecordsStall
<1>5. ASSUME NEW t \in Users, GetTime(t) PROVE CallsStall /\ RecordsStall
  <2>1. /\ Others(t) /\ milli' = milli /\ setting' = setting /\ reading' = reading
        /\ begun'[t] = milli \/ (begun'[t] = begun[t] /\ call[t] # "idle")
        BY <1>5, StepsOf, GetTimeIs
  <2> QED BY <1>3, <1>4, <2>1
<1>6. ASSUME NEW t \in Users, TestWrap(t) PROVE CallsStall /\ RecordsStall
  <2>1. /\ Others(t) /\ milli' = milli /\ setting' = setting /\ reading' = reading
        /\ begun'[t] = begun[t] /\ call[t] = "test"
        BY <1>6, StepsOf, TestWrapIs
  <2> QED BY <1>3, <1>4, <2>1
<1>7. ASSUME NEW t \in Users, AddWrapped(t) PROVE CallsStall /\ RecordsStall
  <2>1. /\ Others(t) /\ milli' = milli /\ setting' = setting /\ reading' = reading
        /\ begun'[t] = begun[t] /\ call[t] = "add"
        BY <1>7, StepsOf, AddWrappedIs
  <2> QED BY <1>3, <1>4, <2>1
<1>8. ASSUME NEW t \in Users, StoreSum(t) PROVE CallsStall /\ RecordsStall
  <2>1. /\ Others(t) /\ milli' = milli /\ setting' = setting /\ reading' = reading
        /\ begun'[t] = begun[t] /\ call[t] = "store"
        BY <1>8, StepsOf, StoreSumIs
  <2> QED BY <1>3, <1>4, <2>1
<1>9. ASSUME NEW t \in Users, Plain(t) \/ Rebase(t) PROVE CallsStall /\ RecordsStall
  <2>1. /\ Others(t) /\ call[t] # "idle" /\ milli' = milli /\ setting' = setting
        /\ (begun'[t] = begun[t] \/ (begun'[t] = 0 /\ call'[t] = "idle"))
        BY <1>9, ReturnsAre
  <2>2. CallsStall BY <1>3, <2>1
  <2>3. reading'.from = begun[t] /\ reading'.to = milli /\ reading'.set = setting
        BY <1>9, ReturnsAre
  <2>4. begun[t] <= milli /\ milli - begun[t] <= MaxStall BY <1>1, <2>1
  <2>5. RecordsStall BY <1>0, <1>1, <2>1, <2>3, <2>4 DEF RecordsStall
  <2> QED BY <2>2, <2>5
<1>10. ASSUME TakesTime PROVE CallsStall /\ RecordsStall
  <2>1. /\ Others(Setter) /\ milli' = milli /\ setting' = setting /\ reading' = reading
        /\ begun'[Setter] = milli
        BY <1>10, StepsOfSetter, TakesTimeIs DEF WallTypes
  <2> QED BY <1>0, <1>3, <1>4, <2>1
<1>11. ASSUME SetUTCTime PROVE CallsStall /\ RecordsStall
  <2>1. /\ Others(Setter) /\ milli' = milli /\ setting' = setting /\ reading' = reading
        /\ begun'[Setter] = begun[Setter] /\ call[Setter] # "idle"
        BY <1>11, StepsOfSetter, SetUTCTimeIs
  <2> QED BY <1>0, <1>3, <1>4, <2>1
<1>12. ASSUME SetSystemTime PROVE CallsStall /\ RecordsStall
  <2>1. /\ Others(Setter) /\ milli' = milli /\ setting'.at = milli /\ reading' = reading
        /\ begun'[Setter] = 0 /\ call'[Setter] = "idle"
        BY <1>12, StepsOfSetter, SetSystemTimeIs
  <2>2. CallsStall BY <1>0, <1>3, <2>1
  <2>3. RecordsStall BY <1>0, <1>1, <2>1 DEF RecordsStall
  <2> QED BY <2>2, <2>3
<1>13. ASSUME Tick PROVE CallsStall /\ RecordsStall
  <2>1. /\ milli' = milli + 1 /\ call' = call /\ begun' = begun
        /\ setting' = setting /\ reading' = reading
        /\ \A t \in Users : call[t] # "idle" => milli - begun[t] < MaxStall
        /\ milli - reading.from < MaxPause
        BY <1>13, TickIsOne DEF Busy
  <2>2. CallsStall BY <1>0, <1>1, <2>1 DEF CallsStall
  <2>3. RecordsStall BY <1>0, <1>1, <2>1 DEF RecordsStall
  <2> QED BY <2>2, <2>3
<1>14. ASSUME UNCHANGED clockVars PROVE CallsStall /\ RecordsStall
  <2>1. UNCHANGED <<milli, call, begun, setting, reading>> BY <1>14, StillIs
  <2> QED BY <1>1, <2>1 DEF CallsStall, RecordsStall
<1> QED BY WallAction, <1>5, <1>6, <1>7, <1>8, <1>9, <1>10, <1>11, <1>12, <1>13, <1>14

LEMMA NearLater ==
  ASSUME NEW seconds \in Nat, NEW at \in Nat, NEW later \in Nat,
         Near(seconds, at, 0), at <= later, later - at <= MaxStall
  PROVE  Near(seconds, later, MaxStall)
<1>1. PER_SECOND \in Nat /\ Offset \in Nat /\ MaxStall \in Nat BY WallConstants
<1>2. PICK ms \in Int : ms = PER_SECOND * (seconds - Offset) BY <1>1
<1>3. ms <= at /\ at <= ms + 0 + PER_SECOND - 1 BY <1>2 DEF Near
<1>4. ms <= later /\ later <= ms + MaxStall + PER_SECOND - 1 BY <1>1, <1>2, <1>3
<1> QED BY <1>2, <1>4 DEF Near

LEMMA NetworkKept ==
  ASSUME WallTypes, Placed, Stalls, Network, [ClockNext]_clockVars
  PROVE  Network'
<1>0. Setter \in Users /\ milli \in Nat /\ milli \in Int /\ begun[Setter] \in Nat
      BY WallConstants, WallTyped
<1>1. ASSUME UNCHANGED <<networkTime, foreign, setting, reading>>,
             networkTime # None => begun'[Setter] = begun[Setter]
      PROVE  Network'
      BY <1>1 DEF Network
<1>2. ASSUME NEW t \in Users, GetTime(t) PROVE Network'
  <2>1. UNCHANGED <<networkTime, foreign, setting, reading>> BY <1>2, GetTimeIs
  <2>2. networkTime # None => begun'[Setter] = begun[Setter]
        BY <1>0, <1>2, StepsOf DEF Others, Placed
  <2> QED BY <1>1, <2>1, <2>2
<1>3. ASSUME NEW t \in Users, TestWrap(t) PROVE Network'
  <2>1. UNCHANGED <<networkTime, foreign, setting, reading, begun>> BY <1>3, TestWrapIs
  <2> QED BY <1>1, <2>1
<1>4. ASSUME NEW t \in Users, AddWrapped(t) PROVE Network'
  <2>1. UNCHANGED <<networkTime, foreign, setting, reading, begun>> BY <1>4, AddWrappedIs
  <2> QED BY <1>1, <2>1
<1>5. ASSUME NEW t \in Users, StoreSum(t) PROVE Network'
  <2>1. UNCHANGED <<networkTime, foreign, setting, reading, begun>> BY <1>5, StoreSumIs
  <2> QED BY <1>1, <2>1
<1>6. ASSUME NEW t \in Users, Plain(t) \/ Rebase(t) PROVE Network'
  <2>1. UNCHANGED <<networkTime, foreign, setting>> /\ reading'.set = setting
        BY <1>6, ReturnsAre
  <2>2. networkTime # None => begun'[Setter] = begun[Setter]
        BY <1>0, <1>6, ReturnsAre DEF Others
  <2> QED BY <2>1, <2>2 DEF Network
<1>7. ASSUME TakesTime PROVE Network'
  <2>1. /\ begun'[Setter] = milli /\ UNCHANGED <<setting, reading>>
        /\ ~foreign' => networkTime' = Seconds(milli) + Offset
        BY <1>7, StepsOfSetter, TakesTimeIs DEF WallTypes
  <2>2. PICK k \in Int : k = Seconds(milli) BY <1>0, SecondsAre
  <2>3. PICK p \in Int : p = PER_SECOND * k /\ p <= milli /\ milli < p + PER_SECOND
        BY <1>0, <2>2, SecondsAre
  <2>4. (k + Offset) - Offset = k BY <2>2, WallConstants
  <2>5. Near(k + Offset, milli, 0)
    <3>1. PER_SECOND * ((k + Offset) - Offset) = p BY <2>3, <2>4
    <3>2. p <= milli /\ milli <= p + 0 + PER_SECOND - 1 BY <1>0, <2>3, WallConstants
    <3> QED BY <3>1, <3>2 DEF Near
  <2>6. ~foreign' => Near(networkTime', begun'[Setter], 0) BY <2>1, <2>2, <2>5
  <2> QED BY <2>1, <2>6 DEF Network
<1>8. ASSUME SetUTCTime PROVE Network'
  <2>1. UNCHANGED <<networkTime, foreign, setting, reading, begun>> BY <1>8, SetUTCTimeIs
  <2> QED BY <1>1, <2>1
<1>9. ASSUME SetSystemTime PROVE Network'
  <2>1. /\ call[Setter] = "settle" /\ networkTime' = None /\ reading' = reading
        /\ setting' = [at |-> milli, seconds |-> networkTime,
                       from |-> IF foreign THEN "other" ELSE "network"]
        BY <1>9, SetSystemTimeIs
  <2>2. networkTime # None /\ networkTime \in Nat
        BY <2>1 DEF Placed, WallTypes, TimesTyped
  <2>3. begun[Setter] <= milli /\ milli - begun[Setter] <= MaxStall
        BY <1>0, <2>1 DEF Stalls, Busy
  <2>4. ~foreign => Near(networkTime, begun[Setter], 0) BY <2>2 DEF Network
  <2>5. ~foreign => Near(networkTime, milli, MaxStall) BY <1>0, <2>2, <2>3, <2>4, NearLater
  <2>6. setting'.from = "network" => ~foreign BY <2>1
  <2>7. setting'.from = "network" => Near(setting'.seconds, setting'.at, MaxStall)
        BY <2>1, <2>5, <2>6
  <2> QED BY <2>1, <2>7 DEF Network
<1>10. ASSUME Tick \/ UNCHANGED clockVars PROVE Network' BY <1>1, <1>10, StillOrTick
<1> QED BY WallAction, <1>2, <1>3, <1>4, <1>5, <1>6, <1>7, <1>8, <1>9, <1>10

LEMMA SettlingKept ==
  ASSUME WallTypes, WriterAlone, Settling, [ClockNext]_clockVars
  PROVE  Settling'
<1>0. Setter \in Users BY WallConstants
<1>1. SUFFICES ASSUME ~met', call'[Setter] = "settle" PROVE lastUTCTime' = networkTime'
      BY DEF Settling, Stands
<1>2. ASSUME UNCHANGED <<lastUTCTime, networkTime>>, call[Setter] = "settle", ~SetUTCTime
      PROVE  lastUTCTime' = networkTime'
  <2>1. ~met BY <1>1, <1>2, MeetsOrSets, StillIs
  <2> QED BY <1>2, <2>1 DEF Settling, Stands
<1>3. ASSUME NEW t \in Users, GetTime(t) PROVE lastUTCTime' = networkTime'
  <2>1. Others(t) /\ call'[t] = "test" BY <1>3, StepsOf
  <2>2. call[Setter] = "settle" BY <1>0, <1>1, <2>1 DEF Others
  <2> QED BY <1>2, <1>3, <2>2, GetTimeIs, SetUTCTimeIs
<1>4. ASSUME NEW t \in Users, TestWrap(t) PROVE lastUTCTime' = networkTime'
  <2>1. Others(t) /\ call'[t] \in {"add", "plain"} BY <1>4, StepsOf
  <2>2. call[Setter] = "settle" BY <1>0, <1>1, <2>1 DEF Others
  <2> QED BY <1>2, <1>4, <2>2, TestWrapIs, SetUTCTimeIs
<1>5. ASSUME NEW t \in Users, AddWrapped(t) PROVE lastUTCTime' = networkTime'
  <2>1. Others(t) /\ call'[t] = "store" BY <1>5, StepsOf
  <2>2. call[Setter] = "settle" BY <1>0, <1>1, <2>1 DEF Others
  <2> QED BY <1>2, <1>5, <2>2, AddWrappedIs, SetUTCTimeIs
<1>6. ASSUME NEW t \in Users, StoreSum(t) PROVE FALSE
  <2>1. Others(t) /\ call[t] = "store" /\ call'[t] = "rebase" BY <1>6, StepsOf, StoreSumIs
  <2>2. WriterAlone' BY WriterAloneKept
  <2>3. t # Setter BY <1>1, <2>1
  <2>4. call'[t] = "idle"
        BY <1>0, <1>1, <2>2, <2>3
           DEF WriterAlone, Sole, Busy, Writing
  <2> QED BY <2>1, <2>4
<1>7. ASSUME NEW t \in Users, Plain(t) \/ Rebase(t)
      PROVE  lastUTCTime' = networkTime'
  <2>1. Others(t) /\ call'[t] \in {"idle", "set"} /\ call[t] # "set" BY <1>7, ReturnsAre
  <2>2. call[Setter] = "settle" BY <1>0, <1>1, <2>1 DEF Others
  <2>3. ~SetUTCTime BY <2>2, SetUTCTimeIs
  <2> QED BY <1>2, <1>7, <2>2, <2>3, ReturnsAre
<1>8. ASSUME TakesTime PROVE FALSE BY <1>1, <1>8, StepsOfSetter
<1>9. ASSUME SetUTCTime PROVE lastUTCTime' = networkTime' BY <1>9, SetUTCTimeIs
<1>10. ASSUME SetSystemTime PROVE FALSE BY <1>1, <1>10, StepsOfSetter
<1>11. ASSUME Tick \/ UNCHANGED clockVars PROVE lastUTCTime' = networkTime'
  <2>1. UNCHANGED <<lastUTCTime, networkTime, call>> BY <1>11, StillOrTick
  <2>2. ~SetUTCTime BY <1>1, <2>1, SetUTCTimeIs
  <2> QED BY <1>1, <1>2, <2>1, <2>2
<1> QED BY WallAction, <1>3, <1>4, <1>5, <1>6, <1>7, <1>8, <1>9, <1>10, <1>11

(* What is quiet after a step that does not set the clock was quiet before. *)
LEMMA QuietBefore ==
  ASSUME WallTypes, [ClockNext]_clockVars, Quiet',
         ~SetSystemTime
  PROVE  /\ Quiet /\ setting' = setting /\ milli <= milli' /\ milli' \in Nat
         /\ Lap' = Lap /\ Wrap' = Wrap /\ ~SetUTCTime
<1>0. Setter \in Users /\ milli \in Nat /\ Lap \in Int /\ RANGE \in Nat /\ Wrap = Lap + RANGE
      BY WallConstants, WallTyped, LapIs DEF WallTypes
<1>1. ~met' /\ Spared' /\ OneWrap' /\ call'[Setter] # "settle" BY DEF Quiet, Stands
<1>2. ~SetUTCTime BY <1>1, StepsOfSetter
<1>3. ~met BY <1>1, <1>2, MeetsOrSets, StillIs
<1>4. setting' = setting /\ (milli' = milli \/ milli' = milli + 1)
      BY <1>2, WallAction, GetTimeIs, TestWrapIs, AddWrappedIs, StoreSumIs, ReturnsAre,
         TakesTimeIs, TickIsOne, StillIs DEF WallTypes
<1>5. Lap' = Lap /\ Wrap' = Wrap BY <1>4 DEF Lap, Wrap
<1>6. Spared BY <1>1, <1>4, <1>5 DEF Spared
<1>7. OneWrap BY <1>0, <1>1, <1>4, <1>5 DEF OneWrap
<1>8. call[Setter] # "settle"
  <2>1. ASSUME call[Setter] = "settle" PROVE FALSE
    <3>1. ASSUME NEW t \in Users, Others(t), call[t] # "settle" PROVE FALSE
          BY <1>0, <1>1, <2>1, <3>1 DEF Others
    <3>2. ASSUME NEW t \in Users, GetTime(t) PROVE FALSE
          BY <3>1, <3>2, GetTimeIs, StepsOf
    <3>3. ASSUME NEW t \in Users, TestWrap(t) PROVE FALSE
          BY <3>1, <3>3, TestWrapIs, StepsOf
    <3>4. ASSUME NEW t \in Users, AddWrapped(t) PROVE FALSE
          BY <3>1, <3>4, AddWrappedIs, StepsOf
    <3>5. ASSUME NEW t \in Users, StoreSum(t) PROVE FALSE
          BY <3>1, <3>5, StoreSumIs, StepsOf
    <3>6. ASSUME NEW t \in Users, Plain(t) \/ Rebase(t) PROVE FALSE
          BY <3>1, <3>6, ReturnsAre
    <3>7. ~TakesTime BY <2>1, TakesTimeIs DEF WallTypes
    <3>8. ASSUME Tick \/ UNCHANGED clockVars PROVE FALSE
          BY <1>1, <2>1, <3>8, StillOrTick
    <3> QED BY <1>2, WallAction, <3>2, <3>3, <3>4, <3>5, <3>6, <3>7, <3>8
  <2> QED BY <2>1
<1> QED BY <1>0, <1>2, <1>3, <1>4, <1>5, <1>6, <1>7, <1>8 DEF Quiet, Stands
-----------------------------------------------------------------------------
(* While it is quiet: the counter, as one setting and one wrap leave it.    *)
LEMMA QuietIs ==
  ASSUME WallTypes, Stalls, Quiet
  PROVE  /\ setting.at \in Nat /\ setting.seconds \in Nat /\ Lap \in Int /\ Wrap \in Int
         /\ RANGE \in Nat /\ RANGE > 0 /\ Wrap = Lap + RANGE /\ Lap <= setting.at
         /\ Limit \in Nat /\ Limit = MaxPause + MaxStall
         /\ setting.at < Wrap /\ setting.at - Lap >= Limit
         /\ milli \in Nat /\ setting.at <= milli /\ milli < Wrap + RANGE
         /\ reading.from \in Nat /\ reading.to \in Nat /\ milli - reading.from <= Limit
         /\ reading.to <= milli /\ reading.value \in Nat
         /\ lastSystemTime \in Nat /\ lastSystemTime < RANGE /\ lastUTCTime \in Nat
         /\ Rebased \in Int /\ Rebased = Wrap + lastSystemTime
         /\ Corrected <=> lastSystemTime < Limit
         /\ ~met /\ call[Setter] # "settle"
<1>1. /\ Lap \in Int /\ Wrap = Lap + RANGE /\ Lap <= setting.at /\ setting.at < Wrap
      /\ RANGE \in Nat \ {0}
      BY LapIs DEF WallTypes
<1>2. /\ milli \in Nat /\ setting.at \in Nat /\ setting.seconds \in Nat
      /\ reading.from \in Nat /\ reading.to \in Nat
      /\ reading.value \in Nat
      /\ lastSystemTime \in Nat /\ lastSystemTime < RANGE /\ lastUTCTime \in Nat
      BY WallTyped
<1>3. MaxPause + MaxStall \in Nat BY WallConstants
<1>4. ~met /\ call[Setter] # "settle" /\ Spared /\ OneWrap BY DEF Quiet, Stands
<1>5. setting.at <= milli /\ milli - reading.from <= Limit /\ reading.to <= milli
      BY DEF Stalls
<1> QED BY <1>1, <1>2, <1>3, <1>4, <1>5 DEF Spared, OneWrap, Rebased, Corrected, Limit

LEMMA UpIs ==
  ASSUME WallTypes, NEW ms \in Int, ms >= setting.at
  PROVE  /\ Up(ms) \in Nat /\ Seconds(ms - setting.at) \in Nat
         /\ Up(ms) = setting.seconds + Seconds(ms - setting.at)
         /\ \A later \in Int : ms <= later => Up(ms) <= Up(later)
<1>1. setting.at \in Nat /\ setting.seconds \in Nat BY WallTyped
<1>2. ms - setting.at \in Nat BY <1>1
<1>3. Seconds(ms - setting.at) \in Nat BY <1>2, SecondsNat
<1>4. ASSUME NEW later \in Int, ms <= later PROVE Up(ms) <= Up(later)
  <2>1. later - setting.at \in Int /\ ms - setting.at \in Int
        /\ ms - setting.at <= later - setting.at
        BY <1>1, <1>4
  <2>2. Seconds(ms - setting.at) <= Seconds(later - setting.at)
        BY <2>1, SecondsGrow
  <2>3. Seconds(ms - setting.at) \in Int /\ Seconds(later - setting.at) \in Int
        BY <2>1, SecondsAre
  <2> QED BY <1>1, <2>2, <2>3 DEF Up
<1> QED BY <1>1, <1>3, <1>4 DEF Up

(* A call that tests for a wrap takes the right branch.                     *)
LEMMA TestsRight ==
  ASSUME WallTypes, Stalls, Quiet, Memory, NEW t \in Users,
         NEW ms \in Int, Fetched(t, ms), Corrected => ms >= Rebased
  PROVE  curTimeMs[t] < lastSystemTime <=> ~Corrected /\ ms >= Wrap
<1>1. /\ ms <= milli /\ ms >= setting.at
      /\ curTimeMs[t] = IF ms < Wrap THEN ms - Lap ELSE ms - Wrap
      BY DEF Fetched
<1>2. CASE Corrected
  <2>1. ms >= Rebased BY <1>2
  <2> QED BY <1>1, <1>2, <2>1, QuietIs
<1>3. CASE ~Corrected
  <2>1. lastSystemTime = setting.at - Lap /\ reading.from < Wrap BY <1>3 DEF Memory
  <2> QED BY <1>1, <1>3, <2>1, QuietIs
<1> QED BY <1>2, <1>3

(* What a call reads that meets no wrap.                                    *)
LEMMA PlainReads ==
  ASSUME WallTypes, Stalls, WriterAlone, Quiet, Memory, Calls,
         NEW t \in Users, Plain(t)
  PROVE  \E ms \in 0 .. milli :
           /\ Fetched(t, ms)
           /\ IF Corrected
              THEN /\ ms >= Rebased
                   /\ reading'.value = lastUTCTime + Seconds(ms - Rebased)
              ELSE ms < Wrap /\ reading'.value = Up(ms)
<1>1. call[t] = "plain" BY PlainIs
<1>2. PICK ms \in 0 .. milli : Fetched(t, ms) /\ Doing(t, ms)
      BY <1>1 DEF Calls, Reading
<1>3. ms \in Int BY WallTyped
<1>4. loaded[t] = lastSystemTime /\ IF Corrected THEN ms >= Rebased ELSE ms < Wrap
      BY <1>1, <1>2 DEF Doing
<1>5. reading'.value = lastUTCTime + Seconds((curTimeMs[t] - lastSystemTime) % RANGE)
  <2>1. Leaves(t, lastUTCTime + Seconds((curTimeMs[t] - lastSystemTime) % RANGE))
        BY <1>4, PlainIs
  <2> QED BY <2>1 DEF Leaves
<1>6. /\ ms <= milli /\ ms >= setting.at
      /\ curTimeMs[t] = IF ms < Wrap THEN ms - Lap ELSE ms - Wrap
      BY <1>2 DEF Fetched
<1>7. CASE Corrected
  <2>1. ms >= Rebased BY <1>4, <1>7
  <2>2. /\ curTimeMs[t] - lastSystemTime = ms - Rebased /\ ms - Rebased \in Int
        /\ 0 <= ms - Rebased /\ ms - Rebased < RANGE
        BY <1>3, <1>6, <2>1, QuietIs
  <2>3. (curTimeMs[t] - lastSystemTime) % RANGE = ms - Rebased BY <2>2, LessThanALap
  <2> QED BY <1>2, <1>5, <1>7, <2>1, <2>3
<1>8. CASE ~Corrected
  <2>1. ms < Wrap BY <1>4, <1>8
  <2>2. lastSystemTime = setting.at - Lap BY <1>8 DEF Memory
  <2>3. /\ curTimeMs[t] - lastSystemTime = ms - setting.at /\ ms - setting.at \in Int
        /\ 0 <= ms - setting.at /\ ms - setting.at < RANGE
        BY <1>3, <1>6, <2>1, <2>2, QuietIs
  <2>4. (curTimeMs[t] - lastSystemTime) % RANGE = ms - setting.at BY <2>3, LessThanALap
  <2>5. \A u \in Users : call[u] # "rebase"
    <3>1. ASSUME NEW u \in Users, call[u] = "rebase" PROVE FALSE
      <4>1. Sole(u) BY <3>1, QuietIs DEF WriterAlone, Writing
      <4>2. u # t BY <1>1, <3>1
      <4> QED BY <1>1, <4>1, <4>2 DEF Sole, Busy
    <3> QED BY <3>1
  <2>6. lastUTCTime = setting.seconds BY <1>8, <2>5 DEF Memory
  <2>7. reading'.value = Up(ms) BY <1>5, <2>4, <2>6 DEF Up
  <2> QED BY <1>2, <1>8, <2>1, <2>7
<1> QED BY <1>7, <1>8

(* What a call adds that has seen the counter wrap.                         *)
LEMMA AddsRight ==
  ASSUME WallTypes, Stalls, WriterAlone, Quiet, Memory,
         NEW t \in Users, AddWrapped(t), NEW ms \in Int, Fetched(t, ms), Doing(t, ms)
  PROVE  ~Corrected /\ ms >= Wrap /\ sum'[t] = Up(ms - 1)
<1>1. call[t] = "add" BY AddWrappedIs
<1>2. loaded[t] = lastSystemTime /\ ~Corrected /\ ms >= Wrap BY <1>1 DEF Doing
<1>3. lastSystemTime = setting.at - Lap /\ reading.from < Wrap BY <1>2 DEF Memory
<1>4. lastUTCTime = setting.seconds
  <2>1. Sole(t) BY <1>1, QuietIs DEF WriterAlone, Writing
  <2>2. \A u \in Users : call[u] # "rebase"
        BY <1>1, <2>1 DEF Sole, Busy
  <2> QED BY <1>2, <2>2 DEF Memory
<1>5. sum'[t] = lastUTCTime + Seconds((RANGE - 1 - lastSystemTime + curTimeMs[t]) % RANGE)
  <2>1. sum' = [sum EXCEPT ![t] =
          lastUTCTime + Seconds((RANGE - 1 - lastSystemTime + curTimeMs[t]) % RANGE)]
        BY <1>2, AddWrappedIs
  <2>2. sum \in [Users -> Nat] BY DEF WallTypes, CallsTyped
  <2> QED BY <2>1, <2>2
<1>6. ms <= milli /\ curTimeMs[t] = ms - Wrap
  <2>1. ~(ms < Wrap) BY <1>2, QuietIs
  <2> QED BY <2>1 DEF Fetched
<1>7. /\ RANGE - 1 - lastSystemTime + curTimeMs[t] = (ms - 1) - setting.at
      /\ (ms - 1) - setting.at \in Int
      /\ 0 <= (ms - 1) - setting.at /\ (ms - 1) - setting.at < RANGE
      BY <1>2, <1>3, <1>6, QuietIs
<1>8. (RANGE - 1 - lastSystemTime + curTimeMs[t]) % RANGE = (ms - 1) - setting.at
      BY <1>7, LessThanALap
<1> QED BY <1>2, <1>4, <1>5, <1>8 DEF Up

(* What a call returns that has counted a wrap.                             *)
LEMMA RebaseReads ==
  ASSUME WallTypes, Stalls, Quiet, Memory, Calls,
         NEW t \in Users, Rebase(t)
  PROVE  \E ms \in 0 .. milli :
           /\ Fetched(t, ms) /\ ms >= Wrap /\ ms < Wrap + Limit /\ ~Corrected
           /\ reading'.value = Up(ms - 1) /\ lastUTCTime = Up(ms - 1)
           /\ lastSystemTime' = ms - Wrap
<1>1. call[t] = "rebase" BY RebaseIs
<1>2. PICK ms \in 0 .. milli : Fetched(t, ms) /\ Doing(t, ms)
      BY <1>1 DEF Calls, Reading
<1>3. ms \in Int BY WallTyped
<1>4. ~Corrected /\ ms >= Wrap /\ sum[t] = Up(ms - 1) /\ lastUTCTime = sum[t]
      BY <1>1, <1>2 DEF Doing, Counted
<1>5. reading'.value = Up(ms - 1)
  <2>1. Leaves(t, sum[t]) BY <1>4, RebaseIs
  <2> QED BY <1>4, <2>1 DEF Leaves
<1>6. ~(ms < Wrap) BY <1>3, <1>4, QuietIs
<1>7. lastSystemTime' = ms - Wrap BY <1>2, <1>6, RebaseIs DEF Fetched
<1>8. ms < Wrap + Limit
  <2>1. reading.from < Wrap BY <1>4 DEF Memory
  <2>2. ms <= milli BY <1>2 DEF Fetched
  <2> QED BY <1>3, <2>1, <2>2, QuietIs
<1> QED BY <1>2, <1>4, <1>5, <1>7, <1>8
-----------------------------------------------------------------------------
(* The memory stays right.                                                  *)
LEMMA MemoryStays ==
  ASSUME WallTypes, Memory, [ClockNext]_clockVars, Quiet',
         ~SetSystemTime,
         UNCHANGED <<lastUTCTime, lastSystemTime, reading>>,
         \A u \in Users : call[u] = "rebase" => call'[u] = "rebase"
  PROVE  Memory'
<1>1. /\ Quiet /\ setting' = setting /\ milli <= milli' /\ milli' \in Nat
      /\ Lap' = Lap /\ Wrap' = Wrap
      BY QuietBefore
<1>2. Corrected' = Corrected BY DEF Corrected
<1>3. Rebased' = Rebased BY <1>1 DEF Rebased
<1>4. (ToldBefore' <=> ToldBefore) /\ (ToldAfter' <=> ToldAfter)
  <2>1. Told' <=> Told BY <1>1 DEF Told
  <2>2. ToldBefore' <=> ToldBefore BY <1>1, <2>1 DEF ToldBefore, Up
  <2>3. ToldAfter' <=> ToldAfter BY <1>3, <2>1 DEF ToldAfter
  <2> QED BY <2>2, <2>3
<1>5. CASE Corrected
  <2>1. Rebased <= milli /\ lastUTCTime = Up(Rebased - 1) /\ ToldAfter
        BY <1>1, <1>5 DEF Memory
  <2>2. Rebased \in Int /\ milli \in Int
    <3>1. Lap \in Int /\ RANGE \in Int /\ Wrap = Lap + RANGE BY LapIs DEF WallTypes
    <3> QED BY <3>1, WallTyped DEF Rebased
  <2>3. Rebased' <= milli' BY <1>1, <1>3, <2>1, <2>2
  <2>4. lastUTCTime' = setting.seconds + Seconds((Rebased - 1) - setting.at)
        BY <2>1 DEF Up
  <2>5. lastUTCTime' = setting'.seconds + Seconds((Rebased' - 1) - setting'.at)
        BY <1>1, <1>3, <2>4
  <2> QED BY <1>2, <1>4, <1>5, <2>1, <2>3, <2>5 DEF Memory, Up
<1>6. CASE ~Corrected
  <2>1. /\ lastSystemTime = setting.at - Lap /\ reading.from < Wrap /\ ToldBefore
        /\ (\A t \in Users : call[t] # "rebase") => lastUTCTime = setting.seconds
        BY <1>1, <1>6 DEF Memory
  <2>2. /\ lastSystemTime' = setting'.at - Lap' /\ reading'.from < Wrap' /\ ToldBefore'
        BY <1>1, <1>4, <2>1
  <2>3. (\A t \in Users : call'[t] # "rebase") => lastUTCTime' = setting'.seconds
        BY <1>1, <2>1
  <2> QED BY <1>2, <1>6, <2>2, <2>3 DEF Memory
<1> QED BY <1>5, <1>6

LEMMA MemoryPlain ==
  ASSUME WallTypes, Stalls, WriterAlone, Memory, Calls,
         [ClockNext]_clockVars, Quiet', NEW t \in Users, Plain(t)
  PROVE  Memory'
<1>0. ~SetSystemTime
  <2>1. call[t] = "plain" /\ lastSystemTime' = lastSystemTime /\ setting' = setting
        /\ Others(t) /\ call'[t] \in {"idle", "set"}
        BY PlainIs, ReturnsAre
  <2>2. ASSUME SetSystemTime PROVE FALSE
    <3>1. call[Setter] = "settle" /\ call'[Setter] = "idle" BY <2>2, StepsOfSetter, SetSystemTimeIs
    <3> QED BY <2>1, <3>1, WallConstants DEF Others
  <2> QED BY <2>2
<1>1. /\ Quiet /\ setting' = setting /\ milli <= milli' /\ milli' \in Nat
      /\ Lap' = Lap /\ Wrap' = Wrap
      BY <1>0, QuietBefore
<1>2. /\ lastUTCTime' = lastUTCTime /\ lastSystemTime' = lastSystemTime /\ milli' = milli
      /\ call[t] = "plain"
      BY PlainIs
<1>3. /\ reading'.from = begun[t] /\ reading'.to = milli /\ Others(t)
      /\ call'[t] \in {"idle", "set"}
      BY ReturnsAre
<1>4. Corrected' = Corrected BY <1>2 DEF Corrected
<1>5. Rebased' = Rebased BY <1>1, <1>2 DEF Rebased
<1>6. PICK ms \in 0 .. milli :
        /\ Fetched(t, ms)
        /\ IF Corrected
           THEN ms >= Rebased /\ reading'.value = lastUTCTime + Seconds(ms - Rebased)
           ELSE ms < Wrap /\ reading'.value = Up(ms)
      BY <1>1, PlainReads
<1>7. ms \in Int /\ ms >= begun[t] /\ ms <= milli /\ ms >= setting.at /\ begun[t] \in Nat
      BY <1>6, WallTyped DEF Fetched
<1>8. CASE Corrected
  <2>1. Rebased <= milli /\ lastUTCTime = Up(Rebased - 1) BY <1>1, <1>8 DEF Memory
  <2>2. ms >= Rebased /\ reading'.value = lastUTCTime + Seconds(ms - Rebased)
        BY <1>6, <1>8
  <2>3. /\ Rebased \in Int /\ milli \in Int /\ lastUTCTime \in Int
        BY <1>1, QuietIs
  <2>4. Seconds(ms - Rebased) <= Seconds(milli - Rebased)
        /\ Seconds(ms - Rebased) \in Int /\ Seconds(milli - Rebased) \in Int
    <3>1. ms - Rebased \in Int /\ milli - Rebased \in Int /\ ms - Rebased <= milli - Rebased
          BY <1>7, <2>3
    <3> QED BY <3>1, SecondsGrow, SecondsAre
  <2>5. reading'.value <= lastUTCTime + Seconds(milli - Rebased) BY <2>2, <2>3, <2>4
  <2>6. ToldAfter' BY <1>2, <1>3, <1>5, <2>1, <2>5 DEF ToldAfter
  <2>7. lastUTCTime' = setting'.seconds + Seconds((Rebased' - 1) - setting'.at)
        BY <1>1, <1>2, <1>5, <2>1 DEF Up
  <2>8. Rebased' <= milli' BY <1>2, <1>5, <2>1
  <2> QED BY <1>4, <1>8, <2>6, <2>7, <2>8 DEF Memory, Up
<1>9. CASE ~Corrected
  <2>1. lastSystemTime = setting.at - Lap BY <1>1, <1>9 DEF Memory
  <2>2. ms < Wrap /\ reading'.value = Up(ms) BY <1>6, <1>9
  <2>3. reading'.from < Wrap' BY <1>1, <1>3, <1>7, <2>2, QuietIs
  <2>4. reading'.value = setting'.seconds + Seconds(ms - setting'.at)
        /\ reading'.value \in Int
    <3>1. reading'.value = setting.seconds + Seconds(ms - setting.at) BY <2>2 DEF Up
    <3>2. reading'.value \in Nat BY <1>7, <2>2, UpIs
    <3> QED BY <1>1, <3>1, <3>2
  <2>5. ms \in setting'.at .. reading'.to BY <1>1, <1>3, <1>7, WallTyped
  <2>6. ToldBefore'
    <3>1. ms < Wrap' /\ reading'.value <= setting'.seconds + Seconds(ms - setting'.at)
          BY <1>1, <2>2, <2>4
    <3> QED BY <2>5, <3>1 DEF ToldBefore, Up
  <2>7. ASSUME \A u \in Users : call'[u] # "rebase" PROVE lastUTCTime = setting.seconds
    <3>1. \A u \in Users : call[u] # "rebase" BY <1>2, <1>3, <2>7 DEF Others
    <3> QED BY <1>1, <1>9, <3>1 DEF Memory
  <2>8. (\A u \in Users : call'[u] # "rebase") => lastUTCTime' = setting'.seconds
        BY <1>1, <1>2, <2>7
  <2>9. lastSystemTime' = setting'.at - Lap' BY <1>1, <1>2, <2>1
  <2> QED BY <1>4, <1>9, <2>3, <2>6, <2>8, <2>9 DEF Memory
<1> QED BY <1>8, <1>9

LEMMA MemoryRebase ==
  ASSUME WallTypes, Stalls, Memory, Calls,
         [ClockNext]_clockVars, Quiet', NEW t \in Users, Rebase(t)
  PROVE  Memory'
<1>0. ~SetSystemTime
  <2>1. call[t] = "rebase" /\ Others(t) /\ call'[t] \in {"idle", "set"}
        BY RebaseIs, ReturnsAre
  <2>2. ASSUME SetSystemTime PROVE FALSE
    <3>1. call[Setter] = "settle" /\ call'[Setter] = "idle" BY <2>2, StepsOfSetter, SetSystemTimeIs
    <3> QED BY <2>1, <3>1, WallConstants DEF Others
  <2> QED BY <2>2
<1>1. /\ Quiet /\ setting' = setting /\ Wrap' = Wrap BY <1>0, QuietBefore
<1>2. PICK ms \in 0 .. milli :
        /\ Fetched(t, ms) /\ ms >= Wrap /\ ms < Wrap + Limit /\ ~Corrected
        /\ reading'.value = Up(ms - 1) /\ lastUTCTime = Up(ms - 1)
        /\ lastSystemTime' = ms - Wrap
      BY <1>1, RebaseReads
<1>3. ms \in Int /\ ms <= milli /\ milli \in Int /\ Wrap \in Int /\ Limit \in Int
      BY <1>1, <1>2, QuietIs
<1>4. Corrected' BY <1>1, <1>2, <1>3, QuietIs DEF Corrected
<1>5. Rebased' = ms BY <1>1, <1>2, <1>3 DEF Rebased
<1>6. lastUTCTime' = lastUTCTime /\ milli' = milli /\ reading'.to = milli
      BY RebaseIs, ReturnsAre
<1>7. lastUTCTime' = setting'.seconds + Seconds((Rebased' - 1) - setting'.at)
      BY <1>1, <1>2, <1>5, <1>6 DEF Up
<1>8. reading'.value <= lastUTCTime' + Seconds(reading'.to - Rebased')
  <2>1. milli - ms \in Nat BY <1>2, <1>3
  <2>2. Seconds(milli - ms) \in Nat BY <2>1, SecondsNat
  <2>3. lastUTCTime \in Nat BY WallTyped
  <2> QED BY <1>2, <1>5, <1>6, <2>2, <2>3
<1>9. ToldAfter' BY <1>3, <1>5, <1>6, <1>8 DEF ToldAfter
<1>10. Rebased' <= milli' BY <1>3, <1>5, <1>6
<1> QED BY <1>4, <1>7, <1>9, <1>10 DEF Memory, Up

LEMMA MemorySet ==
  ASSUME WallTypes, WallTypes', Placed, Stalls, Settling, Accurate,
         [ClockNext]_clockVars, Quiet', SetSystemTime
  PROVE  Memory'
<1>1. /\ call[Setter] = "settle" /\ lastSystemTime' = milli % RANGE /\ milli' = milli
      /\ setting'.at = milli /\ setting'.seconds = networkTime
      /\ reading' = reading /\ lastUTCTime' = lastUTCTime
      BY SetSystemTimeIs
<1>2. Setter \in Users BY WallConstants
<1>3. ~met' /\ Spared' /\ ~SetUTCTime
  <2>1. ~SetUTCTime BY <1>1, SetUTCTimeIs
  <2> QED BY <2>1 DEF Quiet
<1>4. ~met BY <1>3, MeetsOrSets, StillIs
<1>5. lastUTCTime = networkTime BY <1>1, <1>4 DEF Settling, Stands
<1>6. /\ Lap' \in Int /\ Wrap' = Lap' + RANGE /\ RANGE \in Nat /\ Lap' <= milli
      /\ milli < Wrap' /\ milli % RANGE = milli - Lap' /\ milli \in Nat
      /\ milli \in Int /\ Wrap' \in Int
  <2>1. milli \in Nat BY WallTyped
  <2>2. Lap' = RANGE * (milli \div RANGE) BY <1>1 DEF Lap
  <2>3. /\ Lap' \in Int /\ RANGE \in Nat \ {0} /\ Lap' <= milli /\ milli < Lap' + RANGE
        /\ milli % RANGE = milli - Lap'
        BY <2>1, <2>2, LapOf, Zenon
  <2>4. Wrap' = Lap' + RANGE BY DEF Wrap
  <2>5. PICK lap \in Int : lap = Lap' /\ milli < lap + RANGE BY <2>3, Zenon
  <2>6. RANGE \in Nat BY WallConstants
  <2>7. Wrap' = lap + RANGE /\ milli < Wrap' BY <2>4, <2>5, Zenon
  <2>8. lap + RANGE \in Int /\ milli \in Int BY <2>1, <2>5, <2>6
  <2> QED BY <2>1, <2>3, <2>4, <2>6, <2>7, <2>8, Zenon
<1>13. Wrap' \in Int /\ milli < Wrap' /\ milli \in Int /\ reading' = reading
       BY <1>1, <1>6, Zenon
<1>7. milli - Lap' >= MaxPause + MaxStall BY <1>1, <1>3 DEF Spared, Limit
<1>8. MaxPause + MaxStall \in Nat BY WallConstants
<1>9. lastSystemTime' = setting'.at - Lap' /\ ~Corrected'
  <2>1. lastSystemTime' = setting'.at - Lap' BY <1>1, <1>6
  <2>2. lastSystemTime' = milli - Lap' BY <1>1, <1>6
  <2> QED BY <1>6, <1>7, <1>8, <2>1, <2>2 DEF Corrected, Limit
<1>10. reading'.from < Wrap'
  <2>1. reading.from <= reading.to /\ reading.to <= milli /\ reading.from \in Nat
        /\ reading.to \in Nat
        BY WallTyped DEF Stalls
  <2>2. reading'.from = reading.from BY <1>13
  <2>3. reading.from < Wrap' BY <1>13, <2>1
  <2> QED BY <2>2, <2>3
<1>11. ToldBefore'
  <2>1. SUFFICES ASSUME ~reading.raced, reading.set = setting'
                 PROVE  \E ms \in milli .. reading.to :
                          ms < Wrap' /\ reading.value <= networkTime + Seconds(ms - milli)
        BY <1>1 DEF ToldBefore, Told, Up
  <2>2. reading.set.at = milli /\ reading.set.seconds = networkTime BY <1>1, <2>1
  <2>3. reading.to = milli
        BY <2>2, WallTyped DEF Stalls
  <2>4. Seen
    <3>1. milli \div RANGE \in Int
      <4>1. milli \in Int /\ RANGE \in Nat \ {0} BY <1>6, WallConstants
      <4> QED BY <4>1, Division, Zenon
    <3>2. PICK q \in Int : q = milli \div RANGE BY <3>1
    <3>3. reading.to \div RANGE = q /\ reading.set.at \div RANGE = q BY <2>2, <2>3, <3>2
    <3>4. reading.to \div RANGE <= reading.set.at \div RANGE + 1 BY <3>2, <3>3
    <3>5. reading.set.at % RANGE >= MaxPause + MaxStall BY <1>6, <1>7, <2>2
    <3> QED BY <3>4, <3>5 DEF Seen
  <2>5. PER_SECOND * (reading.value - networkTime) <= 0
    <3>1. PER_SECOND * (reading.value - reading.set.seconds) <= reading.to - reading.set.at
          BY <2>1, <2>4 DEF Accurate
    <3>2. reading.to - reading.set.at = 0 BY <1>6, <2>2, <2>3
    <3> QED BY <2>2, <3>1, <3>2
  <2>6. networkTime \in Nat /\ reading.value \in Nat
        BY <1>1, <1>2, WallTyped DEF Placed, WallTypes, TimesTyped
  <2>7. reading.value <= networkTime
    <3>1. PER_SECOND \in Nat \ {0} BY WallConstants
    <3>2. PICK d \in Int : d = reading.value - networkTime BY <2>6
    <3>3. PER_SECOND * d <= 0 BY <2>5, <3>2
    <3>4. d <= 0
      <4>1. ASSUME d >= 1 PROVE FALSE
        <5>1. PER_SECOND * d >= PER_SECOND BY <3>1, <4>1
        <5> QED BY <3>1, <3>3, <5>1
      <4> QED BY <3>2, <4>1
    <3> QED BY <2>6, <3>2, <3>4
  <2>8. milli - milli = 0 /\ Seconds(0) \in Nat BY <1>6, SecondsNat
  <2>9. reading.value <= networkTime + Seconds(milli - milli) BY <2>6, <2>7, <2>8
  <2>10. milli \in milli .. reading.to /\ milli < Wrap' BY <1>13, <2>3
  <2> QED BY <2>9, <2>10
<1>12. lastUTCTime' = setting'.seconds BY <1>1, <1>5
<1> QED BY <1>9, <1>10, <1>11, <1>12 DEF Memory

LEMMA MemoryKept ==
  ASSUME WallTypes, WallTypes', Placed, WriterAlone, Stalls, Memory, Settling,
         Calls, Accurate, [ClockNext]_clockVars
  PROVE  Memory'
<1>0. SUFFICES ASSUME Quiet' PROVE Memory' BY DEF Memory
<1>1. CASE SetSystemTime BY <1>0, <1>1, MemorySet
<1>2. ASSUME ~SetSystemTime PROVE Memory'
  <2>1. ~SetUTCTime BY <1>0, <1>2, QuietBefore
  <2>2. ASSUME UNCHANGED <<lastUTCTime, lastSystemTime, reading>>,
               \A u \in Users : call[u] = "rebase" => call'[u] = "rebase"
        PROVE  Memory'
        BY <1>0, <1>2, <2>2, MemoryStays
  <2>3. ASSUME NEW t \in Users, GetTime(t) PROVE Memory'
    <3>1. Others(t) /\ call[t] # "rebase" BY <2>3, StepsOf, GetTimeIs
    <3>2. \A u \in Users : call[u] = "rebase" => call'[u] = "rebase" BY <3>1 DEF Others
    <3> QED BY <2>2, <2>3, <3>2, GetTimeIs
  <2>4. ASSUME NEW t \in Users, TestWrap(t) PROVE Memory'
    <3>1. Others(t) /\ call[t] # "rebase" BY <2>4, StepsOf, TestWrapIs
    <3>2. \A u \in Users : call[u] = "rebase" => call'[u] = "rebase" BY <3>1 DEF Others
    <3> QED BY <2>2, <2>4, <3>2, TestWrapIs
  <2>5. ASSUME NEW t \in Users, AddWrapped(t) PROVE Memory'
    <3>1. Others(t) /\ call[t] # "rebase" BY <2>5, StepsOf, AddWrappedIs
    <3>2. \A u \in Users : call[u] = "rebase" => call'[u] = "rebase" BY <3>1 DEF Others
    <3> QED BY <2>2, <2>5, <3>2, AddWrappedIs
  <2>6. ASSUME NEW t \in Users, StoreSum(t) PROVE Memory'
    <3>1. /\ call[t] = "store" /\ call'[t] = "rebase"
          /\ UNCHANGED <<lastSystemTime, reading, setting>>
          BY <2>6, StepsOf, StoreSumIs
    <3>2. Quiet /\ Wrap' = Wrap /\ Lap' = Lap BY <1>0, <1>2, QuietBefore
    <3>3. ~Corrected
      <4>1. PICK ms \in 0 .. milli : Doing(t, ms) BY <3>1, <3>2 DEF Calls, Reading
      <4> QED BY <3>1, <4>1 DEF Doing, Counted
    <3>4. lastSystemTime = setting.at - Lap /\ reading.from < Wrap /\ ToldBefore
          BY <3>2, <3>3 DEF Memory
    <3>5. ~Corrected' BY <3>1, <3>3 DEF Corrected
    <3>6. ToldBefore'
      <4>1. Told' <=> Told BY <3>1 DEF Told
      <4> QED BY <3>1, <3>2, <3>4, <4>1 DEF ToldBefore, Up
    <3>7. lastSystemTime' = setting'.at - Lap' /\ reading'.from < Wrap' BY <3>1, <3>2, <3>4
    <3> QED BY <3>1, <3>5, <3>6, <3>7 DEF Memory
  <2>7. ASSUME NEW t \in Users, Plain(t) PROVE Memory' BY <1>0, <2>7, MemoryPlain
  <2>8. ASSUME NEW t \in Users, Rebase(t) PROVE Memory' BY <1>0, <2>8, MemoryRebase
  <2>9. ASSUME TakesTime PROVE Memory'
    <3>1. Others(Setter) /\ call[Setter] # "rebase"
          /\ UNCHANGED <<lastUTCTime, lastSystemTime, reading>>
          BY <2>9, StepsOfSetter, TakesTimeIs DEF WallTypes
    <3>2. \A u \in Users : call[u] = "rebase" => call'[u] = "rebase" BY <3>1 DEF Others
    <3> QED BY <2>2, <3>1, <3>2
  <2>10. ASSUME Tick \/ UNCHANGED clockVars PROVE Memory' BY <2>2, <2>10, StillOrTick
  <2> QED BY <1>2, <2>1, WallAction, <2>3, <2>4, <2>5, <2>6, <2>7, <2>8, <2>9, <2>10
<1> QED BY <1>1, <1>2
-----------------------------------------------------------------------------
(* What the calls under way have made of the counter.                       *)
LEMMA OthersCall ==
  ASSUME WallTypes, Calls, [ClockNext]_clockVars, Quiet',
         ~SetSystemTime, NEW u \in Users, call'[u] \in Reading,
         call'[u] = call[u], begun'[u] = begun[u], curTimeMs'[u] = curTimeMs[u],
         loaded'[u] = loaded[u], sum'[u] = sum[u], lastSystemTime' = lastSystemTime,
         call[u] = "rebase" => lastUTCTime' = lastUTCTime
  PROVE  \E ms \in 0 .. milli' : Fetched(u, ms)' /\ Doing(u, ms)'
<1>1. /\ Quiet /\ setting' = setting /\ milli <= milli' /\ milli' \in Nat
      /\ Lap' = Lap /\ Wrap' = Wrap
      BY QuietBefore
<1>2. PICK ms \in 0 .. milli : Fetched(u, ms) /\ Doing(u, ms) BY <1>1 DEF Calls
<1>3. ms \in Int /\ milli \in Int /\ ms \in 0 .. milli' BY <1>1, WallTyped
<1>4. /\ ms >= begun[u] /\ ms <= milli /\ ms >= setting.at
      /\ curTimeMs[u] = IF ms < Wrap THEN ms - Lap ELSE ms - Wrap
      BY <1>2 DEF Fetched
<1>5. Fetched(u, ms)'
  <2>1. ms <= milli' BY <1>3
  <2> QED BY <1>1, <1>4, <2>1 DEF Fetched
<1>6. Corrected' = Corrected /\ Rebased' = Rebased BY <1>1 DEF Corrected, Rebased
<1>7. Up(ms - 1)' = Up(ms - 1) BY <1>1 DEF Up
<1>8. Doing(u, ms)' BY <1>1, <1>2, <1>6, <1>7 DEF Doing, Counted
<1> QED BY <1>3, <1>5, <1>8

LEMMA GetTimeFetches ==
  ASSUME WallTypes, Stalls, Memory, Calls, [ClockNext]_clockVars, Quiet',
         NEW t \in Users, GetTime(t), ~SetSystemTime
  PROVE  \E ms \in 0 .. milli' : Fetched(t, ms)' /\ Doing(t, ms)'
<1>1. /\ Quiet /\ setting' = setting /\ Lap' = Lap /\ Wrap' = Wrap BY QuietBefore
<1>2. /\ call'[t] = "test" /\ curTimeMs'[t] = milli % RANGE /\ milli' = milli
      /\ (begun'[t] = milli \/ begun'[t] = begun[t])
      /\ lastUTCTime' = lastUTCTime /\ lastSystemTime' = lastSystemTime
      BY StepsOf, GetTimeIs
<1>3. milli \in Int /\ begun[t] <= milli /\ Lap <= milli /\ milli < Wrap + RANGE
      /\ milli >= setting.at
      BY <1>1, QuietIs DEF Stalls
<1>4. milli % RANGE = IF milli < Wrap THEN milli - Lap ELSE milli - Wrap
      BY <1>3, CounterIs DEF WallTypes
<1>5. begun'[t] <= milli BY <1>2, <1>3
<1>6. Fetched(t, milli)'
  <2>1. milli >= begun'[t] /\ milli <= milli' /\ milli >= setting'.at BY <1>1, <1>2, <1>3, <1>5
  <2>2. curTimeMs'[t] = IF milli < Wrap' THEN milli - Lap' ELSE milli - Wrap'
        BY <1>1, <1>2, <1>4, Zenon
  <2> QED BY <1>2, <2>1, <2>2 DEF Fetched
<1>7. Corrected' => milli >= Rebased'
  <2>1. Corrected' = Corrected /\ Rebased' = Rebased BY <1>1, <1>2 DEF Corrected, Rebased
  <2>2. Corrected => milli >= Rebased BY <1>1, QuietIs DEF Memory
  <2> QED BY <2>1, <2>2
<1>8. Doing(t, milli)' BY <1>2, <1>7 DEF Doing
<1>9. milli \in 0 .. milli'
  <2>1. milli \in Nat BY WallTyped
  <2> QED BY <1>2, <2>1
<1> QED BY <1>2, <1>6, <1>8, <1>9

LEMMA CallsKept ==
  ASSUME WallTypes, Placed, WriterAlone, Stalls, Memory, Calls,
         [ClockNext]_clockVars
  PROVE  Calls'
<1>0. SUFFICES ASSUME Quiet', NEW u \in Users, call'[u] \in Reading
               PROVE  \E ms \in 0 .. milli' : Fetched(u, ms)' /\ Doing(u, ms)'
      BY DEF Calls
<1>1. ~SetSystemTime
  <2>1. ASSUME SetSystemTime PROVE FALSE
    <3>1. call[Setter] = "settle" /\ Others(Setter) /\ call'[Setter] = "idle"
          BY <2>1, StepsOfSetter, SetSystemTimeIs
    <3>2. ~SetUTCTime BY <3>1, SetUTCTimeIs
    <3>3. ~met BY <1>0, <3>2, MeetsOrSets, StillIs DEF Quiet
    <3>4. Sole(Setter) BY <3>1, <3>3, WallConstants DEF WriterAlone, Writing
    <3>5. call'[u] = "idle" BY <3>1, <3>4 DEF Others, Sole, Busy
    <3> QED BY <1>0, <3>5 DEF Reading
  <2> QED BY <2>1
<1>2. /\ Quiet /\ setting' = setting /\ milli <= milli' /\ milli' \in Nat
      /\ Lap' = Lap /\ Wrap' = Wrap /\ ~SetUTCTime
      BY <1>0, <1>1, QuietBefore
<1>3. ~met BY <1>2, QuietIs
<1>4. ASSUME NEW t \in Users, Others(t), u # t, lastSystemTime' = lastSystemTime,
             lastUTCTime' = lastUTCTime
      PROVE  \E ms \in 0 .. milli' : Fetched(u, ms)' /\ Doing(u, ms)'
      BY <1>0, <1>1, <1>4, OthersCall DEF Others
<1>5. ASSUME NEW t \in Users, Others(t), u # t, call[t] \in {"store", "rebase"} PROVE FALSE
  <2>1. Sole(t) BY <1>3, <1>5 DEF WriterAlone, Writing
  <2>2. call'[u] = "idle" BY <1>5, <2>1 DEF Others, Sole, Busy
  <2> QED BY <1>0, <2>2 DEF Reading
<1>6. ASSUME NEW t \in Users, GetTime(t)
      PROVE  \E ms \in 0 .. milli' : Fetched(u, ms)' /\ Doing(u, ms)'
  <2>1. CASE u # t BY <1>4, <1>6, <2>1, StepsOf, GetTimeIs
  <2>2. CASE u = t BY <1>0, <1>1, <1>6, <2>2, GetTimeFetches
  <2> QED BY <2>1, <2>2
<1>7. ASSUME NEW t \in Users, TestWrap(t)
      PROVE  \E ms \in 0 .. milli' : Fetched(u, ms)' /\ Doing(u, ms)'
  <2>1. CASE u # t BY <1>4, <1>7, <2>1, StepsOf, TestWrapIs
  <2>2. CASE u = t
    <3>1. /\ call[t] = "test" /\ UNCHANGED <<milli, lastUTCTime, lastSystemTime>>
          /\ curTimeMs'[t] = curTimeMs[t] /\ begun'[t] = begun[t]
          /\ loaded'[t] = lastSystemTime
          /\ call'[t] = IF curTimeMs[t] < lastSystemTime THEN "add" ELSE "plain"
          BY <1>7, StepsOf, TestWrapIs
    <3>2. PICK ms \in 0 .. milli : Fetched(t, ms) /\ Doing(t, ms)
          BY <1>2, <3>1 DEF Calls, Reading
    <3>3. Corrected => ms >= Rebased BY <3>1, <3>2 DEF Doing
    <3>4. ms \in Int /\ Wrap \in Int BY <1>2, WallTyped, QuietIs
    <3>5. curTimeMs[t] < lastSystemTime <=> ~Corrected /\ ms >= Wrap
          BY <1>2, <3>2, <3>3, <3>4, TestsRight
    <3>6. Corrected' = Corrected /\ Rebased' = Rebased
          BY <1>2, <3>1 DEF Corrected, Rebased
    <3>7. Fetched(t, ms)' BY <1>2, <3>1, <3>2 DEF Fetched
    <3>8. Doing(t, ms)'
      <4>1. CASE curTimeMs[t] < lastSystemTime
            BY <1>2, <3>1, <3>5, <3>6, <4>1 DEF Doing
      <4>2. CASE ~(curTimeMs[t] < lastSystemTime)
        <5>1. call'[t] = "plain" /\ loaded'[t] = lastSystemTime' BY <3>1, <4>2
        <5>2. IF Corrected THEN ms >= Rebased ELSE ms < Wrap BY <3>3, <3>4, <3>5, <4>2
        <5>3. IF Corrected' THEN ms >= Rebased' ELSE ms < Wrap' BY <1>2, <3>6, <5>2
        <5> QED BY <5>1, <5>3 DEF Doing
      <4> QED BY <4>1, <4>2
    <3> QED BY <2>2, <3>1, <3>2, <3>7, <3>8
  <2> QED BY <2>1, <2>2
<1>8. ASSUME NEW t \in Users, AddWrapped(t)
      PROVE  \E ms \in 0 .. milli' : Fetched(u, ms)' /\ Doing(u, ms)'
  <2>1. CASE u # t BY <1>4, <1>8, <2>1, StepsOf, AddWrappedIs
  <2>2. CASE u = t
    <3>1. /\ call[t] = "add" /\ UNCHANGED <<milli, lastUTCTime, lastSystemTime>>
          /\ curTimeMs'[t] = curTimeMs[t] /\ begun'[t] = begun[t] /\ call'[t] = "store"
          BY <1>8, StepsOf, AddWrappedIs
    <3>2. PICK ms \in 0 .. milli : Fetched(t, ms) /\ Doing(t, ms)
          BY <1>2, <3>1 DEF Calls, Reading
    <3>3. ms \in Int BY WallTyped
    <3>4. ~Corrected /\ ms >= Wrap /\ sum'[t] = Up(ms - 1)
          BY <1>2, <1>8, <3>2, <3>3, AddsRight
    <3>5. Corrected' = Corrected BY <3>1 DEF Corrected
    <3>6. Fetched(t, ms)' BY <1>2, <3>1, <3>2 DEF Fetched
    <3>7. sum'[t] = Up(ms - 1)' BY <1>2, <3>4 DEF Up
    <3>8. Doing(t, ms)' BY <1>2, <3>1, <3>4, <3>5, <3>7 DEF Doing, Counted
    <3> QED BY <2>2, <3>1, <3>2, <3>6, <3>8
  <2> QED BY <2>1, <2>2
<1>9. ASSUME NEW t \in Users, StoreSum(t)
      PROVE  \E ms \in 0 .. milli' : Fetched(u, ms)' /\ Doing(u, ms)'
  <2>1. /\ call[t] = "store" /\ UNCHANGED <<milli, lastSystemTime>> /\ Others(t)
        /\ curTimeMs'[t] = curTimeMs[t] /\ begun'[t] = begun[t] /\ call'[t] = "rebase"
        /\ sum'[t] = sum[t] /\ lastUTCTime' = sum[t]
        BY <1>9, StepsOf, StoreSumIs
  <2>2. u = t BY <1>5, <2>1
  <2>3. PICK ms \in 0 .. milli : Fetched(t, ms) /\ Doing(t, ms)
        BY <1>2, <2>1 DEF Calls, Reading
  <2>4. ~Corrected /\ ms >= Wrap /\ sum[t] = Up(ms - 1) BY <2>1, <2>3 DEF Doing, Counted
  <2>5. Corrected' = Corrected BY <2>1 DEF Corrected
  <2>6. Fetched(t, ms)' BY <1>2, <2>1, <2>3 DEF Fetched
  <2>7. sum'[t] = Up(ms - 1)' BY <1>2, <2>1, <2>4 DEF Up
  <2>8. Doing(t, ms)' BY <1>2, <2>1, <2>4, <2>5, <2>7 DEF Doing, Counted
  <2> QED BY <2>1, <2>2, <2>3, <2>6, <2>8
<1>10. ASSUME NEW t \in Users, Plain(t)
       PROVE  \E ms \in 0 .. milli' : Fetched(u, ms)' /\ Doing(u, ms)'
  <2>1. Others(t) /\ call'[t] \in {"idle", "set"} BY <1>10, ReturnsAre
  <2>2. u # t BY <1>0, <2>1 DEF Reading
  <2> QED BY <1>4, <1>10, <2>1, <2>2, PlainIs
<1>11. ASSUME NEW t \in Users, Rebase(t) PROVE FALSE
  <2>1. Others(t) /\ call'[t] \in {"idle", "set"} /\ call[t] = "rebase"
        BY <1>11, ReturnsAre, RebaseIs
  <2>2. u # t BY <1>0, <2>1 DEF Reading
  <2> QED BY <1>5, <2>1, <2>2
<1>12. ASSUME TakesTime
       PROVE  \E ms \in 0 .. milli' : Fetched(u, ms)' /\ Doing(u, ms)'
  <2>1. /\ Others(Setter) /\ call'[Setter] = "log" /\ Setter \in Users
        /\ UNCHANGED <<lastUTCTime, lastSystemTime>>
        BY <1>12, StepsOfSetter, TakesTimeIs, WallConstants DEF WallTypes
  <2>2. u # Setter BY <1>0, <2>1 DEF Reading
  <2> QED BY <1>4, <2>1, <2>2
<1>13. ASSUME Tick \/ UNCHANGED clockVars
       PROVE  \E ms \in 0 .. milli' : Fetched(u, ms)' /\ Doing(u, ms)'
  <2>1. UNCHANGED <<lastUTCTime, lastSystemTime, call, curTimeMs, loaded, sum, begun>>
        BY <1>13, StillOrTick
  <2> QED BY <1>0, <1>1, <2>1, OthersCall
<1> QED BY <1>1, <1>2, WallAction, <1>6, <1>7, <1>8, <1>9, <1>10, <1>11, <1>12, <1>13
-----------------------------------------------------------------------------
(* What a call returns while it is quiet.                                   *)
LEMMA ReadsNear ==
  ASSUME WallTypes, WriterAlone, Stalls, Memory, Calls, Quiet,
         NEW t \in Users, Plain(t) \/ Rebase(t)
  PROVE  LET counted == PER_SECOND * (reading'.value - setting.seconds)
         IN  /\ counted <= milli - setting.at
             /\ begun[t] - setting.at - counted < 2 * PER_SECOND
<1>1. PER_SECOND \in Nat \ {0} /\ begun[t] \in Int BY WallConstants, WallTyped
<1>2. ASSUME NEW ms \in Int, NEW a \in Int, NEW b \in Int, NEW x \in Int, NEW y \in Int,
             a = Seconds(x), b = Seconds(y), ms >= begun[t], ms <= milli,
             ms - setting.at - 1 <= x + y, x + y <= ms - setting.at,
             reading'.value = setting.seconds + a + b
      PROVE  LET counted == PER_SECOND * (reading'.value - setting.seconds)
             IN  /\ counted <= milli - setting.at
                 /\ begun[t] - setting.at - counted < 2 * PER_SECOND
  <2>1. PICK p \in Int : p = PER_SECOND * a /\ p <= x /\ x < p + PER_SECOND
        BY <1>2, SecondsAre
  <2>2. PICK q \in Int : q = PER_SECOND * b /\ q <= y /\ y < q + PER_SECOND
        BY <1>2, SecondsAre
  <2>3. PER_SECOND * (a + b) = p + q BY <1>1, <2>1, <2>2
  <2>4. setting.seconds \in Int /\ setting.at \in Int /\ milli \in Int BY WallTyped
  <2>5. reading'.value - setting.seconds = a + b BY <1>2, <2>4
  <2>6. p + q <= milli - setting.at /\ begun[t] - setting.at - (p + q) < 2 * PER_SECOND
        BY <1>1, <1>2, <2>1, <2>2, <2>4
  <2> QED BY <2>3, <2>5, <2>6
<1>3. 0 \in Int /\ Seconds(0) = 0
  <2>1. Seconds(0) \in Int /\ PER_SECOND * Seconds(0) <= 0 /\ Seconds(0) \in Nat
        BY SecondsAre, SecondsNat
  <2>2. PICK a \in Nat : a = Seconds(0) BY <2>1
  <2>3. PER_SECOND * a <= 0 BY <2>1, <2>2
  <2>4. a >= 1 => PER_SECOND * a >= PER_SECOND BY <1>1, <2>2
  <2> QED BY <1>1, <2>2, <2>3, <2>4
<1>4. CASE Plain(t)
  <2>1. PICK ms \in 0 .. milli :
          /\ Fetched(t, ms)
          /\ IF Corrected
             THEN ms >= Rebased /\ reading'.value = lastUTCTime + Seconds(ms - Rebased)
             ELSE ms < Wrap /\ reading'.value = Up(ms)
        BY <1>4, PlainReads
  <2>2. ms \in Int /\ ms >= begun[t] /\ ms <= milli /\ ms >= setting.at
        BY <2>1, WallTyped DEF Fetched
  <2>3. CASE Corrected
    <3>1. reading'.value = Up(Rebased - 1) + Seconds(ms - Rebased)
          BY <2>1, <2>3 DEF Memory
    <3>2. PICK x \in Int, y \in Int :
            x = (Rebased - 1) - setting.at /\ y = ms - Rebased /\ x + y = ms - setting.at - 1
      <4>1. Rebased \in Int /\ setting.at \in Int BY QuietIs
      <4>2. (Rebased - 1) - setting.at \in Int /\ ms - Rebased \in Int BY <2>2, <4>1
      <4>3. ((Rebased - 1) - setting.at) + (ms - Rebased) = ms - setting.at - 1
            BY <2>2, <4>1
      <4> QED BY <4>2, <4>3
    <3>3. PICK a \in Int, b \in Int : a = Seconds(x) /\ b = Seconds(y)
          BY SecondsAre
    <3>4. reading'.value = setting.seconds + a + b BY <3>1, <3>2, <3>3 DEF Up
    <3>5. ms - setting.at - 1 <= x + y /\ x + y <= ms - setting.at
      <4>1. setting.at \in Int BY WallTyped
      <4> QED BY <2>2, <3>2, <4>1
    <3> QED BY <1>2, <2>2, <3>3, <3>4, <3>5
  <2>4. CASE ~Corrected
    <3>1. reading'.value = setting.seconds + Seconds(ms - setting.at)
          BY <2>1, <2>4 DEF Up
    <3>2. PICK x \in Int : x = ms - setting.at /\ ms - setting.at - 1 <= x + 0
                           /\ x + 0 <= ms - setting.at
      <4>1. setting.at \in Int BY WallTyped
      <4> QED BY <2>2, <4>1
    <3>3. PICK a \in Int : a = Seconds(x) BY SecondsAre
    <3>4. reading'.value = setting.seconds + a + 0
      <4>1. setting.seconds \in Int BY WallTyped
      <4> QED BY <3>1, <3>2, <3>3, <4>1
    <3> QED BY <1>2, <1>3, <2>2, <3>2, <3>3, <3>4
  <2> QED BY <2>3, <2>4
<1>5. CASE Rebase(t)
  <2>1. PICK ms \in 0 .. milli : Fetched(t, ms) /\ reading'.value = Up(ms - 1)
        BY <1>5, RebaseReads
  <2>2. ms \in Int /\ ms >= begun[t] /\ ms <= milli BY <2>1, WallTyped DEF Fetched
  <2>3. reading'.value = setting.seconds + Seconds((ms - 1) - setting.at)
        BY <2>1 DEF Up
  <2>4. PICK x \in Int : x = (ms - 1) - setting.at /\ x + 0 = ms - setting.at - 1
                         /\ x + 0 <= ms - setting.at
    <3>1. setting.at \in Int BY WallTyped
    <3> QED BY <2>2, <3>1
  <2>5. PICK a \in Int : a = Seconds(x) BY SecondsAre
  <2>6. reading'.value = setting.seconds + a + 0
    <3>1. setting.seconds \in Int BY WallTyped
    <3> QED BY <2>3, <2>4, <2>5, <3>1
  <2>7. ms - setting.at - 1 <= x + 0
    <3>1. setting.at \in Int BY WallTyped
    <3> QED BY <2>2, <2>4, <3>1
  <2> QED BY <1>2, <1>3, <2>2, <2>4, <2>5, <2>6, <2>7
<1> QED BY <1>4, <1>5

LEMMA SeenIsQuiet ==
  ASSUME WallTypes, WriterAlone,
         NEW t \in Users, Plain(t) \/ Rebase(t), ~reading'.raced, Seen'
  PROVE  Quiet
<1>1. /\ reading'.to = milli /\ reading'.set = setting /\ reading'.raced = met
      /\ call[t] \in {"plain", "rebase"}
      BY ReturnsAre
<1>2. milli \div RANGE <= (setting.at \div RANGE) + 1
      /\ setting.at % RANGE >= MaxPause + MaxStall
      BY <1>1 DEF Seen
<1>3. milli \in Nat /\ RecordsTyped BY WallTyped DEF WallTypes
<1>4. OneWrap BY <1>2, <1>3, LapsOn DEF OneWrap
<1>5. Spared BY <1>2, <1>3, LapIs DEF Spared, Limit
<1>6. call[Setter] # "settle"
  <2>1. ASSUME call[Setter] = "settle" PROVE FALSE
    <3>1. Sole(Setter) BY <1>1, <2>1, WallConstants DEF WriterAlone, Writing
    <3>2. t # Setter BY <1>1, <2>1
    <3> QED BY <1>1, <3>1, <3>2 DEF Sole, Busy
  <2> QED BY <2>1
<1> QED BY <1>1, <1>4, <1>5, <1>6 DEF Quiet, Stands

LEMMA OnlyReturnsRead ==
  ASSUME WallTypes, [ClockNext]_clockVars, reading' # reading
  PROVE  \E t \in Users : Plain(t) \/ Rebase(t)
BY WallAction, GetTimeIs, TestWrapIs, AddWrappedIs, StoreSumIs, TakesTimeIs,
   SetUTCTimeIs, SetSystemTimeIs, StillOrTick DEF WallTypes

LEMMA AccurateKept ==
  ASSUME WallTypes, WriterAlone, Stalls, Memory, Calls, Accurate,
         [ClockNext]_clockVars
  PROVE  Accurate'
<1>1. CASE reading' = reading BY <1>1 DEF Accurate, Seen
<1>2. CASE reading' # reading
  <2>1. PICK t \in Users : Plain(t) \/ Rebase(t) BY <1>2, OnlyReturnsRead
  <2>2. SUFFICES ASSUME ~reading'.raced, Seen'
                 PROVE  LET counted == PER_SECOND * (reading'.value - reading'.set.seconds)
                        IN  /\ counted <= reading'.to - reading'.set.at
                            /\ reading'.from - reading'.set.at - counted < 2 * PER_SECOND
        BY DEF Accurate
  <2>3. Quiet BY <2>1, <2>2, SeenIsQuiet
  <2>4. reading'.to = milli /\ reading'.from = begun[t] /\ reading'.set = setting
        BY <2>1, ReturnsAre
  <2> QED BY <2>1, <2>3, <2>4, ReadsNear
<1> QED BY <1>1, <1>2

LEMMA WallStarts ==
  ASSUME ClockInit
  PROVE  WallIInv
<1>0. /\ milli = 0 /\ lastUTCTime = 0 /\ lastSystemTime = 0 /\ networkTime = None
      /\ foreign = FALSE /\ met = FALSE
      /\ call = [t \in Users |-> "idle"] /\ curTimeMs = [t \in Users |-> 0]
      /\ loaded = [t \in Users |-> 0] /\ sum = [t \in Users |-> 0]
      /\ begun = [t \in Users |-> 0]
      /\ setting = [at |-> 0, seconds |-> 0, from |-> "start"]
      /\ reading = [value |-> 0, from |-> 0, to |-> 0, set |-> setting, raced |-> FALSE]
      BY DEF ClockInit
<1>1. /\ 0 \in 0 .. RANGE - 1 /\ 0 \in 0 .. MaxTime /\ MaxStall \in Nat /\ MaxPause \in Nat
      /\ PER_SECOND \in Nat \ {0} /\ RANGE \in Nat \ {0} /\ Setter \in Users
      /\ Users = Readers \cup {Setter}
      BY WallConstants
<1>2. WallTypes
  <2>1. TimesTyped BY <1>0, <1>1 DEF TimesTyped
  <2>2. CallsTyped BY <1>0, <1>1 DEF CallsTyped
  <2>3. PlacesTyped BY <1>0 DEF PlacesTyped
  <2>4. setting \in Settings BY <1>0, <1>1 DEF Settings
  <2>5. RecordsTyped BY <1>0, <1>1, <2>4 DEF RecordsTyped
  <2>6. RacesTyped BY <1>0 DEF RacesTyped
  <2> QED BY <2>1, <2>2, <2>3, <2>5, <2>6 DEF WallTypes
<1>3. \A t \in Users : call[t] = "idle" /\ begun[t] = 0 BY <1>0
<1>4. /\ reading.value = 0 /\ reading.from = 0 /\ reading.to = 0 /\ reading.set = setting
      /\ setting.at = 0 /\ setting.seconds = 0 /\ setting.from = "start"
      BY <1>0
<1>5. Placed BY <1>0, <1>1, <1>3 DEF Placed
<1>6. WriterAlone BY <1>3 DEF WriterAlone, Writing
<1>7. Stalls BY <1>0, <1>1, <1>3, <1>4 DEF Stalls, Busy, Limit
<1>8. Network BY <1>0, <1>4 DEF Network
<1>9. Settling BY <1>1, <1>3 DEF Settling, Stands
<1>10. Calls BY <1>3 DEF Calls, Reading
<1>11. Memory
  <2>1. Wrap \in Int /\ Lap <= 0 /\ 0 < Wrap /\ Lap \in Int
        BY <1>1, <1>2, <1>4, LapIs DEF WallTypes
  <2>2. Lap = 0
    <3>1. 0 % RANGE = 0 BY <1>1, LessThanALap
    <3>2. 0 % RANGE = 0 - Lap BY <1>2, <1>4, LapIs DEF WallTypes
    <3> QED BY <2>1, <3>1, <3>2
  <2>3. SUFFICES ASSUME Spared PROVE Memory BY DEF Memory, Quiet
  <2>4. ~Corrected BY <1>0, <1>1, <1>4, <2>2, <2>3 DEF Spared, Corrected, Limit
  <2>5. ToldBefore
    <3>1. 0 - 0 = 0 /\ Seconds(0) \in Nat BY SecondsNat
    <3>2. Up(0) = 0 + Seconds(0) BY <1>4, <3>1 DEF Up
    <3>3. 0 \in setting.at .. reading.to /\ 0 < Wrap /\ reading.value <= Up(0)
          BY <1>4, <2>1, <3>1, <3>2
    <3> QED BY <3>3 DEF ToldBefore
  <2> QED BY <1>0, <1>4, <2>1, <2>2, <2>4, <2>5 DEF Memory
<1>12. Accurate
  <2>1. PER_SECOND * (0 - 0) = 0 /\ 0 < 2 * PER_SECOND BY <1>1
  <2>2. LET counted == PER_SECOND * (reading.value - reading.set.seconds)
        IN  /\ counted <= reading.to - reading.set.at
            /\ reading.from - reading.set.at - counted < 2 * PER_SECOND
        BY <1>4, <2>1
  <2> QED BY <2>2 DEF Accurate
<1> QED BY <1>2, <1>5, <1>6, <1>7, <1>8, <1>9, <1>10, <1>11, <1>12 DEF WallIInv

LEMMA WallGoes ==
  ASSUME WallIInv, [ClockNext]_clockVars
  PROVE  WallIInv'
<1>1. /\ WallTypes /\ Placed /\ WriterAlone /\ Stalls /\ Network
      /\ Memory /\ Settling /\ Calls /\ Accurate
      BY DEF WallIInv
<1>2. WallTypes' /\ Placed' /\ WriterAlone' BY <1>1, WallTypesKept, PlacedKept, WriterAloneKept
<1>3. Stalls' /\ Network' /\ Settling' BY <1>1, StallsKept, NetworkKept, SettlingKept
<1>4. Memory' BY <1>1, <1>2, MemoryKept
<1>5. Calls' /\ Accurate' BY <1>1, CallsKept, AccurateKept
<1> QED BY <1>2, <1>3, <1>4, <1>5 DEF WallIInv

LEMMA WallIs ==
  ASSUME WallIInv
  PROVE  ClockInv
<1>1. WallTypes /\ Stalls /\ Network /\ Accurate BY DEF WallIInv
<1>2. ClockTypeOK
      BY <1>1
         DEF WallTypes, TimesTyped, CallsTyped, PlacesTyped, RecordsTyped, RacesTyped, ClockTypeOK
<1>3. NetworksTime
  <2>1. SUFFICES ASSUME ~reading.raced, Seen, reading.set.from = "network"
                 PROVE  /\ reading.value <= Seconds(reading.to) + Offset
                        /\ reading.from + PER_SECOND * (Offset - reading.value)
                             <= MaxStall + 3 * PER_SECOND
        BY DEF NetworksTime
  <2>2. /\ reading.value \in Int /\ reading.set.seconds \in Int /\ reading.set.at \in Int
        /\ reading.to \in Int /\ reading.from \in Int /\ Offset \in Int /\ MaxStall \in Int
        /\ PER_SECOND \in Nat \ {0}
        BY <1>1, WallTyped, WallConstants
  <2>3. PICK c \in Int, n \in Int :
          c = PER_SECOND * (reading.value - reading.set.seconds)
          /\ n = PER_SECOND * (reading.set.seconds - Offset)
        BY <2>2
  <2>4. c <= reading.to - reading.set.at
        /\ reading.from - reading.set.at - c < 2 * PER_SECOND
        BY <1>1, <2>1, <2>3 DEF Accurate
  <2>5. n <= reading.set.at /\ reading.set.at <= n + MaxStall + PER_SECOND - 1
        BY <1>1, <2>1, <2>3 DEF Network, Near
  <2>6. PER_SECOND * (reading.value - Offset) = c + n
        /\ PER_SECOND * (Offset - reading.value) = -(c + n)
    <3>1. PICK v \in Int, s \in Int :
            v = reading.value - reading.set.seconds /\ s = reading.set.seconds - Offset
          BY <2>2
    <3>2. reading.value - Offset = v + s /\ Offset - reading.value = -(v + s) BY <2>2, <3>1
    <3>3. PER_SECOND * (v + s) = PER_SECOND * v + PER_SECOND * s
          /\ PER_SECOND * (-(v + s)) = -(PER_SECOND * v + PER_SECOND * s)
          BY <2>2
    <3> QED BY <2>3, <3>1, <3>2, <3>3
  <2>7. reading.value - Offset <= Seconds(reading.to)
    <3>1. reading.value - Offset \in Int BY <2>2
    <3>2. PER_SECOND * (reading.value - Offset) <= reading.to BY <2>2, <2>3, <2>4, <2>5, <2>6
    <3> QED BY <2>2, <3>1, <3>2, InSeconds
  <2>8. Seconds(reading.to) \in Int BY <2>2, SecondsAre
  <2>9. reading.value <= Seconds(reading.to) + Offset BY <2>2, <2>7, <2>8
  <2>10. reading.from + -(c + n) <= MaxStall + 3 * PER_SECOND BY <2>2, <2>3, <2>4, <2>5
  <2> QED BY <2>6, <2>9, <2>10
<1> QED BY <1>1, <1>2, <1>3 DEF ClockInv

(* For a counter of any range, any second and any number of threads: while  *)
(* no calls have met since the clock was set and at most one wrap has       *)
(* passed, what a thread reads has counted the true time since then, less   *)
(* than two seconds behind and never ahead, and it is the network's time    *)
(* when the network gave it (lum_getSystemTime, getUtcTimeFromNetwork).     *)
THEOREM ClockCorrect == ClockSpec => []ClockInv
<1>1. ClockInit => WallIInv BY WallStarts
<1>2. WallIInv /\ [ClockNext]_clockVars => WallIInv' BY WallGoes
<1>3. WallIInv => ClockInv BY WallIs
<1> QED BY <1>1, <1>2, <1>3, PTL DEF ClockSpec

LEMMA NotBack ==
  ASSUME WallIInv, [ClockNext]_clockVars,
         ~reading.raced, ~reading'.raced, Seen', reading'.set = reading.set,
         reading'.from >= reading.to
  PROVE  reading'.value >= reading.value
<1>0. /\ WallTypes /\ WriterAlone /\ Stalls /\ Memory /\ Calls BY DEF WallIInv
<1>1. CASE reading' = reading BY <1>0, <1>1, WallTyped
<1>2. CASE reading' # reading
  <2>1. PICK t \in Users : Plain(t) \/ Rebase(t) BY <1>0, <1>2, OnlyReturnsRead
  <2>2. Quiet BY <1>0, <2>1, SeenIsQuiet
  <2>3. reading'.from = begun[t] /\ reading'.set = setting BY <1>0, <2>1, ReturnsAre
  <2>4. Told BY <2>3 DEF Told
  <2>5. begun[t] >= reading.to /\ begun[t] \in Int /\ reading.to \in Int
        /\ reading.value \in Int /\ lastUTCTime \in Int /\ setting.at \in Int
        BY <1>0, <2>3, WallTyped
  <2>6. ASSUME NEW ms \in Int, ~Corrected, ms >= begun[t] \/ ms >= Wrap - 1,
               ms >= setting.at, reading'.value = Up(ms)
        PROVE  reading'.value >= reading.value
    <3>1. ToldBefore BY <2>2, <2>6, <1>0 DEF Memory
    <3>2. PICK k \in setting.at .. reading.to : k < Wrap /\ reading.value <= Up(k)
          BY <2>4, <3>1 DEF ToldBefore
    <3>3. k \in Int /\ k >= setting.at /\ k <= ms
      <4>1. Wrap \in Int BY <1>0, <2>2, QuietIs
      <4> QED BY <2>5, <2>6, <3>2, <4>1
    <3>4. Up(k) <= Up(ms) /\ Up(k) \in Int /\ Up(ms) \in Int BY <1>0, <2>6, <3>3, UpIs
    <3> QED BY <2>5, <2>6, <3>2, <3>4
  <2>7. CASE Plain(t)
    <3>1. PICK ms \in 0 .. milli :
            /\ Fetched(t, ms)
            /\ IF Corrected
               THEN ms >= Rebased /\ reading'.value = lastUTCTime + Seconds(ms - Rebased)
               ELSE ms < Wrap /\ reading'.value = Up(ms)
          BY <1>0, <2>2, <2>7, PlainReads
    <3>2. ms \in Int /\ ms >= begun[t] /\ ms >= setting.at BY <1>0, <3>1, WallTyped DEF Fetched
    <3>3. CASE ~Corrected BY <2>6, <3>1, <3>2, <3>3
    <3>4. CASE Corrected
      <4>1. Rebased <= reading.to
            /\ reading.value <= lastUTCTime + Seconds(reading.to - Rebased)
            BY <1>0, <2>2, <2>4, <3>4 DEF Memory, ToldAfter
      <4>2. Rebased \in Int BY <1>0, <2>2, QuietIs
      <4>3. reading.to - Rebased \in Int /\ ms - Rebased \in Int
            /\ reading.to - Rebased <= ms - Rebased
            BY <2>5, <3>2, <4>2
      <4>4. /\ Seconds(reading.to - Rebased) <= Seconds(ms - Rebased)
            /\ Seconds(reading.to - Rebased) \in Int /\ Seconds(ms - Rebased) \in Int
            BY <4>3, SecondsGrow, SecondsAre
      <4> QED BY <2>5, <3>1, <3>4, <4>1, <4>4
    <3> QED BY <3>3, <3>4
  <2>8. CASE Rebase(t)
    <3>1. PICK ms \in 0 .. milli :
            Fetched(t, ms) /\ ms >= Wrap /\ ~Corrected /\ reading'.value = Up(ms - 1)
          BY <1>0, <2>2, <2>8, RebaseReads
    <3>2. ms \in Int /\ ms - 1 \in Int /\ ms - 1 >= Wrap - 1 /\ ms - 1 >= setting.at
          BY <1>0, <2>2, <3>1, QuietIs
    <3> QED BY <2>6, <3>1, <3>2
  <2> QED BY <2>1, <2>7, <2>8
<1> QED BY <1>1, <1>2

(* Under the same premises the clock does not go back between two readings  *)
(* of one setting, over the wrap that any of the threads counts             *)
(* (lum_getSystemTime).                                                     *)
THEOREM ClockMonotone == ClockSpec => Monotone
<1>1. ClockInit => WallIInv BY WallStarts
<1>2. WallIInv /\ [ClockNext]_clockVars => WallIInv' BY WallGoes
<1>3. WallIInv /\ [ClockNext]_clockVars =>
        [/\ ~reading.raced /\ ~reading'.raced /\ Seen'
         /\ reading'.set = reading.set
         /\ reading'.from >= reading.to
         => reading'.value >= reading.value]_clockVars
      BY NotBack
<1> QED BY <1>1, <1>2, <1>3, PTL DEF ClockSpec, Monotone

(***************************************************************************)
(* The calendar.  What its two loops compute is proved by the least        *)
(* counterexample, which a set of naturals has.                            *)
(***************************************************************************)
LEMMA Least ==
  ASSUME NEW T, T \subseteq Nat, T # {}
  PROVE  \E n \in T : \A m \in T : n <= m
<1>1. PICK k \in T : TRUE  OBVIOUS
<1> DEFINE U == {m \in 0 .. k : \E t \in T : t <= m}
<1> DEFINE f == [m \in U |-> m - 1]
<1>2. k \in Nat /\ k \in U  BY <1>1
<1>3. IsFiniteSet(U)
  <2>1. IsFiniteSet(0 .. k)  BY <1>2, FS_Interval
  <2>2. U \in SUBSET (0 .. k)  OBVIOUS
  <2> HIDE DEF U
  <2> QED BY <2>1, <2>2, FS_Subset
<1>4. IsFiniteSet(U \ {k}) /\ Cardinality(U \ {k}) < Cardinality(U)
  <2> HIDE DEF U, f
  <2>1. Cardinality(U) \in Nat  BY <1>3, FS_CardinalityType
  <2>2. IsFiniteSet(U \ {k}) /\ Cardinality(U \ {k}) = Cardinality(U) - 1
    BY <1>2, <1>3, FS_RemoveElement
  <2> QED BY <2>1, <2>2
<1>5. SUFFICES ASSUME \A n \in T : \E m \in T : m < n PROVE FALSE
  OBVIOUS
<1>6. f \in [U -> U \ {k}]
  <2>1. ASSUME NEW m \in U PROVE m - 1 \in U \ {k}
    <3>1. PICK t \in T : t <= m  OBVIOUS
    <3>2. PICK s \in T : s < t  BY <1>5
    <3>3. s \in Nat /\ t \in Nat /\ m \in 0 .. k  OBVIOUS
    <3> QED BY <3>1, <3>2, <3>3, <1>2
  <2> QED BY <2>1
<1>7. PICK x \in U, y \in U : x # y /\ f[x] = f[y]
  <2> HIDE DEF U, f
  <2> QED BY <1>3, <1>4, <1>6, FS_PigeonHole
<1> QED BY <1>2, <1>7

(* How many multiples of n are below y, and the leap years among them.     *)
Multiples(y, n) == (y + n - 1) \div n
LeapYears(y) == Multiples(y, 4) - Multiples(y, 100) + Multiples(y, 400)
DaysTo(y) == 365 * y + LeapYears(y)

LEMMA MultiplesGrow ==
  ASSUME NEW y \in Nat, NEW n \in Nat \ {0}
  PROVE  /\ Multiples(y, n) \in Nat /\ Multiples(0, n) = 0
         /\ Multiples(y + 1, n) = Multiples(y, n) + (IF y % n = 0 THEN 1 ELSE 0)
<1> DEFINE q == y \div n
           r == y % n
<1>1. q \in Int /\ r \in 0 .. n - 1 /\ y = n * q + r  BY Division
<1>2. Multiples(0, n) = 0
  <2>1. 0 + n - 1 = n * 0 + (n - 1) /\ n - 1 \in 0 .. n - 1 /\ 0 + n - 1 \in Int  OBVIOUS
  <2> QED BY <2>1, Remains DEF Multiples
<1> HIDE DEF q, r
<1>3. q >= 0
  <2> SUFFICES ASSUME q < 0 PROVE FALSE  BY <1>1
  <2>1. n * (q + 1) <= 0  BY <1>1
  <2>2. n * q + n <= 0  BY <2>1, <1>1
  <2> QED BY <2>2, <1>1
<1>4. Multiples(y + 1, n) = q + 1
  <2>1. y + 1 + n - 1 = n * (q + 1) + r /\ y + 1 + n - 1 \in Int /\ q + 1 \in Int  BY <1>1
  <2> QED BY <2>1, <1>1, Remains DEF Multiples
<1>5. CASE r = 0
  <2>1. y + n - 1 = n * q + (n - 1) /\ n - 1 \in 0 .. n - 1 /\ y + n - 1 \in Int  BY <1>1, <1>5
  <2>2. Multiples(y, n) = q  BY <2>1, <1>1, Remains DEF Multiples
  <2> QED BY <1>2, <1>3, <1>4, <1>1, <1>5, <2>2 DEF r
<1>6. CASE r # 0
  <2>1. /\ y + n - 1 = n * (q + 1) + (r - 1) /\ r - 1 \in 0 .. n - 1
        /\ y + n - 1 \in Int /\ q + 1 \in Int  BY <1>1, <1>6
  <2>2. Multiples(y, n) = q + 1  BY <2>1, <1>1, Remains DEF Multiples
  <2> QED BY <1>2, <1>3, <1>4, <1>1, <1>6, <2>2 DEF r
<1> QED BY <1>5, <1>6

\* Whether the year is a multiple itself.
Hit(y, n) == IF y % n = 0 THEN 1 ELSE 0

LEMMA MultiplesCount ==
  ASSUME NEW y \in Nat
  PROVE  /\ Multiples(y, 4) \in Nat /\ Multiples(y, 100) \in Nat /\ Multiples(y, 400) \in Nat
         /\ Multiples(0, 4) = 0 /\ Multiples(0, 100) = 0 /\ Multiples(0, 400) = 0
         /\ Multiples(y + 1, 4) = Multiples(y, 4) + Hit(y, 4)
         /\ Multiples(y + 1, 100) = Multiples(y, 100) + Hit(y, 100)
         /\ Multiples(y + 1, 400) = Multiples(y, 400) + Hit(y, 400)
<1>2. /\ Multiples(y, 4) \in Nat /\ Multiples(0, 4) = 0
      /\ Multiples(y + 1, 4) = Multiples(y, 4) + Hit(y, 4)
  <2> DEFINE n == 4
  <2>1. n \in Nat \ {0}  OBVIOUS
  <2> HIDE DEF n
  <2>2. /\ Multiples(y, n) \in Nat /\ Multiples(0, n) = 0
        /\ Multiples(y + 1, n) = Multiples(y, n) + Hit(y, n)
    BY <2>1, MultiplesGrow DEF Hit
  <2> QED BY <2>2 DEF n
<1>3. /\ Multiples(y, 100) \in Nat /\ Multiples(0, 100) = 0
      /\ Multiples(y + 1, 100) = Multiples(y, 100) + Hit(y, 100)
  <2> DEFINE n == 100
  <2>1. n \in Nat \ {0}  OBVIOUS
  <2> HIDE DEF n
  <2>2. /\ Multiples(y, n) \in Nat /\ Multiples(0, n) = 0
        /\ Multiples(y + 1, n) = Multiples(y, n) + Hit(y, n)
    BY <2>1, MultiplesGrow DEF Hit
  <2> QED BY <2>2 DEF n
<1>4. /\ Multiples(y, 400) \in Nat /\ Multiples(0, 400) = 0
      /\ Multiples(y + 1, 400) = Multiples(y, 400) + Hit(y, 400)
  <2> DEFINE n == 400
  <2>1. n \in Nat \ {0}  OBVIOUS
  <2> HIDE DEF n
  <2>2. /\ Multiples(y, n) \in Nat /\ Multiples(0, n) = 0
        /\ Multiples(y + 1, n) = Multiples(y, n) + Hit(y, n)
    BY <2>1, MultiplesGrow DEF Hit
  <2> QED BY <2>2 DEF n
<1> QED BY <1>2, <1>3, <1>4

(* What 400 divides 100 divides, and what 100 divides 4 divides.           *)
LEMMA Centuries ==
  ASSUME NEW y \in Nat
  PROVE  (y % 400 = 0 => y % 100 = 0) /\ (y % 100 = 0 => y % 4 = 0)
<1>1. 4 \in Nat \ {0} /\ 100 \in Nat \ {0} /\ 400 \in Nat \ {0} /\ y \in Int  OBVIOUS
<1>2. ASSUME y % 400 = 0 PROVE y % 100 = 0
  <2> DEFINE q == y \div 400
  <2>1. q \in Int /\ y = 400 * q  BY <1>1, <1>2, Division
  <2> HIDE DEF q
  <2>2. y = 100 * (4 * q) + 0 /\ 4 * q \in Int /\ 0 \in 0 .. 99  BY <2>1
  <2> QED BY <2>2, <1>1, Remains
<1>3. ASSUME y % 100 = 0 PROVE y % 4 = 0
  <2> DEFINE q == y \div 100
  <2>1. q \in Int /\ y = 100 * q  BY <1>1, <1>3, Division
  <2> HIDE DEF q
  <2>2. y = 4 * (25 * q) + 0 /\ 25 * q \in Int /\ 0 \in 0 .. 3  BY <2>1
  <2> QED BY <2>2, <1>1, Remains
<1> QED BY <1>2, <1>3

LEMMA LeapTypes ==
  ASSUME NEW y \in Nat
  PROVE  /\ bLeapYear(y) \in {0, 1} /\ (bLeapYear(y) = 1 <=> Leap(y))
         /\ DAYS_PER_YR[bLeapYear(y) + 1] = 365 + bLeapYear(y)
         /\ y % 4 \in 0 .. 3 /\ y % 100 \in 0 .. 99 /\ y % 400 \in 0 .. 399
<1>1. 4 \in Nat \ {0} /\ 100 \in Nat \ {0} /\ 400 \in Nat \ {0} /\ y \in Int  OBVIOUS
<1>2. y % 4 \in 0 .. 3 /\ y % 100 \in 0 .. 99 /\ y % 400 \in 0 .. 399  BY <1>1, Division
<1>3. bLeapYear(y) \in {0, 1} /\ (bLeapYear(y) = 1 <=> Leap(y))
  BY Centuries DEF bLeapYear, Leap
<1>4. DAYS_PER_YR[1] = 365 /\ DAYS_PER_YR[2] = 366  BY DEF DAYS_PER_YR
<1> HIDE DEF bLeapYear
<1> QED BY <1>2, <1>3, <1>4

LEMMA DaysGrow ==
  ASSUME NEW y \in Nat
  PROVE  /\ DaysTo(y) \in Int /\ DaysTo(0) = 0
         /\ DaysTo(y + 1) = DaysTo(y) + 365 + bLeapYear(y)
<1>1. bLeapYear(y) = (IF y % 4 = 0 THEN 1 ELSE 0) - (IF y % 100 = 0 THEN 1 ELSE 0)
                       + (IF y % 400 = 0 THEN 1 ELSE 0)
  BY Centuries DEF bLeapYear
<1>2. /\ bLeapYear(y) = Hit(y, 4) - Hit(y, 100) + Hit(y, 400)
      /\ Hit(y, 4) \in Int /\ Hit(y, 100) \in Int /\ Hit(y, 400) \in Int
  BY <1>1 DEF Hit
<1>3. /\ Multiples(y, 4) \in Nat /\ Multiples(y, 100) \in Nat /\ Multiples(y, 400) \in Nat
      /\ Multiples(0, 4) = 0 /\ Multiples(0, 100) = 0 /\ Multiples(0, 400) = 0
      /\ Multiples(y + 1, 4) = Multiples(y, 4) + Hit(y, 4)
      /\ Multiples(y + 1, 100) = Multiples(y, 100) + Hit(y, 100)
      /\ Multiples(y + 1, 400) = Multiples(y, 400) + Hit(y, 400)
  BY MultiplesCount
<1> QED BY <1>2, <1>3 DEF DaysTo, LeapYears

LEMMA DaysAtLeast == \A y \in Nat : DaysTo(y) \in Nat /\ DaysTo(y) >= 365 * y
<1> DEFINE T == {y \in Nat : ~(DaysTo(y) >= 365 * y)}
<1>1. SUFFICES ASSUME T # {} PROVE FALSE
  <2>1. \A y \in Nat : DaysTo(y) \in Int  BY DaysGrow
  <2>2. ASSUME T = {}, NEW y \in Nat PROVE DaysTo(y) \in Nat /\ DaysTo(y) >= 365 * y
    <3>1. DaysTo(y) >= 365 * y  BY <2>2
    <3> QED BY <2>1, <3>1
  <2> QED BY <2>2
<1>2. PICK n \in T : \A m \in T : n <= m
  <2>1. T \subseteq Nat  OBVIOUS
  <2> HIDE DEF T
  <2> QED BY <1>1, <2>1, Least
<1>3. CASE n = 0  BY <1>2, <1>3, DaysGrow
<1>4. CASE n # 0
  <2>1. n - 1 \in Nat /\ n - 1 + 1 = n /\ n \in Nat  BY <1>4
  <2>2. n - 1 \notin T  BY <1>2, <2>1
  <2>3. DaysTo(n - 1) >= 365 * (n - 1)  BY <2>1, <2>2
  <2>4. /\ DaysTo(n - 1) \in Int
        /\ DaysTo(n) = DaysTo(n - 1) + 365 + bLeapYear(n - 1)
    BY <2>1, DaysGrow
  <2>5. bLeapYear(n - 1) \in {0, 1}  BY <2>1, LeapTypes
  <2>6. DaysTo(n) >= 365 * n  BY <2>1, <2>3, <2>4, <2>5
  <2> QED BY <2>6, <1>2
<1> QED BY <1>3, <1>4

(* The years follow each other without a gap, so a day is in one of them.  *)
InYear(t, y) == DaysTo(y) <= t /\ t < DaysTo(y + 1)

LEMMA YearsFollow ==
  ASSUME NEW y \in Nat
  PROVE  \A z \in Nat : y < z => DaysTo(y + 1) <= DaysTo(z)
<1> DEFINE T == {z \in Nat : y < z /\ ~(DaysTo(y + 1) <= DaysTo(z))}
<1>1. SUFFICES ASSUME T # {} PROVE FALSE  OBVIOUS
<1>2. PICK n \in T : \A m \in T : n <= m
  <2>1. T \subseteq Nat  OBVIOUS
  <2> HIDE DEF T
  <2> QED BY <1>1, <2>1, Least
<1>0. y + 1 \in Nat /\ DaysTo(y + 1) \in Nat  BY DaysAtLeast
<1>3. CASE n = y + 1  BY <1>0, <1>2, <1>3
<1>4. CASE n # y + 1
  <2>1. n - 1 \in Nat /\ n - 1 + 1 = n /\ n \in Nat /\ y < n - 1  BY <1>4
  <2>2. n - 1 \notin T  BY <1>2, <2>1
  <2>3. DaysTo(y + 1) <= DaysTo(n - 1)  BY <2>1, <2>2
  <2>4. /\ DaysTo(n - 1) \in Int
        /\ DaysTo(n) = DaysTo(n - 1) + 365 + bLeapYear(n - 1)
    BY <2>1, DaysGrow
  <2>5. bLeapYear(n - 1) \in {0, 1}  BY <2>1, LeapTypes
  <2>6. DaysTo(y + 1) <= DaysTo(n)  BY <1>0, <2>3, <2>4, <2>5
  <2> QED BY <2>6, <1>2
<1> QED BY <1>3, <1>4

LEMMA OneYear ==
  ASSUME NEW t \in Nat, NEW y \in Nat, NEW z \in Nat, InYear(t, y), InYear(t, z)
  PROVE  y = z
<1>1. /\ DaysTo(y) \in Nat /\ DaysTo(z) \in Nat
      /\ DaysTo(y + 1) \in Nat /\ DaysTo(z + 1) \in Nat
  <2>1. y + 1 \in Nat /\ z + 1 \in Nat  OBVIOUS
  <2> QED BY <2>1, DaysAtLeast
<1>2. CASE y < z
  <2>1. DaysTo(y + 1) <= DaysTo(z)  BY <1>2, YearsFollow
  <2> QED BY <1>1, <2>1 DEF InYear
<1>3. CASE z < y
  <2>1. DaysTo(z + 1) <= DaysTo(y)  BY <1>3, YearsFollow
  <2> QED BY <1>1, <2>1 DEF InYear
<1> QED BY <1>2, <1>3

LEMMA SomeYear ==
  ASSUME NEW t \in Nat
  PROVE  \E y \in Nat : InYear(t, y)
<1> DEFINE T == {y \in Nat : t < DaysTo(y + 1)}
<1>1. t \in T
  <2>1. t + 1 \in Nat /\ DaysTo(t + 1) >= 365 * (t + 1) /\ DaysTo(t + 1) \in Nat
    <3>1. t + 1 \in Nat  OBVIOUS
    <3> QED BY <3>1, DaysAtLeast
  <2> QED BY <2>1
<1>2. PICK y \in T : \A m \in T : y <= m
  <2>1. T \subseteq Nat  OBVIOUS
  <2> HIDE DEF T
  <2> QED BY <1>1, <2>1, Least
<1>3. y \in Nat /\ t < DaysTo(y + 1)  OBVIOUS
<1>4. CASE y = 0  BY <1>3, <1>4, DaysGrow DEF InYear
<1>5. CASE y # 0
  <2>1. y - 1 \in Nat /\ y - 1 + 1 = y  BY <1>3, <1>5
  <2>2. y - 1 \notin T  BY <1>2, <1>3, <2>1
  <2>3. ~(t < DaysTo(y)) /\ DaysTo(y) \in Nat  BY <1>3, <2>1, <2>2, DaysAtLeast
  <2> QED BY <1>3, <2>3 DEF InYear
<1> QED BY <1>4, <1>5

LEMMA YearFacts ==
  ASSUME NEW y \in Nat
  PROVE  /\ y + 1 \in Nat /\ bLeapYear(y) \in {0, 1}
         /\ DAYS_PER_YR[bLeapYear(y) + 1] = 365 + bLeapYear(y)
         /\ DaysTo(y) \in Nat /\ DaysTo(y + 1) = DaysTo(y) + 365 + bLeapYear(y)
<1>1. DaysTo(y) \in Nat  BY DaysAtLeast
<1>2. DaysTo(y + 1) = DaysTo(y) + 365 + bLeapYear(y)  BY DaysGrow
<1>3. bLeapYear(y) \in {0, 1} /\ DAYS_PER_YR[bLeapYear(y) + 1] = 365 + bLeapYear(y)
  BY LeapTypes
<1> QED BY <1>1, <1>2, <1>3

(* The loop over the years, of any function that satisfies its equation.   *)
YearStep(F) ==
  [p \in Nat \X Nat |->
     IF p[2] < DAYS_PER_YR[bLeapYear(p[1]) + 1] THEN p
     ELSE F[<<p[1] + 1, p[2] - DAYS_PER_YR[bLeapYear(p[1]) + 1]>>]]

DayOf(p) == DaysTo(p[1]) + p[2]
YearOf(t) == CHOOSE y \in Nat : InYear(t, y)

LEMMA DayOfYear ==
  ASSUME NEW t \in Nat
  PROVE  YearOf(t) \in Nat /\ InYear(t, YearOf(t)) /\ DaysTo(YearOf(t)) \in Nat
<1>1. YearOf(t) \in Nat /\ InYear(t, YearOf(t))  BY SomeYear DEF YearOf
<1> QED BY <1>1, DaysAtLeast

LEMMA YearLoopSolved == YearLoop = YearStep(YearLoop)
<1> DEFINE F == [p \in Nat \X Nat |-> <<YearOf(DayOf(p)), DayOf(p) - DaysTo(YearOf(DayOf(p)))>>]
<1>1. ASSUME NEW p \in Nat \X Nat PROVE F[p] = YearStep(F)[p]
  <2>0. PICK y \in Nat, n \in Nat : p = <<y, n>>  OBVIOUS
  <2> DEFINE l == bLeapYear(y)
  <2>1. /\ p = <<y, n>> /\ p[1] = y /\ p[2] = n /\ y + 1 \in Nat
        /\ l \in {0, 1} /\ DAYS_PER_YR[l + 1] = 365 + l
        /\ DaysTo(y) \in Nat /\ DaysTo(y + 1) = DaysTo(y) + 365 + l
    BY <2>0, YearFacts
  <2>2. F[p] = <<YearOf(DaysTo(y) + n), DaysTo(y) + n - DaysTo(YearOf(DaysTo(y) + n))>>
    <3>1. F[p] = <<YearOf(DayOf(p)), DayOf(p) - DaysTo(YearOf(DayOf(p)))>>  OBVIOUS
    <3>2. DayOf(p) = DaysTo(y) + n  BY <2>1 DEF DayOf
    <3>3. DayOf(p) \in Nat  BY <2>1, <3>2
    <3> HIDE DEF F
    <3> QED BY <2>1, <3>1, <3>2, <3>3, DayOfYear
  <2>3. YearStep(F)[p] = IF n < 365 + l THEN p ELSE F[<<y + 1, n - (365 + l)>>]
    <3> HIDE DEF F
    <3>1. YearStep(F)[p] =
            IF p[2] < DAYS_PER_YR[bLeapYear(p[1]) + 1] THEN p
            ELSE F[<<p[1] + 1, p[2] - DAYS_PER_YR[bLeapYear(p[1]) + 1]>>]
      BY DEF YearStep
    <3> QED BY <2>1, <3>1
  <2>4. CASE n < 365 + l
    <3>1. InYear(DaysTo(y) + n, y) /\ DaysTo(y) + n \in Nat
      <4> HIDE DEF l
      <4> QED BY <2>1, <2>4 DEF InYear
    <3>2. YearOf(DaysTo(y) + n) = y
      <4> HIDE DEF l, F
      <4>1. YearOf(DaysTo(y) + n) \in Nat /\ InYear(DaysTo(y) + n, YearOf(DaysTo(y) + n))
        BY <2>1, <3>1 DEF YearOf
      <4> QED BY <2>1, <3>1, <4>1, OneYear
    <3> HIDE DEF l, F
    <3>3. DaysTo(y) + n - DaysTo(y) = n  BY <2>1
    <3> QED BY <2>1, <2>2, <2>3, <2>4, <3>2, <3>3
  <2>5. CASE ~(n < 365 + l)
    <3> DEFINE q == <<y + 1, n - (365 + l)>>
    <3>1. n - (365 + l) \in Nat /\ DaysTo(y + 1) + (n - (365 + l)) = DaysTo(y) + n
      <4> HIDE DEF l
      <4> QED BY <2>1, <2>5
    <3>2. q \in Nat \X Nat /\ q[1] = y + 1 /\ q[2] = n - (365 + l)
      BY <2>1, <3>1
    <3>3. DayOf(q) = DaysTo(y) + n
      <4> HIDE DEF l, q
      <4> QED BY <3>1, <3>2 DEF DayOf
    <3>4. F[q] = <<YearOf(DaysTo(y) + n), DaysTo(y) + n - DaysTo(YearOf(DaysTo(y) + n))>>
      <4> HIDE DEF l, q
      <4>1. F[q] = <<YearOf(DayOf(q)), DayOf(q) - DaysTo(YearOf(DayOf(q)))>>  BY <3>2
      <4> HIDE DEF F
      <4> QED BY <2>1, <3>3, <4>1, DayOfYear
    <3> HIDE DEF l, F
    <3> QED BY <2>2, <2>3, <2>5, <3>4
  <2> QED BY <2>4, <2>5
<1>2. F = YearStep(F)
  <2>1. F = [p \in Nat \X Nat |-> F[p]]  OBVIOUS
  <2>2. YearStep(F) = [p \in Nat \X Nat |-> YearStep(F)[p]]  BY DEF YearStep
  <2> HIDE DEF F
  <2> QED BY <1>1, <2>1, <2>2
<1> HIDE DEF F
<1> QED BY <1>2, Zenon DEF YearLoop, YearStep

(* From year y with n days left, the loop ends in the year of that day.    *)
LEMMA YearFound ==
  ASSUME NEW y \in Nat, NEW n \in Nat, NEW z \in Nat, InYear(DaysTo(y) + n, z)
  PROVE  YearLoop[<<y, n>>] = <<z, DaysTo(y) + n - DaysTo(z)>>
<1> DEFINE Good(k) ==
      \A x \in Nat : \A w \in Nat :
        InYear(DaysTo(x) + k, w) => YearLoop[<<x, k>>] = <<w, DaysTo(x) + k - DaysTo(w)>>
    T == {k \in Nat : ~Good(k)}
<1>1. SUFFICES ASSUME T # {} PROVE FALSE  OBVIOUS
<1>2. PICK k \in T : \A m \in T : k <= m
  <2>1. T \subseteq Nat  OBVIOUS
  <2> HIDE DEF T
  <2> QED BY <1>1, <2>1, Least
<1>3. PICK x \in Nat, w \in Nat :
         /\ InYear(DaysTo(x) + k, w)
         /\ YearLoop[<<x, k>>] # <<w, DaysTo(x) + k - DaysTo(w)>>
  OBVIOUS
<1> DEFINE l == bLeapYear(x)
<1>4. /\ k \in Nat /\ x + 1 \in Nat /\ l \in {0, 1} /\ DAYS_PER_YR[l + 1] = 365 + l
      /\ DaysTo(x) \in Nat /\ DaysTo(x + 1) = DaysTo(x) + 365 + l
  BY YearFacts
<1>5. YearLoop[<<x, k>>] = IF k < 365 + l THEN <<x, k>> ELSE YearLoop[<<x + 1, k - (365 + l)>>]
  <2>1. <<x, k>> \in Nat \X Nat /\ <<x, k>>[1] = x /\ <<x, k>>[2] = k  BY <1>4
  <2>2. YearLoop = [p \in Nat \X Nat |->
           IF p[2] < DAYS_PER_YR[bLeapYear(p[1]) + 1] THEN p
           ELSE YearLoop[<<p[1] + 1, p[2] - DAYS_PER_YR[bLeapYear(p[1]) + 1]>>]]
    BY YearLoopSolved DEF YearStep
  <2> QED BY <1>4, <2>1, <2>2
<1> HIDE DEF l
<1>6. CASE k < 365 + l
  <2>1. InYear(DaysTo(x) + k, x) /\ DaysTo(x) + k \in Nat  BY <1>4, <1>6 DEF InYear
  <2>2. x = w  BY <1>3, <2>1, OneYear
  <2>3. DaysTo(x) + k - DaysTo(x) = k  BY <1>4
  <2> QED BY <1>3, <1>5, <1>6, <2>2, <2>3
<1>7. CASE ~(k < 365 + l)
  <2> DEFINE m == k - (365 + l)
  <2>1. m \in Nat /\ m < k /\ DaysTo(x + 1) + m = DaysTo(x) + k  BY <1>4, <1>7
  <2>2. m \notin T  BY <1>2, <1>4, <2>1
  <2>3. Good(m)  BY <2>1, <2>2
  <2> HIDE DEF m
  <2>4. YearLoop[<<x + 1, m>>] = <<w, DaysTo(x + 1) + m - DaysTo(w)>>
    <3>1. InYear(DaysTo(x + 1) + m, w)  BY <1>3, <2>1
    <3> QED BY <1>4, <2>3, <3>1
  <2>5. YearLoop[<<x, k>>] = YearLoop[<<x + 1, m>>]  BY <1>5, <1>7 DEF m
  <2>6. DaysTo(x + 1) + m - DaysTo(w) = DaysTo(x) + k - DaysTo(w)
    <3>1. DaysTo(w) \in Nat /\ DaysTo(x + 1) \in Nat  BY <1>4, YearFacts
    <3> QED BY <1>4, <2>1, <3>1
  <2>7. YearLoop[<<x, k>>] = <<w, DaysTo(x) + k - DaysTo(w)>>  BY <2>6, <2>4, <2>5
  <2> QED BY <1>3, <2>7
<1> QED BY <1>6, <1>7

(* The days of a year before a month, of a year with l leap days, and what *)
(* the month adds to them.                                                 *)
Before(l, m) ==
  <<0, 31, 59 + l, 90 + l, 120 + l, 151 + l, 181 + l, 212 + l, 243 + l, 273 + l, 304 + l,
    334 + l, 365 + l>>[m + 1]

LEMMA MonthFacts ==
  ASSUME NEW l \in {0, 1}, NEW m \in 0 .. 12
  PROVE  /\ Before(l, m) \in Nat /\ Before(l, 0) = 0 /\ Before(l, 12) = 365 + l
         /\ m # 12 => /\ DAYS_PER_MT[l + 1][m + 1] \in 28 .. 31
                      /\ Before(l, m + 1) = Before(l, m) + DAYS_PER_MT[l + 1][m + 1]
BY DEF Before, DAYS_PER_MT

LEMMA MonthsFollow ==
  ASSUME NEW l \in {0, 1}, NEW m \in 0 .. 12, NEW n \in 0 .. 12, m < n
  PROVE  Before(l, m + 1) <= Before(l, n)
BY DEF Before

InMonth(t, l, m) == Before(l, m) <= t /\ (m = 12 \/ t < Before(l, m + 1))

LEMMA OneMonth ==
  ASSUME NEW t \in Nat, NEW l \in {0, 1}, NEW m \in 0 .. 12, NEW n \in 0 .. 12,
         InMonth(t, l, m), InMonth(t, l, n)
  PROVE  m = n
<1>1. /\ Before(l, m) \in Nat /\ Before(l, n) \in Nat
      /\ m # 12 => Before(l, m + 1) \in Nat
      /\ n # 12 => Before(l, n + 1) \in Nat
  <2>1. (m # 12 => m + 1 \in 0 .. 12) /\ (n # 12 => n + 1 \in 0 .. 12)  OBVIOUS
  <2> QED BY <2>1, MonthFacts
<1>2. CASE m < n
  <2>1. Before(l, m + 1) <= Before(l, n) /\ m # 12  BY <1>2, MonthsFollow
  <2> QED BY <1>1, <2>1 DEF InMonth
<1>3. CASE n < m
  <2>1. Before(l, n + 1) <= Before(l, m) /\ n # 12  BY <1>3, MonthsFollow
  <2> QED BY <1>1, <2>1 DEF InMonth
<1> QED BY <1>2, <1>3

LEMMA SomeMonth ==
  ASSUME NEW t \in Nat, NEW l \in {0, 1}
  PROVE  \E m \in 0 .. 12 : InMonth(t, l, m)
<1> DEFINE T == {m \in 0 .. 12 : m = 12 \/ t < Before(l, m + 1)}
<1>1. 12 \in T  OBVIOUS
<1>2. PICK m \in T : \A n \in T : m <= n
  <2>1. T \subseteq Nat  OBVIOUS
  <2> HIDE DEF T
  <2> QED BY <1>1, <2>1, Least
<1>3. m \in 0 .. 12 /\ (m = 12 \/ t < Before(l, m + 1))  OBVIOUS
<1>4. CASE m = 0  BY <1>3, <1>4, MonthFacts DEF InMonth
<1>5. CASE m # 0
  <2>1. m - 1 \in 0 .. 12 /\ m - 1 + 1 = m /\ m - 1 # 12  BY <1>3, <1>5
  <2>2. m - 1 \notin T  BY <1>2, <1>3, <2>1
  <2>3. ~(t < Before(l, m)) /\ Before(l, m) \in Nat  BY <1>3, <2>1, <2>2, MonthFacts
  <2> QED BY <1>3, <2>3 DEF InMonth
<1> QED BY <1>4, <1>5

(* The loop over the months, in the same way.                              *)
Walks == (0 .. 12) \X Nat \X {0, 1}
MonthStep(F) ==
  [p \in Walks |->
     IF p[1] = 12 \/ p[2] < DAYS_PER_MT[p[3] + 1][p[1] + 1] THEN p
     ELSE F[<<p[1] + 1, p[2] - DAYS_PER_MT[p[3] + 1][p[1] + 1], p[3]>>]]

DayIn(p) == Before(p[3], p[1]) + p[2]
MonthOf(t, l) == CHOOSE m \in 0 .. 12 : InMonth(t, l, m)

LEMMA DayOfMonth ==
  ASSUME NEW t \in Nat, NEW l \in {0, 1}
  PROVE  /\ MonthOf(t, l) \in 0 .. 12 /\ InMonth(t, l, MonthOf(t, l))
         /\ Before(l, MonthOf(t, l)) \in Nat
<1>1. MonthOf(t, l) \in 0 .. 12 /\ InMonth(t, l, MonthOf(t, l))  BY SomeMonth DEF MonthOf
<1> QED BY <1>1, MonthFacts

LEMMA MonthLoopSolved == MonthLoop = MonthStep(MonthLoop)
<1> DEFINE F == [p \in Walks |-> <<MonthOf(DayIn(p), p[3]),
                                   DayIn(p) - Before(p[3], MonthOf(DayIn(p), p[3])), p[3]>>]
<1>1. ASSUME NEW p \in Walks PROVE F[p] = MonthStep(F)[p]
  <2>0. PICK m \in 0 .. 12, n \in Nat, l \in {0, 1} : p = <<m, n, l>>  BY DEF Walks
  <2> DEFINE k == DAYS_PER_MT[l + 1][m + 1]
             t == Before(l, m) + n
  <2>1. /\ p[1] = m /\ p[2] = n /\ p[3] = l /\ Before(l, m) \in Nat /\ t \in Nat
        /\ m # 12 => k \in 28 .. 31 /\ Before(l, m + 1) = Before(l, m) + k
    BY <2>0, MonthFacts
  <2> HIDE DEF k
  <2>2. F[p] = <<MonthOf(t, l), t - Before(l, MonthOf(t, l)), l>>
    <3>1. F[p] = <<MonthOf(DayIn(p), p[3]),
                   DayIn(p) - Before(p[3], MonthOf(DayIn(p), p[3])), p[3]>>  OBVIOUS
    <3>2. DayIn(p) = t  BY <2>1 DEF DayIn
    <3> HIDE DEF F, t
    <3> QED BY <2>1, <3>1, <3>2, DayOfMonth
  <2>3. MonthStep(F)[p] = IF m = 12 \/ n < k THEN p ELSE F[<<m + 1, n - k, l>>]
    <3> HIDE DEF F
    <3>1. MonthStep(F)[p] =
            IF p[1] = 12 \/ p[2] < DAYS_PER_MT[p[3] + 1][p[1] + 1] THEN p
            ELSE F[<<p[1] + 1, p[2] - DAYS_PER_MT[p[3] + 1][p[1] + 1], p[3]>>]
      BY DEF MonthStep
    <3> QED BY <2>1, <3>1 DEF k
  <2>4. CASE m = 12 \/ n < k
    <3>1. InMonth(t, l, m)  BY <2>1, <2>4 DEF InMonth
    <3>2. MonthOf(t, l) = m
      <4> HIDE DEF F, t
      <4>1. MonthOf(t, l) \in 0 .. 12 /\ InMonth(t, l, MonthOf(t, l))  BY <2>1, DayOfMonth
      <4> QED BY <2>1, <3>1, <4>1, OneMonth
    <3>3. t - Before(l, m) = n  BY <2>1
    <3> HIDE DEF F, t
    <3> QED BY <2>0, <2>2, <2>3, <2>4, <3>2, <3>3
  <2>5. CASE ~(m = 12 \/ n < k)
    <3> DEFINE q == <<m + 1, n - k, l>>
    <3>1. n - k \in Nat /\ m + 1 \in 0 .. 12 /\ Before(l, m + 1) + (n - k) = t
      BY <2>1, <2>5
    <3>2. q \in Walks /\ q[1] = m + 1 /\ q[2] = n - k /\ q[3] = l
      BY <2>1, <3>1 DEF Walks
    <3>3. DayIn(q) = t
      <4> HIDE DEF q
      <4> QED BY <3>1, <3>2 DEF DayIn
    <3>4. F[q] = <<MonthOf(t, l), t - Before(l, MonthOf(t, l)), l>>
      <4> HIDE DEF q
      <4>1. F[q] = <<MonthOf(DayIn(q), q[3]),
                     DayIn(q) - Before(q[3], MonthOf(DayIn(q), q[3])), q[3]>>  BY <3>2
      <4> HIDE DEF F, t
      <4> QED BY <2>1, <3>2, <3>3, <4>1, DayOfMonth
    <3> HIDE DEF F
    <3> QED BY <2>2, <2>3, <2>5, <3>4
  <2> QED BY <2>4, <2>5
<1>2. F = MonthStep(F)
  <2>1. F = [p \in Walks |-> F[p]]  OBVIOUS
  <2>2. MonthStep(F) = [p \in Walks |-> MonthStep(F)[p]]  BY DEF MonthStep
  <2> HIDE DEF F
  <2> QED BY <1>1, <2>1, <2>2
<1> HIDE DEF F
<1> QED BY <1>2, Zenon DEF MonthLoop, MonthStep, Walks

LEMMA MonthReached ==
  ASSUME NEW n \in Nat, NEW l \in {0, 1}, NEW w \in 0 .. 12, NEW o \in 0 .. 12,
         InMonth(Before(l, o) + n, l, w)
  PROVE  MonthLoop[<<o, n, l>>] = <<w, Before(l, o) + n - Before(l, w), l>>
<1> DEFINE Good(k) ==
      \A m \in 0 .. 12 :
        InMonth(Before(l, m) + k, l, w) =>
          MonthLoop[<<m, k, l>>] = <<w, Before(l, m) + k - Before(l, w), l>>
    T == {k \in Nat : ~Good(k)}
<1>1. SUFFICES ASSUME T # {} PROVE FALSE  OBVIOUS
<1>2. PICK k \in T : \A m \in T : k <= m
  <2>1. T \subseteq Nat  OBVIOUS
  <2> HIDE DEF T
  <2> QED BY <1>1, <2>1, Least
<1>3. PICK m \in 0 .. 12 :
         /\ InMonth(Before(l, m) + k, l, w)
         /\ MonthLoop[<<m, k, l>>] # <<w, Before(l, m) + k - Before(l, w), l>>
  OBVIOUS
<1> DEFINE d == DAYS_PER_MT[l + 1][m + 1]
<1>4. /\ k \in Nat /\ Before(l, m) \in Nat /\ Before(l, w) \in Nat
      /\ m # 12 => d \in 28 .. 31 /\ Before(l, m + 1) = Before(l, m) + d
  BY MonthFacts
<1>5. MonthLoop[<<m, k, l>>] =
        IF m = 12 \/ k < d THEN <<m, k, l>> ELSE MonthLoop[<<m + 1, k - d, l>>]
  <2>1. /\ <<m, k, l>> \in Walks
        /\ <<m, k, l>>[1] = m /\ <<m, k, l>>[2] = k /\ <<m, k, l>>[3] = l
    BY <1>4 DEF Walks
  <2>2. MonthLoop = [p \in Walks |->
           IF p[1] = 12 \/ p[2] < DAYS_PER_MT[p[3] + 1][p[1] + 1] THEN p
           ELSE MonthLoop[<<p[1] + 1, p[2] - DAYS_PER_MT[p[3] + 1][p[1] + 1], p[3]>>]]
    BY MonthLoopSolved DEF MonthStep
  <2> QED BY <2>1, <2>2
<1> HIDE DEF d
<1>6. CASE m = 12 \/ k < d
  <2>1. InMonth(Before(l, m) + k, l, m) /\ Before(l, m) + k \in Nat  BY <1>4, <1>6 DEF InMonth
  <2>2. m = w  BY <1>3, <2>1, OneMonth
  <2>3. Before(l, m) + k - Before(l, m) = k  BY <1>4
  <2> QED BY <1>3, <1>5, <1>6, <2>2, <2>3
<1>7. CASE ~(m = 12 \/ k < d)
  <2> DEFINE j == k - d
  <2>1. j \in Nat /\ j < k /\ m + 1 \in 0 .. 12 /\ Before(l, m + 1) + j = Before(l, m) + k
    BY <1>4, <1>7
  <2>2. j \notin T
    <3> HIDE DEF T, j
    <3>1. ~(k <= j)  BY <1>4, <2>1
    <3> QED BY <1>2, <3>1
  <2>3. Good(j)  BY <2>1, <2>2
  <2> HIDE DEF j
  <2>4. MonthLoop[<<m + 1, j, l>>] = <<w, Before(l, m + 1) + j - Before(l, w), l>>
    <3>1. InMonth(Before(l, m + 1) + j, l, w)  BY <1>3, <2>1
    <3> QED BY <2>1, <2>3, <3>1
  <2>5. MonthLoop[<<m, k, l>>] = MonthLoop[<<m + 1, j, l>>]  BY <1>5, <1>7 DEF j
  <2>6. Before(l, m + 1) + j - Before(l, w) = Before(l, m) + k - Before(l, w)
    BY <1>4, <1>7, <2>1
  <2>7. MonthLoop[<<m, k, l>>] = <<w, Before(l, m) + k - Before(l, w), l>>
    BY <2>4, <2>5, <2>6
  <2> QED BY <1>3, <2>7
<1> QED BY <1>6, <1>7

LEMMA MonthFound ==
  ASSUME NEW n \in Nat, NEW l \in {0, 1}, NEW w \in 0 .. 12, InMonth(n, l, w)
  PROVE  MonthLoop[<<0, n, l>>] = <<w, n - Before(l, w), l>>
<1> DEFINE o == 0
<1>1. o \in 0 .. 12 /\ Before(l, o) = 0 /\ Before(l, w) \in Nat  BY MonthFacts
<1> HIDE DEF o
<1>3. Before(l, o) + n = n /\ Before(l, o) + n - Before(l, w) = n - Before(l, w)  BY <1>1
<1>2. MonthLoop[<<o, n, l>>] = <<w, Before(l, o) + n - Before(l, w), l>>
  <2>1. InMonth(Before(l, o) + n, l, w)  BY <1>1, <1>3 DEF InMonth
  <2>2. \A i \in Nat : \A j \in {0, 1} : \A v \in 0 .. 12 : \A p \in 0 .. 12 :
          InMonth(Before(j, p) + i, j, v) =>
            MonthLoop[<<p, i, j>>] = <<v, Before(j, p) + i - Before(j, v), j>>
    BY MonthReached
  <2>3. \A v \in 0 .. 12 : \A p \in 0 .. 12 :
          InMonth(Before(l, p) + n, l, v) =>
            MonthLoop[<<p, n, l>>] = <<v, Before(l, p) + n - Before(l, v), l>>
    BY <2>2
  <2>4. \A v \in 0 .. 12 : 
          InMonth(Before(l, o) + n, l, v) =>
            MonthLoop[<<o, n, l>>] = <<v, Before(l, o) + n - Before(l, v), l>>
    BY <2>3, <1>1
  <2> QED BY <1>1, <2>1, <2>4
<1> QED BY <1>2, <1>3 DEF o

(* The date of a day, from its year, its month and the day in it.          *)
DatedBy(d, y, m, k) ==
  /\ InYear(DaysTo(1970) + d, y)
  /\ DaysTo(1970) + d = DaysTo(y) + Before(bLeapYear(y), m) + k
  /\ k < DAYS_PER_MT[bLeapYear(y) + 1][m + 1]

LEMMA Dated ==
  ASSUME NEW d \in Nat
  PROVE  \E y \in Nat \ {0}, m \in 0 .. 11, k \in Nat : DatedBy(d, y, m, k)
<1> DEFINE t == DaysTo(1970) + d
<1>1. t \in Nat /\ DaysTo(1970) \in Nat
  BY DaysAtLeast
<1>2. PICK y \in Nat : InYear(t, y)  BY <1>1, SomeYear
<1>3. y # 0
  <2>1. DaysTo(1) = 366 /\ DaysTo(1970) >= 365 * 1970
    <3>1. bLeapYear(0) = 1  BY Remains DEF bLeapYear
    <3>2. DaysTo(0) = 0 /\ DaysTo(0 + 1) = DaysTo(0) + 365 + bLeapYear(0)  BY DaysGrow
    <3> QED BY <3>1, <3>2, DaysAtLeast
  <2> QED BY <1>1, <1>2, <2>1 DEF InYear
<1> DEFINE l == bLeapYear(y)
           n == t - DaysTo(y)
<1>4. /\ l \in {0, 1} /\ DaysTo(y) \in Nat /\ DaysTo(y + 1) = DaysTo(y) + 365 + l
      /\ n \in Nat /\ n < 365 + l
  BY <1>1, <1>2, YearFacts DEF InYear
<1> HIDE DEF l, n
<1>5. PICK m \in 0 .. 12 : InMonth(n, l, m)  BY <1>4, SomeMonth
<1>6. m # 12  BY <1>4, <1>5, MonthFacts DEF InMonth
<1> DEFINE k == n - Before(l, m)
<1>7. /\ m \in 0 .. 11 /\ k \in Nat /\ k < DAYS_PER_MT[l + 1][m + 1]
      /\ t = DaysTo(y) + Before(l, m) + k
  BY <1>1, <1>4, <1>5, <1>6, MonthFacts DEF InMonth, n
<1> HIDE DEF k
<1> QED BY <1>2, <1>3, <1>7 DEF DatedBy, l

(* The days of the week come round every 7 days, through every month and   *)
(* year: the table and the numbers of leap years make up for their lengths.*)
LEMMA Quotients ==
  ASSUME NEW z \in Nat, NEW n \in Nat \ {0}
  PROVE  z \div n = Multiples(z + 1, n) - 1
<1>1. z \div n \in Int /\ z % n \in 0 .. n - 1 /\ z = n * (z \div n) + (z % n)  BY Division
<1> DEFINE q == z \div n
           r == z % n
<1> HIDE DEF q, r
<1>2. q \in Int /\ r \in 0 .. n - 1 /\ z + 1 + n - 1 = n * (q + 1) + r  BY <1>1 DEF q, r
<1>3. Multiples(z + 1, n) = q + 1
  <2>1. z + 1 + n - 1 \in Int /\ q + 1 \in Int  BY <1>2
  <2> QED BY <1>2, <2>1, Remains DEF Multiples
<1> QED BY <1>2, <1>3 DEF q

LEMMA LeapYearsPassed ==
  ASSUME NEW z \in Nat
  PROVE  /\ z + z \div 4 - z \div 100 + z \div 400 = DaysTo(z + 1) - 364 * (z + 1) - 2
         /\ DaysTo(z + 1) \in Nat
<1>1. /\ z \div 4 = Multiples(z + 1, 4) - 1
      /\ z \div 100 = Multiples(z + 1, 100) - 1
      /\ z \div 400 = Multiples(z + 1, 400) - 1
  <2>1. \A n \in Nat \ {0} : z \div n = Multiples(z + 1, n) - 1  BY Quotients
  <2>2. 4 \in Nat \ {0} /\ 100 \in Nat \ {0} /\ 400 \in Nat \ {0}  OBVIOUS
  <2> QED BY <2>1, <2>2
<1>2. /\ z + 1 \in Nat
      /\ Multiples(z + 1, 4) \in Nat /\ Multiples(z + 1, 100) \in Nat
      /\ Multiples(z + 1, 400) \in Nat
  <2>1. z + 1 \in Nat  OBVIOUS
  <2> QED BY <2>1, MultiplesCount
<1>3. DaysTo(z + 1) \in Nat  BY <1>2, DaysAtLeast
<1> QED BY <1>1, <1>2, <1>3 DEF DaysTo, LeapYears

LEMMA Sevens ==
  ASSUME NEW a \in Int, NEW b \in Int, NEW c \in Int, a = b + 7 * c
  PROVE  a % 7 = b % 7
<1>1. b \div 7 \in Int /\ b % 7 \in 0 .. 6 /\ b = 7 * (b \div 7) + (b % 7)  BY Division
<1> DEFINE q == b \div 7
           r == b % 7
<1> HIDE DEF q, r
<1>2. q \in Int /\ r \in 0 .. 6 /\ a = 7 * (q + c) + r /\ q + c \in Int  BY <1>1 DEF q, r
<1>3. a % 7 = r  BY <1>2, Remains
<1> QED BY <1>3 DEF r

LEMMA SevenNext ==
  ASSUME NEW b \in Nat, NEW d \in Nat
  PROVE  (b + d) % 7 = (((b + d - 1) % 7) + 1) % 7
<1> DEFINE a == b + d - 1
           t == b + d
<1>1. a \in Int /\ t \in Int /\ t = a + 1  OBVIOUS
<1> HIDE DEF a, t
<1>2. a \div 7 \in Int /\ a % 7 \in 0 .. 6 /\ a = 7 * (a \div 7) + (a % 7)
  BY <1>1, Division
<1> DEFINE q == a \div 7
           r == a % 7
<1> HIDE DEF q, r
<1>3. /\ t = (r + 1) + 7 * q /\ q \in Int /\ r + 1 \in Int
  BY <1>1, <1>2 DEF q, r
<1>4. t % 7 = (r + 1) % 7  BY <1>3, Sevens
<1> QED BY <1>4 DEF r, a, t

LEMMA WeekFound ==
  ASSUME NEW d \in Nat, NEW y \in Nat \ {0}, NEW m \in 0 .. 11, NEW k \in Nat,
         DatedBy(d, y, m, k)
  PROVE  DayOfWeek(m + 1, k + 1, y) = (DaysTo(1970) + d - 1) % 7
<1> DEFINE l == bLeapYear(y)
           z == IF m + 1 < 3 THEN y - 1 ELSE y
           q == z + z \div 4 - z \div 100 + z \div 400
           a == q + WEEK_DAY_INFO[m + 1] + (k + 1)
           t == DaysTo(1970) + d - 1
<1>1. l \in {0, 1} /\ DaysTo(y) \in Nat /\ DaysTo(y + 1) = DaysTo(y) + 365 + l
  BY YearFacts
<1>2. q = IF m < 2 THEN DaysTo(y) - 364 * y - 2 ELSE DaysTo(y) - 364 * y - 1 + l
  <2>1. CASE m < 2
    <3>1. y - 1 \in Nat /\ y - 1 + 1 = y /\ z = y - 1  BY <2>1
    <3> HIDE DEF l, z
    <3> QED BY <2>1, <3>1, LeapYearsPassed
  <2>2. CASE ~(m < 2)
    <3>1. z = y  BY <2>2
    <3>2. q = DaysTo(y + 1) - 364 * (y + 1) - 2
      <4> HIDE DEF l, z
      <4> QED BY <3>1, LeapYearsPassed
    <3> HIDE DEF l, q
    <3> QED BY <1>1, <2>2, <3>2
  <2> QED BY <2>1, <2>2
<1> DEFINE j == <<0, 4, 8, 12, 17, 21, 25, 30, 34, 38, 43, 47>>[m + 1]
<1>3. j \in Nat /\ WEEK_DAY_INFO[m + 1] \in Nat /\ Before(l, m) \in Nat
  BY <1>1 DEF WEEK_DAY_INFO, Before
<1>4. Before(l, m) - WEEK_DAY_INFO[m + 1] = 7 * j + (IF m < 2 THEN 0 ELSE 1 + l)
  BY <1>1 DEF WEEK_DAY_INFO, Before
<1>5. t = DaysTo(y) + Before(l, m) + k - 1 /\ t \in Int
  <2>1. DaysTo(1970) \in Nat  BY DaysAtLeast
  <2>2. DaysTo(1970) + d = DaysTo(y) + Before(l, m) + k  BY DEF DatedBy
  <2> HIDE DEF l
  <2> QED BY <1>1, <1>3, <2>1, <2>2
<1>6. a = t + 7 * (-(52 * y + j)) /\ a \in Int /\ -(52 * y + j) \in Int
  <2> HIDE DEF l, q, t, j
  <2> QED BY <1>1, <1>2, <1>3, <1>4, <1>5
<1>7. DayOfWeek(m + 1, k + 1, y) = a % 7  BY DEF DayOfWeek
<1>8. a % 7 = t % 7
  <2> HIDE DEF a, t, j
  <2> QED BY <1>5, <1>6, Sevens
<1> QED BY <1>7, <1>8

(* What lum_gmtime makes of a day.                                         *)
LEMMA GmtimeFound ==
  ASSUME NEW d \in Nat, NEW y \in Nat \ {0}, NEW m \in 0 .. 11, NEW k \in Nat,
         DatedBy(d, y, m, k)
  PROVE  gmtime(d) = [year |-> y, month |-> m, day |-> k + 1,
                      week |-> (DaysTo(1970) + d - 1) % 7]
<1> DEFINE l == bLeapYear(y)
           b == Before(l, m)
           n == b + k
<1>1. /\ l \in {0, 1} /\ DaysTo(y) \in Nat /\ DaysTo(1970) \in Nat /\ b \in Nat
      /\ n \in Nat /\ DaysTo(1970) + d - DaysTo(y) = n /\ n - b = k
  <2>1. l \in {0, 1} /\ DaysTo(y) \in Nat /\ DaysTo(1970) \in Nat  BY YearFacts
  <2>2. b \in Nat  BY <2>1, MonthFacts
  <2>3. DaysTo(1970) + d = DaysTo(y) + b + k  BY DEF DatedBy
  <2> HIDE DEF l, b
  <2> QED BY <2>1, <2>2, <2>3
<1>2. YearLoop[<<1970, d>>] = <<y, n>>
  <2> DEFINE e == 1970
  <2>1. e \in Nat /\ InYear(DaysTo(e) + d, y)  BY DEF DatedBy
  <2>2. DaysTo(e) + d - DaysTo(y) = n  BY <1>1
  <2> HIDE DEF e, n
  <2>3. YearLoop[<<e, d>>] = <<y, DaysTo(e) + d - DaysTo(y)>>  BY <2>1, YearFound
  <2> QED BY <2>2, <2>3 DEF e
<1>3. MonthLoop[<<0, n, l>>] = <<m, k, l>>
  <2>1. m \in 0 .. 12 /\ m # 12 /\ k < DAYS_PER_MT[l + 1][m + 1]  BY DEF DatedBy
  <2>2. /\ DAYS_PER_MT[l + 1][m + 1] \in 28 .. 31
        /\ Before(l, m + 1) = b + DAYS_PER_MT[l + 1][m + 1]
    <3> HIDE DEF l
    <3> QED BY <1>1, <2>1, MonthFacts
  <2>3. InMonth(n, l, m)
    <3> HIDE DEF l
    <3> QED BY <1>1, <2>1, <2>2 DEF InMonth
  <2>4. n \in Nat /\ l \in {0, 1} /\ m \in 0 .. 12 /\ n - b = k  BY <1>1, <2>1
  <2> HIDE DEF l, n, b
  <2>5. MonthLoop[<<0, n, l>>] = <<m, n - Before(l, m), l>>  BY <2>3, <2>4, MonthFound
  <2> QED BY <2>4, <2>5 DEF b
<1>4. DayOfWeek(m + 1, k + 1, y) = (DaysTo(1970) + d - 1) % 7  BY WeekFound
<1> HIDE DEF l, n
<1>5. /\ YearLoop[<<1970, d>>][1] = y /\ YearLoop[<<1970, d>>][2] = n
      /\ bLeapYear(YearLoop[<<1970, d>>][1]) = l
  BY <1>2 DEF l
<1>6. MonthLoop[<<0, n, l>>][1] = m /\ MonthLoop[<<0, n, l>>][2] = k  BY <1>3
<1> QED BY <1>4, <1>5, <1>6 DEF gmtime

LEMMA GmtimeEach ==
  \A d \in Nat : \A y \in Nat \ {0} : \A m \in 0 .. 11 : \A k \in Nat :
    DatedBy(d, y, m, k)
      => gmtime(d) = [year |-> y, month |-> m, day |-> k + 1,
                      week |-> (DaysTo(1970) + d - 1) % 7]
<1> TAKE d \in Nat
<1> TAKE y \in Nat \ {0}
<1> TAKE m \in 0 .. 11
<1> TAKE k \in Nat
<1> HAVE DatedBy(d, y, m, k)
<1> QED BY GmtimeFound

LEMMA GmtimeNext ==
  ASSUME NEW d \in Nat, NEW y \in Nat \ {0}, NEW m \in 0 .. 11, NEW k \in Nat,
         DatedBy(d + 1, y, m, k)
  PROVE  gmtime(d + 1) = [year |-> y, month |-> m, day |-> k + 1,
                          week |-> (DaysTo(1970) + d) % 7]
<1>1. d + 1 \in Nat /\ DaysTo(1970) + (d + 1) - 1 = DaysTo(1970) + d
  <2>1. DaysTo(1970) \in Nat  BY DaysAtLeast
  <2> QED BY <2>1
<1> DEFINE n == d + 1
<1>2. n \in Nat /\ DatedBy(n, y, m, k) /\ DaysTo(1970) + n - 1 = DaysTo(1970) + d  BY <1>1
<1> HIDE DEF n
<1>3. gmtime(n) = [year |-> y, month |-> m, day |-> k + 1,
                   week |-> (DaysTo(1970) + n - 1) % 7]
  BY <1>2, GmtimeEach
<1> QED BY <1>2, <1>3 DEF n

(* The day after: the same month, the next one, or the next year.          *)
LEMMA LengthsAgree ==
  ASSUME NEW y \in Nat \ {0}, NEW m \in 0 .. 11
  PROVE  MonthLength(y, m) = DAYS_PER_MT[bLeapYear(y) + 1][m + 1]
<1>1. bLeapYear(y) \in {0, 1} /\ (bLeapYear(y) = 1 <=> Leap(y))  BY LeapTypes
<1> HIDE DEF bLeapYear
<1> DEFINE l == bLeapYear(y)
<1>2. MonthLength(y, m) = CASE m = 1               -> IF l = 1 THEN 29 ELSE 28
                            [] m \in {3, 5, 8, 10} -> 30
                            [] OTHER               -> 31
  BY <1>1 DEF MonthLength
<1>3. l \in {0, 1}  BY <1>1
<1> HIDE DEF l
<1> QED BY <1>2, <1>3 DEF DAYS_PER_MT, l

LEMMA NextDated ==
  ASSUME NEW d \in Nat, NEW y \in Nat \ {0}, NEW m \in 0 .. 11, NEW k \in Nat,
         DatedBy(d, y, m, k)
  PROVE  LET last == k + 1 = DAYS_PER_MT[bLeapYear(y) + 1][m + 1]
         IN  /\ ~last => DatedBy(d + 1, y, m, k + 1)
             /\ last /\ m # 11 => DatedBy(d + 1, y, m + 1, 0)
             /\ last /\ m = 11 => DatedBy(d + 1, y + 1, 0, 0)
<1> DEFINE l == bLeapYear(y)
           b == Before(l, m)
           e == DAYS_PER_MT[l + 1][m + 1]
           t == DaysTo(1970) + d
<1>1. /\ l \in {0, 1} /\ DaysTo(y) \in Nat /\ DaysTo(1970) \in Nat /\ b \in Nat
      /\ DaysTo(y + 1) = DaysTo(y) + 365 + l /\ y + 1 \in Nat
  <2>1. l \in {0, 1} /\ DaysTo(y) \in Nat /\ DaysTo(1970) \in Nat
        /\ DaysTo(y + 1) = DaysTo(y) + 365 + l
    BY YearFacts
  <2> HIDE DEF l
  <2>2. b \in Nat  BY <2>1, MonthFacts
  <2> HIDE DEF b
  <2> QED BY <2>1, <2>2
<1>2. t = DaysTo(y) + b + k /\ k < e  BY DEF DatedBy
<1>3. e \in 28 .. 31 /\ Before(l, m + 1) = b + e /\ Before(l, m + 1) <= 365 + l
  <2> HIDE DEF l
  <2>1. m \in 0 .. 12 /\ m # 12 /\ m < 12 /\ 12 \in 0 .. 12  OBVIOUS
  <2>2. e \in 28 .. 31 /\ Before(l, m + 1) = b + e  BY <1>1, <2>1, MonthFacts
  <2>3. Before(l, m + 1) <= Before(l, 12) /\ Before(l, 12) = 365 + l
    BY <1>1, <2>1, MonthsFollow, MonthFacts
  <2> QED BY <2>2, <2>3
<1>4. DaysTo(1970) + (d + 1) = t + 1  BY <1>1
<1>5. CASE k + 1 # e
  <2>1. k + 1 < e /\ DaysTo(y) + b + (k + 1) = t + 1  BY <1>1, <1>2, <1>3, <1>5
  <2>2. DaysTo(y) <= t + 1 /\ t + 1 < DaysTo(y + 1)
    <3> HIDE DEF l, b, e, t
    <3> QED BY <1>1, <1>2, <1>3, <2>1
  <2>3. DatedBy(d + 1, y, m, k + 1)  BY <1>4, <2>1, <2>2 DEF DatedBy, InYear
  <2> QED BY <1>5, <2>3
<1>6. CASE k + 1 = e /\ m # 11
  <2>1. /\ m + 1 \in 0 .. 12 /\ m + 1 # 12 /\ m + 1 < 12 /\ 12 \in 0 .. 12
        /\ m + 1 + 1 \in 0 .. 12
    BY <1>6
  <2> DEFINE f == DAYS_PER_MT[l + 1][m + 1 + 1]
  <2>2. /\ f \in 28 .. 31 /\ Before(l, m + 1 + 1) = Before(l, m + 1) + f
        /\ Before(l, m + 1 + 1) <= Before(l, 12) /\ Before(l, 12) = 365 + l
    <3> DEFINE o == m + 1
    <3>1. o \in 0 .. 12 /\ o # 12 /\ o < 12 /\ 12 \in 0 .. 12  BY <2>1
    <3> HIDE DEF l, o
    <3>2. /\ DAYS_PER_MT[l + 1][o + 1] \in 28 .. 31
          /\ Before(l, o + 1) = Before(l, o) + DAYS_PER_MT[l + 1][o + 1]
          /\ Before(l, 12) = 365 + l
      BY <1>1, <3>1, MonthFacts
    <3>3. Before(l, o + 1) <= Before(l, 12)  BY <1>1, <3>1, MonthsFollow
    <3> QED BY <3>2, <3>3 DEF o
  <2>3. /\ DaysTo(y) + Before(l, m + 1) + 0 = t + 1
        /\ DaysTo(y) <= t + 1 /\ t + 1 < DaysTo(y + 1) /\ 0 < f
    <3> HIDE DEF l, b, e, t, f
    <3> QED BY <1>1, <1>2, <1>3, <1>6, <2>2
  <2>4. DatedBy(d + 1, y, m + 1, 0)  BY <1>4, <2>3 DEF DatedBy, InYear
  <2> QED BY <1>6, <2>4
<1>7. CASE k + 1 = e /\ m = 11
  <2> DEFINE f == DAYS_PER_MT[bLeapYear(y + 1) + 1][0 + 1]
  <2>1. /\ bLeapYear(y + 1) \in {0, 1} /\ DaysTo(y + 1) \in Nat
        /\ DaysTo(y + 1 + 1) = DaysTo(y + 1) + 365 + bLeapYear(y + 1)
    BY <1>1, YearFacts
  <2>2. Before(bLeapYear(y + 1), 0) = 0 /\ f \in 28 .. 31
    BY <2>1, MonthFacts
  <2>3. Before(l, 12) = 365 + l
    <3> HIDE DEF l
    <3> QED BY <1>1, MonthFacts
  <2>4. /\ DaysTo(y + 1) + Before(bLeapYear(y + 1), 0) + 0 = t + 1
        /\ DaysTo(y + 1) <= t + 1 /\ t + 1 < DaysTo(y + 1 + 1) /\ 0 < f
    <3>1. m + 1 = 12  BY <1>7
    <3> HIDE DEF l, b, e, t, f
    <3> QED BY <1>1, <1>2, <1>3, <1>7, <2>1, <2>2, <2>3, <3>1
  <2>5. DatedBy(d + 1, y + 1, 0, 0)  BY <1>4, <2>4 DEF DatedBy, InYear
  <2> QED BY <1>7, <2>5
<1> QED BY <1>5, <1>6, <1>7

LEMMA FirstDate == gmtime(0) = Epoch
<1>1. /\ DaysTo(1970) = 719528 /\ bLeapYear(1970) = 0
  <2>1. Multiples(1970, 4) = 493  BY Remains DEF Multiples
  <2>2. Multiples(1970, 100) = 20  BY Remains DEF Multiples
  <2>3. Multiples(1970, 400) = 5  BY Remains DEF Multiples
  <2>4. bLeapYear(1970) = 0  BY Remains DEF bLeapYear
  <2> QED BY <2>1, <2>2, <2>3, <2>4 DEF DaysTo, LeapYears
<1>2. DaysTo(1970 + 1) = 719528 + 365  BY <1>1, DaysGrow
<1>3. Before(0, 0) = 0 /\ DAYS_PER_MT[0 + 1][0 + 1] = 31  BY DEF Before, DAYS_PER_MT
<1>4. DatedBy(0, 1970, 0, 0)  BY <1>1, <1>2, <1>3 DEF DatedBy, InYear
<1>5. gmtime(0) = [year |-> 1970, month |-> 0, day |-> 0 + 1,
                   week |-> (DaysTo(1970) + 0 - 1) % 7]
  BY <1>4, GmtimeFound
<1>6. (719528 + 0 - 1) % 7 = 4
  <2>1. 719528 + 0 - 1 = 7 * 102789 + 4  OBVIOUS
  <2> QED BY <2>1, Remains
<1> QED BY <1>1, <1>5, <1>6 DEF Epoch

LEMMA DatesFollow ==
  ASSUME NEW d \in Nat
  PROVE  gmtime(d + 1) = NextDate(gmtime(d))
<1>1. PICK y \in Nat \ {0}, m \in 0 .. 11, k \in Nat : DatedBy(d, y, m, k)  BY Dated
<1> DEFINE date == [year |-> y, month |-> m, day |-> k + 1, week |-> (DaysTo(1970) + d - 1) % 7]
           e == DAYS_PER_MT[bLeapYear(y) + 1][m + 1]
           last == k + 1 = e
<1>2. gmtime(d) = date
  <2>1. \A x \in Nat \ {0} : \A o \in 0 .. 11 : \A l \in Nat :
          DatedBy(d, x, o, l)
            => gmtime(d) = [year |-> x, month |-> o, day |-> l + 1,
                            week |-> (DaysTo(1970) + d - 1) % 7]
    BY GmtimeEach
  <2> QED BY <1>1, <2>1
<1>3. MonthLength(y, m) = e  BY LengthsAgree
<1>4. (DaysTo(1970) + d) % 7 = (((DaysTo(1970) + d - 1) % 7) + 1) % 7
  <2>1. DaysTo(1970) \in Nat  BY DaysAtLeast
  <2> QED BY <2>1, SevenNext
<1>9. /\ ~last => DatedBy(d + 1, y, m, k + 1)
      /\ last /\ m # 11 => DatedBy(d + 1, y, m + 1, 0)
      /\ last /\ m = 11 => DatedBy(d + 1, y + 1, 0, 0)
  BY <1>1, NextDated
<1>5. NextDate(date) =
        [year  |-> IF last /\ m = 11 THEN y + 1 ELSE y,
         month |-> IF last THEN (m + 1) % 12 ELSE m,
         day   |-> IF last THEN 1 ELSE k + 1 + 1,
         week  |-> (((DaysTo(1970) + d - 1) % 7) + 1) % 7]
  <2> HIDE DEF e
  <2> QED BY <1>3 DEF NextDate
<1>6. CASE ~last
  <2>1. DatedBy(d + 1, y, m, k + 1)  BY <1>6, <1>9
  <2>2. gmtime(d + 1) = [year |-> y, month |-> m, day |-> k + 1 + 1, week |-> (DaysTo(1970) + d) % 7]
    <3>1. k + 1 \in Nat  OBVIOUS
    <3> QED BY <2>1, <3>1, GmtimeNext
  <2> HIDE DEF last
  <2> QED BY <1>2, <1>4, <1>5, <1>6, <2>2
<1>7. CASE last /\ m # 11
  <2>1. DatedBy(d + 1, y, m + 1, 0)  BY <1>7, <1>9
  <2>2. m + 1 \in 0 .. 11 /\ (m + 1) % 12 = m + 1
    <3>1. m + 1 \in 0 .. 11 /\ m + 1 = 12 * 0 + (m + 1)  BY <1>7
    <3> QED BY <3>1, Remains
  <2>3. gmtime(d + 1) = [year |-> y, month |-> m + 1, day |-> 0 + 1, week |-> (DaysTo(1970) + d) % 7]
    BY <2>1, <2>2, GmtimeNext
  <2> HIDE DEF last
  <2> QED BY <1>2, <1>4, <1>5, <1>7, <2>2, <2>3
<1>8. CASE last /\ m = 11
  <2>1. DatedBy(d + 1, y + 1, 0, 0)  BY <1>8, <1>9
  <2>2. y + 1 \in Nat \ {0} /\ 0 \in 0 .. 11 /\ (m + 1) % 12 = 0
    <3>1. m + 1 = 12 * 1 + 0  BY <1>8
    <3> QED BY <3>1, Remains
  <2>3. gmtime(d + 1) = [year |-> y + 1, month |-> 0, day |-> 0 + 1, week |-> (DaysTo(1970) + d) % 7]
    BY <2>1, <2>2, GmtimeNext
  <2> HIDE DEF last
  <2> QED BY <1>2, <1>4, <1>5, <1>8, <2>2, <2>3
<1> QED BY <1>6, <1>7, <1>8

(* lum_gmtime begins on the first of January 1970, and goes on day by day. *)
LEMMA GregorianHolds == Gregorian
<1>1. ASSUME NEW d \in 1 .. LastDay PROVE gmtime(d) = NextDate(gmtime(d - 1))
  <2>1. d - 1 \in Nat /\ d - 1 + 1 = d  BY DayAssumption
  <2> QED BY <2>1, DatesFollow
<1> QED BY <1>1, FirstDate DEF Gregorian

(* However far the seconds reach, lum_gmtime (lumTimeData.c) gives every    *)
(* day the date and the day of the week that follow the day before's.      *)
THEOREM DatesCorrect == ClockSpec => []Dates
<1>1. Dates  BY GregorianHolds DEF Dates
<1> QED BY <1>1, PTL
=============================================================================
