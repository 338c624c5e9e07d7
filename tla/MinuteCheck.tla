---------------------------- MODULE MinuteCheck ----------------------------
(***************************************************************************)
(* The timer that checks every minute once (lumTimer.c, from               *)
(* lum_minuteCheckProtect on), and the countdown, which ends at a second   *)
(* but is compared by its minute.  What a check does with alarms and       *)
(* absences is module Schedule.                                            *)
(*                                                                         *)
(* The wall clock is read again and again while it runs and may be set, so *)
(* every reading is a step.                                                *)
(***************************************************************************)
EXTENDS Integers

CONSTANTS
  MINUTE,       \* 60: seconds of a minute
  HOUR,         \* 60: minutes of an hour
  LIMIT,        \* 10: so many minutes are caught up with
  LATE,         \* 70: the second of the minute that the timer aims at, + MINUTE
  NOT_NTP,      \* NOT_NTP_CHECK_TIMER_PERIOD, in seconds
  YEAR_2015,    \* SEC_2015_01_01_00_00_00: before, the clock was never set
  ONE_DAY_SECOND,
  Starts,       \* times at which the clock starts
  Jumps,        \* what the clock is set forward or back by
  Wishes,       \* countdowns that the app asks for: seconds from now
  MaxSecond,    \* bound: the clock
  MaxSets,      \* bound: settings of the clock
  MaxRequests,  \* bound: requests
  Delays        \* by how much the timer's thread may be late, in seconds

ASSUME MinuteAssumption ==
  /\ {MINUTE, HOUR, LIMIT, LATE, NOT_NTP, YEAR_2015, ONE_DAY_SECOND} \subseteq Nat \ {0}
  /\ LATE > MINUTE /\ LIMIT < HOUR
ASSUME CheckBoundAssumption ==
  /\ {MaxSecond, MaxSets, MaxRequests} \cup Delays \subseteq Nat
  /\ Starts \subseteq Nat /\ Jumps \subseteq Int /\ Wishes \subseteq Int

VARIABLES
  second,           \* the wall clock, in seconds
  delay,            \* the timer's thread is never later than that
  left,             \* seconds until the timer fires; below 0 it is overdue
  lastCheckMinute,  \* g_lastCheckMinute
  stage,            \* of the timer's callback
  curTime,          \* its second, as first read
  base,             \* totalSecond: its second, as read for a catch-up
  total, nth,       \* minutes to check, and the one that is being checked
  countdown,        \* countDownData[0]: whether it is active, and its second
  copy,             \* lum_checkInactiveCountdown's copy
  sets, requests,   \* bounds
  turn,             \* history: the last minute that was checked
  excused,          \* history: the next one need not follow it
  jumped,           \* history: the clock was set since a check began
  accepted,         \* history: since it was accepted, the clock was not set and
                    \* its minute is "ahead" of the last check; or was "checked"
  lost,             \* history: such countdowns that were removed and never ended
  fired             \* history: how late the last such countdown ended

checkBounds == <<sets, requests, delay>>
callback    == <<lastCheckMinute, stage, curTime, base, total, nth>>
history     == <<turn, excused, jumped, accepted, lost, fired>>
checkVars   == <<second, left, callback, countdown, copy, checkBounds, history>>

NoCheck == -1      \* 0xFF of g_lastCheckMinute
Off  == [active |-> FALSE, count |-> 0]

MinuteOf(t) == t \div MINUTE

\* The minute field of a time.
MinuteField(minute) == minute % HOUR

CheckInit ==
  /\ second \in Starts /\ left = NOT_NTP /\ delay \in Delays
  /\ lastCheckMinute = NoCheck /\ stage = "idle"
  /\ curTime = 0 /\ base = 0 /\ total = 0 /\ nth = 0
  /\ countdown = Off /\ copy = Off
  /\ sets = 0 /\ requests = 0
  /\ turn = 0 /\ excused = TRUE /\ jumped = FALSE
  /\ accepted = "no" /\ lost = {} /\ fired = 0

-----------------------------------------------------------------------------
(* lum_checkTimerCallback                                                   *)

\* The clock was never set: try again.
NoTimeYet ==
  /\ stage = "idle" /\ left <= 0 /\ second <= YEAR_2015
  /\ left' = NOT_NTP
  /\ UNCHANGED <<second, callback, countdown, copy, checkBounds, history>>

\* Mutant of Elapsed: the hour's wrap is forgotten.
ElapsedInHour(minute) ==
  IF MinuteField(minute) < lastCheckMinute THEN 1 ELSE MinuteField(minute) - lastCheckMinute

\* Minutes since the last check, by the minute of the hour.
Elapsed(minute) ==
  IF lastCheckMinute = NoCheck THEN 1
  ELSE MinuteField(minute) - lastCheckMinute
         + (IF MinuteField(minute) < lastCheckMinute THEN HOUR ELSE 0)

MinuteCheckProtect ==
  /\ stage = "idle" /\ left <= 0 /\ second > YEAR_2015
  /\ curTime' = second /\ base' = second
  /\ LET elapsed == Elapsed(MinuteOf(second))
     IN  total' = IF elapsed > LIMIT \/ elapsed <= 1 THEN 1 ELSE elapsed
  /\ nth' = 1
  /\ stage' = IF total' > 1 THEN "read" ELSE "check"
  /\ jumped' = FALSE
  /\ excused' = (excused \/ MinuteOf(second) > turn + LIMIT \/ MinuteOf(curTime) # turn)
  /\ UNCHANGED <<second, left, lastCheckMinute, countdown, copy, checkBounds, turn,
                 accepted, lost, fired>>

\* lum_minuteCheckProtect reads the clock again for the minutes it missed.
ReadAgain ==
  /\ stage = "read"
  /\ base' = second
  /\ excused' = (excused \/ MinuteOf(second) # MinuteOf(curTime))
  /\ stage' = "check"
  /\ UNCHANGED <<second, left, lastCheckMinute, curTime, total, nth, countdown, copy,
                 checkBounds, turn, jumped, accepted, lost, fired>>

\* The minute that is being checked.
Checked == MinuteOf(base - (total - nth) * MINUTE)

Turn ==
  /\ turn' = Checked
  /\ excused' = jumped

\* After a check comes the next one, now or when the timer fires.
\* Mutant of Proceed: the timer is not set back to the tenth second.
ProceedAndDrift ==
  IF nth < total
  THEN nth' = nth + 1 /\ stage' = "check" /\ UNCHANGED <<left, lastCheckMinute>>
  ELSE /\ stage' = "idle" /\ nth' = nth
       /\ lastCheckMinute' = MinuteField(MinuteOf(curTime))
       /\ left' = LATE

Proceed ==
  IF nth < total
  THEN nth' = nth + 1 /\ stage' = "check" /\ UNCHANGED <<left, lastCheckMinute>>
  ELSE /\ stage' = "idle" /\ nth' = nth
       /\ lastCheckMinute' = MinuteField(MinuteOf(curTime))
       /\ left' = LATE - (curTime % MINUTE)

\* The countdown ends in this minute.
Due == MinuteOf(countdown.count) = Checked

\* Mutant of Old: a countdown is old at once.
OldAtOnce == second > countdown.count

Old == second - countdown.count > MINUTE

\* lum_compareCountdown, which reads the clock for itself.
NoCountdown ==
  /\ stage = "check" /\ ~countdown.active
  /\ Turn /\ Proceed
  /\ UNCHANGED <<second, curTime, base, total, countdown, copy, checkBounds, jumped,
                 accepted, lost, fired>>

OldCountdown ==
  /\ stage = "check" /\ countdown.active /\ Old
  /\ Turn
  /\ copy' = countdown /\ stage' = "remove"
  /\ lost' = lost \cup {accepted}
  /\ UNCHANGED <<second, left, lastCheckMinute, curTime, base, total, nth, countdown,
                 checkBounds, jumped, accepted, fired>>

CountdownEnds ==
  /\ stage = "check" /\ countdown.active /\ ~Old
  /\ Due
  /\ Turn
  /\ fired' = IF accepted = "no" THEN 0 ELSE second - countdown.count
  /\ copy' = countdown /\ stage' = "remove"
  /\ UNCHANGED <<second, left, lastCheckMinute, curTime, base, total, nth, countdown,
                 checkBounds, jumped, accepted, lost>>

CountdownGoesOn ==
  /\ stage = "check" /\ countdown.active /\ ~Old
  /\ ~Due
  /\ Turn /\ Proceed
  /\ UNCHANGED <<second, curTime, base, total, countdown, copy, checkBounds, jumped,
                 accepted, lost, fired>>

\* lum_checkInactiveCountdown writes the copy back, whatever was stored since.
InactiveCountdown ==
  /\ stage = "remove"
  /\ countdown' = [copy EXCEPT !.active = FALSE] /\ copy' = Off
  /\ accepted' = "no"
  /\ Proceed
  /\ UNCHANGED <<second, curTime, base, total, checkBounds, turn, excused, jumped, lost,
                 fired>>

-----------------------------------------------------------------------------
(* The message thread                                                       *)

Valid(count) ==
  IF count > YEAR_2015 THEN second < count ELSE count > 0 /\ count < ONE_DAY_SECOND

Ends(count) == IF count > YEAR_2015 THEN count ELSE count + second

\* rebackSetCountDownData: a second of the clock, from old apps, or seconds
\* from now
SetCountDownData ==
  /\ requests < MaxRequests /\ requests' = requests + 1
  /\ \E count \in Wishes \cup {r + second : r \in Wishes} :
       /\ Valid(count)
       /\ countdown' = [active |-> TRUE, count |-> Ends(count)]
       /\ accepted' = IF second <= YEAR_2015 \/ excused \/ stage # "idle" THEN "no"
                      ELSE IF MinuteOf(Ends(count)) > turn THEN "ahead" ELSE "checked"
  /\ UNCHANGED <<second, left, callback, copy, sets, delay, turn, excused, jumped, lost,
                 fired>>

DeleteCountDownData ==
  /\ requests < MaxRequests /\ requests' = requests + 1
  /\ countdown' = Off /\ accepted' = "no"
  /\ UNCHANGED <<second, left, callback, copy, sets, delay, turn, excused, jumped, lost,
                 fired>>

-----------------------------------------------------------------------------
\* The timer's thread comes late, but by no more than its delay.
SecondPasses ==
  /\ second < MaxSecond /\ left > -delay
  /\ second' = second + 1 /\ left' = left - 1
  /\ UNCHANGED <<callback, countdown, copy, checkBounds, history>>

\* lum_syncNetworkTime, from the network or the app
SetClock ==
  /\ sets < MaxSets /\ sets' = sets + 1
  /\ \E d \in Jumps : second' = second + d /\ second' >= 0
  /\ excused' = TRUE /\ jumped' = TRUE /\ accepted' = "no"
  /\ UNCHANGED <<left, callback, countdown, copy, requests, delay, turn, lost, fired>>

CheckTimerCallback ==
  \/ NoTimeYet \/ MinuteCheckProtect \/ ReadAgain
  \/ NoCountdown \/ OldCountdown \/ CountdownEnds \/ CountdownGoesOn \/ InactiveCountdown

CheckNext ==
  CheckTimerCallback \/ SetCountDownData \/ DeleteCountDownData \/ SecondPasses \/ SetClock

CheckSpec == CheckInit /\ [][CheckNext]_checkVars
-----------------------------------------------------------------------------
CheckTypeOK ==
  /\ second \in Nat /\ delay \in Delays /\ left \in -delay .. LATE + NOT_NTP
  /\ lastCheckMinute \in {NoCheck} \cup 0 .. HOUR - 1
  /\ stage \in {"idle", "read", "check", "remove"}
  /\ curTime \in Nat /\ base \in Nat
  /\ total \in 0 .. LIMIT /\ nth \in 0 .. total
  /\ countdown \in [active: BOOLEAN, count: Nat] /\ copy \in [active: BOOLEAN, count: Nat]
  /\ sets \in 0 .. MaxSets /\ requests \in 0 .. MaxRequests
  /\ turn \in Int /\ excused \in BOOLEAN /\ jumped \in BOOLEAN
  /\ accepted \in {"no", "ahead", "checked"}
  /\ lost \subseteq {"no", "ahead", "checked"} /\ fired \in Int

(* While the clock is not set and the timer no more than LIMIT minutes     *)
(* late, every minute is checked, in turn and once, over the end of the    *)
(* hour too.  The exception is a check that catches up and whose two       *)
(* readings of the clock fall in different minutes: it skips one minute    *)
(* and checks another twice (lumTimer.c:521).                              *)
InTurn ==
  [][(NoCountdown \/ OldCountdown \/ CountdownEnds \/ CountdownGoesOn) /\ ~excused
     => turn' = turn + 1]_checkVars

\* The latest second of its minute in which a check ends.  The period counts
\* from the first reading of the clock and starts after the last check, so
\* that the delays of two checks add up.
Latest == (LATE - MINUTE) + 2 * delay

\* ... is still in that minute.
OnTime == Latest < MINUTE

(* With the same exceptions, between the timer's callbacks every minute    *)
(* has been checked whose second that the timer aims at, plus its delays,  *)
(* is over (lum_checkTimerCallback's period).                              *)
NoneForgotten == stage = "idle" /\ ~excused => MinuteOf(second - 1 - Latest) <= turn

(* A countdown that is set while its minute is still to be checked ends,   *)
(* unless the clock is set or another one is stored: when the timer's      *)
(* delays leave it within the minute, it is never taken for an old one     *)
(* (the one-minute limit of lum_compareCountdown).                         *)
NotLost == OnTime => "ahead" \notin lost

(* ... and it does so no later than the check of its minute ...            *)
EndsInTime ==
  OnTime /\ countdown.active /\ accepted = "ahead" =>
    second <= MINUTE * MinuteOf(countdown.count) + Latest

(* ... and no more than a minute early or late, however late the timer is. *)
EndsNear == fired > -MINUTE /\ fired <= MINUTE

(* The types, that no minute is forgotten, and what becomes of a countdown *)
(* that the app stored.                                                    *)
CountdownInv == CheckTypeOK /\ NoneForgotten /\ NotLost /\ EndsInTime /\ EndsNear
=============================================================================
