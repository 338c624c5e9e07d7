------------------------------ MODULE Schedule ------------------------------
(***************************************************************************)
(* Alarms and absences (lumTimer.c, with their storage in itoCommon.c):    *)
(* the app stores them, and once a minute the timer's thread compares each *)
(* with the time and works the switch.  Every minute is checked unless it  *)
(* is missed (module MinuteCheck says when).                               *)
(*                                                                         *)
(* Both threads store and check without a lock.  A step here is one slot   *)
(* compared, one copy written back, one evaluation of the absences or what *)
(* follows from it; a message's store is one step.                         *)
(***************************************************************************)
EXTENDS Integers, FiniteSets

CONSTANTS
  DAY, WEEK,          \* minutes of a day, days of a week
  MAX_ALARM_COUNT, MAX_ABSENCE_COUNT,
  MIN_ABSENCE_OPEN_INTERVAL, MAX_ABSENCE_OPEN_INTERVAL,
  MIN_ABSENCE_CLOSE_INTERVAL, MAX_ABSENCE_CLOSE_INTERVAL,
  AlarmInfos, AbsenceInfos,  \* what the app stores
  MaxEdits,           \* bound: what the app and the user do
  MaxMissed           \* bound: minutes missed and restarts

Minutes == 0 .. DAY - 1
NoTime  == DAY        \* 0xFF for hour and minute: later than any minute
Days    == 0 .. WEEK - 1
Infos   == [week: SUBSET Days, active: BOOLEAN,
            start: Minutes \cup {NoTime}, stop: Minutes \cup {NoTime}]
NoMinute == -1        \* INVALUE_ABSENCE_MINUTE

Alarms   == 0 .. MAX_ALARM_COUNT - 1
Absences == 0 .. MAX_ABSENCE_COUNT - 1

ASSUME TimeAssumption == DAY \in Nat \ {0} /\ WEEK \in Nat \ {0}
ASSUME CountAssumption ==
  {MAX_ALARM_COUNT, MAX_ABSENCE_COUNT, MaxEdits, MaxMissed} \subseteq Nat
ASSUME IntervalAssumption ==
  /\ MIN_ABSENCE_OPEN_INTERVAL \in 1 .. MAX_ABSENCE_OPEN_INTERVAL
  /\ MIN_ABSENCE_CLOSE_INTERVAL \in 1 .. MAX_ABSENCE_CLOSE_INTERVAL
  /\ MAX_ABSENCE_OPEN_INTERVAL \in 1 .. DAY - 1
  /\ MAX_ABSENCE_CLOSE_INTERVAL \in 1 .. DAY - 1
ASSUME InfoAssumption ==
  /\ AlarmInfos \subseteq Infos /\ AbsenceInfos \subseteq Infos
  /\ \A a \in AbsenceInfos : a.start # NoTime /\ a.stop # NoTime

Timer   == "timer"      \* the thread that runs timer callbacks
Message == "message"    \* the message thread
Threads == {Timer, Message}

VARIABLES
  now,                  \* minute of the week; week day 0 is Sunday
  alarms, absences,     \* g_deviceConfig: alarmData, absenceData
  switch,               \* the pin: TRUE is open, SWITCH_OPEN
  absenceRunning, nextAbsenceMinute,
  pc,                   \* per thread: where it is
  slot,                 \* the timer's next alarm
  copies,               \* per thread: <<slot, what it held>>, to be written back inactive
  status,               \* per thread: lum_checkAbsence's checkStatus
  again,                \* the message thread checks the absences once more
  checked,              \* this minute has been checked
  edits, misses,        \* bounds
  stored,               \* history, per alarm: what the app last stored there
  stale,                \* history: alarms stored while a copy of them was out
  opened,               \* history, per one-shot alarm: times it opened since stored, up to 2
  missed,               \* history: a minute was missed
  raced,                \* history: the last check of the absences met an edit
  quiet                 \* history: minutes in which one repeating alarm alone worked the switch

config  == <<alarms, absences>>
running == <<absenceRunning, nextAbsenceMinute>>
bounds  == <<edits, misses>>
vars    == <<now, config, switch, running, pc, slot, copies, status, again, checked,
             bounds, stored, stale, opened, missed, raced, quiet>>

Minute == now % DAY
Day    == now \div DAY

At(t, step)   == pc[t] = step
Goes(t, step) == pc' = [pc EXCEPT ![t] = step]
Idle          == \A t \in Threads : At(t, "idle")

Inactive(info) == [info EXCEPT !.active = FALSE]
Erased(info)   == [info EXCEPT !.active = FALSE, !.start = NoTime, !.stop = NoTime]
NoInfo         == [week |-> {}, active |-> FALSE, start |-> NoTime, stop |-> NoTime]

-----------------------------------------------------------------------------
(* The days of the week.  Bit b of a mask, Monday first, is day b + 1 of    *)
(* the week, Sunday first.                                                  *)

compareWeekData(mask) == mask = {} \/ Day \in {(b + 1) % WEEK : b \in mask}

\* Mutant of WeekAddOne: the mask as it is.
WeekAddNone(mask) == mask

WeekAddOne(mask) == {(b + 1) % WEEK : b \in mask}

-----------------------------------------------------------------------------
(* lum_compareAlarm and lum_compareAbsence                                  *)

Opens(a) == a.active /\ a.start = Minute /\ compareWeekData(a.week)
Closes(a) ==
  /\ a.active /\ a.stop = Minute
  /\ compareWeekData(IF a.start # NoTime /\ a.stop <= a.start
                     THEN WeekAddOne(a.week) ELSE a.week)

\* Mutant of Spent: a repeating alarm is done as well.
SpentAlways(a) == (Opens(a) /\ a.stop = NoTime) \/ Closes(a)

\* Mutant of Spent: an opening without an end is not done.
SpentAtStop(a) == a.week = {} /\ Closes(a)

\* A one-shot alarm that is done.
Spent(a) == a.week = {} /\ ((Opens(a) /\ a.stop = NoTime) \/ Closes(a))

\* Mutant of WithinPeriod: the part after midnight is forgotten.
WithinDay(a) ==
  a.active /\ Minute >= a.start /\ compareWeekData(a.week)
           /\ (Minute <= a.stop \/ a.start >= a.stop)

WithinPeriod(a) ==
  /\ a.active
  /\ \/ /\ Minute >= a.start /\ compareWeekData(a.week)
        /\ Minute <= a.stop \/ a.start >= a.stop
     \/ /\ Minute < a.start /\ a.start >= a.stop
        /\ compareWeekData(WeekAddOne(a.week)) /\ Minute <= a.stop

Status(a) == IF ~WithinPeriod(a) THEN "out"
             ELSE IF a.start = Minute THEN "start"
             ELSE IF a.stop = Minute THEN "end" ELSE "within"

-----------------------------------------------------------------------------
Init ==
  /\ now \in 0 .. WEEK * DAY - 1
  /\ alarms = [i \in Alarms |-> NoInfo]
  /\ absences = [i \in Absences |-> NoInfo]
  /\ switch \in BOOLEAN
  /\ absenceRunning = FALSE /\ nextAbsenceMinute = NoMinute
  /\ pc = [t \in Threads |-> "idle"] /\ slot = 0
  /\ copies = [t \in Threads |-> {}] /\ status = [t \in Threads |-> {}]
  /\ again = FALSE /\ checked = FALSE
  /\ edits = 0 /\ misses = 0
  /\ stored = alarms /\ stale = {} /\ opened = [i \in Alarms |-> 0]
  /\ missed = FALSE /\ raced = FALSE /\ quiet = 0

(* The timer's thread: lum_checkTimer, once a minute.                       *)

StartCheck ==
  /\ At(Timer, "idle") /\ ~checked
  /\ Goes(Timer, "alarms")
  /\ slot' = 0
  /\ raced' = ~At(Message, "idle")
  /\ UNCHANGED <<now, config, switch, running, copies, status, again, checked, bounds,
                 stored, stale, opened, missed, quiet>>

CompareAlarm ==
  /\ At(Timer, "alarms") /\ slot \in Alarms
  /\ LET a == alarms[slot]
     IN  /\ switch' = IF absenceRunning \/ ~(Opens(a) \/ Closes(a))
                      THEN switch ELSE ~Closes(a)
         /\ opened' = IF Opens(a) /\ a.week = {} /\ opened[slot] < 2
                      THEN [opened EXCEPT ![slot] = @ + 1] ELSE opened
         /\ copies' = IF Spent(a) THEN [copies EXCEPT ![Timer] = {<<slot, a>>}] ELSE copies
         /\ Goes(Timer, IF Spent(a) THEN "save alarm" ELSE "alarms")
  /\ slot' = slot + 1
  /\ UNCHANGED <<now, config, running, status, again, checked, bounds, stored, stale,
                 missed, raced, quiet>>

\* lum_checkInactiveAlarm: what was copied goes back, inactive.
InactiveAlarm ==
  /\ At(Timer, "save alarm")
  /\ \E c \in copies[Timer] : alarms' = [alarms EXCEPT ![c[1]] = Inactive(c[2])]
  /\ copies' = [copies EXCEPT ![Timer] = {}]
  /\ Goes(Timer, "alarms")
  /\ UNCHANGED <<now, absences, switch, running, slot, status, again, checked, bounds,
                 stored, stale, opened, missed, raced, quiet>>

AlarmsDone ==
  /\ At(Timer, "alarms") /\ slot \notin Alarms
  /\ Goes(Timer, "absences")
  /\ UNCHANGED <<now, config, switch, running, slot, copies, status, again, checked,
                 bounds, stored, stale, opened, missed, raced, quiet>>

-----------------------------------------------------------------------------
(* lum_checkAbsence, by thread t: the timer's after the alarms, the message *)
(* thread's after a change (lum_checkAbsenceWhileChange).                   *)

\* The one-shots that end now are copied.  Each is written back by a nested
\* setAbsenceData, which checks the absences itself, with the same outcome.
Ended == {i \in Absences : Status(absences[i]) = "end" /\ absences[i].week = {}}

CompareAbsences(t) ==
  /\ At(t, "absences")
  /\ status' = [status EXCEPT ![t] = {Status(absences[i]) : i \in Absences}]
  /\ copies' = [copies EXCEPT ![t] = {<<i, absences[i]>> : i \in Ended}]
  /\ Goes(t, IF Ended = {} THEN "act" ELSE "save absences")
  /\ UNCHANGED <<now, config, switch, running, slot, again, checked, bounds, stored,
                 stale, opened, missed, raced, quiet>>

\* lum_checkInactiveAbsence
InactiveAbsence(t) ==
  /\ At(t, "save absences")
  /\ absences' = [i \in Absences |->
                    IF \E c \in copies[t] : c[1] = i
                    THEN Inactive((CHOOSE c \in copies[t] : c[1] = i)[2])
                    ELSE absences[i]]
  /\ copies' = [copies EXCEPT ![t] = {}]
  /\ Goes(t, "act")
  /\ UNCHANGED <<now, alarms, switch, running, slot, status, again, checked, bounds,
                 stored, stale, opened, missed, raced, quiet>>

\* lum_changeSwitchByAbsence, which does not stop the absence
Change(open) ==
  /\ switch' = open
  /\ \E r \in IF open THEN MIN_ABSENCE_OPEN_INTERVAL .. MAX_ABSENCE_OPEN_INTERVAL
                      ELSE MIN_ABSENCE_CLOSE_INTERVAL .. MAX_ABSENCE_CLOSE_INTERVAL :
       nextAbsenceMinute' = (Minute + r) % DAY

StartAbsence(t) ==
  /\ status[t] \cap {"start", "within"} # {} /\ ~absenceRunning
  /\ Change(TRUE) /\ absenceRunning' = TRUE

\* Mutant of KeepAbsence: the switch is worked once.
KeepAbsenceOnce(t) ==
  /\ status[t] \cap {"start", "within"} # {} /\ absenceRunning
  /\ UNCHANGED <<switch, nextAbsenceMinute>>
  /\ UNCHANGED absenceRunning

KeepAbsence(t) ==
  /\ status[t] \cap {"start", "within"} # {} /\ absenceRunning
  /\ IF Minute = nextAbsenceMinute THEN Change(~switch)
                                   ELSE UNCHANGED <<switch, nextAbsenceMinute>>
  /\ UNCHANGED absenceRunning

StopAbsence(t) ==
  /\ status[t] \cap {"start", "within"} = {}
  /\ IF absenceRunning
     THEN switch' = FALSE /\ absenceRunning' = FALSE /\ nextAbsenceMinute' = NoMinute
     ELSE UNCHANGED <<switch, running>>

Act(t) ==
  /\ At(t, "act")
  /\ StartAbsence(t) \/ KeepAbsence(t) \/ StopAbsence(t)
  /\ status' = [status EXCEPT ![t] = {}]
  /\ again' = (again /\ t # Message)
  /\ Goes(t, IF t = Message /\ again THEN "absences" ELSE "idle")
  /\ checked' = (checked \/ t = Timer)
  /\ UNCHANGED <<now, config, slot, copies, bounds, stored, stale, opened, missed, raced,
                 quiet>>

-----------------------------------------------------------------------------
(* The message thread: what the app asks for.                               *)

Edits ==
  /\ At(Message, "idle")
  /\ edits < MaxEdits /\ edits' = edits + 1
  /\ raced' = (raced \/ ~At(Timer, "idle"))
  /\ quiet' = 0

\* lum_getEmptyAlarmPlace, lum_getAbsenceEmptyPlace
Empty(i)        == alarms[i].start = NoTime /\ alarms[i].stop = NoTime
EmptyAbsence(i) == absences[i].start = NoTime
First(i, S)     == i \in S /\ \A j \in S : i <= j

\* The app stores infos in some alarms: what a copy is out of is stale.
StoreAlarms(new) ==
  /\ Edits
  /\ alarms' = [i \in Alarms |-> IF i \in DOMAIN new THEN new[i] ELSE alarms[i]]
  /\ stored' = [i \in Alarms |-> IF i \in DOMAIN new THEN new[i] ELSE stored[i]]
  /\ opened' = [i \in Alarms |-> IF i \in DOMAIN new THEN 0 ELSE opened[i]]
  /\ stale' = (stale \ DOMAIN new)
                \cup {i \in DOMAIN new : \E c \in copies[Timer] :
                                            At(Timer, "save alarm") /\ c[1] = i}
  /\ UNCHANGED <<now, absences, switch, running, pc, slot, copies, status, again, checked,
                 misses, missed>>

\* rebackSetAlarmData: into a place that the app names, or the first empty one
SetAlarmData ==
  \E a \in AlarmInfos, i \in Alarms : StoreAlarms([j \in {i} |-> a])

AddAlarmData ==
  \E a \in AlarmInfos, i \in Alarms :
    First(i, {j \in Alarms : Empty(j)}) /\ StoreAlarms([j \in {i} |-> a])

\* rebackDeleteAlarmData: one place or several
DeleteAlarmData ==
  \E S \in SUBSET Alarms :
    S # {} /\ StoreAlarms([i \in S |-> Erased(alarms[i])])

StoreAbsences(new) ==
  /\ Edits
  /\ absences' = [i \in Absences |-> IF i \in DOMAIN new THEN new[i] ELSE absences[i]]
  /\ Goes(Message, "absences")
  /\ UNCHANGED <<now, alarms, switch, running, slot, copies, status, checked, misses,
                 stored, stale, opened, missed>>

SetAbsenceData ==
  /\ \E a \in AbsenceInfos, i \in Absences : StoreAbsences([j \in {i} |-> a])
  /\ UNCHANGED again

AddAbsenceData ==
  /\ \E a \in AbsenceInfos, i \in Absences :
       First(i, {j \in Absences : EmptyAbsence(j)}) /\ StoreAbsences([j \in {i} |-> a])
  /\ UNCHANGED again

\* rebackDeleteAbsenceData deletes a single place twice.
DeleteAbsenceData ==
  \E S \in SUBSET Absences :
    /\ S # {}
    /\ StoreAbsences([i \in S |->
         [week |-> {}, active |-> FALSE, start |-> NoTime, stop |-> 0]])
    /\ again' \in {Cardinality(S) = 1, FALSE}

\* The key or the app works the switch (changeSwitchStatus, setSwitchStatus).
SetSwitchStatus ==
  /\ edits < MaxEdits /\ edits' = edits + 1
  /\ switch' \in BOOLEAN
  /\ quiet' = 0
  /\ UNCHANGED <<now, config, running, pc, slot, copies, status, again, checked, misses,
                 stored, stale, opened, missed, raced>>

-----------------------------------------------------------------------------
NextMinute ==
  /\ Idle
  /\ now' = (now + 1) % (WEEK * DAY)
  /\ checked' = FALSE
  /\ UNCHANGED <<config, switch, running, pc, slot, copies, status, again, edits, stored,
                 stale, opened, raced>>

\* A repeating alarm with both times, and no other alarm that is active.
Alone(i) ==
  /\ alarms[i].active /\ alarms[i].week # {} /\ alarms[i].start # alarms[i].stop
  /\ alarms[i].start # NoTime /\ alarms[i].stop # NoTime
  /\ \A j \in Alarms \ {i} : ~alarms[j].active

Undisturbed == ~absenceRunning /\ stale = {} /\ \E i \in Alarms : Alone(i)

MinutePasses ==
  /\ checked /\ NextMinute
  /\ quiet' = IF ~Undisturbed THEN 0 ELSE IF quiet < WEEK * DAY THEN quiet + 1 ELSE quiet
  /\ UNCHANGED <<misses, missed>>

\* A minute goes by without its check.
MinuteMissed ==
  /\ ~checked /\ NextMinute
  /\ misses < MaxMissed /\ misses' = misses + 1
  /\ missed' = TRUE /\ quiet' = 0

\* The configuration is in flash; the rest is not.
Restart ==
  /\ misses < MaxMissed /\ misses' = misses + 1
  /\ missed' = TRUE /\ quiet' = 0
  /\ switch' = FALSE
  /\ absenceRunning' = FALSE /\ nextAbsenceMinute' = NoMinute
  /\ pc' = [t \in Threads |-> "idle"] /\ slot' = 0
  /\ copies' = [t \in Threads |-> {}] /\ status' = [t \in Threads |-> {}]
  /\ again' = FALSE /\ checked' = FALSE
  /\ raced' = FALSE
  /\ UNCHANGED <<now, config, edits, stored, stale, opened>>

CheckTimer == StartCheck \/ CompareAlarm \/ InactiveAlarm \/ AlarmsDone
CheckAbsence(t) == CompareAbsences(t) \/ InactiveAbsence(t) \/ Act(t)

Next ==
  \/ CheckTimer
  \/ \E t \in Threads : CheckAbsence(t)
  \/ SetAlarmData \/ AddAlarmData \/ DeleteAlarmData
  \/ SetAbsenceData \/ AddAbsenceData \/ DeleteAbsenceData
  \/ SetSwitchStatus
  \/ MinutePasses \/ MinuteMissed \/ Restart

Spec == Init /\ [][Next]_vars

\* The threads are scheduled, and time passes.
FairSpec ==
  /\ Spec /\ WF_vars(CheckTimer)
  /\ \A t \in Threads : WF_vars(CheckAbsence(t))
  /\ WF_vars(MinutePasses)

-----------------------------------------------------------------------------
TypeOK ==
  /\ now \in 0 .. WEEK * DAY - 1
  /\ alarms \in [Alarms -> Infos] /\ absences \in [Absences -> Infos]
  /\ switch \in BOOLEAN /\ absenceRunning \in BOOLEAN
  /\ nextAbsenceMinute \in Minutes \cup {NoMinute}
  /\ pc \in [Threads -> {"idle", "alarms", "save alarm", "absences", "save absences", "act"}]
  /\ slot \in 0 .. MAX_ALARM_COUNT
  /\ copies \in [Threads -> SUBSET (Int \X Infos)]
  /\ status \in [Threads -> SUBSET {"out", "start", "end", "within"}]
  /\ again \in BOOLEAN /\ checked \in BOOLEAN
  /\ edits \in 0 .. MaxEdits /\ misses \in 0 .. MaxMissed
  /\ stored \in [Alarms -> Infos] /\ stale \subseteq Alarms
  /\ opened \in [Alarms -> 0 .. 2]
  /\ missed \in BOOLEAN /\ raced \in BOOLEAN /\ quiet \in 0 .. WEEK * DAY

\* Time t of the week is in the period of info, whose days are those of its
\* mask: from its start on such a day to its next stop.  A one-shot's days
\* are all.
DaysOf(info) == IF info.week = {} THEN Days ELSE {(b + 1) % WEEK : b \in info.week}
Length(info) == IF info.stop > info.start THEN info.stop - info.start
                                          ELSE DAY - info.start + info.stop
InPeriod(info, t) ==
  \E d \in DaysOf(info) :
    (t - (d * DAY + info.start)) % (WEEK * DAY) < Length(info)

(* Once a minute has been checked and no edit met the check, an absence is *)
(* running exactly while the time is in the period of a stored active one, *)
(* over midnight, over the end of the week, and after edits, missed        *)
(* minutes and restarts (lum_compareAbsence, lum_checkAbsence,             *)
(* lum_checkAbsenceWhileChange).                                           *)
RunsInPeriod ==
  checked /\ Idle /\ ~raced =>
    (absenceRunning <=>
       \E i \in Absences : /\ absences[i].active /\ absences[i].start # NoTime
                           /\ InPeriod(absences[i], now))

(* While an absence runs and no minute was missed, the switch is going to  *)
(* be worked within the longest interval, whatever the app stores or       *)
(* deletes in the meantime (lum_changeSwitchByAbsence compares for         *)
(* equality, so a minute once passed would come again only the next day).  *)
ToggleAhead ==
  absenceRunning /\ ~missed =>
    LET ahead == (nextAbsenceMinute - Minute) % DAY
    IN  /\ nextAbsenceMinute # NoMinute
        /\ ahead <= MAX_ABSENCE_OPEN_INTERVAL \/ ahead <= MAX_ABSENCE_CLOSE_INTERVAL
        /\ checked /\ Idle => ahead > 0

(* When an absence runs, and that it goes on working the switch.           *)
AbsenceInv == RunsInPeriod /\ ToggleAhead

(* When a repeating alarm has worked the switch alone for a week, the      *)
(* switch is open exactly in its periods, those over midnight and over the *)
(* end of the week too (lum_compareAlarm with its turned mask), unless an  *)
(* absence has just taken it over.                                         *)
OnSchedule ==
  \A i \in Alarms :
    checked /\ Idle /\ ~absenceRunning /\ quiet = WEEK * DAY /\ Alone(i) =>
      (switch <=> InPeriod(alarms[i], now))

(* A one-shot alarm opens the switch at most once, unless a minute was     *)
(* missed or the app stored it while its copy was on its way back          *)
(* (lum_checkInactiveAlarm).                                               *)
OneShotOnce ==
  \A i \in Alarms :
    stored[i].week = {} /\ i \notin stale /\ ~missed => opened[i] <= 1

(* An alarm is what the app last stored in its place; the board only makes *)
(* a one-shot inactive.  An alarm stored while the timer's thread held a   *)
(* copy of the place may be lost (lum_checkInactiveAlarm writes the copy   *)
(* back).                                                                  *)
EditKept ==
  \A i \in Alarms \ stale :
    \/ alarms[i] = stored[i]
    \/ stored[i].week = {} /\ alarms[i] = Inactive(stored[i])

(* The types, what becomes of an alarm that the app stored, and what the   *)
(* stored ones make of the switch.                                         *)
AlarmInv == TypeOK /\ OneShotOnce /\ EditKept /\ OnSchedule

\* A one-shot that the board has still to carry out.
Waits(info) == info.active /\ info.week = {} /\ info.stop # info.start

(* Every one-shot alarm and absence whose times differ comes to its end    *)
(* and is made inactive, missed minutes or not.                            *)
OneShotsEnd ==
  /\ \A i \in Alarms : Waits(alarms[i]) ~> ~Waits(alarms[i])
  /\ \A i \in Absences : Waits(absences[i]) ~> ~Waits(absences[i])
=============================================================================
