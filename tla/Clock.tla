-------------------------------- MODULE Clock --------------------------------
(***************************************************************************)
(* The wall clock (lumTimeData.c): the time of the network and the reading *)
(* of the system's millisecond counter at which it was taken.  Every       *)
(* thread reads it; the message thread sets it; whoever first sees that    *)
(* the counter has wrapped corrects it.  None of this is locked, so each   *)
(* access to g_timeDateInfo is a step.                                     *)
(*                                                                         *)
(* `milli' counts true milliseconds since the counter started; the counter *)
(* is their remainder.  The clock starts at 2014-01-01, which is second 0  *)
(* here; the network is Offset seconds before it.                          *)
(***************************************************************************)
EXTENDS Integers

CONSTANTS
  Readers,      \* the threads that only read the clock
  Setter,       \* the message thread, which sets it as well
  PER_SECOND,   \* the counter's units in a second
  RANGE,        \* values of the counter, a U32
  Offset,       \* the network's second when the counter starts
  DIFF_SEC_1900_1970, \* what the network's seconds are too large by
  Unset,        \* what the buffer of an answer may hold that was never written
  AppDates,     \* the times that apps send
  MaxTime,      \* bound: true time
  MaxStall,     \* bound: time that one operation on the clock takes
  MaxPause      \* bound: time between two readings

ASSUME ThreadAssumption == Setter \notin Readers
ASSUME UnitAssumption   == PER_SECOND \in Nat \ {0} /\ RANGE \in Nat \ {0}
ASSUME BoundAssumption  ==
  {MaxTime, MaxStall, MaxPause, Offset, DIFF_SEC_1900_1970} \subseteq Nat
ASSUME UnsetAssumption  == Unset \subseteq Nat /\ AppDates \subseteq Nat

Users == Readers \cup {Setter}

VARIABLES
  milli,
  lastUTCTime, lastSystemTime,   \* g_timeDateInfo
  call,         \* per thread: where it is in lum_getSystemTime or lum_syncNetworkTime
  curTimeMs,    \* per thread: the counter as loaded
  loaded,       \* per thread: lastSystemTime as loaded
  sum,          \* per thread: lastUTCTime to be stored
  networkTime,  \* what the message thread is about to set the clock to, or None
  foreign,      \* history: networkTime is not the network's: an app sent it, or the
                \* answer it was taken from was not read
  begun,        \* history, per thread: when the operation under way began
  setting,      \* history: when the clock was last set, to what, and from what
  reading,      \* history: the last value returned, when its call began and
                \* ended, the setting it rests on, and whether it was raced
  met           \* history: since the setting, operations have met a writing one

memory == <<lastUTCTime, lastSystemTime>>
locals == <<call, curTimeMs, loaded, sum, networkTime, foreign>>
clockVars == <<milli, memory, locals, begun, setting, reading, met>>

Seconds(ms) == ms \div PER_SECOND
Counter     == milli % RANGE          \* hfsys_get_time()

None == -1

GoesTo(t, step) == call' = [call EXCEPT ![t] = step]
Stands(t, step) == call[t] = step

Writing == {"add", "store", "rebase", "set", "settle"}
Busy(t) == call[t] # "idle"
Met     == \E t, u \in Users : t # u /\ call[t] \in Writing /\ Busy(u)
Sole(t) == \A u \in Users \ {t} : ~Busy(u)

\* Thread t forgets the locals of its call.
Forgets(t) ==
  /\ curTimeMs' = [curTimeMs EXCEPT ![t] = 0]
  /\ loaded' = [loaded EXCEPT ![t] = 0]
  /\ sum' = [sum EXCEPT ![t] = 0]

Rests(t) == GoesTo(t, "idle") /\ begun' = [begun EXCEPT ![t] = 0]

\* Thread t returns a value, having kept or reloaded what it stored.
Returns(t, value) ==
  /\ Forgets(t)
  /\ IF t = Setter /\ networkTime # None
     THEN GoesTo(t, "set") /\ UNCHANGED begun
     ELSE Rests(t)
  /\ reading' = [value |-> value, from |-> begun[t], to |-> milli,
                set |-> setting, raced |-> met]

ClockInit ==
  /\ milli = 0
  /\ lastUTCTime = 0 /\ lastSystemTime = 0
  /\ call = [t \in Users |-> "idle"] /\ curTimeMs = [t \in Users |-> 0]
  /\ loaded = [t \in Users |-> 0] /\ sum = [t \in Users |-> 0]
  /\ begun = [t \in Users |-> 0]
  /\ networkTime = None /\ foreign = FALSE
  /\ setting = [at |-> 0, seconds |-> 0, from |-> "start"]
  /\ reading = [value |-> 0, from |-> 0, to |-> 0, set |-> setting, raced |-> FALSE]
  /\ met = FALSE

-----------------------------------------------------------------------------
(* lum_getSystemTime, by thread t                                           *)

GetTime(t) ==
  /\ Stands(t, "idle") \/ Stands(t, "log")
  /\ curTimeMs' = [curTimeMs EXCEPT ![t] = Counter]
  /\ begun' = IF Stands(t, "idle") THEN [begun EXCEPT ![t] = milli] ELSE begun
  /\ GoesTo(t, "test")
  /\ UNCHANGED <<milli, memory, loaded, sum, networkTime, foreign, setting, reading>>

TestWrap(t) ==
  /\ Stands(t, "test")
  /\ loaded' = [loaded EXCEPT ![t] = lastSystemTime]
  /\ GoesTo(t, IF curTimeMs[t] < lastSystemTime THEN "add" ELSE "plain")
  /\ UNCHANGED <<milli, memory, curTimeMs, sum, networkTime, foreign, begun, setting,
                 reading>>

\* The compiler may load lastSystemTime once or twice.
Plain(t) ==
  /\ Stands(t, "plain")
  /\ \E b \in {loaded[t], lastSystemTime} :
       Returns(t, lastUTCTime + Seconds((curTimeMs[t] - b) % RANGE))
  /\ UNCHANGED <<milli, memory, networkTime, foreign, setting>>

\* Mutant of AddWrapped: the time before the wrap is forgotten.
AddAfterWrap(t) ==
  /\ Stands(t, "add")
  /\ sum' = [sum EXCEPT ![t] = lastUTCTime + Seconds(curTimeMs[t])]
  /\ GoesTo(t, "store")
  /\ UNCHANGED <<milli, memory, curTimeMs, loaded, networkTime, foreign, begun, setting,
                 reading>>

\* The counter has wrapped: what it has counted since goes to lastUTCTime.
AddWrapped(t) ==
  /\ Stands(t, "add")
  /\ \E b \in {loaded[t], lastSystemTime} :
       sum' = [sum EXCEPT ![t] =
                 lastUTCTime + Seconds((RANGE - 1 - b + curTimeMs[t]) % RANGE)]
  /\ GoesTo(t, "store")
  /\ UNCHANGED <<milli, memory, curTimeMs, loaded, networkTime, foreign, begun, setting,
                 reading>>

StoreSum(t) ==
  /\ Stands(t, "store")
  /\ lastUTCTime' = sum[t]
  /\ GoesTo(t, "rebase")
  /\ UNCHANGED <<milli, lastSystemTime, curTimeMs, loaded, sum, networkTime, foreign, begun,
                 setting, reading>>

Rebase(t) ==
  /\ Stands(t, "rebase")
  /\ lastSystemTime' = curTimeMs[t]
  /\ \E value \in {sum[t], lastUTCTime} : Returns(t, value)
  /\ UNCHANGED <<milli, lastUTCTime, networkTime, foreign, setting>>

-----------------------------------------------------------------------------
(* getUtcTimeByMessage and lum_syncNetworkTime, by the message thread.  The *)
(* network answers with its time or not at all (0).  tcpSocketRecvData adds *)
(* AES_KEY_LEN to the 0 or -1 of a failed recv, which then counts as an     *)
(* answer, read from a buffer that was never written.  The time before the  *)
(* setting goes to the log.                                                 *)

Answers == {0, Seconds(milli) + Offset + DIFF_SEC_1900_1970}

getUtcTimeFromNetwork ==
  {[utcTime |-> time, failed |-> FALSE] : time \in Answers}
    \cup {[utcTime |-> time, failed |-> TRUE] : time \in Unset}

Sync(time, other) ==
  /\ Stands(Setter, "idle")
  /\ begun' = [begun EXCEPT ![Setter] = milli]
  /\ networkTime' = time /\ foreign' = other
  /\ GoesTo(Setter, "log")
  /\ UNCHANGED <<milli, memory, curTimeMs, loaded, sum, setting, reading>>

GetUtcTime ==
  \E answer \in getUtcTimeFromNetwork :
    /\ answer.utcTime > DIFF_SEC_1900_1970
    /\ Sync(answer.utcTime - DIFF_SEC_1900_1970, answer.failed)

\* An app sends its time, which counts while the clock is still before 2015 or
\* the server is not connected.  What lum_checlCaliDateByApp reads first is one
\* more reading; the server may be away whatever it read.
CheckCaliDateByApp == \E appDate \in AppDates : Sync(appDate, TRUE)

SetUTCTime ==
  /\ Stands(Setter, "set")
  /\ lastUTCTime' = networkTime
  /\ GoesTo(Setter, "settle")
  /\ UNCHANGED <<milli, lastSystemTime, curTimeMs, loaded, sum, networkTime, foreign, begun,
                 setting, reading>>

\* Mutant of SetSystemTime: the counter is not read again.
SetSystemTimeNot ==
  /\ Stands(Setter, "settle")
  /\ setting' = [at |-> milli, seconds |-> networkTime,
                 from |-> IF foreign THEN "other" ELSE "network"]
  /\ networkTime' = None /\ foreign' = FALSE
  /\ Rests(Setter)
  /\ UNCHANGED <<milli, memory, curTimeMs, loaded, sum, reading>>

SetSystemTime ==
  /\ Stands(Setter, "settle")
  /\ lastSystemTime' = Counter
  /\ setting' = [at |-> milli, seconds |-> networkTime,
                 from |-> IF foreign THEN "other" ELSE "network"]
  /\ networkTime' = None /\ foreign' = FALSE
  /\ Rests(Setter)
  /\ UNCHANGED <<milli, lastUTCTime, curTimeMs, loaded, sum, reading>>

-----------------------------------------------------------------------------
\* Time passes: no operation takes longer than MaxStall, and no time longer
\* than MaxPause goes without a reading (lumTimer.c reads every minute).
Tick ==
  /\ milli < MaxTime
  /\ \A t \in Users : Busy(t) => milli - begun[t] < MaxStall
  /\ milli - reading.from < MaxPause
  /\ milli' = milli + 1
  /\ UNCHANGED <<memory, locals, begun, setting, reading>>

GetSystemTime(t) ==
  \/ GetTime(t) \/ TestWrap(t) \/ Plain(t) \/ AddWrapped(t) \/ StoreSum(t) \/ Rebase(t)

Set == GetUtcTime \/ CheckCaliDateByApp \/ SetUTCTime \/ SetSystemTime

ClockNext ==
  /\ \/ \E t \in Users : GetSystemTime(t)
     \/ Set
     \/ Tick
  /\ met' = IF Stands(Setter, "set") /\ call'[Setter] = "settle" /\ Sole(Setter)
            THEN FALSE ELSE met \/ Met'

ClockSpec == ClockInit /\ [][ClockNext]_clockVars

-----------------------------------------------------------------------------
Settings == [at: 0 .. MaxTime, seconds: Nat, from: {"start", "network", "other"}]

(* The types.  A time that is set is never one before 1970, which would be *)
(* a huge one in a U32 (the test of lumTimeData.c:152).                    *)
ClockTypeOK ==
  /\ milli \in 0 .. MaxTime
  /\ lastUTCTime \in Nat /\ lastSystemTime \in 0 .. RANGE - 1
  /\ call \in [Users -> {"idle", "log", "test", "plain"} \cup Writing]
  /\ curTimeMs \in [Users -> 0 .. RANGE - 1] /\ loaded \in [Users -> 0 .. RANGE - 1]
  /\ sum \in [Users -> Nat] /\ begun \in [Users -> 0 .. MaxTime]
  /\ networkTime \in Nat \cup {None} /\ foreign \in BOOLEAN
  /\ setting \in Settings
  /\ reading \in [value: Nat, from: 0 .. MaxTime, to: 0 .. MaxTime,
                  set: Settings, raced: BOOLEAN]
  /\ met \in BOOLEAN

\* The reading rests on a setting that left a whole pause before the next
\* wrap but one: only a later wrap can be missed (see the README).
Seen ==
  /\ reading.to \div RANGE <= reading.set.at \div RANGE + 1
  /\ reading.set.at % RANGE >= MaxPause + MaxStall

(* While no operation has met a writing one since the clock was last set,  *)
(* a reading has counted the true time since the setting, over one wrap of *)
(* the counter too: it is never ahead, and behind by less than a second    *)
(* for the reading and one for the wrap (lum_getSystemTime).               *)
Accurate ==
  ~reading.raced /\ Seen =>
    LET counted == PER_SECOND * (reading.value - reading.set.seconds)
    IN  /\ counted <= reading.to - reading.set.at
        /\ reading.from - reading.set.at - counted < 2 * PER_SECOND

(* A reading that rests on an answer of the network is the network's time  *)
(* too, behind by no more than the setting and the two roundings: only an  *)
(* answer that was not read (getUtcTimeFromNetwork) and the time of an app *)
(* (lum_checlCaliDateByApp) make it something else.                        *)
NetworksTime ==
  ~reading.raced /\ Seen /\ reading.set.from = "network" =>
    LET behind == reading.from + PER_SECOND * (Offset - reading.value)
    IN  /\ reading.value <= Seconds(reading.to) + Offset
        /\ behind <= MaxStall + 3 * PER_SECOND

(* The types hold in every race, the time while there is none.             *)
ClockInv == ClockTypeOK /\ Accurate /\ NetworksTime

(* Under the same setting and premises the clock does not go back, over a  *)
(* wrap of the counter either: the resend times and the minutes that were  *)
(* checked rest on it.                                                     *)
Monotone ==
  [][/\ ~reading.raced /\ ~reading'.raced /\ Seen'
     /\ reading'.set = reading.set
     /\ reading'.from >= reading.to
     => reading'.value >= reading.value]_clockVars
=============================================================================
