----------------------------- MODULE FactoryTest -----------------------------
(***************************************************************************)
(* The factory test of a device with an energy meter (lumFactoryTest.c, the *)
(* factory test's part of itoMain.c, lum_rn8209cCalcCaliKdata).  A thread   *)
(* waits until everything was tried: the Wi-Fi, the key and the calibration *)
(* of the meter.  For the calibration a timer asks a precise meter by       *)
(* broadcast, and its answers, which say what this device draws, drive a    *)
(* machine of four states.  A worker changes the load and presses the key.  *)
(*                                                                          *)
(* Requests and answers may be lost, late or doubled, and what an answer    *)
(* says may no longer be so when it is used.                               *)
(***************************************************************************)
EXTENDS Naturals, FiniteSets

CONSTANTS Loads,        \* what the worker puts on the device, in 0.1 W
          Own,          \* what the device itself draws
          KeyTimes,     \* MAX_KEY_PRESS_TIMES
          MaxChanges,   \* bound: changes of the load
          MaxAsked,     \* bound: requests
          MaxCuts       \* bound: power failures

ASSUME FactoryAssumption ==
    /\ Loads \subseteq Nat /\ IsFiniteSet(Loads) /\ 0 \in Loads
    /\ {Own, KeyTimes, MaxChanges, MaxAsked, MaxCuts} \subseteq Nat

VARIABLES testPc,       \* where lum_enterFactoryTestThread is
          inTest,       \* g_factoryTestData: bInFactoryTest,
          wifiTried,    \* wifiConnect,
          keyTimes,     \* keyPressTimes,
          caliDone,     \* calibrate_succ
          dhcp,         \* the device has an address
          caliStatus,   \* g_calibrateStatus
          base,         \* g_calibrateData.powerP
          caliPower,    \* g_caliPower
          checkPower,   \* g_checkPower
          k,            \* KP: what the chip gave for what the precise meter said
          savedK,       \* the same in the user area
          caliTimer,    \* g_rn8209CaliTimer runs
          caliStep,     \* where the message thread is in lum_checkCaliData,
          datum,        \* and the power it goes by
          asked,        \* requests so far
          request,      \* a request is on its way
          answers,      \* answers on their way
          load,         \* the load behind the switch
          caliSwitch,   \* the switch is open for current
          testFlag,     \* FACTORY_TEST_FLAG in flash
          smartlinkDue, \* lum_setFactorySmartlink, in the user area
          changes, cuts,\* changes of the load and power failures
          stale         \* history: "k", "check": that step went by a datum no longer
                        \* true; "key": the key was pressed before CaliInit

thread == <<testPc, inTest, dhcp, wifiTried, keyTimes>>
calibration == <<caliDone, caliStatus, base, caliPower, checkPower, k, savedK, caliStep, datum,
                 stale>>
wire == <<asked, request, answers>>
bench == <<load, changes, cuts>>
flags == <<testFlag, smartlinkDue>>
factoryVars == <<thread, calibration, caliTimer, wire, bench, caliSwitch, flags>>

DefaultK == [raw |-> 1, said |-> 2]
Raw == IF caliSwitch THEN load ELSE 0           \* what the chip measures
Reading == Own + Raw                            \* what the precise meter measures
Measured(p) == \* the device's figure is within 4 % of p; without a K it is 0
    /\ k.raw > 0
    /\ 100 * Raw * k.said >= 96 * p * k.raw /\ 100 * Raw * k.said <= 104 * p * k.raw
Stable(a, p) == 100 * a <= 102 * p /\ 100 * a >= 98 * p
OtherLoad(a, p) == 10 * a <= 7 * p \/ 10 * a >= 15 * p
Above(a, b) == IF a > b THEN a - b ELSE 0       \* lum_subBasePower
True(kk) == kk.raw = kk.said
Near(kk) == kk.raw > 0 /\ 96 * kk.raw <= 100 * kk.said /\ 100 * kk.said <= 104 * kk.raw
Runs == testPc # "off"
-----------------------------------------------------------------------------
(* The thread: the test is entered, the switch closed ...                    *)
EnterTest ==
    /\ testPc = "start"
    /\ inTest' = TRUE
    /\ testPc' = "close"
    /\ UNCHANGED <<dhcp, wifiTried, keyTimes, calibration, caliTimer, wire, bench, caliSwitch,
                   flags>>

CloseForTest ==
    /\ testPc = "close"
    /\ caliSwitch' = FALSE
    /\ testPc' = "init"
    /\ UNCHANGED <<inTest, dhcp, wifiTried, keyTimes, calibration, caliTimer, wire, bench, flags>>

(* ... lum_rn8209CaliInit ...                                                *)
CaliInit ==
    /\ testPc = "init"
    /\ caliStatus' = "closed" /\ base' = 0
    /\ testPc' = "wait"
    /\ UNCHANGED <<inTest, dhcp, wifiTried, keyTimes, caliDone, caliPower, checkPower, k, savedK,
                   caliStep, datum, stale, caliTimer, wire, bench, caliSwitch, flags>>

(* Mutant of CheckTestSucc: the calibration is not waited for.               *)
CheckTestSuccEarly ==
    /\ testPc = "wait"
    /\ wifiTried /\ keyTimes >= KeyTimes
    /\ testPc' = "flag"
    /\ UNCHANGED <<inTest, dhcp, wifiTried, keyTimes, calibration, caliTimer, wire, bench,
                   caliSwitch, flags>>

(* ... lum_checkTestSucc ...                                                 *)
CheckTestSucc ==
    /\ testPc = "wait"
    /\ wifiTried /\ keyTimes >= KeyTimes /\ caliDone
    /\ testPc' = "flag"
    /\ UNCHANGED <<inTest, dhcp, wifiTried, keyTimes, calibration, caliTimer, wire, bench,
                   caliSwitch, flags>>

(* ... and the test is never entered again: lum_setFactoryTestFlag, then     *)
(* lum_setFactorySmartlink.                                                  *)
SetTestFlag ==
    /\ testPc = "flag"
    /\ testFlag' = TRUE
    /\ testPc' = "smartlink"
    /\ UNCHANGED <<inTest, dhcp, wifiTried, keyTimes, calibration, caliTimer, wire, bench,
                   caliSwitch, smartlinkDue>>

SetSmartlink ==
    /\ testPc = "smartlink"
    /\ smartlinkDue' = TRUE
    /\ testPc' = "done"
    /\ UNCHANGED <<inTest, dhcp, wifiTried, keyTimes, calibration, caliTimer, wire, bench,
                   caliSwitch, testFlag>>

(* setFlagAfterDhcp.  The handler of system events is registered before the  *)
(* thread is made: an address that comes before the thread runs is not       *)
(* taken for the test, and no calibration is asked for.                      *)
Dhcp ==
    /\ Runs /\ ~dhcp
    /\ dhcp' = TRUE
    /\ wifiTried' = (wifiTried \/ inTest)
    /\ caliTimer' = (caliTimer \/ inTest)
    /\ UNCHANGED <<testPc, inTest, keyTimes, calibration, wire, bench, caliSwitch, flags>>

(* setFlagAfterApDisconnect.                                                 *)
ApGone ==
    /\ dhcp /\ changes < MaxChanges
    /\ dhcp' = FALSE /\ changes' = changes + 1
    /\ UNCHANGED <<testPc, inTest, wifiTried, keyTimes, calibration, caliTimer, wire, load, cuts,
                   caliSwitch, flags>>
-----------------------------------------------------------------------------
(* lum_rn8209CaliTimerCallback and lum_getCalibrateData: the precise meter   *)
(* is asked, and asked again until it answers.                               *)
Ask ==
    /\ caliTimer /\ asked < MaxAsked
    /\ asked' = asked + 1 /\ request' = TRUE
    /\ UNCHANGED <<thread, calibration, caliTimer, answers, bench, caliSwitch, flags>>

(* The precise meter says what the device draws now.                         *)
PreciseMeter ==
    /\ request
    /\ answers' = answers \cup {Reading}
    /\ request' \in BOOLEAN
    /\ UNCHANGED <<thread, calibration, caliTimer, asked, bench, caliSwitch, flags>>

Take(p) == answers' \in {answers, answers \ {p}}
Power(p) == IF caliStatus = "closed" THEN p ELSE Above(p, base)

(* lum_checkCaliData, whose end starts the timer for the next request.       *)
(* Without the load: what the device itself draws.                           *)
TakeBase(p) ==
    /\ caliStatus = "closed"
    /\ base' = p /\ caliStatus' = "first" /\ caliPower' = 0
    /\ caliSwitch' = TRUE
    /\ caliTimer' = TRUE
    /\ UNCHANGED <<checkPower, caliStep, datum>>

(* With the load: a power said twice is what K is computed from.             *)
TakeFirst(p) ==
    /\ caliStatus = "first"
    /\ IF Power(p) > 200 /\ Stable(caliPower, Power(p))
       THEN /\ caliStatus' = "check" /\ checkPower' = 0
            /\ caliStep' = "k" /\ datum' = Power(p)
            /\ caliTimer' = FALSE
            /\ UNCHANGED caliPower
       ELSE /\ caliPower' = IF Power(p) > 200 THEN Power(p) ELSE caliPower
            /\ caliTimer' = TRUE
            /\ UNCHANGED <<caliStatus, checkPower, caliStep, datum>>
    /\ UNCHANGED <<base, caliSwitch>>

(* With another load: a power said twice is what K is checked against.       *)
TakeCheck(p) ==
    /\ caliStatus = "check"
    /\ IF Power(p) > 200 /\ OtherLoad(caliPower, Power(p)) /\ Stable(checkPower, Power(p))
       THEN /\ caliStep' = "check" /\ datum' = Power(p)
            /\ caliTimer' = FALSE
            /\ UNCHANGED checkPower
       ELSE /\ checkPower' = (IF Power(p) > 200 /\ OtherLoad(caliPower, Power(p))
                              THEN Power(p) ELSE checkPower)
            /\ caliTimer' = TRUE
            /\ UNCHANGED <<caliStep, datum>>
    /\ UNCHANGED <<caliStatus, base, caliPower, caliSwitch>>

(* An answer nobody waits for only stops the timer.                          *)
TakeNothing ==
    /\ caliStatus = "succ"
    /\ caliTimer' = FALSE
    /\ UNCHANGED <<caliStatus, base, caliPower, checkPower, caliStep, datum, caliSwitch>>

CheckCaliData ==
    /\ Runs /\ caliStep = "idle"
    /\ \E p \in answers: /\ Take(p)
                         /\ TakeBase(p) \/ TakeFirst(p) \/ TakeCheck(p) \/ TakeNothing
    /\ UNCHANGED <<thread, caliDone, k, savedK, stale, asked, request, bench, flags>>

(* lum_rn8209cCalcCaliKdata measures now what the datum says of before; then *)
(* the switch is closed for the change of loads.                             *)
CalcK ==
    /\ caliStep = "k"
    /\ k' = [raw |-> Raw, said |-> datum]
    /\ stale' = (stale \ {"k", "check"}) \cup (IF Raw = datum THEN {} ELSE {"k"})
    /\ caliSwitch' = FALSE
    /\ caliStep' = "idle" /\ caliTimer' = TRUE
    /\ UNCHANGED <<thread, caliDone, caliStatus, base, caliPower, checkPower, savedK, datum, wire,
                   bench, flags>>

(* Mutant of CheckK: what the meter shows is not compared with the datum.    *)
CheckKNever ==
    /\ caliStep = "check"
    /\ caliStatus' = "succ" /\ savedK' = k /\ caliDone' = TRUE /\ caliSwitch' = FALSE
    /\ UNCHANGED <<caliTimer, stale>>
    /\ caliStep' = "idle"
    /\ UNCHANGED <<thread, base, caliPower, checkPower, k, datum, wire, bench, flags>>

CheckK ==
    /\ caliStep = "check"
    /\ IF Measured(datum)
       THEN /\ caliStatus' = "succ" /\ savedK' = k /\ caliDone' = TRUE
            /\ stale' = stale \cup (IF Raw = datum THEN {} ELSE {"check"})
            /\ caliSwitch' = FALSE
            /\ UNCHANGED caliTimer
       ELSE caliTimer' = TRUE /\ UNCHANGED <<caliStatus, savedK, caliDone, caliSwitch, stale>>
    /\ caliStep' = "idle"
    /\ UNCHANGED <<thread, base, caliPower, checkPower, k, datum, wire, bench, flags>>
-----------------------------------------------------------------------------
(* The worker changes the load ...                                           *)
ChangeLoad ==
    /\ changes < MaxChanges
    /\ \E l \in Loads \ {load}: load' = l
    /\ changes' = changes + 1
    /\ UNCHANGED <<thread, calibration, caliTimer, wire, cuts, caliSwitch, flags>>

(* ... and presses the key: lum_getKeyEnableStatus, changeSwitchStatus and   *)
(* lum_addFactoryKeyPressTimes.                                              *)
PressKey ==
    /\ Runs /\ keyTimes < KeyTimes
    /\ caliStatus \notin {"closed", "first"}
    /\ caliSwitch' = ~caliSwitch
    /\ keyTimes' = (IF inTest THEN keyTimes + 1 ELSE keyTimes)
    /\ stale' = (IF testPc \in {"start", "close", "init"} THEN stale \cup {"key"} ELSE stale)
    /\ UNCHANGED <<testPc, inTest, dhcp, wifiTried, caliDone, caliStatus, base, caliPower,
                   checkPower, k, savedK, caliStep, datum, caliTimer, wire, bench, flags>>

Fresh ==
    /\ inTest' = FALSE /\ wifiTried' = FALSE /\ keyTimes' = 0 /\ caliDone' = FALSE
    /\ dhcp' = FALSE /\ caliStatus' = "succ" /\ base' = 0 /\ caliPower' = 0 /\ checkPower' = 0
    /\ caliTimer' = FALSE /\ caliStep' = "idle" /\ datum' = 0
    /\ request' = FALSE /\ answers' = {} /\ caliSwitch' = FALSE /\ k' = savedK

(* The power fails, and the device starts the test again, unless it passed.  *)
CutPower ==
    /\ Runs /\ cuts < MaxCuts
    /\ cuts' = cuts + 1
    /\ testPc' = IF testFlag THEN "off" ELSE "start"
    /\ Fresh
    /\ stale' = stale \ {"key"}
    /\ UNCHANGED <<savedK, asked, load, changes, flags>>

FactoryInit ==
    /\ testPc = "start" /\ inTest = FALSE /\ wifiTried = FALSE /\ keyTimes = 0
    /\ caliDone = FALSE /\ dhcp = FALSE /\ caliStatus = "succ"
    /\ base = 0 /\ caliPower = 0 /\ checkPower = 0 /\ k = DefaultK /\ savedK = DefaultK
    /\ caliTimer = FALSE /\ caliStep = "idle" /\ datum = 0
    /\ asked = 0 /\ request = FALSE /\ answers = {}
    /\ load \in Loads /\ caliSwitch = FALSE
    /\ testFlag = FALSE /\ smartlinkDue = FALSE /\ changes = 0 /\ cuts = 0 /\ stale = {}

FactoryNext ==
    \/ EnterTest \/ CloseForTest \/ CaliInit \/ CheckTestSucc \/ SetTestFlag \/ SetSmartlink
    \/ Dhcp \/ ApGone \/ Ask \/ PreciseMeter \/ CheckCaliData \/ CalcK \/ CheckK
    \/ ChangeLoad \/ PressKey \/ CutPower

FactorySpec == FactoryInit /\ [][FactoryNext]_factoryVars
-----------------------------------------------------------------------------
FactoryTypes ==
    /\ testPc \in {"off", "start", "close", "init", "wait", "flag", "smartlink", "done"}
    /\ {inTest, wifiTried, caliDone, dhcp, caliTimer, request, caliSwitch, testFlag,
        smartlinkDue} \subseteq BOOLEAN
    /\ caliStatus \in {"closed", "first", "check", "succ"}
    /\ caliStep \in {"idle", "k", "check"}
    /\ {base, caliPower, checkPower, datum, asked, changes, cuts} \subseteq Nat
    /\ {k, savedK} \subseteq [raw: Nat, said: Nat]
    /\ answers \subseteq Nat /\ load \in Loads /\ keyTimes \in 0 .. KeyTimes
    /\ stale \subseteq {"k", "check", "key"}

(* A device that has passed the test has a meter that measures right, unless *)
(* the datum K was computed from was out of date; and even then it is within *)
(* 4 %, unless the one it was checked against was too.                       *)
Calibrated ==
    testFlag => /\ "k" \notin stale => True(savedK)
                /\ "check" \notin stale => Near(savedK)

(* What the device itself draws is known before a load is switched on, and   *)
(* is never taken for a load, unless the key was pressed before the test was *)
(* set up: until then it is not locked.                                      *)
BaseIsOwn == caliStatus \in {"first", "check"} /\ "key" \notin stale => base = Own

FactoryInv == FactoryTypes /\ Calibrated /\ BaseIsOwn
=============================================================================
