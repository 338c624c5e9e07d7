-------------------------------- MODULE Dimmer --------------------------------
(***************************************************************************)
(* The wall dimmer (deviceGpio.c with LIGHT_CHENGE_SUPPORT).  An interrupt  *)
(* at every zero of the mains starts a hardware timer, which opens the      *)
(* triac's gate after a time that depends on the level and closes it 1 ms   *)
(* later.  The level is set by the message thread and by the timer thread,  *)
(* which also runs the callbacks of the two level keys; seven LEDs show it. *)
(* For the first two seconds the interrupt only counts the zeros.           *)
(***************************************************************************)
EXTENDS Naturals

CONSTANTS MaxLevel,     \* MAX_LIGHT_LEVEL, 7
          BaseTime,     \* LIGHT_DIM_BASE_TIME, 1000 us
          LevelGap,     \* LIGHT_DIM_LEVEL_GAP, 1200 us
          ShutTime,     \* LIGHT_DIM_SHUTDOWN_TIME, 1000 us
          HalfCycle,    \* from one zero of the mains to the next
          FreqTime,     \* how long the zeros are counted, 2 s
          MaxSets,      \* bound: calls of setSwitchStatus
          MaxLevelKeys  \* bound: presses of a level key

(* The lowest level has its gate closed before the next zero, and the period *)
(* of a lamp that is off ends before it: the periods fit the half cycle of   *)
(* 50 Hz, 10 ms, and not that of 60 Hz.                                      *)
ASSUME DimmerAssumption ==
    /\ {MaxLevel, BaseTime, LevelGap, ShutTime, HalfCycle, FreqTime} \subseteq Nat \ {0}
    /\ {MaxSets, MaxLevelKeys} \subseteq Nat
    /\ BaseTime + (MaxLevel - 1) * LevelGap + ShutTime < HalfCycle
    /\ BaseTime + MaxLevel * LevelGap < HalfCycle

VARIABLES dimPc,        \* where each thread is: out, at a step, or at the LED to be set
          dimWant,      \* the level its call sets
          setting,      \* its call is setSwitchStatus
          wasOpen,      \* switchStatus, read on entry
          level,        \* g_lightLevel
          leds,         \* the LEDs that are lit
          period,       \* g_hwTimerperiod
          dimStatus,    \* g_lightDimStatus
          zeroIrq,      \* the interrupt of HFGPIO_F_ZERO_DETECTER is on
          hwTimer,      \* time left on lightHWTimerHandle, Stopped when it is not running
          zeroLeft,     \* time to the next zero of the mains
          gate,         \* HFGPIO_F_DIM, the gate of the triac
          keyTimers,    \* the debounce timers that run, of "up" and "down"
          sets,         \* calls of setSwitchStatus so far
          levelKeys,    \* presses so far
          openTold,     \* history: the status reported last
          steady,       \* history: no call since the last zero, nor the end of the counting
          opened,       \* history: the gate was opened since the last zero
          late,         \* history: hwTimer was started with the period of a lamp that
                        \* is off, and still runs or ran in this half cycle
          keyOpened,    \* history: the key lit a lamp that was off
          levelMixed    \* history: the two threads were in these functions at once

dimmerVars == <<dimPc, dimWant, setting, wasOpen, level, leds, period, dimStatus, zeroIrq,
                hwTimer, zeroLeft, gate, keyTimers, sets, levelKeys, openTold, steady, opened,
                late, keyOpened, levelMixed>>
caller == <<dimWant, setting, wasOpen>>
mains == <<dimStatus, hwTimer, zeroLeft, gate, opened, late>>
counts == <<keyTimers, sets, levelKeys>>

Leveller == {"message", "timer"}
Stopped == FreqTime + HalfCycle + 1
DimPeriod(l) == BaseTime + (MaxLevel - l) * LevelGap
LevelPc == 0                \* the steps before, ...
IrqPc == MaxLevel + 2       \* ... and after those of the LEDs and the period
ReportPc == MaxLevel + 3
OutPc == MaxLevel + 4
InDim(t, pc) == dimPc[t] = pc
DimTo(t, pc) == dimPc' = [dimPc EXCEPT ![t] = pc]
Leave(t) == DimTo(t, IF setting[t] THEN IrqPc ELSE OutPc)
DimQuiet == \A t \in Leveller: InDim(t, OutPc)

Call(t, l, set) ==
    /\ dimWant' = [dimWant EXCEPT ![t] = l]
    /\ setting' = [setting EXCEPT ![t] = set]
    /\ wasOpen' = [wasOpen EXCEPT ![t] = level > 0]
    /\ DimTo(t, LevelPc)
    /\ steady' = FALSE
    /\ levelMixed' = (levelMixed \/ \E u \in Leveller \ {t}: ~InDim(u, OutPc))
-----------------------------------------------------------------------------
(* setSwitchStatus: from a message, an alarm or the key of the switch.       *)
SetSwitch(t) ==
    /\ InDim(t, OutPc) /\ sets < MaxSets
    /\ sets' = sets + 1
    /\ \E l \in {0, MaxLevel}: Call(t, l, TRUE)
    /\ UNCHANGED <<level, leds, period, zeroIrq, mains, keyTimers, levelKeys, openTold,
                   keyOpened>>

(* lum_lightChangeLevel: nothing for the level there is already ...          *)
ChangeLevel(t) ==
    /\ InDim(t, LevelPc)
    /\ level' = dimWant[t]
    /\ IF level = dimWant[t] THEN Leave(t) ELSE DimTo(t, 1)
    /\ UNCHANGED <<caller, leds, period, zeroIrq, mains, counts, openTold, steady, keyOpened,
                   levelMixed>>

(* ... else one LED after the other is set by the level at that moment ...   *)
SetLed(t) ==
    /\ dimPc[t] \in 1 .. MaxLevel
    /\ LET n == dimPc[t] IN
       /\ leds' = IF level >= n THEN leds \cup {n} ELSE leds \ {n}
       /\ DimTo(t, n + 1)
    /\ UNCHANGED <<caller, level, period, zeroIrq, mains, counts, openTold, steady, keyOpened,
                   levelMixed>>

(* ... and the period last.                                                  *)
SetPeriod(t) ==
    /\ InDim(t, MaxLevel + 1)
    /\ period' = DimPeriod(level)
    /\ Leave(t)
    /\ UNCHANGED <<caller, level, leds, zeroIrq, mains, counts, openTold, steady, keyOpened,
                   levelMixed>>

(* Back in setSwitchStatus, the interrupt of the zeros is switched unless    *)
(* they are still counted ...                                                *)
SwitchZeroIrq(t) ==
    /\ InDim(t, IrqPc)
    /\ zeroIrq' = IF dimStatus = "counting" THEN zeroIrq ELSE dimWant[t] > 0
    /\ DimTo(t, ReportPc)
    /\ UNCHANGED <<caller, level, leds, period, mains, counts, openTold, steady, keyOpened,
                   levelMixed>>

(* ... and a change is reported.                                             *)
ReportSwitch(t) ==
    /\ InDim(t, ReportPc)
    /\ openTold' = IF wasOpen[t] = (dimWant[t] > 0) THEN openTold ELSE dimWant[t] > 0
    /\ DimTo(t, OutPc)
    /\ UNCHANGED <<caller, level, leds, period, zeroIrq, mains, counts, steady, keyOpened,
                   levelMixed>>

(* lum_lightKeyUpIrq and lum_lightKeyDownIrq: no key while the zeros are     *)
(* counted, no key up while the lamp is off.                                 *)
LevelKeyIrq(key) ==
    /\ levelKeys < MaxLevelKeys
    /\ dimStatus # "counting"
    /\ key = "up" => level > 0
    /\ levelKeys' = levelKeys + 1
    /\ keyTimers' = keyTimers \cup {key}
    /\ UNCHANGED <<dimPc, caller, level, leds, period, zeroIrq, mains, sets, openTold, steady,
                   keyOpened, levelMixed>>

(* lum_lightKeyUpTimerCallback and lum_lightKeyDownTimerCallback: unless the *)
(* key is up again, or the level the highest or lowest, they change it by    *)
(* one.  That the lamp is still on is not looked at again.                   *)
LevelKeyTimer(key) ==
    /\ key \in keyTimers /\ InDim("timer", OutPc)
    /\ keyTimers' = keyTimers \ {key}
    /\ \/ /\ IF key = "up" THEN level < MaxLevel ELSE level > 1
          /\ Call("timer", IF key = "up" THEN level + 1 ELSE level - 1, FALSE)
          /\ keyOpened' = (keyOpened \/ level = 0)
       \/ UNCHANGED <<dimPc, caller, steady, levelMixed, keyOpened>>
    /\ UNCHANGED <<level, leds, period, zeroIrq, mains, sets, levelKeys, openTold>>
-----------------------------------------------------------------------------
(* Mutant of HwTimer: the shutdown is left to the timer without starting it. *)
HwTimerNoShutdown ==
    /\ hwTimer = 0
    /\ steady' = (steady /\ dimStatus # "counting")
    /\ gate' = (dimStatus = "zero" \/ (gate /\ dimStatus = "counting"))
    /\ opened' = (opened \/ gate')
    /\ hwTimer' = Stopped
    /\ dimStatus' = IF dimStatus = "counting" THEN "zero" ELSE "shutdown"
    /\ zeroIrq' = (zeroIrq /\ ~(dimStatus = "counting" /\ level = 0))
    /\ UNCHANGED <<dimPc, caller, level, leds, period, zeroLeft, counts, openTold, late,
                   keyOpened, levelMixed>>

(* lum_lightHwTimerCallback: the gate is opened, or closed, or the counting  *)
(* ends and the interrupt goes off with it if the lamp is off.               *)
HwTimer ==
    /\ hwTimer = 0
    /\ steady' = (steady /\ dimStatus # "counting")
    /\ gate' = (dimStatus = "zero" \/ (gate /\ dimStatus = "counting"))
    /\ opened' = (opened \/ gate')
    /\ hwTimer' = IF dimStatus = "zero" THEN ShutTime ELSE Stopped
    /\ dimStatus' = IF dimStatus = "counting" THEN "zero" ELSE "shutdown"
    /\ zeroIrq' = (zeroIrq /\ ~(dimStatus = "counting" /\ level = 0))
    /\ UNCHANGED <<dimPc, caller, level, leds, period, zeroLeft, counts, openTold, late,
                   keyOpened, levelMixed>>

(* A zero of the mains: lum_ACZeroDetectIrq starts the timer if the lamp is  *)
(* on.                                                                       *)
ACZeroDetectIrq ==
    /\ zeroLeft = 0
    /\ zeroLeft' = HalfCycle
    /\ steady' = DimQuiet /\ opened' = FALSE
    /\ LET detects == zeroIrq /\ dimStatus # "counting" IN
       /\ dimStatus' = IF detects THEN "zero" ELSE dimStatus
       /\ hwTimer' = IF detects /\ level > 0 THEN period ELSE hwTimer
       /\ late' = IF detects /\ level > 0 THEN period = DimPeriod(0) ELSE late /\ gate
    /\ UNCHANGED <<dimPc, caller, level, leds, period, zeroIrq, gate, counts, openTold,
                   keyOpened, levelMixed>>

MainsTick ==
    /\ zeroLeft > 0 /\ hwTimer > 0
    /\ zeroLeft' = zeroLeft - 1
    /\ hwTimer' = IF hwTimer = Stopped THEN Stopped ELSE hwTimer - 1
    /\ UNCHANGED <<dimPc, caller, level, leds, period, dimStatus, zeroIrq, gate, counts,
                   openTold, steady, opened, late, keyOpened, levelMixed>>

(* initDevicePin: the interrupts are on, the counting begins, and closing a  *)
(* switch that is closed changes nothing.                                    *)
DimmerInit ==
    /\ dimPc = [t \in Leveller |-> OutPc]
    /\ dimWant = [t \in Leveller |-> 0] /\ setting = [t \in Leveller |-> FALSE]
    /\ wasOpen = [t \in Leveller |-> FALSE]
    /\ level = 0 /\ leds = {} /\ period = 0
    /\ dimStatus = "counting" /\ zeroIrq = TRUE /\ hwTimer = FreqTime
    /\ zeroLeft \in 0 .. HalfCycle /\ gate = FALSE
    /\ keyTimers = {} /\ sets = 0 /\ levelKeys = 0
    /\ openTold = FALSE /\ steady = FALSE /\ opened = FALSE /\ late = FALSE
    /\ keyOpened = FALSE /\ levelMixed = FALSE

DimmerNext ==
    \/ \E t \in Leveller: \/ SetSwitch(t) \/ ChangeLevel(t) \/ SetLed(t) \/ SetPeriod(t)
                          \/ SwitchZeroIrq(t) \/ ReportSwitch(t)
    \/ \E key \in {"up", "down"}: LevelKeyIrq(key) \/ LevelKeyTimer(key)
    \/ HwTimer \/ ACZeroDetectIrq \/ MainsTick

DimmerSpec == DimmerInit /\ [][DimmerNext]_dimmerVars
-----------------------------------------------------------------------------
DimmerTypes ==
    /\ dimPc \in [Leveller -> LevelPc .. OutPc]
    /\ dimWant \in [Leveller -> 0 .. MaxLevel]
    /\ {setting, wasOpen} \subseteq [Leveller -> BOOLEAN]
    /\ level \in 0 .. MaxLevel /\ leds \subseteq 1 .. MaxLevel
    /\ period \in 0 .. HalfCycle
    /\ dimStatus \in {"counting", "zero", "shutdown"}
    /\ {zeroIrq, gate, openTold, steady, opened, late, keyOpened, levelMixed} \subseteq BOOLEAN
    /\ hwTimer \in 0 .. Stopped /\ zeroLeft \in 0 .. HalfCycle
    /\ keyTimers \subseteq {"up", "down"}
    /\ sets \in 0 .. MaxSets /\ levelKeys \in 0 .. MaxLevelKeys

(* Between calls, unless two threads met or the key lit a lamp that was off, *)
(* the LEDs, the period and the last report are those of the level, and once *)
(* the counting is over the zeros interrupt exactly when the lamp is on.     *)
LevelShown ==
    DimQuiet /\ ~levelMixed /\ ~keyOpened =>
        /\ leds = 1 .. level
        /\ level > 0 => period = DimPeriod(level)
        /\ openTold = (level > 0)
        /\ dimStatus # "counting" => zeroIrq = (level > 0)

(* Whatever the threads do, an open gate has a timer that will close it, and *)
(* it is closed by the next zero, unless a zero came while the lamp was      *)
(* being lit again and found the period of the lamp that was off.  With the  *)
(* same two exceptions as above, over a half cycle without a call it was     *)
(* opened exactly if the lamp is on, and is closed by the next zero.         *)
GateInTime ==
    /\ gate => hwTimer # Stopped
    /\ zeroLeft = 0 /\ gate => late
    /\ zeroLeft = 0 /\ steady /\ dimStatus # "counting" /\ ~levelMixed /\ ~keyOpened =>
         ~gate /\ opened = (level > 0)

DimmerInv == DimmerTypes /\ LevelShown /\ GateInTime

(* deviceGpio.c:788 says that with the lamp off the key up must not light    *)
(* it.  The interrupt looks; its timer's callback, 30 ms later, does not.    *)
OffStaysOff ==
    [][level = 0 /\ level' > 0 => \E t \in Leveller: setting[t] /\ InDim(t, LevelPc)]_dimmerVars
=============================================================================
