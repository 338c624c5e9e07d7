-------------------------------- MODULE Relay --------------------------------
(***************************************************************************)
(* The switch of a device with a relay that keeps its position             *)
(* (deviceGpio.c with SPECIAL_RELAY_SUPPORT).  setSwitchStatus sets the     *)
(* pin the program reads the switch from, energises one of two coils, lets  *)
(* a timer release it after 200 ms, and reports a change to the server.     *)
(* The message thread and the timer thread both call it, nothing keeps them *)
(* apart, and the callback that releases the coils runs in the latter.      *)
(***************************************************************************)
EXTENDS Naturals

CONSTANTS CoilTime,     \* the timer that releases the coils, 200 ms
          MaxSwitched   \* bound: calls of setSwitchStatus

ASSUME RelayAssumption == CoilTime \in Nat \ {0, 1} /\ MaxSwitched \in Nat

VARIABLES relayPin,     \* HFGPIO_F_SWITCH
          coilOpen,     \* HFGPIO_F_RELAY_2
          coilClose,    \* HFGPIO_F_RELAY_1
          relayLed,     \* HFGPIO_F_RELAY_LED, which is lit when low
          latch,        \* the relay itself
          coilTimer,    \* time left on specialRelayTimer, NoCoilTimer when stopped
          swPc,         \* where each thread is in setSwitchStatus
          action,       \* its parameter
          before,       \* switchStatus, read on entry
          switched,     \* calls so far
          releasing,    \* the callback is between the two coils it releases
          told,         \* history: the action reported last
          alone,        \* history: nothing met the call each thread is in
          mixed         \* history: calls met, or one met the release of the coils of
                        \* another, and none since then ran alone and reported

relayVars == <<relayPin, coilOpen, coilClose, relayLed, latch, coilTimer, swPc, action,
               before, switched, releasing, told, alone, mixed>>
coils == <<coilOpen, coilClose>>
calls == <<action, before, switched, releasing>>
meetings == <<alone, mixed>>

Switcher == {"message", "timer"}    \* initDevicePin's call is made before they start
NoCoilTimer == CoilTime + 1
Outside(t) == swPc[t] = "out"
Lonely(t) == \A u \in Switcher \ {t}: Outside(u)
On(t, s) == swPc' = [swPc EXCEPT ![t] = s]

(* setSwitchStatus is entered: the caller, a message or an alarm, names the  *)
(* action, or it is changeSwitchStatus, for the key and the local test, which *)
(* takes the opposite of what it reads.                                      *)
Enter(t) ==
    /\ Outside(t) /\ switched < MaxSwitched
    /\ t = "timer" => coilTimer # 0 /\ ~releasing
    /\ \E a \in BOOLEAN: action' = [action EXCEPT ![t] = a]
    /\ before' = [before EXCEPT ![t] = relayPin]
    /\ switched' = switched + 1
    /\ On(t, "pin")
    /\ alone' = [u \in Switcher |-> IF u = t THEN Lonely(t) ELSE FALSE]
    /\ mixed' = (mixed \/ ~Lonely(t))
    /\ UNCHANGED <<relayPin, coils, relayLed, latch, coilTimer, releasing, told>>

SetPin(t) ==
    /\ swPc[t] = "pin"
    /\ relayPin' = action[t]
    /\ On(t, "coil 2")
    /\ UNCHANGED <<coils, relayLed, latch, coilTimer, calls, told, meetings>>

(* The first of the two coils is set ...                                     *)
SetCoil2(t) ==
    /\ swPc[t] = "coil 2"
    /\ coilOpen' = action[t]
    /\ On(t, "coil 1")
    /\ UNCHANGED <<relayPin, coilClose, relayLed, latch, coilTimer, calls, told, meetings>>

(* Mutant of SetCoil1: the coil for closing is left as it is.                *)
SetCoil1Never(t) ==
    /\ swPc[t] = "coil 1"
    /\ On(t, "timer")
    /\ UNCHANGED <<relayPin, coils, relayLed, latch, coilTimer, calls, told, meetings>>

(* ... then the other.                                                       *)
SetCoil1(t) ==
    /\ swPc[t] = "coil 1"
    /\ coilClose' = ~action[t]
    /\ On(t, "timer")
    /\ UNCHANGED <<relayPin, coilOpen, relayLed, latch, coilTimer, calls, told, meetings>>

(* startSpecialRelayTimer.                                                   *)
StartCoilTimer(t) ==
    /\ swPc[t] = "timer"
    /\ coilTimer' = CoilTime
    /\ On(t, "led")
    /\ UNCHANGED <<relayPin, coils, relayLed, latch, calls, told, meetings>>

SetRelayLed(t) ==
    /\ swPc[t] = "led"
    /\ relayLed' = action[t]
    /\ On(t, "report")
    /\ UNCHANGED <<relayPin, coils, latch, coilTimer, calls, told, meetings>>

(* A change against what was read on entry is reported.                      *)
Report(t) ==
    /\ swPc[t] = "report"
    /\ told' = (IF action[t] # before[t] THEN action[t] ELSE told)
    /\ mixed' = (mixed /\ ~(alone[t] /\ action[t] # before[t]))
    /\ On(t, "out")
    /\ UNCHANGED <<relayPin, coils, relayLed, latch, coilTimer, calls, alone>>

SetSwitchStatus(t) == \/ Enter(t) \/ SetPin(t) \/ SetCoil2(t) \/ SetCoil1(t)
                      \/ StartCoilTimer(t) \/ SetRelayLed(t) \/ Report(t)

(* A release cuts short the call of the message thread that has set the coil.*)
MeetsIf(cut) ==
    /\ mixed' = (mixed \/ cut)
    /\ alone' = [alone EXCEPT !["message"] = @ /\ ~cut]

(* specialRelayTimerCallback, in the timer thread, releases one coil ...     *)
ReleaseCoil2 ==
    /\ coilTimer = 0 /\ Outside("timer") /\ ~releasing
    /\ coilTimer' = NoCoilTimer
    /\ coilOpen' = FALSE
    /\ releasing' = TRUE
    /\ MeetsIf(swPc["message"] \in {"coil 1", "timer"})
    /\ UNCHANGED <<relayPin, coilClose, relayLed, latch, swPc, action, before, switched, told>>

(* ... and the other.  Either may come while the message thread is setting   *)
(* the coils for the next action, or has set both and started the timer.     *)
ReleaseCoil1 ==
    /\ releasing
    /\ coilClose' = FALSE
    /\ releasing' = FALSE
    /\ MeetsIf(swPc["message"] = "timer" \/ coilTimer # NoCoilTimer)
    /\ UNCHANGED <<relayPin, coilOpen, relayLed, latch, coilTimer, swPc, action, before,
                   switched, told>>

(* Time passes: the relay follows a coil that is energised alone.            *)
CoilTick ==
    /\ coilTimer \in 1 .. CoilTime
    /\ coilTimer' = coilTimer - 1
    /\ latch' = IF coilOpen = coilClose THEN latch ELSE coilOpen
    /\ UNCHANGED <<relayPin, coils, relayLed, swPc, calls, told, meetings>>

(* Power-on: the pins are low, the relay is where it was, and initDevicePin  *)
(* closes the switch.                                                        *)
RelayInit ==
    /\ relayPin = FALSE /\ coilOpen = FALSE /\ coilClose = FALSE
    /\ relayLed = TRUE /\ latch \in BOOLEAN
    /\ coilTimer = NoCoilTimer
    /\ swPc = [t \in Switcher |-> IF t = "message" THEN "pin" ELSE "out"]
    /\ action = [t \in Switcher |-> FALSE] /\ before = [t \in Switcher |-> FALSE]
    /\ switched = 0 /\ releasing = FALSE /\ told = FALSE
    /\ alone = [t \in Switcher |-> TRUE] /\ mixed = FALSE

RelayNext == (\E t \in Switcher: SetSwitchStatus(t)) \/ ReleaseCoil2 \/ ReleaseCoil1 \/ CoilTick

RelaySpec == RelayInit /\ [][RelayNext]_relayVars
-----------------------------------------------------------------------------
RelayTypes ==
    /\ {relayPin, coilOpen, coilClose, relayLed, latch, releasing, told, mixed} \subseteq BOOLEAN
    /\ coilTimer \in 0 .. NoCoilTimer /\ switched \in 0 .. MaxSwitched
    /\ swPc \in [Switcher -> {"out", "pin", "coil 2", "coil 1", "timer", "led", "report"}]
    /\ {action, alone} \subseteq [Switcher -> BOOLEAN] /\ before \in [Switcher -> BOOLEAN]

(* Once the calls are done and the coils released, neither coil is energised *)
(* any more, whatever met whatever; and unless something met, the relay, the *)
(* pin the program believes, the LED and the last report agree.              *)
RelayAgrees ==
    (\A t \in Switcher: Outside(t)) /\ coilTimer = NoCoilTimer /\ ~releasing =>
        /\ ~coilOpen /\ ~coilClose
        /\ ~mixed => latch = relayPin /\ relayLed = relayPin /\ told = relayPin

RelayInv == RelayTypes /\ RelayAgrees
=============================================================================
