-------------------------------- MODULE Light --------------------------------
(***************************************************************************)
(* The lamp with brightness and colour temperature (deviceGpio.c with       *)
(* CHANGE_BRIGHTNESS_SUPPORT), which shows the state of the connection with *)
(* the lamp itself: a timer blinks it until it is switched or the device is *)
(* on the air.  lum_setLedLightStatus is called by the message thread and   *)
(* the timer thread to switch the lamp and by the system's event callback;  *)
(* it and the blinking callback share the timer's handle and g_ledInfo, and *)
(* nothing keeps them apart.                                                *)
(***************************************************************************)
EXTENDS Naturals

CONSTANT MaxLightCalls      \* bound: calls of lum_setLedLightStatus

ASSUME LightAssumption == MaxLightCalls \in Nat

VARIABLES lightPc,      \* where each thread is, "out" of both functions or at a step
          want,         \* letStatus of the call the thread is in
          ledStatus,    \* g_ledInfo.ledStatus
          ledOpen,      \* g_ledInfo.ledOpen, which getSwitchStatus answers with
          lit,          \* what the two PWM pins make the lamp do
          handle,       \* g_lightLedStatusTimer, NoTimer when NULL
          created,      \* timers created so far; a timer is its number
          live,         \* the timers created and not deleted
          running,      \* those of them that were started
          lightCalls,   \* calls so far
          keyed,        \* history: a level key was used since the last call
          met,          \* history: two threads were in these functions at once
          ruined        \* history: a timer was used that had been deleted or was NULL

lightVars == <<lightPc, want, ledStatus, ledOpen, lit, handle, created, live,
               running, lightCalls, keyed, met, ruined>>

lamp == <<ledStatus, ledOpen, lit>>
timers == <<handle, created, live, running>>

Lighter == {"message", "timer", "event"}
Switched == {"open", "close"}           \* LIGHT_LED_OPEN, LIGHT_LED_CLOSE
Blinked == {"unconnected", "smartlink"} \* LIGHT_NOT_UNCONNECT, LIGHT_SMARTLINK
Asks(t) == IF t = "event" THEN Blinked \cup {"close"} ELSE Switched
NoTimer == 0
Idle(t) == lightPc[t] = "out"
AllIdle == \A t \in Lighter: Idle(t)
Step(t, from, to) == lightPc[t] = from /\ lightPc' = [lightPc EXCEPT ![t] = to]
-----------------------------------------------------------------------------
(* lum_setLedLightStatus: the status is stored ...                           *)
SetStatus(t) ==
    /\ lightCalls < MaxLightCalls
    /\ \E s \in Asks(t):
          /\ want' = [want EXCEPT ![t] = s]
          /\ ledStatus' = s
          /\ Step(t, "out", IF s \in Switched THEN "stop" ELSE "start")
    /\ lightCalls' = lightCalls + 1
    /\ keyed' = FALSE
    /\ met' = (met \/ \E u \in Lighter \ {t}: ~Idle(u))
    /\ UNCHANGED <<ledOpen, lit, timers, ruined>>

(* Mutant of StopTimer: the timer is stopped when the lamp is closed only.   *)
StopTimerOnClose(t) ==
    /\ Step(t, "stop", IF handle = NoTimer \/ want[t] = "open" THEN "show" ELSE "forget")
    /\ live' = IF want[t] = "open" THEN live ELSE live \ {handle}
    /\ running' = running \cap live'
    /\ ruined' = (ruined \/ (handle # NoTimer /\ handle \notin live))
    /\ UNCHANGED <<want, lamp, handle, created, lightCalls, keyed, met>>

(* ... to switch the lamp, lum_stopLightLedStatusTimer stops and deletes the *)
(* timer, if there is one ...                                                *)
StopTimer(t) ==
    /\ Step(t, "stop", IF handle = NoTimer THEN "show" ELSE "forget")
    /\ live' = live \ {handle}
    /\ running' = running \ {handle}
    /\ ruined' = (ruined \/ (handle # NoTimer /\ handle \notin live))
    /\ UNCHANGED <<want, lamp, handle, created, lightCalls, keyed, met>>

ForgetTimer(t) ==
    /\ Step(t, "forget", "show")
    /\ handle' = NoTimer
    /\ UNCHANGED <<want, lamp, created, live, running, lightCalls, keyed, met, ruined>>

(* ... the levels or darkness are shown ...                                  *)
Show(t) ==
    /\ Step(t, "show", "open")
    /\ lit' = IF want[t] = "open" THEN "levels" ELSE "dark"
    /\ UNCHANGED <<want, ledStatus, ledOpen, timers, lightCalls, keyed, met, ruined>>

SetLedOpen(t) ==
    /\ Step(t, "open", "out")
    /\ ledOpen' = (want[t] = "open")
    /\ UNCHANGED <<want, ledStatus, lit, timers, lightCalls, keyed, met, ruined>>

(* ... and to blink it, lum_startLightLedStatusTimer creates the timer if    *)
(* there is none ...                                                         *)
CreateTimer(t) ==
    /\ Step(t, "start", IF handle = NoTimer THEN "create" ELSE "period")
    /\ ledOpen' = (ledOpen /\ handle # NoTimer)
    /\ UNCHANGED <<want, ledStatus, lit, timers, lightCalls, keyed, met, ruined>>

StoreTimer(t) ==
    /\ Step(t, "create", "period")
    /\ created' = created + 1
    /\ handle' = created'
    /\ live' = live \cup {created'}
    /\ UNCHANGED <<want, lamp, running, lightCalls, keyed, met, ruined>>

(* ... and sets its period, which starts it.                                 *)
ChangePeriod(t) ==
    /\ Step(t, "period", "out")
    /\ running' = running \cup ({handle} \cap live)
    /\ ruined' = (ruined \/ handle \notin live)
    /\ UNCHANGED <<want, lamp, handle, created, live, lightCalls, keyed, met>>

SetLedLightStatus(t) ==
    \/ SetStatus(t) \/ StopTimer(t) \/ ForgetTimer(t) \/ Show(t) \/ SetLedOpen(t)
    \/ CreateTimer(t) \/ StoreTimer(t) \/ ChangePeriod(t)
-----------------------------------------------------------------------------
(* lum_lightLedStatusTimerCallback shows the lamp brighter or dimmer ...     *)
Blink ==
    /\ running # {}
    /\ Step("timer", "out", IF ledOpen THEN "dim" ELSE "bright")
    /\ lit' = IF ledOpen THEN "dim" ELSE "bright"
    /\ met' = (met \/ ~AllIdle)
    /\ UNCHANGED <<want, ledStatus, ledOpen, timers, lightCalls, keyed, ruined>>

(* ... and after noting it starts the timer again.                           *)
BlinkOpen ==
    /\ \/ Step("timer", "bright", "start") /\ ledOpen' = TRUE
       \/ Step("timer", "dim", "start") /\ ledOpen' = FALSE
    /\ UNCHANGED <<want, ledStatus, lit, timers, lightCalls, keyed, met, ruined>>

(* The debounced keys for brightness and temperature store the next level    *)
(* and show it, whether the lamp is open, closed or blinking.                *)
LevelKey ==
    /\ Idle("timer")
    /\ lit' = "levels"
    /\ keyed' = TRUE
    /\ met' = (met \/ ~AllIdle)
    /\ UNCHANGED <<lightPc, want, ledStatus, ledOpen, timers, lightCalls, ruined>>

(* initDevicePin closes the lamp, then lum_wifiLightLedInit makes it blink.  *)
LightInit ==
    /\ lightPc = [t \in Lighter |-> IF t = "event" THEN "start" ELSE "out"]
    /\ want = [t \in Lighter |-> IF t = "event" THEN "unconnected" ELSE "close"]
    /\ ledStatus = "unconnected" /\ ledOpen = FALSE /\ lit = "dark"
    /\ handle = NoTimer /\ created = 0 /\ live = {} /\ running = {}
    /\ lightCalls = 0 /\ keyed = FALSE /\ met = FALSE /\ ruined = FALSE

LightNext == (\E t \in Lighter: SetLedLightStatus(t)) \/ Blink \/ BlinkOpen \/ LevelKey

LightSpec == LightInit /\ [][LightNext]_lightVars
-----------------------------------------------------------------------------
LightTypes ==
    /\ lightPc \in [Lighter -> {"out", "stop", "forget", "show", "open", "start", "create",
                                "period", "bright", "dim"}]
    /\ want \in [Lighter -> Switched \cup Blinked]
    /\ ledStatus \in Switched \cup Blinked
    /\ {ledOpen, keyed, met, ruined} \subseteq BOOLEAN
    /\ lit \in {"dark", "levels", "bright", "dim"}
    /\ handle \in 0 .. created /\ running \subseteq live
    /\ live \subseteq 1 .. created

(* Unless two of the threads met, no deleted timer is ever used, and once a  *)
(* call is over the lamp does what was asked last: it is lit or dark, known  *)
(* as such and no timer is left to change that, or exactly one timer blinks  *)
(* it, the one the program can stop.                                         *)
LampAsAsked ==
    /\ ~met => ~ruined
    /\ AllIdle /\ ~met =>
         IF ledStatus \in Switched
         THEN /\ handle = NoTimer /\ live = {}
              /\ ledOpen = (ledStatus = "open")
              /\ ~keyed => lit = IF ledOpen THEN "levels" ELSE "dark"
         ELSE handle # NoTimer /\ live = {handle} /\ running = live

LightInv == LightTypes /\ LampAsAsked
=============================================================================
