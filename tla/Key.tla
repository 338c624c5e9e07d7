--------------------------------- MODULE Key ---------------------------------
(***************************************************************************)
(* The key of the device (deviceGpio.c): an edge of the pin interrupts,     *)
(* switches the interrupt off and starts a debounce timer; its callback     *)
(* samples the pin, acts on a change and switches the interrupt on again.   *)
(* A press starts a second timer.  If the key is still down when that one   *)
(* expires, the press was long and asks for a factory reset; a release      *)
(* before that toggles the switch.                                          *)
(*                                                                          *)
(* Both callbacks run in the timer thread, one after the other, and an edge *)
(* may come at any moment, between the sample and the end of the callback   *)
(* too.  Whether the hardware remembers an edge that came while the         *)
(* interrupt was off is left open: both are possible.                       *)
(***************************************************************************)
EXTENDS Naturals

CONSTANTS Debounce,     \* the debounce timer, 30 ms
          Long,         \* the long-press timer, 3000 ms
          MaxPresses    \* bound: times the key goes down

ASSUME KeyAssumption ==
    /\ {Debounce, Long} \subseteq Nat \ {0} /\ Debounce < Long
    /\ MaxPresses \in Nat

VARIABLES smartlink, \* the device started for smart-link
          pin,       \* the key is down
          irq,       \* the key's interrupt is on
          debounce,  \* time left on irqDebounceTimer, Off when it is stopped
          longTimer,     \* time left on deviceKeyTimer, Off when it is stopped
          sampled,   \* the debounce callback has sampled and not yet ended
          sample,    \* bKeyPressed of that callback
          pressed,   \* g_bKeyPressed
          long,      \* g_bLongPress
          switch,    \* the relay
          reset,     \* lum_deviceFactoryReset was called
          edge,      \* an edge came while the interrupt was off
          presses,   \* times the key went down
          toggles,   \* history: times the switch was toggled
          up,        \* history: how long the key is up, at most Long
          gap,       \* history: longest time up since the press was recognised
          held,      \* history: time down without an edge while the timer
                     \* runs, and one more when it has expired
          missed,    \* history: the key moved before the interrupt was on
          keyLost       \* history: that happened since the press was recognised

keyVars == <<smartlink, pin, irq, debounce, longTimer, sampled, sample, pressed, long,
          switch, reset, edge, presses, toggles, up, gap, held, missed, keyLost>>

Off == Long + 1

Smaller(a, b) == IF a < b THEN a ELSE b
Larger(a, b) == IF a < b THEN b ELSE a

(* startIrqDebounceTimer, from the interrupt.                               *)
StartIrqDebounceTimer == irq' = FALSE /\ debounce' = Debounce

(* The user, or a bouncing contact, moves the key.                          *)
Edge ==
    /\ ~reset
    /\ pin \/ presses < MaxPresses
    /\ pin' = ~pin
    /\ presses' = IF pin THEN presses ELSE presses + 1
    /\ up' = 0
    /\ held' = IF pin THEN held ELSE 0
    /\ IF irq THEN StartIrqDebounceTimer /\ UNCHANGED edge
              ELSE edge' = TRUE /\ UNCHANGED <<irq, debounce>>
    /\ UNCHANGED <<smartlink, longTimer, sampled, sample, pressed, long, switch,
                   reset, toggles, gap, missed, keyLost>>

IsRunning(t) == t # Off
Aged(t) == IF IsRunning(t) THEN t - 1 ELSE t

(* Time passes while no callback is due.                                    *)
Tick ==
    /\ debounce # 0 /\ longTimer # 0 /\ ~sampled /\ ~reset
    /\ debounce' = Aged(debounce) /\ longTimer' = Aged(longTimer)
    /\ up' = IF pin THEN 0 ELSE Smaller(up + 1, Long)
    /\ gap' = IF pin THEN gap ELSE Larger(gap, Smaller(up + 1, Long))
    /\ held' = IF pin /\ (IsRunning(longTimer) \/ held = Long)
              THEN held + 1 ELSE held
    /\ UNCHANGED <<smartlink, pin, irq, sampled, sample, pressed, long, switch,
                   reset, edge, presses, toggles, missed, keyLost>>

(* A new press: the long-press timer starts from the beginning.              *)
Started == longTimer' = Long /\ gap' = 0 /\ held' = 0 /\ keyLost' = FALSE

(* The two halves of irqDebounceTimerCallback's reaction to a change.        *)
Press ==
    /\ long' = FALSE
    /\ Started
    /\ UNCHANGED <<switch, toggles>>

ToggleSwitch == switch' = ~switch /\ toggles' = toggles + 1

(* Mutants of Release: the timer is not stopped; every release toggles.      *)
ReleaseKeepsTimer ==
    /\ long' = FALSE
    /\ IF long THEN UNCHANGED <<switch, toggles>> ELSE ToggleSwitch
    /\ UNCHANGED <<longTimer, gap, held, keyLost>>
ReleaseToggles ==
    /\ long' = FALSE /\ longTimer' = Off /\ ToggleSwitch
    /\ UNCHANGED <<gap, held, keyLost>>

Release ==
    /\ long' = FALSE
    /\ IF long THEN UNCHANGED <<longTimer, switch, toggles>>
               ELSE longTimer' = Off /\ ToggleSwitch
    /\ UNCHANGED <<gap, held, keyLost>>

(* The sample differs from the one before.                                   *)
Changed == pressed # pin

(* irqDebounceTimerCallback up to the reaction ...                           *)
Sample ==
    /\ debounce = 0 /\ ~sampled /\ ~reset
    /\ debounce' = Off
    /\ sampled' = TRUE /\ sample' = pin
    /\ missed' = FALSE
    /\ IF ~Changed
       THEN UNCHANGED <<longTimer, long, switch, toggles, gap, held, keyLost>>
       ELSE IF pin THEN Press ELSE Release
    /\ UNCHANGED <<smartlink, pin, irq, pressed, reset, edge, presses, up>>

(* Mutant of EndOfCallback: the new value of the key is not kept.            *)
EndOfCallbackForgets ==
    /\ sampled
    /\ sampled' = FALSE /\ pressed' = pressed
    /\ edge' = FALSE
    /\ irq' = TRUE /\ missed' = (pin # sample) /\ keyLost' = (keyLost \/ pin # sample)
    /\ UNCHANGED <<smartlink, debounce, pin, longTimer, sample, long, switch, reset,
                   presses, toggles, up, gap, held>>

(* ... and its end.  An edge while the interrupt was off is lost, or the     *)
(* hardware remembered it and interrupts at once.                            *)
EndOfCallback ==
    /\ sampled
    /\ sampled' = FALSE /\ pressed' = sample
    /\ edge' = FALSE
    /\ \/ /\ irq' = TRUE /\ UNCHANGED debounce
          /\ missed' = (pin # sample) /\ keyLost' = (keyLost \/ pin # sample)
       \/ edge /\ StartIrqDebounceTimer /\ UNCHANGED <<missed, keyLost>>
    /\ UNCHANGED <<smartlink, pin, longTimer, sample, long, switch, reset, presses,
                   toggles, up, gap, held>>

(* deviceKeyTimerCallback.                                                   *)
KeyTimer ==
    /\ longTimer = 0 /\ ~sampled /\ ~reset
    /\ longTimer' = Off
    /\ long' = (long \/ pin)
    /\ reset' = (pin /\ ~smartlink)
    /\ UNCHANGED <<smartlink, pin, irq, debounce, sampled, sample, pressed, switch,
                   edge, presses, toggles, up, gap, held, missed, keyLost>>

(* Power-on, possibly with the key held down.                                *)
KeyInit ==
    /\ smartlink \in BOOLEAN /\ pin \in BOOLEAN /\ irq = TRUE /\ debounce = Off /\ longTimer = Off
    /\ sampled = FALSE /\ sample = FALSE /\ pressed = FALSE /\ long = FALSE
    /\ switch = FALSE /\ reset = FALSE /\ edge = FALSE
    /\ presses = (IF pin THEN 1 ELSE 0) /\ toggles = 0
    /\ up = 0 /\ gap = 0 /\ held = 0 /\ missed = pin /\ keyLost = FALSE

KeyNext == Edge \/ Tick \/ Sample \/ EndOfCallback \/ KeyTimer

KeySpec == KeyInit /\ [][KeyNext]_keyVars
-----------------------------------------------------------------------------
(* Types; the key's interrupt is off exactly while its callback is to come.  *)
KeyTypes ==
    /\ {smartlink, pin, irq, sampled, sample, pressed, long, switch, reset, edge,
        missed, keyLost} \subseteq BOOLEAN
    /\ debounce \in 0 .. Debounce \cup {Off} /\ longTimer \in 0 .. Long \cup {Off}
    /\ presses \in 0 .. MaxPresses + 1 /\ toggles \in Nat
    /\ irq <=> (~IsRunning(debounce) /\ ~sampled)
    /\ {up, gap} \subseteq 0 .. Long /\ held \in 0 .. Long + 1

(* A factory reset is the work of one long press: since the press that       *)
(* started the timer the key was not up for longer than a contact bounces,   *)
(* unless it was released between the sample and the end of the callback     *)
(* and the hardware did not remember that.                                   *)
ResetMeansHeld == reset => gap <= Debounce \/ keyLost

(* The switch is toggled at most once per press, however the contact bounces *)
(* and the timers fall.                                                      *)
OneToggle == toggles <= presses

(* A key that was held until after the long-press timer expired does not     *)
(* toggle the switch when it is released.                                    *)
LongTogglesNothing == [][toggles' # toggles => held <= Long]_keyVars

(* At rest the device's idea of the key is the key, unless it moved between  *)
(* the sample and the end of the callback.                                   *)
InStep == irq /\ ~missed => pressed = pin

(* The types, how the device's idea of the key and the switch follow it, and *)
(* that a reset was asked for by a key held all the time.                    *)
KeyInv == KeyTypes /\ OneToggle /\ InStep /\ ResetMeansHeld
=============================================================================
