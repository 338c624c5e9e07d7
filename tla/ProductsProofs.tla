--------------------------- MODULE ProductsProofs ---------------------------
(***************************************************************************)
(* The invariants of the parts of the products, one part after the other,   *)
(* for all values of the constants, and of their composition.               *)
(***************************************************************************)
EXTENDS Products, FiniteSetTheorems, TLAPS

(***************************************************************************)
(* What the device takes the key for, in the callback and outside of it.   *)
HeldDown == IF sampled THEN sample ELSE pressed

(* The callback has only begun when its timer has expired.                 *)
Sampling == sampled => ~IsRunning(debounce)

(* A key that is up and taken for pressed is so for no longer than the     *)
(* debounce timer ran.                                                     *)
UpSince ==
    ~pin /\ HeldDown =>
        /\ sampled => up = 0
        /\ IsRunning(debounce) => up + debounce <= Debounce

(* While the long-press timer runs the device takes the key for pressed,   *)
(* and it was so all the time, unless a move was lost.                     *)
Pressing ==
    IsRunning(longTimer) =>
        /\ HeldDown /\ ~long
        /\ held + longTimer <= Long
        /\ missed => keyLost
        /\ ~keyLost => gap <= Debounce

(* The presses that were toggled, or may be, are all different.            *)
Counted == toggles <= presses /\ (HeldDown \/ pin => toggles < presses)

(* A key that is down without an edge when the timer expires, and after,   *)
(* is a long press.                                                        *)
LongPress ==
    /\ held = Long /\ ~IsRunning(longTimer) /\ pin => long
    /\ held = Long + 1 /\ HeldDown => long

KeyIInv == KeyTypes /\ InStep /\ Sampling /\ UpSince /\ Pressing /\ Counted /\ LongPress
           /\ ResetMeansHeld
-----------------------------------------------------------------------------
(* The types in parts.                                                     *)
KeyFlags ==
    /\ smartlink \in BOOLEAN /\ pin \in BOOLEAN /\ irq \in BOOLEAN /\ sampled \in BOOLEAN
    /\ sample \in BOOLEAN /\ pressed \in BOOLEAN /\ long \in BOOLEAN /\ switch \in BOOLEAN
    /\ reset \in BOOLEAN /\ edge \in BOOLEAN /\ missed \in BOOLEAN /\ keyLost \in BOOLEAN
KeyTimers ==
    /\ debounce \in 0 .. Debounce \cup {Off} /\ longTimer \in 0 .. Long \cup {Off}
    /\ up \in 0 .. Long /\ gap \in 0 .. Long /\ held \in 0 .. Long + 1
KeyCounts == presses \in 0 .. MaxPresses + 1 /\ toggles \in Nat
KeyReady == irq <=> (~IsRunning(debounce) /\ ~sampled)

LEMMA KeyTypesAre == KeyTypes <=> KeyFlags /\ KeyTimers /\ KeyCounts /\ KeyReady
  BY DEF KeyTypes, KeyFlags, KeyTimers, KeyCounts, KeyReady

LEMMA KeyFlagsKept ==
  ASSUME KeyFlags, [KeyNext]_keyVars
  PROVE  KeyFlags'
<1> USE DEF KeyFlags
<1>1. CASE UNCHANGED keyVars
  BY <1>1 DEF keyVars
<1>2. CASE Edge
  BY <1>2 DEF Edge, StartIrqDebounceTimer
<1>3. CASE Tick
  BY <1>3 DEF Tick
<1>4. CASE Sample
  BY <1>4 DEF Sample, Press, Started, Release, ToggleSwitch
<1>5. CASE EndOfCallback
  BY <1>5 DEF EndOfCallback, StartIrqDebounceTimer
<1>6. CASE KeyTimer
  BY <1>6 DEF KeyTimer
<1> QED
  BY <1>1, <1>2, <1>3, <1>4, <1>5, <1>6 DEF KeyNext

LEMMA KeyTimersKept ==
  ASSUME KeyTimers, Pressing, LongPress, [KeyNext]_keyVars
  PROVE  KeyTimers'
<1> USE KeyAssumption DEF KeyTimers, Off
<1>1. CASE UNCHANGED keyVars
  BY <1>1 DEF keyVars
<1>2. CASE Edge
  BY <1>2 DEF Edge, StartIrqDebounceTimer
<1>3. CASE Tick
  BY <1>3 DEF Tick, Aged, IsRunning, Smaller, Larger, Pressing
<1>4. CASE Sample
  BY <1>4 DEF Sample, Press, Started, Release, ToggleSwitch
<1>5. CASE EndOfCallback
  BY <1>5 DEF EndOfCallback, StartIrqDebounceTimer
<1>6. CASE KeyTimer
  BY <1>6 DEF KeyTimer
<1> QED
  BY <1>1, <1>2, <1>3, <1>4, <1>5, <1>6 DEF KeyNext

LEMMA KeyCountsKept ==
  ASSUME KeyCounts, [KeyNext]_keyVars
  PROVE  KeyCounts'
<1> USE KeyAssumption DEF KeyCounts
<1>1. CASE UNCHANGED keyVars
  BY <1>1 DEF keyVars
<1>2. CASE Edge
  BY <1>2 DEF Edge
<1>3. CASE Tick \/ KeyTimer \/ EndOfCallback
  BY <1>3 DEF Tick, KeyTimer, EndOfCallback
<1>4. CASE Sample
  BY <1>4 DEF Sample, Press, Release, ToggleSwitch
<1> QED
  BY <1>1, <1>2, <1>3, <1>4 DEF KeyNext

(* The interrupt is off while the callback is to come, and what it sampled *)
(* is what the device takes the key for, unless the key moved.             *)
LEMMA InterruptKept ==
  ASSUME KeyFlags, KeyTimers, KeyReady, InStep, Sampling, [KeyNext]_keyVars
  PROVE  KeyReady' /\ InStep' /\ Sampling'
<1> USE KeyAssumption DEF KeyFlags, KeyTimers, KeyReady, InStep, Sampling, Off, IsRunning
<1>1. CASE UNCHANGED keyVars
  BY <1>1 DEF keyVars
<1>2. CASE Edge
  BY <1>2 DEF Edge, StartIrqDebounceTimer
<1>3. CASE Tick
  BY <1>3 DEF Tick, Aged
<1>4. CASE Sample
  BY <1>4 DEF Sample
<1>5. CASE EndOfCallback
  BY <1>5 DEF EndOfCallback, StartIrqDebounceTimer
<1>6. CASE KeyTimer
  BY <1>6 DEF KeyTimer
<1> QED
  BY <1>1, <1>2, <1>3, <1>4, <1>5, <1>6 DEF KeyNext

LEMMA UpSinceKept ==
  ASSUME KeyFlags, KeyTimers, Sampling, UpSince, [KeyNext]_keyVars
  PROVE  UpSince'
<1> USE KeyAssumption DEF KeyFlags, KeyTimers, UpSince, HeldDown, Off, IsRunning
<1>1. CASE UNCHANGED keyVars
  BY <1>1 DEF keyVars
<1>2. CASE Edge
  BY <1>2 DEF Edge, StartIrqDebounceTimer
<1>3. CASE Tick
  BY <1>3 DEF Tick, Aged, Smaller
<1>4. CASE Sample
  BY <1>4 DEF Sample
<1>5. CASE EndOfCallback
  <2>1. sampled /\ ~sampled' /\ (pressed' <=> sample) /\ UNCHANGED <<pin, up>>
    BY <1>5 DEF EndOfCallback
  <2>2. debounce = Off
    BY <2>1 DEF Sampling
  <2>3. debounce' = Off \/ debounce' = Debounce
    BY <1>5, <2>2 DEF EndOfCallback, StartIrqDebounceTimer
  <2>4. ~pin' /\ HeldDown' => up' = 0
    BY <2>1
  <2> QED
    BY <2>1, <2>3, <2>4
<1>6. CASE KeyTimer
  BY <1>6 DEF KeyTimer
<1> QED
  BY <1>1, <1>2, <1>3, <1>4, <1>5, <1>6 DEF KeyNext

(* While the long-press timer runs the press that started it goes on.      *)
LEMMA PressingKept ==
  ASSUME KeyFlags, KeyTimers, KeyReady, InStep, Sampling, UpSince, Pressing, [KeyNext]_keyVars
  PROVE  Pressing'
<1> USE KeyAssumption DEF KeyFlags, KeyTimers, Pressing, HeldDown, Off, IsRunning
<1>1. CASE UNCHANGED keyVars
  BY <1>1 DEF keyVars
<1>2. CASE Edge
  BY <1>2 DEF Edge
<1>3. CASE Tick
  <2> SUFFICES ASSUME longTimer' # Off
               PROVE  /\ HeldDown' /\ ~long' /\ held' + longTimer' <= Long
                      /\ missed' => keyLost'
                      /\ ~keyLost' => gap' <= Debounce
    OBVIOUS
  <2>1. longTimer # Off /\ longTimer' = longTimer - 1
    BY <1>3 DEF Tick, Aged
  <2>2. UNCHANGED <<sampled, sample, pressed, long, missed, keyLost, pin>> /\ ~sampled
    BY <1>3 DEF Tick
  <2>3. held' <= held + 1
    BY <1>3 DEF Tick
  <2>4. ASSUME ~keyLost
        PROVE  gap' <= Debounce
    <3>1. CASE pin
      BY <1>3, <2>1, <2>4, <3>1 DEF Tick
    <3>2. CASE ~pin
      <4>1. pressed /\ ~missed
        BY <2>1, <2>2, <2>4
      <4>2. ~irq
        BY <3>2, <4>1 DEF InStep
      <4>3. debounce # Off /\ debounce # 0
        BY <1>3, <2>2, <4>2 DEF KeyReady, Tick
      <4>4. up + debounce <= Debounce
        BY <2>2, <3>2, <4>1, <4>3 DEF UpSince
      <4>5. up + 1 <= Debounce /\ gap <= Debounce
        BY <2>1, <2>4, <4>3, <4>4
      <4> QED
        BY <1>3, <3>2, <4>5 DEF Tick, Larger, Smaller
    <3> QED
      BY <3>1, <3>2
  <2>5. HeldDown' /\ ~long' /\ (missed' => keyLost') /\ (keyLost => keyLost')
    BY <2>1, <2>2
  <2>6. held' + longTimer' <= Long
    <3>1. held + longTimer <= Long
      BY <2>1
    <3>2. held \in Nat /\ held' \in Nat /\ longTimer \in Nat
      BY <1>3 DEF Tick
    <3> QED
      BY <2>1, <2>3, <3>1, <3>2
  <2> QED
    BY <2>2, <2>4, <2>5, <2>6
<1>4. CASE Sample
  <2>1. CASE ~Changed
    BY <1>4, <2>1 DEF Sample, Changed
  <2>2. CASE Changed /\ pin
    BY <1>4, <2>2 DEF Sample, Changed, Press, Started
  <2>3. CASE Changed /\ ~pin
    BY <1>4, <2>3 DEF Sample, Changed, Release
  <2> QED
    BY <2>1, <2>2, <2>3
<1>5. CASE EndOfCallback
  <2>1. UNCHANGED <<longTimer, long, held, gap>>
    BY <1>5 DEF EndOfCallback
  <2>2. sampled /\ ~sampled' /\ (pressed' <=> sample)
    BY <1>5 DEF EndOfCallback
  <2>3. (longTimer # Off => (missed' => keyLost')) /\ (keyLost => keyLost')
    <3>1. CASE missed' = (pin # sample) /\ keyLost' = (keyLost \/ pin # sample)
      BY <3>1
    <3>2. CASE UNCHANGED <<missed, keyLost>>
      BY <3>2
    <3> QED
      BY <1>5, <3>1, <3>2 DEF EndOfCallback
  <2> QED
    BY <2>1, <2>2, <2>3
<1>6. CASE KeyTimer
  BY <1>6 DEF KeyTimer
<1> QED
  BY <1>1, <1>2, <1>3, <1>4, <1>5, <1>6 DEF KeyNext

LEMMA CountedKept ==
  ASSUME KeyFlags, KeyCounts, Counted, [KeyNext]_keyVars
  PROVE  Counted'
<1> USE DEF KeyCounts, Counted, HeldDown
<1>1. CASE UNCHANGED keyVars
  BY <1>1 DEF keyVars
<1>2. CASE Edge
  BY <1>2 DEF Edge, KeyFlags
<1>3. CASE Tick \/ KeyTimer
  BY <1>3 DEF Tick, KeyTimer
<1>4. CASE Sample
  <2>1. /\ ~sampled /\ sampled' /\ (sample' <=> pin) /\ UNCHANGED <<pin, presses>>
        /\ toggles' = toggles \/ (pressed /\ ~pin /\ toggles' = toggles + 1)
    BY <1>4 DEF Sample, Changed, Press, Release, ToggleSwitch, KeyFlags
  <2> QED
    BY <2>1
<1>5. CASE EndOfCallback
  BY <1>5 DEF EndOfCallback
<1> QED
  BY <1>1, <1>2, <1>3, <1>4, <1>5 DEF KeyNext

LEMMA LongPressKept ==
  ASSUME KeyFlags, KeyTimers, Pressing, LongPress, [KeyNext]_keyVars
  PROVE  LongPress'
<1> USE KeyAssumption DEF KeyFlags, KeyTimers, LongPress, HeldDown, Off, IsRunning
<1>1. CASE UNCHANGED keyVars
  BY <1>1 DEF keyVars
<1>2. CASE Edge
  BY <1>2 DEF Edge
<1>3. CASE Tick
  <2>1. UNCHANGED <<pin, sampled, sample, pressed, long>> /\ longTimer # 0
    BY <1>3 DEF Tick
  <2>2. longTimer' = Off <=> longTimer = Off
    BY <1>3, <2>1 DEF Tick, Aged
  <2>3. held' = held \/ (held' = held + 1 /\ pin /\ (longTimer # Off \/ held = Long))
    BY <1>3 DEF Tick
  <2>4. longTimer # Off => held < Long
    BY <2>1 DEF Pressing
  <2> QED
    BY <2>1, <2>2, <2>3, <2>4
<1>4. CASE Sample
  <2>1. CASE ~Changed
    BY <1>4, <2>1 DEF Sample, Changed
  <2>2. CASE Changed /\ pin
    BY <1>4, <2>2 DEF Sample, Changed, Press, Started
  <2>3. CASE Changed /\ ~pin
    BY <1>4, <2>3 DEF Sample, Changed, Release
  <2> QED
    BY <2>1, <2>2, <2>3
<1>5. CASE EndOfCallback
  BY <1>5 DEF EndOfCallback
<1>6. CASE KeyTimer
  BY <1>6 DEF KeyTimer, Pressing
<1> QED
  BY <1>1, <1>2, <1>3, <1>4, <1>5, <1>6 DEF KeyNext

(* A reset is asked for when the long-press timer expires, and by nothing  *)
(* else; then the key does nothing more.                                   *)
LEMMA ResetKept ==
  ASSUME KeyFlags, KeyTimers, Pressing, ResetMeansHeld, [KeyNext]_keyVars
  PROVE  ResetMeansHeld'
<1> USE DEF ResetMeansHeld
<1>1. CASE UNCHANGED keyVars
  BY <1>1 DEF keyVars
<1>2. CASE Edge \/ Tick \/ Sample
  <2>1. ~reset /\ reset' = reset
    BY <1>2 DEF Edge, Tick, Sample
  <2> QED
    BY <2>1
<1>3. CASE EndOfCallback
  <2>1. (reset' <=> reset) /\ gap' = gap
    BY <1>3 DEF EndOfCallback
  <2>2. keyLost => keyLost'
    <3>1. CASE keyLost' = (keyLost \/ pin # sample)
      BY <3>1
    <3>2. CASE UNCHANGED keyLost
      BY <3>2
    <3> QED
      BY <1>3, <3>1, <3>2 DEF EndOfCallback
  <2> QED
    BY <2>1, <2>2
<1>4. CASE KeyTimer
  <2>1. IsRunning(longTimer)
    BY <1>4, KeyAssumption DEF KeyTimer, IsRunning, Off
  <2>2. UNCHANGED <<gap, keyLost>>
    BY <1>4 DEF KeyTimer
  <2> QED
    BY <2>1, <2>2 DEF Pressing
<1> QED
  BY <1>1, <1>2, <1>3, <1>4 DEF KeyNext

-----------------------------------------------------------------------------
LEMMA KeyStarts ==
  ASSUME KeyInit
  PROVE  KeyIInv
<1> USE DEF KeyInit
<1>1. KeyFlags
  BY DEF KeyFlags
<1>2. KeyTimers /\ KeyCounts
  BY KeyAssumption DEF KeyTimers, KeyCounts, Off
<1>3. KeyReady /\ InStep /\ Sampling /\ UpSince /\ Pressing /\ ResetMeansHeld
  BY DEF KeyReady, InStep, Sampling, UpSince, Pressing, ResetMeansHeld, IsRunning, HeldDown
<1>4. Counted /\ LongPress
  BY KeyAssumption DEF Counted, LongPress, HeldDown
<1> QED
  BY <1>1, <1>2, <1>3, <1>4, KeyTypesAre DEF KeyIInv

LEMMA KeyStep ==
  ASSUME KeyIInv, [KeyNext]_keyVars
  PROVE  KeyIInv'
<1>1. KeyFlags' /\ KeyTimers' /\ KeyCounts'
  BY KeyTypesAre, KeyFlagsKept, KeyTimersKept, KeyCountsKept DEF KeyIInv
<1>2. KeyReady' /\ InStep' /\ Sampling'
  BY KeyTypesAre, InterruptKept DEF KeyIInv
<1>3. KeyTypes'
  BY <1>1, <1>2 DEF KeyTypes, KeyFlags, KeyTimers, KeyCounts, KeyReady
<1>4. UpSince' /\ Pressing' /\ Counted' /\ LongPress' /\ ResetMeansHeld'
  BY KeyTypesAre, UpSinceKept, PressingKept, CountedKept, LongPressKept, ResetKept
     DEF KeyIInv
<1> QED
  BY <1>2, <1>3, <1>4 DEF KeyIInv

LEMMA KeySteps == KeySpec => []KeyIInv
<1>1. KeyInit => KeyIInv
  BY KeyStarts
<1>2. KeyIInv /\ [KeyNext]_keyVars => KeyIInv'
  BY KeyStep
<1> QED
  BY <1>1, <1>2, PTL DEF KeySpec

(* However the contact bounces and the timers fall, a press toggles the    *)
(* switch once at most, what the device takes the key for is the key, and  *)
(* a factory reset was asked for by a key held all the time                *)
(* (irqDebounceTimerCallback, deviceKeyTimerCallback).                     *)
THEOREM KeyCorrect == KeySpec => []KeyInv
<1>1. KeyIInv => KeyInv
  <2>1. KeyIInv => OneToggle
    BY DEF KeyIInv, Counted, OneToggle
  <2> QED
    BY <2>1 DEF KeyIInv, KeyInv
<1> QED
  BY <1>1, KeySteps, PTL

(* A key held until after the long-press timer expired does not toggle the *)
(* switch when it is released (irqDebounceTimerCallback's g_bLongPress).   *)
THEOREM LongPressesToggleNothing == KeySpec => LongTogglesNothing
<1>1. KeyIInv /\ [KeyNext]_keyVars => [toggles' # toggles => held <= Long]_keyVars
  <2> SUFFICES ASSUME KeyIInv, KeyNext, toggles' # toggles
               PROVE  held <= Long
    BY DEF keyVars
  <2>1. KeyFlags /\ KeyTimers
    BY KeyTypesAre DEF KeyIInv
  <2>2. Sample /\ Changed /\ ~pin /\ ~long
    BY DEF KeyNext, Edge, Tick, Sample, EndOfCallback, KeyTimer, Press, Release
  <2>3. HeldDown
    BY <2>1, <2>2 DEF Sample, Changed, HeldDown, KeyFlags
  <2>4. held # Long + 1
    BY <2>2, <2>3 DEF KeyIInv, LongPress
  <2> QED
    BY <2>1, <2>4, KeyAssumption DEF KeyTimers
<1> QED
  BY <1>1, KeySteps, PTL DEF KeySpec, LongTogglesNothing
-----------------------------------------------------------------------------
(***************************************************************************)
CallSteps == {"pin", "coil 2", "coil 1", "timer", "led", "report"}

(* The relay is being driven to a, or was driven there.                    *)
Driven(a) ==
    \/ coilOpen = a /\ coilClose = ~a /\ coilTimer <= CoilTime
       /\ (coilTimer < CoilTime => latch = a)
    \/ coilTimer = NoCoilTimer /\ ~coilOpen /\ (coilClose => releasing) /\ latch = a

(* A coil that no timer will release is one that a call has just set.      *)
CoilsHeld ==
    coilTimer = NoCoilTimer /\ (coilOpen \/ (coilClose /\ ~releasing)) =>
        \E t \in Switcher: swPc[t] \in {"coil 1", "timer"}

(* The callback keeps the timer thread.                                    *)
TimerKept == releasing => Outside("timer")

(* While a call runs that nothing met, no other runs.                      *)
Lone == \A t, u \in Switcher: t # u /\ alone[t] /\ ~Outside(t) => Outside(u)

(* Without a meeting every call is such a one, and the last report was     *)
(* that of the pin it found.                                               *)
SingleCall ==
    ~mixed => \A t \in Switcher: ~Outside(t) => alone[t] /\ (told <=> before[t])

(* What a call that nothing met has done at each of its steps.             *)
ReachedBy(t) ==
    /\ swPc[t] \in CallSteps \ {"pin"} => (relayPin <=> action[t])
    /\ swPc[t] \in {"coil 1", "timer"} => (coilOpen <=> action[t])
    /\ swPc[t] = "timer" => (coilClose <=> ~action[t])
    /\ swPc[t] \in {"led", "report"} => Driven(action[t])
    /\ swPc[t] = "report" => (relayLed <=> action[t])
Reached == \A t \in Switcher: alone[t] => ReachedBy(t)

(* Between calls, unless something met, everything is as the pin says.     *)
Rests ==
    ~mixed /\ (\A t \in Switcher: Outside(t)) =>
        (relayLed <=> relayPin) /\ (told <=> relayPin) /\ Driven(relayPin)

RelayIInv == RelayTypes /\ CoilsHeld /\ TimerKept /\ Lone /\ SingleCall /\ Reached /\ Rests
-----------------------------------------------------------------------------
(* The types, one variable at a time.                                      *)
RelayCounts == coilTimer \in 0 .. NoCoilTimer /\ switched \in 0 .. MaxSwitched
RelayTyped ==
    /\ RelayCounts
    /\ relayPin \in BOOLEAN /\ coilOpen \in BOOLEAN /\ coilClose \in BOOLEAN
    /\ relayLed \in BOOLEAN /\ latch \in BOOLEAN /\ told \in BOOLEAN /\ mixed \in BOOLEAN
    /\ releasing \in BOOLEAN
    /\ swPc \in [Switcher -> CallSteps \cup {"out"}]
    /\ action \in [Switcher -> BOOLEAN] /\ alone \in [Switcher -> BOOLEAN]
    /\ before \in [Switcher -> BOOLEAN]

LEMMA RelayTypesAre == RelayTypes <=> RelayTyped
  BY DEF RelayTypes, RelayTyped, RelayCounts, CallSteps

(* Every step keeps the types.                                             *)
LEMMA RelayCountsKept ==
  ASSUME RelayCounts, [RelayNext]_relayVars
  PROVE  RelayCounts'
<1> USE RelayAssumption DEF RelayCounts, NoCoilTimer
<1>1. CASE UNCHANGED relayVars
  BY <1>1 DEF relayVars, calls
<1>2. ASSUME NEW t \in Switcher, SetSwitchStatus(t)
      PROVE  RelayCounts'
  <2>1. switched' = switched \/ (switched < MaxSwitched /\ switched' = switched + 1)
    BY <1>2 DEF SetSwitchStatus, Enter, SetPin, SetCoil2, SetCoil1, StartCoilTimer,
                SetRelayLed, Report, calls
  <2>2. coilTimer' = coilTimer \/ coilTimer' = CoilTime
    BY <1>2 DEF SetSwitchStatus, Enter, SetPin, SetCoil2, SetCoil1, StartCoilTimer,
                SetRelayLed, Report
  <2> QED
    BY <2>1, <2>2
<1>3. CASE ReleaseCoil2 \/ ReleaseCoil1
  <2>1. coilTimer' \in {coilTimer, CoilTime + 1} /\ switched' = switched
    BY <1>3 DEF ReleaseCoil2, ReleaseCoil1
  <2> QED
    BY <2>1
<1>4. CASE CoilTick
  <2>1. coilTimer \in 1 .. CoilTime /\ coilTimer' = coilTimer - 1 /\ switched' = switched
    BY <1>4 DEF CoilTick, calls
  <2> QED
    BY <2>1
<1> QED
  BY <1>1, <1>2, <1>3, <1>4 DEF RelayNext

LEMMA RelayTypesKept ==
  ASSUME RelayTyped, [RelayNext]_relayVars
  PROVE  RelayTyped'
<1>0. RelayCounts'
  BY RelayCountsKept DEF RelayTyped
<1> USE <1>0 DEF RelayTyped, Switcher, CallSteps
<1>1. CASE UNCHANGED relayVars
  BY <1>1 DEF relayVars, coils, calls, meetings
<1>2. ASSUME NEW t \in Switcher, Enter(t)
      PROVE  RelayTyped'
  <2>1. action' \in [Switcher -> BOOLEAN] /\ before' \in [Switcher -> BOOLEAN]
    BY <1>2 DEF Enter
  <2>2. alone' \in [Switcher -> BOOLEAN]
    BY <1>2 DEF Enter, Lonely, Outside
  <2>3. mixed' \in BOOLEAN
    BY <1>2 DEF Enter, Lonely
  <2>4. swPc' \in [Switcher -> CallSteps \cup {"out"}]
    BY <1>2 DEF Enter, On
  <2> QED
    BY <1>2, <2>1, <2>2, <2>3, <2>4 DEF Enter, coils
<1>3. ASSUME NEW t \in Switcher, SetPin(t) \/ SetCoil2(t) \/ SetCoil1(t)
      PROVE  RelayTyped'
  <2>1. swPc' \in [Switcher -> CallSteps \cup {"out"}]
    BY <1>3 DEF SetPin, SetCoil2, SetCoil1, On
  <2>2. CASE SetPin(t)
    BY <2>1, <2>2 DEF SetPin, coils, calls, meetings
  <2>3. CASE SetCoil2(t)
    BY <2>1, <2>3 DEF SetCoil2, calls, meetings
  <2>4. CASE SetCoil1(t)
    BY <2>1, <2>4 DEF SetCoil1, calls, meetings
  <2> QED
    BY <1>3, <2>2, <2>3, <2>4
<1>4. ASSUME NEW t \in Switcher, StartCoilTimer(t) \/ SetRelayLed(t)
      PROVE  RelayTyped'
  <2>1. swPc' \in [Switcher -> CallSteps \cup {"out"}]
    BY <1>4 DEF StartCoilTimer, SetRelayLed, On
  <2>2. CASE StartCoilTimer(t)
    BY <2>1, <2>2 DEF StartCoilTimer, coils, calls, meetings
  <2>3. CASE SetRelayLed(t)
    BY <2>1, <2>3 DEF SetRelayLed, coils, calls, meetings
  <2> QED
    BY <1>4, <2>2, <2>3
<1>5. ASSUME NEW t \in Switcher, Report(t)
      PROVE  RelayTyped'
  <2>1. told' \in BOOLEAN
    BY <1>5 DEF Report
  <2>2. mixed' \in BOOLEAN
    BY <1>5 DEF Report
  <2>3. swPc' \in [Switcher -> CallSteps \cup {"out"}]
    BY <1>5 DEF Report, On
  <2> QED
    BY <1>5, <2>1, <2>2, <2>3 DEF Report, coils, calls
<1>6. CASE ReleaseCoil2 \/ ReleaseCoil1
  <2>1. alone' \in [Switcher -> BOOLEAN]
    BY <1>6 DEF ReleaseCoil2, ReleaseCoil1, MeetsIf
  <2>2. mixed' \in BOOLEAN
    BY <1>6 DEF ReleaseCoil2, ReleaseCoil1, MeetsIf
  <2>3. coilOpen' \in BOOLEAN /\ coilClose' \in BOOLEAN /\ releasing' \in BOOLEAN
    BY <1>6 DEF ReleaseCoil2, ReleaseCoil1
  <2> QED
    BY <1>6, <2>1, <2>2, <2>3 DEF ReleaseCoil2, ReleaseCoil1
<1>7. CASE CoilTick
  <2>1. latch' \in BOOLEAN
    BY <1>7, Zenon DEF CoilTick
  <2> QED
    BY <1>7, <2>1 DEF CoilTick, coils, calls, meetings
<1> QED
  BY <1>1, <1>2, <1>3, <1>4, <1>5, <1>6, <1>7 DEF RelayNext, SetSwitchStatus

(* A timer that starts or runs is not stopped.                             *)
LEMMA TimerRuns ==
  ASSUME CoilTick \/ \E t \in Switcher: StartCoilTimer(t)
  PROVE  coilTimer' # NoCoilTimer
  BY RelayAssumption DEF StartCoilTimer, CoilTick, NoCoilTimer

(* A coil that is set goes on to the timer that will release it.           *)
LEMMA CoilsHeldKept ==
  ASSUME RelayTyped, CoilsHeld, [RelayNext]_relayVars
  PROVE  CoilsHeld'
<1> USE DEF CoilsHeld, RelayTyped, CallSteps
<1>1. CASE UNCHANGED relayVars
  BY <1>1 DEF relayVars
<1>2. ASSUME NEW t \in Switcher, SetSwitchStatus(t)
      PROVE  CoilsHeld'
  <2>1. CASE Enter(t) \/ SetPin(t) \/ SetRelayLed(t) \/ Report(t)
    <3>1. /\ UNCHANGED <<coilTimer, coilOpen, coilClose, releasing>>
          /\ swPc[t] \notin {"coil 1", "timer"}
          /\ \A u \in Switcher \ {t}: swPc'[u] = swPc[u]
      BY <2>1 DEF Enter, SetPin, SetRelayLed, Report, On, Outside, coils, calls
    <3> QED
      BY <3>1
  <2>2. CASE SetCoil2(t) \/ SetCoil1(t)
    BY <2>2 DEF SetCoil2, SetCoil1, On
  <2>3. CASE StartCoilTimer(t)
    BY <2>3, TimerRuns
  <2> QED
    BY <1>2, <2>1, <2>2, <2>3 DEF SetSwitchStatus
<1>3. CASE ReleaseCoil2
  BY <1>3 DEF ReleaseCoil2
<1>4. CASE CoilTick
  BY <1>4, TimerRuns
<1>5. CASE ReleaseCoil1
  BY <1>5 DEF ReleaseCoil1
<1> QED
  BY <1>1, <1>2, <1>3, <1>4, <1>5 DEF RelayNext

(* While the coils are released the timer thread calls nothing.            *)
LEMMA TimerKeptKept ==
  ASSUME RelayTyped, TimerKept, [RelayNext]_relayVars
  PROVE  TimerKept'
<1> USE DEF TimerKept, RelayTyped, Outside
<1>1. CASE UNCHANGED relayVars
  BY <1>1 DEF relayVars
<1>2. ASSUME NEW t \in Switcher, SetSwitchStatus(t)
      PROVE  TimerKept'
  <2>1. releasing' = releasing /\ \A u \in Switcher \ {t}: swPc'[u] = swPc[u]
    BY <1>2 DEF SetSwitchStatus, Enter, SetPin, SetCoil2, SetCoil1, StartCoilTimer,
                SetRelayLed, Report, On, calls
  <2>2. t = "timer" => ~releasing
    BY <1>2 DEF SetSwitchStatus, Enter, SetPin, SetCoil2, SetCoil1, StartCoilTimer,
                SetRelayLed, Report
  <2> QED
    BY <2>1, <2>2 DEF Switcher
<1>3. CASE ReleaseCoil2 \/ ReleaseCoil1
  BY <1>3 DEF ReleaseCoil2, ReleaseCoil1
<1>4. CASE CoilTick
  BY <1>4 DEF CoilTick, calls
<1> QED
  BY <1>1, <1>2, <1>3, <1>4 DEF RelayNext

(* A call under way that nothing met has the relay to itself.              *)
LEMMA LoneKept ==
  ASSUME RelayTyped, Lone, [RelayNext]_relayVars
  PROVE  Lone'
<1> USE DEF Lone, RelayTyped, CallSteps, Outside
<1>1. CASE UNCHANGED relayVars
  BY <1>1 DEF relayVars
<1>2. ASSUME NEW t \in Switcher, Enter(t)
      PROVE  Lone'
  BY <1>2 DEF Enter, On, Lonely
<1>3. ASSUME NEW t \in Switcher, SetSwitchStatus(t), ~Enter(t)
      PROVE  Lone'
  <2>1. /\ alone' = alone /\ swPc[t] # "out"
        /\ \A u \in Switcher \ {t}: swPc'[u] = swPc[u]
    BY <1>3 DEF SetSwitchStatus, SetPin, SetCoil2, SetCoil1, StartCoilTimer, SetRelayLed,
                Report, On, meetings
  <2> QED
    BY <2>1
<1>4. CASE ReleaseCoil2 \/ ReleaseCoil1
  <2>1. swPc' = swPc /\ \A t \in Switcher: alone'[t] => alone[t]
    BY <1>4 DEF ReleaseCoil2, ReleaseCoil1, MeetsIf
  <2> QED
    BY <2>1
<1>5. CASE CoilTick
  BY <1>5 DEF CoilTick, meetings
<1> QED
  BY <1>1, <1>2, <1>3, <1>4, <1>5 DEF RelayNext

(* Without a meeting a call is one that nothing met, and the report it     *)
(* compares with is the last.                                              *)
LEMMA SingleCallKept ==
  ASSUME RelayTyped, Lone, SingleCall, Rests, [RelayNext]_relayVars
  PROVE  SingleCall'
<1> USE DEF SingleCall, Outside
<1>1. CASE UNCHANGED relayVars
  BY <1>1 DEF relayVars
<1>2. ASSUME NEW t \in Switcher, Enter(t), ~mixed'
      PROVE  SingleCall'
  <2>1. Lonely(t) /\ ~mixed /\ told' = told
    BY <1>2 DEF Enter
  <2>2. told <=> relayPin
    BY <1>2, <2>1 DEF Rests, Enter, Lonely
  <2>3. alone'[t] /\ (before'[t] <=> relayPin)
    BY <1>2, <2>1 DEF Enter, RelayTyped
  <2>4. \A u \in Switcher \ {t}: swPc'[u] = "out"
    BY <1>2, <2>1 DEF Enter, On, RelayTyped, Lonely
  <2> QED
    BY <2>1, <2>2, <2>3, <2>4
<1>3. ASSUME NEW t \in Switcher,
             SetPin(t) \/ SetCoil2(t) \/ SetCoil1(t) \/ StartCoilTimer(t) \/ SetRelayLed(t)
      PROVE  SingleCall'
  <2>1. /\ UNCHANGED <<alone, mixed, told, before>> /\ swPc[t] # "out"
        /\ \A u \in Switcher \ {t}: swPc'[u] = swPc[u]
    BY <1>3 DEF SetPin, SetCoil2, SetCoil1, StartCoilTimer, SetRelayLed, On, calls,
                meetings, RelayTyped
  <2> QED
    BY <2>1
<1>4. ASSUME NEW t \in Switcher, Report(t), ~mixed'
      PROVE  SingleCall'
  <2>1. alone[t] /\ swPc[t] # "out"
    BY <1>4 DEF Report
  <2>2. \A u \in Switcher: swPc'[u] = "out"
    BY <1>4, <2>1 DEF Report, On, RelayTyped, Lone
  <2> QED
    BY <2>2
<1>5. CASE ReleaseCoil2 \/ ReleaseCoil1
  <2>1. UNCHANGED <<swPc, told, before>>
    BY <1>5 DEF ReleaseCoil2, ReleaseCoil1
  <2>2. ~mixed' => ~mixed /\ \A t \in Switcher: alone[t] => alone'[t]
    BY <1>5 DEF ReleaseCoil2, ReleaseCoil1, MeetsIf, RelayTyped
  <2> QED
    BY <2>1, <2>2
<1>6. CASE CoilTick
  BY <1>6 DEF CoilTick, calls, meetings
<1> QED
  BY <1>1, <1>2, <1>3, <1>4, <1>5, <1>6 DEF RelayNext, SetSwitchStatus

(* A relay that is driven to a stays so: time takes it there, and the      *)
(* coils are released only then.                                           *)
LEMMA DrivenKept ==
  ASSUME NEW a \in BOOLEAN, Driven(a),
         CoilTick \/ ReleaseCoil2 \/ (ReleaseCoil1 /\ coilTimer = NoCoilTimer)
  PROVE  Driven(a)'
<1> USE RelayAssumption DEF Driven
<1>1. CASE CoilTick
  <2>1. /\ coilTimer \in 1 .. CoilTime /\ coilTimer' = coilTimer - 1
        /\ UNCHANGED <<coilOpen, coilClose>>
    BY <1>1 DEF CoilTick, coils
  <2>2. coilTimer # NoCoilTimer /\ coilTimer' <= CoilTime
    BY <2>1 DEF NoCoilTimer
  <2>3. coilOpen = a /\ coilClose = ~a
    BY <2>2
  <2>4. latch' = a
    BY <1>1, <2>3 DEF CoilTick
  <2> QED
    BY <2>1, <2>2, <2>3, <2>4
<1>2. CASE ReleaseCoil2
  <2>1. coilTimer = 0 /\ coilTimer' = NoCoilTimer /\ latch' = latch
    BY <1>2 DEF ReleaseCoil2
  <2>2. coilTimer # NoCoilTimer /\ coilTimer < CoilTime
    BY <2>1 DEF NoCoilTimer
  <2>3. latch = a
    BY <2>2
  <2>4. coilOpen' = FALSE /\ releasing' = TRUE
    BY <1>2 DEF ReleaseCoil2
  <2> QED
    BY <2>1, <2>3, <2>4
<1>3. CASE ReleaseCoil1 /\ coilTimer = NoCoilTimer
  <2>1. coilTimer' = NoCoilTimer /\ latch' = latch /\ coilOpen' = coilOpen
    BY <1>3 DEF ReleaseCoil1
  <2>2. ~(coilTimer <= CoilTime)
    BY <1>3 DEF NoCoilTimer
  <2>3. latch = a /\ ~coilOpen
    BY <2>2
  <2>4. coilClose' = FALSE
    BY <1>3 DEF ReleaseCoil1
  <2> QED
    BY <2>1, <2>3, <2>4
<1> QED
  BY <1>1, <1>2, <1>3

(* A started timer finds both coils set for a: the relay is driven to a.   *)
LEMMA DrivenStarts ==
  ASSUME NEW t \in Switcher, NEW a \in BOOLEAN, StartCoilTimer(t),
         coilOpen = a, coilClose = ~a
  PROVE  Driven(a)'
<1>1. coilTimer' = CoilTime /\ UNCHANGED <<coilOpen, coilClose>>
  BY DEF StartCoilTimer, coils
<1>2. coilTimer' <= CoilTime /\ ~(coilTimer' < CoilTime)
  BY <1>1, RelayAssumption
<1> QED
  BY <1>1, <1>2 DEF Driven

(* The same of an action and of the pin, which a step does not change.     *)
LEMMA DrivenStays ==
  ASSUME CoilTick \/ ReleaseCoil2 \/ (ReleaseCoil1 /\ coilTimer = NoCoilTimer)
  PROVE  /\ \A u \in Switcher:
               action[u] \in BOOLEAN /\ action'[u] = action[u] /\ Driven(action[u])
               => Driven(action[u])'
         /\ relayPin \in BOOLEAN /\ relayPin' = relayPin /\ Driven(relayPin)
            => Driven(relayPin)'
<1>1. \A a \in BOOLEAN: Driven(a) => Driven(a)'
  BY DrivenKept
<1>2. ASSUME NEW u \in Switcher, action[u] \in BOOLEAN, action'[u] = action[u],
             Driven(action[u])
      PROVE  Driven(action[u])'
  BY <1>1, <1>2 DEF Driven
<1>3. ASSUME relayPin \in BOOLEAN, relayPin' = relayPin, Driven(relayPin)
      PROVE  Driven(relayPin)'
  BY <1>1, <1>3 DEF Driven
<1> QED
  BY <1>2, <1>3

(* Each step of a call that nothing met finds what the last one left.      *)
LEMMA ReachedKept ==
  ASSUME RelayTyped, TimerKept, Lone, Reached, [RelayNext]_relayVars
  PROVE  Reached'
<1> SUFFICES ASSUME NEW u \in Switcher, alone'[u]
             PROVE  ReachedBy(u)'
  BY DEF Reached
<1> USE DEF CallSteps
<1>1. CASE UNCHANGED relayVars
  BY <1>1 DEF relayVars, Reached, ReachedBy, Driven
<1>2. ASSUME NEW t \in Switcher, Enter(t)
      PROVE  ReachedBy(u)'
  <2>1. u = t
    BY <1>2 DEF Enter
  <2>2. swPc'[u] = "pin"
    BY <1>2, <2>1 DEF Enter, On, RelayTyped
  <2> QED
    BY <2>2 DEF ReachedBy
<1>3. ASSUME NEW t \in Switcher, SetSwitchStatus(t), ~Enter(t)
      PROVE  ReachedBy(u)'
  <2>1. /\ alone' = alone /\ action' = action /\ swPc[t] # "out"
        /\ \A v \in Switcher \ {t}: swPc'[v] = swPc[v]
    BY <1>3 DEF SetSwitchStatus, SetPin, SetCoil2, SetCoil1, StartCoilTimer, SetRelayLed,
                Report, On, calls, meetings, RelayTyped
  <2>2. CASE u # t
    <3>1. swPc'[u] = "out"
      BY <2>1, <2>2 DEF Lone, Outside
    <3> QED
      BY <3>1 DEF ReachedBy
  <2>3. CASE u = t
    <3>1. ReachedBy(t) /\ action[t] \in BOOLEAN /\ action'[t] = action[t]
      BY <2>1, <2>3 DEF Reached, RelayTyped
    <3>2. CASE SetPin(t)
      <4>1. relayPin' = action[t] /\ swPc'[t] = "coil 2"
        BY <3>2 DEF SetPin, On, RelayTyped
      <4> QED
        BY <2>3, <3>1, <4>1 DEF ReachedBy
    <3>3. CASE SetCoil2(t)
      <4>1. relayPin' = relayPin /\ coilOpen' = action[t] /\ swPc'[t] = "coil 1"
            /\ swPc[t] = "coil 2"
        BY <3>3 DEF SetCoil2, On, RelayTyped
      <4> QED
        BY <2>3, <3>1, <4>1 DEF ReachedBy
    <3>4. CASE SetCoil1(t)
      <4>1. /\ relayPin' = relayPin /\ coilOpen' = coilOpen /\ coilClose' = ~action[t]
            /\ swPc'[t] = "timer" /\ swPc[t] = "coil 1"
        BY <3>4 DEF SetCoil1, On, RelayTyped
      <4> QED
        BY <2>3, <3>1, <4>1 DEF ReachedBy
    <3>5. CASE StartCoilTimer(t)
      <4>1. relayPin' = relayPin /\ swPc'[t] = "led" /\ swPc[t] = "timer"
        BY <3>5 DEF StartCoilTimer, On, RelayTyped
      <4>2. coilOpen = action[t] /\ coilClose = ~action[t]
        BY <3>1, <4>1 DEF ReachedBy, RelayTyped
      <4>3. \A a \in BOOLEAN: a = action[t] => Driven(a)'
        BY <3>5, <4>2, DrivenStarts
      <4>4. Driven(action[t])'
        BY <3>1, <4>3 DEF Driven
      <4> QED
        BY <2>3, <3>1, <4>1, <4>4 DEF ReachedBy
    <3>6. CASE SetRelayLed(t)
      <4>1. /\ relayPin' = relayPin /\ relayLed' = action[t]
            /\ UNCHANGED <<coilOpen, coilClose, coilTimer, latch, releasing>>
            /\ swPc'[t] = "report" /\ swPc[t] = "led"
        BY <3>6 DEF SetRelayLed, On, RelayTyped, coils, calls
      <4> QED
        BY <2>3, <3>1, <4>1 DEF ReachedBy, Driven
    <3>7. CASE Report(t)
      <4>1. swPc'[t] = "out"
        BY <3>7 DEF Report, On, RelayTyped
      <4> QED
        BY <2>3, <4>1 DEF ReachedBy
    <3> QED
      BY <1>3, <3>2, <3>3, <3>4, <3>5, <3>6, <3>7 DEF SetSwitchStatus
  <2> QED
    BY <2>2, <2>3
<1>4. CASE ReleaseCoil2 \/ ReleaseCoil1 \/ CoilTick
  <2>1. alone[u] /\ UNCHANGED <<swPc, action, relayPin, relayLed>>
    BY <1>4
       DEF ReleaseCoil2, ReleaseCoil1, MeetsIf, CoilTick, calls, meetings, RelayTyped
  <2>2. ReachedBy(u) /\ action[u] \in BOOLEAN /\ action'[u] = action[u]
    BY <2>1 DEF Reached, RelayTyped
  <2>3. CASE CoilTick
    <3>1. coilOpen' = coilOpen /\ coilClose' = coilClose
      BY <2>3 DEF CoilTick, coils
    <3>2. Driven(action[u]) => Driven(action[u])'
      BY <2>1, <2>2, <2>3, DrivenStays
    <3> QED
      BY <2>1, <2>2, <3>1, <3>2 DEF ReachedBy
  <2>4. CASE ReleaseCoil2
    <3>1. swPc[u] \notin {"coil 1", "timer"}
      BY <1>4, <2>1, <2>4 DEF ReleaseCoil2, MeetsIf, RelayTyped, Outside, Switcher
    <3>2. Driven(action[u]) => Driven(action[u])'
      BY <2>1, <2>2, <2>4, DrivenStays
    <3> QED
      BY <2>1, <2>2, <3>1, <3>2 DEF ReachedBy
  <2>5. CASE ReleaseCoil1
    <3>1. CASE u = "timer"
      <4>1. swPc'[u] = "out"
        BY <2>1, <2>5, <3>1 DEF ReleaseCoil1, TimerKept, Outside
      <4> QED
        BY <4>1 DEF ReachedBy
    <3>2. CASE u = "message"
      <4>1. swPc[u] # "timer" /\ coilTimer = NoCoilTimer /\ coilOpen' = coilOpen
        BY <2>5, <3>2 DEF ReleaseCoil1, MeetsIf, RelayTyped
      <4>2. Driven(action[u]) => Driven(action[u])'
        BY <2>1, <2>2, <2>5, <4>1, DrivenStays
      <4> QED
        BY <2>1, <2>2, <4>1, <4>2 DEF ReachedBy
    <3> QED
      BY <3>1, <3>2 DEF Switcher
  <2> QED
    BY <1>4, <2>3, <2>4, <2>5
<1> QED
  BY <1>1, <1>2, <1>3, <1>4 DEF RelayNext

(* A call that nothing met, when it is over, leaves everything as the pin. *)
LEMMA ReportRests ==
  ASSUME RelayTyped, SingleCall, Reached, NEW t \in Switcher, Report(t), ~mixed'
  PROVE  (relayLed <=> relayPin)' /\ (told <=> relayPin)' /\ Driven(relayPin)'
<1>1. /\ swPc[t] = "report" /\ UNCHANGED <<relayPin, relayLed, coilOpen, coilClose>>
      /\ UNCHANGED <<latch, coilTimer, releasing>>
  BY DEF Report, coils, calls
<1>2. alone[t]
  BY <1>1 DEF Report, SingleCall, Outside
<1>3. (relayPin <=> action[t]) /\ Driven(action[t]) /\ (relayLed <=> action[t])
  BY <1>1, <1>2 DEF Reached, ReachedBy, CallSteps
<1>4. relayPin = action[t]
  BY <1>3, Zenon DEF RelayTyped
<1>5. Driven(relayPin)
  BY <1>3, <1>4, Zenon
<1>6. told' <=> action[t]
  <2>1. CASE action[t] # before[t]
    BY <2>1 DEF Report
  <2>2. CASE action[t] = before[t]
    <3>1. ~mixed /\ told' = told
      BY <2>2 DEF Report
    <3> QED
      BY <1>1, <2>2, <3>1 DEF SingleCall, Outside
  <2> QED
    BY <2>1, <2>2
<1> QED
  BY <1>1, <1>3, <1>5, <1>6 DEF Driven

LEMMA RestsKept ==
  ASSUME RelayTyped, SingleCall, Reached, Rests, [RelayNext]_relayVars
  PROVE  Rests'
<1> SUFFICES ASSUME ~mixed', \A t \in Switcher: swPc'[t] = "out"
             PROVE  (relayLed <=> relayPin)' /\ (told <=> relayPin)' /\ Driven(relayPin)'
  BY DEF Rests, Outside
<1>1. CASE UNCHANGED relayVars
  BY <1>1 DEF relayVars, Rests, Outside, Driven
<1>2. ASSUME NEW t \in Switcher, SetSwitchStatus(t), ~Report(t)
      PROVE  FALSE
  BY <1>2 DEF SetSwitchStatus, Enter, SetPin, SetCoil2, SetCoil1, StartCoilTimer,
              SetRelayLed, On, RelayTyped
<1>3. ASSUME NEW t \in Switcher, Report(t)
      PROVE  (relayLed <=> relayPin)' /\ (told <=> relayPin)' /\ Driven(relayPin)'
  BY <1>3, ReportRests
<1>4. CASE ReleaseCoil2 \/ ReleaseCoil1 \/ CoilTick
  <2>1. UNCHANGED <<swPc, relayPin, relayLed, told>> /\ ~mixed
    <3>1. CASE ReleaseCoil2 \/ ReleaseCoil1
      BY <3>1 DEF ReleaseCoil2, ReleaseCoil1, MeetsIf
    <3>2. CASE CoilTick
      BY <3>2 DEF CoilTick, meetings
    <3> QED
      BY <1>4, <3>1, <3>2
  <2>2. (relayLed <=> relayPin) /\ (told <=> relayPin) /\ Driven(relayPin)
    BY <2>1 DEF Rests, Outside
  <2>3. ReleaseCoil1 => coilTimer = NoCoilTimer
    BY DEF ReleaseCoil1, MeetsIf
  <2>4. Driven(relayPin)'
    BY <1>4, <2>1, <2>2, <2>3, DrivenStays DEF RelayTyped
  <2> QED
    BY <2>1, <2>2, <2>4
<1> QED
  BY <1>1, <1>2, <1>3, <1>4 DEF RelayNext

-----------------------------------------------------------------------------
LEMMA RelayStarts ==
  ASSUME RelayInit
  PROVE  RelayIInv
<1> USE DEF RelayInit
<1>1. RelayTyped
  <2>1. RelayCounts
    BY RelayAssumption DEF RelayCounts, NoCoilTimer
  <2> QED
    BY <2>1 DEF RelayTyped, CallSteps, Switcher
<1>2. CoilsHeld /\ TimerKept
  BY DEF CoilsHeld, TimerKept
<1>3. Lone /\ SingleCall
  BY DEF Lone, SingleCall, Outside, Switcher
<1>4. Reached /\ Rests
  BY DEF Reached, ReachedBy, Rests, Outside, Switcher, CallSteps
<1> QED
  BY <1>1, <1>2, <1>3, <1>4, RelayTypesAre DEF RelayIInv

LEMMA RelayStep ==
  ASSUME RelayIInv, [RelayNext]_relayVars
  PROVE  RelayIInv'
<1>1. RelayTyped'
  BY RelayTypesAre, RelayTypesKept DEF RelayIInv
<1>2. RelayTypes'
  BY <1>1 DEF RelayTyped, RelayCounts, RelayTypes, CallSteps
<1> QED
  BY <1>2, RelayTypesAre, CoilsHeldKept, TimerKeptKept, LoneKept, SingleCallKept,
     ReachedKept, RestsKept DEF RelayIInv

(* At rest with the timer stopped no call holds a coil, and a relay that   *)
(* was driven is there.                                                    *)
LEMMA RelayFollows ==
  ASSUME RelayIInv
  PROVE  RelayInv
<1>1. ASSUME \A t \in Switcher: Outside(t), coilTimer = NoCoilTimer, ~releasing
      PROVE  ~coilOpen /\ ~coilClose
  BY <1>1 DEF RelayIInv, CoilsHeld, Outside
<1>2. ASSUME \A t \in Switcher: Outside(t), coilTimer = NoCoilTimer, ~releasing, ~mixed
      PROVE  latch = relayPin /\ relayLed = relayPin /\ told = relayPin
  <2>1. (relayLed <=> relayPin) /\ (told <=> relayPin) /\ Driven(relayPin) /\ RelayTyped
    BY <1>2, RelayTypesAre DEF RelayIInv, Rests
  <2>2. latch <=> relayPin
    BY <1>1, <1>2, <2>1 DEF Driven, RelayTyped
  <2> QED
    BY <2>1, <2>2, Zenon DEF RelayTyped
<1> QED
  BY <1>1, <1>2 DEF RelayIInv, RelayInv, RelayAgrees

(* Whatever the two threads switch and however their calls meet, neither   *)
(* coil stays energised, and unless calls met, the relay, the pin, the LED *)
(* and the last report agree (setSwitchStatus and                          *)
(* specialRelayTimerCallback in deviceGpio.c).                             *)
THEOREM RelayCorrect == RelaySpec => []RelayInv
<1>1. RelayInit => RelayIInv
  BY RelayStarts
<1>2. RelayIInv /\ [RelayNext]_relayVars => RelayIInv'
  BY RelayStep
<1>3. RelayIInv => RelayInv
  BY RelayFollows
<1> QED
  BY <1>1, <1>2, <1>3, PTL DEF RelaySpec
-----------------------------------------------------------------------------
(***************************************************************************)
BroughtUp   == {"set dhcp", "stop timer", "led off"}
TakenDown == {"clear dhcp", "read again", "clear conn", "toggle", "rearm"}
(* The network that the Wi-Fi thread was told of last.                     *)
ToldWifi == wifi <=> wifiTold

(* The event under way was about that network.                             *)
Heard ==
    /\ wifiPc["wifi"] \in BroughtUp => ToldWifi
    /\ wifiPc["wifi"] \in TakenDown => ~ToldWifi

(* The bit is what the event has written, unless a write was lost.        *)
DhcpIs ==
    ~byteLost =>
        /\ wifiPc["wifi"] = "idle" => (byte.dhcp <=> ToldWifi)
        /\ wifiPc["wifi"] \in {"stop timer", "led off"} => byte.dhcp
        /\ wifiPc["wifi"] \in {"read again", "clear conn", "toggle", "rearm"} => ~byte.dhcp

(* The LED's timer runs, or its callback is about to set it again.         *)
Ticking == ledTimer \/ Calling("timer")

(* A timer that the Wi-Fi thread has stopped stays stopped, and the LED it *)
(* has put out stays out but for a study.                                  *)
LedStopped ==
    /\ wifiPc["wifi"] = "led off" /\ ~rearmed => ~Ticking
    /\ wifiPc["wifi"] = "idle" /\ ToldWifi /\ ~byteLost /\ ~rearmed =>
          ~Ticking /\ (led => studyLit)

(* Without the network the timer runs between events.                      *)
Blinking == wifiPc["wifi"] = "idle" /\ ~ToldWifi => Ticking

WifiEvents == Heard /\ DhcpIs /\ LedStopped /\ Blinking
WifiIInv == WifiTypes /\ NotTwice /\ WifiEvents
-----------------------------------------------------------------------------
(* The types in parts.                                                     *)
Bytes == byte \in Byte /\ loaded \in [ByteWriter -> Byte] /\ byteLost \in BOOLEAN
WifiPcs ==
    /\ wifiPc \in [ByteWriter -> Places]
    /\ wifiPc["tcp"] \in Places \ (OfWifi \cup OfLed) /\ wifiPc["msg"] \in {"idle", "other"}
    /\ wifiPc["timer"] \in Places \ (OfWifi \cup OfTcp)
    /\ wifiPc["wifi"] \in Places \ (OfTcp \cup {"closed", "other"})
WifiFlags ==
    /\ wifi \in BOOLEAN /\ wifiTold \in BOOLEAN
    /\ led \in BOOLEAN /\ ledTimer \in BOOLEAN /\ studyLit \in BOOLEAN
    /\ rearmed \in BOOLEAN
WifiCounts == wifiChanges \in 0 .. MaxWifiChanges

LEMMA WifiTypesAre == WifiTypes <=> Bytes /\ WifiPcs /\ WifiFlags /\ WifiCounts
  BY DEF WifiTypes, Bytes, WifiPcs, WifiFlags, WifiCounts

(* A write that nothing lost changes one bit of the byte.                 *)
LEMMA StoreKeeps ==
  ASSUME Bytes, NEW t \in ByteWriter, NEW bit \in {"dhcp", "conn"}, NEW value \in BOOLEAN,
         Store(t, bit, value)
  PROVE  /\ byte' \in Byte /\ loaded' \in [ByteWriter -> Byte] /\ byteLost' \in BOOLEAN
         /\ byteLost => byteLost'
         /\ ~byteLost' => byte = loaded[t] /\ byte' = [byte EXCEPT ![bit] = value]
  BY DEF Store, Bytes, Byte, AllClear

LEMMA DhcpWritten ==
  ASSUME Bytes, NEW t \in ByteWriter, NEW value \in BOOLEAN
  PROVE  /\ Store(t, "dhcp", value) /\ ~byteLost' => ~byteLost /\ (byte'.dhcp <=> value)
         /\ Store(t, "conn", value) /\ ~byteLost' => ~byteLost /\ (byte'.dhcp <=> byte.dhcp)
<1>1. ASSUME Store(t, "dhcp", value), ~byteLost'
      PROVE  ~byteLost /\ (byte'.dhcp <=> value)
  <2>1. ~byteLost /\ byte' = [byte EXCEPT !["dhcp"] = value]
    BY <1>1, StoreKeeps
  <2> QED
    BY <2>1 DEF Bytes, Byte
<1>2. ASSUME Store(t, "conn", value), ~byteLost'
      PROVE  ~byteLost /\ (byte'.dhcp <=> byte.dhcp)
  <2>1. ~byteLost /\ byte' = [byte EXCEPT !["conn"] = value]
    BY <1>2, StoreKeeps
  <2> QED
    BY <2>1 DEF Bytes, Byte
<1> QED
  BY <1>1, <1>2

(* Every step keeps the types.                                             *)
LEMMA WifiCountsKept ==
  ASSUME WifiCounts, [WifiNext]_wifiVars
  PROVE  WifiCounts'
<1>1. UNCHANGED wifiChanges \/ (wifiChanges < MaxWifiChanges /\ wifiChanges' = wifiChanges + 1)
  BY DEF wifiVars, WifiNext, WifiThread, Change, DhcpOk, SetDhcp, StopLedTimer, LedOff,
         ApDisconnect, ClearDhcp, ReadAgain, ClearConn, Expire, StartConnect,
         ReadForConnect, Connected, LedCallback, ToggleLed, Rearm, ReadForClose, Closed,
         ReadForOther, Other, StudyLed, LightForStudy, DarkAfterStudy, network
<1> QED
  BY <1>1, WifiStateAssumption DEF WifiCounts

LEMMA WifiPcsKept ==
  ASSUME WifiPcs, [WifiNext]_wifiVars
  PROVE  WifiPcs'
<1>1. CASE UNCHANGED wifiPc
  BY <1>1 DEF WifiPcs
<1>2. ASSUME NEW p \in Places \ (OfTcp \cup {"closed", "other"}), WifiTo("wifi", p)
      PROVE  WifiPcs'
  BY <1>2 DEF WifiPcs, WifiTo, ByteWriter
<1>3. ASSUME NEW p \in Places \ (OfWifi \cup OfTcp), WifiTo("timer", p)
      PROVE  WifiPcs'
  BY <1>3 DEF WifiPcs, WifiTo, ByteWriter
<1>4. ASSUME NEW p \in Places \ (OfWifi \cup OfLed), WifiTo("tcp", p)
      PROVE  WifiPcs'
  BY <1>4 DEF WifiPcs, WifiTo, ByteWriter
<1>5. ASSUME NEW p \in {"idle", "other"}, WifiTo("msg", p)
      PROVE  WifiPcs'
  BY <1>5 DEF WifiPcs, WifiTo, ByteWriter, Places
<1> USE DEF Places, OfWifi, OfLed, OfTcp
<1>6. CASE UNCHANGED wifiVars \/ Change \/ StudyLed
  BY <1>1, <1>6 DEF wifiVars, Change, StudyLed, LightForStudy, DarkAfterStudy
<1>7. CASE WifiThread
  BY <1>1, <1>2, <1>7 DEF WifiThread, DhcpOk, SetDhcp, StopLedTimer, LedOff, ApDisconnect,
                          ClearDhcp, ReadAgain, ClearConn
<1>8. CASE Expire \/ StartConnect \/ ReadForConnect \/ Connected
  BY <1>3, <1>4, <1>8 DEF Expire, StartConnect, ReadForConnect, Connected
<1>9. ASSUME NEW t \in ByteWriter, LedCallback(t)
      PROVE  WifiPcs'
  <2>1. t \in {"wifi", "timer"}
    BY <1>9 DEF LedCallback, ToggleLed, Rearm, WifiPcs, ByteWriter
  <2>2. WifiTo(t, "rearm") \/ WifiTo(t, "idle")
    BY <1>9 DEF LedCallback, ToggleLed, Rearm
  <2> QED
    BY <1>2, <1>3, <2>1, <2>2
<1>10. ASSUME NEW t \in ByteWriter,
              ReadForClose(t) \/ Closed(t) \/ ReadForOther(t) \/ Other(t)
       PROVE  WifiPcs'
  <2>1. CASE ReadForClose(t)
    BY <1>3, <1>4, <2>1 DEF ReadForClose
  <2>2. CASE Closed(t) \/ Other(t)
    BY <1>2, <1>3, <1>4, <1>5, <2>2 DEF Closed, Other, ByteWriter
  <2>3. CASE ReadForOther(t)
    BY <1>3, <1>4, <1>5, <2>3 DEF ReadForOther, ByteWriter
  <2> QED
    BY <1>10, <2>1, <2>2, <2>3
<1> QED
  BY <1>6, <1>7, <1>8, <1>9, <1>10 DEF WifiNext

LEMMA BytesKept ==
  ASSUME Bytes, [WifiNext]_wifiVars
  PROVE  Bytes'
<1>1. CASE UNCHANGED <<byte, loaded, byteLost>>
  BY <1>1 DEF Bytes
<1>2. ASSUME NEW t \in ByteWriter, Load(t), UNCHANGED <<byte, byteLost>>
      PROVE  Bytes'
  BY <1>2 DEF Load, Bytes
<1>3. ASSUME NEW t \in ByteWriter, NEW bit \in {"dhcp", "conn"}, NEW value \in BOOLEAN,
             Store(t, bit, value)
      PROVE  Bytes'
  BY <1>3, StoreKeeps DEF Bytes
<1>4. CASE WifiThread
  BY <1>1, <1>2, <1>3, <1>4 DEF WifiThread, DhcpOk, SetDhcp, StopLedTimer, LedOff,
       ApDisconnect, ClearDhcp, ReadAgain, ClearConn, ByteWriter
<1>5. CASE Change \/ Expire \/ StartConnect \/ ReadForConnect \/ Connected \/ StudyLed
  BY <1>1, <1>2, <1>3, <1>5 DEF Change, Expire, StartConnect, ReadForConnect, Connected,
       StudyLed, LightForStudy, DarkAfterStudy, ByteWriter
<1>6. ASSUME NEW t \in ByteWriter,
             LedCallback(t) \/ ReadForClose(t) \/ Closed(t) \/ ReadForOther(t)
      PROVE  Bytes'
  BY <1>1, <1>2, <1>3, <1>6 DEF LedCallback, ToggleLed, Rearm, ReadForClose, Closed,
       ReadForOther
<1>7. ASSUME NEW t \in ByteWriter, Other(t)
      PROVE  Bytes'
  <2>1. loaded[t].dhcp \in BOOLEAN
    BY DEF Bytes, Byte
  <2> QED
    BY <1>3, <1>7, <2>1 DEF Other
<1> QED
  BY <1>1, <1>4, <1>5, <1>6, <1>7 DEF WifiNext, wifiVars

LEMMA WifiFlagsKept ==
  ASSUME WifiFlags, [WifiNext]_wifiVars
  PROVE  WifiFlags'
<1> USE DEF WifiFlags, network, light
<1>1. CASE UNCHANGED wifiVars \/ Change
  BY <1>1 DEF wifiVars, Change
<1>2. CASE WifiThread /\ ~StopLedTimer
  BY <1>2 DEF WifiThread, DhcpOk, SetDhcp, LedOff, ApDisconnect, ClearDhcp, ReadAgain,
              ClearConn
<1>6. CASE StopLedTimer
  <2>1. rearmed' \in BOOLEAN
    <3>1. rearmed' = (wifiPc["timer"] \in {"toggle", "rearm"})
      BY <1>6, Zenon DEF StopLedTimer, Calling
    <3> QED
      BY <3>1
  <2> QED
    BY <1>6, <2>1 DEF StopLedTimer
<1>3. CASE Expire \/ StartConnect \/ ReadForConnect \/ Connected \/ StudyLed
  BY <1>3 DEF Expire, StartConnect, ReadForConnect, Connected, StudyLed, LightForStudy,
              DarkAfterStudy
<1>4. ASSUME NEW t \in ByteWriter, LedCallback(t)
      PROVE  WifiFlags'
  BY <1>4 DEF LedCallback, ToggleLed, Rearm
<1>5. ASSUME NEW t \in ByteWriter,
             ReadForClose(t) \/ Closed(t) \/ ReadForOther(t) \/ Other(t)
      PROVE  WifiFlags'
  BY <1>5 DEF ReadForClose, Closed, ReadForOther, Other
<1> QED
  BY <1>1, <1>2, <1>3, <1>4, <1>5, <1>6 DEF WifiNext

-----------------------------------------------------------------------------
(* A step of a thread other than the Wi-Fi's that writes the byte keeps    *)
(* the bit of the network, unless it loses a write.                       *)
LEMMA NotTwiceKept ==
  ASSUME Bytes, WifiPcs, NotTwice, [WifiNext]_wifiVars
  PROVE  NotTwice'
<1> USE DEF NotTwice, WifiTo, WifiPcs
<1>1. CASE UNCHANGED <<wifiPc, byte, byteLost>>
  BY <1>1
<1>2. ASSUME NEW t \in ByteWriter, NEW p, WifiTo(t, p), UNCHANGED <<byte, byteLost>>,
             t = "tcp" => \/ p \notin {"connecting", "connected"}
                          \/ ~byte.conn \/ byteLost
      PROVE  NotTwice'
  BY <1>2
<1>3. ASSUME NEW t \in ByteWriter, NEW p, NEW bit \in {"dhcp", "conn"},
             NEW value \in BOOLEAN, WifiTo(t, p), Store(t, bit, value),
             t = "tcp" => p \notin {"connecting", "connected"},
             bit = "conn" /\ t # "tcp" => ~value
      PROVE  NotTwice'
  BY <1>3, StoreKeeps DEF Byte, Bytes
<1>4. CASE UNCHANGED wifiVars \/ Change \/ StudyLed
  BY <1>1, <1>4 DEF wifiVars, Change, StudyLed, LightForStudy, DarkAfterStudy
<1>5. CASE WifiThread
  <2>1. CASE DhcpOk \/ StopLedTimer \/ LedOff \/ ApDisconnect \/ ReadAgain
    BY <1>1, <1>2, <2>1
       DEF DhcpOk, StopLedTimer, LedOff, ApDisconnect, ReadAgain, ByteWriter
  <2>2. CASE SetDhcp \/ ClearDhcp \/ ClearConn
    BY <1>3, <2>2 DEF SetDhcp, ClearDhcp, ClearConn, ByteWriter
  <2> QED
    BY <1>5, <2>1, <2>2 DEF WifiThread
<1>6. CASE Expire
  BY <1>2, <1>6 DEF Expire, ByteWriter
<1>7. CASE StartConnect \/ ReadForConnect
  <2>1. UNCHANGED <<byte, byteLost>> /\ (~byte.conn \/ byteLost)
    BY <1>7 DEF StartConnect, ReadForConnect
  <2> QED
    BY <1>2, <1>7, <2>1 DEF StartConnect, ReadForConnect, ByteWriter
<1>8. CASE Connected
  BY <1>3, <1>8 DEF Connected, ByteWriter
<1>9. ASSUME NEW t \in ByteWriter, LedCallback(t) \/ ReadForClose(t) \/ ReadForOther(t)
      PROVE  NotTwice'
  BY <1>2, <1>9 DEF LedCallback, ToggleLed, Rearm, ReadForClose, ReadForOther
<1>10. ASSUME NEW t \in ByteWriter, Closed(t) \/ Other(t)
       PROVE  NotTwice'
  <2>1. loaded[t].dhcp \in BOOLEAN
    BY DEF Bytes, Byte
  <2> QED
    BY <1>3, <1>10, <2>1 DEF Closed, Other
<1> QED
  BY <1>4, <1>5, <1>6, <1>7, <1>8, <1>9, <1>10 DEF WifiNext

-----------------------------------------------------------------------------
(* The steps of the other threads.                                         *)
OtherThreads ==
    \/ Expire \/ StartConnect \/ ReadForConnect \/ Connected \/ StudyLed
    \/ \E t \in ByteWriter \ {"wifi"}: \/ LedCallback(t) \/ ReadForClose(t) \/ Closed(t)
                                       \/ ReadForOther(t) \/ Other(t)

LEMMA WifiStepOf ==
  ASSUME WifiPcs, WifiNext
  PROVE  Change \/ WifiThread \/ LedCallback("wifi") \/ OtherThreads
<1>1. ~ReadForClose("wifi") /\ ~Closed("wifi") /\ ~ReadForOther("wifi") /\ ~Other("wifi")
  BY DEF WifiPcs, ReadForClose, Closed, ReadForOther, Other
<1> QED
  BY <1>1 DEF WifiNext, OtherThreads, ByteWriter

(* They leave alone what the Wi-Fi thread knows and has written, and only  *)
(* the callback toggles the LED and sets the timer; what else lights the   *)
(* LED is a study.                                                         *)
LEMMA OthersKeep ==
  ASSUME Bytes, WifiPcs, WifiFlags, OtherThreads
  PROVE  /\ wifiPc'["wifi"] = wifiPc["wifi"] /\ UNCHANGED <<wifi, wifiTold, rearmed>>
         /\ byteLost => byteLost'
         /\ ~byteLost' => (byte'.dhcp <=> byte.dhcp)
         /\ Ticking' <=> Ticking
         /\ ~Ticking /\ (led => studyLit) => (led' => studyLit')
<1> USE DEF WifiPcs, WifiTo, Ticking, Calling
<1>1. ASSUME NEW t \in ByteWriter, NEW value \in BOOLEAN,
             Store(t, "conn", value) \/ Store(t, "dhcp", loaded[t].dhcp)
      PROVE  (byteLost => byteLost') /\ (~byteLost' => (byte'.dhcp <=> byte.dhcp))
  <2>1. loaded[t].dhcp \in BOOLEAN
    BY DEF Bytes, Byte
  <2> QED
    BY <1>1, <2>1, StoreKeeps DEF Byte, Bytes
<1>2. CASE Expire
  BY <1>2 DEF Expire, network, ByteWriter, AtRest
<1>3. CASE StartConnect \/ ReadForConnect
  BY <1>3 DEF StartConnect, ReadForConnect, network, light, ByteWriter
<1>4. CASE Connected
  <2>1. (byteLost => byteLost') /\ (~byteLost' => (byte'.dhcp <=> byte.dhcp))
    BY <1>1, <1>4 DEF Connected, ByteWriter
  <2> QED
    BY <1>4, <2>1 DEF Connected, network, light, ByteWriter
<1>5. ASSUME NEW t \in ByteWriter \ {"wifi"}, LedCallback(t)
      PROVE  /\ wifiPc'["wifi"] = wifiPc["wifi"] /\ UNCHANGED <<wifi, wifiTold, rearmed>>
             /\ UNCHANGED <<byte, byteLost>> /\ Ticking /\ Ticking'
  <2>1. t = "timer"
    BY <1>5 DEF LedCallback, ToggleLed, Rearm, ByteWriter, Places, OfLed
  <2> QED
    BY <1>5, <2>1 DEF LedCallback, ToggleLed, Rearm, network, ByteWriter
<1>6. ASSUME NEW t \in ByteWriter \ {"wifi"}, ReadForClose(t) \/ ReadForOther(t)
      PROVE  /\ wifiPc'["wifi"] = wifiPc["wifi"] /\ UNCHANGED <<wifi, wifiTold, rearmed>>
             /\ UNCHANGED <<byte, byteLost, led, studyLit>> /\ (Ticking' <=> Ticking)
  BY <1>6 DEF ReadForClose, ReadForOther, network, light, AtRest, ByteWriter
<1>7. ASSUME NEW t \in ByteWriter \ {"wifi"}, Closed(t) \/ Other(t)
      PROVE  /\ wifiPc'["wifi"] = wifiPc["wifi"] /\ UNCHANGED <<wifi, wifiTold, rearmed>>
             /\ (byteLost => byteLost') /\ (~byteLost' => (byte'.dhcp <=> byte.dhcp))
             /\ UNCHANGED <<led, studyLit>> /\ (Ticking' <=> Ticking)
  <2>1. (byteLost => byteLost') /\ (~byteLost' => (byte'.dhcp <=> byte.dhcp))
    BY <1>1, <1>7 DEF Closed, Other
  <2>2. wifiPc[t] \in {"closed", "other"} /\ WifiTo(t, "idle") /\ UNCHANGED <<network, light>>
    BY <1>7 DEF Closed, Other
  <2>3. wifiPc'["timer"] \in {"toggle", "rearm"} <=> wifiPc["timer"] \in {"toggle", "rearm"}
    BY <2>2 DEF ByteWriter
  <2>4. wifiPc'["wifi"] = wifiPc["wifi"]
    BY <2>2 DEF ByteWriter
  <2> QED
    BY <2>1, <2>2, <2>3, <2>4 DEF network, light
<1>8. CASE StudyLed
  BY <1>8 DEF StudyLed, LightForStudy, DarkAfterStudy, network
<1> QED
  BY <1>2, <1>3, <1>4, <1>5, <1>6, <1>7, <1>8 DEF OtherThreads

(* The network changes when the device was told of the last change.        *)
LEMMA ChangeKeeps ==
  ASSUME WifiFlags, WifiEvents, Change
  PROVE  WifiEvents'
<1>1. ToldWifi' <=> ToldWifi
  BY DEF Change, ToldWifi, WifiFlags
<1>2. UNCHANGED <<byte, byteLost, wifiPc, led, ledTimer, studyLit, rearmed>>
  BY DEF Change, light
<1> QED
  BY <1>1, <1>2 DEF WifiEvents, Heard, DhcpIs, LedStopped, Blinking, Ticking, Calling

(* The Wi-Fi thread's steps, each from where the last one left it.         *)
LEMMA WifiThreadKeeps ==
  ASSUME Bytes, WifiPcs, WifiFlags, WifiEvents, WifiThread \/ LedCallback("wifi")
  PROVE  WifiEvents'
<1> DEFINE at == wifiPc["wifi"]
<1> USE DEF WifiEvents, Heard, DhcpIs, LedStopped, Blinking, BroughtUp, TakenDown
<1>1. ASSUME NEW p, WifiTo("wifi", p)
      PROVE  wifiPc'["wifi"] = p /\ (Calling("timer")' <=> Calling("timer"))
  BY <1>1 DEF WifiTo, WifiPcs, ByteWriter, Calling
<1>2. ASSUME NEW value \in BOOLEAN, ~byteLost'
      PROVE  /\ Store("wifi", "dhcp", value) => ~byteLost /\ (byte'.dhcp <=> value)
             /\ Store("wifi", "conn", value) => ~byteLost /\ (byte'.dhcp <=> byte.dhcp)
  BY <1>2, DhcpWritten DEF ByteWriter
<1>3. CASE DhcpOk
  <2>1. /\ at = "idle" /\ wifi /\ ~wifiTold /\ wifi' = wifi /\ wifiTold'
        /\ UNCHANGED <<byte, byteLost, led, ledTimer, studyLit, rearmed>>
    BY <1>3 DEF DhcpOk, AtRest, light
  <2>2. ~ToldWifi /\ ToldWifi'
    BY <2>1 DEF ToldWifi
  <2>3. CASE byte.dhcp
    <3>1. byteLost /\ wifiPc' = wifiPc
      BY <1>3, <2>1, <2>2, <2>3 DEF DhcpOk
    <3> QED
      BY <2>1, <2>2, <3>1
  <2>4. CASE ~byte.dhcp
    <3>1. wifiPc'["wifi"] = "set dhcp"
      BY <1>1, <1>3, <2>4 DEF DhcpOk
    <3> QED
      BY <2>2, <3>1
  <2> QED
    BY <2>3, <2>4
<1>4. CASE SetDhcp
  <2>1. at = "set dhcp" /\ wifiPc'["wifi"] = "stop timer" /\ (ToldWifi' <=> ToldWifi)
    BY <1>1, <1>4 DEF SetDhcp, ToldWifi, network
  <2>2. ~byteLost' => byte'.dhcp
    BY <1>2, <1>4 DEF SetDhcp
  <2> QED
    BY <2>1, <2>2
<1>5. CASE StopLedTimer
  <2>1. /\ at = "stop timer" /\ wifiPc'["wifi"] = "led off" /\ (ToldWifi' <=> ToldWifi)
        /\ UNCHANGED <<byte, byteLost>> /\ (Calling("timer")' <=> Calling("timer"))
    BY <1>1, <1>5 DEF StopLedTimer, ToldWifi, network
  <2>2. ~ledTimer' /\ (rearmed' <=> Calling("timer"))
    BY <1>5 DEF StopLedTimer
  <2> QED
    BY <2>1, <2>2 DEF Ticking
<1>6. CASE LedOff
  <2>1. /\ at = "led off" /\ wifiPc'["wifi"] = "idle" /\ (ToldWifi' <=> ToldWifi)
        /\ UNCHANGED <<byte, byteLost, rearmed>> /\ (Ticking' <=> Ticking) /\ ~led'
    BY <1>1, <1>6 DEF LedOff, ToldWifi, network, Ticking
  <2> QED
    BY <2>1
<1>7. CASE ApDisconnect
  <2>1. ~wifi /\ ~wifiTold /\ wifi' = wifi /\ wifiTold' /\ wifiPc'["wifi"] = "clear dhcp"
    BY <1>1, <1>7 DEF ApDisconnect
  <2> QED
    BY <2>1 DEF ToldWifi
<1>8. CASE ClearDhcp
  <2>1. /\ at = "clear dhcp" /\ wifiPc'["wifi"] = "read again" /\ (ToldWifi' <=> ToldWifi)
    BY <1>1, <1>8 DEF ClearDhcp, ToldWifi, network
  <2>2. ~byteLost' => ~byte'.dhcp
    BY <1>2, <1>8 DEF ClearDhcp
  <2> QED
    BY <2>1, <2>2
<1>9. CASE ReadAgain
  <2>1. /\ at = "read again" /\ wifiPc'["wifi"] = "clear conn" /\ (ToldWifi' <=> ToldWifi)
        /\ UNCHANGED <<byte, byteLost>>
    BY <1>1, <1>9 DEF ReadAgain, ToldWifi, network
  <2> QED
    BY <2>1
<1>10. CASE ClearConn
  <2>1. /\ at = "clear conn" /\ wifiPc'["wifi"] = "toggle" /\ (ToldWifi' <=> ToldWifi)
    BY <1>1, <1>10 DEF ClearConn, ToldWifi, network
  <2>2. (byteLost => byteLost') /\ (~byteLost' => (byte'.dhcp <=> byte.dhcp))
    BY <1>2, <1>10 DEF ClearConn
  <2> QED
    BY <2>1, <2>2
<1>11. CASE ToggleLed("wifi")
  <2>1. /\ at = "toggle" /\ wifiPc'["wifi"] = "rearm" /\ (ToldWifi' <=> ToldWifi)
        /\ UNCHANGED <<byte, byteLost>>
    BY <1>1, <1>11 DEF ToggleLed, ToldWifi, network
  <2> QED
    BY <2>1
<1>12. CASE Rearm("wifi")
  <2>1. /\ at = "rearm" /\ wifiPc'["wifi"] = "idle" /\ (ToldWifi' <=> ToldWifi)
        /\ UNCHANGED <<byte, byteLost>>
    BY <1>1, <1>12 DEF Rearm, ToldWifi, network
  <2>2. ledTimer'
    BY <1>12 DEF Rearm
  <2> QED
    BY <2>1, <2>2 DEF Ticking
<1> QED
  BY <1>3, <1>4, <1>5, <1>6, <1>7, <1>8, <1>9, <1>10, <1>11, <1>12
     DEF WifiThread, LedCallback
-----------------------------------------------------------------------------
LEMMA WifiEventsKept ==
  ASSUME Bytes, WifiPcs, WifiFlags, WifiEvents, [WifiNext]_wifiVars
  PROVE  WifiEvents'
<1>1. CASE UNCHANGED wifiVars
  BY <1>1
     DEF wifiVars, WifiEvents, Heard, DhcpIs, LedStopped, Blinking, ToldWifi, Ticking,
         Calling
<1>2. CASE OtherThreads
  <2>1. ToldWifi' <=> ToldWifi
    BY <1>2, OthersKeep DEF ToldWifi
  <2>2. /\ wifiPc'["wifi"] = wifiPc["wifi"] /\ (rearmed' <=> rearmed)
        /\ byteLost => byteLost'
        /\ ~byteLost' => (byte'.dhcp <=> byte.dhcp)
        /\ Ticking' <=> Ticking
        /\ ~Ticking /\ (led => studyLit) => (led' => studyLit')
    BY <1>2, OthersKeep
  <2>3. Heard' /\ Blinking'
    BY <2>1, <2>2 DEF WifiEvents, Heard, Blinking
  <2>4. DhcpIs'
    BY <2>1, <2>2 DEF WifiEvents, DhcpIs
  <2>5. LedStopped'
    BY <2>1, <2>2 DEF WifiEvents, LedStopped
  <2> QED
    BY <2>3, <2>4, <2>5 DEF WifiEvents
<1> QED
  BY <1>1, <1>2, WifiStepOf, ChangeKeeps, WifiThreadKeeps

LEMMA WifiStarts ==
  ASSUME WifiInit
  PROVE  WifiIInv
<1> USE DEF WifiInit
<1>1. Bytes /\ WifiPcs /\ NotTwice
  BY DEF Bytes, WifiPcs, NotTwice, Byte, AllClear, ByteWriter, Places, OfWifi, OfLed, OfTcp
<1>2. WifiFlags
  BY DEF WifiFlags
<1>3. WifiCounts
  BY WifiStateAssumption DEF WifiCounts
<1>4. WifiEvents
  BY DEF WifiEvents, Heard, DhcpIs, LedStopped, Blinking, ToldWifi, Ticking, AllClear,
     ByteWriter, 
         BroughtUp, TakenDown
<1> QED
  BY <1>1, <1>2, <1>3, <1>4, WifiTypesAre DEF WifiIInv

LEMMA WifiStep ==
  ASSUME WifiIInv, [WifiNext]_wifiVars
  PROVE  WifiIInv'
<1>1. Bytes' /\ WifiPcs' /\ WifiFlags' /\ WifiCounts'
  BY WifiTypesAre, BytesKept, WifiPcsKept, WifiFlagsKept, WifiCountsKept DEF WifiIInv
<1>2. WifiTypes'
  BY <1>1 DEF WifiTypes, Bytes, WifiPcs, WifiFlags, WifiCounts
<1> QED
  BY <1>2, WifiTypesAre, NotTwiceKept, WifiEventsKept DEF WifiIInv

LEMMA WifiFollows ==
  ASSUME WifiIInv
  PROVE  WifiInv
<1>1. WifiFlags /\ Bytes /\ WifiEvents
  BY WifiTypesAre DEF WifiIInv
<1>2. Settled => wifiPc["wifi"] = "idle" /\ (ToldWifi <=> wifi)
  BY <1>1 DEF Settled, AtRest, ToldWifi, WifiFlags
<1>3. FlagIsWifi
  <2>1. Settled /\ ~byteLost => (byte.dhcp <=> wifi)
    BY <1>1, <1>2 DEF WifiEvents, DhcpIs
  <2> QED
    BY <1>1, <2>1 DEF FlagIsWifi, WifiFlags, Bytes, Byte
<1>4. BlinksWithout /\ OffWith
  BY <1>1, <1>2 DEF BlinksWithout, OffWith, WifiEvents, Blinking, LedStopped, Ticking
<1> QED
  BY <1>3, <1>4 DEF WifiIInv, WifiInv

(* Once the device was told of the last change of the network, its bit    *)
(* and its LED say what the network is, unless two threads wrote the byte  *)
(* of flags at once, the timer was stopped in its callback, or the LED     *)
(* shines for a study of the gateway                                       *)
(* (setDeviceConnectInfo, setWifiLedStatus, wifiLedTimerCallback), however *)
(* often the network comes and goes.                                       *)
THEOREM WifiCorrect == WifiSpec => []WifiInv
<1>1. WifiInit => WifiIInv
  BY WifiStarts
<1>2. WifiIInv /\ [WifiNext]_wifiVars => WifiIInv'
  BY WifiStep
<1>3. WifiIInv => WifiInv
  BY WifiFollows
<1> QED
  BY <1>1, <1>2, <1>3, PTL DEF WifiSpec
-----------------------------------------------------------------------------
(***************************************************************************)
(* The invariant of Light, for any number of calls, callbacks and timers.   *)
(* LampAsAsked speaks of the moments when no thread is in these functions;  *)
(* what makes it inductive is that, while no two threads met, the one that  *)
(* is there finds what its last step left (LampAt), and between calls the   *)
(* program has the one timer there is, or there is none.                    *)
(***************************************************************************)
NoTimers == handle = NoTimer /\ live = {} /\ running = {}
OneTimer == handle # NoTimer /\ live = {handle}
OneRuns  == OneTimer /\ running = live

(* One thread at a time is in these functions.                             *)
OneLights == \A t, u \in Lighter: t # u => Idle(t) \/ Idle(u)

(* What a thread that switches the lamp has done at each of its steps ...  *)
SwitchedAt(t) ==
    /\ lightPc[t] \in {"stop", "forget", "show", "open"} =>
          want[t] = ledStatus /\ ledStatus \in Switched
    /\ lightPc[t] = "stop" => NoTimers \/ OneTimer
    /\ lightPc[t] = "forget" => live = {} /\ running = {}
    /\ lightPc[t] \in {"show", "open"} => NoTimers
    /\ lightPc[t] = "open" /\ ~keyed =>
          lit = IF ledStatus = "open" THEN "levels" ELSE "dark"

(* ... and one that blinks it.                                             *)
BlinkedAt(t) ==
    /\ lightPc[t] \in {"start", "create", "period", "bright", "dim"} => ledStatus \in Blinked
    /\ lightPc[t] = "start" => NoTimers \/ OneRuns
    /\ lightPc[t] = "create" => NoTimers
    /\ lightPc[t] = "period" => OneTimer
    /\ lightPc[t] \in {"bright", "dim"} => OneRuns

(* Between calls.                                                          *)
LampRests ==
    AllIdle =>
        IF ledStatus \in Switched
        THEN /\ NoTimers /\ (ledOpen <=> ledStatus = "open")
             /\ ~keyed => lit = IF ledOpen THEN "levels" ELSE "dark"
        ELSE OneRuns

LampKnown == OneLights /\ (\A t \in Lighter: SwitchedAt(t) /\ BlinkedAt(t)) /\ LampRests
LightIInv == LightTypes /\ created \in Nat /\ (~met => ~ruined /\ LampKnown)
-----------------------------------------------------------------------------
(* The types in parts.                                                     *)
LightSteps == {"out", "stop", "forget", "show", "open", "start", "create", "period", "bright",
               "dim"}
LightShown ==
    /\ lightPc \in [Lighter -> LightSteps] /\ want \in [Lighter -> Switched \cup Blinked]
    /\ ledStatus \in Switched \cup Blinked /\ lit \in {"dark", "levels", "bright", "dim"}
LightFlags == ledOpen \in BOOLEAN /\ keyed \in BOOLEAN /\ met \in BOOLEAN /\ ruined \in BOOLEAN
LightTimers ==
    /\ created \in Nat /\ handle \in 0 .. created
    /\ running \subseteq live /\ live \subseteq 1 .. created

LEMMA LightTypesAre ==
  LightTypes /\ created \in Nat <=> LightShown /\ LightFlags /\ LightTimers
  BY DEF LightTypes, LightShown, LightFlags, LightTimers, LightSteps

(* Every step keeps the types.                                             *)
LEMMA LightShownKept ==
  ASSUME LightShown, [LightNext]_lightVars
  PROVE  LightShown'
<1> USE DEF LightShown, LightSteps, Step
<1>1. CASE UNCHANGED lightVars
  BY <1>1 DEF lightVars
<1>2. ASSUME NEW t \in Lighter, SetStatus(t)
      PROVE  LightShown'
  <2>1. PICK s \in Asks(t): /\ want' = [want EXCEPT ![t] = s] /\ ledStatus' = s
                            /\ Step(t, "out", IF s \in Switched THEN "stop" ELSE "start")
    BY <1>2 DEF SetStatus
  <2>2. s \in Switched \cup Blinked
    BY DEF Asks, Switched, Blinked
  <2>3. lightPc' \in [Lighter -> LightSteps]
    BY <2>1
  <2>4. lit' = lit
    BY <1>2 DEF SetStatus
  <2> QED
    BY <2>1, <2>2, <2>3, <2>4
<1>3. ASSUME NEW t \in Lighter,
             StopTimer(t) \/ ForgetTimer(t) \/ Show(t) \/ SetLedOpen(t)
      PROVE  LightShown'
  BY <1>3 DEF StopTimer, ForgetTimer, Show, SetLedOpen, lamp
<1>4. ASSUME NEW t \in Lighter, CreateTimer(t) \/ StoreTimer(t) \/ ChangePeriod(t)
      PROVE  LightShown'
  BY <1>4 DEF CreateTimer, StoreTimer, ChangePeriod, lamp
<1>5. CASE Blink \/ BlinkOpen \/ LevelKey
  BY <1>5 DEF Blink, BlinkOpen, LevelKey
<1> QED
  BY <1>1, <1>2, <1>3, <1>4, <1>5 DEF LightNext, SetLedLightStatus

LEMMA LightFlagsKept ==
  ASSUME LightFlags, [LightNext]_lightVars
  PROVE  LightFlags'
<1> USE DEF LightFlags, lamp
<1>1. CASE UNCHANGED lightVars
  BY <1>1 DEF lightVars
<1>2. ASSUME NEW t \in Lighter, SetLedLightStatus(t)
      PROVE  LightFlags'
  BY <1>2 DEF SetLedLightStatus, SetStatus, StopTimer, ForgetTimer, Show, SetLedOpen,
              CreateTimer, StoreTimer, ChangePeriod
<1>3. CASE Blink \/ BlinkOpen \/ LevelKey
  BY <1>3 DEF Blink, BlinkOpen, LevelKey
<1> QED
  BY <1>1, <1>2, <1>3 DEF LightNext

LEMMA LightTimersKept ==
  ASSUME LightTimers, [LightNext]_lightVars
  PROVE  LightTimers'
<1> USE DEF LightTimers, timers
<1>1. CASE UNCHANGED lightVars
  BY <1>1 DEF lightVars
<1>2. ASSUME NEW t \in Lighter, SetStatus(t) \/ Show(t) \/ SetLedOpen(t) \/ CreateTimer(t)
      PROVE  LightTimers'
  BY <1>2 DEF SetStatus, Show, SetLedOpen, CreateTimer
<1>3. ASSUME NEW t \in Lighter, StopTimer(t)
      PROVE  LightTimers'
  BY <1>3 DEF StopTimer
<1>7. ASSUME NEW t \in Lighter, ForgetTimer(t)
      PROVE  LightTimers'
  BY <1>7 DEF ForgetTimer, NoTimer
<1>4. ASSUME NEW t \in Lighter, StoreTimer(t)
      PROVE  LightTimers'
  BY <1>4 DEF StoreTimer
<1>5. ASSUME NEW t \in Lighter, ChangePeriod(t)
      PROVE  LightTimers'
  BY <1>5 DEF ChangePeriod
<1>6. CASE Blink \/ BlinkOpen \/ LevelKey
  BY <1>6 DEF Blink, BlinkOpen, LevelKey
<1> QED
  BY <1>1, <1>2, <1>3, <1>4, <1>5, <1>6, <1>7 DEF LightNext, SetLedLightStatus
-----------------------------------------------------------------------------
(* A thread that takes a step while the others are out is alone.           *)
LEMMA LightsAlone ==
  ASSUME LightShown, NEW t \in Lighter, NEW from, NEW to, Step(t, from, to),
         \A u \in Lighter \ {t}: Idle(u),
         SwitchedAt(t)', BlinkedAt(t)', to = "out" => LampRests'
  PROVE  LampKnown'
<1>1. lightPc'[t] = to /\ \A u \in Lighter \ {t}: lightPc'[u] = "out"
  BY DEF Step, LightShown, Idle
<1>2. OneLights'
  BY <1>1 DEF OneLights, Idle
<1>3. \A u \in Lighter: SwitchedAt(u)' /\ BlinkedAt(u)'
  BY <1>1 DEF SwitchedAt, BlinkedAt
<1>4. LampRests'
  BY <1>1 DEF LampRests, AllIdle, Idle
<1> QED
  BY <1>2, <1>3, <1>4 DEF LampKnown

(* Each step of a call is taken from where the last one left the lamp and  *)
(* its timer.                                                              *)
LEMMA SetLedLightStatusKeeps ==
  ASSUME LightShown, LightFlags, LightTimers, ~ruined, LampKnown, NEW t \in Lighter,
         SetLedLightStatus(t), ~met'
  PROVE  ~ruined' /\ LampKnown'
<1> USE DEF LightShown, LightFlags, LightTimers, NoTimers, OneTimer, OneRuns, NoTimer, timers,
            lamp, Switched, Blinked
<1>1. SwitchedAt(t) /\ BlinkedAt(t) /\ (AllIdle => LampRests)
  BY DEF LampKnown
<1>2. ~Idle(t) => \A u \in Lighter \ {t}: Idle(u)
  BY DEF LampKnown, OneLights
<1>3. ASSUME NEW from, NEW to, Step(t, from, to)
      PROVE  lightPc[t] = from /\ lightPc'[t] = to
  BY <1>3 DEF Step
<1>4. CASE SetStatus(t)
  <2>1. \A u \in Lighter \ {t}: Idle(u)
    BY <1>4 DEF SetStatus
  <2>2. PICK s \in Asks(t): /\ want' = [want EXCEPT ![t] = s] /\ ledStatus' = s
                            /\ Step(t, "out", IF s \in Switched THEN "stop" ELSE "start")
    BY <1>4 DEF SetStatus
  <2>3. s \in Switched \cup Blinked
    BY DEF Asks
  <2>4. UNCHANGED <<handle, created, live, running, ruined>>
    BY <1>4 DEF SetStatus
  <2>5. NoTimers \/ OneRuns
    BY <1>1, <1>3, <2>1, <2>2 DEF LampRests, AllIdle, Idle
  <2>6. CASE s \in Switched
    <3>1. Step(t, "out", "stop") /\ lightPc'[t] = "stop"
      BY <1>3, <2>2, <2>6
    <3>2. SwitchedAt(t)' /\ BlinkedAt(t)'
      BY <2>2, <2>4, <2>5, <2>6, <3>1 DEF SwitchedAt, BlinkedAt
    <3> QED
      BY <2>1, <2>4, <3>1, <3>2, LightsAlone
  <2>7. CASE s \notin Switched
    <3>1. Step(t, "out", "start") /\ lightPc'[t] = "start"
      BY <1>3, <2>2, <2>7
    <3>2. SwitchedAt(t)' /\ BlinkedAt(t)'
      BY <2>2, <2>3, <2>4, <2>5, <2>7, <3>1 DEF SwitchedAt, BlinkedAt
    <3> QED
      BY <2>1, <2>4, <3>1, <3>2, LightsAlone
  <2> QED
    BY <2>6, <2>7
<1>5. CASE StopTimer(t)
  <2>1. /\ lightPc[t] = "stop" /\ UNCHANGED <<want, ledStatus, handle>>
        /\ live' = live \ {handle} /\ running' = running \ {handle}
        /\ ruined' = (ruined \/ (handle # NoTimer /\ handle \notin live))
    BY <1>3, <1>5 DEF StopTimer
  <2>2. want[t] = ledStatus /\ ledStatus \in Switched /\ (NoTimers \/ OneTimer)
    BY <1>1, <2>1 DEF SwitchedAt
  <2>3. ~ruined' /\ live' = {} /\ running' = {}
    BY <2>1, <2>2
  <2>4. CASE handle = NoTimer
    <3>1. Step(t, "stop", "show") /\ lightPc'[t] = "show"
      BY <1>3, <1>5, <2>4 DEF StopTimer
    <3>2. SwitchedAt(t)' /\ BlinkedAt(t)'
      BY <2>1, <2>2, <2>3, <2>4, <3>1 DEF SwitchedAt, BlinkedAt
    <3> QED
      BY <1>2, <2>1, <2>3, <3>1, <3>2, LightsAlone DEF Idle
  <2>5. CASE handle # NoTimer
    <3>1. Step(t, "stop", "forget") /\ lightPc'[t] = "forget"
      BY <1>3, <1>5, <2>5 DEF StopTimer
    <3>2. SwitchedAt(t)' /\ BlinkedAt(t)'
      BY <2>1, <2>2, <2>3, <3>1 DEF SwitchedAt, BlinkedAt
    <3> QED
      BY <1>2, <2>1, <2>3, <3>1, <3>2, LightsAlone DEF Idle
  <2> QED
    BY <2>4, <2>5
<1>6. CASE ForgetTimer(t)
  <2>1. Step(t, "forget", "show") /\ lightPc[t] = "forget" /\ lightPc'[t] = "show"
    BY <1>3, <1>6 DEF ForgetTimer
  <2>2. SwitchedAt(t)' /\ BlinkedAt(t)' /\ ~ruined'
    BY <1>1, <1>6, <2>1 DEF SwitchedAt, BlinkedAt, ForgetTimer
  <2> QED
    BY <1>2, <2>1, <2>2, LightsAlone DEF Idle
<1>7. CASE Show(t)
  <2>1. Step(t, "show", "open") /\ lightPc[t] = "show" /\ lightPc'[t] = "open"
    BY <1>3, <1>7 DEF Show
  <2>2. SwitchedAt(t)' /\ BlinkedAt(t)' /\ ~ruined'
    BY <1>1, <1>7, <2>1 DEF SwitchedAt, BlinkedAt, Show
  <2> QED
    BY <1>2, <2>1, <2>2, LightsAlone DEF Idle
<1>8. CASE SetLedOpen(t)
  <2>1. Step(t, "open", "out") /\ lightPc[t] = "open" /\ lightPc'[t] = "out"
    BY <1>3, <1>8 DEF SetLedOpen
  <2>2. SwitchedAt(t)' /\ BlinkedAt(t)' /\ ~ruined'
    BY <1>1, <1>8, <2>1 DEF SwitchedAt, BlinkedAt, SetLedOpen
  <2>3. LampRests'
    BY <1>1, <1>8, <2>1 DEF SwitchedAt, LampRests, SetLedOpen
  <2> QED
    BY <1>2, <2>1, <2>2, <2>3, LightsAlone DEF Idle
<1>9. CASE CreateTimer(t)
  <2>1. /\ lightPc[t] = "start" /\ UNCHANGED <<ledStatus, handle, live, running, ruined>>
        /\ ledStatus \in Blinked /\ (NoTimers \/ OneRuns)
    BY <1>1, <1>3, <1>9 DEF CreateTimer, BlinkedAt
  <2>2. CASE handle = NoTimer
    <3>1. Step(t, "start", "create") /\ lightPc'[t] = "create"
      BY <1>3, <1>9, <2>2 DEF CreateTimer
    <3>2. SwitchedAt(t)' /\ BlinkedAt(t)'
      BY <2>1, <2>2, <3>1 DEF SwitchedAt, BlinkedAt
    <3> QED
      BY <1>2, <2>1, <3>1, <3>2, LightsAlone DEF Idle
  <2>3. CASE handle # NoTimer
    <3>1. Step(t, "start", "period") /\ lightPc'[t] = "period"
      BY <1>3, <1>9, <2>3 DEF CreateTimer
    <3>2. SwitchedAt(t)' /\ BlinkedAt(t)'
      BY <2>1, <2>3, <3>1 DEF SwitchedAt, BlinkedAt
    <3> QED
      BY <1>2, <2>1, <3>1, <3>2, LightsAlone DEF Idle
  <2> QED
    BY <2>2, <2>3
<1>10. CASE StoreTimer(t)
  <2>1. Step(t, "create", "period") /\ lightPc[t] = "create" /\ lightPc'[t] = "period"
    BY <1>3, <1>10 DEF StoreTimer
  <2>2. NoTimers /\ ledStatus \in Blinked
    BY <1>1, <2>1 DEF BlinkedAt
  <2>3. OneTimer' /\ ~ruined' /\ ledStatus' = ledStatus
    BY <1>10, <2>2 DEF StoreTimer
  <2>4. SwitchedAt(t)' /\ BlinkedAt(t)'
    BY <2>1, <2>2, <2>3 DEF SwitchedAt, BlinkedAt
  <2> QED
    BY <1>2, <2>1, <2>3, <2>4, LightsAlone DEF Idle
<1>11. CASE ChangePeriod(t)
  <2>1. Step(t, "period", "out") /\ lightPc[t] = "period" /\ lightPc'[t] = "out"
    BY <1>3, <1>11 DEF ChangePeriod
  <2>2. OneTimer /\ ledStatus \in Blinked
    BY <1>1, <2>1 DEF BlinkedAt
  <2>3. OneRuns' /\ ~ruined' /\ ledStatus' = ledStatus
    BY <1>11, <2>2 DEF ChangePeriod
  <2>4. SwitchedAt(t)' /\ BlinkedAt(t)' /\ LampRests'
    BY <2>1, <2>2, <2>3 DEF SwitchedAt, BlinkedAt, LampRests
  <2> QED
    BY <1>2, <2>1, <2>3, <2>4, LightsAlone DEF Idle
<1> QED
  BY <1>4, <1>5, <1>6, <1>7, <1>8, <1>9, <1>10, <1>11 DEF SetLedLightStatus

(* So are the steps of the blinking callback, which comes only while the   *)
(* timer runs, and a level key moves only a lamp that rests.               *)
LEMMA BlinkKeeps ==
  ASSUME LightShown, LightFlags, LightTimers, ~ruined, LampKnown,
         Blink \/ BlinkOpen \/ LevelKey, ~met'
  PROVE  ~ruined' /\ LampKnown'
<1> USE DEF LightShown, LightFlags, LightTimers, NoTimers, OneTimer, OneRuns, NoTimer, timers,
            Switched, Blinked
<1>1. "timer" \in Lighter
  BY DEF Lighter
<1>2. CASE Blink
  <2>1. AllIdle /\ running # {} /\ UNCHANGED <<ledStatus, handle, live, running, ruined>>
    BY <1>2 DEF Blink
  <2>2. OneRuns /\ ledStatus \in Blinked
    BY <2>1 DEF LampKnown, LampRests
  <2>3. PICK to \in {"dim", "bright"}: Step("timer", "out", to)
    BY <1>2 DEF Blink
  <2>4. lightPc'["timer"] = to
    BY <1>1, <2>3 DEF Step
  <2>5. SwitchedAt("timer")' /\ BlinkedAt("timer")'
    BY <2>1, <2>2, <2>4 DEF SwitchedAt, BlinkedAt
  <2> QED
    BY <1>1, <2>1, <2>3, <2>5, LightsAlone DEF AllIdle
<1>3. CASE BlinkOpen
  <2>1. PICK from \in {"dim", "bright"}: Step("timer", from, "start")
    BY <1>3 DEF BlinkOpen
  <2>2. /\ lightPc["timer"] = from /\ lightPc'["timer"] = "start"
        /\ UNCHANGED <<ledStatus, handle, live, running, ruined>>
    BY <1>1, <1>3, <2>1 DEF Step, BlinkOpen
  <2>3. OneRuns /\ ledStatus \in Blinked
    BY <1>1, <2>2 DEF LampKnown, BlinkedAt
  <2>4. SwitchedAt("timer")' /\ BlinkedAt("timer")'
    BY <2>2, <2>3 DEF SwitchedAt, BlinkedAt
  <2>5. \A u \in Lighter \ {"timer"}: Idle(u)
    BY <1>1, <2>2 DEF LampKnown, OneLights, Idle
  <2> QED
    BY <1>1, <2>1, <2>2, <2>4, <2>5, LightsAlone
<1>4. CASE LevelKey
  <2>1. /\ AllIdle /\ keyed'
        /\ UNCHANGED <<lightPc, want, ledStatus, ledOpen, handle, live, running, ruined>>
    BY <1>4 DEF LevelKey
  <2>2. \A t \in Lighter: lightPc[t] = "out"
    BY <2>1 DEF AllIdle, Idle
  <2>3. OneLights' /\ (\A t \in Lighter: SwitchedAt(t)' /\ BlinkedAt(t)')
    BY <2>1, <2>2 DEF OneLights, Idle, SwitchedAt, BlinkedAt
  <2>4. LampRests'
    BY <2>1 DEF LampKnown, LampRests, AllIdle, Idle
  <2> QED
    BY <2>1, <2>3, <2>4 DEF LampKnown
<1> QED
  BY <1>2, <1>3, <1>4

LEMMA LightStarts ==
  ASSUME LightInit
  PROVE  LightIInv
<1> USE DEF LightInit, Lighter
<1>1. LightShown /\ LightFlags
  BY DEF LightShown, LightFlags, LightSteps, Switched, Blinked
<1>4. LightTimers
  BY DEF LightTimers, NoTimer
<1>2. OneLights /\ LampRests
  BY DEF OneLights, LampRests, AllIdle, Idle
<1>3. \A t \in Lighter: SwitchedAt(t) /\ BlinkedAt(t)
  BY DEF SwitchedAt, BlinkedAt, NoTimers, Blinked
<1> QED
  BY <1>1, <1>2, <1>3, <1>4, LightTypesAre DEF LightIInv, LampKnown

LEMMA LightStep ==
  ASSUME LightIInv, [LightNext]_lightVars
  PROVE  LightIInv'
<1>1. LightShown /\ LightFlags /\ LightTimers
  BY LightTypesAre DEF LightIInv
<1>2. LightShown' /\ LightFlags' /\ LightTimers'
  BY <1>1, LightShownKept, LightFlagsKept, LightTimersKept
<1>3. LightTypes' /\ created' \in Nat
  BY <1>2 DEF LightTypes, LightShown, LightFlags, LightTimers, LightSteps
<1>4. ASSUME ~met'
      PROVE  ~ruined' /\ LampKnown'
  <2>1. ~met
    BY <1>1, <1>4 DEF LightFlags, LightNext, lightVars, SetLedLightStatus, SetStatus,
       StopTimer, ForgetTimer, Show, SetLedOpen, CreateTimer, StoreTimer, ChangePeriod, Blink,
       BlinkOpen, LevelKey
  <2>2. ~ruined /\ LampKnown
    BY <2>1 DEF LightIInv
  <2>3. CASE UNCHANGED lightVars
    BY <2>2, <2>3 DEF lightVars, LampKnown, OneLights, LampRests, AllIdle, Idle, SwitchedAt,
       BlinkedAt, NoTimers, OneTimer, OneRuns
  <2> QED
    BY <1>1, <1>4, <2>2, <2>3, SetLedLightStatusKeeps, BlinkKeeps DEF LightNext
<1> QED
  BY <1>3, <1>4 DEF LightIInv

LEMMA LightFollows ==
  ASSUME LightIInv
  PROVE  LightInv
<1>1. ASSUME ~met, AllIdle, ledStatus \in Switched
      PROVE  /\ handle = NoTimer /\ live = {} /\ ledOpen = (ledStatus = "open")
             /\ ~keyed => lit = IF ledOpen THEN "levels" ELSE "dark"
  <2>1. LightFlags /\ LampRests
    BY <1>1, LightTypesAre DEF LightIInv, LampKnown
  <2>2. ledOpen = (ledStatus = "open")
    <3>1. ledOpen <=> ledStatus = "open"
      BY <1>1, <2>1 DEF LampRests
    <3> QED
      BY <2>1, <3>1 DEF LightFlags
  <2> QED
    BY <1>1, <2>1, <2>2 DEF LampRests, NoTimers
<1>2. ASSUME ~met, AllIdle, ledStatus \notin Switched
      PROVE  handle # NoTimer /\ live = {handle} /\ running = live
  BY <1>2 DEF LightIInv, LampKnown, LampRests, OneRuns, OneTimer
<1> QED
  BY <1>1, <1>2 DEF LightIInv, LightInv, LampAsAsked

(* However often the lamp is switched, blinked and keyed: unless two of    *)
(* its threads met, no timer is used that was deleted, and after a call    *)
(* the lamp does what was asked last, by a timer the program can stop or   *)
(* by none (lum_setLedLightStatus, lum_startLightLedStatusTimer and        *)
(* lum_stopLightLedStatusTimer in deviceGpio.c).                           *)
THEOREM LightCorrect == LightSpec => []LightInv
<1>1. LightInit => LightIInv
  BY LightStarts
<1>2. LightIInv /\ [LightNext]_lightVars => LightIInv'
  BY LightStep
<1>3. LightIInv => LightInv
  BY LightFollows
<1> QED
  BY <1>1, <1>2, <1>3, PTL DEF LightSpec
-----------------------------------------------------------------------------
(***************************************************************************)
(* The dimmer, for every number of levels, all periods that fit the half    *)
(* cycle and any number of calls and keys.  What threads and interrupts do  *)
(* in whatever order leaves the hardware timer in one of its Phases; what   *)
(* only one thread at a time does leaves a level that is known.             *)
(***************************************************************************)
Due == hwTimer # Stopped

(* The hardware timer, whatever the threads do: while it waits to open the *)
(* gate there is time left to close it, and while the gate is open to      *)
(* close it, unless it was started late.                                   *)
Phases ==
    /\ dimStatus = "counting" => ~gate /\ zeroIrq /\ hwTimer <= FreqTime
    /\ dimStatus = "zero" /\ Due => hwTimer < zeroLeft /\ (~late => hwTimer + ShutTime < zeroLeft)
    /\ dimStatus = "shutdown" /\ Due => gate /\ hwTimer <= ShutTime /\ (~late => hwTimer < zeroLeft)
    /\ gate => Due
Periods == period = 0 \/ \E l \in 0 .. MaxLevel: period = DimPeriod(l)

(* What a thread alone in these functions has done so far. *)
LevelLit == leds = 1 .. level /\ (level > 0 => period = DimPeriod(level))
IrqAsLevel == dimStatus # "counting" => (zeroIrq <=> level > 0)
Entered(t) ==
    dimPc[t] \in LevelPc .. ReportPc =>
          /\ (openTold <=> wasOpen[t])
          /\ ~setting[t] => level > 0 /\ dimWant[t] > 0 /\ IrqAsLevel /\ wasOpen[t]
          /\ dimPc[t] # LevelPc => level = dimWant[t]
AtLevel(t) == dimPc[t] = LevelPc => LevelLit /\ (wasOpen[t] <=> level > 0)
AtLeds(t) ==
    dimPc[t] \in 1 .. MaxLevel + 1 =>
        \A n \in 1 .. MaxLevel: n < dimPc[t] => (n \in leds <=> n <= level)
AtReport(t) ==
    /\ dimPc[t] \in {IrqPc, ReportPc} => LevelLit /\ setting[t]
    /\ dimPc[t] = ReportPc => IrqAsLevel
SetAt(t) == Entered(t) /\ AtLevel(t) /\ AtLeds(t) /\ AtReport(t)
Aside(t) == \A u \in Leveller \ {t}: InDim(u, OutPc)
DimRested == LevelLit /\ IrqAsLevel /\ (openTold <=> level > 0)
LevelKnown ==
    /\ \A t, u \in Leveller: t # u => InDim(t, OutPc) \/ InDim(u, OutPc)
    /\ \A t \in Leveller: SetAt(t)
    /\ DimQuiet => DimRested

(* A half cycle without a call. *)
Steady ==
    steady /\ dimStatus # "counting" =>
        /\ DimQuiet
        /\ level > 0 => ~late /\ IF opened THEN dimStatus = "shutdown" ELSE dimStatus = "zero" /\ Due
        /\ level = 0 => ~opened /\ (Due => dimStatus = "shutdown" /\ hwTimer < zeroLeft)
LampFollowed == ~levelMixed /\ ~keyOpened => LevelKnown /\ Steady
DimmerIInv == DimmerTypes /\ Periods /\ Phases /\ LampFollowed

(* The periods. *)
LEMMA LevelTimes == ASSUME NEW j \in Nat, NEW m \in Nat, j <= m, NEW g \in Nat PROVE j * g <= m * g
<1>1. PICK d \in Nat: m = j + d BY SMT
<1>2. m * g = j * g + d * g BY <1>1, SMT
<1>3. d * g \in Nat /\ j * g \in Nat BY SMT
<1> QED BY <1>2, <1>3, SMT

LEMMA DimConstants ==
    /\ MaxLevel \in Nat /\ MaxLevel > 0 /\ BaseTime \in Nat /\ LevelGap \in Nat /\ LevelGap > 0
    /\ ShutTime \in Nat /\ ShutTime > 0 /\ HalfCycle \in Nat /\ FreqTime \in Nat /\ FreqTime > 0
    /\ MaxSets \in Nat /\ MaxLevelKeys \in Nat /\ ShutTime < HalfCycle
<1>1. MaxLevel \in Nat /\ MaxLevel > 0 /\ BaseTime \in Nat /\ LevelGap \in Nat /\ LevelGap > 0
      BY DimmerAssumption
<1>2. ShutTime \in Nat /\ ShutTime > 0 /\ HalfCycle \in Nat /\ FreqTime \in Nat /\ FreqTime > 0
      BY DimmerAssumption
<1>3. MaxSets \in Nat /\ MaxLevelKeys \in Nat BY DimmerAssumption
<1>4. (MaxLevel - 1) * LevelGap \in Nat BY <1>1, LevelTimes, SMT
<1>5. BaseTime + (MaxLevel - 1) * LevelGap + ShutTime < HalfCycle BY DimmerAssumption
<1>6. ShutTime < HalfCycle BY <1>1, <1>2, <1>4, <1>5, SMT
<1> QED BY <1>1, <1>2, <1>3, <1>6

LEMMA PeriodFits ==
    ASSUME NEW l \in 0 .. MaxLevel
    PROVE  /\ DimPeriod(l) \in Nat /\ DimPeriod(l) < HalfCycle
           /\ l > 0 => DimPeriod(l) + ShutTime < HalfCycle /\ DimPeriod(l) # DimPeriod(0)
<1>1. MaxLevel - l \in Nat /\ MaxLevel - l <= MaxLevel BY DimConstants, SMT
<1>2. (MaxLevel - l) * LevelGap <= MaxLevel * LevelGap BY <1>1, LevelTimes, DimConstants, SMT
<1>3. (MaxLevel - l) * LevelGap \in Nat /\ MaxLevel * LevelGap \in Nat BY <1>1, DimConstants, SMT
<1>4. BaseTime + MaxLevel * LevelGap < HalfCycle BY DimmerAssumption
<1>5. DimPeriod(l) \in Nat /\ DimPeriod(l) < HalfCycle
      BY <1>2, <1>3, <1>4, DimConstants, SMT DEF DimPeriod
<1>6. ASSUME l > 0 PROVE DimPeriod(l) + ShutTime < HalfCycle /\ DimPeriod(l) # DimPeriod(0)
  <2>1. MaxLevel - l <= MaxLevel - 1 /\ MaxLevel - 1 \in Nat BY <1>6, DimConstants, SMT
  <2>2. (MaxLevel - l) * LevelGap <= (MaxLevel - 1) * LevelGap
        BY <2>1, <1>1, LevelTimes, DimConstants, SMT
  <2>3. (MaxLevel - 1) * LevelGap \in Nat BY <2>1, DimConstants, SMT
  <2>4. BaseTime + (MaxLevel - 1) * LevelGap + ShutTime < HalfCycle BY DimmerAssumption
  <2>5. DimPeriod(l) + ShutTime < HalfCycle
        BY <2>2, <2>3, <2>4, <1>3, DimConstants, SMT DEF DimPeriod
  <2>6. MaxLevel * LevelGap = (MaxLevel - 1) * LevelGap + LevelGap BY DimConstants, SMT
  <2>7. DimPeriod(0) = BaseTime + MaxLevel * LevelGap BY DimConstants, SMT DEF DimPeriod
  <2>8. DimPeriod(l) # DimPeriod(0)
        BY <2>2, <2>3, <2>6, <2>7, <1>3, DimConstants, SMT DEF DimPeriod
  <2> QED BY <2>5, <2>8
<1> QED BY <1>5, <1>6

(* The types, in parts.                                                    *)
DimPlaces == dimPc \in [Leveller -> LevelPc .. OutPc]
DimWishes ==
    /\ dimWant \in [Leveller -> 0 .. MaxLevel]
    /\ setting \in [Leveller -> BOOLEAN] /\ wasOpen \in [Leveller -> BOOLEAN]
DimLevels == level \in 0 .. MaxLevel /\ leds \subseteq 1 .. MaxLevel
DimFlags ==
    /\ zeroIrq \in BOOLEAN /\ gate \in BOOLEAN /\ openTold \in BOOLEAN /\ steady \in BOOLEAN
    /\ opened \in BOOLEAN /\ late \in BOOLEAN /\ keyOpened \in BOOLEAN
    /\ levelMixed \in BOOLEAN
DimTimers ==
    /\ dimStatus \in {"counting", "zero", "shutdown"}
    /\ hwTimer \in 0 .. Stopped /\ zeroLeft \in 0 .. HalfCycle
DimCounts ==
    /\ keyTimers \subseteq {"up", "down"}
    /\ sets \in 0 .. MaxSets /\ levelKeys \in 0 .. MaxLevelKeys
DimTyped ==
    /\ DimPlaces /\ DimWishes /\ DimLevels /\ DimFlags /\ DimTimers /\ DimCounts /\ Periods

LEMMA PeriodsFit == ASSUME Periods PROVE period \in Nat /\ period < HalfCycle
<1>1. CASE period = 0 BY <1>1, DimConstants
<1>2. CASE \E l \in 0 .. MaxLevel: period = DimPeriod(l)
  <2>1. PICK l \in 0 .. MaxLevel: period = DimPeriod(l) BY <1>2
  <2> QED BY <2>1, PeriodFits
<1> QED BY <1>1, <1>2 DEF Periods

LEMMA DimTypesAre == DimTyped <=> DimmerTypes /\ Periods
<1>1. Periods => period \in 0 .. HalfCycle BY PeriodsFit, DimConstants
<1> QED BY <1>1 DEF DimTyped, DimPlaces, DimWishes, DimLevels, DimFlags, DimTimers,
        DimCounts, DimmerTypes

(* Every step keeps them.                                                  *)

LEMMA DimPlacesKept ==
  ASSUME DimPlaces, [DimmerNext]_dimmerVars
  PROVE  DimPlaces'
<1> USE DimConstants DEF DimPlaces, LevelPc, IrqPc, ReportPc, OutPc
<1>1. CASE UNCHANGED dimmerVars
  BY <1>1 DEF dimmerVars, caller, mains, counts
<1>2. ASSUME NEW t \in Leveller, SetSwitch(t) PROVE DimPlaces'
  BY <1>2 DEF SetSwitch, caller, mains, counts, DimTo, InDim, Call
<1>3. ASSUME NEW t \in Leveller, ChangeLevel(t) PROVE DimPlaces'
  BY <1>3 DEF ChangeLevel, caller, mains, counts, DimTo, InDim, Leave
<1>4. ASSUME NEW t \in Leveller, SetLed(t) PROVE DimPlaces'
  BY <1>4 DEF SetLed, caller, mains, counts, DimTo, InDim
<1>5. ASSUME NEW t \in Leveller, SetPeriod(t) PROVE DimPlaces'
  BY <1>5 DEF SetPeriod, caller, mains, counts, DimTo, InDim, Leave
<1>6. ASSUME NEW t \in Leveller, SwitchZeroIrq(t) PROVE DimPlaces'
  BY <1>6 DEF SwitchZeroIrq, caller, mains, counts, DimTo, InDim
<1>7. ASSUME NEW t \in Leveller, ReportSwitch(t) PROVE DimPlaces'
  BY <1>7 DEF ReportSwitch, caller, mains, counts, DimTo, InDim
<1>8. ASSUME NEW key \in {"up", "down"}, LevelKeyIrq(key) PROVE DimPlaces'
  BY <1>8 DEF LevelKeyIrq, caller, mains, counts, DimTo, InDim
<1>9. ASSUME NEW key \in {"up", "down"}, LevelKeyTimer(key) PROVE DimPlaces'
  BY <1>9 DEF LevelKeyTimer, caller, mains, counts, DimTo, InDim, Call
<1>10. CASE HwTimer
  BY <1>10 DEF HwTimer, caller, mains, counts
<1>11. CASE ACZeroDetectIrq
  BY <1>11 DEF ACZeroDetectIrq, caller, mains, counts
<1>12. CASE MainsTick
  BY <1>12 DEF MainsTick, caller, mains, counts
<1> QED
  BY <1>1, <1>2, <1>3, <1>4, <1>5, <1>6, <1>7, <1>8, <1>9, <1>10, <1>11, <1>12
     DEF DimmerNext

LEMMA DimWishesKept ==
  ASSUME DimWishes, DimLevels, [DimmerNext]_dimmerVars
  PROVE  DimWishes'
<1> USE DimConstants DEF DimWishes, DimLevels
<1>1. CASE UNCHANGED dimmerVars
  BY <1>1 DEF dimmerVars, caller, mains, counts
<1>2. ASSUME NEW t \in Leveller, SetSwitch(t) PROVE DimWishes'
  BY <1>2 DEF SetSwitch, caller, mains, counts, DimTo, InDim, Call
<1>3. ASSUME NEW t \in Leveller, ChangeLevel(t) PROVE DimWishes'
  BY <1>3 DEF ChangeLevel, caller, mains, counts, DimTo, InDim, Leave
<1>4. ASSUME NEW t \in Leveller, SetLed(t) PROVE DimWishes'
  BY <1>4 DEF SetLed, caller, mains, counts, DimTo, InDim
<1>5. ASSUME NEW t \in Leveller, SetPeriod(t) PROVE DimWishes'
  BY <1>5 DEF SetPeriod, caller, mains, counts, DimTo, InDim, Leave
<1>6. ASSUME NEW t \in Leveller, SwitchZeroIrq(t) PROVE DimWishes'
  BY <1>6 DEF SwitchZeroIrq, caller, mains, counts, DimTo, InDim
<1>7. ASSUME NEW t \in Leveller, ReportSwitch(t) PROVE DimWishes'
  BY <1>7 DEF ReportSwitch, caller, mains, counts, DimTo, InDim
<1>8. ASSUME NEW key \in {"up", "down"}, LevelKeyIrq(key) PROVE DimWishes'
  BY <1>8 DEF LevelKeyIrq, caller, mains, counts, DimTo, InDim
<1>9. ASSUME NEW key \in {"up", "down"}, LevelKeyTimer(key) PROVE DimWishes'
  <2>1. CASE UNCHANGED caller BY <2>1 DEF caller
  <2>2. CASE ~UNCHANGED caller
    <3>1. /\ Call("timer", IF key = "up" THEN level + 1 ELSE level - 1, FALSE)
          /\ IF key = "up" THEN level < MaxLevel ELSE level > 1
          BY <2>2, <1>9, Zenon DEF LevelKeyTimer
    <3>2. (IF key = "up" THEN level + 1 ELSE level - 1) \in 0 .. MaxLevel BY <3>1
    <3>3. PICK l \in 0 .. MaxLevel: Call("timer", l, FALSE) BY <3>1, <3>2
    <3> QED BY <3>3 DEF Call, Leveller
  <2> QED BY <2>1, <2>2
<1>10. CASE HwTimer
  BY <1>10 DEF HwTimer, caller, mains, counts
<1>11. CASE ACZeroDetectIrq
  BY <1>11 DEF ACZeroDetectIrq, caller, mains, counts
<1>12. CASE MainsTick
  BY <1>12 DEF MainsTick, caller, mains, counts
<1> QED
  BY <1>1, <1>2, <1>3, <1>4, <1>5, <1>6, <1>7, <1>8, <1>9, <1>10, <1>11, <1>12
     DEF DimmerNext

LEMMA DimLevelsKept ==
  ASSUME DimLevels, DimWishes, DimPlaces, [DimmerNext]_dimmerVars
  PROVE  DimLevels'
<1> USE DimConstants DEF DimLevels, DimWishes
<1>1. CASE UNCHANGED dimmerVars
  BY <1>1 DEF dimmerVars, caller, mains, counts
<1>2. ASSUME NEW t \in Leveller, SetSwitch(t) PROVE DimLevels'
  BY <1>2 DEF SetSwitch, caller, mains, counts, DimTo, InDim, Call
<1>3. ASSUME NEW t \in Leveller, ChangeLevel(t) PROVE DimLevels'
  BY <1>3 DEF ChangeLevel, caller, mains, counts, DimTo, InDim, Leave
<1>4. ASSUME NEW t \in Leveller, SetLed(t) PROVE DimLevels'
  BY <1>4 DEF SetLed, caller, mains, counts, DimTo, InDim
<1>5. ASSUME NEW t \in Leveller, SetPeriod(t) PROVE DimLevels'
  BY <1>5 DEF SetPeriod, caller, mains, counts, DimTo, InDim, Leave
<1>6. ASSUME NEW t \in Leveller, SwitchZeroIrq(t) PROVE DimLevels'
  BY <1>6 DEF SwitchZeroIrq, caller, mains, counts, DimTo, InDim
<1>7. ASSUME NEW t \in Leveller, ReportSwitch(t) PROVE DimLevels'
  BY <1>7 DEF ReportSwitch, caller, mains, counts, DimTo, InDim
<1>8. ASSUME NEW key \in {"up", "down"}, LevelKeyIrq(key) PROVE DimLevels'
  BY <1>8 DEF LevelKeyIrq, caller, mains, counts, DimTo, InDim
<1>9. ASSUME NEW key \in {"up", "down"}, LevelKeyTimer(key) PROVE DimLevels'
  BY <1>9 DEF LevelKeyTimer, caller, mains, counts, DimTo, InDim, Call
<1>10. CASE HwTimer
  BY <1>10 DEF HwTimer, caller, mains, counts
<1>11. CASE ACZeroDetectIrq
  BY <1>11 DEF ACZeroDetectIrq, caller, mains, counts
<1>12. CASE MainsTick
  BY <1>12 DEF MainsTick, caller, mains, counts
<1> QED
  BY <1>1, <1>2, <1>3, <1>4, <1>5, <1>6, <1>7, <1>8, <1>9, <1>10, <1>11, <1>12
     DEF DimmerNext

LEMMA DimFlagsKept ==
  ASSUME DimFlags, DimWishes, [DimmerNext]_dimmerVars
  PROVE  DimFlags'
<1> USE DEF DimFlags, DimWishes
<1>1. CASE UNCHANGED dimmerVars
  BY <1>1 DEF dimmerVars, caller, mains, counts
<1>2. ASSUME NEW t \in Leveller, SetSwitch(t) PROVE DimFlags'
  BY <1>2 DEF SetSwitch, caller, mains, counts, DimTo, InDim, Call
<1>3. ASSUME NEW t \in Leveller, ChangeLevel(t) PROVE DimFlags'
  BY <1>3, Zenon DEF ChangeLevel, mains
<1>4. ASSUME NEW t \in Leveller, SetLed(t) PROVE DimFlags'
  BY <1>4, Zenon DEF SetLed, mains
<1>5. ASSUME NEW t \in Leveller, SetPeriod(t) PROVE DimFlags'
  <2>1. UNCHANGED <<zeroIrq, gate, openTold, steady, opened, late, keyOpened, levelMixed>>
        BY <1>5 DEF SetPeriod, mains
  <2> QED BY <2>1
<1>6. ASSUME NEW t \in Leveller, SwitchZeroIrq(t) PROVE DimFlags'
  <2>0. (dimWant[t] > 0) \in BOOLEAN BY SMT
  <2>1. zeroIrq' \in BOOLEAN BY <2>0, <1>6, Zenon DEF SwitchZeroIrq
  <2>2. UNCHANGED <<gate, openTold, steady, opened, late, keyOpened, levelMixed>>
        BY <1>6 DEF SwitchZeroIrq, mains
  <2> QED BY <2>1, <2>2
<1>7. ASSUME NEW t \in Leveller, ReportSwitch(t) PROVE DimFlags'
  <2>0. (dimWant[t] > 0) \in BOOLEAN BY SMT
  <2>1. openTold' \in BOOLEAN BY <2>0, <1>7, Zenon DEF ReportSwitch
  <2>2. UNCHANGED <<zeroIrq, gate, steady, opened, late, keyOpened, levelMixed>>
        BY <1>7 DEF ReportSwitch, mains
  <2> QED BY <2>1, <2>2
<1>8. ASSUME NEW key \in {"up", "down"}, LevelKeyIrq(key) PROVE DimFlags'
  BY <1>8 DEF LevelKeyIrq, caller, mains, counts, DimTo, InDim
<1>9. ASSUME NEW key \in {"up", "down"}, LevelKeyTimer(key) PROVE DimFlags'
  BY <1>9 DEF LevelKeyTimer, caller, mains, counts, DimTo, InDim, Call
<1>10. CASE HwTimer
  BY <1>10 DEF HwTimer, caller, mains, counts
<1>11. CASE ACZeroDetectIrq
  <2>1. steady' \in BOOLEAN /\ opened' \in BOOLEAN BY <1>11 DEF ACZeroDetectIrq, DimQuiet
  <2>2. late' \in BOOLEAN BY <1>11 DEF ACZeroDetectIrq
  <2> QED BY <1>11, <2>1, <2>2 DEF ACZeroDetectIrq
<1>12. CASE MainsTick
  BY <1>12 DEF MainsTick, caller, mains, counts
<1> QED
  BY <1>1, <1>2, <1>3, <1>4, <1>5, <1>6, <1>7, <1>8, <1>9, <1>10, <1>11, <1>12
     DEF DimmerNext

LEMMA DimTimersKept ==
  ASSUME DimTimers, Periods, [DimmerNext]_dimmerVars
  PROVE  DimTimers'
<1> USE DimConstants, PeriodsFit DEF DimTimers, Stopped
<1>1. CASE UNCHANGED dimmerVars
  BY <1>1 DEF dimmerVars, caller, mains, counts
<1>2. ASSUME NEW t \in Leveller, SetSwitch(t) PROVE DimTimers'
  BY <1>2 DEF SetSwitch, caller, mains, counts, DimTo, InDim, Call
<1>3. ASSUME NEW t \in Leveller, ChangeLevel(t) PROVE DimTimers'
  BY <1>3 DEF ChangeLevel, caller, mains, counts, DimTo, InDim, Leave
<1>4. ASSUME NEW t \in Leveller, SetLed(t) PROVE DimTimers'
  BY <1>4 DEF SetLed, caller, mains, counts, DimTo, InDim
<1>5. ASSUME NEW t \in Leveller, SetPeriod(t) PROVE DimTimers'
  BY <1>5 DEF SetPeriod, caller, mains, counts, DimTo, InDim, Leave
<1>6. ASSUME NEW t \in Leveller, SwitchZeroIrq(t) PROVE DimTimers'
  BY <1>6 DEF SwitchZeroIrq, caller, mains, counts, DimTo, InDim
<1>7. ASSUME NEW t \in Leveller, ReportSwitch(t) PROVE DimTimers'
  BY <1>7 DEF ReportSwitch, caller, mains, counts, DimTo, InDim
<1>8. ASSUME NEW key \in {"up", "down"}, LevelKeyIrq(key) PROVE DimTimers'
  BY <1>8 DEF LevelKeyIrq, caller, mains, counts, DimTo, InDim
<1>9. ASSUME NEW key \in {"up", "down"}, LevelKeyTimer(key) PROVE DimTimers'
  BY <1>9 DEF LevelKeyTimer, caller, mains, counts, DimTo, InDim, Call
<1>10. CASE HwTimer
  BY <1>10 DEF HwTimer, caller, mains, counts
<1>11. CASE ACZeroDetectIrq
  BY <1>11 DEF ACZeroDetectIrq, caller, mains, counts
<1>12. CASE MainsTick
  BY <1>12 DEF MainsTick, caller, mains, counts
<1> QED
  BY <1>1, <1>2, <1>3, <1>4, <1>5, <1>6, <1>7, <1>8, <1>9, <1>10, <1>11, <1>12
     DEF DimmerNext

LEMMA DimCountsKept ==
  ASSUME DimCounts, [DimmerNext]_dimmerVars
  PROVE  DimCounts'
<1> USE DimConstants DEF DimCounts
<1>1. CASE UNCHANGED dimmerVars
  BY <1>1 DEF dimmerVars, caller, mains, counts
<1>2. ASSUME NEW t \in Leveller, SetSwitch(t) PROVE DimCounts'
  BY <1>2 DEF SetSwitch, caller, mains, counts, DimTo, InDim, Call
<1>3. ASSUME NEW t \in Leveller, ChangeLevel(t) PROVE DimCounts'
  BY <1>3 DEF ChangeLevel, caller, mains, counts, DimTo, InDim, Leave
<1>4. ASSUME NEW t \in Leveller, SetLed(t) PROVE DimCounts'
  BY <1>4 DEF SetLed, caller, mains, counts, DimTo, InDim
<1>5. ASSUME NEW t \in Leveller, SetPeriod(t) PROVE DimCounts'
  BY <1>5 DEF SetPeriod, caller, mains, counts, DimTo, InDim, Leave
<1>6. ASSUME NEW t \in Leveller, SwitchZeroIrq(t) PROVE DimCounts'
  BY <1>6 DEF SwitchZeroIrq, caller, mains, counts, DimTo, InDim
<1>7. ASSUME NEW t \in Leveller, ReportSwitch(t) PROVE DimCounts'
  BY <1>7 DEF ReportSwitch, caller, mains, counts, DimTo, InDim
<1>8. ASSUME NEW key \in {"up", "down"}, LevelKeyIrq(key) PROVE DimCounts'
  BY <1>8 DEF LevelKeyIrq, caller, mains, counts, DimTo, InDim
<1>9. ASSUME NEW key \in {"up", "down"}, LevelKeyTimer(key) PROVE DimCounts'
  BY <1>9 DEF LevelKeyTimer, caller, mains, counts, DimTo, InDim, Call
<1>10. CASE HwTimer
  BY <1>10 DEF HwTimer, caller, mains, counts
<1>11. CASE ACZeroDetectIrq
  BY <1>11 DEF ACZeroDetectIrq, caller, mains, counts
<1>12. CASE MainsTick
  BY <1>12 DEF MainsTick, caller, mains, counts
<1> QED
  BY <1>1, <1>2, <1>3, <1>4, <1>5, <1>6, <1>7, <1>8, <1>9, <1>10, <1>11, <1>12
     DEF DimmerNext

LEMMA PeriodsKept ==
  ASSUME Periods, DimLevels, [DimmerNext]_dimmerVars
  PROVE  Periods'
<1> USE DEF Periods, DimLevels, DimPeriod
<1>1. CASE UNCHANGED dimmerVars
  BY <1>1 DEF dimmerVars, caller, mains, counts
<1>2. ASSUME NEW t \in Leveller, SetSwitch(t) PROVE Periods'
  BY <1>2 DEF SetSwitch, caller, mains, counts, DimTo, InDim, Call
<1>3. ASSUME NEW t \in Leveller, ChangeLevel(t) PROVE Periods'
  BY <1>3 DEF ChangeLevel, caller, mains, counts, DimTo, InDim, Leave
<1>4. ASSUME NEW t \in Leveller, SetLed(t) PROVE Periods'
  BY <1>4 DEF SetLed, caller, mains, counts, DimTo, InDim
<1>5. ASSUME NEW t \in Leveller, SetPeriod(t) PROVE Periods'
  BY <1>5 DEF SetPeriod, caller, mains, counts, DimTo, InDim, Leave
<1>6. ASSUME NEW t \in Leveller, SwitchZeroIrq(t) PROVE Periods'
  BY <1>6 DEF SwitchZeroIrq, caller, mains, counts, DimTo, InDim
<1>7. ASSUME NEW t \in Leveller, ReportSwitch(t) PROVE Periods'
  BY <1>7 DEF ReportSwitch, caller, mains, counts, DimTo, InDim
<1>8. ASSUME NEW key \in {"up", "down"}, LevelKeyIrq(key) PROVE Periods'
  BY <1>8 DEF LevelKeyIrq, caller, mains, counts, DimTo, InDim
<1>9. ASSUME NEW key \in {"up", "down"}, LevelKeyTimer(key) PROVE Periods'
  BY <1>9 DEF LevelKeyTimer, caller, mains, counts, DimTo, InDim, Call
<1>10. CASE HwTimer
  BY <1>10 DEF HwTimer, caller, mains, counts
<1>11. CASE ACZeroDetectIrq
  BY <1>11 DEF ACZeroDetectIrq, caller, mains, counts
<1>12. CASE MainsTick
  BY <1>12 DEF MainsTick, caller, mains, counts
<1> QED
  BY <1>1, <1>2, <1>3, <1>4, <1>5, <1>6, <1>7, <1>8, <1>9, <1>10, <1>11, <1>12
     DEF DimmerNext

(* Whatever the threads do, the hardware timer stays in one of its phases. *)
LEMMA PhasesKept ==
  ASSUME Phases, DimTyped, [DimmerNext]_dimmerVars
  PROVE  Phases'
<1> USE DEF Due
<1>1. UNCHANGED <<mains, zeroIrq>> => Phases'
  BY DEF Phases, mains
<1>2. CASE UNCHANGED dimmerVars
  BY <1>1, <1>2 DEF dimmerVars, mains
<1>3. ASSUME NEW t \in Leveller,
             SetSwitch(t) \/ ChangeLevel(t) \/ SetLed(t) \/ SetPeriod(t) \/ ReportSwitch(t)
      PROVE  Phases'
  BY <1>1, <1>3 DEF SetSwitch, ChangeLevel, SetLed, SetPeriod, ReportSwitch
<1>4. ASSUME NEW t \in Leveller, SwitchZeroIrq(t) PROVE Phases'
  <2>1. UNCHANGED mains /\ (dimStatus = "counting" => zeroIrq' = zeroIrq)
        BY <1>4 DEF SwitchZeroIrq
  <2> QED BY <2>1 DEF Phases, mains
<1>5. ASSUME NEW key \in {"up", "down"}, LevelKeyIrq(key) \/ LevelKeyTimer(key) PROVE Phases'
  BY <1>1, <1>5 DEF LevelKeyIrq, LevelKeyTimer
<1> USE DEF DimTyped, DimTimers
<1>6. CASE HwTimer
  <2>1. CASE dimStatus = "counting"
    <3>1. gate' = FALSE /\ hwTimer' = Stopped /\ dimStatus' = "zero"
          BY <1>6, <2>1 DEF HwTimer, Phases
    <3> QED BY <3>1 DEF Phases
  <2>2. CASE dimStatus = "zero"
    <3>1. gate' = TRUE /\ hwTimer' = ShutTime /\ dimStatus' = "shutdown" /\ hwTimer = 0
          BY <1>6, <2>2 DEF HwTimer
    <3>2. Stopped > ShutTime BY DimConstants DEF Stopped
    <3>3. ~late => ShutTime < zeroLeft BY <3>1, <3>2, <2>2, DimConstants DEF Phases
    <3> QED BY <1>6, <3>1, <3>2, <3>3, DimConstants DEF Phases, HwTimer
  <2>3. CASE dimStatus = "shutdown"
    <3>1. gate' = FALSE /\ hwTimer' = Stopped /\ dimStatus' = "shutdown"
          BY <1>6, <2>3 DEF HwTimer
    <3> QED BY <3>1 DEF Phases
  <2> QED BY <2>1, <2>2, <2>3
<1>7. CASE ACZeroDetectIrq
  <2>1. zeroLeft = 0 /\ zeroLeft' = HalfCycle /\ UNCHANGED <<zeroIrq, gate>>
        BY <1>7 DEF ACZeroDetectIrq
  <2>2. CASE zeroIrq /\ dimStatus # "counting" /\ level > 0
    <3>1. dimStatus' = "zero" /\ hwTimer' = period /\ (late' <=> period = DimPeriod(0))
          BY <1>7, <2>2 DEF ACZeroDetectIrq
    <3>2. period \in Nat /\ period < HalfCycle BY PeriodsFit
    <3>3. ~late' => period + ShutTime < HalfCycle
      <4>1. CASE period = 0 BY <4>1, DimConstants
      <4>2. ASSUME NEW l \in 0 .. MaxLevel, period = DimPeriod(l), ~late'
            PROVE  period + ShutTime < HalfCycle
        BY <3>1, <4>2, PeriodFits
      <4> QED BY <4>1, <4>2 DEF Periods
    <3>4. Stopped > period BY <3>2, DimConstants DEF Stopped
    <3> QED BY <2>1, <3>1, <3>2, <3>3, <3>4 DEF Phases
  <2>3. CASE ~(zeroIrq /\ dimStatus # "counting" /\ level > 0)
    <3>1. hwTimer' = hwTimer /\ (late' <=> late /\ gate)
          BY <1>7, <2>3 DEF ACZeroDetectIrq
    <3>2. dimStatus' = dimStatus \/ (dimStatus' = "zero" /\ dimStatus # "counting" /\ zeroIrq)
          BY <1>7 DEF ACZeroDetectIrq
    <3>3. ~(dimStatus = "zero" /\ Due) BY <2>1, DimConstants DEF Phases
    <3>4. dimStatus = "shutdown" /\ Due => gate /\ hwTimer <= ShutTime /\ late
          BY <2>1 DEF Phases
    <3>5. CASE dimStatus' = dimStatus
      <4>1. dimStatus = "shutdown" /\ Due => late' BY <3>1, <3>4
      <4> QED BY <2>1, <3>1, <3>3, <3>4, <3>5, <4>1 DEF Phases
    <3>6. CASE dimStatus' = "zero" /\ dimStatus # "counting" /\ zeroIrq
      <4>1. CASE ~Due BY <2>1, <3>1, <3>6, <4>1 DEF Phases
      <4>2. CASE Due
        <5>1. hwTimer < HalfCycle /\ late' BY <4>2, <3>1, <3>3, <3>4, <3>6, DimConstants
        <5> QED BY <5>1, <2>1, <3>1, <3>6, <4>2 DEF Phases
      <4> QED BY <4>1, <4>2
    <3> QED BY <3>2, <3>5, <3>6
  <2> QED BY <2>2, <2>3
<1>8. CASE MainsTick
  <2>1. zeroLeft > 0 /\ hwTimer > 0 /\ zeroLeft' = zeroLeft - 1
        /\ UNCHANGED <<dimStatus, gate, late, zeroIrq>>
        BY <1>8 DEF MainsTick
  <2>2. CASE hwTimer = Stopped BY <1>8, <2>1, <2>2 DEF MainsTick, Phases
  <2>3. CASE hwTimer # Stopped
    <3>1. hwTimer' = hwTimer - 1 /\ hwTimer - 1 # Stopped
          BY <1>8, <2>1, <2>3, DimConstants DEF MainsTick, Stopped
    <3> QED BY <2>1, <2>3, <3>1, DimConstants DEF Phases
  <2> QED BY <2>2, <2>3
<1> QED
  BY <1>2, <1>3, <1>4, <1>5, <1>6, <1>7, <1>8 DEF DimmerNext

(* Two threads were never in the functions of the level at once, and the   *)
(* one that is there leaves the level known.                               *)
LEMMA OnlyThread ==
  ASSUME LevelKnown, NEW t \in Leveller, ~InDim(t, OutPc)
  PROVE  Aside(t)
BY DEF LevelKnown, Aside

LEMMA OneMoves ==
  ASSUME DimPlaces, NEW t \in Leveller, Aside(t), NEW n \in LevelPc .. OutPc, DimTo(t, n)
  PROVE  Aside(t)' /\ dimPc'[t] = n
BY DEF DimPlaces, Aside, DimTo, InDim

LEMMA OneKnown ==
  ASSUME NEW t \in Leveller, Aside(t)', SetAt(t)', (dimPc'[t] = OutPc) => DimRested'
  PROVE  LevelKnown'
<1> USE DimConstants DEF LevelPc, IrqPc, ReportPc, OutPc, InDim
<1>1. ASSUME NEW u \in Leveller, u # t PROVE SetAt(u)'
  <2>1. dimPc'[u] = OutPc BY <1>1 DEF Aside
  <2> QED BY <2>1 DEF SetAt, Entered, AtLevel, AtLeds, AtReport
<1>2. \A u, v \in Leveller: u # v => InDim(u, OutPc)' \/ InDim(v, OutPc)'
  BY DEF Aside
<1>3. DimQuiet' => DimRested' BY DEF DimQuiet
<1> QED BY <1>1, <1>2, <1>3 DEF LevelKnown

LEMMA SetSwitchKnown ==
  ASSUME LevelKnown, DimTyped, NEW t \in Leveller, SetSwitch(t), ~levelMixed'
  PROVE  LevelKnown'
<1> USE DEF DimTyped
<1>1. PICK l \in {0, MaxLevel}: Call(t, l, TRUE) BY DEF SetSwitch
<1>2. Aside(t) BY <1>1 DEF Call, Aside
<1>3. InDim(t, OutPc) /\ DimQuiet BY <1>2 DEF SetSwitch, Aside, DimQuiet
<1>4. Aside(t)' /\ dimPc'[t] = LevelPc
  <2>1. LevelPc \in LevelPc .. OutPc BY DimConstants DEF LevelPc, OutPc
  <2> QED BY <1>1, <1>2, <2>1, OneMoves DEF Call
<1>5. setting'[t] = TRUE /\ (wasOpen'[t] <=> level > 0)
      BY <1>1 DEF Call, DimWishes
<1>6. UNCHANGED <<level, leds, period, zeroIrq, openTold, dimStatus>> BY DEF SetSwitch, mains
<1>7. LevelLit' /\ (openTold' <=> level' > 0)
      BY <1>3, <1>6 DEF LevelKnown, DimRested, LevelLit
<1>8. SetAt(t)'
  <2>1. Entered(t)' BY <1>4, <1>5, <1>6, <1>7 DEF Entered
  <2>2. AtLevel(t)' BY <1>5, <1>6, <1>7 DEF AtLevel
  <2>3. AtLeds(t)' /\ AtReport(t)'
        BY <1>4, DimConstants DEF AtLeds, AtReport, LevelPc, IrqPc, ReportPc
  <2> QED BY <2>1, <2>2, <2>3 DEF SetAt
<1>9. dimPc'[t] # OutPc BY <1>4, DimConstants DEF LevelPc, OutPc
<1> QED BY <1>4, <1>8, <1>9, OneKnown

LEMMA LevelKeyKnown ==
  ASSUME LevelKnown, DimTyped, NEW key \in {"up", "down"}, LevelKeyTimer(key), ~levelMixed',
         ~keyOpened'
  PROVE  LevelKnown'
<1> USE DEF DimTyped
<1> DEFINE new == IF key = "up" THEN level + 1 ELSE level - 1
<1>0. UNCHANGED <<level, leds, period, zeroIrq, openTold, dimStatus>>
      BY DEF LevelKeyTimer, mains
<1>1. CASE UNCHANGED <<dimPc, caller, steady, levelMixed, keyOpened>>
  <2>1. UNCHANGED <<dimPc, dimWant, setting, wasOpen>> BY <1>1 DEF caller
  <2> QED BY <1>0, <2>1 DEF LevelKnown, SetAt, Entered, AtLevel, AtLeds, AtReport, DimQuiet,
          InDim, DimRested, LevelLit, IrqAsLevel
<1>2. CASE Call("timer", new, FALSE) /\ (IF key = "up" THEN level < MaxLevel ELSE level > 1)
           /\ (keyOpened' <=> (keyOpened \/ level = 0))
  <2> DEFINE t == "timer"
  <2>1. t \in Leveller BY DEF Leveller
  <2>2. level > 0 /\ new > 0 BY <1>2 DEF DimLevels
  <2> HIDE DEF new
  <2>3. Aside(t) BY <1>2 DEF Call, Aside
  <2>4. InDim(t, OutPc) /\ DimQuiet BY <2>3 DEF LevelKeyTimer, Aside, DimQuiet
  <2>5. Aside(t)' /\ dimPc'[t] = LevelPc
    <3>1. LevelPc \in LevelPc .. OutPc BY DimConstants DEF LevelPc, OutPc
    <3> QED BY <1>2, <2>1, <2>3, <3>1, OneMoves DEF Call
  <2>6. setting'[t] = FALSE /\ (wasOpen'[t] <=> level > 0) /\ dimWant'[t] = new
        BY <1>2, <2>1 DEF Call, DimWishes
  <2>7. LevelLit' /\ (openTold' <=> level' > 0) /\ IrqAsLevel'
        BY <1>0, <2>4 DEF LevelKnown, DimRested, LevelLit, IrqAsLevel
  <2>8. SetAt(t)'
    <3>1. Entered(t)' BY <1>0, <2>2, <2>5, <2>6, <2>7 DEF Entered
    <3>2. AtLevel(t)' BY <1>0, <2>6, <2>7 DEF AtLevel
    <3>3. AtLeds(t)' /\ AtReport(t)'
          BY <2>5, DimConstants DEF AtLeds, AtReport, LevelPc, IrqPc, ReportPc
    <3> QED BY <3>1, <3>2, <3>3 DEF SetAt
  <2>9. dimPc'[t] # OutPc BY <2>5, DimConstants DEF LevelPc, OutPc
  <2> QED BY <2>1, <2>5, <2>8, <2>9, OneKnown
<1> QED BY <1>1, <1>2 DEF LevelKeyTimer

LEMMA ChangeLevelKnown ==
  ASSUME LevelKnown, DimTyped, NEW t \in Leveller, ChangeLevel(t), ~keyOpened
  PROVE  LevelKnown'
<1> USE DEF DimTyped
<1>1. InDim(t, LevelPc) /\ level' = dimWant[t] BY DEF ChangeLevel
<1>2. ~InDim(t, OutPc) BY <1>1, DimConstants DEF InDim, LevelPc, OutPc
<1>3. Aside(t) BY <1>2, OnlyThread
<1>4. UNCHANGED <<leds, period, zeroIrq, openTold, dimStatus, dimWant, setting, wasOpen>>
      BY DEF ChangeLevel, mains, caller
<1>5. LevelLit /\ (wasOpen[t] <=> level > 0) /\ (openTold <=> wasOpen[t])
      /\ (~setting[t] => level > 0 /\ dimWant[t] > 0 /\ IrqAsLevel /\ wasOpen[t])
      BY <1>1, DimConstants
      DEF LevelKnown, SetAt, Entered, AtLevel, InDim, LevelPc, ReportPc
<1>6. ~setting[t] => level' > 0 /\ IrqAsLevel' BY <1>1, <1>4, <1>5 DEF IrqAsLevel
<1>7. CASE level = dimWant[t]
  <2>1. DimTo(t, IF setting[t] THEN IrqPc ELSE OutPc) BY <1>7 DEF ChangeLevel, Leave
  <2>2. (IF setting[t] THEN IrqPc ELSE OutPc) \in LevelPc .. OutPc
        BY DimConstants DEF LevelPc, IrqPc, OutPc
  <2>3. Aside(t)' /\ dimPc'[t] = IF setting[t] THEN IrqPc ELSE OutPc
        BY <1>3, <2>1, <2>2, OneMoves
  <2>4. LevelLit' /\ level' = level BY <1>1, <1>4, <1>5, <1>7 DEF LevelLit
  <2>5. CASE setting[t]
    <3>1. dimPc'[t] = IrqPc BY <2>3, <2>5
    <3>2. Entered(t)' BY <1>1, <1>4, <1>5, <2>5 DEF Entered
    <3>3. AtLevel(t)' /\ AtLeds(t)' /\ AtReport(t)'
          BY <3>1, <1>4, <2>4, <2>5, DimConstants
          DEF AtLevel, AtLeds, AtReport, LevelPc, IrqPc, ReportPc
    <3>4. dimPc'[t] # OutPc BY <3>1, DimConstants DEF IrqPc, OutPc
    <3> QED BY <2>3, <3>2, <3>3, <3>4, OneKnown DEF SetAt
  <2>6. CASE ~setting[t]
    <3>1. dimPc'[t] = OutPc BY <2>3, <2>6
    <3>2. SetAt(t)'
          BY <3>1, DimConstants DEF SetAt, Entered, AtLevel, AtLeds, AtReport, LevelPc,
             IrqPc, ReportPc, OutPc
    <3>3. DimRested' BY <1>4, <1>5, <1>6, <2>4, <2>6 DEF DimRested
    <3> QED BY <2>3, <3>2, <3>3, OneKnown
  <2> QED BY <2>5, <2>6
<1>8. CASE level # dimWant[t]
  <2>1. DimTo(t, 1) BY <1>8 DEF ChangeLevel
  <2>2. 1 \in LevelPc .. OutPc BY DimConstants DEF LevelPc, OutPc
  <2>3. Aside(t)' /\ dimPc'[t] = 1 BY <1>3, <2>1, <2>2, OneMoves
  <2>4. Entered(t)' BY <1>1, <1>4, <1>5, <1>6 DEF Entered
  <2>5. AtLeds(t)' BY <2>3 DEF AtLeds
  <2>6. AtLevel(t)' /\ AtReport(t)'
        BY <2>3, DimConstants DEF AtLevel, AtReport, LevelPc, IrqPc, ReportPc
  <2>7. dimPc'[t] # OutPc BY <2>3, DimConstants DEF OutPc
  <2> QED BY <2>3, <2>4, <2>5, <2>6, <2>7, OneKnown DEF SetAt
<1> QED BY <1>7, <1>8

LEMMA SetLedKnown ==
  ASSUME LevelKnown, DimTyped, NEW t \in Leveller, SetLed(t)
  PROVE  LevelKnown'
<1> USE DEF DimTyped
<1> DEFINE n == dimPc[t]
<1>1. n \in 1 .. MaxLevel /\ DimTo(t, n + 1)
      /\ leds' = IF level >= n THEN leds \cup {n} ELSE leds \ {n}
      BY DEF SetLed
<1>2. ~InDim(t, OutPc) BY <1>1, DimConstants DEF InDim, OutPc
<1>3. Aside(t) BY <1>2, OnlyThread
<1>4. UNCHANGED <<level, period, zeroIrq, openTold, dimStatus, dimWant, setting, wasOpen>>
      BY DEF SetLed, mains, caller
<1>5. n + 1 \in LevelPc .. OutPc BY <1>1, DimConstants DEF LevelPc, OutPc
<1>6. Aside(t)' /\ dimPc'[t] = n + 1 BY <1>1, <1>3, <1>5, OneMoves
<1>7. Entered(t) /\ AtLeds(t) BY DEF LevelKnown, SetAt
<1>8. Entered(t)'
  <2>1. n \in LevelPc .. ReportPc /\ n # LevelPc BY <1>1, DimConstants DEF LevelPc, ReportPc
  <2> QED BY <2>1, <1>4, <1>7 DEF Entered, IrqAsLevel
<1>9. AtLeds(t)'
  <2>1. SUFFICES ASSUME NEW m \in 1 .. MaxLevel, m < n + 1
                 PROVE  m \in leds' <=> m <= level
        BY <1>4, <1>6 DEF AtLeds
  <2>2. n \in 1 .. MaxLevel + 1 BY <1>1, DimConstants
  <2>3. m < n => (m \in leds <=> m <= level) BY <1>7, <2>2 DEF AtLeds
  <2>4. CASE m = n BY <1>1, <2>4 DEF DimLevels
  <2>5. CASE m < n BY <1>1, <2>3, <2>5
  <2> QED BY <1>1, <2>1, <2>4, <2>5, DimConstants
<1>10. AtLevel(t)' /\ AtReport(t)'
       BY <1>1, <1>6, DimConstants DEF AtLevel, AtReport, LevelPc, IrqPc, ReportPc
<1>11. dimPc'[t] # OutPc BY <1>1, <1>6, DimConstants DEF OutPc
<1> QED BY <1>6, <1>8, <1>9, <1>10, <1>11, OneKnown DEF SetAt

LEMMA SetPeriodKnown ==
  ASSUME LevelKnown, DimTyped, NEW t \in Leveller, SetPeriod(t)
  PROVE  LevelKnown'
<1> USE DEF DimTyped
<1>1. InDim(t, MaxLevel + 1) /\ period' = DimPeriod(level)
      /\ DimTo(t, IF setting[t] THEN IrqPc ELSE OutPc)
      BY DEF SetPeriod, Leave
<1>2. ~InDim(t, OutPc) BY <1>1, DimConstants DEF InDim, OutPc
<1>3. Aside(t) BY <1>2, OnlyThread
<1>4. UNCHANGED <<level, leds, zeroIrq, openTold, dimStatus, dimWant, setting, wasOpen>>
      BY DEF SetPeriod, mains, caller
<1>5. (IF setting[t] THEN IrqPc ELSE OutPc) \in LevelPc .. OutPc
      BY DimConstants DEF LevelPc, IrqPc, OutPc
<1>6. Aside(t)' /\ dimPc'[t] = IF setting[t] THEN IrqPc ELSE OutPc
      BY <1>1, <1>3, <1>5, OneMoves
<1>7. Entered(t) /\ AtLeds(t) BY DEF LevelKnown, SetAt
<1>8. /\ (openTold <=> wasOpen[t]) /\ level = dimWant[t]
      /\ ~setting[t] => level > 0 /\ dimWant[t] > 0 /\ IrqAsLevel /\ wasOpen[t]
      BY <1>1, <1>7, DimConstants DEF Entered, InDim, LevelPc, ReportPc
<1>9. LevelLit'
  <2>1. MaxLevel + 1 \in 1 .. MaxLevel + 1 BY DimConstants
  <2>2. \A m \in 1 .. MaxLevel: m < MaxLevel + 1 => (m \in leds <=> m <= level)
        BY <1>1, <1>7, <2>1 DEF AtLeds, InDim
  <2>3. \A m \in 1 .. MaxLevel: m \in leds <=> m <= level BY <2>2, DimConstants
  <2>4. leds \subseteq 1 .. MaxLevel /\ level \in 0 .. MaxLevel BY DEF DimLevels
  <2>5. ASSUME NEW m PROVE m \in leds <=> m \in 1 .. level
    <3>1. m \in 1 .. level => m \in 1 .. MaxLevel /\ m <= level BY <2>4, DimConstants
    <3>2. m \in 1 .. MaxLevel /\ m <= level => m \in 1 .. level BY <2>4, DimConstants
    <3> QED BY <2>3, <2>4, <3>1, <3>2
  <2>6. leds = 1 .. level BY <2>5
  <2> QED BY <1>1, <1>4, <2>6 DEF LevelLit
<1>10. IrqAsLevel => IrqAsLevel' BY <1>4 DEF IrqAsLevel
<1>11. CASE setting[t]
  <2>1. dimPc'[t] = IrqPc BY <1>6, <1>11
  <2>2. Entered(t)' BY <1>4, <1>8, <1>11 DEF Entered
  <2>3. AtLevel(t)' /\ AtLeds(t)' /\ AtReport(t)'
        BY <2>1, <1>4, <1>9, <1>11, DimConstants
        DEF AtLevel, AtLeds, AtReport, LevelPc, IrqPc, ReportPc
  <2>4. dimPc'[t] # OutPc BY <2>1, DimConstants DEF IrqPc, OutPc
  <2> QED BY <1>6, <2>2, <2>3, <2>4, OneKnown DEF SetAt
<1>12. CASE ~setting[t]
  <2>1. dimPc'[t] = OutPc BY <1>6, <1>12
  <2>2. SetAt(t)'
        BY <2>1, DimConstants DEF SetAt, Entered, AtLevel, AtLeds, AtReport, LevelPc,
           IrqPc, ReportPc, OutPc
  <2>3. DimRested' BY <1>4, <1>8, <1>9, <1>10, <1>12 DEF DimRested
  <2> QED BY <1>6, <2>2, <2>3, OneKnown
<1> QED BY <1>11, <1>12

LEMMA SwitchZeroIrqKnown ==
  ASSUME LevelKnown, DimTyped, NEW t \in Leveller, SwitchZeroIrq(t)
  PROVE  LevelKnown'
<1> USE DEF DimTyped
<1>1. InDim(t, IrqPc) /\ DimTo(t, ReportPc) BY DEF SwitchZeroIrq
<1>2. ~InDim(t, OutPc) BY <1>1, DimConstants DEF InDim, IrqPc, OutPc
<1>3. Aside(t) BY <1>2, OnlyThread
<1>4. UNCHANGED <<level, leds, period, openTold, dimStatus, dimWant, setting, wasOpen>>
      BY DEF SwitchZeroIrq, mains, caller
<1>5. ReportPc \in LevelPc .. OutPc BY DimConstants DEF LevelPc, ReportPc, OutPc
<1>6. Aside(t)' /\ dimPc'[t] = ReportPc BY <1>1, <1>3, <1>5, OneMoves
<1>7. Entered(t) /\ AtReport(t) BY DEF LevelKnown, SetAt
<1>8. (openTold <=> wasOpen[t]) /\ level = dimWant[t] /\ setting[t] /\ LevelLit
      BY <1>1, <1>7, DimConstants DEF Entered, AtReport, InDim, LevelPc, IrqPc, ReportPc
<1>9. IrqAsLevel'
  <2>1. dimStatus # "counting" => (zeroIrq' <=> dimWant[t] > 0) BY DEF SwitchZeroIrq
  <2> QED BY <2>1, <1>4, <1>8 DEF IrqAsLevel
<1>10. LevelLit' BY <1>4, <1>8 DEF LevelLit
<1>11. Entered(t)' BY <1>4, <1>8 DEF Entered
<1>12. AtLevel(t)' /\ AtLeds(t)' /\ AtReport(t)'
       BY <1>4, <1>6, <1>8, <1>9, <1>10, DimConstants
       DEF AtLevel, AtLeds, AtReport, LevelPc, IrqPc, ReportPc
<1>13. dimPc'[t] # OutPc BY <1>6, DimConstants DEF ReportPc, OutPc
<1> QED BY <1>6, <1>11, <1>12, <1>13, OneKnown DEF SetAt

LEMMA ReportSwitchKnown ==
  ASSUME LevelKnown, DimTyped, NEW t \in Leveller, ReportSwitch(t)
  PROVE  LevelKnown'
<1> USE DEF DimTyped
<1>1. InDim(t, ReportPc) /\ DimTo(t, OutPc) BY DEF ReportSwitch
<1>2. ~InDim(t, OutPc) BY <1>1, DimConstants DEF InDim, ReportPc, OutPc
<1>3. Aside(t) BY <1>2, OnlyThread
<1>4. UNCHANGED <<level, leds, period, zeroIrq, dimStatus>> BY DEF ReportSwitch, mains
<1>5. OutPc \in LevelPc .. OutPc BY DimConstants DEF LevelPc, OutPc
<1>6. Aside(t)' /\ dimPc'[t] = OutPc BY <1>1, <1>3, <1>5, OneMoves
<1>7. Entered(t) /\ AtReport(t) BY DEF LevelKnown, SetAt
<1>8. (openTold <=> wasOpen[t]) /\ level = dimWant[t] /\ LevelLit /\ IrqAsLevel
      BY <1>1, <1>7, DimConstants DEF Entered, AtReport, InDim, LevelPc, IrqPc, ReportPc
<1>9. openTold' <=> level' > 0
  <2>1. openTold' = IF wasOpen[t] = (dimWant[t] > 0) THEN openTold ELSE dimWant[t] > 0
        BY DEF ReportSwitch
  <2>2. wasOpen[t] \in BOOLEAN /\ openTold \in BOOLEAN BY DEF DimWishes, DimFlags
  <2> QED BY <2>1, <2>2, <1>4, <1>8
<1>10. DimRested' BY <1>4, <1>8, <1>9 DEF DimRested, LevelLit, IrqAsLevel
<1>11. SetAt(t)'
       BY <1>6, DimConstants DEF SetAt, Entered, AtLevel, AtLeds, AtReport, LevelPc,
          IrqPc, ReportPc, OutPc
<1> QED BY <1>6, <1>10, <1>11, OneKnown

(* An interrupt that leaves all but the interrupt of the zeros alone.      *)
LEMMA IrqKnown ==
  ASSUME LevelKnown, IrqAsLevel => IrqAsLevel',
         UNCHANGED <<dimPc, dimWant, setting, wasOpen, level, leds, period, openTold>>
  PROVE  LevelKnown'
<1>1. ASSUME NEW t \in Leveller PROVE SetAt(t)'
  <2>1. Entered(t)' BY DEF LevelKnown, SetAt, Entered
  <2>2. AtLevel(t)' /\ AtLeds(t)' BY DEF LevelKnown, SetAt, AtLevel, AtLeds, LevelLit
  <2>3. AtReport(t)' BY DEF LevelKnown, SetAt, AtReport, LevelLit
  <2> QED BY <2>1, <2>2, <2>3 DEF SetAt
<1>2. DimQuiet' => DimRested' BY DEF LevelKnown, DimRested, LevelLit, DimQuiet, InDim
<1>3. \A t, u \in Leveller: t # u => InDim(t, OutPc)' \/ InDim(u, OutPc)'
      BY DEF LevelKnown, InDim
<1> QED BY <1>1, <1>2, <1>3 DEF LevelKnown

LEMMA LevelKnownKept ==
  ASSUME LampFollowed, Phases, DimTyped, [DimmerNext]_dimmerVars, ~levelMixed', ~keyOpened'
  PROVE  LevelKnown' /\ LevelKnown /\ Steady
<1>1. LevelKnown /\ Steady
  <2>1. ~levelMixed
    <3>1. UNCHANGED levelMixed \/ levelMixed' = levelMixed
          \/ \E t \in Leveller, l \in Nat, s \in BOOLEAN: Call(t, l, s)
      <4>1. CASE UNCHANGED dimmerVars BY <4>1 DEF dimmerVars
      <4>2. ASSUME NEW t \in Leveller, SetSwitch(t)
            PROVE  \E l \in Nat, s \in BOOLEAN: Call(t, l, s)
            BY <4>2, DimConstants DEF SetSwitch
      <4>3. ASSUME NEW key \in {"up", "down"}, LevelKeyTimer(key), ~UNCHANGED levelMixed
            PROVE  \E t \in Leveller, l \in Nat, s \in BOOLEAN: Call(t, l, s)
        <5>1. /\ Call("timer", IF key = "up" THEN level + 1 ELSE level - 1, FALSE)
              /\ IF key = "up" THEN level < MaxLevel ELSE level > 1
              BY <4>3, Zenon DEF LevelKeyTimer
        <5>2. (IF key = "up" THEN level + 1 ELSE level - 1) \in Nat
              BY <5>1 DEF DimTyped, DimLevels
        <5>3. "timer" \in Leveller BY DEF Leveller
        <5> QED BY <5>1, <5>2, <5>3
      <4> QED BY <4>1, <4>2, <4>3 DEF DimmerNext, ChangeLevel, SetLed, SetPeriod,
              SwitchZeroIrq, ReportSwitch, LevelKeyIrq, HwTimer, ACZeroDetectIrq, MainsTick
    <3> QED BY <3>1 DEF Call
  <2>2. ~keyOpened
        BY DEF dimmerVars, DimmerNext, SetSwitch, ChangeLevel, SetLed, SetPeriod,
           SwitchZeroIrq, ReportSwitch, LevelKeyIrq, LevelKeyTimer, HwTimer,
           ACZeroDetectIrq, MainsTick
  <2> QED BY <2>1, <2>2 DEF LampFollowed
<1>2. CASE UNCHANGED dimmerVars
  BY <1>1, <1>2, IrqKnown DEF dimmerVars, IrqAsLevel
<1>3. ASSUME NEW t \in Leveller, SetSwitch(t) \/ ChangeLevel(t) \/ SetLed(t)
      PROVE  LevelKnown'
  <2>1. ChangeLevel(t) => ~keyOpened BY DEF ChangeLevel
  <2> QED BY <1>1, <1>3, <2>1, SetSwitchKnown, ChangeLevelKnown, SetLedKnown
<1>4. ASSUME NEW t \in Leveller, SetPeriod(t) \/ SwitchZeroIrq(t) \/ ReportSwitch(t)
      PROVE  LevelKnown'
  BY <1>1, <1>4, SetPeriodKnown, SwitchZeroIrqKnown, ReportSwitchKnown
<1>5. ASSUME NEW key \in {"up", "down"}, LevelKeyIrq(key) PROVE LevelKnown'
  BY <1>1, <1>5, IrqKnown DEF LevelKeyIrq, caller, mains, IrqAsLevel
<1>6. ASSUME NEW key \in {"up", "down"}, LevelKeyTimer(key) PROVE LevelKnown'
  BY <1>1, <1>6, LevelKeyKnown
<1>7. CASE HwTimer
  <2>1. dimStatus = "counting" => zeroIrq BY DEF Phases
  <2>2. zeroIrq' <=> zeroIrq /\ ~(dimStatus = "counting" /\ level = 0) BY <1>7 DEF HwTimer
  <2>3. level \in Nat BY DEF DimTyped, DimLevels
  <2>4. IrqAsLevel => IrqAsLevel'
    <3>1. level' = level BY <1>7 DEF HwTimer
    <3> QED BY <2>1, <2>2, <2>3, <3>1 DEF IrqAsLevel
  <2> QED BY <1>1, <1>7, <2>4, IrqKnown DEF HwTimer, caller
<1>8. CASE ACZeroDetectIrq
  <2>1. dimStatus' # "counting" => dimStatus # "counting" BY <1>8 DEF ACZeroDetectIrq
  <2>2. IrqAsLevel => IrqAsLevel' BY <1>8, <2>1 DEF ACZeroDetectIrq, IrqAsLevel
  <2> QED BY <1>1, <1>8, <2>2, IrqKnown DEF ACZeroDetectIrq, caller
<1>9. CASE MainsTick
  BY <1>1, <1>9, IrqKnown DEF MainsTick, caller, IrqAsLevel
<1> QED
  BY <1>1, <1>2, <1>3, <1>4, <1>5, <1>6, <1>7, <1>8, <1>9 DEF DimmerNext

(* Over a half cycle without a call, the gate is opened once if the lamp   *)
(* is on, and not at all if it is off.                                     *)
LEMMA SteadyKept ==
  ASSUME LampFollowed, Phases, DimTyped, [DimmerNext]_dimmerVars, LevelKnown, Steady
  PROVE  Steady'
<1> USE DEF DimTyped, DimTimers, DimLevels, Due
<1>1. UNCHANGED <<mains, level, dimPc, steady>> => Steady'
      BY DEF Steady, mains, DimQuiet, InDim
<1>2. steady' = FALSE => Steady' BY DEF Steady
<1>3. steady => dimStatus = "counting" \/ DimQuiet BY DEF Steady
<1>4. CASE UNCHANGED dimmerVars BY <1>1, <1>4 DEF dimmerVars, mains
<1>5. ASSUME NEW t \in Leveller, SetSwitch(t) PROVE Steady'
      BY <1>2, <1>5 DEF SetSwitch, Call
<1>6. ASSUME NEW t \in Leveller, ~InDim(t, OutPc), UNCHANGED <<mains, steady>>
      PROVE  Steady'
      BY <1>6 DEF Steady, mains, DimQuiet
<1>7. ASSUME NEW t \in Leveller,
             ChangeLevel(t) \/ SetLed(t) \/ SetPeriod(t) \/ SwitchZeroIrq(t) \/ ReportSwitch(t)
      PROVE  Steady'
  <2>1. ~InDim(t, OutPc)
        BY <1>7, DimConstants
           DEF ChangeLevel, SetLed, SetPeriod, SwitchZeroIrq, ReportSwitch, 
           InDim, LevelPc, IrqPc, ReportPc, OutPc
  <2>2. UNCHANGED <<mains, steady>>
        BY <1>7 DEF ChangeLevel, SetLed, SetPeriod, SwitchZeroIrq, ReportSwitch
  <2> QED BY <2>1, <2>2, <1>6
<1>8. ASSUME NEW key \in {"up", "down"}, LevelKeyIrq(key) PROVE Steady'
      BY <1>1, <1>8 DEF LevelKeyIrq, mains
<1>9. ASSUME NEW key \in {"up", "down"}, LevelKeyTimer(key) PROVE Steady'
  BY <1>1, <1>2, <1>9 DEF LevelKeyTimer, Call, mains
<1>10. CASE HwTimer
  <2>1. SUFFICES ASSUME steady', dimStatus' # "counting" PROVE Steady' BY DEF Steady
  <2>2. steady /\ dimStatus # "counting" /\ UNCHANGED <<dimPc, level, late, zeroLeft>>
        BY <1>10, <2>1 DEF HwTimer
  <2>3. DimQuiet /\ DimQuiet' BY <2>2 DEF Steady, DimQuiet, InDim
  <2>4. hwTimer = 0 /\ hwTimer # Stopped BY <1>10, DimConstants DEF HwTimer, Stopped
  <2>5. dimStatus' = "shutdown" BY <1>10, <2>2 DEF HwTimer
  <2>6. CASE dimStatus = "zero"
    <3>1. opened' = TRUE BY <1>10, <2>6 DEF HwTimer
    <3>2. level > 0 BY <2>2, <2>4, <2>6 DEF Steady
    <3> QED BY <2>2, <2>3, <2>5, <3>1, <3>2 DEF Steady
  <2>7. CASE dimStatus = "shutdown"
    <3>1. (opened' <=> opened) /\ hwTimer' = Stopped BY <1>10, <2>7 DEF HwTimer
    <3> QED BY <2>2, <2>3, <2>5, <2>7, <3>1 DEF Steady
  <2> QED BY <2>2, <2>6, <2>7
<1>11. CASE ACZeroDetectIrq
  <2>1. SUFFICES ASSUME steady', dimStatus' # "counting" PROVE Steady' BY DEF Steady
  <2>2. zeroLeft = 0 /\ zeroLeft' = HalfCycle /\ opened' = FALSE /\ level' = level
        BY <1>11 DEF ACZeroDetectIrq
  <2>3. DimQuiet /\ DimQuiet' BY <1>11, <2>1 DEF ACZeroDetectIrq, DimQuiet, InDim
  <2>4. dimStatus # "counting" BY <1>11, <2>1 DEF ACZeroDetectIrq
  <2>5. LevelLit /\ (zeroIrq <=> level > 0)
        BY <2>3, <2>4 DEF LevelKnown, DimRested, IrqAsLevel
  <2>6. CASE level > 0
    <3>1. dimStatus' = "zero" /\ hwTimer' = period /\ (late' <=> period = DimPeriod(0))
          BY <1>11, <2>4, <2>5, <2>6 DEF ACZeroDetectIrq
    <3>2. period = DimPeriod(level) BY <2>5, <2>6 DEF LevelLit
    <3>3. ~late' BY <2>6, <3>1, <3>2, PeriodFits
    <3>4. period \in Nat /\ period < Stopped BY PeriodsFit, DimConstants DEF Stopped
    <3> QED BY <2>2, <2>3, <2>6, <3>1, <3>3, <3>4 DEF Steady
  <2>7. CASE level = 0
    <3>1. dimStatus' = dimStatus /\ hwTimer' = hwTimer
          BY <1>11, <2>4, <2>5, <2>7 DEF ACZeroDetectIrq
    <3>2. ~(dimStatus = "zero" /\ Due) BY <2>2, DimConstants DEF Phases
    <3>3. dimStatus = "shutdown" /\ Due => hwTimer < HalfCycle BY DimConstants DEF Phases
    <3> QED BY <2>2, <2>3, <2>4, <2>7, <3>1, <3>2, <3>3 DEF Steady
  <2> QED BY <2>6, <2>7
<1>12. CASE MainsTick
  <2>1. zeroLeft > 0 /\ hwTimer > 0 /\ zeroLeft' = zeroLeft - 1
        /\ UNCHANGED <<dimPc, level, dimStatus, late, steady, opened>>
        BY <1>12 DEF MainsTick
  <2>2. DimQuiet => DimQuiet' BY <2>1 DEF DimQuiet, InDim
  <2>3. hwTimer' = Stopped <=> hwTimer = Stopped
        BY <1>12, <2>1, DimConstants DEF MainsTick, Stopped
  <2>4. hwTimer < zeroLeft => hwTimer' = hwTimer - 1 \/ hwTimer = Stopped
        BY <1>12 DEF MainsTick
  <2> QED BY <2>1, <2>2, <2>3, <2>4 DEF Steady
<1> QED
  BY <1>4, <1>5, <1>7, <1>8, <1>9, <1>10, <1>11, <1>12 DEF DimmerNext

(* The dimmer follows its level: between calls, unless two threads met in  *)
(* its functions or the key lit a lamp that was off, LEDs, period, report  *)
(* and interrupt are the level's (lum_lightChangeLevel, setSwitchStatus);  *)
(* and an open gate always has a timer that closes it, before the next     *)
(* zero unless the timer was started with the period of a lamp that is off *)
(* (lum_lightHwTimerCallback, lum_ACZeroDetectIrq).                        *)
THEOREM DimmerCorrect == DimmerSpec => []DimmerInv
<1>1. DimmerInit => DimmerIInv
  <2> SUFFICES ASSUME DimmerInit PROVE DimmerIInv OBVIOUS
  <2>1. DimPlaces /\ DimWishes /\ DimLevels /\ DimCounts /\ Periods
        BY DimConstants DEF DimmerInit, DimPlaces, DimWishes, DimLevels, DimCounts, Periods,
           LevelPc, OutPc
  <2>2. DimFlags BY DEF DimmerInit, DimFlags
  <2>3. DimTimers BY DimConstants DEF DimmerInit, DimTimers, Stopped
  <2>4. DimmerTypes /\ Periods BY <2>1, <2>2, <2>3, DimTypesAre DEF DimTyped
  <2>5. Phases BY DimConstants DEF DimmerInit, Phases, Due, Stopped
  <2>6. \A t \in Leveller: SetAt(t)
        BY DimConstants DEF DimmerInit, SetAt, Entered, AtLevel, AtLeds, AtReport, LevelPc,
           IrqPc, ReportPc, OutPc
  <2>7. DimRested BY DEF DimmerInit, DimRested, LevelLit, IrqAsLevel
  <2>8. LevelKnown BY <2>6, <2>7 DEF DimmerInit, LevelKnown, InDim
  <2>9. Steady BY DEF DimmerInit, Steady
  <2> QED BY <2>4, <2>5, <2>8, <2>9 DEF DimmerIInv, LampFollowed
<1>2. DimmerIInv /\ [DimmerNext]_dimmerVars => DimmerIInv'
  <2> SUFFICES ASSUME DimmerIInv, [DimmerNext]_dimmerVars PROVE DimmerIInv' OBVIOUS
  <2>1. DimTyped /\ Phases /\ LampFollowed BY DimTypesAre DEF DimmerIInv
  <2>2. DimPlaces' /\ DimWishes' /\ DimLevels'
        BY <2>1, DimPlacesKept, DimWishesKept, DimLevelsKept DEF DimTyped
  <2>3. DimFlags' /\ DimTimers' /\ DimCounts' /\ Periods'
        BY <2>1, DimFlagsKept, DimTimersKept, DimCountsKept, PeriodsKept DEF DimTyped
  <2>4. (DimmerTypes /\ Periods)' BY <2>2, <2>3, DimTypesAre, PTL DEF DimTyped
  <2>5. Phases' BY <2>1, PhasesKept
  <2>6. LampFollowed'
    <3>1. SUFFICES ASSUME ~levelMixed', ~keyOpened' PROVE LevelKnown' /\ Steady'
          BY DEF LampFollowed
    <3>2. LevelKnown' /\ LevelKnown /\ Steady BY <2>1, <3>1, LevelKnownKept
    <3> QED BY <2>1, <3>2, SteadyKept
  <2> QED BY <2>4, <2>5, <2>6 DEF DimmerIInv
<1>3. DimmerIInv => DimmerInv
  <2> SUFFICES ASSUME DimmerIInv PROVE DimmerInv OBVIOUS
  <2>1. DimTyped /\ Phases /\ LampFollowed BY DimTypesAre DEF DimmerIInv
  <2>2. LevelShown
    <3>1. openTold \in BOOLEAN /\ zeroIrq \in BOOLEAN BY <2>1 DEF DimTyped, DimFlags
    <3>2. DimQuiet /\ ~levelMixed /\ ~keyOpened => DimRested
          BY <2>1 DEF LampFollowed, LevelKnown
    <3> QED BY <3>1, <3>2 DEF LevelShown, DimRested, LevelLit, IrqAsLevel
  <2>3. GateInTime
    <3> USE DEF DimTyped, DimTimers, DimLevels, Due
    <3>1. gate => hwTimer # Stopped BY <2>1 DEF Phases
    <3>2. zeroLeft = 0 /\ gate => late BY <2>1 DEF Phases
    <3>3. ASSUME zeroLeft = 0, steady, dimStatus # "counting", ~levelMixed, ~keyOpened
          PROVE  ~gate /\ opened = (level > 0)
      <4>1. Steady /\ opened \in BOOLEAN BY <2>1, <3>3 DEF LampFollowed, DimFlags
      <4>2. CASE level > 0
        <5>1. ~late BY <3>3, <4>1, <4>2 DEF Steady
        <5>2. ~(dimStatus = "zero" /\ Due) BY <2>1, <3>3, DimConstants DEF Phases
        <5> QED BY <3>2, <3>3, <4>1, <4>2, <5>1, <5>2 DEF Steady
      <4>3. CASE level = 0
        <5>1. ~opened /\ ~Due BY <2>1, <3>3, <4>1, <4>3 DEF Steady
        <5> QED BY <3>1, <4>1, <4>3, <5>1
      <4> QED BY <2>1, <4>2, <4>3
    <3> QED BY <3>1, <3>2, <3>3 DEF GateInTime
  <2> QED BY <2>2, <2>3 DEF DimmerIInv, DimmerInv
<1> QED
  BY <1>1, <1>2, <1>3, PTL DEF DimmerSpec
-----------------------------------------------------------------------------
(***************************************************************************)
(* The invariant of Smartlink, for every length of the timers and the ring, *)
(* any number of rings, of changes of the network and of starts.            *)
(***************************************************************************)
(* How often the ring was begun, counted from what buzzerRingInfo says.    *)
Begun == IF ring.stopped \/ ring.times = MaxRings THEN ring.times ELSE ring.times + 1

(* In each mode only its own thread and callback are at a step, and a timer *)
(* of the ring that runs has a ring to come.                               *)
OfMode ==
    /\ phase = "normal" => ringPc = "out" /\ smartPc \in {"out", "cancel"} /\ ringTimer = "null"
    /\ phase = "smartlink" => smartPc # "cancel" /\ checkPc = "out"
    /\ checkPc # "out" => phase = "normal"
    /\ phase = "over" => ringPc = "out" /\ ringTimer = "null" /\ smartPc \in {"out", "cancel"}
    /\ ringTimer = "live" /\ ringPc # "delete" => ring.times < MaxRings
    /\ phase = "smartlink" => rang = Begun
    /\ rang <= MaxRings
    /\ ringPc = "delete" => ~sound

(* What the thread of the events has done, and what the callback of the    *)
(* timer that asks for smart-link, when they did not meet.                 *)
Asking ==
    phase = "normal" =>
        /\ Resting => checkTimer = IF dhcpFlag THEN "null" ELSE "live"
        /\ smartPc = "cancel" => dhcpFlag /\ checkPc = "out"
        /\ checkTimer = "live" /\ ~dhcpFlag => away + awayLeft >= AwayTime
        /\ checkPc # "out" => ~dhcpFlag /\ away = AwayTime
        /\ checkPc = "sleep" => ~locked

(* A buzzer that sounds will be silenced.                                  *)
Silenced ==
    /\ sound => notice > 0 \/ ringTimer # "null" \/ smartPc = "close"
    /\ ringPc # "out" => ringTimer = "live" /\ smartPc = "out"
    /\ smartPc = "forget" => ringTimer = "deleted"

Asked == phase = "over" => ~dhcpFlag /\ away = AwayTime /\ ~locked
SmartlinkIInv == /\ SmartlinkTypes
   /\ ring \in [times: 0 .. MaxRings, stopped: BOOLEAN, elapsed: 0 .. RingPeriod]
   /\ OfMode /\ (~overlap => Asking /\ Silenced /\ Asked)
-----------------------------------------------------------------------------
(* The types in parts.                                                     *)
SmartFlags ==
    /\ online \in BOOLEAN /\ eventDue \in BOOLEAN /\ dhcpFlag \in BOOLEAN /\ locked \in BOOLEAN
    /\ sound \in BOOLEAN /\ overlap \in BOOLEAN
SmartPlaces ==
    /\ phase \in {"normal", "smartlink", "over"}
    /\ checkTimer \in Handle /\ ringTimer \in Handle
    /\ checkPc \in {"out", "unlock", "sleep"} /\ ringPc \in {"out", "switch", "period", "delete"}
    /\ smartPc \in {"out", "cancel", "forget", "close", "succeeded"}
SmartTimes ==
    /\ awayLeft \in 0 .. AwayTime /\ away \in 0 .. AwayTime /\ notice \in 0 .. NoticeTimes
    /\ networks \in 0 .. MaxNetworks /\ starts \in 0 .. MaxStarts
Rings == ring \in [times: 0 .. MaxRings, stopped: BOOLEAN, elapsed: 0 .. RingPeriod]

LEMMA SmartlinkTypesAre ==
  SmartlinkTypes /\ Rings <=> SmartFlags /\ SmartPlaces /\ SmartTimes /\ Rings
  BY DEF SmartlinkTypes, SmartFlags, SmartPlaces, SmartTimes, Rings

(* Every step keeps the types.                                             *)
LEMMA SmartFlagsKept ==
  ASSUME SmartFlags, [SmartlinkNext]_smartlinkVars
  PROVE  SmartFlags'
<1> USE DEF SmartFlags, checking, ringing, surroundings
<1>1. CASE UNCHANGED smartlinkVars
  BY <1>1 DEF smartlinkVars
<1>2. CASE NetworkChanges \/ DhcpOkEvent \/ CancelCheck \/ DisconnectEvent
  BY <1>2 DEF NetworkChanges, DhcpOkEvent, CancelCheck, DisconnectEvent
<1>3. CASE LockDevice \/ CheckExpires \/ UnlockDevice \/ SendSmartLinkCmd \/ AwayTick
  BY <1>3 DEF LockDevice, CheckExpires, UnlockDevice, SendSmartLinkCmd, AwayTick
<1>4. CASE RingCallback
  BY <1>4 DEF RingCallback
<1>5. CASE SwitchBuzzer \/ RingAgain \/ DeleteRingTimer
  BY <1>5 DEF SwitchBuzzer, RingAgain, DeleteRingTimer
<1>6. CASE SmartlinkOk \/ ForgetRingTimer \/ CloseBuzzer \/ RingNotice
  BY <1>6 DEF SmartlinkOk, ForgetRingTimer, CloseBuzzer, RingNotice
<1>7. CASE StartSmartlink \/ StartNormal
  BY <1>7 DEF StartSmartlink, StartNormal, StartIn
<1> QED
  BY <1>1, <1>2, <1>3, <1>4, <1>5, <1>6, <1>7 DEF SmartlinkNext

LEMMA SmartPlacesKept ==
  ASSUME SmartPlaces, [SmartlinkNext]_smartlinkVars
  PROVE  SmartPlaces'
<1> USE DEF SmartPlaces, Handle, checking, ringing
<1>1. CASE UNCHANGED smartlinkVars
  BY <1>1 DEF smartlinkVars
<1>2. CASE NetworkChanges \/ DhcpOkEvent \/ CancelCheck \/ DisconnectEvent
  BY <1>2 DEF NetworkChanges, DhcpOkEvent, CancelCheck, DisconnectEvent
<1>3. CASE LockDevice \/ CheckExpires \/ UnlockDevice \/ SendSmartLinkCmd \/ AwayTick
  BY <1>3 DEF LockDevice, CheckExpires, UnlockDevice, SendSmartLinkCmd, AwayTick
<1>4. CASE RingCallback
  BY <1>4 DEF RingCallback
<1>5. CASE SwitchBuzzer \/ RingAgain \/ DeleteRingTimer
  BY <1>5 DEF SwitchBuzzer, RingAgain, DeleteRingTimer
<1>6. CASE SmartlinkOk \/ ForgetRingTimer \/ CloseBuzzer \/ RingNotice
  BY <1>6 DEF SmartlinkOk, ForgetRingTimer, CloseBuzzer, RingNotice
<1>7. CASE StartSmartlink \/ StartNormal
  BY <1>7 DEF StartSmartlink, StartNormal, StartIn
<1> QED
  BY <1>1, <1>2, <1>3, <1>4, <1>5, <1>6, <1>7 DEF SmartlinkNext

LEMMA SmartTimesKept ==
  ASSUME SmartTimes, SmartFlags, [SmartlinkNext]_smartlinkVars
  PROVE  SmartTimes'
<1> USE SmartlinkAssumption DEF SmartTimes, SmartFlags, NoticeTimes, checking, ringing,
        surroundings
<1>1. CASE UNCHANGED smartlinkVars
  BY <1>1 DEF smartlinkVars
<1>2. CASE NetworkChanges \/ DhcpOkEvent \/ CancelCheck \/ DisconnectEvent
  BY <1>2 DEF NetworkChanges, DhcpOkEvent, CancelCheck, DisconnectEvent
<1>3. CASE LockDevice \/ CheckExpires \/ UnlockDevice \/ SendSmartLinkCmd \/ AwayTick
  BY <1>3 DEF LockDevice, CheckExpires, UnlockDevice, SendSmartLinkCmd, AwayTick
<1>4. CASE RingCallback
  BY <1>4 DEF RingCallback
<1>5. CASE SwitchBuzzer \/ RingAgain \/ DeleteRingTimer
  BY <1>5 DEF SwitchBuzzer, RingAgain, DeleteRingTimer
<1>6. CASE SmartlinkOk \/ ForgetRingTimer \/ CloseBuzzer \/ RingNotice
  BY <1>6 DEF SmartlinkOk, ForgetRingTimer, CloseBuzzer, RingNotice
<1>7. CASE StartSmartlink \/ StartNormal
  BY <1>7 DEF StartSmartlink, StartNormal, StartIn
<1> QED
  BY <1>1, <1>2, <1>3, <1>4, <1>5, <1>6, <1>7 DEF SmartlinkNext

(* A ring that a callback finds has not been the last.                     *)
LEMMA RingsKept ==
  ASSUME Rings, OfMode, [SmartlinkNext]_smartlinkVars
  PROVE  Rings'
<1> USE SmartlinkAssumption DEF Rings, ringing
<1>1. CASE UNCHANGED ring
  BY <1>1
<1>2. CASE RingCallback
  <2>1. ring.times < MaxRings
    BY <1>2 DEF RingCallback, OfMode
  <2>2. CASE Ended
    <3>1. ring' = [ring EXCEPT !.times = @ + 1, !.stopped = ring.times + 1 < MaxRings]
      BY <1>2, <2>2 DEF RingCallback
    <3>2. ring.times + 1 \in 0 .. MaxRings /\ (ring.times + 1 < MaxRings) \in BOOLEAN
      BY <2>1
    <3> QED
      BY <3>1, <3>2
  <2>3. CASE ~Ended
    <3>1. ring' = [ring EXCEPT !.stopped = FALSE,
                               !.elapsed = IF ring.stopped THEN 0 ELSE @ + 1]
      BY <1>2, <2>3 DEF RingCallback
    <3>2. (IF ring.stopped THEN 0 ELSE ring.elapsed + 1) \in 0 .. RingPeriod
      BY <2>3 DEF Ended
    <3> QED
      BY <3>1, <3>2
  <2> QED
    BY <2>2, <2>3
<1>3. CASE StartSmartlink \/ StartNormal
  <2>1. ring' = NewRing
    BY <1>3 DEF StartSmartlink, StartNormal, StartIn
  <2> QED
    BY <2>1 DEF NewRing
<1> QED
  BY <1>1, <1>2, <1>3 DEF SmartlinkNext, smartlinkVars, NetworkChanges, DhcpOkEvent,
     CancelCheck, DisconnectEvent, LockDevice, CheckExpires, UnlockDevice, SendSmartLinkCmd,
     AwayTick, SwitchBuzzer, RingAgain, DeleteRingTimer, SmartlinkOk, ForgetRingTimer, CloseBuzzer, RingNotice
-----------------------------------------------------------------------------
(* Whatever meets, each mode has its own threads and timers.               *)
LEMMA OfModeKept ==
  ASSUME Rings, SmartPlaces, OfMode, [SmartlinkNext]_smartlinkVars
  PROVE  OfMode'
<1> USE SmartlinkAssumption DEF OfMode, SmartPlaces, checking, ringing
<1>0. UNCHANGED <<ring, rang>> => Begun' = Begun
  BY DEF Begun
<1>1. CASE NetworkChanges
  BY <1>0, <1>1 DEF NetworkChanges
<1>2. CASE DhcpOkEvent
  BY <1>0, <1>2 DEF DhcpOkEvent
<1>3. CASE CancelCheck
  BY <1>0, <1>3 DEF CancelCheck
<1>4. CASE DisconnectEvent
  BY <1>0, <1>4 DEF DisconnectEvent
<1>5. CASE LockDevice \/ CheckExpires \/ UnlockDevice
  BY <1>0, <1>5 DEF LockDevice, CheckExpires, UnlockDevice
<1>6. CASE SendSmartLinkCmd
  BY <1>0, <1>6 DEF SendSmartLinkCmd
<1>7. CASE AwayTick
  BY <1>0, <1>7 DEF AwayTick
<1>8. CASE RingCallback
  <2>1. /\ phase = "smartlink" /\ phase' = phase /\ ringTimer = "live" /\ ringTimer' = "live"
        /\ smartPc' = smartPc /\ checkPc' = checkPc /\ ringPc = "out"
        /\ sound' = (sound /\ ~Ended)
        /\ rang' = IF ring.stopped THEN rang + 1 ELSE rang
    BY <1>8 DEF RingCallback
  <2>2. ring.times < MaxRings /\ rang = Begun
    BY <2>1
  <2>3. CASE Ended
    <3>1. /\ ring' = [ring EXCEPT !.times = @ + 1, !.stopped = ring.times + 1 < MaxRings]
          /\ ringPc' = IF ring'.stopped THEN "period" ELSE "delete"
      BY <1>8, <2>3 DEF RingCallback
    <3>2. /\ ~ring.stopped /\ ring'.times = ring.times + 1
          /\ ring'.stopped <=> ring.times + 1 < MaxRings
      BY <2>3, <3>1 DEF Ended, Rings
    <3>3. ring.times \in 0 .. MaxRings /\ ring.times # MaxRings
      BY <2>2 DEF Rings
    <3>4. rang' = rang /\ rang = ring.times + 1
      BY <2>1, <2>2, <3>2, <3>3 DEF Begun
    <3>5. Begun' = ring.times + 1
      BY <3>2, <3>3 DEF Begun
    <3>6. ringPc' # "delete" => ring'.times < MaxRings
      BY <3>1, <3>2
    <3>7. rang' <= MaxRings /\ ~sound'
      BY <2>1, <2>3, <3>3, <3>4
    <3> QED
      BY <2>1, <3>4, <3>5, <3>6, <3>7
  <2>4. CASE ~Ended
    <3>1. /\ ring' = [ring EXCEPT !.stopped = FALSE,
                                  !.elapsed = IF ring.stopped THEN 0 ELSE @ + 1]
          /\ ringPc' = "switch"
      BY <1>8, <2>4 DEF RingCallback
    <3>2. ring'.times = ring.times /\ ~ring'.stopped
      BY <3>1 DEF Rings
    <3>3. ring.times \in 0 .. MaxRings /\ ring.times # MaxRings
      BY <2>2 DEF Rings
    <3>4. Begun' = ring.times + 1
      BY <3>2, <3>3 DEF Begun
    <3>5. rang' = ring.times + 1
      BY <2>1, <2>2, <3>3 DEF Begun
    <3> QED
      BY <2>1, <2>2, <3>1, <3>2, <3>3, <3>4, <3>5
  <2> QED
    BY <2>3, <2>4
<1>9. CASE SwitchBuzzer
  BY <1>0, <1>9 DEF SwitchBuzzer
<1>10. CASE RingAgain
  BY <1>0, <1>10 DEF RingAgain
<1>11. CASE DeleteRingTimer
  BY <1>0, <1>11 DEF DeleteRingTimer
<1>12. CASE SmartlinkOk
  BY <1>0, <1>12 DEF SmartlinkOk
<1>13. CASE ForgetRingTimer
  BY <1>0, <1>13 DEF ForgetRingTimer
<1>14. CASE CloseBuzzer
  BY <1>0, <1>14 DEF CloseBuzzer
<1>15. CASE RingNotice
  BY <1>0, <1>15 DEF RingNotice
<1>16. CASE StartSmartlink \/ StartNormal
  <2>1. PICK next \in {"normal", "smartlink"}, net \in BOOLEAN, notices \in {0, NoticeTimes}:
           StartIn(next, net, notices)
    BY <1>16 DEF StartSmartlink, StartNormal
  <2>2. Begun' = 1 /\ ring'.times = 0
    BY <2>1 DEF StartIn, NewRing, Begun
  <2> QED
    BY <2>1, <2>2 DEF StartIn
<1>17. CASE UNCHANGED smartlinkVars
  BY <1>0, <1>17 DEF smartlinkVars
<1> QED
  BY <1>1, <1>2, <1>3, <1>4, <1>5, <1>6, <1>7, <1>8, <1>9, <1>10, <1>11, <1>12, <1>13,
     <1>14, <1>15, <1>16, <1>17 DEF SmartlinkNext

(* An overlap stays known, until the device starts again.                  *)
LEMMA OverlapKept ==
  ASSUME SmartFlags, [SmartlinkNext]_smartlinkVars, ~overlap'
  PROVE  ~overlap \/ StartSmartlink \/ StartNormal
  BY DEF SmartlinkNext, smartlinkVars, SmartFlags, NetworkChanges, DhcpOkEvent, CancelCheck,
     DisconnectEvent, LockDevice, CheckExpires, UnlockDevice, SendSmartLinkCmd, AwayTick,
     RingCallback, SwitchBuzzer, RingAgain, DeleteRingTimer, SmartlinkOk, ForgetRingTimer,
     CloseBuzzer, RingNotice

(* A device that is without a network has the timer that will ask, and it  *)
(* expires only when it was without one for the whole time.                *)
LEMMA AskingKept ==
  ASSUME SmartFlags, SmartPlaces, SmartTimes, OfMode, ~overlap => Asking,
         [SmartlinkNext]_smartlinkVars, ~overlap'
  PROVE  Asking'
<1> USE SmartlinkAssumption DEF Asking, Resting, OfMode, SmartPlaces, SmartFlags, SmartTimes,
        checking, ringing, surroundings
<1>1. CASE StartSmartlink \/ StartNormal
  BY <1>1 DEF StartSmartlink, StartNormal, StartIn
<1>2. CASE UNCHANGED smartlinkVars
  BY <1>2 DEF smartlinkVars
<1>3. CASE NetworkChanges
  BY <1>3 DEF NetworkChanges
<1>4. CASE DhcpOkEvent
  BY <1>4 DEF DhcpOkEvent
<1>5. CASE CancelCheck
  BY <1>5 DEF CancelCheck
<1>6. CASE DisconnectEvent
  BY <1>6 DEF DisconnectEvent
<1>7. CASE LockDevice \/ CheckExpires \/ UnlockDevice
  BY <1>7 DEF LockDevice, CheckExpires, UnlockDevice
<1>8. CASE SendSmartLinkCmd
  BY <1>8 DEF SendSmartLinkCmd
<1>9. CASE AwayTick
  BY <1>9 DEF AwayTick
<1>10. CASE RingNotice
  BY <1>10 DEF RingNotice
<1>11. CASE RingCallback \/ SwitchBuzzer \/ RingAgain \/ DeleteRingTimer
  <2>1. phase = "smartlink" /\ phase' = phase
    BY <1>11 DEF RingCallback, SwitchBuzzer, RingAgain, DeleteRingTimer
  <2> QED
    BY <2>1
<1>12. CASE SmartlinkOk \/ ForgetRingTimer \/ CloseBuzzer
  <2>1. phase = "smartlink" /\ phase' = phase
    BY <1>12 DEF SmartlinkOk, ForgetRingTimer, CloseBuzzer
  <2> QED
    BY <2>1
<1> QED
  BY <1>1, <1>2, <1>3, <1>4, <1>5, <1>6, <1>7, <1>8, <1>9, <1>10, <1>11, <1>12
     DEF SmartlinkNext

(* The command is sent only by a device that asked for it.                 *)
LEMMA AskedKept ==
  ASSUME SmartPlaces, OfMode, ~overlap => Asking /\ Asked, SmartFlags,
         [SmartlinkNext]_smartlinkVars, ~overlap'
  PROVE  Asked'
<1> USE DEF Asked, Asking, OfMode, SmartPlaces, SmartFlags, checking, surroundings
<1>1. CASE StartSmartlink \/ StartNormal
  BY <1>1 DEF StartSmartlink, StartNormal, StartIn
<1>2. CASE SendSmartLinkCmd
  BY <1>2 DEF SendSmartLinkCmd
<1>3. CASE CancelCheck \/ RingNotice \/ UNCHANGED smartlinkVars
  BY <1>3 DEF CancelCheck, RingNotice, smartlinkVars
<1>4. CASE NetworkChanges \/ DhcpOkEvent \/ DisconnectEvent \/ AwayTick
  BY <1>4 DEF NetworkChanges, DhcpOkEvent, DisconnectEvent, AwayTick
<1>7. CASE LockDevice \/ CheckExpires \/ UnlockDevice
  BY <1>7 DEF LockDevice, CheckExpires, UnlockDevice
<1>5. CASE RingCallback \/ SwitchBuzzer \/ RingAgain \/ DeleteRingTimer
  BY <1>5 DEF RingCallback, SwitchBuzzer, RingAgain, DeleteRingTimer
<1>6. CASE SmartlinkOk \/ ForgetRingTimer \/ CloseBuzzer
  BY <1>6 DEF SmartlinkOk, ForgetRingTimer, CloseBuzzer
<1> QED
  BY <1>1, <1>2, <1>3, <1>4, <1>5, <1>6, <1>7 DEF SmartlinkNext

(* The buzzer is silenced before its timer is gone.                        *)
LEMMA SilencedKept ==
  ASSUME SmartFlags, SmartPlaces, SmartTimes, OfMode, ~overlap => Silenced,
         [SmartlinkNext]_smartlinkVars, ~overlap'
  PROVE  Silenced'
<1> USE DEF Silenced, OfMode, SmartPlaces, SmartFlags, SmartTimes, checking, ringing,
        NoticeTimes
<1>1. CASE StartSmartlink \/ StartNormal
  BY <1>1 DEF StartSmartlink, StartNormal, StartIn
<1>2. CASE UNCHANGED smartlinkVars
  BY <1>2 DEF smartlinkVars
<1>3. CASE NetworkChanges
  BY <1>3 DEF NetworkChanges
<1>4. CASE DhcpOkEvent
  BY <1>4 DEF DhcpOkEvent
<1>5. CASE CancelCheck
  BY <1>5 DEF CancelCheck
<1>6. CASE DisconnectEvent
  BY <1>6 DEF DisconnectEvent
<1>7. CASE LockDevice \/ CheckExpires \/ UnlockDevice
  BY <1>7 DEF LockDevice, CheckExpires, UnlockDevice
<1>8. CASE SendSmartLinkCmd
  BY <1>8 DEF SendSmartLinkCmd
<1>9. CASE AwayTick
  BY <1>9 DEF AwayTick
<1>10. CASE RingCallback
  BY <1>10 DEF RingCallback
<1>11. CASE SwitchBuzzer
  BY <1>11 DEF SwitchBuzzer
<1>12. CASE RingAgain
  BY <1>12 DEF RingAgain
<1>13. CASE DeleteRingTimer
  BY <1>13 DEF DeleteRingTimer
<1>14. CASE SmartlinkOk
  BY <1>14 DEF SmartlinkOk
<1>15. CASE ForgetRingTimer
  BY <1>15 DEF ForgetRingTimer
<1>16. CASE CloseBuzzer
  BY <1>16 DEF CloseBuzzer
<1>17. CASE RingNotice
  BY <1>17 DEF RingNotice
<1> QED
  BY <1>1, <1>2, <1>3, <1>4, <1>5, <1>6, <1>7, <1>8, <1>9, <1>10, <1>11, <1>12, <1>13,
     <1>14, <1>15, <1>16, <1>17
     DEF SmartlinkNext
-----------------------------------------------------------------------------
LEMMA SmartlinkStarts ==
  ASSUME SmartlinkInit
  PROVE  SmartlinkIInv
<1> USE SmartlinkAssumption DEF SmartlinkInit
<1>1. SmartFlags /\ SmartPlaces
  BY DEF SmartFlags, SmartPlaces, Handle
<1>2. SmartTimes
  BY DEF SmartTimes, NoticeTimes
<1>3. Rings
  BY DEF Rings, NewRing
<1>4. OfMode /\ Asking /\ Silenced /\ Asked
  BY DEF OfMode, Asking, Silenced, Asked, Resting
<1> QED
  BY <1>1, <1>2, <1>3, <1>4, SmartlinkTypesAre DEF SmartlinkIInv, Rings

LEMMA SmartlinkStep ==
  ASSUME SmartlinkIInv, [SmartlinkNext]_smartlinkVars
  PROVE  SmartlinkIInv'
<1>1. SmartFlags /\ SmartPlaces /\ SmartTimes /\ Rings
  BY SmartlinkTypesAre DEF SmartlinkIInv, Rings
<1>2. SmartFlags' /\ SmartPlaces' /\ SmartTimes' /\ Rings'
  BY <1>1, SmartFlagsKept, SmartPlacesKept, SmartTimesKept, RingsKept DEF SmartlinkIInv
<1>3. SmartlinkTypes'
  BY <1>2 DEF SmartlinkTypes, SmartFlags, SmartPlaces, SmartTimes, Rings
<1>4. OfMode'
  BY <1>1, OfModeKept DEF SmartlinkIInv
<1>5. ~overlap' => Asking' /\ Asked' /\ Silenced'
  BY <1>1, AskingKept, AskedKept, SilencedKept DEF SmartlinkIInv
<1> QED
  BY <1>2, <1>3, <1>4, <1>5 DEF SmartlinkIInv, Rings

LEMMA SmartlinkFollows ==
  ASSUME SmartlinkIInv
  PROVE  SmartlinkInv
  BY DEF SmartlinkIInv, SmartlinkInv, NoKeyNeeded, OfMode, Asking, Asked, Silenced

(* However often the network comes and goes: unless an event came while a  *)
(* callback ran, a device asks for smart-link only when it was told of no  *)
(* network for the whole time and is unlocked, one without a network has   *)
(* the timer that will ask, a buzzer that sounds is silenced and it rings  *)
(* MaxRings times at most (checkNeedEnterSmartLink,                        *)
(* checkSmartLinkTimerCallback and smartlinkTimerCallback).                *)
THEOREM SmartlinkCorrect == SmartlinkSpec => []SmartlinkInv
<1>1. SmartlinkInit => SmartlinkIInv
  BY SmartlinkStarts
<1>2. SmartlinkIInv /\ [SmartlinkNext]_smartlinkVars => SmartlinkIInv'
  BY SmartlinkStep
<1>3. SmartlinkIInv => SmartlinkInv
  BY SmartlinkFollows
<1> QED
  BY <1>1, <1>2, <1>3, PTL DEF SmartlinkSpec
-----------------------------------------------------------------------------
(***************************************************************************)
(* The gateway, for every number of requests and resends.  That there is no *)
(* answer too many holds whatever crossed: a study request that was not     *)
(* answered yet is at most one of those counted by Owed.  What Undisturbed  *)
(* says of the gateway at rest is inductive with what is known at each step *)
(* of the handlers and in each status, as long as nothing crossed.          *)
(***************************************************************************)
StudySteps == {"search", "study", "receive", "receiving", "listen"}
SendSteps == {"standby", "standing by", "transmit", "transmitting", "start", "send"}

(* The types, in parts.                                                    *)
RadioPlaces ==
    /\ radioPc \in {"out"} \cup StudySteps \cup SendSteps
    /\ chipStatus \in {"idle", "studying", "sending"}
    /\ mode \in {"sleep", "standby", "receiver", "transmitter"}
    /\ preMode \in {"sleep", "standby", "receiver", "transmitter"}
RadioFlags == sdoIrq \in BOOLEAN /\ waveTimer \in BOOLEAN /\ crossed \in BOOLEAN
RadioNumbers ==
    /\ asks \in 0 .. MaxAsks /\ replies \in Nat /\ sendCount \in 0 .. Resends - 1
    /\ wave \in {WaveSpoilt, Cleared} \cup Requests433
    /\ ranOut \subseteq 0 .. asks
RadioSaved == saved \in [req: 0 .. MaxAsks, heard: BOOLEAN]
RadioHistory ==
    /\ heard \in Seq([req: 0 .. MaxAsks, wave: Int])
    /\ studyAnswers \in Seq([req: 0 .. MaxAsks, wave: Int])
    /\ sent \in [Requests433 -> Int] /\ \A r \in Requests433: sent[r] >= NotSent
RadioTyped == RadioPlaces /\ RadioFlags /\ RadioNumbers /\ RadioSaved /\ RadioHistory

(* A wave on its way out is that of a request to send it, or spoilt.       *)
OnItsWay ==
    chipStatus = "sending" \/ radioPc \in SendSteps =>
        wave = WaveSpoilt \/ (wave \in 1 .. asks /\ sent[wave] # NotSent)

(* The requests to study, and those of them that can still be answered.    *)
ToStudy == {r \in 1 .. asks: sent[r] = NotSent}
Owed == (IF chipStatus = "studying" THEN 1 ELSE 0)
        + (IF radioPc \in {"search", "study"} THEN 1 ELSE 0)
Unasked == \A r \in Requests433: r > asks => sent[r] = NotSent
NoneTooMany == Len(studyAnswers) + replies + Owed <= Cardinality(ToStudy)

(* Where nothing crossed.                                                  *)
Answering ==
    /\ replies = 0 => studyAnswers = heard
    /\ replies # 0 =>
          /\ replies = 1 /\ radioPc = "out" /\ ~waveTimer /\ chipStatus = "idle"
          /\ heard = Append(studyAnswers,
                            Answer(saved.req, IF saved.heard THEN wave ELSE Cleared))
Awaits == radioPc \in StudySteps \/ (radioPc = "out" /\ chipStatus = "studying")
Recorded ==
    /\ \A i \in DOMAIN heard: heard[i].req <= asks /\ (Awaits => heard[i].req < asks)
    /\ \A i, j \in DOMAIN heard: i # j => heard[i].req # heard[j].req
    /\ Awaits => saved.req = asks /\ ~saved.heard
    /\ Awaits /\ radioPc # "search" => wave = Cleared
ModeAt ==
    /\ radioPc \in {"receiving", "listen"} => mode = "receiver"
    /\ radioPc \in {"standing by", "transmit"} => mode = "standby"
    /\ radioPc \in {"transmitting", "start"} => mode = "transmitter"
    /\ radioPc = "send" => mode = "transmitter" \/ (mode = "sleep" /\ ~waveTimer)
    /\ radioPc \notin {"receiving", "standing by", "transmitting"} => mode = preMode
StatusAt ==
    /\ radioPc = "study" => chipStatus = "idle"
    /\ radioPc \in {"receive", "receiving", "listen"} => chipStatus = "studying"
    /\ radioPc = "out" /\ chipStatus = "studying" => sdoIrq /\ mode = "receiver"
    /\ radioPc = "send" => waveTimer \/ ranOut # {}
    /\ radioPc = "out" /\ chipStatus = "idle" => ~waveTimer
    /\ chipStatus = "sending" /\ waveTimer => radioPc \in {"out", "send"} /\ mode = "transmitter"
    /\ chipStatus = "sending" /\ (radioPc # "out" \/ ~waveTimer) => ranOut # {}
\* The wave of the last request is on its way out.
GoingOut == \/ chipStatus = "sending" /\ waveTimer
            \/ radioPc \in SendSteps /\ (radioPc = "send" => waveTimer)
CountOut ==
    /\ sendCount # 0 => chipStatus = "sending" /\ waveTimer
    /\ GoingOut => asks > 0 /\ wave = asks /\ sent[asks] = sendCount /\ asks \notin ranOut
    /\ \A r \in Requests433:
          \/ r \in ranOut /\ sent[r] = 0
          \/ r \notin ranOut /\ (sent[r] \in {NotSent, Resends} \/ (r = asks /\ GoingOut))
NothingCrossed == ~crossed => Answering /\ Recorded /\ ModeAt /\ StatusAt /\ CountOut
RadioIInv == RadioTyped /\ OnItsWay /\ Unasked /\ NoneTooMany /\ NothingCrossed

LEMMA RadioConstants == Resends \in Nat /\ Resends > 1 /\ MaxAsks \in Nat
BY RadioAssumption

(* A mode of the chip is written, or believed, in the middle of a handler. *)
LEMMA ModeSteps ==
  ASSUME ChangeToRecvMode \/ ChangeToSendMode
  PROVE  /\ UNCHANGED <<asks, chipStatus, sdoIrq, waveTimer, wave, saved, replies, sendCount,
                        heard, studyAnswers, sent, ranOut, crossed>>
         /\ \/ radioPc \in {"receive", "receiving"} /\ radioPc' \in {"receiving", "listen"}
            \/ /\ radioPc \in {"standby", "standing by", "transmit", "transmitting"}
               /\ radioPc' \in SendSteps \ {"standby", "send"}
<1>1. UNCHANGED <<asks, chipStatus, sdoIrq, waveTimer, wave, saved, replies, sendCount,
                  heard, studyAnswers, sent, ranOut, crossed>>
      BY DEF ChangeToRecvMode, ChangeToSendMode, WriteMode, Believe, told433
<1>2. CASE ChangeToRecvMode
      BY <1>1, <1>2 DEF ChangeToRecvMode, WriteMode, Believe, Goto
<1>3. CASE ChangeToSendMode
      BY <1>1, <1>3 DEF ChangeToSendMode, WriteMode, Believe, Goto, SendSteps
<1> QED BY <1>2, <1>3

(* Every step keeps the types.                                             *)

LEMMA RadioPlacesKept ==
  ASSUME RadioPlaces, [RadioNext]_radioVars
  PROVE  RadioPlaces'
<1> USE DEF RadioPlaces, StudySteps, SendSteps
<1>1. CASE UNCHANGED radioVars
  BY <1>1 DEF radioVars
<1>2. CASE StudyCmd
  BY <1>2 DEF StudyCmd, chip, told433, Goto
<1>3. CASE EnterSearchFreqMode
  BY <1>3 DEF EnterSearchFreqMode, chip, told433, Goto
<1>4. CASE EnterStudyMode
  BY <1>4 DEF EnterStudyMode, chip, told433, Goto
<1>5. CASE Listen
  BY <1>5 DEF Listen, chip, told433, Goto
<1>6. CASE ControlCmd
  BY <1>6 DEF ControlCmd, chip, told433, Goto
<1>7. CASE StartSendTimer
  BY <1>7 DEF StartSendTimer, chip, told433, Goto
<1>8. CASE EnterSending
  BY <1>8 DEF EnterSending, chip, told433, Goto
<1>9. CASE Send433StudyStatus
  BY <1>9 DEF Send433StudyStatus, chip, told433, Goto
<1>10. CASE Sdo2Irq
  BY <1>10 DEF Sdo2Irq, chip, told433, Goto
<1>11. CASE StudyTimer
  BY <1>11 DEF StudyTimer, chip, told433, Goto
<1>12. CASE SendTimer
  BY <1>12 DEF SendTimer, chip, told433, Goto
<1>13. CASE IdleTimer
  BY <1>13 DEF IdleTimer, chip, told433, Goto
<1>14. CASE ChangeToRecvMode \/ ChangeToSendMode
  BY <1>14 DEF ChangeToRecvMode, ChangeToSendMode, WriteMode, Believe, Goto, told433
<1> QED
  BY <1>1, <1>2, <1>3, <1>4, <1>5, <1>6, <1>7, <1>8, <1>9, <1>10, <1>11, <1>12, <1>13, <1>14
     DEF RadioNext

LEMMA RadioFlagsKept ==
  ASSUME RadioFlags, RadioPlaces, [RadioNext]_radioVars
  PROVE  RadioFlags'
<1> USE DEF RadioFlags
<1>1. CASE UNCHANGED radioVars
  BY <1>1 DEF radioVars
<1>2. CASE StudyCmd
  BY <1>2 DEF StudyCmd, chip, AtWork
<1>3. CASE EnterSearchFreqMode
  BY <1>3 DEF EnterSearchFreqMode, chip, told433, Goto
<1>4. CASE EnterStudyMode
  BY <1>4 DEF EnterStudyMode, chip, told433, Goto
<1>5. CASE Listen
  BY <1>5 DEF Listen, chip, told433, Goto
<1>6. CASE ControlCmd
  BY <1>6 DEF ControlCmd, chip, AtWork
<1>7. CASE StartSendTimer
  BY <1>7 DEF StartSendTimer, chip, told433, Goto
<1>8. CASE EnterSending
  BY <1>8 DEF EnterSending, chip, told433, Goto
<1>9. CASE Send433StudyStatus
  BY <1>9 DEF Send433StudyStatus, chip, told433, Goto
<1>10. CASE Sdo2Irq
  BY <1>10 DEF Sdo2Irq, chip, told433, Goto
<1>11. CASE StudyTimer
  BY <1>11 DEF StudyTimer, chip, told433, Goto
<1>12. CASE SendTimer
  BY <1>12 DEF SendTimer, chip, told433, Goto
<1>13. CASE IdleTimer
  BY <1>13 DEF IdleTimer, chip, told433, Goto
<1>14. CASE ChangeToRecvMode \/ ChangeToSendMode
  BY <1>14, ModeSteps DEF told433
<1> QED
  BY <1>1, <1>2, <1>3, <1>4, <1>5, <1>6, <1>7, <1>8, <1>9, <1>10, <1>11, <1>12, <1>13, <1>14
     DEF RadioNext

LEMMA RadioNumbersKept ==
  ASSUME RadioNumbers, RadioSaved, [RadioNext]_radioVars
  PROVE  RadioNumbers'
<1> USE RadioConstants DEF RadioNumbers, Requests433, WaveSpoilt, Cleared
<1>1. CASE UNCHANGED radioVars
  BY <1>1 DEF radioVars
<1>2. CASE StudyCmd
  <2>1. asks' = asks + 1 /\ ranOut' = ranOut BY <1>2 DEF StudyCmd, told433
  <2>2. ranOut' \subseteq 0 .. asks' BY <2>1
  <2> QED BY <1>2, <2>2 DEF StudyCmd, chip, told433, Goto
<1>3. CASE EnterSearchFreqMode
  BY <1>3 DEF EnterSearchFreqMode, chip, told433, Goto
<1>4. CASE EnterStudyMode
  BY <1>4 DEF EnterStudyMode, chip, told433, Goto
<1>5. CASE Listen
  BY <1>5 DEF Listen, chip, told433, Goto
<1>6. CASE ControlCmd
  <2>1. asks' = asks + 1 /\ ranOut' = ranOut BY <1>6 DEF ControlCmd
  <2>2. ranOut' \subseteq 0 .. asks' BY <2>1
  <2> QED BY <1>6, <2>2 DEF ControlCmd, chip, told433, Goto
<1>7. CASE StartSendTimer
  BY <1>7 DEF StartSendTimer, chip, told433, Goto
<1>8. CASE EnterSending
  BY <1>8 DEF EnterSending, chip, told433, Goto
<1>9. CASE Send433StudyStatus
  BY <1>9 DEF Send433StudyStatus, chip, told433, Goto
<1>10. CASE Sdo2Irq
  BY <1>10 DEF Sdo2Irq, chip, told433, Goto
<1>11. CASE StudyTimer
  <2>1. PICK ret \in {FALSE} \cup {mode = "receiver"}:
           wave' = IF ret /\ wave = Cleared THEN saved.req ELSE WaveSpoilt
        BY <1>11 DEF StudyTimer
  <2>2. saved.req \in 0 .. MaxAsks BY DEF RadioSaved
  <2>3. wave' \in {WaveSpoilt, Cleared} \cup Requests433 BY <2>1, <2>2
  <2> QED BY <1>11, <2>3 DEF StudyTimer
<1>12. CASE SendTimer
  BY <1>12 DEF SendTimer, chip, told433, Goto
<1>13. CASE IdleTimer
  <2>1. asks' = asks /\ ranOut' \subseteq ranOut \cup {asks} BY <1>13 DEF IdleTimer
  <2>2. ranOut' \subseteq 0 .. asks' BY <2>1
  <2> QED BY <1>13, <2>2 DEF IdleTimer, chip, told433, Goto
<1>14. CASE ChangeToRecvMode \/ ChangeToSendMode
  BY <1>14, ModeSteps DEF told433
<1> QED
  BY <1>1, <1>2, <1>3, <1>4, <1>5, <1>6, <1>7, <1>8, <1>9, <1>10, <1>11, <1>12, <1>13, <1>14
     DEF RadioNext

LEMMA RadioSavedKept ==
  ASSUME RadioSaved, RadioNumbers, [RadioNext]_radioVars
  PROVE  RadioSaved'
<1> USE RadioConstants DEF RadioSaved
<1>1. CASE UNCHANGED radioVars
  BY <1>1 DEF radioVars
<1>2. CASE StudyCmd
  BY <1>2 DEF StudyCmd, RadioNumbers
<1>3. CASE EnterSearchFreqMode
  BY <1>3 DEF EnterSearchFreqMode, chip, told433, Goto
<1>4. CASE EnterStudyMode
  BY <1>4 DEF EnterStudyMode, chip, told433, Goto
<1>5. CASE Listen
  BY <1>5 DEF Listen, chip, told433, Goto
<1>6. CASE ControlCmd
  BY <1>6 DEF ControlCmd, chip, told433, Goto
<1>7. CASE StartSendTimer
  BY <1>7 DEF StartSendTimer, chip, told433, Goto
<1>8. CASE EnterSending
  BY <1>8 DEF EnterSending, chip, told433, Goto
<1>9. CASE Send433StudyStatus
  BY <1>9 DEF Send433StudyStatus, chip, told433, Goto
<1>10. CASE Sdo2Irq
  BY <1>10 DEF Sdo2Irq, chip, told433, Goto
<1>11. CASE StudyTimer
  <2>1. PICK ret \in {FALSE} \cup {mode = "receiver"}:
           saved' = [saved EXCEPT !.heard = @ \/ ret]
        BY <1>11 DEF StudyTimer
  <2> QED BY <2>1
<1>12. CASE SendTimer
  BY <1>12 DEF SendTimer, chip, told433, Goto
<1>13. CASE IdleTimer
  BY <1>13 DEF IdleTimer, chip, told433, Goto
<1>14. CASE ChangeToRecvMode \/ ChangeToSendMode
  BY <1>14, ModeSteps DEF told433
<1> QED
  BY <1>1, <1>2, <1>3, <1>4, <1>5, <1>6, <1>7, <1>8, <1>9, <1>10, <1>11, <1>12, <1>13, <1>14
     DEF RadioNext

LEMMA RadioHistoryKept ==
  ASSUME RadioHistory, RadioSaved, RadioNumbers, RadioFlags, [RadioNext]_radioVars
  PROVE  RadioHistory'
<1> USE RadioConstants DEF RadioHistory
<1>1. CASE UNCHANGED radioVars
  BY <1>1 DEF radioVars
<1>2. CASE StudyCmd
  BY <1>2 DEF StudyCmd, chip, told433, Goto
<1>3. CASE EnterSearchFreqMode
  BY <1>3 DEF EnterSearchFreqMode, chip, told433, Goto
<1>4. CASE EnterStudyMode
  BY <1>4 DEF EnterStudyMode, chip, told433, Goto
<1>5. CASE Listen
  BY <1>5 DEF Listen, chip, told433, Goto
<1>6. CASE ControlCmd
  <2>1. asks' \in Requests433 BY <1>6 DEF ControlCmd, RadioNumbers, Requests433
  <2>2. sent' \in [Requests433 -> Int] /\ \A r \in Requests433: sent'[r] >= NotSent
        BY <1>6, <2>1 DEF ControlCmd, NotSent
  <2> QED BY <1>6, <2>2 DEF ControlCmd
<1>7. CASE StartSendTimer
  BY <1>7 DEF StartSendTimer, chip, told433, Goto
<1>8. CASE EnterSending
  BY <1>8 DEF EnterSending, chip, told433, Goto
<1>9. CASE Send433StudyStatus
  <2>1. saved.req \in 0 .. MaxAsks BY DEF RadioSaved
  <2>2. (IF saved.heard THEN wave ELSE Cleared) \in Int
        BY DEF RadioNumbers, WaveSpoilt, Cleared, Requests433
  <2>3. Answer(saved.req, IF saved.heard THEN wave ELSE Cleared)
            \in [req: 0 .. MaxAsks, wave: Int]
        BY <2>1, <2>2 DEF Answer
  <2>4. studyAnswers' \in Seq([req: 0 .. MaxAsks, wave: Int])
        BY <1>9, <2>3 DEF Send433StudyStatus
  <2> QED BY <1>9, <2>4 DEF Send433StudyStatus
<1>10. CASE Sdo2Irq
  BY <1>10 DEF Sdo2Irq, chip, told433, Goto
<1>11. CASE StudyTimer
  <2>1. PICK whole: heard' = Append(heard, Answer(saved.req, IF whole THEN saved.req ELSE Cleared))
        BY <1>11 DEF StudyTimer
  <2>2. saved.req \in 0 .. MaxAsks BY DEF RadioSaved
  <2>3. (IF whole THEN saved.req ELSE Cleared) \in Int BY <2>2 DEF Cleared
  <2>4. Answer(saved.req, IF whole THEN saved.req ELSE Cleared) \in [req: 0 .. MaxAsks, wave: Int]
        BY <2>2, <2>3 DEF Answer
  <2>5. heard' \in Seq([req: 0 .. MaxAsks, wave: Int]) BY <2>1, <2>4
  <2> QED BY <1>11, <2>5 DEF StudyTimer
<1>12. CASE SendTimer
  <2>1. sent' = [r \in Requests433 |->
                    IF r = wave /\ mode = "transmitter" THEN sent[r] + 1 ELSE sent[r]]
        BY <1>12 DEF SendTimer
  <2>2. sent' \in [Requests433 -> Int] /\ \A r \in Requests433: sent'[r] >= NotSent
        BY <2>1 DEF NotSent
  <2> QED BY <1>12, <2>2 DEF SendTimer
<1>13. CASE IdleTimer
  BY <1>13 DEF IdleTimer, chip, told433, Goto
<1>14. CASE ChangeToRecvMode \/ ChangeToSendMode
  BY <1>14, ModeSteps DEF told433
<1> QED
  BY <1>1, <1>2, <1>3, <1>4, <1>5, <1>6, <1>7, <1>8, <1>9, <1>10, <1>11, <1>12, <1>13, <1>14
     DEF RadioNext

LEMMA RadioTypedKept ==
  ASSUME RadioTyped, [RadioNext]_radioVars
  PROVE  RadioTyped'
<1>1. RadioPlaces' /\ RadioFlags' /\ RadioNumbers'
      BY RadioPlacesKept, RadioFlagsKept, RadioNumbersKept DEF RadioTyped
<1>2. RadioSaved' /\ RadioHistory' BY RadioSavedKept, RadioHistoryKept DEF RadioTyped
<1> QED BY <1>1, <1>2 DEF RadioTyped

(* A wave that is sent is counted as sent.                                 *)
LEMMA SentByTimer ==
  ASSUME RadioTyped, OnItsWay, SendTimer
  PROVE  /\ \A r \in Requests433: sent'[r] = NotSent <=> sent[r] = NotSent
         /\ \A r \in Requests433: r # wave => sent'[r] = sent[r]
         /\ wave \in 1 .. asks /\ mode = "transmitter" => sent'[wave] = sent[wave] + 1
<1> USE RadioConstants DEF RadioTyped, RadioNumbers, RadioHistory, Requests433
<1>1. sent' = [r \in Requests433 |->
                   IF r = wave /\ mode = "transmitter" THEN sent[r] + 1 ELSE sent[r]]
      BY DEF SendTimer
<1>2. wave = WaveSpoilt \/ (wave \in 1 .. asks /\ sent[wave] # NotSent)
      BY DEF OnItsWay, SendTimer
<1>3. wave \in Requests433 => sent[wave] # NotSent BY <1>2 DEF WaveSpoilt
<1>4. ASSUME NEW r \in Requests433 PROVE sent'[r] = NotSent <=> sent[r] = NotSent
  <2>1. CASE r = wave /\ mode = "transmitter"
    <3>1. sent'[r] = sent[r] + 1 BY <1>1, <2>1
    <3>2. sent[r] \in Int /\ sent[r] >= NotSent /\ sent[r] # NotSent BY <1>3, <2>1
    <3> QED BY <3>1, <3>2 DEF NotSent
  <2>2. CASE ~(r = wave /\ mode = "transmitter") BY <1>1, <2>2
  <2> QED BY <2>1, <2>2
<1>5. \A r \in Requests433: r # wave => sent'[r] = sent[r] BY <1>1
<1>6. wave \in 1 .. asks /\ mode = "transmitter" => sent'[wave] = sent[wave] + 1 BY <1>1
<1> QED BY <1>4, <1>5, <1>6

LEMMA SentByControl ==
  ASSUME RadioTyped, Unasked, ControlCmd
  PROVE  /\ asks' = asks + 1 /\ asks' \in Requests433 /\ sent[asks'] = NotSent
         /\ sent'[asks'] = 0 /\ \A r \in Requests433: r # asks' => sent'[r] = sent[r]
<1>1. asks' = asks + 1 /\ asks' \in Requests433
      BY RadioConstants DEF ControlCmd, RadioTyped, RadioNumbers, Requests433
<1>2. sent' = [sent EXCEPT ![asks'] = 0] BY DEF ControlCmd
<1>3. sent[asks'] = NotSent BY <1>1 DEF Unasked, RadioTyped, RadioNumbers
<1>4. sent'[asks'] = 0 /\ \A r \in Requests433: r # asks' => sent'[r] = sent[r]
      BY <1>1, <1>2 DEF RadioTyped, RadioHistory
<1> QED BY <1>1, <1>3, <1>4

LEMMA UnaskedKept ==
  ASSUME RadioTyped, OnItsWay, Unasked, [RadioNext]_radioVars
  PROVE  Unasked'
<1> USE RadioConstants DEF RadioTyped, RadioNumbers, Requests433
<1>1. UNCHANGED sent /\ (asks' = asks \/ asks' = asks + 1) => Unasked' BY DEF Unasked
<1>2. CASE UNCHANGED radioVars BY <1>1, <1>2 DEF radioVars
<1>3. CASE ControlCmd BY <1>3, SentByControl DEF Unasked
<1>4. CASE SendTimer
  <2>1. asks' = asks BY <1>4 DEF SendTimer
  <2> QED BY <1>4, <2>1, SentByTimer DEF Unasked
<1>5. CASE ChangeToRecvMode \/ ChangeToSendMode BY <1>1, <1>5, ModeSteps
<1>6. CASE StudyCmd \/ EnterSearchFreqMode \/ EnterStudyMode \/ Listen
  BY <1>1, <1>6 DEF StudyCmd, EnterSearchFreqMode, EnterStudyMode, Listen, told433
<1>7. CASE StartSendTimer \/ EnterSending \/ Send433StudyStatus
  BY <1>1, <1>7 DEF StartSendTimer, EnterSending, Send433StudyStatus, told433
<1>8. CASE Sdo2Irq \/ StudyTimer \/ IdleTimer
  BY <1>1, <1>8 DEF Sdo2Irq, StudyTimer, IdleTimer, told433
<1> QED
  BY <1>2, <1>3, <1>4, <1>5, <1>6, <1>7, <1>8 DEF RadioNext

LEMMA OnItsWayKept ==
  ASSUME RadioTyped, OnItsWay, Unasked, [RadioNext]_radioVars
  PROVE  OnItsWay'
<1> USE RadioConstants DEF RadioTyped, RadioNumbers, StudySteps, SendSteps
<1>1. UNCHANGED <<asks, wave, sent>>
      /\ (chipStatus' = "sending" \/ radioPc' \in SendSteps =>
              chipStatus = "sending" \/ radioPc \in SendSteps) => OnItsWay'
      BY DEF OnItsWay
<1>2. CASE UNCHANGED radioVars BY <1>1, <1>2 DEF radioVars
<1>3. CASE StudyCmd BY <1>3 DEF StudyCmd, chip, told433, Goto, OnItsWay
<1>4. CASE EnterSearchFreqMode BY <1>4 DEF EnterSearchFreqMode, Goto, OnItsWay
<1>5. CASE EnterStudyMode \/ Listen
  BY <1>1, <1>5 DEF EnterStudyMode, Listen, told433, Goto
<1>6. CASE ControlCmd
  <2>1. wave' = asks' /\ asks' \in 1 .. asks' /\ sent'[asks'] # NotSent
        BY <1>6, SentByControl DEF ControlCmd, NotSent, Requests433
  <2> QED BY <2>1 DEF OnItsWay
<1>7. CASE StartSendTimer \/ EnterSending \/ Send433StudyStatus
  BY <1>1, <1>7 DEF StartSendTimer, EnterSending, Send433StudyStatus, told433, chip, Goto
<1>8. CASE Sdo2Irq \/ IdleTimer
  BY <1>1, <1>8 DEF Sdo2Irq, IdleTimer, told433
<1>9. CASE StudyTimer
  <2>1. chipStatus' = "idle" /\ radioPc' = radioPc /\ asks' = asks /\ sent' = sent
        BY <1>9 DEF StudyTimer
  <2>2. radioPc \in SendSteps => wave' = WaveSpoilt
    <3>1. wave = WaveSpoilt \/ wave \in 1 .. asks => wave # Cleared
          BY DEF WaveSpoilt, Cleared
    <3>2. radioPc \in SendSteps => wave # Cleared BY <3>1 DEF OnItsWay
    <3> QED BY <1>9, <3>2 DEF StudyTimer
  <2> QED BY <2>1, <2>2 DEF OnItsWay
<1>10. CASE SendTimer
  <2>1. UNCHANGED <<asks, wave, radioPc>> /\ chipStatus = "sending" BY <1>10 DEF SendTimer
  <2>2. wave = WaveSpoilt \/ (wave \in 1 .. asks /\ sent[wave] # NotSent)
        BY <2>1 DEF OnItsWay
  <2>3. wave \in 1 .. asks => wave \in Requests433 BY DEF Requests433
  <2> QED BY <1>10, <2>1, <2>2, <2>3, SentByTimer DEF OnItsWay
<1>11. CASE ChangeToRecvMode \/ ChangeToSendMode
  <2>1. radioPc' \in SendSteps => radioPc \in SendSteps BY <1>11, ModeSteps
  <2> QED BY <1>1, <1>11, <2>1, ModeSteps
<1> QED
  BY <1>2, <1>3, <1>4, <1>5, <1>6, <1>7, <1>8, <1>9, <1>10, <1>11 DEF RadioNext

(* The requests that are to be studied.                                    *)
LEMMA ToStudyFinite ==
  ASSUME RadioTyped
  PROVE  IsFiniteSet(ToStudy) /\ Cardinality(ToStudy) \in Nat /\ Cardinality(ToStudy) <= asks
<1>1. asks \in Nat BY DEF RadioTyped, RadioNumbers
<1>2. IsFiniteSet(1 .. asks) /\ Cardinality(1 .. asks) = asks BY <1>1, FS_Interval
<1>3. ToStudy \in SUBSET (1 .. asks) BY DEF ToStudy
<1>4. IsFiniteSet(ToStudy) /\ Cardinality(ToStudy) <= Cardinality(1 .. asks)
      BY <1>2, <1>3, FS_Subset
<1>5. Cardinality(ToStudy) \in Nat BY <1>4, FS_CardinalityType
<1> QED BY <1>2, <1>4, <1>5

LEMMA NoneTooManyKept ==
  ASSUME RadioTyped, OnItsWay, Unasked, NoneTooMany, [RadioNext]_radioVars
  PROVE  NoneTooMany'
<1> DEFINE n == Cardinality(ToStudy)
           m == Len(studyAnswers)
<1>0. n \in Nat /\ m \in Nat /\ replies \in Nat /\ asks \in 0 .. MaxAsks /\ asks \in Nat
      /\ MaxAsks \in Nat
      BY ToStudyFinite, RadioConstants DEF RadioTyped, RadioNumbers, RadioHistory
<1>1. ToStudy' = ToStudy /\ Len(studyAnswers') + replies' + Owed' <= m + replies + Owed
          /\ Len(studyAnswers') \in Nat /\ replies' \in Nat => NoneTooMany'
      BY <1>0 DEF NoneTooMany, Owed
<1>2. UNCHANGED <<asks, sent>> => ToStudy' = ToStudy BY DEF ToStudy
<1>3. UNCHANGED <<asks, sent, studyAnswers, replies>> /\ Owed' <= Owed => NoneTooMany'
      BY <1>0, <1>1, <1>2 DEF Owed
<1> HIDE DEF n, m
<1>4. CASE UNCHANGED radioVars BY <1>3, <1>4 DEF radioVars, Owed
<1>5. CASE StudyCmd
  <2>1. asks' = asks + 1 /\ sent' = sent /\ asks' \in Requests433
        BY <1>5, RadioConstants DEF StudyCmd, told433, RadioTyped, RadioNumbers, Requests433
  <2>2. sent[asks + 1] = NotSent BY <1>0, <2>1 DEF Unasked
  <2>3. ToStudy' = ToStudy \cup {asks + 1} BY <1>0, <2>1, <2>2 DEF ToStudy
  <2>4. asks + 1 \notin ToStudy BY <1>0 DEF ToStudy
  <2>5. Cardinality(ToStudy') = n + 1 BY <2>3, <2>4, ToStudyFinite, FS_AddElement DEF n
  <2>6. UNCHANGED <<studyAnswers, replies>> /\ Owed' <= Owed + 1
        BY <1>5 DEF StudyCmd, Goto, chip, told433, Owed
  <2> QED BY <1>0, <2>5, <2>6 DEF NoneTooMany, Owed, n, m
<1>6. CASE EnterSearchFreqMode
  BY <1>3, <1>6 DEF EnterSearchFreqMode, Goto, told433, Owed
<1>7. CASE EnterStudyMode
  BY <1>3, <1>7 DEF EnterStudyMode, Goto, told433, Owed
<1>8. CASE Listen \/ StartSendTimer \/ EnterSending
  BY <1>3, <1>8 DEF Listen, StartSendTimer, EnterSending, Goto, told433, Owed
<1>9. CASE ControlCmd
  <2>1. ToStudy' = ToStudy
    <3>1. ASSUME NEW r PROVE r \in ToStudy' <=> r \in ToStudy
      <4>1. CASE r = asks'
        BY <1>0, <1>9, <4>1, SentByControl DEF ToStudy, NotSent
      <4>2. CASE r # asks' /\ r \in 1 .. asks'
        <5>1. r \in 1 .. asks /\ r \in Requests433
              BY <1>0, <1>9, <4>2, SentByControl DEF Requests433
        <5> QED BY <1>9, <4>2, <5>1, SentByControl DEF ToStudy
      <4>3. CASE r \notin 1 .. asks'
        BY <1>0, <1>9, <4>3, SentByControl DEF ToStudy
      <4> QED BY <4>1, <4>2, <4>3
    <3> QED BY <3>1
  <2>2. UNCHANGED <<studyAnswers, replies>> /\ Owed' <= Owed
        BY <1>9 DEF ControlCmd, Goto, chip, Owed
  <2> QED BY <1>0, <1>1, <2>1, <2>2 DEF Owed, m
<1>10. CASE Send433StudyStatus
  <2>1. replies' = replies - 1 /\ replies > 0 /\ Owed' = Owed
        BY <1>10 DEF Send433StudyStatus, chip, Owed
  <2>2. Len(studyAnswers') = m + 1
        BY <1>10 DEF Send433StudyStatus, RadioTyped, RadioHistory, m
  <2>3. ToStudy' = ToStudy BY <1>2, <1>10 DEF Send433StudyStatus
  <2> QED BY <1>0, <1>1, <2>1, <2>2, <2>3 DEF Owed
<1>11. CASE Sdo2Irq \/ IdleTimer
  BY <1>3, <1>11 DEF Sdo2Irq, IdleTimer, told433, Owed
<1>12. CASE StudyTimer
  <2>1. replies' = replies + 1 /\ Owed' + 1 = Owed /\ UNCHANGED <<asks, sent, studyAnswers>>
        BY <1>12 DEF StudyTimer, Owed
  <2> QED BY <1>0, <1>1, <1>2, <2>1 DEF Owed, m
<1>13. CASE SendTimer
  <2>1. UNCHANGED <<asks, studyAnswers, replies>> /\ Owed' <= Owed
        BY <1>13 DEF SendTimer, Owed
  <2>2. ToStudy' = ToStudy
    <3>1. 1 .. asks \subseteq Requests433 BY <1>0 DEF Requests433
    <3> QED BY <1>13, <2>1, <3>1, SentByTimer DEF ToStudy
  <2> QED BY <1>0, <1>1, <2>1, <2>2 DEF Owed, m
<1>14. CASE ChangeToRecvMode \/ ChangeToSendMode
  <2>1. UNCHANGED <<asks, sent, studyAnswers, replies, chipStatus>> BY <1>14, ModeSteps
  <2>2. radioPc' \notin {"search", "study"} /\ radioPc \notin {"search", "study"}
        BY <1>14, ModeSteps DEF SendSteps
  <2> QED BY <1>3, <2>1, <2>2 DEF Owed
<1> QED
  BY <1>4, <1>5, <1>6, <1>7, <1>8, <1>9, <1>10, <1>11, <1>12, <1>13, <1>14 DEF RadioNext

(* While nothing crosses, a handler begins when nothing is under way, and  *)
(* a timer expires between the handlers.                                   *)
LEMMA OneAtATime ==
  ASSUME [RadioNext]_radioVars, ~crossed'
  PROVE  /\ ~crossed
         /\ StudyCmd \/ ControlCmd => ~waveTimer /\ ~(replies > 0)
         /\ StudyTimer => radioPc = "out"
<1>1. CASE UNCHANGED radioVars
  <2>1. crossed' = crossed BY <1>1 DEF radioVars
  <2>2. StudyCmd \/ ControlCmd => ~waveTimer /\ ~(replies > 0)
        BY DEF StudyCmd, ControlCmd, AtWork
  <2>3. StudyTimer => radioPc = "out" BY DEF StudyTimer
  <2> QED BY <2>1, <2>2, <2>3
<1>2. CASE RadioNext
  <2>1. StudyCmd \/ ControlCmd => ~crossed /\ ~waveTimer /\ ~(replies > 0)
        BY DEF StudyCmd, ControlCmd, AtWork
  <2>2. StudyTimer => ~crossed /\ radioPc = "out" BY DEF StudyTimer
  <2>3. EnterSearchFreqMode \/ EnterStudyMode \/ Listen \/ StartSendTimer \/ EnterSending
        \/ Send433StudyStatus \/ Sdo2Irq \/ SendTimer \/ IdleTimer => ~crossed
        BY DEF EnterSearchFreqMode, EnterStudyMode, Listen, StartSendTimer, EnterSending,
           Send433StudyStatus, Sdo2Irq, SendTimer, IdleTimer
  <2>4. ChangeToRecvMode \/ ChangeToSendMode => ~crossed BY ModeSteps
  <2> QED BY <1>2, <2>1, <2>2, <2>3, <2>4 DEF RadioNext
<1> QED BY <1>1, <1>2

Uncrossed == Answering /\ Recorded /\ ModeAt /\ StatusAt /\ CountOut

(* Where the steps begin.                                                  *)
LEMMA StepPlaces ==
  /\ EnterSearchFreqMode => radioPc = "search" /\ radioPc' = "study"
  /\ EnterStudyMode => radioPc = "study" /\ radioPc' = "receive"
  /\ Listen => radioPc = "listen" /\ radioPc' = "out"
  /\ StartSendTimer => radioPc = "start" /\ radioPc' = "send"
  /\ EnterSending => radioPc = "send" /\ radioPc' = "out"
BY DEF EnterSearchFreqMode, EnterStudyMode, Listen, StartSendTimer, EnterSending, Goto

LEMMA AnsweringKept ==
  ASSUME Uncrossed, RadioTyped, [RadioNext]_radioVars, ~crossed'
  PROVE  Answering'
<1>0. replies \in Nat BY DEF RadioTyped, RadioNumbers
<1>1. replies = 0 /\ UNCHANGED <<replies, studyAnswers, heard>> => Answering'
      BY DEF Answering, Uncrossed
<1>2. radioPc # "out" \/ waveTimer \/ chipStatus # "idle" => replies = 0
      BY DEF Uncrossed, Answering
<1>3. CASE UNCHANGED radioVars BY <1>3 DEF radioVars, Answering, Uncrossed
<1>4. CASE StudyCmd \/ ControlCmd
  <2>1. replies = 0 BY <1>0, <1>4, OneAtATime
  <2> QED BY <1>1, <1>4, <2>1 DEF StudyCmd, ControlCmd, told433
<1>5. CASE EnterSearchFreqMode \/ EnterStudyMode \/ Listen \/ StartSendTimer \/ EnterSending
  <2>1. replies = 0 BY <1>2, <1>5, StepPlaces
  <2> QED BY <1>1, <1>5, <2>1 DEF EnterSearchFreqMode, EnterStudyMode, Listen,
          StartSendTimer, EnterSending, told433
<1>6. CASE ChangeToRecvMode \/ ChangeToSendMode
  <2>1. radioPc # "out" BY <1>6, ModeSteps
  <2> QED BY <1>1, <1>2, <1>6, <2>1, ModeSteps
<1>7. CASE Sdo2Irq
  <2>1. chipStatus # "idle" BY <1>7 DEF Sdo2Irq
  <2> QED BY <1>1, <1>2, <1>7, <2>1 DEF Sdo2Irq, told433
<1>8. CASE SendTimer
  <2>1. waveTimer BY <1>8 DEF SendTimer
  <2> QED BY <1>1, <1>2, <1>8, <2>1 DEF SendTimer
<1>9. CASE IdleTimer
  <2>1. waveTimer BY <1>9 DEF IdleTimer
  <2> QED BY <1>1, <1>2, <1>9, <2>1 DEF IdleTimer
<1>10. CASE Send433StudyStatus
  <2>1. replies' = replies - 1 /\ replies # 0 /\ heard' = heard
        BY <1>0, <1>10 DEF Send433StudyStatus
  <2>2. studyAnswers' = Append(studyAnswers,
                               Answer(saved.req, IF saved.heard THEN wave ELSE Cleared))
        BY <1>10 DEF Send433StudyStatus
  <2>3. replies = 1 /\ studyAnswers' = heard BY <2>1, <2>2 DEF Uncrossed, Answering
  <2> QED BY <2>1, <2>3 DEF Answering
<1>11. CASE StudyTimer
  <2>1. radioPc = "out" /\ waveTimer /\ chipStatus = "studying"
        BY <1>11, OneAtATime DEF StudyTimer
  <2>2. replies = 0 /\ studyAnswers = heard BY <1>2, <2>1 DEF Uncrossed, Answering
  <2>3. Awaits /\ wave = Cleared /\ ~saved.heard
        BY <2>1 DEF Uncrossed, Recorded, Awaits
  <2>4. PICK ret \in {FALSE} \cup {mode = "receiver"}:
           /\ wave' = IF ret THEN saved.req ELSE WaveSpoilt
           /\ saved' = [saved EXCEPT !.heard = @ \/ ret]
           /\ heard' = Append(heard, Answer(saved.req, IF ret THEN saved.req ELSE Cleared))
    <3>1. PICK ret \in {FALSE} \cup {mode = "receiver"}:
           /\ wave' = IF ret /\ wave = Cleared THEN saved.req ELSE WaveSpoilt
           /\ saved' = [saved EXCEPT !.heard = @ \/ ret]
           /\ heard' = Append(heard, Answer(saved.req, IF ret /\ wave = Cleared
                                                       THEN saved.req ELSE Cleared))
          BY <1>11 DEF StudyTimer
    <3>2. ret \in BOOLEAN OBVIOUS
    <3> QED BY <2>3, <3>1, <3>2
  <2>5. saved'.req = saved.req /\ (saved'.heard <=> ret)
        BY <2>3, <2>4 DEF RadioTyped, RadioSaved
  <2>6. (IF ret THEN saved.req ELSE Cleared) = IF saved'.heard THEN wave' ELSE Cleared
        BY <2>4, <2>5
  <2>7. heard' = Append(studyAnswers, Answer(saved'.req, IF saved'.heard THEN wave' ELSE Cleared))
        BY <2>2, <2>4, <2>5, <2>6
  <2>8. /\ replies' = 1 /\ radioPc' = "out" /\ waveTimer' = FALSE /\ chipStatus' = "idle"
        /\ studyAnswers' = studyAnswers
        BY <1>11, <2>1, <2>2 DEF StudyTimer
  <2> QED BY <2>7, <2>8 DEF Answering
<1> QED
  BY <1>3, <1>4, <1>5, <1>6, <1>7, <1>8, <1>9, <1>10, <1>11 DEF RadioNext

LEMMA RequestOf ==
  ASSUME NEW h \in Seq([req: 0 .. MaxAsks, wave: Int]), NEW i \in DOMAIN h
  PROVE  h[i].req \in 0 .. MaxAsks
<1>1. h[i] \in [req: 0 .. MaxAsks, wave: Int]
  <2> DEFINE R == [req: 0 .. MaxAsks, wave: Int]
  <2>1. h \in Seq(R) OBVIOUS
  <2> HIDE DEF R
  <2>2. i \in 1 .. Len(h) BY <2>1
  <2>3. h[i] \in R BY <2>1, <2>2
  <2> QED BY <2>3 DEF R
<1> QED BY <1>1

LEMMA RecordedKept ==
  ASSUME Uncrossed, RadioTyped, [RadioNext]_radioVars, ~crossed'
  PROVE  Recorded'
<1> DEFINE Older == \A i \in DOMAIN heard: heard[i].req <= asks
           Apart == \A i, j \in DOMAIN heard: i # j => heard[i].req # heard[j].req
           Last  == \A i \in DOMAIN heard: heard[i].req < asks
<1>0. asks \in Nat /\ heard \in Seq([req: 0 .. MaxAsks, wave: Int]) /\ Older /\ Apart
      BY DEF RadioTyped, RadioNumbers, RadioHistory, Uncrossed, Recorded
<1>a. ASSUME NEW i \in DOMAIN heard PROVE heard[i].req \in 0 .. MaxAsks
  BY <1>0, RequestOf
<1>1. UNCHANGED <<heard, asks>> /\ ~Awaits' => Recorded'
      BY <1>0 DEF Recorded
<1>2. UNCHANGED <<heard, asks, saved, wave>> /\ (Awaits' => Awaits)
      /\ (Awaits' /\ radioPc' # "search" => radioPc # "search") => Recorded'
      BY DEF Recorded, Uncrossed
<1>3. CASE UNCHANGED radioVars BY <1>2, <1>3 DEF radioVars, Awaits
<1>4. CASE StudyCmd
  <2>1. asks' = asks + 1 /\ heard' = heard /\ saved'.req = asks' /\ ~saved'.heard
        BY <1>4 DEF StudyCmd, told433
  <2>2. radioPc' = "search" BY <1>4 DEF StudyCmd, Goto
  <2>3. \A i \in DOMAIN heard: heard[i].req < asks'
    <3>1. ASSUME NEW i \in DOMAIN heard PROVE heard[i].req < asks'
      <4>1. heard[i].req \in 0 .. MaxAsks BY <1>a
      <4> QED BY <1>0, <2>1, <4>1, RadioConstants
    <3> QED BY <3>1
  <2>4. \A i \in DOMAIN heard: heard[i].req <= asks'
    <3>1. ASSUME NEW i \in DOMAIN heard PROVE heard[i].req <= asks'
      <4>1. heard[i].req \in 0 .. MaxAsks BY <1>a
      <4> QED BY <1>0, <2>1, <2>3, <4>1, RadioConstants
    <3> QED BY <3>1
  <2> HIDE DEF Older, Last
  <2> QED BY <1>0, <2>1, <2>2, <2>3, <2>4 DEF Recorded
<1>5. CASE ControlCmd
  <2>1. asks' = asks + 1 /\ heard' = heard BY <1>5 DEF ControlCmd
  <2>2. ~Awaits' BY <1>5 DEF ControlCmd, Goto, Awaits, StudySteps
  <2>3. \A i \in DOMAIN heard: heard[i].req <= asks'
    <3>1. ASSUME NEW i \in DOMAIN heard PROVE heard[i].req <= asks'
      <4>1. heard[i].req \in 0 .. MaxAsks BY <1>a
      <4> QED BY <1>0, <2>1, <4>1, RadioConstants
    <3> QED BY <3>1
  <2> HIDE DEF Older, Last
  <2> QED BY <1>0, <2>1, <2>2, <2>3 DEF Recorded
<1>6. CASE EnterSearchFreqMode
  <2>1. UNCHANGED <<heard, asks, saved>> /\ wave' = Cleared /\ Awaits /\ Awaits'
        BY <1>6 DEF EnterSearchFreqMode, Goto, told433, Awaits, StudySteps
  <2> QED BY <2>1 DEF Recorded, Uncrossed
<1>7. CASE EnterStudyMode \/ Listen
  <2>1. radioPc \in StudySteps \ {"search"} BY <1>7, StepPlaces DEF StudySteps
  <2>2. Awaits /\ radioPc # "search" BY <2>1 DEF Awaits
  <2> QED BY <1>2, <1>7, <2>2 DEF EnterStudyMode, Listen, told433
<1>8. CASE StartSendTimer \/ EnterSending
  <2>1. ~Awaits'
        BY <1>8 DEF StartSendTimer, EnterSending, Goto, Awaits, StudySteps
  <2> QED BY <1>1, <1>8, <2>1 DEF StartSendTimer, EnterSending, told433
<1>9. CASE Send433StudyStatus
  BY <1>2, <1>9 DEF Send433StudyStatus, Awaits, chip
<1>10. CASE Sdo2Irq
  BY <1>2, <1>10 DEF Sdo2Irq, Awaits, told433
<1>11. CASE SendTimer \/ IdleTimer
  <2>1. radioPc' = radioPc /\ chipStatus' # "studying"
        BY <1>11 DEF SendTimer, IdleTimer
  <2>2. Awaits' => Awaits BY <2>1 DEF Awaits
  <2> QED BY <1>2, <1>11, <2>1, <2>2 DEF SendTimer, IdleTimer
<1>12. CASE ChangeToRecvMode \/ ChangeToSendMode
  <2>1. Awaits' => Awaits /\ radioPc # "search"
        BY <1>12, ModeSteps DEF Awaits, StudySteps, SendSteps
  <2> QED BY <1>2, <1>12, <2>1, ModeSteps
<1>13. CASE StudyTimer
  <2>1. radioPc = "out" /\ chipStatus = "studying" BY <1>13, OneAtATime DEF StudyTimer
  <2>2. Last /\ saved.req = asks BY <2>1 DEF Uncrossed, Recorded, Awaits
  <2>3. PICK w: heard' = Append(heard, Answer(saved.req, w)) BY <1>13 DEF StudyTimer
  <2>4. ~Awaits' /\ asks' = asks BY <1>13, <2>1 DEF StudyTimer, Awaits, StudySteps
  <2>5. DOMAIN heard = 1 .. Len(heard) /\ DOMAIN heard' = 1 .. Len(heard) + 1
        /\ Len(heard) \in Nat
        BY <1>0, <2>3
  <2>6. \A i \in DOMAIN heard: heard'[i] = heard[i] BY <1>0, <2>3, <2>5
  <2>7. heard'[Len(heard) + 1].req = asks BY <1>0, <2>2, <2>3, <2>5 DEF Answer
  <2>8. ASSUME NEW i \in DOMAIN heard'
        PROVE  \/ i = Len(heard) + 1 /\ heard'[i].req = asks
               \/ i \in DOMAIN heard /\ heard'[i].req = heard[i].req /\ heard[i].req < asks
    <3>1. i = Len(heard) + 1 \/ i \in DOMAIN heard BY <2>5
    <3> QED BY <2>2, <2>6, <2>7, <3>1
  <2>9. \A i \in DOMAIN heard': heard'[i].req <= asks'
    <3>1. ASSUME NEW i \in DOMAIN heard' PROVE heard'[i].req <= asks'
      <4>1. i \in DOMAIN heard => heard[i].req \in 0 .. MaxAsks BY <1>a
      <4> QED BY <1>0, <2>4, <2>8, <4>1, RadioConstants
    <3> QED BY <3>1
  <2>10. ASSUME NEW i \in DOMAIN heard', NEW j \in DOMAIN heard', i # j
         PROVE  heard'[i].req # heard'[j].req
    <3>1. \A g \in DOMAIN heard: heard[g].req \in 0 .. MaxAsks BY <1>a
    <3>2. CASE i = Len(heard) + 1
      <4>1. heard'[i].req = asks /\ j \in DOMAIN heard /\ heard'[j].req = heard[j].req
            /\ heard[j].req < asks
            BY <2>7, <2>8, <2>10, <3>2
      <4> QED BY <1>0, <3>1, <4>1, RadioConstants
    <3>3. CASE j = Len(heard) + 1
      <4>1. heard'[j].req = asks /\ i \in DOMAIN heard /\ heard'[i].req = heard[i].req
            /\ heard[i].req < asks
            BY <2>7, <2>8, <2>10, <3>3
      <4> QED BY <1>0, <3>1, <4>1, RadioConstants
    <3>4. CASE i # Len(heard) + 1 /\ j # Len(heard) + 1
      BY <1>0, <2>8, <2>10, <3>4
    <3> QED BY <3>2, <3>3, <3>4
  <2> HIDE DEF Older, Apart, Last
  <2> QED BY <2>4, <2>9, <2>10 DEF Recorded
<1> QED
  BY <1>3, <1>4, <1>5, <1>6, <1>7, <1>8, <1>9, <1>10, <1>11, <1>12, <1>13 DEF RadioNext

LEMMA ModeAtKept ==
  ASSUME Uncrossed, RadioTyped, [RadioNext]_radioVars, ~crossed'
  PROVE  ModeAt'
<1> USE DEF StudySteps, SendSteps
<1>0. StatusAt /\ ModeAt BY DEF Uncrossed
<1>1. UNCHANGED <<mode, preMode>> /\ (radioPc' = radioPc \/ radioPc' \in {"search", "study"}
      \/ (radioPc \in {"listen", "send"} /\ radioPc' = "out")
      \/ (radioPc = "out" /\ radioPc' = "standby")
      \/ (radioPc = "study" /\ radioPc' = "receive")
      \/ (radioPc = "start" /\ radioPc' = "send"))
      /\ (radioPc' # radioPc => radioPc \notin {"receiving", "standing by", "transmitting"})
      /\ (waveTimer' /\ radioPc' = radioPc => waveTimer \/ mode # "sleep")
      => ModeAt'
      BY <1>0 DEF ModeAt
<1>2. CASE UNCHANGED radioVars BY <1>1, <1>2 DEF radioVars
<1>3. CASE StudyCmd \/ ControlCmd
  BY <1>1, <1>3 DEF StudyCmd, ControlCmd, Goto, chip
<1>4. CASE EnterSearchFreqMode \/ EnterStudyMode \/ Listen \/ StartSendTimer \/ EnterSending
  BY <1>1, <1>4 DEF EnterSearchFreqMode, EnterStudyMode, Listen, StartSendTimer,
     EnterSending, Goto
<1>5. CASE Send433StudyStatus \/ Sdo2Irq \/ IdleTimer
  BY <1>1, <1>5 DEF Send433StudyStatus, Sdo2Irq, IdleTimer, chip
<1>6. CASE StudyTimer
  <2>1. radioPc = "out" /\ mode = preMode BY <1>0, <1>6, OneAtATime DEF ModeAt
  <2> QED BY <1>6, <2>1 DEF StudyTimer, ModeAt
<1>7. CASE SendTimer
  <2>1. radioPc \in {"out", "send"} /\ radioPc' = radioPc /\ mode = "transmitter"
        BY <1>0, <1>7 DEF SendTimer, StatusAt
  <2>2. mode = preMode BY <1>0, <2>1 DEF ModeAt
  <2>3. \/ mode' = "sleep" /\ preMode' = "sleep" /\ waveTimer' = FALSE
        \/ mode' = mode /\ preMode' = preMode
        BY <1>7, <2>1, <2>2 DEF SendTimer
  <2> QED BY <2>1, <2>2, <2>3 DEF ModeAt
<1>8. CASE ChangeToRecvMode
  BY <1>0, <1>8 DEF ChangeToRecvMode, WriteMode, Believe, Goto, ModeAt
<1>9. CASE ChangeToSendMode
  BY <1>0, <1>9 DEF ChangeToSendMode, WriteMode, Believe, Goto, ModeAt
<1> QED
  BY <1>2, <1>3, <1>4, <1>5, <1>6, <1>7, <1>8, <1>9 DEF RadioNext

LEMMA StatusAtKept ==
  ASSUME Uncrossed, RadioTyped, [RadioNext]_radioVars, ~crossed'
  PROVE  StatusAt'
<1> USE DEF StudySteps, SendSteps
<1>0. StatusAt /\ ModeAt BY DEF Uncrossed
<1>1. CASE UNCHANGED radioVars BY <1>0, <1>1 DEF radioVars, StatusAt
<1>2. CASE StudyCmd \/ ControlCmd
  <2>1. ~waveTimer BY <1>2, OneAtATime
  <2> QED BY <1>0, <1>2, <2>1 DEF StudyCmd, ControlCmd, Goto, chip, told433, StatusAt
<1>3. CASE EnterSearchFreqMode
  BY <1>0, <1>3 DEF EnterSearchFreqMode, Goto, StatusAt
<1>4. CASE EnterStudyMode
  BY <1>0, <1>4 DEF EnterStudyMode, Goto, StatusAt
<1>5. CASE Listen
  BY <1>0, <1>5 DEF Listen, Goto, StatusAt, ModeAt
<1>6. CASE StartSendTimer
  BY <1>0, <1>6 DEF StartSendTimer, Goto, told433, StatusAt, ModeAt
<1>7. CASE EnterSending
  BY <1>0, <1>7 DEF EnterSending, Goto, told433, StatusAt, ModeAt
<1>8. CASE Send433StudyStatus
  BY <1>0, <1>8 DEF Send433StudyStatus, chip, StatusAt
<1>9. CASE Sdo2Irq
  BY <1>0, <1>9 DEF Sdo2Irq, told433, StatusAt
<1>10. CASE StudyTimer
  <2>1. radioPc = "out" BY <1>10, OneAtATime
  <2> QED BY <1>0, <1>10, <2>1 DEF StudyTimer, StatusAt
<1>11. CASE SendTimer
  <2>1. radioPc \in {"out", "send"} /\ radioPc' = radioPc /\ mode = "transmitter"
        /\ chipStatus = "sending" /\ waveTimer
        BY <1>0, <1>11 DEF SendTimer, StatusAt
  <2>2. ranOut' = ranOut /\ (radioPc = "send" => ranOut # {})
        BY <1>0, <1>11, <2>1 DEF SendTimer, StatusAt
  <2>3. \/ chipStatus' = "idle" /\ waveTimer' = FALSE
        \/ chipStatus' = "sending" /\ waveTimer' = TRUE /\ mode' = mode
        BY <1>11, <2>1 DEF SendTimer
  <2> QED BY <2>1, <2>2, <2>3 DEF StatusAt
<1>12. CASE IdleTimer
  <2>1. /\ waveTimer' = FALSE /\ UNCHANGED <<radioPc, chipStatus, mode, sdoIrq>>
        /\ chipStatus = "idle" /\ radioPc' = "send" => ranOut' # {}
        BY <1>12 DEF IdleTimer
  <2> QED BY <1>0, <1>12, <2>1 DEF IdleTimer, StatusAt
<1>13. CASE ChangeToRecvMode \/ ChangeToSendMode
  <2>1. UNCHANGED <<chipStatus, sdoIrq, waveTimer, ranOut>> BY <1>13, ModeSteps
  <2>2. \/ radioPc \in {"receive", "receiving"} /\ radioPc' \in {"receiving", "listen"}
        \/ /\ radioPc \in {"standby", "standing by", "transmit", "transmitting"}
           /\ radioPc' \in SendSteps \ {"standby", "send"}
        BY <1>13, ModeSteps
  <2> QED BY <1>0, <2>1, <2>2 DEF StatusAt
<1> QED
  BY <1>1, <1>2, <1>3, <1>4, <1>5, <1>6, <1>7, <1>8, <1>9, <1>10, <1>11, <1>12, <1>13
  DEF RadioNext

LEMMA CountOutKept ==
  ASSUME Uncrossed, RadioTyped, OnItsWay, Unasked, [RadioNext]_radioVars, ~crossed'
  PROVE  CountOut'
<1> USE RadioConstants
<1>0. /\ CountOut /\ StatusAt /\ ModeAt /\ asks \in 0 .. MaxAsks
      /\ sendCount \in 0 .. Resends - 1 /\ ranOut \subseteq 0 .. asks
      BY DEF Uncrossed, RadioTyped, RadioNumbers
<1>1. UNCHANGED <<asks, wave, sent, sendCount, ranOut>> /\ (GoingOut <=> GoingOut')
      /\ (chipStatus = "sending" /\ waveTimer => chipStatus' = "sending" /\ waveTimer')
      => CountOut'
      BY <1>0 DEF CountOut
<1>2. UNCHANGED <<sent, sendCount, ranOut>> /\ ~GoingOut /\ ~GoingOut' => CountOut'
      BY <1>0 DEF CountOut, GoingOut
<1>3. CASE UNCHANGED radioVars BY <1>1, <1>3 DEF radioVars, GoingOut
<1>4. CASE StudyCmd
  <2>1. ~waveTimer BY <1>4, OneAtATime
  <2> QED BY <1>2, <1>4, <2>1 DEF StudyCmd, Goto, chip, told433, GoingOut, SendSteps
<1>5. CASE ControlCmd
  <2>1. ~waveTimer BY <1>5, OneAtATime
  <2>2. ~GoingOut BY <1>5, <2>1 DEF ControlCmd, GoingOut, SendSteps
  <2>3. /\ sendCount = 0
        /\ \A r \in Requests433: \/ r \in ranOut /\ sent[r] = 0
                                 \/ r \notin ranOut /\ sent[r] \in {NotSent, Resends}
        BY <1>0, <2>1, <2>2 DEF CountOut
  <2>4. GoingOut' /\ wave' = asks' /\ sendCount' = sendCount /\ ranOut' = ranOut
        BY <1>5 DEF ControlCmd, Goto, GoingOut, SendSteps
  <2>5. asks' > 0 /\ asks' \notin ranOut BY <1>0, <1>5, SentByControl
  <2>6. sent'[asks'] = 0 /\ \A r \in Requests433: r # asks' => sent'[r] = sent[r]
        BY <1>5, SentByControl
  <2>7. \A r \in Requests433:
           \/ r \in ranOut' /\ sent'[r] = 0
           \/ r \notin ranOut' /\ (sent'[r] \in {NotSent, Resends} \/ (r = asks' /\ GoingOut'))
        BY <2>3, <2>4, <2>5, <2>6
  <2> QED BY <2>3, <2>4, <2>5, <2>6, <2>7 DEF CountOut
<1>6. CASE EnterSearchFreqMode \/ EnterStudyMode \/ Listen
  <2>1. radioPc \in StudySteps /\ radioPc' \notin SendSteps
        BY <1>6, StepPlaces DEF StudySteps, SendSteps
  <2>2. ~(chipStatus = "sending" /\ waveTimer)
        BY <1>0, <2>1 DEF StatusAt, StudySteps
  <2>3. ~(chipStatus' = "sending" /\ waveTimer')
        BY <1>6, <2>2 DEF EnterSearchFreqMode, EnterStudyMode, Listen
  <2>4. ~GoingOut /\ ~GoingOut'
        BY <2>1, <2>2, <2>3 DEF GoingOut, StudySteps, SendSteps
  <2> QED BY <1>2, <1>6, <2>4 DEF EnterSearchFreqMode, EnterStudyMode, Listen, told433
<1>7. CASE StartSendTimer
  <2>1. GoingOut /\ GoingOut' /\ waveTimer' /\ chipStatus' = chipStatus
        BY <1>7 DEF StartSendTimer, Goto, GoingOut, SendSteps
  <2> QED BY <1>1, <1>7, <2>1 DEF StartSendTimer, told433
<1>8. CASE EnterSending
  <2>1. /\ radioPc = "send" /\ radioPc' = "out" /\ waveTimer' = waveTimer
        /\ chipStatus' = "sending"
        BY <1>8 DEF EnterSending, Goto
  <2>2. GoingOut <=> GoingOut'
        BY <2>1 DEF GoingOut, SendSteps
  <2> QED BY <1>1, <1>8, <2>1, <2>2 DEF EnterSending, told433
<1>9. CASE Send433StudyStatus
  BY <1>1, <1>9 DEF Send433StudyStatus, chip, GoingOut
<1>10. CASE Sdo2Irq
  <2>1. chipStatus = "studying" /\ chipStatus' = chipStatus /\ radioPc' = radioPc
        /\ mode = "receiver"
        BY <1>10 DEF Sdo2Irq
  <2>2. radioPc # "send" BY <1>0, <2>1 DEF ModeAt
  <2>3. GoingOut <=> GoingOut' BY <2>1, <2>2 DEF GoingOut
  <2> QED BY <1>1, <1>10, <2>1, <2>3 DEF Sdo2Irq, told433
<1>11. CASE StudyTimer
  <2>1. radioPc = "out" /\ radioPc' = "out" /\ chipStatus = "studying" /\ chipStatus' = "idle"
        BY <1>11, OneAtATime DEF StudyTimer
  <2>2. ~GoingOut /\ ~GoingOut' BY <2>1 DEF GoingOut, SendSteps
  <2> QED BY <1>2, <1>11, <2>2 DEF StudyTimer
<1>12. CASE IdleTimer
  <2>1. /\ UNCHANGED <<radioPc, asks, chipStatus, wave, sendCount, sent>>
        /\ waveTimer /\ waveTimer' = FALSE /\ chipStatus = "idle"
        /\ ranOut' = IF radioPc = "send" THEN ranOut \cup {asks} ELSE ranOut
        BY <1>12 DEF IdleTimer
  <2>2. sendCount = 0 BY <1>0, <2>1 DEF CountOut
  <2>3. CASE radioPc # "send"
    <3>1. GoingOut <=> GoingOut' BY <2>1, <2>3 DEF GoingOut
    <3> QED BY <1>1, <2>1, <2>3, <3>1
  <2>4. CASE radioPc = "send"
    <3>1. GoingOut /\ ~GoingOut' BY <2>1, <2>4 DEF GoingOut, SendSteps
    <3>2. asks > 0 /\ asks \in Requests433 /\ sent[asks] = 0
          BY <1>0, <2>2, <3>1 DEF CountOut, Requests433
    <3>3. \A r \in Requests433:
             \/ r \in ranOut' /\ sent'[r] = 0
             \/ r \notin ranOut' /\ sent'[r] \in {NotSent, Resends}
          BY <1>0, <2>1, <2>4, <3>2 DEF CountOut
    <3> QED BY <2>1, <2>2, <3>1, <3>3 DEF CountOut
  <2> QED BY <2>3, <2>4
<1>13. CASE SendTimer
  <2>1. UNCHANGED <<radioPc, asks, wave, ranOut>> /\ waveTimer /\ chipStatus = "sending"
        BY <1>13 DEF SendTimer
  <2>2. GoingOut /\ mode = "transmitter" /\ radioPc \in {"out", "send"}
        BY <1>0, <2>1 DEF GoingOut, StatusAt
  <2>3. asks > 0 /\ wave = asks /\ sent[asks] = sendCount /\ asks \notin ranOut
        BY <1>0, <2>2 DEF CountOut
  <2>4. asks \in Requests433 /\ asks \in 1 .. asks BY <1>0, <2>3 DEF Requests433
  <2>5. sent'[asks] = sendCount + 1 BY <1>13, <2>2, <2>3, <2>4, SentByTimer
  <2>6. \A r \in Requests433: r # asks =>
           \/ r \in ranOut' /\ sent'[r] = 0
           \/ r \notin ranOut' /\ sent'[r] \in {NotSent, Resends}
        BY <1>0, <1>13, <2>1, <2>3, SentByTimer DEF CountOut
  <2>7. CASE sendCount + 1 >= Resends
    <3>1. sendCount' = 0 /\ chipStatus' = "idle" /\ waveTimer' = FALSE
          BY <1>13, <2>7 DEF SendTimer
    <3>2. sent'[asks] = Resends BY <1>0, <2>5, <2>7
    <3>3. ~GoingOut' BY <2>1, <2>2, <3>1 DEF GoingOut, SendSteps
    <3>4. \A r \in Requests433:
             \/ r \in ranOut' /\ sent'[r] = 0
             \/ r \notin ranOut' /\ sent'[r] \in {NotSent, Resends}
          BY <2>1, <2>3, <2>6, <3>2
    <3> QED BY <3>1, <3>3, <3>4 DEF CountOut
  <2>8. CASE ~(sendCount + 1 >= Resends)
    <3>1. sendCount' = sendCount + 1 /\ chipStatus' = "sending" /\ waveTimer' = TRUE
          BY <1>13, <2>8 DEF SendTimer
    <3>2. GoingOut' BY <3>1 DEF GoingOut
    <3>3. \A r \in Requests433:
             \/ r \in ranOut' /\ sent'[r] = 0
             \/ r \notin ranOut' /\ (sent'[r] \in {NotSent, Resends}
                                      \/ (r = asks' /\ GoingOut'))
          BY <2>1, <2>3, <2>6, <3>2
    <3> QED BY <2>1, <2>3, <2>5, <3>1, <3>2, <3>3 DEF CountOut
  <2> QED BY <2>7, <2>8
<1>14. CASE ChangeToRecvMode \/ ChangeToSendMode
  <2>1. radioPc \in SendSteps \ {"send"} <=> radioPc' \in SendSteps \ {"send"}
        BY <1>14, ModeSteps DEF SendSteps
  <2>2. radioPc # "send" /\ radioPc' # "send" BY <1>14, ModeSteps DEF SendSteps
  <2>3. UNCHANGED <<asks, wave, sent, sendCount, chipStatus, waveTimer, ranOut>>
        BY <1>14, ModeSteps
  <2> QED BY <1>1, <2>1, <2>2, <2>3 DEF GoingOut
<1> QED
  BY <1>3, <1>4, <1>5, <1>6, <1>7, <1>8, <1>9, <1>10, <1>11, <1>12, <1>13, <1>14 DEF RadioNext

(* However requests, edges and the timer cross, a study request has at     *)
(* most one answer (lum_433StudyTimerCallback posts one for each time the  *)
(* status was set); and when the gateway comes to rest and no request      *)
(* crossed another, each answer carries what was recorded for its own      *)
(* request, the program knows the mode of the chip, a chip that is to      *)
(* study listens, and each wave went out as often as it should             *)
(* (lum_sendStudyWaveData) unless its timer ran out before the status was  *)
(* set (lum_enterSendMode): that one was not sent at all, and without one  *)
(* of those the status is never left at sending.                           *)
THEOREM RadioCorrect == RadioSpec => []RadioInv
<1>1. RadioInit => RadioIInv
  <2> SUFFICES ASSUME RadioInit PROVE RadioIInv OBVIOUS
  <2> USE RadioConstants DEF RadioInit
  <2>1. RadioPlaces /\ RadioFlags BY DEF RadioPlaces, RadioFlags, StudySteps, SendSteps
  <2>2. RadioNumbers /\ RadioSaved BY DEF RadioNumbers, RadioSaved, Cleared
  <2>3. RadioHistory BY DEF RadioHistory, NotSent
  <2>4. OnItsWay /\ Unasked BY DEF OnItsWay, Unasked, SendSteps
  <2>5. NoneTooMany
    <3>1. Cardinality(ToStudy) \in Nat
          BY <2>1, <2>2, <2>3, ToStudyFinite DEF RadioTyped
    <3>2. Len(studyAnswers) = 0 /\ replies = 0 /\ Owed = 0 BY DEF Owed
    <3> QED BY <3>1, <3>2 DEF NoneTooMany
  <2>6. Answering /\ Recorded BY DEF Answering, Recorded, Awaits, StudySteps
  <2>7. ModeAt /\ StatusAt BY DEF ModeAt, StatusAt
  <2>8. CountOut BY DEF CountOut, GoingOut, SendSteps
  <2> QED BY <2>1, <2>2, <2>3, <2>4, <2>5, <2>6, <2>7, <2>8
          DEF RadioIInv, RadioTyped, NothingCrossed
<1>2. RadioIInv /\ [RadioNext]_radioVars => RadioIInv'
  <2> SUFFICES ASSUME RadioIInv, [RadioNext]_radioVars PROVE RadioIInv' OBVIOUS
  <2> USE DEF RadioIInv
  <2>1. RadioTyped' /\ OnItsWay' /\ Unasked' /\ NoneTooMany'
        BY RadioTypedKept, OnItsWayKept, UnaskedKept, NoneTooManyKept
  <2>2. ASSUME ~crossed' PROVE Uncrossed'
    <3>1. Uncrossed BY <2>2, OneAtATime DEF NothingCrossed, Uncrossed
    <3>2. Answering' /\ Recorded' BY <2>2, <3>1, AnsweringKept, RecordedKept
    <3>3. ModeAt' /\ StatusAt' /\ CountOut'
          BY <2>2, <3>1, ModeAtKept, StatusAtKept, CountOutKept
    <3> QED BY <3>2, <3>3 DEF Uncrossed
  <2> QED BY <2>1, <2>2 DEF NothingCrossed, Uncrossed
<1>3. RadioIInv => RadioInv
  <2> SUFFICES ASSUME RadioIInv PROVE RadioInv OBVIOUS
  <2> USE DEF RadioIInv
  <2>1. NoAnswerTooMany /\ replies <= asks
    <3>1. Cardinality(ToStudy) \in Nat /\ Cardinality(ToStudy) <= asks BY ToStudyFinite
    <3>2. Len(studyAnswers) \in Nat /\ replies \in Nat /\ Owed \in Nat
          /\ asks \in 0 .. MaxAsks
          BY DEF RadioTyped, RadioHistory, RadioNumbers, Owed
    <3>3. Len(studyAnswers) + replies <= Cardinality(ToStudy)
          BY <3>1, <3>2 DEF NoneTooMany
    <3>4. replies <= asks BY <3>1, <3>2, <3>3, RadioConstants
    <3> QED BY <3>3, <3>4 DEF NoAnswerTooMany, ToStudy
  <2>2. RadioTypes
    <3>1. RadioPlaces /\ RadioFlags /\ RadioNumbers /\ RadioSaved BY DEF RadioTyped
    <3>2. /\ saved.req \in 0 .. MaxAsks /\ saved.heard \in BOOLEAN
          /\ ranOut \subseteq 0 .. MaxAsks
      <4>1. ranOut \subseteq 0 .. asks /\ asks \in 0 .. MaxAsks BY <3>1 DEF RadioNumbers
      <4>2. ranOut \subseteq 0 .. MaxAsks BY <4>1, RadioConstants
      <4> QED BY <3>1, <4>2 DEF RadioSaved
    <3>3. replies \in 0 .. MaxAsks BY <2>1, <3>1, RadioConstants DEF RadioNumbers
    <3>4. {sdoIrq, waveTimer, crossed, saved.heard} \subseteq BOOLEAN
          BY <3>1, <3>2 DEF RadioFlags
    <3>5. {mode, preMode} \subseteq {"sleep", "standby", "receiver", "transmitter"}
          BY <3>1 DEF RadioPlaces
    <3>6. /\ radioPc \in {"out", "search", "study", "receive", "receiving", "listen",
                          "standby", "standing by", "transmit", "transmitting", "start", "send"}
          /\ chipStatus \in {"idle", "studying", "sending"}
          BY <3>1 DEF RadioPlaces, StudySteps, SendSteps
    <3>7. /\ asks \in 0 .. MaxAsks /\ sendCount \in 0 .. Resends - 1
          /\ wave \in {WaveSpoilt, Cleared} \cup Requests433
          BY <3>1 DEF RadioNumbers
    <3> QED BY <3>2, <3>3, <3>4, <3>5, <3>6, <3>7, Zenon DEF RadioTypes
  <2>3. Undisturbed
    <3>1. SUFFICES ASSUME radioPc = "out", ~AtWork, ~crossed
                   PROVE  /\ studyAnswers = heard
                          /\ \A i, j \in DOMAIN heard: i # j => heard[i].req # heard[j].req
                          /\ \A r \in Requests433 \ ranOut: sent[r] \in {NotSent, Resends}
                          /\ \A r \in Requests433 \cap ranOut: sent[r] = 0
                          /\ chipStatus = "sending" => ranOut # {}
                          /\ mode = preMode /\ sendCount = 0
                          /\ chipStatus = "studying" => sdoIrq /\ mode = "receiver"
          BY DEF Undisturbed
    <3>2. ~waveTimer /\ replies = 0
          BY <3>1 DEF AtWork, RadioTyped, RadioNumbers
    <3>3. Answering /\ Recorded /\ ModeAt /\ StatusAt /\ CountOut
          BY <3>1 DEF NothingCrossed
    <3>4. ~GoingOut BY <3>1, <3>2 DEF GoingOut, SendSteps
    <3>5. studyAnswers = heard BY <3>2, <3>3 DEF Answering
    <3>6. \A i, j \in DOMAIN heard: i # j => heard[i].req # heard[j].req
          BY <3>3 DEF Recorded
    <3>7. /\ sendCount = 0
          /\ \A r \in Requests433 \ ranOut: sent[r] \in {NotSent, Resends}
          /\ \A r \in Requests433 \cap ranOut: sent[r] = 0
          BY <3>2, <3>3, <3>4 DEF CountOut
    <3>8. /\ mode = preMode /\ (chipStatus = "studying" => sdoIrq /\ mode = "receiver")
          /\ chipStatus = "sending" => ranOut # {}
          BY <3>1, <3>2, <3>3 DEF ModeAt, StatusAt
    <3> QED BY <3>5, <3>6, <3>7, <3>8
  <2> QED BY <2>1, <2>2, <2>3 DEF RadioInv
<1> QED
  BY <1>1, <1>2, <1>3, PTL DEF RadioSpec
-----------------------------------------------------------------------------
(***************************************************************************)
(* The invariant of FactoryTest, for all loads and bounds.  Calibrated and  *)
(* BaseIsOwn speak of the end of the test; what makes them inductive is the *)
(* order the thread and the state machine keep (InOrder), what is known of  *)
(* K at each state (KFresh), and that before the first answer is taken      *)
(* every answer says what the device itself draws (Unloaded).               *)
(***************************************************************************)
Entering == testPc \in {"start", "close", "init"}

(* The calibration begins when the test was set up, and is done before the *)
(* test is passed.                                                         *)
InOrder ==
    /\ caliStep # "idle" => caliStatus = "check" /\ datum > 200
    /\ Entering \/ testPc = "off" \/ caliDone => caliStatus = "succ"
    /\ Entering => ~caliDone
    /\ testPc \in {"flag", "smartlink", "done"} => caliDone
    /\ testFlag => testPc \in {"off", "smartlink", "done"}

(* A K that was computed and is checked, and one that was saved.           *)
KFresh ==
    caliStatus = "check" /\ caliStep # "k" =>
        ("k" \notin stale => True(k)) /\ "check" \notin stale
KSaved ==
    caliDone \/ testFlag => /\ "k" \notin stale => True(savedK)
                            /\ "check" \notin stale => Near(savedK)

(* Until the first answer is taken no current flows behind the switch.     *)
Unloaded ==
    (Entering \/ caliStatus = "closed") /\ "key" \notin stale =>
        ~caliSwitch /\ answers \subseteq {Own}

FactoryIInv ==
    FactoryTypes /\ InOrder /\ KFresh /\ KSaved /\ Unloaded /\ BaseIsOwn
-----------------------------------------------------------------------------
(* The types in parts.                                                     *)
TestFlags ==
    /\ inTest \in BOOLEAN /\ wifiTried \in BOOLEAN /\ caliDone \in BOOLEAN /\ dhcp \in BOOLEAN
    /\ caliTimer \in BOOLEAN /\ request \in BOOLEAN /\ caliSwitch \in BOOLEAN
    /\ testFlag \in BOOLEAN /\ smartlinkDue \in BOOLEAN
TestPlaces ==
    /\ testPc \in {"off", "start", "close", "init", "wait", "flag", "smartlink", "done"}
    /\ caliStatus \in {"closed", "first", "check", "succ"}
    /\ caliStep \in {"idle", "k", "check"} /\ stale \subseteq {"k", "check", "key"}
TestNumbers ==
    /\ asked \in Nat /\ changes \in Nat /\ cuts \in Nat
    /\ load \in Loads /\ answers \subseteq Nat /\ keyTimes \in 0 .. KeyTimes
CaliNumbers ==
    /\ base \in Nat /\ caliPower \in Nat /\ checkPower \in Nat /\ datum \in Nat
    /\ k \in [raw: Nat, said: Nat] /\ savedK \in [raw: Nat, said: Nat]

LEMMA FactoryTypesAre ==
  FactoryTypes <=> TestFlags /\ TestPlaces /\ TestNumbers /\ CaliNumbers
  BY DEF FactoryTypes, TestFlags, TestPlaces, TestNumbers, CaliNumbers

LEMMA Readings ==
  ASSUME TestNumbers
  PROVE  Raw \in Nat /\ Reading \in Nat
  BY FactoryAssumption DEF TestNumbers, Raw, Reading

LEMMA Powers ==
  ASSUME CaliNumbers, NEW p \in Nat
  PROVE  Power(p) \in Nat
  BY DEF CaliNumbers, Power, Above

(* Every step keeps the types.                                             *)
LEMMA TestFlagsKept ==
  ASSUME TestFlags, [FactoryNext]_factoryVars
  PROVE  TestFlags'
<1> USE DEF TestFlags, thread, calibration, wire, bench, flags
<1>1. CASE UNCHANGED factoryVars
  BY <1>1 DEF factoryVars
<1>2. CASE EnterTest \/ CloseForTest \/ CaliInit
  <2>1. CASE EnterTest BY <2>1 DEF EnterTest
  <2>2. CASE CloseForTest BY <2>2 DEF CloseForTest
  <2>3. CASE CaliInit BY <2>3 DEF CaliInit
  <2> QED BY <1>2, <2>1, <2>2, <2>3
<1>3. CASE CheckTestSucc \/ SetTestFlag \/ SetSmartlink
  <2>1. CASE CheckTestSucc BY <2>1 DEF CheckTestSucc
  <2>2. CASE SetTestFlag BY <2>2 DEF SetTestFlag
  <2>3. CASE SetSmartlink BY <2>3 DEF SetSmartlink
  <2> QED BY <1>3, <2>1, <2>2, <2>3
<1>4. CASE Dhcp \/ ApGone \/ Ask \/ PreciseMeter
  BY <1>4 DEF Dhcp, ApGone, Ask, PreciseMeter
<1>5. CASE CheckCaliData
  <2>1. /\ caliTimer' \in BOOLEAN /\ caliSwitch' \in BOOLEAN
        /\ UNCHANGED <<caliDone, request, thread, bench, flags>>
        BY <1>5 DEF CheckCaliData, TakeBase, TakeFirst, TakeCheck, TakeNothing
  <2> QED BY <2>1
<1>6. CASE CalcK \/ CheckK
  BY <1>6 DEF CalcK, CheckK
<1>7. CASE ChangeLoad
  BY <1>7 DEF ChangeLoad
<1>8. CASE PressKey
  BY <1>8 DEF PressKey
<1>9. CASE CutPower
  BY <1>9 DEF CutPower, Fresh
<1> QED
  BY <1>1, <1>2, <1>3, <1>4, <1>5, <1>6, <1>7, <1>8, <1>9 DEF FactoryNext

LEMMA TestPlacesKept ==
  ASSUME TestPlaces, [FactoryNext]_factoryVars
  PROVE  TestPlaces'
<1> USE DEF TestPlaces, thread, calibration
<1>1. CASE UNCHANGED factoryVars
  BY <1>1 DEF factoryVars
<1>2. CASE EnterTest \/ CloseForTest \/ CaliInit \/ CheckTestSucc \/ SetTestFlag \/ SetSmartlink
  BY <1>2 DEF EnterTest, CloseForTest, CaliInit, CheckTestSucc, SetTestFlag, SetSmartlink
<1>3. CASE Dhcp \/ ApGone \/ Ask \/ PreciseMeter
  BY <1>3 DEF Dhcp, ApGone, Ask, PreciseMeter
<1>4. CASE CheckCaliData
  BY <1>4 DEF CheckCaliData, TakeBase, TakeFirst, TakeCheck, TakeNothing
<1>5. CASE CalcK \/ CheckK
  BY <1>5 DEF CalcK, CheckK
<1>6. CASE ChangeLoad \/ PressKey
  BY <1>6 DEF ChangeLoad, PressKey
<1>7. CASE CutPower
  BY <1>7 DEF CutPower, Fresh
<1> QED
  BY <1>1, <1>2, <1>3, <1>4, <1>5, <1>6, <1>7 DEF FactoryNext

LEMMA TestNumbersKept ==
  ASSUME TestNumbers, [FactoryNext]_factoryVars
  PROVE  TestNumbers'
<1> USE FactoryAssumption, Readings DEF TestNumbers, thread, wire, bench
<1>1. CASE UNCHANGED factoryVars
  BY <1>1 DEF factoryVars
<1>2. CASE EnterTest \/ CloseForTest \/ CaliInit \/ CheckTestSucc \/ SetTestFlag \/ SetSmartlink
  BY <1>2 DEF EnterTest, CloseForTest, CaliInit, CheckTestSucc, SetTestFlag, SetSmartlink
<1>3. CASE Dhcp \/ ApGone \/ Ask \/ PreciseMeter
  BY <1>3 DEF Dhcp, ApGone, Ask, PreciseMeter
<1>4. CASE CheckCaliData
  BY <1>4 DEF CheckCaliData, Take
<1>5. CASE CalcK \/ CheckK
  BY <1>5 DEF CalcK, CheckK
<1>6. CASE ChangeLoad \/ PressKey
  <2>1. keyTimes' = keyTimes \/ (keyTimes < KeyTimes /\ keyTimes' = keyTimes + 1)
    BY <1>6 DEF ChangeLoad, PressKey
  <2>2. UNCHANGED <<asked, answers, cuts>> /\ load' \in Loads /\ changes' \in Nat
    BY <1>6 DEF ChangeLoad, PressKey
  <2>3. KeyTimes \in Nat
    BY FactoryAssumption
  <2> QED
    BY <2>1, <2>2, <2>3
<1>7. CASE CutPower
  BY <1>7 DEF CutPower, Fresh
<1> QED
  BY <1>1, <1>2, <1>3, <1>4, <1>5, <1>6, <1>7 DEF FactoryNext

LEMMA CaliNumbersKept ==
  ASSUME CaliNumbers, TestNumbers, [FactoryNext]_factoryVars
  PROVE  CaliNumbers'
<1> USE DEF CaliNumbers, calibration
<1>1. CASE UNCHANGED factoryVars
  BY <1>1 DEF factoryVars
<1>2. CASE EnterTest \/ CloseForTest \/ CaliInit \/ CheckTestSucc \/ SetTestFlag \/ SetSmartlink
  BY <1>2 DEF EnterTest, CloseForTest, CaliInit, CheckTestSucc, SetTestFlag, SetSmartlink
<1>3. CASE Dhcp \/ ApGone \/ Ask \/ PreciseMeter
  BY <1>3 DEF Dhcp, ApGone, Ask, PreciseMeter
<1>4. CASE CheckCaliData
  <2>1. PICK p \in answers: TakeBase(p) \/ TakeFirst(p) \/ TakeCheck(p) \/ TakeNothing
    BY <1>4 DEF CheckCaliData
  <2>2. p \in Nat /\ Power(p) \in Nat
    BY Powers DEF TestNumbers
  <2>3. k' = k /\ savedK' = savedK
    BY <1>4 DEF CheckCaliData
  <2> QED
    BY <2>1, <2>2, <2>3 DEF TakeBase, TakeFirst, TakeCheck, TakeNothing
<1>5. CASE CalcK \/ CheckK
  BY <1>5, Readings DEF CalcK, CheckK
<1>6. CASE ChangeLoad \/ PressKey
  BY <1>6 DEF ChangeLoad, PressKey
<1>7. CASE CutPower
  BY <1>7 DEF CutPower, Fresh
<1> QED
  BY <1>1, <1>2, <1>3, <1>4, <1>5, <1>6, <1>7 DEF FactoryNext

-----------------------------------------------------------------------------
(* The thread and the state machine keep their order.                      *)
LEMMA InOrderKept ==
  ASSUME TestFlags, TestPlaces, TestNumbers, CaliNumbers, InOrder, [FactoryNext]_factoryVars
  PROVE  InOrder'
<1> USE DEF InOrder, Entering, TestFlags, TestPlaces, calibration, thread, flags
<1>1. CASE UNCHANGED factoryVars
  BY <1>1 DEF factoryVars
<1>2. CASE EnterTest
  BY <1>2 DEF EnterTest
<1>3. CASE CloseForTest
  BY <1>3 DEF CloseForTest
<1>4. CASE CaliInit
  BY <1>4 DEF CaliInit
<1>5. CASE CheckTestSucc
  BY <1>5 DEF CheckTestSucc
<1>6. CASE SetTestFlag
  BY <1>6 DEF SetTestFlag
<1>7. CASE SetSmartlink
  BY <1>7 DEF SetSmartlink
<1>8. CASE Dhcp
  BY <1>8 DEF Dhcp
<1>9. CASE ApGone
  BY <1>9 DEF ApGone
<1>10. CASE Ask
  BY <1>10 DEF Ask
<1>11. CASE PreciseMeter
  BY <1>11 DEF PreciseMeter
<1>12. CASE CheckCaliData
  <2>1. PICK p \in answers: TakeBase(p) \/ TakeFirst(p) \/ TakeCheck(p) \/ TakeNothing
    BY <1>12 DEF CheckCaliData
  <2>2. UNCHANGED <<testPc, caliDone, testFlag>> /\ caliStep = "idle"
    BY <1>12 DEF CheckCaliData
  <2>3. CASE TakeBase(p) \/ TakeNothing
    BY <2>2, <2>3 DEF TakeBase, TakeNothing
  <2>4. CASE TakeFirst(p) \/ TakeCheck(p)
    BY <2>2, <2>4 DEF TakeFirst, TakeCheck
  <2> QED
    BY <2>1, <2>3, <2>4
<1>13. CASE CalcK
  BY <1>13 DEF CalcK
<1>14. CASE CheckK
  BY <1>14 DEF CheckK
<1>15. CASE ChangeLoad
  BY <1>15 DEF ChangeLoad
<1>16. CASE PressKey
  BY <1>16 DEF PressKey
<1>17. CASE CutPower
  <2>1. /\ caliStatus' = "succ" /\ ~caliDone' /\ caliStep' = "idle" /\ testFlag' = testFlag
        /\ testPc' = IF testFlag THEN "off" ELSE "start"
    BY <1>17 DEF CutPower, Fresh
  <2> QED
    BY <2>1
<1> QED
  BY <1>1, <1>2, <1>3, <1>4, <1>5, <1>6, <1>7, <1>8, <1>9, <1>10, <1>11, <1>12, <1>13,
     <1>14, <1>15, <1>16, <1>17
     DEF FactoryNext

(* A meter that measures a true datum within 4 % has a K that is so.       *)
LEMMA Cancels ==
  ASSUME NEW p \in Nat, p > 0, NEW x \in Nat, NEW y \in Nat, p * x <= p * y
  PROVE  x <= y
<1> SUFFICES ASSUME y < x
             PROVE  FALSE
  OBVIOUS
<1>1. PICK d \in Nat: x = y + 1 + d
  <2>1. x - y - 1 \in Nat /\ x = y + 1 + (x - y - 1)
    OBVIOUS
  <2> QED
    BY <2>1
<1>2. p * x = p * y + p + p * d
  BY <1>1
<1>3. p * d \in Nat
  OBVIOUS
<1>4. p * y \in Nat /\ p * x \in Nat
  OBVIOUS
<1> QED
  BY <1>2, <1>3, <1>4

LEMMA NearWhenMeasured ==
  ASSUME CaliNumbers, datum > 0, Raw = datum, Measured(datum)
  PROVE  Near(k)
<1>1. k.raw \in Nat /\ k.said \in Nat /\ datum \in Nat
  BY DEF CaliNumbers
<1>2. /\ k.raw > 0
      /\ 100 * datum * k.said >= 96 * datum * k.raw
      /\ 100 * datum * k.said <= 104 * datum * k.raw
  BY DEF Measured
<1>3. \A p, a, b \in Nat: /\ 100 * p * b = p * (100 * b) /\ 96 * p * a = p * (96 * a)
                         /\ 104 * p * a = p * (104 * a)
  OBVIOUS
<1>4. /\ datum * (96 * k.raw) <= datum * (100 * k.said)
      /\ datum * (100 * k.said) <= datum * (104 * k.raw)
  <2>1. /\ 100 * datum * k.said = datum * (100 * k.said)
        /\ 96 * datum * k.raw = datum * (96 * k.raw)
        /\ 104 * datum * k.raw = datum * (104 * k.raw)
    BY <1>1, <1>3
  <2> QED
    BY <1>2, <2>1
<1>5. 96 * k.raw \in Nat /\ 100 * k.said \in Nat /\ 104 * k.raw \in Nat
  BY <1>1
<1>6. 96 * k.raw <= 100 * k.said /\ 100 * k.said <= 104 * k.raw
  BY <1>1, <1>4, <1>5, Cancels
<1> QED
  BY <1>2, <1>6 DEF Near

(* What is known of a K from the step that computed it to the next.        *)
LEMMA KFreshKept ==
  ASSUME TestPlaces, InOrder, KFresh, [FactoryNext]_factoryVars
  PROVE  KFresh'
<1> USE DEF KFresh, True, calibration
<1>1. CASE UNCHANGED factoryVars
  BY <1>1 DEF factoryVars
<1>2. CASE EnterTest \/ CloseForTest \/ CaliInit \/ CheckTestSucc \/ SetTestFlag \/ SetSmartlink \/ Dhcp \/ ApGone \/ Ask \/ PreciseMeter \/ ChangeLoad
  BY <1>2
     DEF EnterTest, CloseForTest, CaliInit, CheckTestSucc, SetTestFlag, SetSmartlink, Dhcp,
         ApGone, Ask, PreciseMeter, ChangeLoad
<1>3. CASE CheckCaliData
  <2>1. PICK p \in answers: TakeBase(p) \/ TakeFirst(p) \/ TakeCheck(p) \/ TakeNothing
    BY <1>3 DEF CheckCaliData
  <2>2. UNCHANGED <<k, stale>> /\ caliStep = "idle"
    BY <1>3 DEF CheckCaliData
  <2>3. CASE TakeBase(p) \/ TakeNothing
    BY <2>2, <2>3 DEF TakeBase, TakeNothing
  <2>4. CASE TakeFirst(p) \/ TakeCheck(p)
    BY <2>2, <2>4 DEF TakeFirst, TakeCheck
  <2> QED
    BY <2>1, <2>3, <2>4
<1>4. CASE CalcK
  <2>1. /\ k'.raw = Raw /\ k'.said = datum
        /\ stale' = (stale \ {"k", "check"}) \cup (IF Raw = datum THEN {} ELSE {"k"})
    BY <1>4 DEF CalcK
  <2> QED
    BY <2>1
<1>5. CASE CheckK
  <2>1. CASE Measured(datum)
    BY <1>5, <2>1 DEF CheckK
  <2>2. CASE ~Measured(datum)
    BY <1>5, <2>2 DEF CheckK, InOrder
  <2> QED
    BY <2>1, <2>2
<1>6. CASE PressKey
  BY <1>6 DEF PressKey
<1>7. CASE CutPower
  BY <1>7 DEF CutPower, Fresh
<1> QED
  BY <1>1, <1>2, <1>3, <1>4, <1>5, <1>6, <1>7 DEF FactoryNext

LEMMA KSavedKept ==
  ASSUME TestFlags, TestPlaces, CaliNumbers, InOrder, KFresh, KSaved,
         [FactoryNext]_factoryVars
  PROVE  KSaved'
<1> USE DEF KSaved
<1>1. CASE UNCHANGED factoryVars
  BY <1>1 DEF factoryVars, calibration, flags, True, Near
<1>2. CASE EnterTest \/ CloseForTest \/ CaliInit \/ CheckTestSucc \/ SetTestFlag \/ SetSmartlink
  BY <1>2
     DEF EnterTest, CloseForTest, CaliInit, CheckTestSucc, SetTestFlag, SetSmartlink,
         calibration, 
              flags, True, Near, InOrder
<1>3. CASE Dhcp \/ ApGone \/ Ask \/ PreciseMeter \/ ChangeLoad
  BY <1>3 DEF Dhcp, ApGone, Ask, PreciseMeter, ChangeLoad, calibration, flags, True, Near
<1>4. CASE CheckCaliData
  BY <1>4 DEF CheckCaliData, flags, True, Near
<1>5. CASE CalcK
  <2>1. ~caliDone /\ ~testFlag
    BY <1>5 DEF CalcK, InOrder
  <2> QED
    BY <1>5, <2>1 DEF CalcK, thread, flags
<1>6. CASE CheckK
  <2>1. CASE Measured(datum)
    <3>1. /\ savedK' = k
          /\ stale' = stale \cup (IF Raw = datum THEN {} ELSE {"check"})
          /\ caliStep = "check"
      BY <1>6, <2>1 DEF CheckK
    <3>2. caliStatus = "check" /\ datum > 200 /\ datum \in Nat
      BY <3>1 DEF InOrder, CaliNumbers
    <3>3. "k" \notin stale => True(k)
      BY <3>1, <3>2 DEF KFresh
    <3>4. Raw = datum => Near(k)
      BY <2>1, <3>2, NearWhenMeasured
    <3> QED
      BY <3>1, <3>3, <3>4 DEF True, Near
  <2>2. CASE ~Measured(datum)
    BY <1>6, <2>2 DEF CheckK, flags, True, Near
  <2> QED
    BY <2>1, <2>2
<1>7. CASE PressKey
  <2>1. /\ UNCHANGED <<caliDone, savedK, testFlag>>
        /\ stale \subseteq stale'
    BY <1>7 DEF PressKey, flags
  <2> QED
    BY <2>1 DEF True, Near
<1>8. CASE CutPower
  <2>1. /\ ~caliDone' /\ UNCHANGED <<savedK, testFlag>>
        /\ "k" \in stale => "k" \in stale'
        /\ "check" \in stale => "check" \in stale'
    BY <1>8 DEF CutPower, Fresh, flags
  <2> QED
    BY <2>1 DEF True, Near
<1> QED
  BY <1>1, <1>2, <1>3, <1>4, <1>5, <1>6, <1>7, <1>8 DEF FactoryNext

(* The switch stays closed, and an answer says what the device itself      *)
(* draws, until the first is taken.                                        *)
LEMMA UnloadedKept ==
  ASSUME TestFlags, TestPlaces, InOrder, Unloaded, [FactoryNext]_factoryVars
  PROVE  Unloaded'
<1> USE DEF Unloaded, Entering, TestFlags, TestPlaces, thread, calibration, wire
<1>1. CASE UNCHANGED factoryVars
  BY <1>1 DEF factoryVars
<1>2. CASE EnterTest \/ CloseForTest \/ CaliInit \/ CheckTestSucc \/ SetTestFlag \/ SetSmartlink
  BY <1>2 DEF EnterTest, CloseForTest, CaliInit, CheckTestSucc, SetTestFlag, SetSmartlink
<1>3. CASE Dhcp \/ ApGone \/ Ask \/ ChangeLoad
  BY <1>3 DEF Dhcp, ApGone, Ask, ChangeLoad
<1>4. CASE PreciseMeter
  <2>1. ~caliSwitch => Reading = Own
    BY FactoryAssumption DEF Reading, Raw
  <2>2. answers' = answers \cup {Reading} /\ UNCHANGED <<testPc, caliStatus, stale, caliSwitch>>
    BY <1>4 DEF PreciseMeter
  <2> QED
    BY <2>1, <2>2
<1>5. CASE CheckCaliData
  <2>1. PICK p \in answers: /\ Take(p)
                            /\ TakeBase(p) \/ TakeFirst(p) \/ TakeCheck(p) \/ TakeNothing
    BY <1>5 DEF CheckCaliData
  <2>2. UNCHANGED <<testPc, stale>> /\ answers' \subseteq answers
    BY <1>5, <2>1 DEF CheckCaliData, Take
  <2>3. CASE TakeBase(p)
    <3>1. ~Entering
      BY <2>3 DEF TakeBase, InOrder
    <3> QED
      BY <2>2, <2>3, <3>1 DEF TakeBase
  <2>4. CASE TakeFirst(p) \/ TakeCheck(p) \/ TakeNothing
    BY <2>2, <2>4 DEF TakeFirst, TakeCheck, TakeNothing
  <2> QED
    BY <2>1, <2>3, <2>4
<1>6. CASE CalcK \/ CheckK
  <2>1. caliStatus = "check" /\ ~Entering /\ testPc' = testPc
    BY <1>6 DEF CalcK, CheckK, InOrder
  <2>2. caliStatus' # "closed"
    BY <1>6, <2>1 DEF CalcK, CheckK
  <2> QED
    BY <2>1, <2>2
<1>7. CASE PressKey
  BY <1>7 DEF PressKey
<1>8. CASE CutPower
  <2>1. ~caliSwitch' /\ answers' = {}
    BY <1>8 DEF CutPower, Fresh
  <2> QED
    BY <2>1
<1> QED
  BY <1>1, <1>2, <1>3, <1>4, <1>5, <1>6, <1>7, <1>8 DEF FactoryNext

LEMMA BaseIsOwnKept ==
  ASSUME TestPlaces, InOrder, Unloaded, BaseIsOwn, [FactoryNext]_factoryVars
  PROVE  BaseIsOwn'
<1> USE DEF BaseIsOwn, calibration
<1>1. CASE UNCHANGED factoryVars
  BY <1>1 DEF factoryVars
<1>2. CASE EnterTest \/ CloseForTest \/ CaliInit \/ CheckTestSucc \/ SetTestFlag \/ SetSmartlink
  BY <1>2 DEF EnterTest, CloseForTest, CaliInit, CheckTestSucc, SetTestFlag, SetSmartlink
<1>3. CASE Dhcp \/ ApGone \/ Ask \/ PreciseMeter \/ ChangeLoad
  BY <1>3 DEF Dhcp, ApGone, Ask, PreciseMeter, ChangeLoad
<1>4. CASE CheckCaliData
  <2>1. PICK p \in answers: TakeBase(p) \/ TakeFirst(p) \/ TakeCheck(p) \/ TakeNothing
    BY <1>4 DEF CheckCaliData
  <2>2. stale' = stale
    BY <1>4 DEF CheckCaliData
  <2>3. CASE TakeBase(p)
    BY <2>2, <2>3 DEF TakeBase, Unloaded
  <2>4. CASE TakeFirst(p) \/ TakeCheck(p) \/ TakeNothing
    BY <2>2, <2>4 DEF TakeFirst, TakeCheck, TakeNothing
  <2> QED
    BY <2>1, <2>3, <2>4
<1>5. CASE CalcK \/ CheckK
  <2>1. caliStatus = "check" /\ base' = base
    BY <1>5 DEF CalcK, CheckK, InOrder
  <2>2. "key" \in stale => "key" \in stale'
    BY <1>5 DEF CalcK, CheckK
  <2> QED
    BY <2>1, <2>2
<1>6. CASE PressKey
  BY <1>6 DEF PressKey
<1>7. CASE CutPower
  BY <1>7 DEF CutPower, Fresh
<1> QED
  BY <1>1, <1>2, <1>3, <1>4, <1>5, <1>6, <1>7 DEF FactoryNext

-----------------------------------------------------------------------------
LEMMA FactoryStarts ==
  ASSUME FactoryInit
  PROVE  FactoryIInv
<1> USE DEF FactoryInit
<1>1. TestFlags /\ TestPlaces
  BY DEF TestFlags, TestPlaces
<1>2. TestNumbers /\ CaliNumbers
  BY FactoryAssumption DEF TestNumbers, CaliNumbers, DefaultK
<1>3. InOrder /\ KFresh /\ KSaved /\ Unloaded /\ BaseIsOwn
  BY DEF InOrder, KFresh, KSaved, Unloaded, BaseIsOwn, Entering
<1> QED
  BY <1>1, <1>2, <1>3, FactoryTypesAre DEF FactoryIInv

LEMMA FactoryStep ==
  ASSUME FactoryIInv, [FactoryNext]_factoryVars
  PROVE  FactoryIInv'
<1>1. TestFlags /\ TestPlaces /\ TestNumbers /\ CaliNumbers
  BY FactoryTypesAre DEF FactoryIInv
<1>2. TestFlags' /\ TestPlaces' /\ TestNumbers' /\ CaliNumbers'
  BY <1>1, TestFlagsKept, TestPlacesKept, TestNumbersKept, CaliNumbersKept
<1>3. FactoryTypes'
  BY <1>2 DEF FactoryTypes, TestFlags, TestPlaces, TestNumbers, CaliNumbers
<1> QED
  BY <1>1, <1>3, InOrderKept, KFreshKept, KSavedKept, UnloadedKept, BaseIsOwnKept
     DEF FactoryIInv

LEMMA FactoryFollows ==
  ASSUME FactoryIInv
  PROVE  FactoryInv
  BY DEF FactoryIInv, FactoryInv, KSaved, Calibrated

(* Whatever loads the worker puts on the device, whenever the power fails  *)
(* and whichever answers of the precise meter are lost, late or doubled: a *)
(* device that passed the test measures right, as far as its data were     *)
(* true when they were used, and what it draws itself is not taken for a   *)
(* load (lum_checkCaliData, lum_rn8209cCalcCaliKdata, lum_checkTestSucc).  *)
THEOREM FactoryCorrect == FactorySpec => []FactoryInv
<1>1. FactoryInit => FactoryIInv
  BY FactoryStarts
<1>2. FactoryIInv /\ [FactoryNext]_factoryVars => FactoryIInv'
  BY FactoryStep
<1>3. FactoryIInv => FactoryInv
  BY FactoryFollows
<1> QED
  BY <1>1, <1>2, <1>3, PTL DEF FactorySpec
-----------------------------------------------------------------------------
(***************************************************************************)
(* The meter, for every gap, size of the region, scale and bound.  The       *)
(* total in RAM, the words of the region and the pulses that ever were are   *)
(* tied together by Accounted, until a power failure was untimely.           *)
(***************************************************************************)
(* What the region holds: nothing; or the flag, totals up to o, and nothing *)
(* from there.                                                              *)
RegionBlank == \A w \in Word: energyWords[w] = Erased
RegionFilled(o) ==
    /\ o \in 1 .. Words /\ energyWords[0] = Flag
    /\ \A w \in Word: IF w = 0 THEN TRUE
                      ELSE IF w < o THEN energyWords[w] \in Nat \ {0} ELSE energyWords[w] = Erased

AccountedUp ==
    /\ pulses = energyData + energyCurData + meterLost
    /\ meterLost <= outages * Gap
    /\ cfStep # "idle" => energyData >= Gap /\ energyCurData = 0
    /\ cfStep = "flag" => RegionBlank
    /\ kStep = "flag" /\ cfStep = "idle" => RegionBlank
    /\ kStep = "offset" /\ cfStep = "idle" => RegionFilled(1)
    /\ kStep = "idle" /\ cfStep \in {"idle", "write"} =>
          /\ RegionFilled(energyOffset)
          /\ energyOffset > 1 => energyData = energyWords[energyOffset - 1]
                                              + (IF cfStep = "write" THEN Gap ELSE 0)
AccountedDown ==
    \/ RegionBlank /\ pulses <= outages * Gap
    \/ RegionFilled(1) /\ pulses <= outages * Gap
    \/ \E o \in 2 .. Words - 1:
           /\ RegionFilled(o) /\ energyWords[o - 1] <= pulses
           /\ pulses <= energyWords[o - 1] + outages * Gap
Accounted ==
    IF meterUp THEN AccountedUp ELSE AccountedDown /\ meterLost <= outages * Gap

(* What the first half that a report has read is, seen from what there is  *)
(* now.                                                                    *)
HalfRead ==
    half # NoHalf =>
        /\ meterUp /\ kStep = "idle" /\ half.at <= pulses /\ pulses <= half.at + Gap
        /\ reports < MaxReports
        /\ half.read = "rest" => half.value < Gap
        /\ half.read \in {"total", "rest"}
        /\ half.read = "total" =>
              \/ energyData = half.value /\ pulses <= half.at + energyCurData
              \/ energyData = half.value + Gap /\ half.at + energyCurData < pulses
MeterSteps ==
    /\ cfStep = "write" => energyOffset < Words
    /\ ~meterUp => cfStep = "idle" /\ kStep = "idle" /\ half = NoHalf
                   /\ energyOffset = 0 /\ energyData = 0 /\ energyCurData = 0
MeterIInv == MeterTypes /\ MeterSteps /\ HalfRead /\ (~excuse => Accounted)

(* The types, in parts.                                                    *)
MeterWords == energyWords \in [Word -> Nat \cup {Erased, Flag, Spoilt}]
MeterNumbers ==
    /\ energyOffset \in 0 .. Words /\ energyData \in Nat /\ energyCurData \in 0 .. Gap - 1
    /\ meterLost \in Nat
MeterPlaces ==
    cfStep \in {"idle", "erase", "flag", "write"} /\ kStep \in {"idle", "flag", "offset"}
MeterHalf == half \in [read: {"none", "total", "rest"}, value: Nat, at: Nat]
MeterCounts ==
    /\ pulses \in 0 .. MaxPulses /\ outages \in 0 .. MaxOutages /\ reports \in 0 .. MaxReports
MeterFlags == meterUp \in BOOLEAN /\ excuse \in BOOLEAN
MeterTyped ==
    /\ MeterWords /\ MeterNumbers /\ MeterPlaces /\ MeterHalf /\ MeterCounts /\ MeterFlags
    /\ reported \in Nat

LEMMA MeterTypesAre == MeterTyped <=> MeterTypes
BY DEF MeterTyped, MeterWords, MeterNumbers, MeterPlaces, MeterHalf, MeterCounts,
   MeterFlags, 
   MeterTypes

LEMMA MeterConstants ==
    /\ Gap \in Nat /\ Gap > 0 /\ Words \in Nat /\ Words > 1 /\ EC \in Nat /\ EC > 0
    /\ ReadWords \in Nat /\ ReadWords > 0 /\ Words % ReadWords = 0
    /\ Decimals \in Nat /\ Decimals > 0
    /\ MaxPulses \in Nat /\ MaxOutages \in Nat /\ MaxReports \in Nat
BY MeterAssumption

LEMMA WordMarks == Erased = -1 /\ Flag = -2 /\ Spoilt = -3
BY DEF Erased, Flag, Spoilt

(* Groups of words.                                                        *)
LEMMA Least ==
  ASSUME NEW S \in SUBSET Nat, S # {}
  PROVE  Min(S) \in S /\ \A y \in S: Min(S) <= y
<1>1. IsWellFoundedOn(OpToRel(<, Nat), Nat) BY NatLessThanWellFounded
<1>2. PICK x \in S: \A y \in S: <<y, x>> \notin OpToRel(<, Nat) BY <1>1, WFMin
<1>3. \A y \in S: ~(y < x) BY <1>2 DEF OpToRel
<1>4. \E z \in S: \A y \in S: z <= y BY <1>3
<1> QED BY <1>4 DEF Min

LEMMA Multiples ==
  ASSUME NEW a \in Nat, NEW b \in Nat, b > 0, a % b = 0
  PROVE  \E q \in Nat: a = b * q
<1>1. a \div b \in Int BY Z3
<1>2. a \div b >= 0 BY Z3
<1>3. a = b * (a \div b) + (a % b) BY Z3
<1>4. b * (a \div b) \in Int BY <1>1
<1>5. a = b * (a \div b) BY <1>3, <1>4
<1>6. a \div b \in Nat BY <1>1, <1>2
<1>7. PICK q \in Nat: q = a \div b BY <1>6
<1> QED BY <1>5, <1>7

LEMMA GroupBefore ==
  ASSUME NEW a \in Nat, NEW b \in Nat, b > 0, a % b = 0, a > 0
  PROVE  a >= b /\ (a - b) % b = 0
<1>1. PICK q \in Nat: a = b * q BY Multiples
<1>2. q > 0 BY <1>1
<1>3. q - 1 \in Nat BY <1>2
<1>4. PICK p \in Nat: q = p + 1 BY <1>3
<1>5. b * p \in Nat BY SMT
<1>6. b * (p + 1) = b * p + b BY SMT
<1>7. a = b * p + b BY <1>1, <1>4, <1>6
<1>8. a >= b /\ a - b = b * p BY <1>5, <1>7
<1>9. (b * p) % b = 0 BY Z3
<1> QED BY <1>8, <1>9

LEMMA GroupEnd ==
  ASSUME NEW a \in Nat, NEW c \in Nat, NEW b \in Nat, b > 0, a % b = 0, c % b = 0, a < c
  PROVE  a + b <= c
<1>1. PICK q \in Nat: a = b * q BY Multiples
<1>2. PICK p \in Nat: c = b * p BY Multiples
<1>3. q < p
  <2>1. SUFFICES ASSUME ~(q < p) PROVE FALSE OBVIOUS
  <2>2. PICK d \in Nat: q = p + d BY <2>1
  <2>3. b * q = b * p + b * d /\ b * d \in Nat /\ b * p \in Nat BY <2>2, SMT
  <2> QED BY <1>1, <1>2, <2>3
<1>4. PICK d \in Nat: p = q + 1 + d BY <1>3
<1>5. b * p = b * q + b + b * d /\ b * d \in Nat /\ b * q \in Nat BY <1>4, SMT
<1> QED BY <1>1, <1>2, <1>5

LEMMA Difference == ASSUME NEW a \in Nat, NEW b \in Nat, b <= a PROVE a - b \in Nat
OBVIOUS

LEMMA OneMore ==
  ASSUME NEW n \in Nat
  PROVE  (n + 1) * Gap = n * Gap + Gap /\ n * Gap \in Nat
BY MeterConstants, SMT

LEMMA Figures == ASSUME NEW n \in Nat PROVE Shown(n) \in Nat
<1>1. n * 100 \in Nat OBVIOUS
<1>2. (n * 100) \div EC \in Nat BY <1>1, MeterConstants
<1> QED BY <1>2, MeterConstants DEF Shown

LEMMA FoundEnd ==
  ASSUME MeterWords, energyWords[0] = Flag
  PROVE  FoundOffset \in 0 .. Words - 1 /\ FoundTotals \subseteq Nat
<1> USE MeterConstants DEF Word
<1> DEFINE g == Min(Ends)
           E == {w \in Word: w >= g /\ energyWords[w] = Erased}
<1>1. CASE Ends = {}
  <2>1. FoundOffset = 0 BY <1>1 DEF FoundOffset
  <2> QED BY <2>1 DEF FoundTotals
<1>2. CASE Ends # {}
  <2>1. Ends \subseteq Nat BY DEF Ends
  <2>2. g \in Ends /\ \A y \in Ends: g <= y BY <1>2, <2>1, Least
  <2>3. g \in Word /\ g % ReadWords = 0 /\ energyWords[g + ReadWords - 1] = Erased
        BY <2>2 DEF Ends
  <2> HIDE DEF g
  <2>4. g + ReadWords <= Words BY <2>3, GroupEnd
  <2>5. g + ReadWords - 1 \in E BY <2>3, <2>4
  <2>6. E \subseteq Nat BY DEF E
  <2>7. Min(E) \in E /\ \A y \in E: Min(E) <= y BY <2>5, <2>6, Least
  <2>8. FoundOffset = Min(E) BY <1>2 DEF FoundOffset, g
  <2>9. FoundOffset \in Word /\ FoundOffset >= g /\ \A y \in E: FoundOffset <= y
        BY <2>7, <2>8
  <2>10. ASSUME FoundOffset \notin {0, 1} PROVE energyWords[FoundOffset - 1] # Erased
    <3>1. SUFFICES ASSUME energyWords[FoundOffset - 1] = Erased PROVE FALSE OBVIOUS
    <3>2. FoundOffset - 1 \in Word BY <2>9, <2>10
    <3>3. FoundOffset - 1 < g
      <4>1. FoundOffset - 1 >= g => FoundOffset - 1 \in E BY <3>1, <3>2 DEF E
      <4>2. FoundOffset - 1 \notin E BY <2>9
      <4> QED BY <2>3, <2>9, <4>1, <4>2
    <3>4. FoundOffset = g /\ g > 0 BY <2>3, <2>9, <2>10, <3>3
    <3>5. g >= ReadWords /\ (g - ReadWords) % ReadWords = 0 BY <2>3, <3>4, GroupBefore
    <3>6. g - ReadWords \in Word BY <2>3, <3>5
    <3>7. (g - ReadWords) + ReadWords - 1 = FoundOffset - 1 BY <2>3, <3>4
    <3>8. g - ReadWords \in Ends BY <3>1, <3>5, <3>6, <3>7 DEF Ends
    <3> QED BY <2>2, <2>3, <3>8
  <2>11. FoundTotals \subseteq Nat
    <3>1. CASE FoundOffset \in {0, 1} BY <3>1 DEF FoundTotals
    <3>2. CASE FoundOffset \notin {0, 1}
      <4>1. FoundOffset - 1 \in Word BY <2>9, <3>2
      <4>2. energyWords[FoundOffset - 1] \in Nat \cup {Flag, Spoilt}
            BY <2>10, <3>2, <4>1 DEF MeterWords
      <4> QED BY <3>2, <4>2 DEF FoundTotals
    <3> QED BY <3>1, <3>2
  <2> QED BY <2>9, <2>11
<1> QED BY <1>1, <1>2

(* After a failure that was timely, the end is found where it was.         *)
LEMMA FoundFilled ==
  ASSUME NEW o \in 1 .. Words - 1, RegionFilled(o)
  PROVE  FoundOffset = o /\ FoundTotals = IF o = 1 THEN {0} ELSE {energyWords[o - 1]}
<1> USE MeterConstants DEF Word
<1> DEFINE g == Min(Ends)
           E == {w \in Word: w >= g /\ energyWords[w] = Erased}
<1>1. \A w \in Word: energyWords[w] = Erased <=> w >= o
      BY WordMarks DEF RegionFilled
<1>2. (Words - ReadWords) % ReadWords = 0 /\ Words >= ReadWords BY GroupBefore
<1>3. Words - ReadWords \in Ends
  <2>1. Words - ReadWords \in Word /\ Words - 1 \in Word BY <1>2
  <2>2. (Words - ReadWords) + ReadWords - 1 = Words - 1 OBVIOUS
  <2> QED BY <1>1, <1>2, <2>1, <2>2 DEF Ends
<1>4. Ends \subseteq Nat BY DEF Ends
<1>5. g \in Ends /\ \A y \in Ends: g <= y BY <1>3, <1>4, Least
<1>6. g \in Word /\ g % ReadWords = 0 BY <1>5 DEF Ends
<1> HIDE DEF g
<1>7. g <= o
  <2>1. SUFFICES ASSUME g > o PROVE FALSE BY <1>6
  <2>2. g >= ReadWords /\ (g - ReadWords) % ReadWords = 0 BY <1>6, <2>1, GroupBefore
  <2>3. g - ReadWords \in Word /\ g - 1 \in Word /\ g - 1 >= o BY <1>6, <2>1, <2>2
  <2>4. (g - ReadWords) + ReadWords - 1 = g - 1 BY <1>6
  <2>5. g - ReadWords \in Ends BY <1>1, <2>2, <2>3, <2>4 DEF Ends
  <2> QED BY <1>5, <1>6, <2>5
<1>8. o \in E /\ \A y \in E: o <= y BY <1>1, <1>6, <1>7
<1>9. E \subseteq Nat BY DEF E
<1>10. Min(E) \in E /\ \A y \in E: Min(E) <= y BY <1>8, <1>9, Least
<1>11. Min(E) = o BY <1>8, <1>9, <1>10
<1>12. FoundOffset = o BY <1>3, <1>11 DEF FoundOffset, g
<1>13. o > 1 => energyWords[o - 1] \in Nat BY DEF RegionFilled
<1> QED BY <1>12, <1>13, WordMarks DEF FoundTotals

(* Every step keeps the types.                                             *)

LEMMA MeterWordsKept ==
  ASSUME MeterWords, MeterNumbers, [MeterNext]_meterVars
  PROVE  MeterWords'
<1> USE MeterConstants, WordMarks DEF MeterWords, MeterNumbers, AllErased, Put, Word
<1>1. CASE UNCHANGED meterVars
  BY <1>1 DEF meterVars
<1>2. CASE Pulse
  BY <1>2 DEF Pulse, energy, report, meterHistory, Count
<1>3. CASE EraseFull
  BY <1>3 DEF EraseFull, energy, report, meterHistory
<1>4. CASE FlagFull
  BY <1>4 DEF FlagFull, energy, report, meterHistory
<1>5. CASE WriteTotal
  BY <1>5 DEF WriteTotal, energy, report, meterHistory
<1>6. CASE EraseForK
  BY <1>6 DEF EraseForK, energy, report, meterHistory
<1>7. CASE FlagForK
  BY <1>7 DEF FlagForK, energy, report, meterHistory
<1>8. CASE OffsetForK
  BY <1>8 DEF OffsetForK, energy, report, meterHistory
<1>9. CASE ReadHalf
  BY <1>9 DEF ReadHalf, energy, report, meterHistory
<1>10. CASE ReportEnergy
  BY <1>10 DEF ReportEnergy, energy, report, meterHistory
<1>11. CASE MeterFails
  BY <1>11 DEF MeterFails, energy, report, meterHistory
<1>12. CASE MeterStarts
  BY <1>12 DEF MeterStarts, energy, report, meterHistory
<1> QED
  BY <1>1, <1>2, <1>3, <1>4, <1>5, <1>6, <1>7, <1>8, <1>9, <1>10, <1>11, <1>12 DEF MeterNext

LEMMA MeterNumbersKept ==
  ASSUME MeterWords, MeterNumbers, MeterPlaces, MeterCounts, MeterSteps, [MeterNext]_meterVars
  PROVE  MeterNumbers'
<1> USE MeterConstants DEF MeterNumbers
<1>1. CASE UNCHANGED meterVars
  BY <1>1 DEF meterVars
<1>2. CASE Pulse
  BY <1>2 DEF Pulse, energy, report, meterHistory, Count
<1>3. CASE EraseFull
  BY <1>3 DEF EraseFull, energy, report, meterHistory
<1>4. CASE FlagFull
  BY <1>4 DEF FlagFull, energy, report, meterHistory
<1>5. CASE WriteTotal
  BY <1>5 DEF WriteTotal, meterHistory, MeterSteps
<1>6. CASE EraseForK
  BY <1>6 DEF EraseForK, energy, report, meterHistory
<1>7. CASE FlagForK
  BY <1>7 DEF FlagForK, energy, report, meterHistory
<1>8. CASE OffsetForK
  BY <1>8 DEF OffsetForK, energy, report, meterHistory
<1>9. CASE ReadHalf
  BY <1>9 DEF ReadHalf, energy, report, meterHistory
<1>10. CASE ReportEnergy
  BY <1>10 DEF ReportEnergy, energy, report, meterHistory
<1>11. CASE MeterFails
  BY <1>11 DEF MeterFails, energy, report, meterHistory
<1>12. CASE MeterStarts
  <2>1. energyOffset' \in 0 .. Words /\ energyData' \in Nat
    <3>1. CASE energyWords[0] # Flag BY <1>12, <3>1 DEF MeterStarts
    <3>2. CASE energyWords[0] = Flag BY <1>12, <3>2, FoundEnd DEF MeterStarts
    <3> QED BY <3>1, <3>2
  <2>2. meterLost' \in Nat
    <3>1. meterLost' = IF energyData' <= pulses THEN pulses - energyData' ELSE 0
          BY <1>12 DEF MeterStarts
    <3>2. pulses \in Nat BY MeterConstants DEF MeterCounts
    <3>3. CASE energyData' <= pulses
      <4>1. pulses - energyData' \in Nat BY <2>1, <3>2, <3>3, Difference
      <4> QED BY <3>1, <3>3, <4>1
    <3>4. CASE ~(energyData' <= pulses) BY <3>1, <3>4
    <3> QED BY <3>3, <3>4
  <2> QED BY <1>12, <2>1, <2>2 DEF MeterStarts
<1> QED
  BY <1>1, <1>2, <1>3, <1>4, <1>5, <1>6, <1>7, <1>8, <1>9, <1>10, <1>11, <1>12 DEF MeterNext

LEMMA MeterPlacesKept ==
  ASSUME MeterPlaces, [MeterNext]_meterVars
  PROVE  MeterPlaces'
<1> USE DEF MeterPlaces
<1>1. CASE UNCHANGED meterVars
  BY <1>1 DEF meterVars
<1>2. CASE Pulse
  BY <1>2 DEF Pulse, energy, report, meterHistory, Count
<1>3. CASE EraseFull
  BY <1>3 DEF EraseFull, energy, report, meterHistory
<1>4. CASE FlagFull
  BY <1>4 DEF FlagFull, energy, report, meterHistory
<1>5. CASE WriteTotal
  BY <1>5 DEF WriteTotal, energy, report, meterHistory
<1>6. CASE EraseForK
  BY <1>6 DEF EraseForK, energy, report, meterHistory
<1>7. CASE FlagForK
  BY <1>7 DEF FlagForK, energy, report, meterHistory
<1>8. CASE OffsetForK
  BY <1>8 DEF OffsetForK, energy, report, meterHistory
<1>9. CASE ReadHalf
  BY <1>9 DEF ReadHalf, energy, report, meterHistory
<1>10. CASE ReportEnergy
  BY <1>10 DEF ReportEnergy, energy, report, meterHistory
<1>11. CASE MeterFails
  BY <1>11 DEF MeterFails, energy, report, meterHistory
<1>12. CASE MeterStarts
  BY <1>12 DEF MeterStarts, energy, report, meterHistory
<1> QED
  BY <1>1, <1>2, <1>3, <1>4, <1>5, <1>6, <1>7, <1>8, <1>9, <1>10, <1>11, <1>12 DEF MeterNext

LEMMA MeterHalfKept ==
  ASSUME MeterHalf, MeterNumbers, MeterCounts, reported \in Nat, [MeterNext]_meterVars
  PROVE  MeterHalf' /\ reported' \in Nat
<1> USE MeterConstants DEF MeterHalf, NoHalf
<1>1. CASE UNCHANGED meterVars
  BY <1>1 DEF meterVars
<1>2. CASE Pulse
  BY <1>2 DEF Pulse, energy, report, meterHistory, Count
<1>3. CASE EraseFull
  BY <1>3 DEF EraseFull, energy, report, meterHistory
<1>4. CASE FlagFull
  BY <1>4 DEF FlagFull, energy, report, meterHistory
<1>5. CASE WriteTotal
  BY <1>5 DEF WriteTotal, energy, report, meterHistory
<1>6. CASE EraseForK
  BY <1>6 DEF EraseForK, energy, report, meterHistory
<1>7. CASE FlagForK
  BY <1>7 DEF FlagForK, energy, report, meterHistory
<1>8. CASE OffsetForK
  BY <1>8 DEF OffsetForK, energy, report, meterHistory
<1>9. CASE ReadHalf
  BY <1>9 DEF ReadHalf, MeterNumbers, MeterCounts
<1>10. CASE ReportEnergy
  <2>1. half.value \in Nat /\ energyCurData \in Nat /\ energyData \in Nat
        BY DEF MeterNumbers
  <2>2. reported' \in Nat BY <1>10, <2>1, Figures DEF ReportEnergy
  <2> QED BY <1>10, <2>2 DEF ReportEnergy
<1>11. CASE MeterFails
  BY <1>11 DEF MeterFails, energy, report, meterHistory
<1>12. CASE MeterStarts
  BY <1>12 DEF MeterStarts, energy, report, meterHistory
<1> QED
  BY <1>1, <1>2, <1>3, <1>4, <1>5, <1>6, <1>7, <1>8, <1>9, <1>10, <1>11, <1>12 DEF MeterNext

LEMMA MeterCountsKept ==
  ASSUME MeterCounts, HalfRead, [MeterNext]_meterVars
  PROVE  MeterCounts'
<1> USE MeterConstants DEF MeterCounts, HalfRead
<1>1. CASE UNCHANGED meterVars
  BY <1>1 DEF meterVars
<1>2. CASE Pulse
  BY <1>2 DEF Pulse, energy, report, meterHistory, Count
<1>3. CASE EraseFull
  BY <1>3 DEF EraseFull, energy, report, meterHistory
<1>4. CASE FlagFull
  BY <1>4 DEF FlagFull, energy, report, meterHistory
<1>5. CASE WriteTotal
  BY <1>5 DEF WriteTotal, energy, report, meterHistory
<1>6. CASE EraseForK
  BY <1>6 DEF EraseForK, energy, report, meterHistory
<1>7. CASE FlagForK
  BY <1>7 DEF FlagForK, energy, report, meterHistory
<1>8. CASE OffsetForK
  BY <1>8 DEF OffsetForK, energy, report, meterHistory
<1>9. CASE ReadHalf
  BY <1>9 DEF ReadHalf, energy, report, meterHistory
<1>10. CASE ReportEnergy
  BY <1>10 DEF ReportEnergy, energy, report, meterHistory
<1>11. CASE MeterFails
  BY <1>11 DEF MeterFails, energy, report, meterHistory
<1>12. CASE MeterStarts
  BY <1>12 DEF MeterStarts, energy, report, meterHistory
<1> QED
  BY <1>1, <1>2, <1>3, <1>4, <1>5, <1>6, <1>7, <1>8, <1>9, <1>10, <1>11, <1>12 DEF MeterNext

LEMMA MeterFlagsKept ==
  ASSUME MeterFlags, [MeterNext]_meterVars
  PROVE  MeterFlags'
<1> USE DEF MeterFlags
<1>1. CASE UNCHANGED meterVars
  BY <1>1 DEF meterVars
<1>2. CASE Pulse
  BY <1>2 DEF Pulse, energy, report, meterHistory, Count
<1>3. CASE EraseFull
  BY <1>3 DEF EraseFull, energy, report, meterHistory
<1>4. CASE FlagFull
  BY <1>4 DEF FlagFull, energy, report, meterHistory
<1>5. CASE WriteTotal
  BY <1>5 DEF WriteTotal, meterHistory
<1>6. CASE EraseForK
  BY <1>6 DEF EraseForK, energy, report, meterHistory
<1>7. CASE FlagForK
  BY <1>7 DEF FlagForK, energy, report, meterHistory
<1>8. CASE OffsetForK
  BY <1>8 DEF OffsetForK, energy, report, meterHistory
<1>9. CASE ReadHalf
  BY <1>9 DEF ReadHalf, energy, report, meterHistory
<1>10. CASE ReportEnergy
  BY <1>10 DEF ReportEnergy, energy, report, meterHistory
<1>11. CASE MeterFails
  BY <1>11 DEF MeterFails, energy, report, meterHistory
<1>12. CASE MeterStarts
  BY <1>12 DEF MeterStarts, energy, report, meterHistory
<1> QED
  BY <1>1, <1>2, <1>3, <1>4, <1>5, <1>6, <1>7, <1>8, <1>9, <1>10, <1>11, <1>12 DEF MeterNext

LEMMA MeterStepsKept ==
  ASSUME MeterNumbers, MeterSteps, [MeterNext]_meterVars
  PROVE  MeterSteps'
<1> USE MeterConstants DEF MeterSteps, MeterNumbers, Quiet
<1>1. CASE UNCHANGED meterVars
  BY <1>1 DEF meterVars
<1>2. CASE Pulse
  BY <1>2 DEF Pulse, energy, report, meterHistory, Count
<1>3. CASE EraseFull
  BY <1>3 DEF EraseFull, energy, report, meterHistory
<1>4. CASE FlagFull
  BY <1>4 DEF FlagFull, energy, report, meterHistory
<1>5. CASE WriteTotal
  BY <1>5 DEF WriteTotal, energy, report, meterHistory
<1>6. CASE EraseForK
  BY <1>6 DEF EraseForK, energy, report, meterHistory
<1>7. CASE FlagForK
  BY <1>7 DEF FlagForK, energy, report, meterHistory
<1>8. CASE OffsetForK
  BY <1>8 DEF OffsetForK, energy, report, meterHistory
<1>9. CASE ReadHalf
  BY <1>9 DEF ReadHalf, energy, report, meterHistory
<1>10. CASE ReportEnergy
  BY <1>10 DEF ReportEnergy, energy, report, meterHistory
<1>11. CASE MeterFails
  BY <1>11 DEF MeterFails, energy, report, meterHistory
<1>12. CASE MeterStarts
  BY <1>12 DEF MeterStarts
<1> QED
  BY <1>1, <1>2, <1>3, <1>4, <1>5, <1>6, <1>7, <1>8, <1>9, <1>10, <1>11, <1>12 DEF MeterNext

(* What a report has read of the two halves stays near.                    *)
LEMMA HalfReadKept ==
  ASSUME MeterNumbers, MeterCounts, MeterHalf, HalfRead, [MeterNext]_meterVars
  PROVE  HalfRead'
<1> USE MeterConstants DEF HalfRead, MeterNumbers, MeterCounts, MeterHalf, Quiet
<1>1. CASE UNCHANGED meterVars
  BY <1>1 DEF meterVars
<1>2. CASE Pulse
  <2>1. energyCurData + 1 < Gap \/ energyCurData + 1 = Gap OBVIOUS
  <2>2. CASE energyCurData + 1 < Gap
    BY <1>2, <2>2 DEF Pulse, Count, report
  <2>3. CASE energyCurData + 1 = Gap
    BY <1>2, <2>3 DEF Pulse, Count, report
  <2> QED BY <2>1, <2>2, <2>3
<1>3. CASE EraseFull
  BY <1>3 DEF EraseFull, energy, report, meterHistory
<1>4. CASE FlagFull
  BY <1>4 DEF FlagFull, energy, report, meterHistory
<1>5. CASE WriteTotal
  BY <1>5 DEF WriteTotal, energy, report, meterHistory
<1>6. CASE EraseForK
  BY <1>6 DEF EraseForK, energy, report, meterHistory
<1>7. CASE FlagForK
  BY <1>7 DEF FlagForK, energy, report, meterHistory
<1>8. CASE OffsetForK
  BY <1>8 DEF OffsetForK, energy, report, meterHistory
<1>9. CASE ReadHalf
  BY <1>9 DEF ReadHalf, energy, NoHalf
<1>10. CASE ReportEnergy
  BY <1>10 DEF ReportEnergy
<1>11. CASE MeterFails
  BY <1>11 DEF MeterFails
<1>12. CASE MeterStarts
  BY <1>12 DEF MeterStarts, energy, report, meterHistory
<1> QED
  BY <1>1, <1>2, <1>3, <1>4, <1>5, <1>6, <1>7, <1>8, <1>9, <1>10, <1>11, <1>12 DEF MeterNext


(* What the region holds after a step that leaves it alone, erases it, writes *)
(* the flag, or appends a total.                                           *)
LEMMA RegionSame ==
  ASSUME UNCHANGED energyWords
  PROVE  (RegionBlank' <=> RegionBlank) /\ (\A o \in Nat: RegionFilled(o)' <=> RegionFilled(o))
BY DEF RegionBlank, RegionFilled

LEMMA RegionErased == ASSUME energyWords' = AllErased PROVE RegionBlank'
BY DEF RegionBlank, AllErased

LEMMA RegionFlagged ==
  ASSUME MeterWords, RegionBlank, energyWords' = Put(0, Flag)
  PROVE  RegionFilled(1)'
<1> USE MeterConstants DEF Word
<1>1. energyWords[0] = Erased /\ 0 \in Word BY DEF RegionBlank
<1>2. energyWords' = [energyWords EXCEPT ![0] = Flag] BY <1>1 DEF Put, MeterWords
<1>3. energyWords'[0] = Flag BY <1>1, <1>2 DEF MeterWords
<1>4. \A w \in Word: w # 0 => energyWords'[w] = Erased BY <1>2 DEF MeterWords, RegionBlank
<1> QED BY <1>3, <1>4 DEF RegionFilled

LEMMA RegionNew ==
  ASSUME energyWords' = [AllErased EXCEPT ![0] = Flag]
  PROVE  RegionFilled(1)'
<1> USE MeterConstants DEF Word
<1>1. energyWords'[0] = Flag BY DEF AllErased
<1>2. \A w \in Word: w # 0 => energyWords'[w] = Erased BY DEF AllErased
<1> QED BY <1>1, <1>2 DEF RegionFilled

LEMMA RegionAppended ==
  ASSUME NEW o \in Nat, NEW v \in Nat \ {0}, o < Words, RegionFilled(o), MeterWords,
         energyWords' = Put(o, v)
  PROVE  RegionFilled(o + 1)' /\ energyWords'[o] = v
<1> USE MeterConstants DEF Word
<1>1. o \in Word /\ o # 0 /\ energyWords[o] = Erased BY DEF RegionFilled
<1>2. energyWords' = [energyWords EXCEPT ![o] = v] BY <1>1 DEF Put, MeterWords
<1>3. energyWords'[o] = v BY <1>1, <1>2 DEF MeterWords
<1>4. energyWords'[0] = Flag BY <1>1, <1>2 DEF MeterWords, RegionFilled
<1>5. \A w \in Word: w # o => energyWords'[w] = energyWords[w] BY <1>2 DEF MeterWords
<1>6. \A w \in Word: IF w = 0 THEN TRUE
                      ELSE IF w < o + 1 THEN energyWords'[w] \in Nat \ {0}
                      ELSE energyWords'[w] = Erased
      BY <1>1, <1>3, <1>5 DEF RegionFilled
<1> QED BY <1>1, <1>3, <1>4, <1>6 DEF RegionFilled

(* Every step of a device that runs keeps the account.                     *)
LEMMA AccountedPulse ==
  ASSUME MeterNumbers, MeterPlaces, MeterCounts, MeterSteps, Accounted, Pulse
  PROVE  Accounted'
<1> USE MeterConstants
<1>1. meterUp /\ meterUp' /\ cfStep = "idle" /\ AccountedUp
      BY DEF Pulse, Quiet, Accounted
<1>2. /\ UNCHANGED <<energyWords, energyOffset, kStep, meterLost, outages>> /\ Count
      /\ pulses' = pulses + 1
      BY DEF Pulse, meterHistory
<1>3. (RegionBlank' <=> RegionBlank) /\ \A o \in Nat: RegionFilled(o)' <=> RegionFilled(o) BY <1>2, RegionSame
<1>4. SUFFICES AccountedUp' BY <1>1 DEF Accounted
<1>5. \/ energyCurData + 1 < Gap /\ energyCurData' = energyCurData + 1
         /\ energyData' = energyData /\ cfStep' = "idle"
      \/ energyCurData' = 0 /\ energyData' = energyData + Gap
         /\ cfStep' = (IF energyOffset >= Words THEN "erase" ELSE "write")
         /\ energyCurData + 1 = Gap
      BY <1>1, <1>2 DEF Count, MeterNumbers
<1>6. pulses' = energyData' + energyCurData' + meterLost' /\ meterLost' <= outages' * Gap
  <2>1. pulses = energyData + energyCurData + meterLost /\ meterLost <= outages * Gap
        BY <1>1 DEF AccountedUp
  <2>2. meterLost' <= outages' * Gap BY <1>2, <2>1
  <2>3. pulses' = energyData' + energyCurData' + meterLost'
        BY <1>2, <1>5, <2>1 DEF MeterNumbers, MeterCounts
  <2> QED BY <2>2, <2>3
<1>7. cfStep' # "idle" => energyData' >= Gap /\ energyCurData' = 0
      BY <1>5 DEF MeterNumbers
<1>8. cfStep' # "flag" BY <1>5
<1>9. energyOffset \in Nat BY DEF MeterNumbers
<1>10. /\ kStep' = "flag" /\ cfStep' = "idle" => RegionBlank'
       /\ kStep' = "offset" /\ cfStep' = "idle" => RegionFilled(1)'
       BY <1>1, <1>2, <1>3 DEF AccountedUp
<1>11. ASSUME kStep' = "idle", cfStep' \in {"idle", "write"}
       PROVE  /\ RegionFilled(energyOffset)'
              /\ energyOffset' > 1 => energyData' = energyWords'[energyOffset' - 1]
                                              + (IF cfStep' = "write" THEN Gap ELSE 0)
  <2>1. RegionFilled(energyOffset) BY <1>1, <1>2, <1>11 DEF AccountedUp
  <2>2. RegionFilled(energyOffset)' BY <1>2, <2>1 DEF RegionFilled
  <2>3. energyOffset > 1 => energyData = energyWords[energyOffset - 1] + 0
        BY <1>1, <1>2, <1>11 DEF AccountedUp
  <2>4. energyOffset > 1 => energyWords[energyOffset - 1] \in Nat
        BY <1>9, <2>1 DEF RegionFilled, Word
  <2>5. energyData \in Nat BY DEF MeterNumbers
  <2>6. UNCHANGED <<energyWords, energyOffset>> BY <1>2
  <2>7. CASE cfStep' = "write" /\ energyData' = energyData + Gap BY <2>2, <2>3, <2>4, <2>6, <2>7
  <2>8. CASE cfStep' = "idle" /\ energyData' = energyData BY <2>2, <2>3, <2>4, <2>6, <2>8
  <2> QED BY <1>5, <1>11, <2>7, <2>8
<1> QED BY <1>6, <1>7, <1>8, <1>10, <1>11 DEF AccountedUp

(* The steps of the interrupt.                                             *)
LEMMA AccountedErases ==
  ASSUME MeterTyped, MeterSteps, Accounted, EraseFull \/ FlagFull
  PROVE  Accounted'
<1> USE MeterConstants
<1>1. meterUp /\ meterUp' /\ cfStep # "idle"
      BY DEF EraseFull, FlagFull, MeterSteps, MeterTyped, MeterFlags
<1>2. AccountedUp BY <1>1 DEF Accounted
<1>3. SUFFICES AccountedUp' BY <1>1 DEF Accounted
<1>4. UNCHANGED <<energyData, energyCurData, kStep, pulses, meterLost, outages>>
      BY DEF EraseFull, FlagFull, energy, meterHistory
<1>5. /\ pulses' = energyData' + energyCurData' + meterLost' /\ meterLost' <= outages' * Gap
      /\ energyData' >= Gap /\ energyCurData' = 0
      BY <1>1, <1>2, <1>4 DEF AccountedUp
<1>6. CASE EraseFull
  <2>1. cfStep' = "flag" /\ RegionBlank' BY <1>6, RegionErased DEF EraseFull
  <2> QED BY <1>5, <2>1 DEF AccountedUp
<1>7. CASE FlagFull
  <2>1. cfStep' = "write" /\ energyOffset' = 1 BY <1>7 DEF FlagFull
  <2>2. RegionBlank BY <1>2, <1>7 DEF FlagFull, AccountedUp
  <2>3. RegionFilled(1)' BY <1>7, <2>2, RegionFlagged DEF FlagFull, MeterTyped
  <2>4. RegionFilled(energyOffset)' BY <2>1, <2>3 DEF RegionFilled
  <2> QED BY <1>5, <2>1, <2>4 DEF AccountedUp
<1> QED BY <1>6, <1>7

LEMMA AccountedTotal ==
  ASSUME MeterTyped, MeterSteps, Accounted, WriteTotal, ~excuse'
  PROVE  Accounted'
<1> USE MeterConstants
<1>1. meterUp /\ meterUp' /\ cfStep = "write" /\ energyOffset < Words
      BY DEF WriteTotal, MeterSteps, MeterTyped, MeterFlags
<1>2. AccountedUp BY <1>1 DEF Accounted
<1>3. SUFFICES AccountedUp' BY <1>1 DEF Accounted
<1>4. /\ UNCHANGED <<energyData, energyCurData, kStep, pulses, meterLost, outages>>
      /\ kStep = "idle" /\ cfStep' = "idle" /\ energyOffset' = energyOffset + 1
      /\ energyWords' = Put(energyOffset, energyData)
      BY DEF WriteTotal, meterHistory
<1>5. pulses' = energyData' + energyCurData' + meterLost' /\ meterLost' <= outages' * Gap
      BY <1>2, <1>4 DEF AccountedUp
<1>6. RegionFilled(energyOffset) /\ energyData >= Gap BY <1>1, <1>2, <1>4 DEF AccountedUp
<1>7. energyOffset \in Nat /\ energyData \in Nat \ {0}
      BY <1>6 DEF MeterTyped, MeterNumbers
<1>8. MeterWords BY DEF MeterTyped
<1>9. PICK o \in Nat: o = energyOffset BY <1>7
<1>10. PICK v \in Nat \ {0}: v = energyData BY <1>7
<1>11. RegionFilled(o + 1)' /\ energyWords'[o] = v
       BY <1>1, <1>4, <1>6, <1>8, <1>9, <1>10, RegionAppended
<1>12. energyOffset' = o + 1 /\ energyOffset' - 1 = o /\ energyData' = v
       BY <1>4, <1>9, <1>10
<1>13. RegionFilled(energyOffset)' BY <1>11, <1>12 DEF RegionFilled
<1>14. energyData' = energyWords'[energyOffset' - 1] + 0 BY <1>11, <1>12
<1> QED BY <1>4, <1>5, <1>13, <1>14 DEF AccountedUp

(* The steps of a calibration, and those that leave flash and the counters *)
(* alone.                                                                  *)
LEMMA AccountedRests ==
  ASSUME MeterTyped, MeterSteps, Accounted,
         EraseForK \/ FlagForK \/ OffsetForK \/ ReadHalf \/ ReportEnergy \/ UNCHANGED meterVars
  PROVE  Accounted'
<1> USE MeterConstants
<1>1. CASE ReadHalf \/ ReportEnergy \/ UNCHANGED meterVars
  <2>1. UNCHANGED <<energyWords, energyOffset, energyData, energyCurData, cfStep, kStep,
                    meterUp, pulses, outages, meterLost>>
        BY <1>1 DEF ReadHalf, ReportEnergy, energy, meterHistory, meterVars
  <2> QED BY <2>1 DEF Accounted, AccountedUp, AccountedDown, RegionFilled, RegionBlank
<1>2. CASE EraseForK \/ FlagForK \/ OffsetForK
  <2>1. /\ meterUp /\ meterUp' /\ cfStep = "idle" /\ cfStep' = "idle"
        /\ UNCHANGED <<energyData, energyCurData, pulses, meterLost, outages>>
        BY <1>2 DEF EraseForK, FlagForK, OffsetForK, Quiet, energy, meterHistory
  <2>2. AccountedUp BY <2>1 DEF Accounted
  <2>3. SUFFICES AccountedUp' BY <2>1 DEF Accounted
  <2>4. pulses' = energyData' + energyCurData' + meterLost' /\ meterLost' <= outages' * Gap
        BY <2>1, <2>2 DEF AccountedUp
  <2>5. CASE EraseForK
    <3>1. kStep' = "flag" /\ RegionBlank' BY <2>5, RegionErased DEF EraseForK
    <3> QED BY <2>1, <2>4, <3>1 DEF AccountedUp
  <2>6. CASE FlagForK
    <3>1. kStep' = "offset" /\ energyWords' = Put(0, Flag) /\ RegionBlank
          BY <2>1, <2>2, <2>6 DEF FlagForK, AccountedUp
    <3>2. RegionFilled(1)' BY <3>1, RegionFlagged DEF MeterTyped
    <3> QED BY <2>1, <2>4, <3>1, <3>2 DEF AccountedUp
  <2>7. CASE OffsetForK
    <3>1. /\ kStep' = "idle" /\ energyOffset' = 1 /\ UNCHANGED energyWords
          /\ RegionFilled(1)
          BY <2>1, <2>2, <2>7 DEF OffsetForK, AccountedUp
    <3>2. RegionFilled(energyOffset)' BY <3>1 DEF RegionFilled
    <3> QED BY <2>1, <2>4, <3>1, <3>2 DEF AccountedUp
  <2> QED BY <1>2, <2>5, <2>6, <2>7
<1> QED BY <1>1, <1>2

(* A timely power failure, or one before the first total, loses at most the *)
(* pulses since the last total ...                                         *)
LEMMA AccountedFails ==
  ASSUME MeterTyped, MeterSteps, Accounted, MeterFails, ~excuse'
  PROVE  Accounted'
<1> USE MeterConstants
<1>1. meterUp /\ ~meterUp' BY DEF MeterFails
<1>2. AccountedUp BY <1>1 DEF Accounted
<1>3. /\ UNCHANGED <<energyWords, pulses, meterLost>> /\ outages' = outages + 1
      /\ ~Untimely \/ energyData = 0
      BY DEF MeterFails
<1>4. /\ outages \in Nat /\ pulses \in Nat /\ meterLost \in Nat /\ energyData \in Nat
      /\ energyCurData \in 0 .. Gap - 1 /\ energyOffset \in 0 .. Words
      BY DEF MeterTyped, MeterCounts, MeterNumbers
<1>5. outages' * Gap = outages * Gap + Gap /\ outages * Gap \in Nat
      BY <1>3, <1>4, OneMore
<1>6. pulses = energyData + energyCurData + meterLost /\ meterLost <= outages * Gap
      BY <1>2 DEF AccountedUp
<1>7. meterLost' <= outages' * Gap BY <1>3, <1>4, <1>5, <1>6
<1>8. pulses' <= energyData + outages' * Gap BY <1>3, <1>4, <1>5, <1>6
<1>9. SUFFICES AccountedDown' BY <1>1, <1>7 DEF Accounted
<1>10. (RegionBlank' <=> RegionBlank) /\ \A o \in Nat: RegionFilled(o)' <=> RegionFilled(o) BY <1>3, RegionSame
<1>11. CASE energyData = 0
  <2>1. cfStep = "idle" BY <1>2, <1>11 DEF AccountedUp
  <2>2. pulses' <= outages' * Gap BY <1>3, <1>4, <1>5, <1>8, <1>11
  <2>3. RegionBlank \/ RegionFilled(1)
    <3>1. CASE kStep # "idle"
          BY <1>2, <2>1, <3>1 DEF AccountedUp, MeterTyped, MeterPlaces
    <3>2. CASE kStep = "idle"
      <4>1. RegionFilled(energyOffset) BY <1>2, <2>1, <3>2 DEF AccountedUp
      <4>2. energyOffset > 1 => energyData = energyWords[energyOffset - 1] + 0
            BY <1>2, <2>1, <3>2 DEF AccountedUp
      <4>3. energyOffset > 1 => energyWords[energyOffset - 1] \in Nat \ {0}
            BY <1>4, <4>1 DEF RegionFilled, Word
      <4>4. energyOffset = 1
        <5>1. energyOffset \in 1 .. Words BY <4>1 DEF RegionFilled
        <5>2. ~(energyOffset > 1) BY <1>11, <4>2, <4>3
        <5> QED BY <5>1, <5>2
      <4> QED BY <4>1, <4>4
    <3> QED BY <3>1, <3>2
  <2> QED BY <1>10, <2>2, <2>3 DEF AccountedDown
<1>12. CASE ~Untimely
  <2>1. /\ energyOffset \in 2 .. Words - 1 /\ kStep = "idle" /\ cfStep \in {"idle", "write"}
        BY <1>4, <1>12 DEF Untimely, MeterTyped, MeterPlaces
  <2>2. RegionFilled(energyOffset)
        /\ energyData = energyWords[energyOffset - 1] + (IF cfStep = "write" THEN Gap ELSE 0)
        BY <1>2, <2>1 DEF AccountedUp
  <2>3. energyWords[energyOffset - 1] \in Nat BY <2>1, <2>2 DEF RegionFilled, Word
  <2>4. cfStep = "write" => energyCurData = 0 BY <1>2 DEF AccountedUp
  <2> DEFINE v == energyWords[energyOffset - 1]
  <2>5. v <= pulses /\ pulses <= v + (outages * Gap + Gap)
    <3>1. v \in Nat /\ outages * Gap \in Nat BY <1>5, <2>3
    <3>2. CASE cfStep = "write"
      <4>1. energyData = v + Gap /\ energyCurData = 0 BY <2>2, <2>4, <3>2
      <4> HIDE DEF v
      <4> QED BY <1>4, <1>6, <3>1, <4>1
    <3>3. CASE cfStep = "idle"
      <4>1. energyData = v + 0 BY <2>2, <3>3
      <4> HIDE DEF v
      <4> QED BY <1>4, <1>6, <3>1, <4>1
    <3> QED BY <2>1, <3>2, <3>3
  <2>7. PICK o \in 2 .. Words - 1: o = energyOffset BY <2>1
  <2>8. RegionFilled(o)' BY <1>10, <2>2, <2>7
  <2>9. energyWords'[o - 1] <= pulses' /\ pulses' <= energyWords'[o - 1] + outages' * Gap
        BY <1>3, <1>5, <2>5, <2>7
  <2> QED BY <2>8, <2>9 DEF AccountedDown
<1> QED BY <1>3, <1>11, <1>12

(* ... and the device that starts again finds that total.                  *)
LEMMA AccountedStarts ==
  ASSUME MeterTyped, MeterSteps, Accounted, MeterStarts
  PROVE  Accounted'
<1> USE MeterConstants
<1>1. ~meterUp /\ meterUp' /\ AccountedDown /\ meterLost <= outages * Gap
      BY DEF MeterStarts, Accounted
<1>2. /\ cfStep = "idle" /\ kStep = "idle" /\ energyCurData = 0
      /\ UNCHANGED <<energyCurData, cfStep, kStep, pulses, outages>>
      BY <1>1 DEF MeterStarts, MeterSteps
<1>3. meterLost' = IF energyData' <= pulses THEN pulses - energyData' ELSE 0
      BY DEF MeterStarts
<1>4. pulses \in Nat /\ outages * Gap \in Nat /\ MeterWords
  <2>1. outages \in Nat BY DEF MeterTyped, MeterCounts
  <2> QED BY <2>1, OneMore DEF MeterTyped, MeterCounts
<1>5. SUFFICES AccountedUp' BY <1>1 DEF Accounted
<1>6. ASSUME RegionFilled(1)', energyOffset' = 1, energyData' = 0, pulses <= outages * Gap
      PROVE  AccountedUp'
  <2>1. meterLost' = pulses BY <1>3, <1>4, <1>6
  <2>2. pulses' = energyData' + energyCurData' + meterLost' BY <1>2, <1>4, <1>6, <2>1
  <2>3. meterLost' <= outages' * Gap BY <1>2, <1>6, <2>1
  <2>4. RegionFilled(energyOffset)' BY <1>6 DEF RegionFilled
  <2> QED BY <1>2, <1>6, <2>2, <2>3, <2>4 DEF AccountedUp
<1>7. CASE RegionBlank /\ pulses <= outages * Gap
  <2>1. energyWords[0] # Flag BY <1>7, WordMarks DEF RegionBlank, Word
  <2>2. /\ energyWords' = [AllErased EXCEPT ![0] = Flag] /\ energyOffset' = 1
        /\ energyData' = 0
        BY <2>1 DEF MeterStarts
  <2> QED BY <1>6, <1>7, <2>2, RegionNew
<1>8. ASSUME NEW o \in 1 .. Words - 1, RegionFilled(o)
      PROVE  /\ UNCHANGED energyWords /\ energyOffset' = o
             /\ energyData' = IF o = 1 THEN 0 ELSE energyWords[o - 1]
  <2>1. energyWords[0] = Flag BY <1>8 DEF RegionFilled
  <2>2. UNCHANGED energyWords /\ energyOffset' = FoundOffset /\ energyData' \in FoundTotals
        BY <2>1 DEF MeterStarts
  <2>3. FoundOffset = o /\ FoundTotals = IF o = 1 THEN {0} ELSE {energyWords[o - 1]}
        BY <1>8, FoundFilled
  <2> QED BY <2>2, <2>3
<1>9. CASE RegionFilled(1) /\ pulses <= outages * Gap
  <2>1. UNCHANGED energyWords /\ energyOffset' = 1 /\ energyData' = 0 BY <1>8, <1>9
  <2>2. RegionFilled(1)' BY <1>9, <2>1, RegionSame
  <2> QED BY <1>6, <1>9, <2>1, <2>2
<1>10. CASE \E o \in 2 .. Words - 1:
              /\ RegionFilled(o) /\ energyWords[o - 1] <= pulses
              /\ pulses <= energyWords[o - 1] + outages * Gap
  <2>1. PICK o \in 2 .. Words - 1:
              /\ RegionFilled(o) /\ energyWords[o - 1] <= pulses
              /\ pulses <= energyWords[o - 1] + outages * Gap
        BY <1>10
  <2>2. UNCHANGED energyWords /\ energyOffset' = o /\ energyData' = energyWords[o - 1]
        BY <1>8, <2>1
  <2>3. energyWords[o - 1] \in Nat BY <2>1 DEF RegionFilled, Word
  <2>4. PICK v \in Nat: v = energyWords[o - 1] BY <2>3
  <2>5. meterLost' = pulses - v BY <1>3, <2>1, <2>2, <2>4
  <2>6. pulses' = energyData' + energyCurData' + meterLost'
        BY <1>2, <1>4, <2>2, <2>4, <2>5
  <2>7. meterLost' <= outages' * Gap BY <1>2, <1>4, <2>1, <2>4, <2>5
  <2>8. RegionFilled(energyOffset)' BY <2>1, <2>2 DEF RegionFilled
  <2>9. energyData' = energyWords'[energyOffset' - 1] + 0 BY <2>2, <2>3
  <2> QED BY <1>2, <2>6, <2>7, <2>8, <2>9 DEF AccountedUp
<1> QED BY <1>1, <1>7, <1>9, <1>10 DEF AccountedDown

LEMMA AccountedKept ==
  ASSUME MeterTyped, MeterSteps, ~excuse => Accounted, [MeterNext]_meterVars
  PROVE  ~excuse' => Accounted'
<1> SUFFICES ASSUME ~excuse' PROVE Accounted' OBVIOUS
<1>1. ~excuse
      BY DEF MeterNext, Pulse, EraseFull, FlagFull, WriteTotal, EraseForK, FlagForK,
         OffsetForK, ReadHalf, ReportEnergy, MeterFails, MeterStarts, meterHistory, meterVars
<1>2. Accounted BY <1>1
<1>3. CASE Pulse BY <1>2, <1>3, AccountedPulse DEF MeterTyped
<1>4. CASE EraseFull \/ FlagFull BY <1>2, <1>4, AccountedErases
<1>5. CASE WriteTotal BY <1>2, <1>5, AccountedTotal
<1>6. CASE EraseForK \/ FlagForK \/ OffsetForK \/ ReadHalf \/ ReportEnergy
           \/ UNCHANGED meterVars
      BY <1>2, <1>6, AccountedRests
<1>7. CASE MeterFails BY <1>2, <1>7, AccountedFails
<1>8. CASE MeterStarts BY <1>2, <1>8, AccountedStarts
<1> QED BY <1>3, <1>4, <1>5, <1>6, <1>7, <1>8 DEF MeterNext

LEMMA MeterStarted == MeterInit => MeterIInv
<1> SUFFICES ASSUME MeterInit PROVE MeterIInv OBVIOUS
<1> USE MeterConstants DEF MeterInit
<1>1. MeterWords BY DEF MeterWords, AllErased
<1>2. MeterNumbers /\ MeterPlaces /\ MeterCounts /\ reported \in Nat
      BY DEF MeterNumbers, MeterPlaces, MeterCounts
<1>3. MeterHalf BY DEF MeterHalf, NoHalf
<1>4. MeterFlags BY DEF MeterFlags
<1>5. MeterTypes BY <1>1, <1>2, <1>3, <1>4, MeterTypesAre DEF MeterTyped
<1>6. MeterSteps /\ HalfRead BY DEF MeterSteps, HalfRead
<1>7. Accounted BY DEF Accounted, AccountedDown, RegionBlank, AllErased
<1> QED BY <1>5, <1>6, <1>7 DEF MeterIInv

LEMMA MeterKept == MeterIInv /\ [MeterNext]_meterVars => MeterIInv'
<1> SUFFICES ASSUME MeterIInv, [MeterNext]_meterVars PROVE MeterIInv' OBVIOUS
<1>1. MeterTyped /\ MeterSteps /\ HalfRead /\ (~excuse => Accounted)
      BY MeterTypesAre DEF MeterIInv
<1>2. MeterWords' BY <1>1, MeterWordsKept DEF MeterTyped
<1>3. MeterNumbers' BY <1>1, MeterNumbersKept DEF MeterTyped
<1>4. MeterPlaces' BY <1>1, MeterPlacesKept DEF MeterTyped
<1>5. MeterHalf' /\ reported' \in Nat BY <1>1, MeterHalfKept DEF MeterTyped
<1>6. MeterCounts' BY <1>1, MeterCountsKept DEF MeterTyped
<1>7. MeterFlags' BY <1>1, MeterFlagsKept DEF MeterTyped
<1>8. MeterTypes'
  <2>1. MeterTyped' BY <1>2, <1>3, <1>4, <1>5, <1>6, <1>7 DEF MeterTyped
  <2> QED BY <2>1, MeterTypesAre, PTL
<1>9. MeterSteps' BY <1>1, MeterStepsKept DEF MeterTyped
<1>10. HalfRead' BY <1>1, HalfReadKept DEF MeterTyped
<1>11. ~excuse' => Accounted' BY <1>1, AccountedKept
<1> QED BY <1>8, <1>9, <1>10, <1>11 DEF MeterIInv

(* The device knows of every pulse but those that a timely power failure    *)
(* took, and each of them took no more than one gap: for every size of the  *)
(* region, and wherever the interrupt meets the message thread.            *)
THEOREM MeterCorrect == MeterSpec => []MeterInv
<1>1. MeterIInv => MeterInv
  <2>1. ASSUME MeterIInv, meterUp, ~excuse
        PROVE  pulses = energyData + energyCurData + meterLost
        BY <2>1 DEF MeterIInv, Accounted, AccountedUp
  <2>2. ASSUME MeterIInv, ~excuse PROVE meterLost <= outages * Gap
    <3>1. Accounted /\ MeterTyped BY <2>2, MeterTypesAre DEF MeterIInv
    <3>2. meterUp \in BOOLEAN BY <3>1 DEF MeterTyped, MeterFlags
    <3>3. CASE meterUp BY <3>1, <3>3 DEF Accounted, AccountedUp
    <3>4. CASE ~meterUp BY <3>1, <3>4 DEF Accounted
    <3> QED BY <3>2, <3>3, <3>4
  <2> QED BY <2>1, <2>2 DEF MeterIInv, MeterInv, NoPulseLost, LossIsSmall
<1> QED BY <1>1, MeterStarted, MeterKept, PTL DEF MeterSpec

(* A report is made of two halves of the total that the interrupt may come  *)
(* between; it is never further than one gap from the total.               *)
THEOREM ReportsNear == MeterSpec => ReportNear
<1>1. ASSUME MeterIInv, [MeterNext]_meterVars, reports' # reports
      PROVE  \E n \in Known - Gap .. Known + Gap: n >= 0 /\ reported' = Shown(n)
  <2> USE MeterConstants
  <2>1. MeterTyped /\ HalfRead BY <1>1, MeterTypesAre DEF MeterIInv
  <2>2. ReportEnergy
        BY <1>1 DEF MeterNext, Pulse, EraseFull, FlagFull, WriteTotal, EraseForK, FlagForK,
           OffsetForK, ReadHalf, MeterFails, MeterStarts, report, meterVars
  <2>3. /\ half # NoHalf
        /\ reported' = Shown(half.value
                             + (IF half.read = "total" THEN energyCurData ELSE energyData))
        BY <2>2 DEF ReportEnergy
  <2>4. /\ half.value \in Nat /\ half.at \in Nat /\ energyData \in Nat
        /\ energyCurData \in 0 .. Gap - 1 /\ pulses \in Nat
        BY <2>1 DEF MeterTyped, MeterHalf, MeterNumbers, MeterCounts
  <2>5. CASE half.read = "total"
    <3>1. energyData = half.value \/ energyData = half.value + Gap
          BY <2>1, <2>3, <2>5 DEF HalfRead
    <3>2. PICK n \in Nat: n = half.value + energyCurData BY <2>4
    <3>3. n \in Known - Gap .. Known + Gap BY <2>4, <3>1, <3>2 DEF Known
    <3>4. reported' = Shown(n) BY <2>3, <2>5, <3>2
    <3> QED BY <3>2, <3>3, <3>4
  <2>6. CASE half.read = "rest"
    <3>1. half.value < Gap BY <2>1, <2>3, <2>6 DEF HalfRead
    <3>2. PICK n \in Nat: n = half.value + energyData BY <2>4
    <3>3. n \in Known - Gap .. Known + Gap BY <2>4, <3>1, <3>2 DEF Known
    <3>4. reported' = Shown(n) BY <2>3, <2>6, <3>2
    <3> QED BY <3>2, <3>3, <3>4
  <2> QED BY <2>1, <2>3, <2>5, <2>6 DEF HalfRead
<1>2. MeterIInv /\ [MeterNext]_meterVars
         => [reports' # reports => \E n \in Known - Gap .. Known + Gap:
                                      n >= 0 /\ reported' = Shown(n)]_meterVars
      BY <1>1
<1> QED BY <1>2, MeterStarted, MeterKept, PTL DEF MeterSpec, ReportNear
-----------------------------------------------------------------------------
(***************************************************************************)
(* The log in flash, for every number of threads, size of the areas, of a    *)
(* page, of a block and of a line.  While nothing bad happened, there is at *)
(* most one copy being made, and at every step of it the log and the backup  *)
(* tell what the end of the copy, or a power failure, will make of them.    *)
(***************************************************************************)
(* The log holds the last n bytes saved; the backup holds n bytes, and there *)
(* are more after them.                                                    *)
LogHolds(n) ==
    /\ n < LogSize /\ n <= savedBytes
    /\ \A c \in LogArea: flash[c] = IF c < n THEN savedBytes - n + c + 1 ELSE Blank
BakHolds(n, more) ==
    n <= LogSize /\ \A c \in 0 .. n - 1: flash[LogSize + c] = savedBytes - more - n + c + 1
LogErased == \A c \in LogArea: flash[c] = Blank
InTime(n, more) == more + n = savedBytes - savedBase \/ n + MaxLine >= LogSize

(* A log of n bytes can be gone on with.                                   *)
LogGood(n) ==
    LogHolds(n) /\ (bad = 0 => BakHolds(bakLen, n) /\ InTime(bakLen, n))

InfoNext(t) == logPc[t] \in {"note", "erase info", "write info", "reset"}
OneCopy ==
    /\ \A t, u \in LogThread: Copying(t) /\ Copying(u) => t = u
    /\ \A t \in LogThread: InfoNext(t) => LogErased

(* The backup is a copy of the log up to n.                                *)
Copied(n) ==
    \A c \in LogArea: flash[LogSize + c] = IF c < n THEN flash[c] ELSE Blank

(* The copy that t makes.                                                  *)
CopyGood(t) ==
    /\ len < LogSize /\ len <= savedBytes
    /\ IF logPc[t] = "copy block" THEN Copied(noted[t]) ELSE BakHolds(len, 0)
    /\ logPc[t] \in {"copy block", "erase log"} => LogHolds(len)
    /\ logPc[t] \in {"erase info", "write info", "reset"} => noted[t] = len
    /\ logPc[t] = "write info" => ~flag
    /\ logPc[t] = "reset" => bakLen = len
    /\ copyAlone => InTime(len, 0)
    /\ bad = 0 => copyAlone

LogPlaces ==
    /\ logPc["boot"] \notin {"idle", "write"}
    /\ \A t \in Saver: logPc[t] \notin {"scan", "done"}
    /\ ~LogFound => \A t \in Saver: logPc[t] = "idle"
    /\ logPc["boot"] = "copy" => bad = 2
    /\ logPc["boot"] = "scan" => len = 0

LogScanned ==
    bad < 2 /\ logPc["boot"] = "scan" /\ flag => \E n \in Nat: LogGood(n)
LogRests == bad < 2 /\ LogQuiet => LogGood(len)
LogCopied == bad < 2 => \A t \in LogThread: Copying(t) => CopyGood(t)
LogAlone == bad < 2 \/ copyAlone => OneCopy

LogIInv == LogTypes /\ LogPlaces /\ LogAlone /\ LogScanned /\ LogRests /\ LogCopied

(* The types, in parts.                                                    *)
LogCells == flash \in [LogArea \cup BakArea -> Nat \cup {Garbled}]
LogPcs == logPc \in [LogThread -> CopySteps \cup {"idle", "write", "scan", "done"}]
LogMutex ==
    /\ mutex \in LogThread \cup {Free}
    /\ mutex # Free => logPc[mutex] \in {"copy block", "erase log", "erase rest", "write info"}
LogLines == line \in [Saver -> 0 .. MaxLine] /\ noted \in [LogThread -> Nat]
LogNumbers ==
    /\ bakLen \in Nat /\ len \in Nat /\ savedBytes \in Nat
    /\ savedBase \in 0 .. savedBytes /\ bad \in 0 .. 2
LogBooleans == flag \in BOOLEAN /\ copyAlone \in BOOLEAN
LogTyped ==
    /\ LogCells /\ LogPcs /\ LogMutex /\ LogLines /\ LogNumbers /\ LogBooleans
    /\ failures \in 0 .. MaxFailures

LEMMA LogTypesAre == LogTyped <=> LogTypes
BY DEF LogTyped, LogCells, LogPcs, LogMutex, LogLines, LogNumbers, LogBooleans, LogTypes

LEMMA LogConstants ==
    /\ LogSize \in Nat /\ LogSize > 0 /\ Page \in Nat /\ Page > 0 /\ Block \in Nat /\ Block > 0
    /\ MaxLine \in Nat /\ MaxLine > 0 /\ MaxLine < LogSize
    /\ MaxSaved \in Nat /\ MaxFailures \in Nat /\ "boot" \notin Saver
    /\ LogSize % Page = 0 /\ LogSize % Block = 0
BY FlashLogAssumption

LEMMA PageIsLog == Page <= LogSize
BY LogConstants, GroupBefore

LEMMA LogSizes ==
    /\ LogSize \in Nat /\ LogSize > 0 /\ Page \in Nat /\ Page > 0 /\ Page <= LogSize
    /\ MaxLine \in Nat /\ MaxLine > 0 /\ MaxLine < LogSize
    /\ MaxSaved \in Nat /\ MaxFailures \in Nat
BY LogConstants, PageIsLog

LEMMA BakCell ==
  ASSUME NEW c \in LogArea
  PROVE  LogSize + c \in BakArea /\ LogSize + c \notin LogArea /\ LogSize + c \notin PageAt(0)
BY LogSizes DEF LogArea, BakArea, PageAt

LEMMA CellsBefore == ASSUME NEW n \in Nat, n < LogSize PROVE 0 .. n - 1 \subseteq LogArea
BY LogSizes DEF LogArea

LEMMA MaxWithOne ==
  ASSUME NEW n \in 0 .. 2
  PROVE  Max({n, 1}) = IF n = 0 THEN 1 ELSE n
<1> DEFINE m == IF n = 0 THEN 1 ELSE n
<1>1. m \in {n, 1} /\ \A y \in {n, 1}: m >= y OBVIOUS
<1>2. \A x \in {n, 1}: (\A y \in {n, 1}: x >= y) => x = m OBVIOUS
<1> HIDE DEF m
<1>3. Max({n, 1}) \in {n, 1} /\ \A y \in {n, 1}: Max({n, 1}) >= y BY <1>1 DEF Max
<1>4. Max({n, 1}) = m BY <1>2, <1>3
<1> QED BY <1>4 DEF m

LEMMA LogThreads ==
    /\ "boot" \in LogThread /\ \A t \in Saver: t \in LogThread /\ t # "boot"
    /\ \A t \in LogThread: t \in Saver \/ t = "boot"
BY LogConstants DEF LogThread

(* The end of the log is found where it is.                                *)
LEMMA FoundSome ==
  ASSUME LogCells
  PROVE  FoundLength \in Nat
<1> USE LogConstants DEF LogArea
<1> DEFINE G == {b \in Blocks: Open(b)}
           E == {c \in LogArea: c >= Min(G) /\ flash[c] = Blank}
<1>1. CASE ~\E b \in Blocks: Open(b) BY <1>1 DEF FoundLength
<1>2. CASE \E b \in Blocks: Open(b)
  <2>1. G \subseteq Nat /\ G # {} BY <1>2 DEF Blocks
  <2>2. Min(G) \in G BY <2>1, Least
  <2>3. PICK b \in LogArea: b = Min(G) /\ b % Block = 0 /\ flash[b + Block - 1] = Blank
        BY <2>2 DEF Blocks, Open
  <2>4. b + Block <= LogSize
    <3>1. b \in Nat /\ b < LogSize BY <2>3
    <3> QED BY <2>3, <3>1, GroupEnd
  <2>5. b + Block - 1 \in E BY <2>3, <2>4
  <2>6. E \subseteq Nat OBVIOUS
  <2>7. Min(E) \in E BY <2>5, <2>6, Least
  <2>8. FoundLength = Min(E) BY <1>2 DEF FoundLength
  <2> QED BY <2>6, <2>7, <2>8
<1> QED BY <1>1, <1>2

LEMMA FoundTrue ==
  ASSUME NEW n \in Nat, LogHolds(n), savedBytes \in Nat
  PROVE  FoundLength = n
<1> USE LogConstants DEF LogArea
<1> DEFINE G == {b \in Blocks: Open(b)}
           E == {c \in LogArea: c >= Min(G) /\ flash[c] = Blank}
<1>1. n < LogSize /\ n <= savedBytes BY DEF LogHolds
<1>2. \A c \in LogArea: flash[c] = Blank <=> c >= n
  <2>1. TAKE c \in LogArea
  <2>2. flash[c] = IF c < n THEN savedBytes - n + c + 1 ELSE 0 BY DEF LogHolds, Blank
  <2>3. c \in Nat /\ savedBytes - n + c + 1 > 0 BY <1>1
  <2> QED BY <2>2, <2>3 DEF Blank
<1>3. LogSize >= Block /\ (LogSize - Block) % Block = 0 BY GroupBefore
<1>4. LogSize - Block \in G
  <2>1. LogSize - Block \in LogArea /\ LogSize - 1 \in LogArea BY <1>3
  <2>2. (LogSize - Block) + Block - 1 = LogSize - 1 OBVIOUS
  <2>3. flash[LogSize - 1] = Blank BY <1>1, <1>2, <2>1
  <2> QED BY <1>3, <2>1, <2>2, <2>3 DEF Blocks, Open
<1>5. G \subseteq Nat BY DEF Blocks
<1>6. Min(G) \in G /\ \A y \in G: Min(G) <= y BY <1>4, <1>5, Least
<1>7. PICK g \in LogArea: g = Min(G) BY <1>6 DEF Blocks
<1>8. g % Block = 0 /\ \A y \in G: g <= y BY <1>6, <1>7 DEF Blocks
<1>9. g <= n
  <2>1. SUFFICES ASSUME g > n PROVE FALSE BY <1>7
  <2>2. g >= Block /\ (g - Block) % Block = 0 BY <1>8, <2>1, GroupBefore
  <2>3. g - Block \in LogArea /\ g - 1 \in LogArea /\ g - 1 >= n BY <2>1, <2>2
  <2>4. (g - Block) + Block - 1 = g - 1 OBVIOUS
  <2>5. flash[g - 1] = Blank BY <1>2, <2>3
  <2>6. g - Block \in G BY <2>2, <2>3, <2>4, <2>5 DEF Blocks, Open
  <2> QED BY <1>8, <2>6
<1>10. n \in E /\ \A y \in E: n <= y BY <1>1, <1>2, <1>7, <1>9
<1>11. E \subseteq Nat OBVIOUS
<1>12. Min(E) \in E /\ \A y \in E: Min(E) <= y BY <1>10, <1>11, Least
<1>13. PICK e \in Nat: e = Min(E) BY <1>11, <1>12
<1>14. e <= n /\ n <= e BY <1>10, <1>12, <1>13
<1>15. FoundLength = Min(E) BY <1>4 DEF FoundLength
<1> QED BY <1>13, <1>14, <1>15

LEMMA CellsWritten ==
  ASSUME NEW a \in Nat, NEW n \in Nat, LogCells, savedBytes \in Nat, flash' = Written(a, n)
  PROVE  LogCells'
<1> USE DEF LogCells
<1>1. DOMAIN flash = LogArea \cup BakArea OBVIOUS
<1>2. ASSUME NEW c \in LogArea \cup BakArea
      PROVE  (IF c \notin a .. a + n - 1 THEN flash[c]
              ELSE IF flash[c] = Blank THEN savedBytes + (c - a) + 1 ELSE Garbled)
             \in Nat \cup {Garbled}
  <2>1. c \in Int BY LogConstants DEF LogArea, BakArea
  <2>2. c \in a .. a + n - 1 => savedBytes + (c - a) + 1 \in Nat BY <2>1
  <2> QED BY <2>2
<1> QED BY <1>1, <1>2 DEF Written

(* Every step keeps the types.                                             *)
LEMMA LogCellsKept ==
  ASSUME LogCells, LogNumbers, LogLines, [LogNext]_logVars
  PROVE  LogCells'
<1> USE LogConstants DEF LogCells, LogArea, BakArea, WithErased, Blank
<1>1. CASE UNCHANGED logVars
  BY <1>1 DEF logVars
<1>2. ASSUME NEW t \in Saver, Write(t) PROVE LogCells'
  <2>1. line[t] \in Nat /\ len \in Nat /\ savedBytes \in Nat BY <1>2 DEF LogLines, LogNumbers
  <2> QED BY <1>2, <2>1, CellsWritten DEF Write
<1>3. ASSUME NEW t \in Saver, NEW n \in 1 .. MaxLine, Save(t, n) PROVE LogCells'
  BY <1>3 DEF Save, info, history
<1>4. ASSUME NEW t \in LogThread, EraseBak(t) PROVE LogCells'
  BY <1>4 DEF EraseBak
<1>14. ASSUME NEW t \in LogThread, CopyBlock(t) PROVE LogCells'
  <2>1. ASSUME NEW c \in LogArea \cup BakArea, c \in BakArea PROVE c - LogSize \in LogArea
        BY <2>1
  <2> QED BY <1>14, <2>1 DEF CopyBlock
<1>5. ASSUME NEW t \in LogThread, EraseLog(t) PROVE LogCells'
  BY <1>5 DEF EraseLog, info, history
<1>6. ASSUME NEW t \in LogThread, EraseRest(t) PROVE LogCells'
  BY <1>6 DEF EraseRest, info, history
<1>7. ASSUME NEW t \in LogThread, NoteLength(t) PROVE LogCells'
  BY <1>7 DEF NoteLength, info, history
<1>8. ASSUME NEW t \in LogThread, EraseInfo(t) PROVE LogCells'
  BY <1>8 DEF EraseInfo, info, history
<1>9. ASSUME NEW t \in LogThread, WriteInfo(t) PROVE LogCells'
  BY <1>9 DEF WriteInfo, info, history
<1>10. ASSUME NEW t \in LogThread, ResetLength(t) PROVE LogCells'
  BY <1>10 DEF ResetLength, info, history
<1>11. ASSUME FindLength PROVE LogCells'
  BY <1>11 DEF FindLength, info, history
<1>12. ASSUME ClearAll PROVE LogCells'
  BY <1>12 DEF ClearAll, info, history
<1>13. ASSUME PowerFails PROVE LogCells'
  <2>1. len \in Nat /\ savedBytes \in Nat BY DEF LogNumbers
  <2>2. PICK n \in 0 .. MaxLine: flash' = Written(len, n) BY <1>13 DEF PowerFails
  <2> QED BY <2>1, <2>2, CellsWritten
<1> QED
  BY <1>1, <1>2, <1>3, <1>4, <1>5, <1>6, <1>7, <1>8, <1>9, <1>10, <1>11, <1>12, <1>13,
     <1>14
     DEF LogNext, CopyLog

LEMMA LogPcsKept ==
  ASSUME LogPcs, [LogNext]_logVars
  PROVE  LogPcs'
<1> USE DEF LogPcs, LogTo, LogThread, CopySteps
<1>1. CASE UNCHANGED logVars
  BY <1>1 DEF logVars
<1>2. ASSUME NEW t \in Saver, Write(t) PROVE LogPcs'
  BY <1>2 DEF Write, info, history
<1>3. ASSUME NEW t \in Saver, NEW n \in 1 .. MaxLine, Save(t, n) PROVE LogPcs'
  BY <1>3 DEF Save, info, history
<1>4. ASSUME NEW t \in LogThread, EraseBak(t) PROVE LogPcs'
  BY <1>4 DEF EraseBak, info, history
<1>14. ASSUME NEW t \in LogThread, CopyBlock(t) PROVE LogPcs'
  BY <1>14 DEF CopyBlock, info, history
<1>5. ASSUME NEW t \in LogThread, EraseLog(t) PROVE LogPcs'
  BY <1>5 DEF EraseLog, info, history
<1>6. ASSUME NEW t \in LogThread, EraseRest(t) PROVE LogPcs'
  BY <1>6 DEF EraseRest, info, history
<1>7. ASSUME NEW t \in LogThread, NoteLength(t) PROVE LogPcs'
  BY <1>7 DEF NoteLength, info, history
<1>8. ASSUME NEW t \in LogThread, EraseInfo(t) PROVE LogPcs'
  BY <1>8 DEF EraseInfo, info, history
<1>9. ASSUME NEW t \in LogThread, WriteInfo(t) PROVE LogPcs'
  BY <1>9 DEF WriteInfo, info, history
<1>10. ASSUME NEW t \in LogThread, ResetLength(t) PROVE LogPcs'
  BY <1>10 DEF ResetLength, info, history
<1>11. ASSUME FindLength PROVE LogPcs'
  BY <1>11 DEF FindLength, info, history
<1>12. ASSUME ClearAll PROVE LogPcs'
  BY <1>12 DEF ClearAll, info, history
<1>13. ASSUME PowerFails PROVE LogPcs'
  BY <1>13 DEF PowerFails, info, history
<1> QED
  BY <1>1, <1>2, <1>3, <1>4, <1>5, <1>6, <1>7, <1>8, <1>9, <1>10, <1>11, <1>12, <1>13,
     <1>14
     DEF LogNext, CopyLog

LEMMA LogMutexKept ==
  ASSUME LogPcs, LogMutex, [LogNext]_logVars
  PROVE  LogMutex'
<1> USE DEF LogMutex, LogPcs, LogTo, LogThread, Free
<1>1. CASE UNCHANGED logVars
  BY <1>1 DEF logVars
<1>2. ASSUME NEW t \in Saver, Write(t) PROVE LogMutex'
  BY <1>2 DEF Write, info, history
<1>3. ASSUME NEW t \in Saver, NEW n \in 1 .. MaxLine, Save(t, n) PROVE LogMutex'
  BY <1>3 DEF Save, info, history
<1>4. ASSUME NEW t \in LogThread, EraseBak(t) PROVE LogMutex'
  BY <1>4 DEF EraseBak, info, history
<1>14. ASSUME NEW t \in LogThread, CopyBlock(t) PROVE LogMutex'
  BY <1>14 DEF CopyBlock, info, history
<1>5. ASSUME NEW t \in LogThread, EraseLog(t) PROVE LogMutex'
  BY <1>5 DEF EraseLog, info, history
<1>6. ASSUME NEW t \in LogThread, EraseRest(t) PROVE LogMutex'
  BY <1>6 DEF EraseRest, info, history
<1>7. ASSUME NEW t \in LogThread, NoteLength(t) PROVE LogMutex'
  BY <1>7 DEF NoteLength, info, history
<1>8. ASSUME NEW t \in LogThread, EraseInfo(t) PROVE LogMutex'
  BY <1>8 DEF EraseInfo, info, history
<1>9. ASSUME NEW t \in LogThread, WriteInfo(t) PROVE LogMutex'
  BY <1>9 DEF WriteInfo, info, history
<1>10. ASSUME NEW t \in LogThread, ResetLength(t) PROVE LogMutex'
  BY <1>10 DEF ResetLength, info, history
<1>11. ASSUME FindLength PROVE LogMutex'
  BY <1>11 DEF FindLength, info, history
<1>12. ASSUME ClearAll PROVE LogMutex'
  BY <1>12 DEF ClearAll, info, history
<1>13. ASSUME PowerFails PROVE LogMutex'
  BY <1>13 DEF PowerFails, info, history
<1> QED
  BY <1>1, <1>2, <1>3, <1>4, <1>5, <1>6, <1>7, <1>8, <1>9, <1>10, <1>11, <1>12, <1>13,
     <1>14
     DEF LogNext, CopyLog

LEMMA LogLinesKept ==
  ASSUME LogLines, LogNumbers, [LogNext]_logVars
  PROVE  LogLines'
<1> USE LogConstants DEF LogLines, LogNumbers, LogThread, ram
<1>1. CASE UNCHANGED logVars
  BY <1>1 DEF logVars
<1>2. ASSUME NEW t \in Saver, Write(t) PROVE LogLines'
  BY <1>2 DEF Write, info, history
<1>3. ASSUME NEW t \in Saver, NEW n \in 1 .. MaxLine, Save(t, n) PROVE LogLines'
  BY <1>3 DEF Save, info, history
<1>4. ASSUME NEW t \in LogThread, EraseBak(t) PROVE LogLines'
  BY <1>4 DEF EraseBak, info, history
<1>14. ASSUME NEW t \in LogThread, CopyBlock(t) PROVE LogLines'
  <2>1. noted[t] + Block \in Nat OBVIOUS
  <2>2. /\ line' = line
        /\ noted' = [noted EXCEPT ![t] =
                        IF noted[t] + Block < LogSize THEN noted[t] + Block ELSE 0]
    BY <1>14 DEF CopyBlock
  <2> QED
    BY <2>1, <2>2
<1>5. ASSUME NEW t \in LogThread, EraseLog(t) PROVE LogLines'
  BY <1>5 DEF EraseLog, info, history
<1>6. ASSUME NEW t \in LogThread, EraseRest(t) PROVE LogLines'
  BY <1>6 DEF EraseRest, info, history
<1>7. ASSUME NEW t \in LogThread, NoteLength(t) PROVE LogLines'
  BY <1>7 DEF NoteLength, info, history
<1>8. ASSUME NEW t \in LogThread, EraseInfo(t) PROVE LogLines'
  BY <1>8 DEF EraseInfo, info, history
<1>9. ASSUME NEW t \in LogThread, WriteInfo(t) PROVE LogLines'
  BY <1>9 DEF WriteInfo, info, history
<1>10. ASSUME NEW t \in LogThread, ResetLength(t) PROVE LogLines'
  BY <1>10 DEF ResetLength, info, history
<1>11. ASSUME FindLength PROVE LogLines'
  BY <1>11 DEF FindLength, info, history
<1>12. ASSUME ClearAll PROVE LogLines'
  BY <1>12 DEF ClearAll, info, history
<1>13. ASSUME PowerFails PROVE LogLines'
  BY <1>13 DEF PowerFails, info, history
<1> QED
  BY <1>1, <1>2, <1>3, <1>4, <1>5, <1>6, <1>7, <1>8, <1>9, <1>10, <1>11, <1>12, <1>13,
     <1>14
     DEF LogNext, CopyLog

LEMMA LogNumbersKept ==
  ASSUME LogCells, LogNumbers, LogLines, [LogNext]_logVars
  PROVE  LogNumbers'
<1> USE LogConstants DEF LogNumbers
<1>1. CASE UNCHANGED logVars
  BY <1>1 DEF logVars
<1>2. ASSUME NEW t \in Saver, Write(t) PROVE LogNumbers'
  <2>1. line[t] \in Nat BY <1>2 DEF LogLines
  <2>2. bad' \in 0 .. 2 BY <1>2 DEF Write
  <2> QED BY <1>2, <2>1, <2>2 DEF Write, info
<1>3. ASSUME NEW t \in Saver, NEW n \in 1 .. MaxLine, Save(t, n) PROVE LogNumbers'
  BY <1>3 DEF Save, info, history
<1>4. ASSUME NEW t \in LogThread, EraseBak(t) PROVE LogNumbers'
  <2>1. Max({bad, 1}) \in 0 .. 2 BY MaxWithOne
  <2>2. bad' \in {2, bad, Max({bad, 1})} BY <1>4, Zenon DEF EraseBak
  <2>3. bad' \in 0 .. 2 BY <2>1, <2>2
  <2> QED BY <1>4, <2>3 DEF EraseBak, info
<1>14. ASSUME NEW t \in LogThread, CopyBlock(t) PROVE LogNumbers'
  BY <1>14 DEF CopyBlock, info, history
<1>5. ASSUME NEW t \in LogThread, EraseLog(t) PROVE LogNumbers'
  BY <1>5 DEF EraseLog, info, history
<1>6. ASSUME NEW t \in LogThread, EraseRest(t) PROVE LogNumbers'
  BY <1>6 DEF EraseRest, info, history
<1>7. ASSUME NEW t \in LogThread, NoteLength(t) PROVE LogNumbers'
  BY <1>7 DEF NoteLength, info, history
<1>8. ASSUME NEW t \in LogThread, EraseInfo(t) PROVE LogNumbers'
  BY <1>8 DEF EraseInfo, info, history
<1>9. ASSUME NEW t \in LogThread, WriteInfo(t) PROVE LogNumbers'
  <2>1. noted[t] \in Nat BY <1>9 DEF LogLines
  <2> QED BY <1>9, <2>1 DEF WriteInfo, history
<1>10. ASSUME NEW t \in LogThread, ResetLength(t) PROVE LogNumbers'
  BY <1>10 DEF ResetLength, info, history
<1>11. ASSUME FindLength PROVE LogNumbers'
  <2>1. FoundLength \in Nat BY FoundSome
  <2> QED BY <1>11, <2>1 DEF FindLength, info, history
<1>12. ASSUME ClearAll PROVE LogNumbers'
  BY <1>12 DEF ClearAll, info, history
<1>13. ASSUME PowerFails PROVE LogNumbers'
  <2>1. Max({bad, 1}) \in 0 .. 2 BY MaxWithOne
  <2>2. bad' \in {2, bad, Max({bad, 1})} BY <1>13, Zenon DEF PowerFails, Undone
  <2>3. bad' \in 0 .. 2 BY <2>1, <2>2
  <2>4. PICK n \in 0 .. MaxLine: savedBytes' = savedBytes + n BY <1>13 DEF PowerFails
  <2>5. len' = 0 /\ UNCHANGED <<bakLen, savedBase>> BY <1>13 DEF PowerFails, info
  <2> QED BY <2>3, <2>4, <2>5
<1> QED
  BY <1>1, <1>2, <1>3, <1>4, <1>5, <1>6, <1>7, <1>8, <1>9, <1>10, <1>11, <1>12, <1>13,
     <1>14
     DEF LogNext, CopyLog

LEMMA LogBooleansKept ==
  ASSUME LogBooleans, [LogNext]_logVars
  PROVE  LogBooleans'
<1> USE DEF LogBooleans
<1>1. CASE UNCHANGED logVars
  BY <1>1 DEF logVars
<1>2. ASSUME NEW t \in Saver, Write(t) PROVE LogBooleans'
  BY <1>2, Zenon DEF Write, info, history
<1>3. ASSUME NEW t \in Saver, NEW n \in 1 .. MaxLine, Save(t, n) PROVE LogBooleans'
  BY <1>3 DEF Save, info, history
<1>4. ASSUME NEW t \in LogThread, EraseBak(t) PROVE LogBooleans'
  BY <1>4, Zenon DEF EraseBak, info
<1>14. ASSUME NEW t \in LogThread, CopyBlock(t) PROVE LogBooleans'
  BY <1>14 DEF CopyBlock, info, history
<1>5. ASSUME NEW t \in LogThread, EraseLog(t) PROVE LogBooleans'
  BY <1>5 DEF EraseLog, info, history
<1>6. ASSUME NEW t \in LogThread, EraseRest(t) PROVE LogBooleans'
  BY <1>6 DEF EraseRest, info, history
<1>7. ASSUME NEW t \in LogThread, NoteLength(t) PROVE LogBooleans'
  BY <1>7 DEF NoteLength, info, history
<1>8. ASSUME NEW t \in LogThread, EraseInfo(t) PROVE LogBooleans'
  BY <1>8 DEF EraseInfo, info, history
<1>9. ASSUME NEW t \in LogThread, WriteInfo(t) PROVE LogBooleans'
  BY <1>9 DEF WriteInfo, info, history
<1>10. ASSUME NEW t \in LogThread, ResetLength(t) PROVE LogBooleans'
  BY <1>10 DEF ResetLength, info, history
<1>11. ASSUME FindLength PROVE LogBooleans'
  BY <1>11 DEF FindLength, info, history
<1>12. ASSUME ClearAll PROVE LogBooleans'
  BY <1>12 DEF ClearAll, info, history
<1>13. ASSUME PowerFails PROVE LogBooleans'
  BY <1>13 DEF PowerFails, info, history
<1> QED
  BY <1>1, <1>2, <1>3, <1>4, <1>5, <1>6, <1>7, <1>8, <1>9, <1>10, <1>11, <1>12, <1>13,
     <1>14
     DEF LogNext, CopyLog

LEMMA FailuresKept ==
  ASSUME failures \in 0 .. MaxFailures, [LogNext]_logVars
  PROVE  failures' \in 0 .. MaxFailures
<1> USE LogConstants
<1>1. CASE UNCHANGED logVars
  BY <1>1 DEF logVars
<1>2. ASSUME NEW t \in Saver, Write(t) PROVE failures' \in 0 .. MaxFailures
  BY <1>2 DEF Write, info, history
<1>3. ASSUME NEW t \in Saver, NEW n \in 1 .. MaxLine, Save(t, n) PROVE failures' \in 0 .. MaxFailures
  BY <1>3 DEF Save, info, history
<1>4. ASSUME NEW t \in LogThread, EraseBak(t) PROVE failures' \in 0 .. MaxFailures
  BY <1>4 DEF EraseBak, info, history
<1>14. ASSUME NEW t \in LogThread, CopyBlock(t) PROVE failures' \in 0 .. MaxFailures
  BY <1>14 DEF CopyBlock, info, history
<1>5. ASSUME NEW t \in LogThread, EraseLog(t) PROVE failures' \in 0 .. MaxFailures
  BY <1>5 DEF EraseLog, info, history
<1>6. ASSUME NEW t \in LogThread, EraseRest(t) PROVE failures' \in 0 .. MaxFailures
  BY <1>6 DEF EraseRest, info, history
<1>7. ASSUME NEW t \in LogThread, NoteLength(t) PROVE failures' \in 0 .. MaxFailures
  BY <1>7 DEF NoteLength, info, history
<1>8. ASSUME NEW t \in LogThread, EraseInfo(t) PROVE failures' \in 0 .. MaxFailures
  BY <1>8 DEF EraseInfo, info, history
<1>9. ASSUME NEW t \in LogThread, WriteInfo(t) PROVE failures' \in 0 .. MaxFailures
  BY <1>9 DEF WriteInfo, info, history
<1>10. ASSUME NEW t \in LogThread, ResetLength(t) PROVE failures' \in 0 .. MaxFailures
  BY <1>10 DEF ResetLength, info, history
<1>11. ASSUME FindLength PROVE failures' \in 0 .. MaxFailures
  BY <1>11 DEF FindLength, info, history
<1>12. ASSUME ClearAll PROVE failures' \in 0 .. MaxFailures
  BY <1>12 DEF ClearAll, info, history
<1>13. ASSUME PowerFails PROVE failures' \in 0 .. MaxFailures
  BY <1>13 DEF PowerFails, info, history
<1> QED
  BY <1>1, <1>2, <1>3, <1>4, <1>5, <1>6, <1>7, <1>8, <1>9, <1>10, <1>11, <1>12, <1>13,
     <1>14
     DEF LogNext, CopyLog

(* What the areas hold after a write at the end of the log.                *)
LEMMA NothingWritten ==
  ASSUME NEW a \in Nat, LogCells
  PROVE  Written(a, 0) = flash
<1>1. flash = [c \in DOMAIN flash |-> flash[c]] BY DEF LogCells
<1>2. \A c \in DOMAIN flash: c \notin a .. a + 0 - 1
  <2>1. a .. a + 0 - 1 = {} OBVIOUS
  <2> QED BY <2>1
<1>3. Written(a, 0) = [c \in DOMAIN flash |-> flash[c]] BY <1>2, Zenon DEF Written
<1> QED BY <1>1, <1>3

LEMMA LogGrows ==
  ASSUME NEW n \in Nat, NEW more \in Nat, LogTyped, LogGood(n), n + more < LogSize,
         flash' = Written(n, more), savedBytes' = savedBytes + more,
         UNCHANGED <<bakLen, savedBase, bad>>
  PROVE  LogGood(n + more)'
<1> USE LogConstants DEF LogArea, BakArea
<1>1. ASSUME NEW c \in LogArea \cup BakArea
      PROVE  flash'[c] = IF c \notin n .. n + more - 1 THEN flash[c]
                         ELSE IF flash[c] = Blank THEN savedBytes + (c - n) + 1 ELSE Garbled
      BY DEF Written, LogTyped, LogCells
<1>2. savedBytes \in Nat /\ bakLen \in Nat /\ savedBase \in Nat
      BY DEF LogTyped, LogNumbers
<1>3. LogHolds(n) BY DEF LogGood
<1>4. LogHolds(n + more)'
  <2>1. n <= savedBytes BY <1>3 DEF LogHolds
  <2>2. n + more <= savedBytes + more BY <1>2, <2>1
  <2>3. ASSUME NEW c \in LogArea
        PROVE  flash'[c] = IF c < n + more THEN (savedBytes + more) - (n + more) + c + 1 ELSE Blank
    <3>1. flash[c] = IF c < n THEN savedBytes - n + c + 1 ELSE Blank BY <1>3 DEF LogHolds
    <3>2. CASE c < n
      <4>1. flash'[c] = flash[c] BY <1>1, <3>2
      <4>2. flash'[c] = savedBytes - n + c + 1 BY <3>1, <3>2, <4>1
      <4>3. savedBytes - n + c + 1 = (savedBytes + more) - (n + more) + c + 1 BY <1>2
      <4>4. c < n + more BY <3>2
      <4> QED BY <4>2, <4>3, <4>4
    <3>3. CASE c >= n /\ c < n + more
      <4>1. c \in n .. n + more - 1 /\ flash[c] = Blank BY <3>1, <3>3
      <4>2. flash'[c] = savedBytes + (c - n) + 1 BY <1>1, <4>1
      <4> QED BY <1>2, <3>3, <4>2
    <3>4. CASE c >= n + more
      <4>1. c \notin n .. n + more - 1 /\ flash[c] = Blank BY <3>1, <3>4
      <4>2. flash'[c] = Blank BY <1>1, <4>1
      <4> QED BY <3>4, <4>2
    <3> QED BY <3>2, <3>3, <3>4
  <2> QED BY <2>2, <2>3 DEF LogHolds
<1>5. ASSUME BakHolds(bakLen, n) PROVE BakHolds(bakLen, n + more)'
  <2>1. bakLen' <= LogSize BY <1>5 DEF BakHolds
  <2>2. ASSUME NEW c \in 0 .. bakLen - 1
        PROVE  flash'[LogSize + c] = (savedBytes + more) - (n + more) - bakLen + c + 1
    <3>1. LogSize + c \in BakArea /\ LogSize + c \notin n .. n + more - 1
          BY <1>2, <1>5 DEF BakHolds
    <3>2. flash'[LogSize + c] = flash[LogSize + c] BY <1>1, <3>1
    <3>3. flash'[LogSize + c] = savedBytes - n - bakLen + c + 1 BY <1>5, <3>2 DEF BakHolds
    <3> QED BY <1>2, <3>3
  <2> QED BY <2>1, <2>2 DEF BakHolds
<1>6. InTime(bakLen, n) => InTime(bakLen, n + more)' BY <1>2 DEF InTime
<1> QED BY <1>4, <1>5, <1>6 DEF LogGood

(* A step that changes nothing of what is told.                            *)
LEMMA TheSame ==
  ASSUME UNCHANGED <<flash, flag, bakLen, len, noted, savedBytes, savedBase, bad, copyAlone>>,
         \A t \in LogThread: (Copying(t)' <=> Copying(t)) /\ (Copying(t) => logPc'[t] = logPc[t]),
         logPc'["boot"] = logPc["boot"],
         LogAlone, LogScanned, LogRests, LogCopied
  PROVE  LogAlone' /\ LogScanned' /\ LogRests' /\ LogCopied'
<1> USE LogThreads
<1>1. \A n \in Nat: LogGood(n)' <=> LogGood(n)
      BY DEF LogGood, LogHolds, BakHolds, InTime
<1>2. LogGood(len)' <=> LogGood(len) BY DEF LogGood, LogHolds, BakHolds, InTime
<1>3. LogErased' <=> LogErased BY DEF LogErased
<1>4. LogQuiet' <=> LogQuiet BY DEF LogQuiet, LogFound
<1>5. \A t \in LogThread: Copying(t) => (CopyGood(t)' <=> CopyGood(t))
      BY DEF CopyGood, Copied, LogHolds, BakHolds, InTime
<1>6. \A t \in LogThread: InfoNext(t)' => InfoNext(t)
      BY DEF InfoNext, Copying, CopySteps
<1>7. LogAlone' BY <1>3, <1>6 DEF LogAlone, OneCopy
<1>8. LogScanned' BY <1>1 DEF LogScanned
<1>9. LogRests' BY <1>2, <1>4 DEF LogRests
<1>10. LogCopied' BY <1>5 DEF LogCopied
<1> QED BY <1>7, <1>8, <1>9, <1>10

(* A step of a copy, to another step of it.                                *)
LEMMA CopyGoesOn ==
  ASSUME NEW t \in LogThread, NEW p \in CopySteps \ {"copy"},
         LogPcs, LogPlaces, LogAlone, LogCopied, Copying(t), LogTo(t, p),
         UNCHANGED <<bad, copyAlone>>,
         OneCopy => (p \in {"note", "erase info", "write info", "reset"} => LogErased'),
         bad < 2 /\ CopyGood(t) => CopyGood(t)'
  PROVE  LogAlone' /\ LogScanned' /\ LogRests' /\ LogCopied'
<1> USE LogThreads
<1>1. \A u \in LogThread: logPc'[u] = IF u = t THEN p ELSE logPc[u] BY DEF LogTo, LogPcs
<1>2. \A u \in LogThread: Copying(u)' <=> Copying(u) BY <1>1 DEF Copying
<1>3. Copying(t)' BY <1>2
<1>4. logPc'["boot"] # "scan"
  <2>1. CASE t = "boot" BY <1>1, <2>1 DEF CopySteps
  <2>2. CASE t # "boot"
    <3>1. logPc[t] # "idle" BY DEF Copying, CopySteps
    <3>2. LogFound BY <2>2, <3>1 DEF LogPlaces
    <3> QED BY <1>1, <2>2, <3>2 DEF LogFound
  <2> QED BY <2>1, <2>2
<1>5. LogScanned' BY <1>4 DEF LogScanned
<1>6. LogRests' BY <1>3 DEF LogRests, LogQuiet
<1>7. LogAlone'
  <2>1. SUFFICES ASSUME OneCopy PROVE OneCopy' BY DEF LogAlone
  <2>2. \A u \in LogThread: Copying(u) => u = t BY <2>1 DEF OneCopy
  <2>3. ASSUME NEW u \in LogThread, InfoNext(u)' PROVE LogErased'
    <3>1. Copying(u)' BY <2>3 DEF InfoNext, Copying, CopySteps
    <3>2. u = t BY <1>2, <2>2, <3>1
    <3> QED BY <1>1, <2>1, <2>3, <3>2 DEF InfoNext
  <2> QED BY <1>2, <2>2, <2>3 DEF OneCopy
<1>8. LogCopied'
  <2>1. SUFFICES ASSUME bad < 2, NEW u \in LogThread, Copying(u)' PROVE CopyGood(u)'
        BY DEF LogCopied
  <2>2. u = t BY <1>2, <2>1 DEF LogAlone, OneCopy
  <2>3. CopyGood(t) BY <2>1 DEF LogCopied
  <2> QED BY <2>1, <2>2, <2>3
<1> QED BY <1>5, <1>6, <1>7, <1>8

LogRest == LogAlone /\ LogScanned /\ LogRests /\ LogCopied

LEMMA PlacesKept ==
  ASSUME LogCells, LogPcs, LogNumbers, LogPlaces, LogScanned, [LogNext]_logVars
  PROVE  LogPlaces'
<1> USE LogThreads DEF LogPlaces, LogFound, LogPcs, LogTo
<1>1. CASE UNCHANGED logVars
  BY <1>1 DEF logVars
<1>2. ASSUME NEW t \in Saver, Write(t) PROVE LogPlaces'
  BY <1>2 DEF Write, info, history
<1>3. ASSUME NEW t \in Saver, NEW n \in 1 .. MaxLine, Save(t, n) PROVE LogPlaces'
  BY <1>3 DEF Save, info, history
<1>4. ASSUME NEW t \in LogThread, EraseBak(t) PROVE LogPlaces'
  <2>1. ASSUME bad = 2 PROVE bad' = 2
    <3>1. Max({bad, 1}) = 2 BY <2>1, MaxWithOne
    <3>2. bad' \in {2, bad, Max({bad, 1})} BY <1>4, Zenon DEF EraseBak
    <3> QED BY <2>1, <3>1, <3>2
  <2> QED BY <1>4, <2>1 DEF EraseBak
<1>14. ASSUME NEW t \in LogThread, CopyBlock(t) PROVE LogPlaces'
  BY <1>14 DEF CopyBlock, info, history
<1>5. ASSUME NEW t \in LogThread, EraseLog(t) PROVE LogPlaces'
  BY <1>5 DEF EraseLog, info, history
<1>6. ASSUME NEW t \in LogThread, EraseRest(t) PROVE LogPlaces'
  BY <1>6 DEF EraseRest, info, history
<1>7. ASSUME NEW t \in LogThread, NoteLength(t) PROVE LogPlaces'
  BY <1>7 DEF NoteLength, info, history
<1>8. ASSUME NEW t \in LogThread, EraseInfo(t) PROVE LogPlaces'
  BY <1>8 DEF EraseInfo, info, history
<1>9. ASSUME NEW t \in LogThread, WriteInfo(t) PROVE LogPlaces'
  BY <1>9 DEF WriteInfo, info, history
<1>10. ASSUME NEW t \in LogThread, ResetLength(t) PROVE LogPlaces'
  BY <1>10 DEF ResetLength, info, history
<1>11. ASSUME FindLength PROVE LogPlaces'
  <2>1. \A u \in Saver: logPc'[u] = logPc[u] BY <1>11 DEF FindLength
  <2>2. CASE bad < 2
    <3>1. PICK n \in Nat: LogGood(n) BY <1>11, <2>2 DEF FindLength, LogScanned
    <3>2. FoundLength = n /\ n < LogSize BY <3>1, FoundTrue DEF LogGood, LogHolds, LogNumbers
    <3>3. logPc' = [logPc EXCEPT !["boot"] = "done"] BY <1>11, <3>2 DEF FindLength
    <3> QED BY <2>1, <3>3
  <2>3. CASE ~(bad < 2)
    <3>1. bad' = 2 BY <1>11, <2>3 DEF FindLength, history, LogNumbers
    <3>2. logPc' \in {[logPc EXCEPT !["boot"] = "done"], [logPc EXCEPT !["boot"] = "copy"]}
          BY <1>11 DEF FindLength
    <3>3. \A u \in Saver: logPc[u] = "idle" BY <1>11 DEF FindLength
    <3> QED BY <2>1, <3>1, <3>2, <3>3
  <2> QED BY <2>2, <2>3
<1>12. ASSUME ClearAll PROVE LogPlaces'
  BY <1>12 DEF ClearAll, info, history
<1>13. ASSUME PowerFails PROVE LogPlaces'
  BY <1>13 DEF PowerFails, info, history
<1> QED
  BY <1>1, <1>2, <1>3, <1>4, <1>5, <1>6, <1>7, <1>8, <1>9, <1>10, <1>11, <1>12, <1>13,
     <1>14
     DEF LogNext, CopyLog

(* The steps of the threads that save.                                     *)
LEMMA RestSave ==
  ASSUME NEW t \in Saver, NEW n \in 1 .. MaxLine, LogPcs, LogRest, Save(t, n)
  PROVE  LogRest'
<1>1. \A u \in LogThread: logPc'[u] = IF u = t THEN logPc'[t] ELSE logPc[u]
      BY LogThreads DEF Save, LogTo, LogPcs
<1>2. logPc[t] = "idle" /\ logPc'[t] \in {"write", "copy"}
      BY LogThreads DEF Save, LogTo, LogPcs
<1>3. \A u \in LogThread: (Copying(u)' <=> Copying(u)) /\ (Copying(u) => logPc'[u] = logPc[u])
      BY <1>1, <1>2 DEF Copying, CopySteps
<1>4. UNCHANGED <<flash, flag, bakLen, len, noted, savedBytes, savedBase, bad, copyAlone>>
      BY DEF Save, info, history
<1>5. logPc'["boot"] = logPc["boot"] BY <1>1, LogThreads
<1> QED BY <1>3, <1>4, <1>5, TheSame DEF LogRest

LEMMA RestWrite ==
  ASSUME NEW t \in Saver, LogTyped, LogPlaces, LogRest, Write(t)
  PROVE  LogRest'
<1> USE LogThreads
<1>1. logPc[t] = "write" /\ LogTo(t, "idle") BY DEF Write
<1>2. \A u \in LogThread: logPc'[u] = IF u = t THEN "idle" ELSE logPc[u]
      BY <1>1 DEF LogTo, LogTyped, LogPcs
<1>3. \A u \in LogThread: Copying(u)' <=> Copying(u) BY <1>1, <1>2 DEF Copying, CopySteps
<1>4. LogFound /\ LogFound' BY <1>1, <1>2 DEF LogPlaces, LogFound
<1>5. LogScanned' BY <1>4 DEF LogScanned, LogFound
<1>6. CASE SomeoneElseCopies(t) \/ ~Fits(line[t])
  <2>1. bad' = 2 BY <1>6, Zenon DEF Write
  <2>2. copyAlone' = FALSE BY <1>6, Zenon DEF Write
  <2>3. ~(bad' < 2) BY <2>1
  <2> QED BY <1>5, <2>2, <2>3 DEF LogRest, LogAlone, LogRests, LogCopied
<1>7. CASE ~SomeoneElseCopies(t) /\ Fits(line[t])
  <2>1. bad' = bad BY <1>7, Zenon DEF Write
  <2>2. \A u \in LogThread: ~Copying(u)
        BY <1>1, <1>7 DEF SomeoneElseCopies, Copying, CopySteps
  <2>3. \A u \in LogThread: ~InfoNext(u)'
        BY <1>3, <2>2 DEF InfoNext, Copying, CopySteps
  <2>4. LogAlone' BY <1>3, <2>2, <2>3 DEF LogAlone, OneCopy
  <2>5. LogCopied' BY <1>3, <2>2 DEF LogCopied
  <2>6. ASSUME bad < 2 PROVE LogGood(len)'
    <3>1. LogGood(len) BY <1>4, <2>2, <2>6 DEF LogRest, LogRests, LogQuiet
    <3>2. len \in Nat /\ line[t] \in Nat BY LogSizes DEF LogTyped, LogNumbers, LogLines
    <3>3. PICK n \in Nat, more \in Nat: n = len /\ more = line[t] BY <3>2
    <3>4. /\ n + more < LogSize /\ flash' = Written(n, more) /\ savedBytes' = savedBytes + more
          /\ len' = n + more /\ UNCHANGED <<bakLen, savedBase>>
          BY <1>7, <3>3 DEF Write, Fits, info
    <3>5. LogGood(n + more)' BY <2>1, <3>1, <3>3, <3>4, LogGrows
    <3> QED BY <3>4, <3>5 DEF LogGood, LogHolds, BakHolds, InTime
  <2>7. LogRests' BY <2>1, <2>6 DEF LogRests
  <2> QED BY <1>5, <2>4, <2>5, <2>7 DEF LogRest
<1> QED BY <1>6, <1>7

(* A copy begins: the backup is erased.                                    *)
LEMMA RestErasesBak ==
  ASSUME NEW t \in LogThread, LogTyped, LogPlaces, LogRest, EraseBak(t)
  PROVE  LogRest'
<1> USE LogThreads
<1>1. logPc[t] = "copy" /\ LogTo(t, "copy block") BY DEF EraseBak
<1>2. \A u \in LogThread: logPc'[u] = IF u = t THEN "copy block" ELSE logPc[u]
      BY <1>1 DEF LogTo, LogTyped, LogPcs
<1>3. Copying(t)' /\ \A u \in LogThread: u # t => (Copying(u)' <=> Copying(u))
      BY <1>1, <1>2 DEF Copying, CopySteps
<1>4. LogRests' BY <1>3 DEF LogRests, LogQuiet
<1>5. LogScanned'
  <2>1. CASE t = "boot" BY <1>2, <2>1 DEF LogScanned
  <2>2. CASE t # "boot" BY <1>1, <1>2, <2>2 DEF LogScanned, LogPlaces, LogFound
  <2> QED BY <2>1, <2>2
<1>6. CASE SomeoneElseCopies(t)
  <2>1. bad' = 2 BY <1>6, Zenon DEF EraseBak
  <2>2. copyAlone' = FALSE BY <1>6, Zenon DEF EraseBak
  <2>3. ~(bad' < 2) BY <2>1
  <2> QED BY <1>4, <1>5, <2>2, <2>3 DEF LogRest, LogAlone, LogCopied
<1>7. CASE ~SomeoneElseCopies(t)
  <2>1. \A u \in LogThread: ~Copying(u)
        BY <1>1, <1>7 DEF SomeoneElseCopies, Copying, CopySteps
  <2>2. \A u \in LogThread: Copying(u)' => u = t BY <1>3, <2>1
  <2>3. \A u \in LogThread: ~InfoNext(u)'
        BY <1>2, <2>2 DEF InfoNext, Copying, CopySteps
  <2>4. LogAlone' BY <2>2, <2>3 DEF LogAlone, OneCopy
  <2>5. ASSUME bad' < 2 PROVE CopyGood(t)'
    <3>1. bad' = (IF copyAlone' THEN bad ELSE Max({bad, 1})) BY <1>7, Zenon DEF EraseBak
    <3>2. bad \in 0 .. 2 /\ Max({bad, 1}) = IF bad = 0 THEN 1 ELSE bad
          BY MaxWithOne DEF LogTyped, LogNumbers
    <3>3. bad < 2 /\ (bad' = 0 => copyAlone')
      <4>1. CASE copyAlone'
        <5>1. bad' = bad BY <3>1, <4>1, Zenon
        <5> QED BY <2>5, <4>1, <5>1
      <4>2. CASE ~copyAlone'
        <5>1. bad' = Max({bad, 1}) BY <3>1, <4>2, Zenon
        <5> QED BY <2>5, <3>2, <5>1
      <4> QED BY <4>1, <4>2
    <3>4. t # "boot"
      <4>1. bad # 2 BY <3>3
      <4> QED BY <1>1, <4>1, Zenon DEF LogPlaces
    <3>5. LogGood(len) BY <1>1, <2>1, <3>3, <3>4 DEF LogRest, LogRests, LogQuiet, LogPlaces
    <3>6. /\ UNCHANGED <<len, savedBytes, savedBase>> /\ flash' = WithErased(BakArea)
          /\ copyAlone' => ~Fits(line[t])
          BY <3>4 DEF EraseBak
    <3>7. len \in Nat /\ savedBytes \in Nat /\ LogHolds(len) /\ line[t] \in 0 .. MaxLine
          BY <3>4, <3>5 DEF LogGood, LogTyped, LogNumbers, LogLines
    <3>8. \A c \in LogArea: flash'[c] = flash[c] /\ flash'[LogSize + c] = Blank
      <4>1. TAKE c \in LogArea
      <4>2. /\ c \in DOMAIN flash /\ c \notin BakArea /\ LogSize + c \in DOMAIN flash
            /\ LogSize + c \in BakArea
            BY LogSizes DEF LogArea, BakArea, LogTyped, LogCells
      <4> QED BY <3>6, <4>2 DEF WithErased
    <3>9. LogHolds(len)' BY <3>6, <3>7, <3>8 DEF LogHolds
    <3>10. noted'[t] = 0 /\ Copied(noted[t])'
      <4>1. noted'[t] = 0 BY DEF EraseBak, LogTyped, LogLines
      <4>2. \A c \in LogArea: ~(c < 0) BY DEF LogArea
      <4> QED BY <3>8, <4>1, <4>2 DEF Copied
    <3>11. copyAlone' => InTime(len, 0)' BY <3>6, <3>7, LogSizes DEF InTime, Fits
    <3>12. len' < LogSize /\ len' <= savedBytes' BY <3>6, <3>7 DEF LogHolds
    <3> QED BY <1>2, <3>3, <3>9, <3>10, <3>11, <3>12 DEF CopyGood
  <2>6. LogCopied' BY <2>2, <2>5 DEF LogCopied
  <2> QED BY <1>4, <1>5, <2>4, <2>6 DEF LogRest
<1> QED BY <1>6, <1>7

(* Block by block the log is copied.                                       *)
LEMMA RestCopies ==
  ASSUME NEW t \in LogThread, LogTyped, LogPlaces, LogRest, CopyBlock(t)
  PROVE  LogRest'
<1> USE LogThreads
<1> DEFINE end == noted[t] + Block
<1>1. PICK p: /\ p \in {"copy block", "erase log"} /\ LogTo(t, p)
              /\ p = IF end < LogSize THEN "copy block" ELSE "erase log"
      BY DEF CopyBlock
<1>2. Copying(t) /\ p \in CopySteps \ {"copy"} /\ logPc[t] = "copy block"
      BY <1>1 DEF CopyBlock, Copying, CopySteps
<1>3. UNCHANGED <<flag, bakLen, len, savedBytes, savedBase, bad, copyAlone>>
      BY DEF CopyBlock, info, history
<1>4. logPc'[t] = p BY <1>1 DEF LogTo, LogTyped, LogPcs
<1>5. noted[t] \in Nat /\ end \in Nat /\ noted'[t] = IF end < LogSize THEN end ELSE 0
  <2>1. noted[t] \in Nat /\ noted \in [LogThread -> Nat] BY DEF LogTyped, LogLines
  <2>2. noted' = [noted EXCEPT ![t] = IF end < LogSize THEN end ELSE 0] BY DEF CopyBlock
  <2>3. end \in Nat BY <2>1, LogConstants
  <2> QED BY <2>1, <2>2, <2>3
<1>6. ASSUME NEW c \in LogArea
      PROVE  /\ flash'[c] = flash[c]
             /\ flash'[LogSize + c] = IF c \in noted[t] .. end - 1 THEN flash[c]
                                      ELSE flash[LogSize + c]
  <2>1. /\ c \in DOMAIN flash /\ c \notin BakArea /\ LogSize + c \in DOMAIN flash
        /\ LogSize + c \in BakArea /\ (LogSize + c) - LogSize = c
        BY LogSizes DEF LogArea, BakArea, LogTyped, LogCells
  <2> QED BY <2>1 DEF CopyBlock
<1> HIDE DEF end
<1>7. ASSUME bad < 2, CopyGood(t) PROVE CopyGood(t)'
  <2>1. Copied(noted[t]) /\ LogHolds(len) BY <1>2, <1>7 DEF CopyGood
  <2>2. \A c \in LogArea: flash'[LogSize + c] = IF c < end THEN flash[c] ELSE Blank
    <3>1. TAKE c \in LogArea
    <3>2. c \in Nat BY LogSizes DEF LogArea
    <3>3. flash[LogSize + c] = IF c < noted[t] THEN flash[c] ELSE Blank BY <2>1 DEF Copied
    <3>4. end = noted[t] + Block BY DEF end
    <3> QED BY <1>5, <1>6, <3>2, <3>3, <3>4, LogConstants
  <2>3. LogHolds(len)' BY <1>3, <1>6, <2>1 DEF LogHolds
  <2>4. ASSUME p = "copy block" PROVE Copied(noted[t])'
    <3>1. noted'[t] = end BY <1>1, <1>5, <2>4
    <3> QED BY <1>6, <2>2, <3>1 DEF Copied
  <2>5. ASSUME p = "erase log" PROVE BakHolds(len, 0)'
    <3>1. ~(end < LogSize) BY <1>1, <2>5
    <3>2. len \in Nat /\ len < LogSize /\ savedBytes \in Nat
          BY <2>1 DEF LogHolds, LogTyped, LogNumbers
    <3>3. ASSUME NEW c \in 0 .. len - 1
          PROVE  flash'[LogSize + c] = savedBytes - 0 - len + c + 1
      <4>1. c \in LogArea /\ c < end BY <1>5, <3>1, <3>2, LogSizes DEF LogArea
      <4>2. c < len BY <3>2
      <4>3. flash[c] = savedBytes - len + c + 1 BY <2>1, <4>1, <4>2 DEF LogHolds
      <4>4. flash'[LogSize + c] = flash[c] BY <2>2, <4>1
      <4>5. savedBytes - 0 - len + c + 1 = savedBytes - len + c + 1 BY <3>2
      <4> QED BY <4>3, <4>4, <4>5
    <3> QED BY <1>3, <3>2, <3>3, LogSizes DEF BakHolds
  <2>6. IF logPc'[t] = "copy block" THEN Copied(noted[t])' ELSE BakHolds(len, 0)'
        BY <1>1, <1>4, <2>4, <2>5
  <2>7. copyAlone' => InTime(len, 0)' BY <1>3, <1>7 DEF CopyGood, InTime
  <2>8. logPc'[t] \in {"copy block", "erase log"} BY <1>1, <1>4
  <2>9. len' < LogSize /\ len' <= savedBytes' /\ (bad' = 0 => copyAlone')
        BY <1>3, <1>7 DEF CopyGood
  <2> QED BY <2>3, <2>6, <2>7, <2>8, <2>9 DEF CopyGood
<1> QED BY <1>1, <1>2, <1>3, <1>7, CopyGoesOn DEF LogRest, LogTyped

(* Then it is erased, in two steps.                                        *)
LEMMA RestErases ==
  ASSUME NEW t \in LogThread, LogTyped, LogPlaces, LogRest, EraseLog(t) \/ EraseRest(t)
  PROVE  LogRest'
<1> USE LogThreads
<1>1. PICK p \in {"erase rest", "note"}:
         /\ LogTo(t, p) /\ (p = "note" => EraseRest(t))
         /\ logPc[t] = IF p = "note" THEN "erase rest" ELSE "erase log"
      BY DEF EraseLog, EraseRest
<1>2. Copying(t) /\ p \in CopySteps \ {"copy"} BY <1>1 DEF Copying, CopySteps
<1>3. UNCHANGED <<flag, bakLen, len, noted, savedBytes, savedBase, bad, copyAlone>>
      BY DEF EraseLog, EraseRest, info, history
<1>4. ASSUME p = "note" PROVE LogErased'
      BY <1>1, <1>4 DEF EraseRest, WithErased, LogErased, LogTyped, LogCells, LogArea
<1>5. \A c \in LogArea: flash'[LogSize + c] = flash[LogSize + c]
  <2>1. TAKE c \in LogArea
  <2>2. PICK cells \in {PageAt(0), LogArea}: flash' = WithErased(cells)
        BY DEF EraseLog, EraseRest
  <2>3. LogSize + c \in BakArea /\ LogSize + c \notin LogArea /\ LogSize + c \notin PageAt(0)
        BY BakCell
  <2>4. LogSize + c \in DOMAIN flash BY <2>3 DEF LogTyped, LogCells
  <2> QED BY <2>2, <2>3, <2>4 DEF WithErased
<1>6. ASSUME bad < 2, CopyGood(t) PROVE CopyGood(t)'
  <2>1. BakHolds(len, 0)'
    <3>1. len \in Nat /\ len < LogSize BY <1>6 DEF LogTyped, LogNumbers, CopyGood
    <3>2. \A c \in 0 .. len - 1: c \in LogArea BY <3>1, CellsBefore
    <3>3. BakHolds(len, 0) BY <1>1, <1>6 DEF CopyGood
    <3>4. \A c \in 0 .. len - 1: flash'[LogSize + c] = flash[LogSize + c] BY <1>5, <3>2
    <3> QED BY <1>3, <3>3, <3>4 DEF BakHolds
  <2>2. logPc'[t] \in {"erase rest", "note"} BY <1>1 DEF LogTo, LogTyped, LogPcs
  <2>3. copyAlone' => InTime(len, 0)' BY <1>3, <1>6 DEF CopyGood, InTime
  <2> QED BY <1>3, <1>6, <2>1, <2>2, <2>3 DEF CopyGood
<1> QED BY <1>1, <1>2, <1>3, <1>4, <1>6, CopyGoesOn DEF LogRest, LogTyped

(* What is kept about the backup is noted.                                 *)
LEMMA RestNotes ==
  ASSUME NEW t \in LogThread, LogTyped, LogPlaces, LogRest,
         NoteLength(t) \/ EraseInfo(t) \/ WriteInfo(t)
  PROVE  LogRest'
<1> USE LogThreads
<1>1. PICK p \in {"erase info", "write info", "reset"}:
         /\ LogTo(t, p)
         /\ p = "erase info" => NoteLength(t) /\ logPc[t] = "note"
         /\ p = "write info" => EraseInfo(t) /\ logPc[t] = "erase info"
         /\ p = "reset" => WriteInfo(t) /\ logPc[t] = "write info"
      BY DEF NoteLength, EraseInfo, WriteInfo
<1>2. Copying(t) /\ InfoNext(t) /\ p \in CopySteps \ {"copy"}
      BY <1>1 DEF Copying, InfoNext, CopySteps
<1>3. UNCHANGED <<flash, len, savedBytes, savedBase, bad, copyAlone>>
      BY DEF NoteLength, EraseInfo, WriteInfo, history
<1>4. OneCopy => LogErased' BY <1>2, <1>3 DEF OneCopy, LogErased
<1>5. ASSUME bad < 2, CopyGood(t) PROVE CopyGood(t)'
  <2>1. BakHolds(len, 0)' /\ (copyAlone' => InTime(len, 0)')
        BY <1>2, <1>3, <1>5 DEF InfoNext, CopyGood, BakHolds, InTime
  <2>2. logPc'[t] = p BY <1>1 DEF LogTo, LogTyped, LogPcs
  <2>3. noted'[t] = len'
        BY <1>1, <1>3, <1>5
           DEF CopyGood, NoteLength, EraseInfo, WriteInfo, LogTyped, LogLines
  <2>4. p = "write info" => ~flag' BY <1>1 DEF EraseInfo
  <2>5. p = "reset" => bakLen' = len' BY <1>1, <1>3, <1>5 DEF WriteInfo, CopyGood
  <2> QED BY <1>3, <1>5, <2>1, <2>2, <2>3, <2>4, <2>5 DEF CopyGood
<1> QED BY <1>1, <1>2, <1>3, <1>4, <1>5, CopyGoesOn DEF LogRest, LogTyped

(* And the copy ends with the length set back.                             *)
LEMMA RestReset ==
  ASSUME NEW t \in LogThread, LogTyped, LogPlaces, LogRest, ResetLength(t)
  PROVE  LogRest'
<1> USE LogThreads
<1>1. PICK p \in {"done", "write"}: logPc' = [logPc EXCEPT ![t] = p]
      BY DEF ResetLength, LogTo
<1>2. \A u \in LogThread: logPc'[u] = IF u = t THEN p ELSE logPc[u]
      BY <1>1 DEF LogTyped, LogPcs
<1>3. logPc[t] = "reset" /\ Copying(t) /\ InfoNext(t) BY DEF ResetLength, Copying, InfoNext, CopySteps
<1>4. ~Copying(t)' /\ \A u \in LogThread: u # t => (Copying(u)' <=> Copying(u))
      BY <1>2 DEF Copying, CopySteps
<1>5. logPc'["boot"] # "scan"
      BY <1>2, <1>3 DEF LogPlaces, LogFound
<1>6. LogScanned' BY <1>5 DEF LogScanned
<1>7. /\ len' = 0 /\ UNCHANGED <<flash, flag, bakLen, noted, savedBytes, savedBase, copyAlone>>
      /\ bad' = (IF copyAlone /\ bad > 0 THEN bad - 1 ELSE bad)
      BY DEF ResetLength, info
<1>8. bad' < 2 \/ copyAlone' => OneCopy
  <2>1. bad \in 0 .. 2 BY DEF LogTyped, LogNumbers
  <2>2. bad' < 2 => bad < 2 \/ copyAlone
    <3>1. CASE copyAlone BY <3>1
    <3>2. CASE ~copyAlone BY <1>7, <3>2
    <3> QED BY <3>1, <3>2
  <2> QED BY <1>7, <2>2 DEF LogRest, LogAlone
<1>9. ASSUME OneCopy PROVE \A u \in LogThread: ~Copying(u)'
      BY <1>3, <1>4, <1>9 DEF OneCopy
<1>10. ASSUME OneCopy PROVE \A u \in LogThread: ~InfoNext(u)'
       BY <1>9, <1>10 DEF InfoNext, Copying, CopySteps
<1>11. LogAlone' BY <1>8, <1>9, <1>10 DEF LogAlone, OneCopy
<1>12. LogCopied' BY <1>8, <1>9 DEF LogCopied
<1>13. ASSUME bad' < 2 PROVE LogGood(len)'
  <2>1. OneCopy BY <1>8, <1>13
  <2>2. LogErased BY <1>3, <2>1 DEF OneCopy
  <2>3. savedBytes \in Nat /\ bad \in 0 .. 2 /\ bakLen \in Nat /\ savedBase \in Nat
        BY DEF LogTyped, LogNumbers
  <2>4. LogHolds(len)' BY <1>7, <2>2, <2>3, LogSizes DEF LogHolds, LogErased, LogArea
  <2>5. ASSUME bad' = 0 PROVE BakHolds(bakLen, len)' /\ InTime(bakLen, len)'
    <3>1. bad < 2 /\ (copyAlone \/ bad = 0)
      <4>1. CASE copyAlone /\ bad > 0
        <5>1. bad' = bad - 1 BY <1>7, <4>1, Zenon
        <5> QED BY <2>3, <2>5, <4>1, <5>1
      <4>2. CASE ~(copyAlone /\ bad > 0)
        <5>1. bad' = bad BY <1>7, <4>2, Zenon
        <5> QED BY <2>3, <2>5, <5>1
      <4> QED BY <4>1, <4>2
    <3>2. CopyGood(t) BY <1>3, <3>1 DEF LogRest, LogCopied
    <3>3. bakLen = len /\ BakHolds(len, 0) /\ InTime(len, 0)
          BY <1>3, <3>1, <3>2 DEF CopyGood
    <3> QED BY <1>7, <2>3, <3>3 DEF BakHolds, InTime
  <2> QED BY <2>4, <2>5 DEF LogGood
<1>14. LogRests' BY <1>13 DEF LogRests
<1> QED BY <1>6, <1>11, <1>12, <1>14 DEF LogRest

(* A reset, and a power failure.                                           *)
LEMMA RestFinds ==
  ASSUME LogTyped, LogPlaces, LogRest, FindLength
  PROVE  LogRest'
<1> USE LogThreads
<1>1. logPc["boot"] = "scan" /\ flag /\ \A u \in Saver: logPc[u] = "idle"
      BY DEF FindLength, LogPlaces, LogFound
<1>2. PICK p \in {"done", "copy"}: logPc' = [logPc EXCEPT !["boot"] = p]
      BY DEF FindLength, LogTo
<1>3. \A u \in LogThread: logPc'[u] = IF u = "boot" THEN p ELSE "idle"
      BY <1>1, <1>2 DEF LogTyped, LogPcs
<1>4. \A u \in LogThread: ~Copying(u)' /\ ~InfoNext(u)'
      BY <1>3 DEF Copying, InfoNext, CopySteps
<1>5. LogAlone' /\ LogCopied' BY <1>4 DEF LogAlone, LogCopied, OneCopy
<1>6. LogScanned' BY <1>3 DEF LogScanned
<1>7. UNCHANGED <<flash, flag, bakLen, savedBytes, savedBase, bad>>
      BY DEF FindLength, info, history
<1>8. ASSUME bad < 2 PROVE LogGood(len)'
  <2>1. PICK n \in Nat: LogGood(n) BY <1>1, <1>8 DEF LogRest, LogScanned
  <2>2. FoundLength = n /\ n < LogSize
        BY <2>1, FoundTrue DEF LogGood, LogHolds, LogTyped, LogNumbers
  <2>3. len' = n BY <2>2 DEF FindLength
  <2> QED BY <1>7, <2>1, <2>3 DEF LogGood, LogHolds, BakHolds, InTime
<1>9. LogRests' BY <1>7, <1>8 DEF LogRests
<1> QED BY <1>5, <1>6, <1>9 DEF LogRest

LEMMA RestClears ==
  ASSUME LogTyped, LogPlaces, LogRest, ClearAll
  PROVE  LogRest'
<1> USE LogThreads
<1>1. logPc["boot"] = "scan" /\ len = 0 /\ \A u \in Saver: logPc[u] = "idle"
      BY DEF ClearAll, LogPlaces, LogFound
<1>2. \A u \in LogThread: logPc'[u] = IF u = "boot" THEN "note" ELSE "idle"
      BY <1>1 DEF ClearAll, LogTo, LogTyped, LogPcs
<1>3. \A u \in LogThread: Copying(u)' <=> u = "boot" BY <1>2 DEF Copying, CopySteps
<1>4. LogErased' BY DEF ClearAll, WithErased, LogErased, LogTyped, LogCells
<1>5. LogAlone' BY <1>3, <1>4 DEF LogAlone, OneCopy
<1>6. LogScanned' BY <1>2 DEF LogScanned
<1>7. LogRests' BY <1>2 DEF LogRests, LogQuiet, LogFound
<1>8. CopyGood("boot")'
  <2>1. len' = 0 /\ savedBytes' = savedBytes /\ savedBase' = savedBytes /\ copyAlone'
        BY <1>1 DEF ClearAll
  <2>2. savedBytes \in Nat BY DEF LogTyped, LogNumbers
  <2>3. BakHolds(len, 0)'
    <3>1. 0 <= LogSize /\ 0 .. 0 - 1 = {} BY LogSizes
    <3> QED BY <2>1, <3>1 DEF BakHolds
  <2>4. InTime(len, 0)' BY <2>1, <2>2 DEF InTime
  <2>5. logPc'["boot"] = "note" BY <1>2
  <2>6. len' < LogSize /\ len' <= savedBytes' BY <2>1, <2>2, LogSizes
  <2> QED BY <2>1, <2>3, <2>4, <2>5, <2>6 DEF CopyGood
<1>9. LogCopied' BY <1>3, <1>8 DEF LogCopied
<1> QED BY <1>5, <1>6, <1>7, <1>9 DEF LogRest

LEMMA RestFails ==
  ASSUME LogTyped, LogPlaces, LogRest, PowerFails
  PROVE  LogRest'
<1> USE LogThreads
<1>1. logPc' = [t \in LogThread |-> IF t = "boot" THEN "scan" ELSE "idle"] BY DEF PowerFails
<1>2. \A u \in LogThread: ~Copying(u)' /\ ~InfoNext(u)'
      BY <1>1 DEF Copying, InfoNext, CopySteps
<1>3. LogAlone' /\ LogCopied' BY <1>2 DEF LogAlone, LogCopied, OneCopy
<1>4. LogRests' BY <1>1 DEF LogRests, LogQuiet, LogFound
<1>5. PICK more \in 0 .. MaxLine:
         /\ more # 0 => \E t \in Saver: /\ logPc[t] = "write" /\ mutex = Free
                                     /\ more < line[t] /\ Fits(line[t]) /\ ~SomeoneElseCopies(t)
         /\ flash' = Written(len, more) /\ savedBytes' = savedBytes + more
      BY DEF PowerFails
<1>6. UNCHANGED <<flag, bakLen, savedBase>> /\ bad' = Undone BY DEF PowerFails, info
<1>7. /\ len \in Nat /\ savedBytes \in Nat /\ bad \in 0 .. 2 /\ bakLen \in Nat
      /\ savedBase \in Nat /\ line \in [Saver -> 0 .. MaxLine]
      BY DEF LogTyped, LogNumbers, LogLines
<1>8. Max({bad, 1}) = (IF bad = 0 THEN 1 ELSE bad) /\ Max({bad, 1}) # 0
  <2>1. PICK n \in 0 .. 2: n = bad BY <1>7
  <2>2. Max({n, 1}) = IF n = 0 THEN 1 ELSE n BY MaxWithOne
  <2> QED BY <2>1, <2>2
<1>9. Undone < 2 => bad < 2 /\ (Undone # bad => Undone = 1)
  <2>1. Undone \in {2, bad, Max({bad, 1})} BY Zenon DEF Undone
  <2>2. Max({bad, 1}) < 2 => bad < 2 /\ Max({bad, 1}) = 1 BY <1>7, <1>8
  <2> QED BY <1>7, <2>1, <2>2
<1>10. ASSUME more = 0 PROVE UNCHANGED <<flash, savedBytes>>
       BY <1>5, <1>7, <1>10, NothingWritten DEF LogTyped
<1>11. SUFFICES ASSUME Undone < 2, flag PROVE \E n \in Nat: LogGood(n)'
       BY <1>3, <1>4, <1>6 DEF LogRest, LogScanned
<1>12. bad < 2 BY <1>9, <1>11
<1>13. CASE \E t \in LogThread: Copying(t)
  <2>1. PICK t \in LogThread: Copying(t) BY <1>13
  <2>2. CopyGood(t) /\ OneCopy BY <1>12, <2>1 DEF LogRest, LogCopied, LogAlone
  <2>3. more = 0
    <3>1. SUFFICES ASSUME more # 0 PROVE FALSE OBVIOUS
    <3>2. PICK u \in Saver: logPc[u] = "write" /\ ~SomeoneElseCopies(u) BY <1>5, <3>1
    <3> QED BY <2>1, <3>2 DEF SomeoneElseCopies, Copying, CopySteps
  <2>4. UNCHANGED <<flash, savedBytes>> BY <1>10, <2>3
  <2>5. CASE logPc[t] \in {"copy block", "erase log"}
    <3>1. LogHolds(len) BY <2>2, <2>5 DEF CopyGood
    <3>2. Undone = Max({bad, 1})
      <4>1. \A u \in LogThread: logPc[u] # "erase rest"
            BY <2>1, <2>2, <2>5 DEF OneCopy, Copying, CopySteps
      <4>2. Copying(t) /\ logPc[t] \notin {"write info", "reset"} BY <2>1, <2>5
      <4> QED BY <4>1, <4>2, Zenon DEF Undone
    <3>3. bad' # 0 BY <1>6, <1>8, <3>2
    <3>4. PICK n \in Nat: n = len BY <1>7
    <3>5. LogHolds(n)' BY <2>4, <3>1, <3>4 DEF LogHolds
    <3> QED BY <3>3, <3>5 DEF LogGood
  <2>6. CASE logPc[t] = "erase rest"
    <3>1. Undone = 2 BY <2>6, Zenon DEF Undone
    <3> QED BY <1>11, <3>1
  <2>7. CASE InfoNext(t)
    <3>1. LogErased BY <2>2, <2>7 DEF OneCopy
    <3>2. LogHolds(0)' BY <1>7, <2>4, <3>1, LogSizes DEF LogHolds, LogErased, LogArea
    <3>3. ASSUME bad' = 0 PROVE BakHolds(bakLen, 0)' /\ InTime(bakLen, 0)'
      <4>1. logPc[t] \in {"write info", "reset"}
        <5>1. SUFFICES ASSUME logPc[t] \notin {"write info", "reset"} PROVE FALSE OBVIOUS
        <5>2. \A u \in LogThread: logPc[u] # "erase rest"
              BY <2>1, <2>2, <2>7 DEF OneCopy, Copying, CopySteps, InfoNext
        <5>3. Undone = Max({bad, 1}) BY <2>1, <5>1, <5>2, Zenon DEF Undone
        <5> QED BY <1>6, <1>8, <3>3, <5>3
      <4>2. logPc[t] = "reset" BY <1>11, <2>2, <4>1 DEF CopyGood
      <4>3. bad = 0 BY <1>7, <1>9, <1>6, <1>11, <3>3
      <4>4. bakLen = len /\ BakHolds(len, 0) /\ InTime(len, 0)
            BY <2>2, <4>2, <4>3 DEF CopyGood
      <4> QED BY <1>6, <2>4, <4>4 DEF BakHolds, InTime
    <3>4. LogGood(0)' BY <3>2, <3>3 DEF LogGood
    <3> QED BY <3>4
  <2> QED BY <2>1, <2>5, <2>6, <2>7 DEF Copying, InfoNext, CopySteps
<1>14. CASE \A t \in LogThread: ~Copying(t)
  <2>1. bad' = bad
    <3>1. \A t \in LogThread: logPc[t] # "erase rest" BY <1>14 DEF Copying, CopySteps
    <3> QED BY <1>6, <1>14, <3>1, Zenon DEF Undone
  <2>2. PICK n \in Nat: LogGood(n) /\ (n = len \/ more = 0)
    <3>1. CASE LogFound
      <4>1. LogGood(len) BY <1>12, <1>14, <3>1 DEF LogRest, LogRests, LogQuiet
      <4> QED BY <1>7, <4>1
    <3>2. CASE ~LogFound
      <4>1. logPc["boot"] = "scan"
        <5>1. logPc["boot"] \in CopySteps \cup {"idle", "write", "scan", "done"}
              BY DEF LogTyped, LogPcs
        <5>2. logPc["boot"] \notin CopySteps \ {"copy"} BY <1>14 DEF Copying
        <5>3. logPc["boot"] \notin {"idle", "write", "copy"} BY <1>12 DEF LogPlaces
        <5> QED BY <3>2, <5>1, <5>2, <5>3 DEF LogFound
      <4>2. PICK n \in Nat: LogGood(n) BY <1>11, <1>12, <4>1 DEF LogRest, LogScanned
      <4>3. more = 0 BY <1>5, <3>2 DEF LogPlaces
      <4> QED BY <4>2, <4>3
    <3> QED BY <3>1, <3>2
  <2>3. CASE more = 0
    <3>1. UNCHANGED <<flash, savedBytes>> BY <1>10, <2>3
    <3>2. LogGood(n)' BY <1>6, <2>1, <2>2, <3>1 DEF LogGood, LogHolds, BakHolds, InTime
    <3> QED BY <3>2
  <2>4. CASE more # 0
    <3>1. PICK t \in Saver: more < line[t] /\ Fits(line[t]) BY <1>5, <2>4
    <3>2. n = len /\ n + more < LogSize
      <4>1. line[t] \in Nat BY <1>7, LogSizes
      <4> QED BY <1>7, <2>2, <2>4, <3>1, <4>1, LogSizes DEF Fits
    <3>3. flash' = Written(n, more) BY <1>5, <3>2
    <3>4. LogGood(n + more)' BY <1>5, <1>6, <2>1, <2>2, <3>2, <3>3, LogGrows
    <3> QED BY <3>4
  <2> QED BY <2>3, <2>4
<1> QED BY <1>13, <1>14

LEMMA RestKept ==
  ASSUME LogTyped, LogPlaces, LogRest, [LogNext]_logVars
  PROVE  LogRest'
<1>1. CASE UNCHANGED logVars
  <2>1. /\ UNCHANGED <<flash, flag, bakLen, len, noted, savedBytes, savedBase, bad, copyAlone>>
        /\ UNCHANGED logPc
        BY <1>1 DEF logVars
  <2>2. \A t \in LogThread: (Copying(t)' <=> Copying(t)) /\ (Copying(t) => logPc'[t] = logPc[t])
        BY <2>1 DEF Copying
  <2>3. logPc'["boot"] = logPc["boot"] BY <2>1
  <2> QED BY <2>1, <2>2, <2>3, TheSame DEF LogRest
<1>2. ASSUME NEW t \in Saver, Write(t) PROVE LogRest' BY <1>2, RestWrite
<1>3. ASSUME NEW t \in Saver, NEW n \in 1 .. MaxLine, Save(t, n) PROVE LogRest'
      BY <1>3, RestSave DEF LogTyped
<1>4. ASSUME NEW t \in LogThread, CopyLog(t) PROVE LogRest'
  <2>1. CASE EraseBak(t) BY <2>1, RestErasesBak
  <2>5. CASE CopyBlock(t) BY <2>5, RestCopies
  <2>2. CASE EraseLog(t) \/ EraseRest(t) BY <2>2, RestErases
  <2>3. CASE NoteLength(t) \/ EraseInfo(t) \/ WriteInfo(t) BY <2>3, RestNotes
  <2>4. CASE ResetLength(t) BY <2>4, RestReset
  <2> QED BY <1>4, <2>1, <2>2, <2>3, <2>4, <2>5 DEF CopyLog
<1>5. CASE FindLength BY <1>5, RestFinds
<1>6. CASE ClearAll BY <1>6, RestClears
<1>7. CASE PowerFails BY <1>7, RestFails
<1> QED BY <1>1, <1>2, <1>3, <1>4, <1>5, <1>6, <1>7 DEF LogNext

LEMMA LogStarted == LogInit => LogIInv
<1> SUFFICES ASSUME LogInit PROVE LogIInv OBVIOUS
<1> USE LogThreads DEF LogInit
<1>1. LogCells BY DEF LogCells, Blank
<1>2. LogPcs /\ LogMutex BY DEF LogPcs, LogMutex, Free
<1>3. LogLines BY LogSizes DEF LogLines
<1>4. LogNumbers BY DEF LogNumbers
<1>5. LogBooleans /\ failures \in 0 .. MaxFailures
  <2>1. LogBooleans BY Zenon DEF LogBooleans
  <2> QED BY <2>1, LogSizes
<1>6. LogTypes BY <1>1, <1>2, <1>3, <1>4, <1>5, LogTypesAre DEF LogTyped
<1>7. LogPlaces BY DEF LogPlaces, LogFound
<1>8. \A u \in LogThread: ~Copying(u) /\ ~InfoNext(u) BY DEF Copying, InfoNext, CopySteps
<1>9. LogAlone /\ LogCopied BY <1>8 DEF LogAlone, LogCopied, OneCopy
<1>10. LogScanned /\ LogRests BY DEF LogScanned, LogRests, LogQuiet, LogFound
<1> QED BY <1>6, <1>7, <1>9, <1>10 DEF LogIInv

LEMMA LogKept == LogIInv /\ [LogNext]_logVars => LogIInv'
<1> SUFFICES ASSUME LogIInv, [LogNext]_logVars PROVE LogIInv' OBVIOUS
<1>1. LogTyped /\ LogPlaces /\ LogRest BY LogTypesAre DEF LogIInv, LogRest
<1>2. /\ LogCells /\ LogPcs /\ LogMutex /\ LogLines /\ LogNumbers /\ LogBooleans
      /\ failures \in 0 .. MaxFailures /\ LogScanned
      BY <1>1 DEF LogTyped, LogRest
<1>3. LogCells' BY <1>2, LogCellsKept
<1>4. LogPcs' BY <1>2, LogPcsKept
<1>5. LogMutex' BY <1>2, LogMutexKept
<1>6. LogLines' BY <1>2, LogLinesKept
<1>7. LogNumbers' BY <1>2, LogNumbersKept
<1>8. LogBooleans' BY <1>2, LogBooleansKept
<1>9. failures' \in 0 .. MaxFailures BY <1>2, FailuresKept
<1>10. LogTypes'
  <2>1. LogTyped' BY <1>3, <1>4, <1>5, <1>6, <1>7, <1>8, <1>9 DEF LogTyped
  <2> QED BY <2>1, LogTypesAre, PTL
<1>11. LogPlaces' BY <1>1, <1>2, PlacesKept
<1>12. LogRest' BY <1>1, RestKept
<1> QED BY <1>10, <1>11, <1>12 DEF LogIInv, LogRest

(* While no copy is being made, the log holds what was saved last and the   *)
(* backup what was saved before that, without a hole: also after a power    *)
(* failure at any step of a copy.  What two threads or half an erasure      *)
(* spoilt is good again after two copies that nothing disturbed.            *)
THEOREM LogCorrect == LogSpec => []LogInv
<1>1. LogIInv => LogInv
  <2> SUFFICES ASSUME LogIInv PROVE LogInv OBVIOUS
  <2>1. bakLen \in Nat /\ savedBytes \in Nat /\ len \in Nat /\ savedBase \in Nat
        BY LogTypesAre DEF LogIInv, LogTyped, LogNumbers
  <2>2. ASSUME LogQuiet, bad < 2 PROVE LogGood(len) BY <2>2 DEF LogIInv, LogRests
  <2>3. LogGood(len) => LogTrue BY DEF LogGood, LogHolds, LogTrue
  <2>4. LogGood(len) /\ bad = 0 => BakTrue BY DEF LogGood, BakHolds, BakTrue
  <2>5. LogGood(len) /\ bad = 0 => NothingEarly BY DEF LogGood, InTime, NothingEarly
  <2>6. bad = 0 => bad < 2 OBVIOUS
  <2> QED BY <2>2, <2>3, <2>4, <2>5, <2>6 DEF LogIInv, LogInv
<1> QED BY <1>1, LogStarted, LogKept, PTL DEF LogSpec
-----------------------------------------------------------------------------
(***************************************************************************)
(* The products.  What is said of the pins is a matter of the tables only;   *)
(* and a behaviour of a product, seen from one of its parts, is a behaviour  *)
(* of that part, so that what was proved of it holds in the product.         *)
(***************************************************************************)
PinsApart(p) ==
    LET pins == Pins[p]
    IN  /\ \A f, g \in DOMAIN pins: f # g => pins[f] # pins[g]
        /\ \A f \in DOMAIN pins: pins[f] \notin ModulePins[p]
PinsAble(p) ==
    LET pins == Pins[p]
    IN  /\ \A f \in DOMAIN pins \cap Interrupts: pins[f] \in InterruptPins
        /\ \A f \in DOMAIN pins \cap Modulated: pins[f] \in PwmPins

LEMMA Pins1 == Pins["P1"] = P1Pins /\ PinsApart("P1") /\ PinsAble("P1")
<1>1. Pins["P1"] = P1Pins BY DEF Pins
<1>2. PinsApart("P1") BY <1>1 DEF PinsApart, P1Pins, ModulePins
<1>3. PinsAble("P1")
  BY <1>1 DEF PinsAble, P1Pins, Interrupts, Modulated, InterruptPins, PwmPins
<1> QED BY <1>1, <1>2, <1>3

LEMMA Pins2 == Pins["P2"] = P2Pins /\ PinsApart("P2") /\ PinsAble("P2")
<1>1. Pins["P2"] = P2Pins BY DEF Pins
<1>2. PinsApart("P2") BY <1>1 DEF PinsApart, P2Pins, ModulePins
<1>3. PinsAble("P2")
  BY <1>1 DEF PinsAble, P2Pins, Interrupts, Modulated, InterruptPins, PwmPins
<1> QED BY <1>1, <1>2, <1>3

LEMMA Pins3 == Pins["P3"] = P3Pins /\ PinsApart("P3") /\ PinsAble("P3")
<1>1. Pins["P3"] = P3Pins BY DEF Pins
<1>2. PinsApart("P3") BY <1>1 DEF PinsApart, P3Pins, ModulePins
<1>3. PinsAble("P3")
  BY <1>1 DEF PinsAble, P3Pins, Interrupts, Modulated, InterruptPins, PwmPins
<1> QED BY <1>1, <1>2, <1>3

LEMMA Pins4 == Pins["P4"] = P4Pins /\ PinsApart("P4") /\ PinsAble("P4")
<1>1. Pins["P4"] = P4Pins BY DEF Pins
<1>2. PinsApart("P4") BY <1>1 DEF PinsApart, P4Pins, ModulePins
<1>3. PinsAble("P4")
  BY <1>1 DEF PinsAble, P4Pins, Interrupts, Modulated, InterruptPins, PwmPins
<1> QED BY <1>1, <1>2, <1>3

LEMMA Pins5 == Pins["P5"] = P5Pins /\ PinsApart("P5") /\ PinsAble("P5")
<1>1. Pins["P5"] = P5Pins BY DEF Pins
<1>2. PinsApart("P5") BY <1>1 DEF PinsApart, P5Pins, ModulePins
<1>3. PinsAble("P5")
  BY <1>1 DEF PinsAble, P5Pins, Interrupts, Modulated, InterruptPins, PwmPins
<1> QED BY <1>1, <1>2, <1>3

LEMMA Pins6 == Pins["P6"] = P6Pins /\ PinsApart("P6") /\ PinsAble("P6")
<1>1. Pins["P6"] = P6Pins BY DEF Pins
<1>2. PinsApart("P6") BY <1>1 DEF PinsApart, P6Pins, ModulePins
<1>3. PinsAble("P6")
  BY <1>1 DEF PinsAble, P6Pins, Interrupts, Modulated, InterruptPins, PwmPins
<1> QED BY <1>1, <1>2, <1>3

LEMMA Pins7 == Pins["P7"] = P7Pins /\ PinsApart("P7") /\ PinsAble("P7")
<1>1. Pins["P7"] = P7Pins BY DEF Pins
<1>2. PinsApart("P7") BY <1>1 DEF PinsApart, P7Pins, ModulePins
<1>3. PinsAble("P7")
  BY <1>1 DEF PinsAble, P7Pins, Interrupts, Modulated, InterruptPins, PwmPins
<1> QED BY <1>1, <1>2, <1>3

LEMMA Pins8 == Pins["P8"] = P8Pins /\ PinsApart("P8") /\ PinsAble("P8")
<1>1. Pins["P8"] = P8Pins BY DEF Pins
<1>2. PinsApart("P8") BY <1>1 DEF PinsApart, P8Pins, ModulePins
<1>3. PinsAble("P8")
  BY <1>1 DEF PinsAble, P8Pins, Interrupts, Modulated, InterruptPins, PwmPins
<1> QED BY <1>1, <1>2, <1>3

LEMMA PinsOfProducts == \A p \in Product: PinsApart(p) /\ PinsAble(p)
BY Pins1, Pins2, Pins3, Pins4, Pins5, Pins6, Pins7, Pins8 DEF Product

LEMMA PartsHavePins ==
  \A q \in DOMAIN ProductsWith: \A p \in ProductsWith[q]:
      p \in Product /\ FunctionsOf[q] \subseteq DOMAIN Pins[p]
<1>1. DOMAIN ProductsWith = {"key", "log", "relay", "meter", "factory", "radio", "light", "dimmer",
                             "smartlink", "wifi"}
      BY DEF ProductsWith
<1>2. \A p \in ProductsWith["key"]: p \in Product /\ FunctionsOf["key"] \subseteq DOMAIN Pins[p]
      BY Pins2, Pins3, Pins5, Pins6, Pins7
         DEF ProductsWith, FunctionsOf, Product, P2Pins, P3Pins, P5Pins, P6Pins, P7Pins
<1>3. \A p \in ProductsWith["log"]: p \in Product /\ FunctionsOf["log"] \subseteq DOMAIN Pins[p]
      BY Pins1, Pins2, Pins3, Pins4, Pins5, Pins6, Pins7, Pins8
         DEF ProductsWith, FunctionsOf, Product, P1Pins, P2Pins, P3Pins, P4Pins, P5Pins,
             P6Pins, P7Pins, P8Pins
<1>4. \A p \in ProductsWith["relay"]: p \in Product /\ FunctionsOf["relay"] \subseteq DOMAIN Pins[p]
      BY Pins2 DEF ProductsWith, FunctionsOf, Product, P2Pins
<1>5. \A p \in ProductsWith["meter"]: p \in Product /\ FunctionsOf["meter"] \subseteq DOMAIN Pins[p]
      BY Pins2 DEF ProductsWith, FunctionsOf, Product, P2Pins
<1>6. \A p \in ProductsWith["factory"]: p \in Product /\ FunctionsOf["factory"] \subseteq DOMAIN Pins[p]
      BY Pins2 DEF ProductsWith, FunctionsOf, Product, P2Pins
<1>7. \A p \in ProductsWith["radio"]: p \in Product /\ FunctionsOf["radio"] \subseteq DOMAIN Pins[p]
      BY Pins5 DEF ProductsWith, FunctionsOf, Product, P5Pins
<1>8. \A p \in ProductsWith["light"]: p \in Product /\ FunctionsOf["light"] \subseteq DOMAIN Pins[p]
      BY Pins8 DEF ProductsWith, FunctionsOf, Product, P8Pins
<1>9. \A p \in ProductsWith["dimmer"]: p \in Product /\ FunctionsOf["dimmer"] \subseteq DOMAIN Pins[p]
      BY Pins7 DEF ProductsWith, FunctionsOf, Product, P7Pins
<1>10. \A p \in ProductsWith["smartlink"]: p \in Product /\ FunctionsOf["smartlink"] \subseteq DOMAIN Pins[p]
      BY Pins1, Pins4 DEF ProductsWith, FunctionsOf, Product, P1Pins, P4Pins
<1>11. \A p \in ProductsWith["wifi"]: p \in Product /\ FunctionsOf["wifi"] \subseteq DOMAIN Pins[p]
      BY Pins2, Pins3, Pins5, Pins6, Pins7
         DEF ProductsWith, FunctionsOf, Product, P2Pins, P3Pins, P5Pins, P6Pins, P7Pins
<1> QED BY <1>1, <1>2, <1>3, <1>4, <1>5, <1>6, <1>7, <1>8, <1>9, <1>10, <1>11

LEMMA PinsAlways == part \in DOMAIN ProductsWith => PinsServe
BY PinsOfProducts, PartsHavePins DEF PinsServe, PinsApart, PinsAble

(* Seen from one part, every step of a product is a step of that part.     *)
LEMMA KeyInProduct == ProductsSpec => KeySpec
<1>1. ProductsInit => KeyInit BY DEF ProductsInit
<1>2. [ProductsNext]_productVars => [KeyNext]_keyVars
  BY DEF ProductsNext, TheKey, TheLog, TheRelay, TheMeter, TheFactory, TheRadio, TheLight,
     TheDimmer, TheSmartlink, TheWifi, productVars
<1> QED BY <1>1, <1>2, PTL DEF ProductsSpec, KeySpec

LEMMA LogInProduct == ProductsSpec => LogSpec
<1>1. ProductsInit => LogInit BY DEF ProductsInit
<1>2. [ProductsNext]_productVars => [LogNext]_logVars
  BY DEF ProductsNext, TheKey, TheLog, TheRelay, TheMeter, TheFactory, TheRadio, TheLight,
     TheDimmer, TheSmartlink, TheWifi, productVars
<1> QED BY <1>1, <1>2, PTL DEF ProductsSpec, LogSpec

LEMMA RelayInProduct == ProductsSpec => RelaySpec
<1>1. ProductsInit => RelayInit BY DEF ProductsInit
<1>2. [ProductsNext]_productVars => [RelayNext]_relayVars
  BY DEF ProductsNext, TheKey, TheLog, TheRelay, TheMeter, TheFactory, TheRadio, TheLight,
     TheDimmer, TheSmartlink, TheWifi, productVars
<1> QED BY <1>1, <1>2, PTL DEF ProductsSpec, RelaySpec

LEMMA MeterInProduct == ProductsSpec => MeterSpec
<1>1. ProductsInit => MeterInit BY DEF ProductsInit
<1>2. [ProductsNext]_productVars => [MeterNext]_meterVars
  BY DEF ProductsNext, TheKey, TheLog, TheRelay, TheMeter, TheFactory, TheRadio, TheLight,
     TheDimmer, TheSmartlink, TheWifi, productVars
<1> QED BY <1>1, <1>2, PTL DEF ProductsSpec, MeterSpec

LEMMA FactoryInProduct == ProductsSpec => FactorySpec
<1>1. ProductsInit => FactoryInit BY DEF ProductsInit
<1>2. [ProductsNext]_productVars => [FactoryNext]_factoryVars
  BY DEF ProductsNext, TheKey, TheLog, TheRelay, TheMeter, TheFactory, TheRadio, TheLight,
     TheDimmer, TheSmartlink, TheWifi, productVars
<1> QED BY <1>1, <1>2, PTL DEF ProductsSpec, FactorySpec

LEMMA RadioInProduct == ProductsSpec => RadioSpec
<1>1. ProductsInit => RadioInit BY DEF ProductsInit
<1>2. [ProductsNext]_productVars => [RadioNext]_radioVars
  BY DEF ProductsNext, TheKey, TheLog, TheRelay, TheMeter, TheFactory, TheRadio, TheLight,
     TheDimmer, TheSmartlink, TheWifi, productVars
<1> QED BY <1>1, <1>2, PTL DEF ProductsSpec, RadioSpec

LEMMA LightInProduct == ProductsSpec => LightSpec
<1>1. ProductsInit => LightInit BY DEF ProductsInit
<1>2. [ProductsNext]_productVars => [LightNext]_lightVars
  BY DEF ProductsNext, TheKey, TheLog, TheRelay, TheMeter, TheFactory, TheRadio, TheLight,
     TheDimmer, TheSmartlink, TheWifi, productVars
<1> QED BY <1>1, <1>2, PTL DEF ProductsSpec, LightSpec

LEMMA DimmerInProduct == ProductsSpec => DimmerSpec
<1>1. ProductsInit => DimmerInit BY DEF ProductsInit
<1>2. [ProductsNext]_productVars => [DimmerNext]_dimmerVars
  BY DEF ProductsNext, TheKey, TheLog, TheRelay, TheMeter, TheFactory, TheRadio, TheLight,
     TheDimmer, TheSmartlink, TheWifi, productVars
<1> QED BY <1>1, <1>2, PTL DEF ProductsSpec, DimmerSpec

LEMMA SmartlinkInProduct == ProductsSpec => SmartlinkSpec
<1>1. ProductsInit => SmartlinkInit BY DEF ProductsInit
<1>2. [ProductsNext]_productVars => [SmartlinkNext]_smartlinkVars
  BY DEF ProductsNext, TheKey, TheLog, TheRelay, TheMeter, TheFactory, TheRadio, TheLight,
     TheDimmer, TheSmartlink, TheWifi, productVars
<1> QED BY <1>1, <1>2, PTL DEF ProductsSpec, SmartlinkSpec

LEMMA WifiInProduct == ProductsSpec => WifiSpec
<1>1. ProductsInit => WifiInit BY DEF ProductsInit
<1>2. [ProductsNext]_productVars => [WifiNext]_wifiVars
  BY DEF ProductsNext, TheKey, TheLog, TheRelay, TheMeter, TheFactory, TheRadio, TheLight,
     TheDimmer, TheSmartlink, TheWifi, productVars
<1> QED BY <1>1, <1>2, PTL DEF ProductsSpec, WifiSpec

(* In every product the pins of the part that is followed serve it, and     *)
(* every part is right: what the sources of the products share is proved of *)
(* each of them.                                                            *)
THEOREM ProductsCorrect ==
  ProductsSpec => [](/\ PinsServe /\ KeyInv /\ LogInv /\ RelayInv /\ MeterInv /\ FactoryInv
                     /\ RadioInv /\ LightInv /\ DimmerInv /\ SmartlinkInv /\ WifiInv)
<1>1. ProductsSpec => []PinsServe
  <2>1. ProductsInit => part \in DOMAIN ProductsWith BY DEF ProductsInit
  <2>2. part \in DOMAIN ProductsWith /\ [ProductsNext]_productVars
           => (part \in DOMAIN ProductsWith)'
    BY DEF ProductsNext, TheKey, TheLog, TheRelay, TheMeter, TheFactory, TheRadio, TheLight,
       TheDimmer, TheSmartlink, TheWifi, productVars
  <2> QED BY <2>1, <2>2, PinsAlways, PTL DEF ProductsSpec
<1>2. ProductsSpec => [](KeyInv /\ LogInv /\ RelayInv)
      BY KeyInProduct, LogInProduct, RelayInProduct, KeyCorrect, LogCorrect, RelayCorrect,
         PTL
<1>3. ProductsSpec => [](MeterInv /\ FactoryInv /\ RadioInv)
      BY MeterInProduct, FactoryInProduct, RadioInProduct, MeterCorrect, FactoryCorrect,
         RadioCorrect, PTL
<1>4. ProductsSpec => [](LightInv /\ DimmerInv /\ SmartlinkInv /\ WifiInv)
      BY LightInProduct, DimmerInProduct, SmartlinkInProduct, WifiInProduct, LightCorrect,
         DimmerCorrect, SmartlinkCorrect, WifiCorrect, PTL
<1> QED BY <1>1, <1>2, <1>3, <1>4, PTL

(* What a step of a product may never do: a key that was held long toggles   *)
(* nothing, and a report of the meter is never far from the total.          *)
THEOREM ProductsSteps == ProductsSpec => LongTogglesNothing /\ ReportNear
BY KeyInProduct, MeterInProduct, LongPressesToggleNothing, ReportsNear, PTL
=============================================================================
