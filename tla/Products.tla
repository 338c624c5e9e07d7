------------------------------ MODULE Products ------------------------------
(* The products built from this source.  Each P<n>_Config.h chooses the parts *)
(* a product has, and app_main.c gives their functions pins of the module.    *)
(*                                                                            *)
(* The parts are modelled one by one, each with its own threads, timers and   *)
(* interrupts, and each is followed alone.  No pin serves two functions       *)
(* (PinsServe), but parts do meet in functions and data: the key, the relay   *)
(* and the factory test all work the switch, the meter and the factory test   *)
(* both have the K data, and on P5 the radio lights the LED of the Wi-Fi      *)
(* state.  A part that is followed alone has in it what it needs of that: the *)
(* relay is switched by anyone, at any time, and WifiState has the radio's    *)
(* two accesses to its LED; what else another part may do to it is left out.  *)
EXTENDS Key, FlashLog, Relay, Meter, FactoryTest, Radio, Light, Dimmer, Smartlink, WifiState

VARIABLE part                \* the part that is followed

productVars == <<part, keyVars, logVars, relayVars, meterVars, factoryVars, radioVars,
                 lightVars, dimmerVars, smartlinkVars, wifiVars>>

Product == {"P1", "P2", "P3", "P4", "P5", "P6", "P7", "P8"}
-----------------------------------------------------------------------------
(* The functions a product defines for itself, and the pin of each.           *)
P1Pins == [buzzer |-> 12, switch |-> 11, extraSwitch |-> 18]
(* Mutant of P2Pins: the key is where P3 has it.                              *)
P2PinsKeyOfP3 == [relay1 |-> 18, relay2 |-> 20, switch |-> 23, cf |-> 40, wifiLed |-> 43,
                  relayLed |-> 44, key |-> 30]

P2Pins == [relay1 |-> 18, relay2 |-> 20, switch |-> 23, cf |-> 40, wifiLed |-> 43,
           relayLed |-> 44, key |-> 42]
P3Pins == [key |-> 30, wifiLed |-> 43, switch |-> 44]
P4Pins == [buzzer |-> 12, switch |-> 11, switch2 |-> 39, extraSwitch |-> 18,
           extraSwitch2 |-> 41]
P5Pins == [reset |-> 12, sdo0 |-> 11, sdo1 |-> 20, sdo2 |-> 15, switch |-> 18,
           wifiLed |-> 43, key |-> 42]
P6Pins == [key |-> 12, wifiLed |-> 11, switch |-> 18]
P7Pins == [key |-> 44, wifiLed |-> 43, keyUp |-> 40, keyDown |-> 42, zeroDetecter |-> 27,
           switch |-> 30, led1 |-> 23, led2 |-> 20, led3 |-> 18, led4 |-> 15, led5 |-> 13,
           led6 |-> 12, led7 |-> 11]
P8Pins == [colorTemp |-> 11, ledBrightness |-> 12, brightChange |-> 39, tempChange |-> 41]

Pins == [P1 |-> P1Pins, P2 |-> P2Pins, P3 |-> P3Pins, P4 |-> P4Pins,
         P5 |-> P5Pins, P6 |-> P6Pins, P7 |-> P7Pins, P8 |-> P8Pins]

(* The pins left to the module: JTAG, UART0, SPI, reload, sleep and WPS.      *)
ModulePins ==
    [P1 |-> {2, 3, 4, 5, 27, 28, 29, 30, 39, 40, 41, 42, 45},
     P2 |-> {2, 5, 7, 8, 15, 27, 28, 29, 30, 39, 41, 45},
     P3 |-> {2, 5, 7, 8, 15, 27, 28, 29, 39, 40, 41, 42, 45},
     P4 |-> {2, 3, 4, 5, 27, 28, 29, 30, 40, 42, 45},
     P5 |-> {2, 5, 7, 8, 27, 28, 29, 30, 39, 40, 41, 44, 45},
     P6 |-> {2, 3, 4, 5, 27, 28, 29, 30, 39, 40, 41, 42, 45},
     P7 |-> {2, 5, 7, 8, 28, 29, 39, 41, 45},
     P8 |-> {2, 3, 4, 5, 18, 27, 28, 29, 30, 40, 42, 45}]

(* What the pins of the module can do.                                        *)
InterruptPins == {7, 8, 11, 12, 13, 15, 18, 20, 23, 27, 28, 29, 30, 39, 40, 41, 42, 43,
                  44, 45}
PwmPins == {11, 12, 18, 20, 23}

(* The functions that interrupt, and those driven with a pulse width.         *)
Interrupts == {"key", "cf", "keyUp", "keyDown", "zeroDetecter", "sdo2", "brightChange",
               "tempChange"}
Modulated == {"buzzer", "colorTemp", "ledBrightness"}

(* The products that have a part, and the functions the part uses.            *)
ProductsWith ==
    [key |-> {"P2", "P3", "P5", "P6", "P7"}, log |-> Product, relay |-> {"P2"},
     meter |-> {"P2"}, factory |-> {"P2"}, radio |-> {"P5"}, light |-> {"P8"},
     dimmer |-> {"P7"}, smartlink |-> {"P1", "P4"}, wifi |-> {"P2", "P3", "P5", "P6", "P7"}]

FunctionsOf ==
    [key |-> {"key", "switch"}, log |-> {}, relay |-> {"relay1", "relay2", "switch", "relayLed"},
     meter |-> {"cf"}, factory |-> {"switch", "wifiLed"},
     radio |-> {"reset", "sdo0", "sdo1", "sdo2", "wifiLed"},
     light |-> {"colorTemp", "ledBrightness", "brightChange", "tempChange"},
     dimmer |-> {"keyUp", "keyDown", "zeroDetecter", "switch", "led1", "led2", "led3",
                 "led4", "led5", "led6", "led7"},
     smartlink |-> {"buzzer"}, wifi |-> {"wifiLed"}]
-----------------------------------------------------------------------------
(* A part that is not followed stays in one of its first states.              *)
Unfollowed ==
    /\ part # "key" => ~smartlink /\ ~pin
    /\ part # "relay" => ~latch
    /\ part # "factory" => load = 0
    /\ part # "dimmer" => zeroLeft = 0
    /\ part # "smartlink" => ~locked
    /\ part # "wifi" => ~led

ProductsInit ==
    /\ part \in DOMAIN ProductsWith
    /\ KeyInit /\ LogInit /\ RelayInit /\ MeterInit /\ FactoryInit /\ RadioInit /\ LightInit
    /\ DimmerInit /\ SmartlinkInit /\ WifiInit
    /\ Unfollowed

TheKey == /\ part = "key" /\ KeyNext
          /\ UNCHANGED <<part, logVars, relayVars, meterVars, factoryVars, radioVars,
                         lightVars, dimmerVars, smartlinkVars, wifiVars>>

TheLog == /\ part = "log" /\ LogNext
          /\ UNCHANGED <<part, keyVars, relayVars, meterVars, factoryVars, radioVars,
                         lightVars, dimmerVars, smartlinkVars, wifiVars>>

TheRelay == /\ part = "relay" /\ RelayNext
            /\ UNCHANGED <<part, keyVars, logVars, meterVars, factoryVars, radioVars,
                           lightVars, dimmerVars, smartlinkVars, wifiVars>>

TheMeter == /\ part = "meter" /\ MeterNext
            /\ UNCHANGED <<part, keyVars, logVars, relayVars, factoryVars, radioVars,
                           lightVars, dimmerVars, smartlinkVars, wifiVars>>

TheFactory == /\ part = "factory" /\ FactoryNext
              /\ UNCHANGED <<part, keyVars, logVars, relayVars, meterVars, radioVars,
                             lightVars, dimmerVars, smartlinkVars, wifiVars>>

TheRadio == /\ part = "radio" /\ RadioNext
            /\ UNCHANGED <<part, keyVars, logVars, relayVars, meterVars, factoryVars,
                           lightVars, dimmerVars, smartlinkVars, wifiVars>>

TheLight == /\ part = "light" /\ LightNext
            /\ UNCHANGED <<part, keyVars, logVars, relayVars, meterVars, factoryVars,
                           radioVars, dimmerVars, smartlinkVars, wifiVars>>

TheDimmer == /\ part = "dimmer" /\ DimmerNext
             /\ UNCHANGED <<part, keyVars, logVars, relayVars, meterVars, factoryVars,
                            radioVars, lightVars, smartlinkVars, wifiVars>>

TheSmartlink == /\ part = "smartlink" /\ SmartlinkNext
                /\ UNCHANGED <<part, keyVars, logVars, relayVars, meterVars, factoryVars,
                               radioVars, lightVars, dimmerVars, wifiVars>>

TheWifi == /\ part = "wifi" /\ WifiNext
           /\ UNCHANGED <<part, keyVars, logVars, relayVars, meterVars, factoryVars,
                          radioVars, lightVars, dimmerVars, smartlinkVars>>

ProductsNext == \/ TheKey \/ TheLog \/ TheRelay \/ TheMeter \/ TheFactory \/ TheRadio
                \/ TheLight \/ TheDimmer \/ TheSmartlink \/ TheWifi

(* The fairness of WifiState, where the network is followed.                  *)
WifiFairness ==
    /\ WF_wifiVars(part = "wifi" /\ WifiThread)
    /\ SF_wifiVars(part = "wifi" /\ Expire)
    /\ \A t \in ByteWriter:
          WF_wifiVars(part = "wifi" /\ (LedCallback(t) \/ Closed(t) \/ Other(t)))

ProductsSpec == ProductsInit /\ [][ProductsNext]_productVars /\ WifiFairness
-----------------------------------------------------------------------------
(* In each product that has the part that is followed, its functions have     *)
(* pins; no pin serves two functions, or a function and the module; and a     *)
(* function that interrupts, or is driven with a pulse width, has a pin that  *)
(* can.                                                                       *)
PinsServe ==
    \A p \in ProductsWith[part]:
        LET pins == Pins[p]
        IN  /\ FunctionsOf[part] \subseteq DOMAIN pins
            /\ \A f, g \in DOMAIN pins: f # g => pins[f] # pins[g]
            /\ \A f \in DOMAIN pins: pins[f] \notin ModulePins[p]
            /\ \A f \in DOMAIN pins \cap Interrupts: pins[f] \in InterruptPins
            /\ \A f \in DOMAIN pins \cap Modulated: pins[f] \in PwmPins

(* Where the network is followed: without it the LED changes again and again. *)
LedBlinks == part = "wifi" => Blinks
=============================================================================
