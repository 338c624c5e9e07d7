------------------------------ MODULE WifiState ------------------------------
(***************************************************************************)
(* What the Wi-Fi events change: the flags of connInfo and the Wi-Fi LED.   *)
(*                                                                          *)
(* The flags are bits of one byte, and setDeviceConnectInfo reads, changes  *)
(* and writes that byte in the thread that calls it: the one the Wi-Fi      *)
(* events come in, the TCP thread, the message thread (an answer of the     *)
(* balance server), or the timer thread (heartbeat timeout).                *)
(* The LED is toggled by a one-shot timer that its own callback sets again; *)
(* the Wi-Fi thread stops that timer, or calls the callback itself.  On P5   *)
(* the 433 MHz gateway shows a study with the same LED.                     *)
(***************************************************************************)
EXTENDS Naturals

CONSTANTS MaxWifiChanges    \* bound: times the Wi-Fi comes or goes

ASSUME WifiStateAssumption == MaxWifiChanges \in Nat

VARIABLES byte,     \* connInfo: the flags dhcpOK and serverConn
          loaded,   \* what each thread has read of it before it writes it, then
                    \* forgotten
          wifiPc,       \* where each thread is
          wifi,     \* the network is there
          wifiTold,     \* the device was told of the last change
          led,      \* the LED shines
          ledTimer,    \* wifiLedTimer runs
          studyLit, \* the gateway has lit the LED and not put it out since
          wifiChanges,
          byteLost,     \* history: a write undid what another thread had written
          rearmed   \* history: the timer was stopped while its callback, which sets
                  \* it again, had begun

wifiVars == <<byte, loaded, wifiPc, wifi, wifiTold, led, ledTimer, studyLit,
              wifiChanges, byteLost, rearmed>>
network == <<wifi, wifiTold, wifiChanges>>
light == <<led, ledTimer, studyLit, rearmed>>

ByteWriter == {"wifi", "tcp", "timer", "msg"}
OfWifi == {"set dhcp", "stop timer", "led off", "clear dhcp", "read again", "clear conn"}
OfLed == {"toggle", "rearm"}
OfTcp == {"connecting", "connected"}
Places == {"idle", "closed", "other"} \cup OfWifi \cup OfLed \cup OfTcp
Byte == [dhcp: BOOLEAN, conn: BOOLEAN]
AllClear == [dhcp |-> FALSE, conn |-> FALSE]

(* The last access of its kind is done: thread t goes on at p.              *)
WifiTo(t, p) == wifiPc' = [wifiPc EXCEPT ![t] = p]

(* setDeviceConnectInfo: the byte is read ...                               *)
Load(t) == loaded' = [loaded EXCEPT ![t] = byte]

(* Mutant of Store: serverConn is written over the whole byte.              *)
StoreWhole(t, flag, value) ==
    /\ byte' = [AllClear EXCEPT ![flag] = value]
    /\ byteLost' = (byteLost \/ byte # loaded[t])
    /\ loaded' = [loaded EXCEPT ![t] = AllClear]

(* ... and written with one flag changed.                                   *)
Store(t, flag, value) ==
    /\ byte' = [loaded[t] EXCEPT ![flag] = value]
    /\ byteLost' = (byteLost \/ byte # loaded[t])
    /\ loaded' = [loaded EXCEPT ![t] = AllClear]

AtRest(t) == wifiPc[t] = "idle"
Calling(t) == wifiPc[t] \in {"toggle", "rearm"}    \* wifiLedTimerCallback

-----------------------------------------------------------------------------
(* The Wi-Fi thread.                                                        *)

(* The network comes or goes; the vendor's library calls back when it can.  *)
Change ==
    /\ wifiChanges < MaxWifiChanges /\ wifiTold
    /\ wifiChanges' = wifiChanges + 1
    /\ wifi' = ~wifi /\ wifiTold' = FALSE
    /\ UNCHANGED <<byte, loaded, wifiPc, light, byteLost>>

(* HFE_DHCP_OK: setFlagAfterDhcp, which looks at the flag first.            *)
DhcpOk ==
    /\ AtRest("wifi") /\ wifi /\ ~wifiTold
    /\ wifiTold' = TRUE
    /\ IF byte.dhcp THEN UNCHANGED <<wifiPc, loaded>>
                    ELSE WifiTo("wifi", "set dhcp") /\ Load("wifi")
    /\ UNCHANGED <<byte, wifi, wifiChanges, light, byteLost>>

SetDhcp ==
    /\ wifiPc["wifi"] = "set dhcp"
    /\ Store("wifi", "dhcp", TRUE)
    /\ WifiTo("wifi", "stop timer")
    /\ UNCHANGED <<network, light>>

(* setWifiLedStatus(WIFILED_CLOSE): stop the timer, then the LED.           *)
StopLedTimer ==
    /\ wifiPc["wifi"] = "stop timer"
    /\ ledTimer' = FALSE
    /\ rearmed' = Calling("timer")
    /\ WifiTo("wifi", "led off")
    /\ UNCHANGED <<byte, loaded, network, led, studyLit, byteLost>>

LedOff ==
    /\ wifiPc["wifi"] = "led off"
    /\ led' = FALSE
    /\ WifiTo("wifi", "idle")
    /\ UNCHANGED <<byte, loaded, network, ledTimer, studyLit, rearmed, byteLost>>

(* HFE_WIFI_STA_DISCONNECTED: setFlagAfterApDisconnect.                     *)
ApDisconnect ==
    /\ AtRest("wifi") /\ ~wifi /\ ~wifiTold
    /\ wifiTold' = TRUE
    /\ WifiTo("wifi", "clear dhcp") /\ Load("wifi")
    /\ UNCHANGED <<byte, wifi, wifiChanges, light, byteLost>>

ClearDhcp ==
    /\ wifiPc["wifi"] = "clear dhcp"
    /\ Store("wifi", "dhcp", FALSE)
    /\ WifiTo("wifi", "read again")
    /\ UNCHANGED <<network, light>>

ReadAgain ==
    /\ wifiPc["wifi"] = "read again"
    /\ Load("wifi")
    /\ WifiTo("wifi", "clear conn")
    /\ UNCHANGED <<byte, network, light, byteLost>>

ClearConn ==
    /\ wifiPc["wifi"] = "clear conn"
    /\ Store("wifi", "conn", FALSE)
    /\ WifiTo("wifi", "toggle")
    /\ UNCHANGED <<network, light>>

WifiThread == \/ DhcpOk \/ SetDhcp \/ StopLedTimer \/ LedOff \/ ApDisconnect
              \/ ClearDhcp \/ ReadAgain \/ ClearConn

-----------------------------------------------------------------------------
(* wifiLedTimerCallback: the timer thread when the timer expires, and the    *)
(* Wi-Fi thread in setWifiLedStatus(WIFI_LED_AP_DISCONNECT).                *)
Expire ==
    /\ AtRest("timer") /\ ledTimer
    /\ ledTimer' = FALSE
    /\ WifiTo("timer", "toggle")
    /\ UNCHANGED <<byte, loaded, network, led, studyLit, rearmed, byteLost>>

ToggleLed(t) ==
    /\ wifiPc[t] = "toggle"
    /\ led' = ~led
    /\ WifiTo(t, "rearm")
    /\ UNCHANGED <<byte, loaded, network, ledTimer, studyLit, rearmed, byteLost>>

(* Mutant of Rearm: the timer was taken for a periodic one.                 *)
RearmNot(t) ==
    /\ wifiPc[t] = "rearm"
    /\ WifiTo(t, "idle")
    /\ UNCHANGED <<byte, loaded, network, light, byteLost>>

Rearm(t) ==
    /\ wifiPc[t] = "rearm"
    /\ ledTimer' = TRUE
    /\ WifiTo(t, "idle")
    /\ UNCHANGED <<byte, loaded, network, led, studyLit, rearmed, byteLost>>

LedCallback(t) == ToggleLed(t) \/ Rearm(t)

(* The gateway: lum_enterSearchFreqMode, in the message thread, lights the   *)
(* LED whatever it shows ...                                                *)
LightForStudy ==
    /\ AtRest("msg")
    /\ led' = TRUE /\ studyLit' = TRUE
    /\ UNCHANGED <<byte, loaded, wifiPc, network, ledTimer, rearmed, byteLost>>

(* ... and lum_sendReplyStudyMessage, in an interrupt, puts it out when the  *)
(* study ends.                                                              *)
DarkAfterStudy ==
    /\ studyLit
    /\ led' = FALSE /\ studyLit' = FALSE
    /\ UNCHANGED <<byte, loaded, wifiPc, network, ledTimer, rearmed, byteLost>>

StudyLed == LightForStudy \/ DarkAfterStudy

-----------------------------------------------------------------------------
(* The TCP thread connects and notices a closed connection; the timer       *)
(* thread misses a heartbeat.                                               *)

(* checkTcpConnStatus asks for both flags; the byte is read again when the  *)
(* socket is connected, and the network may be gone by then.                *)

StartConnect ==
    /\ AtRest("tcp") /\ byte.dhcp /\ ~byte.conn
    /\ WifiTo("tcp", "connecting")
    /\ UNCHANGED <<byte, loaded, network, light, byteLost>>

ReadForConnect ==
    /\ wifiPc["tcp"] = "connecting"
    /\ Load("tcp") /\ WifiTo("tcp", "connected")
    /\ UNCHANGED <<byte, network, light, byteLost>>

ReadForClose(t) ==
    /\ t \in {"tcp", "timer"} /\ AtRest(t) /\ byte.conn
    /\ Load(t) /\ WifiTo(t, "closed")
    /\ UNCHANGED <<byte, network, light, byteLost>>

Connected ==
    /\ wifiPc["tcp"] = "connected"
    /\ Store("tcp", "conn", TRUE)
    /\ WifiTo("tcp", "idle")
    /\ UNCHANGED <<network, light>>

Closed(t) ==
    /\ wifiPc[t] = "closed"
    /\ Store(t, "conn", FALSE)
    /\ WifiTo(t, "idle")
    /\ UNCHANGED <<network, light>>

(* The message thread and both of these write the flags balanceOK and       *)
(* serverAdd, whose values do not matter here: the rest of the byte is      *)
(* written back as it was read.                                             *)
ReadForOther(t) ==
    /\ t # "wifi" /\ AtRest(t)
    /\ Load(t) /\ WifiTo(t, "other")
    /\ UNCHANGED <<byte, network, light, byteLost>>

Other(t) ==
    /\ wifiPc[t] = "other"
    /\ Store(t, "dhcp", loaded[t].dhcp)
    /\ WifiTo(t, "idle")
    /\ UNCHANGED <<network, light>>

(* The device starts without a network, and the LED blinks: initDevicePin.  *)
WifiInit ==
    /\ byte = AllClear
    /\ loaded = [t \in ByteWriter |-> byte] /\ wifiPc = [t \in ByteWriter |-> "idle"]
    /\ wifi = FALSE /\ wifiTold = TRUE /\ led \in BOOLEAN /\ ledTimer = TRUE /\ studyLit = FALSE
    /\ wifiChanges = 0 /\ byteLost = FALSE /\ rearmed = FALSE

WifiNext == \/ Change \/ WifiThread \/ Expire \/ StartConnect \/ ReadForConnect \/ Connected
            \/ StudyLed
            \/ \E t \in ByteWriter: \/ LedCallback(t) \/ ReadForClose(t) \/ Closed(t)
                                    \/ ReadForOther(t) \/ Other(t)

WifiSpec == WifiInit /\ [][WifiNext]_wifiVars

(* Calls end, and an expired timer gets its turn among the others.          *)
FairWifiSpec == WifiSpec /\ WF_wifiVars(WifiThread) /\ SF_wifiVars(Expire)
                /\ \A t \in ByteWriter: WF_wifiVars(LedCallback(t) \/ Closed(t) \/ Other(t))
-----------------------------------------------------------------------------
WifiTypes ==
    /\ byte \in Byte /\ loaded \in [ByteWriter -> Byte]
    /\ wifiPc \in [ByteWriter -> Places]
    /\ wifiPc["tcp"] \in Places \ (OfWifi \cup OfLed) /\ wifiPc["msg"] \in {"idle", "other"}
    /\ wifiPc["timer"] \in Places \ (OfWifi \cup OfTcp)
    /\ wifiPc["wifi"] \in Places \ (OfTcp \cup {"closed", "other"})
    /\ {wifi, wifiTold, led, ledTimer, studyLit, byteLost, rearmed} \subseteq BOOLEAN
    /\ wifiChanges \in 0 .. MaxWifiChanges

(* Who connects is not connected, unless a write was lost.                   *)
NotTwice == wifiPc["tcp"] \in {"connecting", "connected"} /\ ~byteLost => ~byte.conn

Settled == wifiTold /\ AtRest("wifi")

(* When the device was told of the last change, its flag says what the       *)
(* network is, unless two threads wrote the byte at once.                    *)
FlagIsWifi == Settled /\ ~byteLost => byte.dhcp = wifi

(* Without the network the LED blinks, whatever flags and calls were lost.   *)
BlinksWithout == Settled /\ ~wifi => ledTimer \/ Calling("timer")

(* With the network it is off, unless a flag was lost, or the callback had   *)
(* begun when the Wi-Fi thread stopped the timer, and set it again; or it     *)
(* shines for a study that has not ended.                                    *)
OffWith ==
    Settled /\ wifi /\ ~byteLost /\ ~rearmed => ~ledTimer /\ (led => studyLit)

(* The types, and what the device shows of the network when it was told of   *)
(* the last change.                                                          *)
WifiInv == WifiTypes /\ NotTwice /\ FlagIsWifi /\ BlinksWithout /\ OffWith

(* Blinking is not shining: without the network the LED changes again and    *)
(* again.                                                                    *)
Blinks == <>[](~wifi) => []<>led /\ []<>~led
=============================================================================
