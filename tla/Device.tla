------------------------------- MODULE Device -------------------------------
(***************************************************************************)
(* What the device does when it starts, and what it keeps over a restart:   *)
(* the configuration in RAM and in flash, the reset reasons, the factory    *)
(* reset asked for by the key or by an app, smart-link (the mode in which   *)
(* the device learns the Wi-Fi network) and the firmware upgrade.           *)
(*                                                                          *)
(* Two threads change the configuration: the message thread, which takes    *)
(* requests from its list, and the timer thread, in which the key's         *)
(* long-press callback runs.  A factory reset takes several steps in        *)
(* whichever thread performs it, and the other one keeps running.  Power    *)
(* may fail between any two steps.  One write of the flash file is atomic;  *)
(* the erase and the write of a factory reset are two steps, as in the      *)
(* code.  A configuration is reduced to what the start-up code and the      *)
(* properties look at; `set' stands for everything the user entered: device *)
(* name, alarms, absences and countdowns.                                   *)
(***************************************************************************)
EXTENDS Integers, Sequences, FiniteSets

CONSTANTS Products,     \* do the products have a key (DEVICE_KEY_SUPPORT)?
          MaxTries,     \* MAX_TRY_COUNT_WHILE_FAILD, downloads per upgrade
          MaxWait,      \* looks at the DHCP bit before an upgrade gives up
          MaxList,      \* bound: messages received while as many wait
          MaxRequests,  \* bound: requests received
          MaxPresses,   \* bound: long presses of the key
          MaxCrashes    \* bound: power failures

ASSUME DeviceAssumption ==
    /\ Products \subseteq BOOLEAN
    /\ {MaxTries, MaxWait} \subseteq Nat \ {0}
    /\ {MaxList, MaxRequests, MaxPresses, MaxCrashes} \subseteq Nat

VARIABLES hasKey,    \* the product's answer
          ram,       \* g_deviceConfig.deviceConfigData
          flash,     \* the same record in the user file
          mac,       \* g_deviceConfig.globalData.macAddr is known
          mode,      \* how far the start came and what runs since
          cause,     \* what hfsys_get_reset_reason answers
          keyOn,     \* the key's interrupt is configured
          list,      \* the message list
          step,      \* where the timer and the message thread are in a reset
          dhcp,      \* DHPC_OK_BIT
          lonely,    \* checkSmarkLinkTimer of a product without a key runs
          phase,     \* how far the upgrade thread came
          count,     \* its waitConnectTime, then its tryCount
          ntp,       \* the module's own NTP client is switched on
          requests, presses, crashes,
          owed,      \* history: a saved factory reset without smart-link since
          cut,       \* history: a restart hit a reset between erase and save
          clash,     \* history: two resets, or a reset and the start, met
          overtaken, \* history: a setting was written after the last wipe
          unsaved    \* history: a handler changed RAM and left flash alone

config == <<ram, flash, mac>>
upgradeVars == <<phase, count>>
bounds == <<requests, presses, crashes>>
history == <<owed, cut, clash, overtaken, unsaved>>
vars == <<hasKey, ram, flash, mac, mode, cause, keyOn, list, step, dhcp, lonely,
          phase, count, ntp, requests, presses, crashes,
          owed, cut, clash, overtaken, unsaved>>

Thread == {"timer", "msg"}
Request == {"upgrade", "longUrl", "lock", "set", "delete", "deleteUnsaved",
            "smartlink", "reset"}
Local == {"doUpgrade", "doSmartlink", "doReset"}
Mode == {"start", "init", "smartlink", "upgrade", "run"}

(* DEVICE_CONFIG_DATA; flag is lumitekFlag = LUMITEK_SW_FLAG, smartlink is   *)
(* needSmartLink, named says that userName is not empty.                    *)
Config == [flag: BOOLEAN, smartlink: BOOLEAN, upgrade: BOOLEAN,
           locked: BOOLEAN, named: BOOLEAN, set: BOOLEAN]

(* The record and the file after memset and hffile_userbin_zero.            *)
Blank == [flag |-> FALSE, smartlink |-> FALSE, upgrade |-> FALSE,
          locked |-> FALSE, named |-> FALSE, set |-> FALSE]
(* What globalConfigDataInit makes of it.                                   *)
Fresh == [Blank EXCEPT !.flag = TRUE]

(* globalConfigDataInit(FALSE): a file without the flag is replaced.        *)
Loaded(file) == IF file.flag THEN file ELSE Fresh

(* Mutant of Save: the file is left for later.                              *)
SaveRamOnly(new) == ram' = new /\ unsaved' = FALSE /\ UNCHANGED flash

(* saveDeviceConfigData.                                                    *)
Save(new) == ram' = new /\ flash' = new /\ unsaved' = FALSE

(* checkResetType.                                                          *)
ResetType(reason, c) ==
    IF reason = "start" THEN "smartlink"
    ELSE IF c.upgrade THEN "upgrade"
    ELSE IF reason = "ok" THEN "linked" ELSE "normal"

Erasing == \E t \in Thread: step[t] \in {"wiped", "fresh"}

(* The module restarts for the reason given, and app_main runs up to the    *)
(* point where it waits for the Wi-Fi: initDevicePin reads the              *)
(* configuration and configures the key unless an upgrade is due.           *)
Boot(reason) ==
    LET c == Loaded(flash) IN
    /\ mode' = "start" /\ cause' = reason
    /\ ram' = c /\ flash' = c /\ mac' = FALSE
    /\ keyOn' = (hasKey /\ ResetType(reason, c) # "upgrade")
    /\ list' = <<>> /\ step' = [t \in Thread |-> "no"]
    /\ dhcp' = FALSE /\ lonely' = FALSE /\ phase' = "wait" /\ count' = 0
    /\ cut' = (cut \/ Erasing)
    /\ overtaken' = FALSE /\ unsaved' = FALSE

PowerFails ==
    /\ crashes < MaxCrashes
    /\ crashes' = crashes + 1
    /\ Boot("normal")
    /\ UNCHANGED <<ntp, hasKey, requests, presses, owed, clash>>

-----------------------------------------------------------------------------
(* lumitekITOMain.                                                          *)

(* It starts nothing but smart-link when the module restarted for it.       *)
StartSmartlink(c) ==
    /\ ResetType(cause, c) = "smartlink"
    /\ mode' = "smartlink" /\ ram' = c /\ flash' = c
    /\ UNCHANGED <<mac, cause, keyOn, list, step, dhcp, lonely, upgradeVars,
                   ntp, hasKey, bounds, history>>

(* enterUpgradeThread.                                                      *)
StartUpgrade(c) ==
    /\ ResetType(cause, c) = "upgrade"
    /\ mode' = "upgrade" /\ ram' = c /\ flash' = c
    /\ UNCHANGED <<mac, cause, keyOn, list, step, dhcp, lonely, upgradeVars,
                   ntp, hasKey, bounds, history>>

(* Mutant of FactorySmartlink: the flag is not looked at.                   *)
FactorySmartlinkNever(c) == FALSE

(* lum_getFactorySmartlink.                                                 *)
FactorySmartlink(c) == c.smartlink

(* A factory reset is not complete without smart-link: ask for it again.    *)
AskAgain(c) ==
    /\ ResetType(cause, c) = "normal" /\ FactorySmartlink(c)
    /\ Boot("start")
    /\ UNCHANGED <<ntp, hasKey, bounds, owed, clash>>

(* Otherwise the device goes on, and a smart-link that succeeded is noted.   *)
GoOn(c) ==
    /\ \/ ResetType(cause, c) = "linked"
       \/ ResetType(cause, c) = "normal" /\ ~FactorySmartlink(c)
    /\ LET linked == [c EXCEPT !.smartlink = @ /\ cause # "ok"] IN
       ram' = linked /\ flash' = linked
    /\ mode' = "init"
    /\ clash' = (clash \/ (cause = "ok" /\ step["timer"] = "saved"))
    /\ UNCHANGED <<mac, cause, keyOn, list, step, dhcp, lonely, upgradeVars,
                   ntp, hasKey, bounds, owed, cut, overtaken, unsaved>>

Main == /\ mode = "start"
        /\ LET c == Loaded(flash) IN
           StartSmartlink(c) \/ StartUpgrade(c) \/ AskAgain(c) \/ GoOn(c)

(* closeNtpMode switches the module's own clock off, which takes a restart. *)
CloseNtp ==
    /\ mode = "init" /\ ntp
    /\ ntp' = FALSE
    /\ Boot("normal")
    /\ UNCHANGED <<hasKey, bounds, owed, clash>>

(* The threads start; a product without a key watches for the network.      *)
StartThreads ==
    /\ mode = "init" /\ ~ntp
    /\ mode' = "run" /\ mac' = TRUE /\ lonely' = ~hasKey
    /\ clash' = (clash \/ step["timer"] # "no")
    /\ UNCHANGED <<ram, flash, cause, keyOn, list, step, dhcp, upgradeVars,
                   ntp, hasKey, bounds, owed, cut, overtaken, unsaved>>

(* The user enters the network and the module restarts with it.             *)
SmartlinkOk ==
    /\ mode = "smartlink"
    /\ Boot("ok")
    /\ owed' = FALSE
    /\ UNCHANGED <<ntp, hasKey, bounds, clash>>

-----------------------------------------------------------------------------
(* The factory reset, lum_deviceFactoryReset, in thread t.                  *)

(* globalConfigDataInit(TRUE) clears all of g_deviceConfig, the device's    *)
(* own address included, finds no flag and erases the file ...              *)
Wipe(t) ==
    /\ step' = [step EXCEPT ![t] = "wiped"]
    /\ ram' = Blank /\ flash' = Blank /\ mac' = FALSE /\ dhcp' = FALSE
    /\ owed' = FALSE /\ overtaken' = FALSE /\ unsaved' = FALSE
    /\ clash' = (clash \/ \E u \in Thread \ {t}:
                              step[u] \in {"wiped", "fresh", "saved"})

(* Mutant of SetDefaults: the record is not cleared a second time.          *)
SetDefaultsOver(t) ==
    /\ step[t] = "wiped"
    /\ step' = [step EXCEPT ![t] = "fresh"]
    /\ ram' = [ram EXCEPT !.flag = TRUE] /\ mac' = FALSE /\ dhcp' = FALSE
    /\ overtaken' = FALSE
    /\ UNCHANGED <<flash, mode, cause, keyOn, list, lonely, upgradeVars, ntp,
                   hasKey, bounds, owed, cut, clash, unsaved>>

(* ... clears the record again and sets the defaults, without saving them.  *)
SetDefaults(t) ==
    /\ step[t] = "wiped"
    /\ step' = [step EXCEPT ![t] = "fresh"]
    /\ ram' = Fresh /\ mac' = FALSE /\ dhcp' = FALSE
    /\ overtaken' = FALSE
    /\ UNCHANGED <<flash, mode, cause, keyOn, list, lonely, upgradeVars, ntp,
                   hasKey, bounds, owed, cut, clash, unsaved>>

SaveReset(t) ==
    /\ step[t] = "fresh"
    /\ step' = [step EXCEPT ![t] = "saved"]
    /\ Save([ram EXCEPT !.smartlink = TRUE])
    /\ owed' = TRUE
    /\ UNCHANGED <<mac, mode, cause, keyOn, list, dhcp, lonely, upgradeVars,
                   ntp, hasKey, bounds, cut, clash, overtaken>>

(* After a short sleep sendSmartLinkCmd makes the module restart.           *)
SendSmartLinkCmd(t) ==
    /\ step[t] = "saved"
    /\ Boot("start")
    /\ UNCHANGED <<ntp, hasKey, bounds, owed, clash>>

(* deviceKeyTimerCallback with the key still down.  In smart-link mode      *)
(* checkResetType only reads the configuration again.                       *)
LongPress ==
    /\ keyOn /\ step["timer"] = "no" /\ presses < MaxPresses
    /\ presses' = presses + 1
    /\ \/ /\ cause # "start"
          /\ Wipe("timer")
       \/ /\ cause = "start"
          /\ ram' = Loaded(flash) /\ flash' = Loaded(flash)
          /\ mac' = FALSE /\ dhcp' = FALSE
          /\ UNCHANGED <<step, owed, clash, overtaken, unsaved>>
    /\ UNCHANGED <<mode, cause, keyOn, list, lonely, upgradeVars, ntp, hasKey,
                   requests, crashes, cut>>

-----------------------------------------------------------------------------
(* The network, as far as this module needs it.                             *)

(* DHCP answered: setFlagAfterDhcp, or the upgrade's own callback.          *)
DhcpOk ==
    /\ mode \in {"run", "upgrade"} /\ ~dhcp
    /\ dhcp' = TRUE
    /\ lonely' = FALSE
    /\ UNCHANGED <<config, mode, cause, keyOn, list, step, upgradeVars, ntp,
                   hasKey, bounds, history>>

ApDisconnect ==
    /\ mode = "run"
    /\ dhcp' = FALSE
    /\ lonely' = ~hasKey
    /\ UNCHANGED <<config, mode, cause, keyOn, list, step, upgradeVars, ntp,
                   hasKey, bounds, history>>

(* checkSmartLinkTimerCallback: 30 s without the network.                   *)
LonelyTimer ==
    /\ lonely /\ step["timer"] = "no"
    /\ lonely' = FALSE
    /\ step' = [step EXCEPT !["timer"] = "saved"]
    /\ IF ram.locked THEN Save([ram EXCEPT !.locked = FALSE])
                     ELSE UNCHANGED <<ram, flash, unsaved>>
    /\ UNCHANGED <<mac, mode, cause, keyOn, list, dhcp, upgradeVars, ntp,
                   hasKey, bounds, owed, cut, clash, overtaken>>

(* insertSocketMsgToList: a packet must carry the device's address.         *)
Receive ==
    /\ mode = "run" /\ mac
    /\ requests < MaxRequests /\ Len(list) < MaxList
    /\ requests' = requests + 1
    /\ \E m \in Request: list' = Append(list, m)
    /\ UNCHANGED <<config, mode, cause, keyOn, step, dhcp, lonely,
                   upgradeVars, ntp, hasKey, presses, crashes, history>>

-----------------------------------------------------------------------------
(* The message thread, deviceMessageThread.                                 *)

Handle(m) == /\ mode = "run" /\ step["msg"] = "no"
             /\ list # <<>> /\ Head(list) = m

StepDone == /\ UNCHANGED <<mac, mode, cause, keyOn, dhcp, lonely, upgradeVars,
                           ntp, hasKey, bounds, cut, clash>>

(* rebackGetDeviceUpgrade and setSoftwareUpgradeUrl.                        *)
HandleUpgrade ==
    /\ Handle("upgrade")
    /\ Save([ram EXCEPT !.upgrade = TRUE])
    /\ list' = Append(Tail(list), "doUpgrade") /\ overtaken' = TRUE
    /\ StepDone /\ UNCHANGED <<step, owed>>

(* An address of 110 characters or more is dropped, and success answered.   *)
HandleLongUrl ==
    /\ Handle("longUrl")
    /\ list' = Tail(list)
    /\ StepDone /\ UNCHANGED <<ram, flash, step, owed, overtaken, unsaved>>

(* resetForUpgrade sleeps before it restarts.                               *)
HandleDoUpgrade ==
    /\ Handle("doUpgrade")
    /\ step' = [step EXCEPT !["msg"] = "sleep"]
    /\ UNCHANGED <<ram, flash, list, owed, overtaken, unsaved>>
    /\ StepDone

Restart ==
    /\ step["msg"] = "sleep"
    /\ Boot("normal")
    /\ UNCHANGED <<ntp, hasKey, bounds, owed, clash>>

(* rebackLockDevice: only for a packet with the device's address.           *)
HandleLock ==
    /\ Handle("lock")
    /\ IF mac THEN Save([ram EXCEPT !.locked = TRUE, !.named = TRUE])
              ELSE UNCHANGED <<ram, flash, unsaved>>
    /\ list' = Tail(list)
    /\ StepDone /\ UNCHANGED <<step, owed, overtaken>>

(* setDeviceName, setAlarmData, setAbsenceData, setCountDownData.           *)
HandleSet ==
    /\ Handle("set")
    /\ Save([ram EXCEPT !.set = TRUE])
    /\ list' = Tail(list) /\ overtaken' = TRUE
    /\ StepDone /\ UNCHANGED <<step, owed>>

(* rebackDeleteAlarmData and rebackDeleteAbsenceData: a list of entries is  *)
(* saved with its last one, and an entry that does not exist is not saved.  *)
HandleDelete ==
    /\ Handle("delete")
    /\ Save([ram EXCEPT !.set = FALSE])
    /\ list' = Tail(list)
    /\ StepDone /\ UNCHANGED <<step, owed, overtaken>>

HandleDeleteUnsaved ==
    /\ Handle("deleteUnsaved")
    /\ ram' = [ram EXCEPT !.set = FALSE]
    /\ unsaved' = TRUE
    /\ list' = Tail(list)
    /\ StepDone /\ UNCHANGED <<flash, step, owed, overtaken>>

(* rebackEnterSmartLink unlocks, and leaves the rest to a local message ... *)
HandleSmartlink ==
    /\ Handle("smartlink")
    /\ list' = Append(Tail(list), "doSmartlink")
    /\ IF ram.locked THEN Save([ram EXCEPT !.locked = FALSE])
                     ELSE UNCHANGED <<ram, flash, unsaved>>
    /\ StepDone /\ UNCHANGED <<step, owed, overtaken>>

(* Mutant of HandleDoSmartlink: the flag is set and the command forgotten.  *)
HandleDoSmartlinkSilent ==
    /\ Handle("doSmartlink")
    /\ list' = Tail(list)
    /\ Save([ram EXCEPT !.smartlink = TRUE]) /\ owed' = TRUE
    /\ StepDone /\ UNCHANGED <<step, overtaken>>

(* ... which only a product without a key knows: localEnterSmartLink.       *)
HandleDoSmartlink ==
    /\ Handle("doSmartlink")
    /\ list' = Tail(list)
    /\ IF hasKey
       THEN UNCHANGED <<ram, flash, step, owed, unsaved>>
       ELSE /\ Save([ram EXCEPT !.smartlink = TRUE])
            /\ owed' = TRUE
            /\ step' = [step EXCEPT !["msg"] = "saved"]
    /\ StepDone /\ UNCHANGED overtaken

(* lum_appResetFactory.                                                     *)
HandleReset ==
    /\ Handle("reset")
    /\ list' = Append(Tail(list), "doReset")
    /\ StepDone /\ UNCHANGED <<ram, flash, step, owed, overtaken, unsaved>>

HandleDoReset ==
    /\ Handle("doReset")
    /\ Wipe("msg")
    /\ UNCHANGED <<mode, cause, keyOn, list, lonely, upgradeVars, ntp, hasKey,
                   bounds, cut>>

MessageThread ==
    \/ HandleUpgrade \/ HandleLongUrl \/ HandleDoUpgrade \/ Restart
    \/ HandleLock \/ HandleSet \/ HandleDelete \/ HandleDeleteUnsaved
    \/ HandleSmartlink \/ HandleDoSmartlink \/ HandleReset \/ HandleDoReset

-----------------------------------------------------------------------------
(* The upgrade thread, deviceUpgradeThread.                                 *)

(* Mutant of ClearFlag: the flag stays.                                     *)
ClearFlagNot == UNCHANGED <<ram, flash, unsaved>>

(* clearSoftwareUpgradeFlag.                                                *)
ClearFlag == Save([ram EXCEPT !.upgrade = FALSE])

(* Another second without the network.                                      *)
UpgradeWaits ==
    /\ mode = "upgrade" /\ phase = "wait" /\ ~dhcp /\ count < MaxWait - 1
    /\ count' = count + 1
    /\ UNCHANGED <<config, mode, cause, keyOn, list, step, dhcp, lonely,
                   phase, ntp, hasKey, bounds, history>>

(* Two minutes without it: the flag is cleared, and the device restarts.    *)
UpgradeGivesUp ==
    /\ mode = "upgrade" /\ phase = "wait" /\ ~dhcp /\ count = MaxWait - 1
    /\ ClearFlag
    /\ phase' = "over" /\ count' = 0
    /\ UNCHANGED <<mac, mode, cause, keyOn, list, step, dhcp, lonely, ntp,
                   hasKey, bounds, owed, cut, clash, overtaken>>

(* deviceEnterSwUpgrade clears the flag before the first download.          *)
UpgradeBegins ==
    /\ mode = "upgrade" /\ phase = "wait" /\ dhcp
    /\ ClearFlag
    /\ phase' = "load" /\ count' = 0
    /\ UNCHANGED <<mac, mode, cause, keyOn, list, step, dhcp, lonely, ntp,
                   hasKey, bounds, owed, cut, clash, overtaken>>

(* softwareUpgrade failed and is tried again, or the trying is over.        *)
Download ==
    /\ mode = "upgrade" /\ phase = "load"
    /\ \/ count + 1 < MaxTries /\ count' = count + 1 /\ phase' = phase
       \/ count' = count /\ phase' = "over"
    /\ UNCHANGED <<config, mode, cause, keyOn, list, step, dhcp, lonely, ntp,
                   hasKey, bounds, history>>

(* Whatever came of it, the device restarts.                                *)
UpgradeEnds ==
    /\ mode = "upgrade" /\ phase = "over"
    /\ Boot("normal")
    /\ UNCHANGED <<ntp, hasKey, bounds, owed, clash>>

UpgradeThread == \/ UpgradeWaits \/ UpgradeGivesUp \/ UpgradeBegins
                 \/ Download \/ UpgradeEnds

-----------------------------------------------------------------------------
ResetSteps(t) == SetDefaults(t) \/ SaveReset(t) \/ SendSmartLinkCmd(t)

Init ==
    /\ hasKey \in Products
    /\ ram = Fresh /\ flash = Fresh /\ mac = FALSE
    /\ mode = "start" /\ cause = "normal" /\ keyOn = hasKey
    /\ list = <<>> /\ step = [t \in Thread |-> "no"]
    /\ dhcp = FALSE /\ lonely = FALSE /\ phase = "wait" /\ count = 0
    /\ ntp \in BOOLEAN
    /\ requests = 0 /\ presses = 0 /\ crashes = 0
    /\ owed = FALSE /\ cut = FALSE /\ clash = FALSE /\ overtaken = FALSE
    /\ unsaved = FALSE

Next ==
    \/ Main \/ CloseNtp \/ StartThreads \/ SmartlinkOk \/ LongPress \/ DhcpOk \/ ApDisconnect
    \/ LonelyTimer \/ Receive \/ MessageThread \/ UpgradeThread \/ PowerFails
    \/ \E t \in Thread: ResetSteps(t)

Spec == Init /\ [][Next]_vars

(* The threads run; the network, the user and the power are free.           *)
Fairness == /\ WF_vars(Main \/ CloseNtp \/ StartThreads)
            /\ WF_vars(MessageThread) /\ WF_vars(UpgradeThread)
            /\ \A t \in Thread: WF_vars(ResetSteps(t))
FairSpec == Spec /\ Fairness
-----------------------------------------------------------------------------
TypeOK ==
    /\ hasKey \in Products /\ ram \in Config /\ flash \in Config /\ mac \in BOOLEAN
    /\ mode \in Mode /\ cause \in {"normal", "start", "ok"}
    /\ keyOn \in BOOLEAN /\ (keyOn => hasKey)
    /\ list \in Seq(Request \cup Local) /\ (mode # "run" => list = <<>>)
    /\ step \in [Thread -> {"no", "wiped", "fresh", "saved", "sleep"}]
    /\ dhcp \in BOOLEAN /\ lonely \in BOOLEAN /\ (lonely => ~hasKey)
    /\ phase \in {"wait", "load", "over"}
    /\ count \in 0 .. (MaxWait + MaxTries)
    /\ ntp \in BOOLEAN
    /\ requests \in 0 .. MaxRequests /\ presses \in 0 .. MaxPresses
    /\ crashes \in 0 .. MaxCrashes
    /\ {owed, cut, clash, overtaken, unsaved} \subseteq BOOLEAN

(* In a running device everything that was acknowledged is in flash, so that *)
(* a power failure loses nothing: the two copies differ only while a factory *)
(* reset erases, or after a delete that ended with an entry out of range.    *)
Synced == mode = "run" /\ ~Erasing /\ ~unsaved => ram = flash

(* The types, and what is kept of the configuration.                         *)
DeviceInv == TypeOK /\ Synced

(* After a factory reset the device does not run before a smart-link         *)
(* succeeded, wherever the power fails or an upgrade restarts it meanwhile   *)
(* (unless two resets, or a reset and the start, ran into each other).       *)
SmartlinkFirst ==
    [][mode # "init" /\ mode' = "init" => ~owed \/ clash']_vars

(* A reset leaves the factory defaults and the wish for smart-link, though   *)
(* requests go on being handled while it runs.  A lock that waited in the    *)
(* list does not survive, since the device lost its address; settings and an *)
(* upgrade that waited do.                                                   *)
ResetErases ==
    [][\A t \in Thread:
         step[t] = "saved" /\ owed /\ ~clash /\ mode' = "start" /\ cause' = "start"
         => /\ flash.smartlink /\ (hasKey => ~flash.named)
            /\ (hasKey /\ ~overtaken => flash = [Fresh EXCEPT !.smartlink = TRUE])]_vars

(* Settings leave the flash in a factory reset or a delete only: no crash,   *)
(* upgrade, smart-link or lock at any moment costs the user one.             *)
SettingsKept ==
    [][flash.set /\ ~flash'.set =>
         \/ \E t \in Thread: step'[t] = "wiped"
         \/ Erasing \/ unsaved
         \/ list # <<>> /\ Head(list) = "delete"]_vars

(* A factory reset erases everything and leads to smart-link, and nothing    *)
(* else erases anything.                                                     *)
ErasedByReset == ResetErases /\ SettingsKept /\ SmartlinkFirst

(* A factory reset that began ends in smart-link mode, unless a restart      *)
(* falls between its erasing and its saving, or the start that follows a     *)
(* smart-link takes back its flag and the power fails.                       *)
ResetCompletes ==
    (\E t \in Thread: step[t] = "wiped") ~> (mode = "smartlink" \/ cut \/ clash)

(* The app's request to enter smart-link, which the device acknowledges,     *)
(* takes it there, unless an upgrade restarts it first.  A product with a    *)
(* key acknowledges it and does not obey: HandleDoSmartlink.                 *)
SmartlinkObeyed ==
    (~hasKey /\ \E i \in DOMAIN list: list[i] = "doSmartlink")
        ~> (mode \in {"smartlink", "upgrade"} \/ crashes > 0)

(* An upgrade that was accepted is tried, after a crash as well, unless the  *)
(* user resets the device, or was resetting it, or takes it to smart-link.   *)
UpgradeTried ==
    flash.upgrade /\ ~Erasing ~> (mode \in {"upgrade", "smartlink"} \/ ~flash.flag)

(* An upgrade ends, whether the network, the server or the file is missing,  *)
(* and the device works again or asks for its network.                       *)
UpgradeSettles == mode = "upgrade" ~> mode \in {"run", "smartlink"}

(* Who asks for smart-link, with the key or the app, gets it; an upgrade     *)
(* that was accepted is tried, and the trying comes to an end.               *)
ModesReached == ResetCompletes /\ SmartlinkObeyed /\ UpgradeTried /\ UpgradeSettles
=============================================================================
