---------------------------- MODULE DeviceProofs ----------------------------
(***************************************************************************)
(* The device keeps what it acknowledged, and a factory reset, but nothing   *)
(* else, erases it: for any number of requests, presses and power failures,  *)
(* for products with a key and without.                                     *)
(***************************************************************************)
EXTENDS Device, SequenceTheorems, TLAPS

(* Where the two copies of the configuration agree, and their flag is set.  *)
Saved == ~Erasing /\ ~unsaved => ram = flash
Flagged ==
    /\ (\A t \in Thread: step[t] # "wiped") => ram.flag
    /\ ~Erasing => flash.flag

(* Which thread can be where.                                              *)
Resetting(t) == step[t] \in {"wiped", "fresh", "saved"}
Modes ==
    /\ cause = "start" => mode \in {"start", "smartlink"} /\ \A t \in Thread: step[t] = "no"
    /\ mode # "run" => step["msg"] = "no" /\ ~overtaken
    /\ lonely => mode = "run"
    /\ step["timer"] \in {"wiped", "fresh"} => hasKey
OneReset ==
    hasKey /\ ~clash => \A t, u \in Thread: Resetting(t) /\ Resetting(u) => t = u

(* A wish for smart-link that was saved is still there.                     *)
Wished == [Fresh EXCEPT !.smartlink = TRUE]
Owes ==
    owed /\ ~clash =>
        /\ ram.flag /\ ram.smartlink /\ flash.flag /\ flash.smartlink /\ ~Erasing
        /\ mode = "start" /\ cause = "ok" => step["timer"] = "saved"

(* What a reset of a product with a key has made of the configuration.      *)
Erases(t) ==
    /\ ~mac /\ ~ram.named /\ ~flash.named
    /\ mode # "run" /\ step[t] \in {"wiped", "fresh"} => flash \in {Blank, Fresh}
    /\ mode # "run" /\ step[t] = "wiped" => ram \in {Blank, Fresh}
    /\ step[t] = "fresh" /\ ~overtaken => ram = Fresh
    /\ step[t] = "saved" /\ ~overtaken => ram = Wished /\ flash = Wished
Erased == hasKey /\ ~clash => \A t \in Thread: Resetting(t) => Erases(t)

DeviceIInv == TypeOK /\ Saved /\ Flagged /\ Modes /\ OneReset /\ Owes /\ Erased
-----------------------------------------------------------------------------
(* The types, in parts.                                                    *)
ConfigsTyped == ram \in Config /\ flash \in Config
ModesTyped ==
    mode \in Mode /\ cause \in {"normal", "start", "ok"} /\ phase \in {"wait", "load", "over"}
StepsTyped == step \in [Thread -> {"no", "wiped", "fresh", "saved", "sleep"}]
ListTyped == list \in Seq(Request \cup Local) /\ (mode # "run" => list = <<>>)
KeyTyped == hasKey \in Products /\ keyOn \in BOOLEAN /\ (keyOn => hasKey)
LonelyTyped == lonely \in BOOLEAN /\ (lonely => ~hasKey)
FlagsTyped ==
    /\ mac \in BOOLEAN /\ dhcp \in BOOLEAN /\ ntp \in BOOLEAN
    /\ owed \in BOOLEAN /\ cut \in BOOLEAN /\ clash \in BOOLEAN /\ overtaken \in BOOLEAN
    /\ unsaved \in BOOLEAN
NumbersTyped ==
    /\ count \in 0 .. (MaxWait + MaxTries) /\ requests \in 0 .. MaxRequests
    /\ presses \in 0 .. MaxPresses /\ crashes \in 0 .. MaxCrashes
Typed ==
    /\ ConfigsTyped /\ ModesTyped /\ StepsTyped /\ ListTyped /\ KeyTyped /\ LonelyTyped
    /\ FlagsTyped /\ NumbersTyped

LEMMA TypesAre == Typed <=> TypeOK
BY DEF Typed, ConfigsTyped, ModesTyped, StepsTyped, ListTyped, KeyTyped, LonelyTyped,
   FlagsTyped, NumbersTyped, TypeOK

LEMMA DeviceConstants ==
    /\ Products \subseteq BOOLEAN /\ MaxTries \in Nat /\ MaxTries > 0 /\ MaxWait \in Nat
    /\ MaxWait > 0 /\ MaxList \in Nat /\ MaxRequests \in Nat /\ MaxPresses \in Nat
    /\ MaxCrashes \in Nat
BY DeviceAssumption

(* The configurations.                                                     *)
LEMMA Configs ==
    /\ Blank \in Config /\ Fresh \in Config /\ Wished \in Config
    /\ ~Blank.flag /\ Fresh.flag /\ Wished.flag /\ Wished.smartlink
    /\ ~Blank.named /\ ~Fresh.named /\ ~Wished.named /\ ~Blank.set /\ ~Fresh.set
BY DEF Blank, Fresh, Wished, Config

LEMMA LoadedIs ==
  ASSUME NEW c \in Config
  PROVE  /\ Loaded(c) \in Config /\ Loaded(c).flag /\ (c.flag => Loaded(c) = c)
         /\ Loaded(c) \in {c, Fresh} /\ (~c.flag => Loaded(c) = Fresh)
BY Configs DEF Loaded

LEMMA WithSmartlink ==
  ASSUME NEW c \in Config, NEW b \in BOOLEAN
  PROVE  /\ [c EXCEPT !.smartlink = b] \in Config /\ [c EXCEPT !.smartlink = b].smartlink = b
         /\ [c EXCEPT !.smartlink = b].flag = c.flag
         /\ [c EXCEPT !.smartlink = b].upgrade = c.upgrade
         /\ [c EXCEPT !.smartlink = b].locked = c.locked
         /\ [c EXCEPT !.smartlink = b].named = c.named
         /\ [c EXCEPT !.smartlink = b].set = c.set
BY DEF Config

LEMMA WithUpgrade ==
  ASSUME NEW c \in Config, NEW b \in BOOLEAN
  PROVE  /\ [c EXCEPT !.upgrade = b] \in Config /\ [c EXCEPT !.upgrade = b].upgrade = b
         /\ [c EXCEPT !.upgrade = b].flag = c.flag
         /\ [c EXCEPT !.upgrade = b].smartlink = c.smartlink
         /\ [c EXCEPT !.upgrade = b].locked = c.locked
         /\ [c EXCEPT !.upgrade = b].named = c.named
         /\ [c EXCEPT !.upgrade = b].set = c.set
BY DEF Config

LEMMA WithLocked ==
  ASSUME NEW c \in Config, NEW b \in BOOLEAN
  PROVE  /\ [c EXCEPT !.locked = b] \in Config /\ [c EXCEPT !.locked = b].locked = b
         /\ [c EXCEPT !.locked = b].flag = c.flag
         /\ [c EXCEPT !.locked = b].smartlink = c.smartlink
         /\ [c EXCEPT !.locked = b].upgrade = c.upgrade
         /\ [c EXCEPT !.locked = b].named = c.named
         /\ [c EXCEPT !.locked = b].set = c.set
BY DEF Config

LEMMA WithSet ==
  ASSUME NEW c \in Config, NEW b \in BOOLEAN
  PROVE  /\ [c EXCEPT !.set = b] \in Config /\ [c EXCEPT !.set = b].set = b
         /\ [c EXCEPT !.set = b].flag = c.flag
         /\ [c EXCEPT !.set = b].smartlink = c.smartlink
         /\ [c EXCEPT !.set = b].upgrade = c.upgrade
         /\ [c EXCEPT !.set = b].locked = c.locked
         /\ [c EXCEPT !.set = b].named = c.named
BY DEF Config

LEMMA WithLock ==
  ASSUME NEW c \in Config
  PROVE  LET d == [c EXCEPT !.locked = TRUE, !.named = TRUE]
         IN  d \in Config /\ d.flag = c.flag /\ d.smartlink = c.smartlink /\ d.set = c.set
BY DEF Config

LEMMA SetAsItIs ==
  ASSUME NEW c \in Config, ~c.upgrade, ~c.locked, ~c.set
  PROVE  /\ [c EXCEPT !.upgrade = FALSE] = c /\ [c EXCEPT !.locked = FALSE] = c
         /\ [c EXCEPT !.set = FALSE] = c
<1>1. c.upgrade = FALSE /\ c.locked = FALSE /\ c.set = FALSE BY DEF Config
<1> QED BY <1>1 DEF Config

LEMMA NothingToClear ==
  \A c \in {Blank, Fresh, Wished}:
     /\ [c EXCEPT !.upgrade = FALSE] = c /\ [c EXCEPT !.locked = FALSE] = c
     /\ [c EXCEPT !.set = FALSE] = c
<1>1. ~Blank.upgrade /\ ~Blank.locked /\ ~Blank.set BY DEF Blank
<1>2. ~Fresh.upgrade /\ ~Fresh.locked /\ ~Fresh.set BY DEF Fresh, Blank
<1>3. ~Wished.upgrade /\ ~Wished.locked /\ ~Wished.set
      BY <1>2, Configs, WithSmartlink DEF Wished
<1>4. \A c \in {Blank, Fresh, Wished}: ~c.upgrade /\ ~c.locked /\ ~c.set
      BY <1>1, <1>2, <1>3
<1> QED BY <1>4, Configs, SetAsItIs

LEMMA Wishes == [Fresh EXCEPT !.smartlink = TRUE] = Wished
BY DEF Wished
-----------------------------------------------------------------------------
(* The steps, by what they do to the configuration and to the resets.       *)
Core == Saved /\ Flagged /\ Modes /\ OneReset /\ Owes /\ Erased

(* A restart.                                                              *)
Boots ==
    \E r \in {"normal", "start", "ok"}:
       /\ Boot(r) /\ UNCHANGED <<hasKey, clash>>
       /\ owed' = FALSE \/ (owed' = owed /\ r # "ok")

(* The message thread goes on, or to sleep before an upgrade.               *)
StepOrSleep ==
    \/ UNCHANGED step
    \/ mode = "run" /\ step["msg"] = "no" /\ step' = [step EXCEPT !["msg"] = "sleep"]

(* A request that edits the configuration, or leaves it alone: r is what it  *)
(* makes of it.                                                             *)
EditsRam(r) ==
    /\ ram' = r /\ r.flag = ram.flag /\ (ram.smartlink => r.smartlink)
    /\ r.named = ram.named \/ mac
EditsFlash(r) ==
    \/ /\ flash' = r /\ unsaved' = FALSE
       /\ (ram.set => r.set) \/ (list # <<>> /\ Head(list) = "delete")
    \/ UNCHANGED flash /\ unsaved' = TRUE
    \/ UNCHANGED <<flash, unsaved>> /\ r = ram
EditsLater(r) ==
    \/ overtaken' = TRUE /\ mode = "run"
    \/ UNCHANGED overtaken /\ (mac \/ \A c \in {Blank, Fresh, Wished}: ram = c => r = c)
EditsElse ==
    /\ UNCHANGED <<hasKey, mac, mode, cause, owed, clash>>
    /\ lonely' => (lonely \/ mode = "run")
Edits ==
    \E r \in Config:
       EditsRam(r) /\ EditsFlash(r) /\ EditsLater(r) /\ StepOrSleep /\ EditsElse

(* A product without a key goes to smart-link of itself, or is told to.     *)
Asks ==
    \E t \in Thread, r \in Config:
       /\ ~hasKey /\ mode = "run" /\ step[t] = "no" /\ step' = [step EXCEPT ![t] = "saved"]
       /\ ram' = r /\ r.flag = ram.flag /\ (ram.smartlink => r.smartlink) /\ (ram.set => r.set)
       /\ \/ flash' = r /\ unsaved' = FALSE
          \/ UNCHANGED <<flash, unsaved>> /\ r = ram
       /\ owed' = owed \/ (t = "msg" /\ r.smartlink /\ flash' = r)
       /\ UNCHANGED <<hasKey, mac, mode, cause, clash, overtaken>>
       /\ lonely' => lonely

(* The start comes to its end, and smart-link is asked for or noted.        *)
Starts ==
    LET c == Loaded(flash)
    IN  /\ mode = "start" /\ ram' = flash'
        /\ UNCHANGED <<hasKey, mac, cause, step, lonely, owed, overtaken, unsaved>>
        /\ \/ /\ mode' \in {"smartlink", "upgrade"} /\ ResetType(cause, c) = mode'
              /\ flash' = c /\ UNCHANGED clash
           \/ /\ mode' = "init" /\ ResetType(cause, c) \in {"linked", "normal"}
              /\ (ResetType(cause, c) = "normal" => ~c.smartlink)
              /\ flash' = [c EXCEPT !.smartlink = @ /\ cause # "ok"]
              /\ clash' = (clash \/ (cause = "ok" /\ step["timer"] = "saved"))

(* The key, in smart-link mode: the configuration is only read again.       *)
Reads ==
    /\ cause = "start" /\ ram' = Loaded(flash) /\ flash' = Loaded(flash) /\ mac' = FALSE
    /\ UNCHANGED <<hasKey, mode, cause, step, lonely, owed, clash, overtaken, unsaved>>

(* A factory reset begins, in a thread that does nothing else.              *)
Wipes ==
    \E t \in Thread:
       /\ Wipe(t) /\ step[t] = "no"
       /\ (t = "timer" => hasKey /\ cause # "start")
       /\ (t = "msg" => mode = "run")
       /\ UNCHANGED <<hasKey, mode, cause, lonely>>

Kinds ==
    \/ Boots \/ Edits \/ Asks \/ Starts \/ StartThreads \/ Reads \/ Wipes
    \/ \E t \in Thread: SetDefaults(t) \/ SaveReset(t)

LEMMA StartKinds ==
  ASSUME Typed, Main
  PROVE  Boots \/ Starts
<1>1. CASE AskAgain(Loaded(flash))
  BY <1>1 DEF AskAgain, Boots
<1>2. CASE StartSmartlink(Loaded(flash))
  BY <1>2 DEF Main, StartSmartlink, Starts, history
<1>3. CASE StartUpgrade(Loaded(flash))
  BY <1>3 DEF Main, StartUpgrade, Starts, history
<1>4. CASE GoOn(Loaded(flash))
  <2>1. ResetType(cause, Loaded(flash)) \in {"linked", "normal"} BY <1>4 DEF GoOn
  <2>2. ResetType(cause, Loaded(flash)) = "normal" => ~Loaded(flash).smartlink
        BY <1>4 DEF GoOn, FactorySmartlink
  <2> QED BY <1>4, <2>1, <2>2 DEF Main, GoOn, Starts
<1> QED BY <1>1, <1>2, <1>3, <1>4 DEF Main

LEMMA BootKinds ==
  ASSUME CloseNtp \/ SmartlinkOk \/ Restart \/ UpgradeEnds \/ PowerFails
         \/ \E t \in Thread: SendSmartLinkCmd(t)
  PROVE  Boots
<1>1. CASE CloseNtp BY <1>1 DEF CloseNtp, Boots
<1>2. CASE SmartlinkOk BY <1>2 DEF SmartlinkOk, Boots
<1>3. CASE Restart BY <1>3 DEF Restart, Boots
<1>4. CASE UpgradeEnds BY <1>4 DEF UpgradeEnds, Boots
<1>5. CASE PowerFails BY <1>5 DEF PowerFails, Boots
<1>6. CASE \E t \in Thread: SendSmartLinkCmd(t) BY <1>6 DEF SendSmartLinkCmd, Boots
<1> QED BY <1>1, <1>2, <1>3, <1>4, <1>5, <1>6

LEMMA RestKinds ==
  ASSUME Typed,
         DhcpOk \/ ApDisconnect \/ Receive \/ HandleLongUrl \/ HandleDoUpgrade \/ HandleReset
         \/ UpgradeWaits \/ Download \/ UNCHANGED vars
  PROVE  Edits
<1>1. UNCHANGED <<ram, flash, unsaved, overtaken, hasKey, mac, mode, cause, owed, clash>>
      BY DEF DhcpOk, ApDisconnect, Receive, HandleLongUrl, HandleDoUpgrade, HandleReset,
         UpgradeWaits, Download, vars, StepDone, config, history
<1>2. StepOrSleep
      BY DEF DhcpOk, ApDisconnect, Receive, HandleLongUrl, HandleDoUpgrade, HandleReset,
         UpgradeWaits, Download, vars, Handle, StepOrSleep
<1>3. lonely' => lonely \/ mode = "run"
      BY DEF DhcpOk, ApDisconnect, Receive, HandleLongUrl, HandleDoUpgrade, HandleReset,
         UpgradeWaits, Download, vars, StepDone
<1>4. ram \in Config BY DEF Typed, ConfigsTyped
<1>5. EditsRam(ram) BY <1>1 DEF EditsRam
<1>6. EditsFlash(ram) BY <1>1 DEF EditsFlash
<1>7. EditsLater(ram) BY <1>1 DEF EditsLater
<1>8. EditsElse BY <1>1, <1>3 DEF EditsElse
<1> QED BY <1>2, <1>4, <1>5, <1>6, <1>7, <1>8 DEF Edits

LEMMA EditIs ==
  ASSUME NEW r \in Config, EditsRam(r), EditsFlash(r), EditsLater(r), StepOrSleep, EditsElse
  PROVE  Edits
BY DEF Edits

LEMMA HandleUpgradeEdits ==
  ASSUME Typed, HandleUpgrade
  PROVE  Edits
<1>1. ram \in Config BY DEF Typed, ConfigsTyped
<1>2. PICK r \in Config: /\ r = [ram EXCEPT !.upgrade = TRUE] /\ r.flag = ram.flag
                         /\ r.smartlink = ram.smartlink /\ r.set = ram.set
                         /\ r.named = ram.named
      BY <1>1, WithUpgrade
<1>3. ram' = r /\ flash' = r /\ unsaved' = FALSE
      BY <1>2 DEF HandleUpgrade, Save, ClearFlag
<1>4. EditsRam(r) BY <1>2, <1>3 DEF EditsRam
<1>5. EditsFlash(r) BY <1>2, <1>3 DEF EditsFlash
<1>6. EditsLater(r) BY DEF EditsLater, HandleUpgrade, Handle
<1>8. StepOrSleep BY DEF StepOrSleep, HandleUpgrade
<1>9. EditsElse BY DEF EditsElse, HandleUpgrade, StepDone
<1> QED BY <1>4, <1>5, <1>6, <1>8, <1>9, EditIs

LEMMA HandleSetEdits ==
  ASSUME Typed, HandleSet
  PROVE  Edits
<1>1. ram \in Config BY DEF Typed, ConfigsTyped
<1>2. PICK r \in Config: /\ r = [ram EXCEPT !.set = TRUE] /\ r.flag = ram.flag
                         /\ r.smartlink = ram.smartlink /\ r.set
                         /\ r.named = ram.named
      BY <1>1, WithSet
<1>3. ram' = r /\ flash' = r /\ unsaved' = FALSE
      BY <1>2 DEF HandleSet, Save, ClearFlag
<1>4. EditsRam(r) BY <1>2, <1>3 DEF EditsRam
<1>5. EditsFlash(r) BY <1>2, <1>3 DEF EditsFlash
<1>6. EditsLater(r) BY DEF EditsLater, HandleSet, Handle
<1>8. StepOrSleep BY DEF StepOrSleep, HandleSet
<1>9. EditsElse BY DEF EditsElse, HandleSet, StepDone
<1> QED BY <1>4, <1>5, <1>6, <1>8, <1>9, EditIs

LEMMA HandleDeleteEdits ==
  ASSUME Typed, HandleDelete
  PROVE  Edits
<1>1. ram \in Config BY DEF Typed, ConfigsTyped
<1>2. PICK r \in Config: /\ r = [ram EXCEPT !.set = FALSE] /\ r.flag = ram.flag
                         /\ r.smartlink = ram.smartlink /\ r.named = ram.named
      BY <1>1, WithSet
<1>3. ram' = r /\ flash' = r /\ unsaved' = FALSE
      BY <1>2 DEF HandleDelete, Save, ClearFlag
<1>4. EditsRam(r) BY <1>2, <1>3 DEF EditsRam
<1>5. EditsFlash(r) BY <1>3 DEF EditsFlash, HandleDelete, Handle
<1>6. \A c \in {Blank, Fresh, Wished}: ram = c => r = c BY <1>2, NothingToClear
<1>7. EditsLater(r) BY <1>6 DEF EditsLater, HandleDelete
<1>8. StepOrSleep BY DEF StepOrSleep, HandleDelete
<1>9. EditsElse BY DEF EditsElse, HandleDelete, StepDone
<1> QED BY <1>4, <1>5, <1>7, <1>8, <1>9, EditIs

LEMMA HandleDeleteUnsavedEdits ==
  ASSUME Typed, HandleDeleteUnsaved
  PROVE  Edits
<1>1. ram \in Config BY DEF Typed, ConfigsTyped
<1>2. PICK r \in Config: /\ r = [ram EXCEPT !.set = FALSE] /\ r.flag = ram.flag
                         /\ r.smartlink = ram.smartlink /\ r.named = ram.named
      BY <1>1, WithSet
<1>3. ram' = r /\ UNCHANGED flash /\ unsaved' = TRUE
      BY <1>2 DEF HandleDeleteUnsaved, Save, ClearFlag
<1>4. EditsRam(r) BY <1>2, <1>3 DEF EditsRam
<1>5. EditsFlash(r) BY <1>2, <1>3 DEF EditsFlash
<1>6. \A c \in {Blank, Fresh, Wished}: ram = c => r = c BY <1>2, NothingToClear
<1>7. EditsLater(r) BY <1>6 DEF EditsLater, HandleDeleteUnsaved
<1>8. StepOrSleep BY DEF StepOrSleep, HandleDeleteUnsaved
<1>9. EditsElse BY DEF EditsElse, HandleDeleteUnsaved, StepDone
<1> QED BY <1>4, <1>5, <1>7, <1>8, <1>9, EditIs

LEMMA UpgradeGivesUpEdits ==
  ASSUME Typed, UpgradeGivesUp
  PROVE  Edits
<1>1. ram \in Config BY DEF Typed, ConfigsTyped
<1>2. PICK r \in Config: /\ r = [ram EXCEPT !.upgrade = FALSE] /\ r.flag = ram.flag
                         /\ r.smartlink = ram.smartlink /\ r.set = ram.set
                         /\ r.named = ram.named
      BY <1>1, WithUpgrade
<1>3. ram' = r /\ flash' = r /\ unsaved' = FALSE
      BY <1>2 DEF UpgradeGivesUp, Save, ClearFlag
<1>4. EditsRam(r) BY <1>2, <1>3 DEF EditsRam
<1>5. EditsFlash(r) BY <1>2, <1>3 DEF EditsFlash
<1>6. \A c \in {Blank, Fresh, Wished}: ram = c => r = c BY <1>2, NothingToClear
<1>7. EditsLater(r) BY <1>6 DEF EditsLater, UpgradeGivesUp
<1>8. StepOrSleep BY DEF StepOrSleep, UpgradeGivesUp
<1>9. EditsElse BY DEF EditsElse, UpgradeGivesUp, StepDone
<1> QED BY <1>4, <1>5, <1>7, <1>8, <1>9, EditIs

LEMMA UpgradeBeginsEdits ==
  ASSUME Typed, UpgradeBegins
  PROVE  Edits
<1>1. ram \in Config BY DEF Typed, ConfigsTyped
<1>2. PICK r \in Config: /\ r = [ram EXCEPT !.upgrade = FALSE] /\ r.flag = ram.flag
                         /\ r.smartlink = ram.smartlink /\ r.set = ram.set
                         /\ r.named = ram.named
      BY <1>1, WithUpgrade
<1>3. ram' = r /\ flash' = r /\ unsaved' = FALSE
      BY <1>2 DEF UpgradeBegins, Save, ClearFlag
<1>4. EditsRam(r) BY <1>2, <1>3 DEF EditsRam
<1>5. EditsFlash(r) BY <1>2, <1>3 DEF EditsFlash
<1>6. \A c \in {Blank, Fresh, Wished}: ram = c => r = c BY <1>2, NothingToClear
<1>7. EditsLater(r) BY <1>6 DEF EditsLater, UpgradeBegins
<1>8. StepOrSleep BY DEF StepOrSleep, UpgradeBegins
<1>9. EditsElse BY DEF EditsElse, UpgradeBegins, StepDone
<1> QED BY <1>4, <1>5, <1>7, <1>8, <1>9, EditIs

LEMMA HandleLockEdits ==
  ASSUME Typed, HandleLock, mac
  PROVE  Edits
<1>1. ram \in Config BY DEF Typed, ConfigsTyped
<1>2. PICK r \in Config: /\ r = [ram EXCEPT !.locked = TRUE, !.named = TRUE]
                         /\ r.flag = ram.flag /\ r.smartlink = ram.smartlink
                         /\ r.set = ram.set
      BY <1>1, WithLock
<1>3. ram' = r /\ flash' = r /\ unsaved' = FALSE
      BY <1>2 DEF HandleLock, Save, ClearFlag
<1>4. EditsRam(r) BY <1>2, <1>3 DEF EditsRam, HandleLock
<1>5. EditsFlash(r) BY <1>2, <1>3 DEF EditsFlash
<1>7. EditsLater(r) BY DEF EditsLater, HandleLock
<1>8. StepOrSleep BY DEF StepOrSleep, HandleLock
<1>9. EditsElse BY DEF EditsElse, HandleLock, StepDone
<1> QED BY <1>4, <1>5, <1>7, <1>8, <1>9, EditIs

LEMMA HandleSmartlinkEdits ==
  ASSUME Typed, HandleSmartlink, ram.locked
  PROVE  Edits
<1>1. ram \in Config BY DEF Typed, ConfigsTyped
<1>2. PICK r \in Config: /\ r = [ram EXCEPT !.locked = FALSE] /\ r.flag = ram.flag
                         /\ r.smartlink = ram.smartlink /\ r.set = ram.set
                         /\ r.named = ram.named
      BY <1>1, WithLocked
<1>3. ram' = r /\ flash' = r /\ unsaved' = FALSE
      BY <1>2 DEF HandleSmartlink, Save, ClearFlag
<1>4. EditsRam(r) BY <1>2, <1>3 DEF EditsRam
<1>5. EditsFlash(r) BY <1>2, <1>3 DEF EditsFlash
<1>6. \A c \in {Blank, Fresh, Wished}: ram = c => r = c BY <1>2, NothingToClear
<1>7. EditsLater(r) BY <1>6 DEF EditsLater, HandleSmartlink
<1>8. StepOrSleep BY DEF StepOrSleep, HandleSmartlink
<1>9. EditsElse BY DEF EditsElse, HandleSmartlink, StepDone
<1> QED BY <1>4, <1>5, <1>7, <1>8, <1>9, EditIs

LEMMA IdleEdits ==
  ASSUME Typed, \/ HandleLock /\ ~mac
                \/ HandleSmartlink /\ ~ram.locked
                \/ HandleDoSmartlink /\ hasKey
  PROVE  Edits
<1>1. UNCHANGED <<ram, flash, unsaved, overtaken>>
      BY DEF HandleLock, HandleSmartlink, HandleDoSmartlink, StepDone
<1>2. StepOrSleep BY DEF HandleLock, HandleSmartlink, HandleDoSmartlink, StepOrSleep
<1>3. EditsElse BY DEF HandleLock, HandleSmartlink, HandleDoSmartlink, StepDone, EditsElse
<1>4. ram \in Config BY DEF Typed, ConfigsTyped
<1>5. EditsRam(ram) BY <1>1 DEF EditsRam
<1>6. EditsFlash(ram) BY <1>1 DEF EditsFlash
<1>7. EditsLater(ram) BY <1>1 DEF EditsLater
<1> QED BY <1>2, <1>3, <1>4, <1>5, <1>6, <1>7, EditIs

LEMMA EditKinds ==
  ASSUME Typed,
         HandleUpgrade \/ HandleLock \/ HandleSet \/ HandleDelete \/ HandleDeleteUnsaved
         \/ HandleSmartlink \/ (HandleDoSmartlink /\ hasKey) \/ UpgradeGivesUp \/ UpgradeBegins
  PROVE  Edits
BY HandleUpgradeEdits, HandleLockEdits, HandleSetEdits, HandleDeleteEdits,
   HandleDeleteUnsavedEdits, HandleSmartlinkEdits, IdleEdits, UpgradeGivesUpEdits,
   UpgradeBeginsEdits

LEMMA AskKinds ==
  ASSUME Typed, Modes, LonelyTimer \/ (HandleDoSmartlink /\ ~hasKey)
  PROVE  Asks
<1>1. ram \in Config BY DEF Typed, ConfigsTyped
<1>2. CASE LonelyTimer
  <2>1. /\ ~hasKey /\ mode = "run" /\ "timer" \in Thread /\ step["timer"] = "no"
        /\ step' = [step EXCEPT !["timer"] = "saved"] /\ owed' = owed /\ ~lonely'
        /\ UNCHANGED <<hasKey, mac, mode, cause, clash, overtaken>>
        BY <1>2 DEF LonelyTimer, Modes, Typed, LonelyTyped, Thread
  <2>2. CASE ram.locked
    <3>1. PICK r \in Config: /\ r = [ram EXCEPT !.locked = FALSE] /\ r.flag = ram.flag
                             /\ r.smartlink = ram.smartlink /\ r.set = ram.set
          BY <1>1, WithLocked
    <3>2. ram' = r /\ flash' = r /\ unsaved' = FALSE BY <1>2, <2>2, <3>1 DEF LonelyTimer, Save
    <3> QED BY <2>1, <3>1, <3>2 DEF Asks
  <2>3. CASE ~ram.locked
    <3>1. PICK r \in Config: r = ram BY <1>1
    <3>2. UNCHANGED <<ram, flash, unsaved>> BY <1>2, <2>3 DEF LonelyTimer
    <3> QED BY <2>1, <3>1, <3>2 DEF Asks
  <2> QED BY <2>2, <2>3
<1>3. CASE HandleDoSmartlink /\ ~hasKey
  <2>1. PICK r \in Config: /\ r = [ram EXCEPT !.smartlink = TRUE] /\ r.flag = ram.flag
                           /\ r.smartlink /\ r.set = ram.set
        BY <1>1, WithSmartlink
  <2>2. /\ mode = "run" /\ "msg" \in Thread /\ step["msg"] = "no"
        /\ step' = [step EXCEPT !["msg"] = "saved"] /\ ram' = r /\ flash' = r
        /\ unsaved' = FALSE
        /\ UNCHANGED <<hasKey, mac, mode, cause, clash, overtaken, lonely>>
        BY <1>3, <2>1 DEF HandleDoSmartlink, Handle, Save, StepDone, Thread
  <2> QED BY <1>3, <2>1, <2>2 DEF Asks
<1> QED BY <1>2, <1>3

LEMMA ResetKinds ==
  ASSUME Typed, LongPress \/ HandleDoReset
  PROVE  Reads \/ Wipes
<1>1. CASE LongPress /\ cause = "start" BY <1>1 DEF LongPress, Reads
<1>2. CASE LongPress /\ cause # "start"
      BY <1>2 DEF LongPress, Wipes, Typed, KeyTyped, Thread
<1>3. CASE HandleDoReset BY <1>3 DEF HandleDoReset, Handle, Wipes, Thread
<1> QED BY <1>1, <1>2, <1>3

LEMMA KindsAre ==
  ASSUME Typed, Modes, [Next]_vars
  PROVE  Kinds
<1>1. CASE Main BY <1>1, StartKinds DEF Kinds
<1>2. CASE CloseNtp \/ SmartlinkOk \/ PowerFails BY <1>2, BootKinds DEF Kinds
<1>3. CASE StartThreads BY <1>3 DEF Kinds
<1>4. CASE LongPress BY <1>4, ResetKinds DEF Kinds
<1>5. CASE DhcpOk \/ ApDisconnect \/ Receive \/ UNCHANGED vars BY <1>5, RestKinds DEF Kinds
<1>6. CASE LonelyTimer BY <1>6, AskKinds DEF Kinds
<1>7. CASE MessageThread
  <2>1. CASE HandleUpgrade \/ HandleLock \/ HandleSet \/ HandleDelete \/ HandleDeleteUnsaved
             \/ HandleSmartlink
        BY <2>1, EditKinds DEF Kinds
  <2>2. CASE HandleLongUrl \/ HandleDoUpgrade \/ HandleReset BY <2>2, RestKinds DEF Kinds
  <2>3. CASE Restart BY <2>3, BootKinds DEF Kinds
  <2>4. CASE HandleDoSmartlink
    <3>1. CASE hasKey BY <2>4, <3>1, EditKinds DEF Kinds
    <3>2. CASE ~hasKey BY <2>4, <3>2, AskKinds DEF Kinds
    <3> QED BY <3>1, <3>2
  <2>5. CASE HandleDoReset BY <2>5, ResetKinds DEF Kinds
  <2> QED BY <1>7, <2>1, <2>2, <2>3, <2>4, <2>5 DEF MessageThread
<1>8. CASE UpgradeThread
  <2>1. CASE UpgradeWaits \/ Download BY <2>1, RestKinds DEF Kinds
  <2>2. CASE UpgradeGivesUp \/ UpgradeBegins BY <2>2, EditKinds DEF Kinds
  <2>3. CASE UpgradeEnds BY <2>3, BootKinds DEF Kinds
  <2> QED BY <1>8, <2>1, <2>2, <2>3 DEF UpgradeThread
<1>9. ASSUME NEW t \in Thread, ResetSteps(t) PROVE Kinds
  <2>1. CASE SetDefaults(t) \/ SaveReset(t) BY <2>1 DEF Kinds
  <2>2. CASE SendSmartLinkCmd(t) BY <2>2, BootKinds DEF Kinds
  <2> QED BY <1>9, <2>1, <2>2 DEF ResetSteps
<1> QED BY <1>1, <1>2, <1>3, <1>4, <1>5, <1>6, <1>7, <1>8, <1>9 DEF Next

-----------------------------------------------------------------------------
(* The two threads.                                                        *)
LEMMA Threads == "timer" \in Thread /\ "msg" \in Thread /\ \A t \in Thread: t = "timer" \/ t = "msg"
BY DEF Thread

LEMMA StepsOf ==
  ASSUME StepsTyped, NEW t \in Thread, NEW s, step' = [step EXCEPT ![t] = s]
  PROVE  step'[t] = s /\ \A u \in Thread \ {t}: step'[u] = step[u]
BY DEF StepsTyped

LEMMA Sleeps ==
  ASSUME Typed, StepOrSleep
  PROVE  /\ \A t \in Thread: \A s \in {"wiped", "fresh", "saved"}: step'[t] = s <=> step[t] = s
         /\ Erasing' <=> Erasing
         /\ \A t \in Thread: Resetting(t)' <=> Resetting(t)
         /\ mode # "run" => step' = step
<1>1. \A t \in Thread: \A s \in {"wiped", "fresh", "saved"}: step'[t] = s <=> step[t] = s
      BY Threads, StepsOf DEF StepOrSleep, Typed
<1>2. Erasing' <=> Erasing BY <1>1 DEF Erasing
<1>3. \A t \in Thread: Resetting(t)' <=> Resetting(t) BY <1>1 DEF Resetting
<1>4. mode # "run" => step' = step BY DEF StepOrSleep
<1> QED BY <1>1, <1>2, <1>3, <1>4

(* A restart.                                                              *)
LEMMA BootsCore ==
  ASSUME Typed, Core, Boots
  PROVE  Core'
<1>1. PICK r \in {"normal", "start", "ok"}:
        Boot(r) /\ UNCHANGED <<hasKey, clash>> /\ (owed' = FALSE \/ (owed' = owed /\ r # "ok"))
      BY DEF Boots
<1>2. PICK c \in Config: /\ c = Loaded(flash) /\ c.flag /\ (flash.flag => c = flash)
      BY LoadedIs DEF Typed, ConfigsTyped
<1>3. /\ mode' = "start" /\ cause' = r /\ ram' = c /\ flash' = c /\ mac' = FALSE
      /\ step' = [t \in Thread |-> "no"] /\ lonely' = FALSE /\ overtaken' = FALSE
      BY <1>1, <1>2 DEF Boot
<1>4. \A t \in Thread: step'[t] = "no" BY <1>3
<1>5. ~Erasing' /\ \A t \in Thread: ~Resetting(t)' BY <1>4 DEF Erasing, Resetting
<1>6. Saved' BY <1>3 DEF Saved
<1>7. Flagged' BY <1>2, <1>3 DEF Flagged
<1>8. Modes' BY <1>3, <1>4, Threads DEF Modes
<1>9. OneReset' /\ Erased' BY <1>5 DEF OneReset, Erased
<1>10. Owes' BY <1>1, <1>2, <1>3, <1>5 DEF Owes, Core
<1> QED BY <1>6, <1>7, <1>8, <1>9, <1>10 DEF Core

(* A request: nothing but a setting that is entered spoils what a reset has *)
(* made of the configuration, and a lock finds no address to answer to.     *)
LEMMA EditsErased ==
  ASSUME Typed, Core, NEW r \in Config, EditsRam(r), EditsFlash(r), EditsLater(r), StepOrSleep,
         EditsElse, hasKey, ~clash, NEW t \in Thread, Resetting(t)
  PROVE  Erases(t)'
<1>1. Erases(t) BY DEF Core, Erased
<1>2. ~mac /\ ~ram.named /\ ~flash.named BY <1>1 DEF Erases
<1>3. ~mac' /\ ~ram'.named /\ ~flash'.named
      BY <1>2 DEF EditsRam, EditsFlash, EditsElse
<1>4. \A s \in {"wiped", "fresh", "saved"}: step'[t] = s <=> step[t] = s BY Sleeps
<1>5. ASSUME ~overtaken'
      PROVE  ~overtaken /\ \A c \in {Blank, Fresh, Wished}: ram = c => ram' = c
      BY <1>2, <1>5 DEF EditsLater, EditsRam
<1>6. flash' = ram' \/ flash' = flash BY DEF EditsFlash, EditsRam
<1>7. mode' = mode /\ (mode # "run" => ~overtaken /\ ~overtaken')
      BY DEF Core, Modes, EditsElse, EditsLater
<1>8. ASSUME mode # "run", step[t] \in {"wiped", "fresh"} PROVE flash' \in {Blank, Fresh}
  <2>1. flash \in {Blank, Fresh} BY <1>1, <1>8 DEF Erases
  <2>2. ram \in {Blank, Fresh} BY <1>1, <1>7, <1>8 DEF Erases
  <2>3. ram' \in {Blank, Fresh} BY <1>5, <1>7, <1>8, <2>2
  <2> QED BY <1>6, <2>1, <2>3
<1>9. ASSUME mode # "run", step[t] = "wiped" PROVE ram' \in {Blank, Fresh}
  <2>2. ram \in {Blank, Fresh} BY <1>1, <1>9 DEF Erases
  <2> QED BY <1>5, <1>7, <1>9, <2>2
<1>10. ASSUME step[t] = "fresh", ~overtaken' PROVE ram' = Fresh
       BY <1>1, <1>5, <1>10 DEF Erases
<1>11. ASSUME step[t] = "saved", ~overtaken' PROVE ram' = Wished /\ flash' = Wished
  <2>1. ram = Wished /\ flash = Wished BY <1>1, <1>5, <1>11 DEF Erases
  <2>2. ram' = Wished BY <1>5, <1>11, <2>1
  <2> QED BY <1>6, <2>1, <2>2
<1> QED BY <1>3, <1>4, <1>7, <1>8, <1>9, <1>10, <1>11 DEF Erases

LEMMA EditsCore ==
  ASSUME Typed, Core, Edits
  PROVE  Core'
<1>1. PICK r \in Config:
        EditsRam(r) /\ EditsFlash(r) /\ EditsLater(r) /\ StepOrSleep /\ EditsElse
      BY DEF Edits
<1>2. /\ Erasing' <=> Erasing
      /\ \A t \in Thread: Resetting(t)' <=> Resetting(t)
      /\ \A t \in Thread: \A s \in {"wiped", "fresh", "saved"}: step'[t] = s <=> step[t] = s
      /\ mode # "run" => step' = step
      BY <1>1, Sleeps
<1>3. UNCHANGED <<hasKey, mac, mode, cause, owed, clash>> BY <1>1 DEF EditsElse
<1>4. Saved' BY <1>1, <1>2 DEF Core, Saved, EditsFlash, EditsRam
<1>5. ~Erasing => \A t \in Thread: step[t] # "wiped" BY DEF Erasing
<1>6. ram'.flag = ram.flag /\ (ram.smartlink => ram'.smartlink) BY <1>1 DEF EditsRam
<1>7. flash' = ram' \/ flash' = flash BY <1>1 DEF EditsFlash, EditsRam
<1>8. Flagged' BY <1>2, <1>5, <1>6, <1>7 DEF Core, Flagged
<1>9. Modes'
  <2>1. cause' = "start" => mode' \in {"start", "smartlink"} /\ \A t \in Thread: step'[t] = "no"
        BY <1>2, <1>3 DEF Core, Modes
  <2>2. mode' # "run" => step'["msg"] = "no" /\ ~overtaken'
        BY <1>1, <1>2, <1>3 DEF Core, Modes, EditsLater
  <2>3. lonely' => mode' = "run" BY <1>1, <1>3 DEF Core, Modes, EditsElse
  <2>4. step'["timer"] \in {"wiped", "fresh"} => hasKey'
        BY <1>2, <1>3, Threads DEF Core, Modes
  <2> QED BY <2>1, <2>2, <2>3, <2>4 DEF Modes
<1>10. OneReset' BY <1>2, <1>3 DEF Core, OneReset
<1>11. Owes' BY <1>2, <1>3, <1>6, <1>7, Threads DEF Core, Owes
<1>12. Erased'
  <2> SUFFICES ASSUME hasKey', ~clash', NEW t \in Thread, Resetting(t)' PROVE Erases(t)'
      BY DEF Erased
  <2>1. hasKey /\ ~clash /\ Resetting(t) BY <1>2, <1>3
  <2> QED BY <1>1, <2>1, EditsErased
<1> QED BY <1>4, <1>8, <1>9, <1>10, <1>11, <1>12 DEF Core

(* The wish for smart-link of a product without a key.                      *)
LEMMA AsksCore ==
  ASSUME Typed, Core, Asks
  PROVE  Core'
<1>1. PICK t \in Thread, r \in Config:
       /\ ~hasKey /\ mode = "run" /\ step[t] = "no" /\ step' = [step EXCEPT ![t] = "saved"]
       /\ ram' = r /\ r.flag = ram.flag /\ (ram.smartlink => r.smartlink) /\ (ram.set => r.set)
       /\ \/ flash' = r /\ unsaved' = FALSE
          \/ UNCHANGED <<flash, unsaved>> /\ r = ram
       /\ owed' = owed \/ (t = "msg" /\ r.smartlink /\ flash' = r)
       /\ UNCHANGED <<hasKey, mac, mode, cause, clash, overtaken>>
       /\ lonely' => lonely
      BY DEF Asks
<1>2. step'[t] = "saved" /\ \A u \in Thread \ {t}: step'[u] = step[u]
      BY <1>1, StepsOf DEF Typed
<1>3. \A u \in Thread: \A s \in {"wiped", "fresh"}: step'[u] = s <=> step[u] = s BY <1>1, <1>2
<1>4. Erasing' <=> Erasing BY <1>3 DEF Erasing
<1>5. Saved' BY <1>1, <1>4 DEF Core, Saved
<1>6. ~Erasing => \A u \in Thread: step[u] # "wiped" BY DEF Erasing
<1>7. flash' = ram' \/ flash' = flash BY <1>1
<1>8. Flagged' BY <1>1, <1>3, <1>4, <1>6, <1>7 DEF Core, Flagged
<1>9. Modes' BY <1>1, <1>3, Threads DEF Core, Modes
<1>10. OneReset' /\ Erased' BY <1>1 DEF OneReset, Erased
<1>11. Owes'
  <2> SUFFICES ASSUME owed', ~clash' PROVE Owes' BY DEF Owes
  <2>1. CASE owed BY <1>1, <1>4, <1>7, <2>1 DEF Core, Owes
  <2>2. CASE ~owed
    <3>1. t = "msg" /\ r.smartlink /\ flash' = r BY <1>1, <2>2
    <3>2. step["timer"] \notin {"wiped", "fresh"} BY <1>1 DEF Core, Modes
    <3>3. ~Erasing BY <1>1, <3>1, <3>2, Threads DEF Erasing
    <3>4. r.flag BY <1>1, <1>6, <3>3 DEF Core, Flagged
    <3> QED BY <1>1, <1>4, <3>1, <3>3, <3>4 DEF Owes
  <2> QED BY <2>1, <2>2
<1> QED BY <1>5, <1>8, <1>9, <1>10, <1>11 DEF Core

(* The start comes to its end.  A wish is kept: the start sees it, or is the *)
(* one that follows a smart-link, and then a reset at its side is a clash.   *)
LEMMA StartsErased ==
  ASSUME Typed, Core, Starts, hasKey, ~clash', NEW t \in Thread, Resetting(t)
  PROVE  Erases(t)'
<1>1. PICK c \in Config: /\ c = Loaded(flash) /\ c.flag /\ (c = flash \/ c = Fresh)
                         /\ (flash.flag => c = flash) /\ (~flash.flag => c = Fresh)
      BY LoadedIs DEF Typed, ConfigsTyped
<1>0. clash => clash' BY Zenon DEF Starts
<1>2. /\ mode = "start" /\ ram' = flash' /\ mode' \in {"smartlink", "upgrade", "init"}
      /\ UNCHANGED <<mac, step, overtaken>>
      BY DEF Starts
<1>3. \/ flash' = c
      \/ /\ flash' = [c EXCEPT !.smartlink = c.smartlink /\ cause # "ok"]
         /\ ResetType(cause, c) \in {"linked", "normal"}
         /\ (ResetType(cause, c) = "normal" => ~c.smartlink)
         /\ clash' = (clash \/ (cause = "ok" /\ step["timer"] = "saved"))
      BY <1>1 DEF Starts
<1>4. t = "timer" BY <1>2, Threads DEF Core, Modes, Resetting
<1>5. ~overtaken /\ Erases(t) BY <1>0, <1>2 DEF Core, Modes, Erased
<1>6. CASE step[t] \in {"wiped", "fresh"}
  <2>1. flash \in {Blank, Fresh}
    <3>1. mode # "run" BY <1>2
    <3> QED BY <1>5, <1>6, <3>1 DEF Erases
  <2>2. c = Fresh BY <1>1, <2>1, Configs
  <2>3. [Fresh EXCEPT !.smartlink = Fresh.smartlink /\ cause # "ok"] = Fresh
    <3>1. Fresh.smartlink = FALSE BY DEF Fresh, Blank
    <3>2. PICK b \in BOOLEAN: b = (Fresh.smartlink /\ cause # "ok") OBVIOUS
    <3>3. [Fresh EXCEPT !.smartlink = FALSE] = Fresh BY <3>1, Configs DEF Config
    <3>4. b = FALSE BY <3>1, <3>2
    <3> QED BY <3>2, <3>3, <3>4
  <2>4. flash' = Fresh BY <1>3, <2>2, <2>3
  <2>5. ~mac BY <1>5 DEF Erases
  <2> QED BY <1>2, <1>6, <2>4, <2>5, Configs DEF Erases
<1>7. CASE step[t] = "saved"
  <2>1. flash = Wished BY <1>5, <1>7 DEF Erases
  <2>2. c = Wished BY <1>1, <2>1, Configs
  <2>3. CASE flash' = c
    <3>1. ~mac BY <1>5 DEF Erases
    <3> QED BY <1>2, <1>7, <2>2, <2>3, <3>1, Configs DEF Erases
  <2>4. CASE flash' # c
    <3>1. ResetType(cause, c) = "linked" BY <1>3, <2>2, <2>4, Configs
    <3>2. cause = "ok" BY <3>1 DEF ResetType
    <3> QED BY <1>3, <1>4, <1>7, <2>4, <3>2
  <2> QED BY <2>3, <2>4
<1> QED BY <1>6, <1>7 DEF Resetting

LEMMA StartsCore ==
  ASSUME Typed, Core, Starts
  PROVE  Core'
<1>1. PICK c \in Config: c = Loaded(flash) /\ c.flag /\ (flash.flag => c = flash)
      BY LoadedIs DEF Typed, ConfigsTyped
<1>0. clash => clash' BY Zenon DEF Starts
<1>2. /\ mode = "start" /\ ram' = flash'
      /\ UNCHANGED <<hasKey, mac, cause, step, lonely, owed, overtaken, unsaved>>
      BY DEF Starts
<1>3. \/ /\ mode' \in {"smartlink", "upgrade"} /\ ResetType(cause, c) = mode' /\ flash' = c
      \/ /\ flash' = [c EXCEPT !.smartlink = c.smartlink /\ cause # "ok"]
         /\ mode' = "init" /\ ResetType(cause, c) \in {"linked", "normal"}
         /\ (ResetType(cause, c) = "normal" => ~c.smartlink)
         /\ clash' = (clash \/ (cause = "ok" /\ step["timer"] = "saved"))
      BY <1>1 DEF Starts
<1>4. Erasing' <=> Erasing BY <1>2 DEF Erasing
<1>5. Saved' BY <1>2 DEF Saved
<1>6. flash'.flag BY <1>1, <1>3, WithSmartlink
<1>7. Flagged' BY <1>2, <1>6 DEF Flagged
<1>8. step["msg"] = "no" /\ ~overtaken /\ ~lonely BY <1>2 DEF Core, Modes
<1>9. Modes'
  <2>1. cause = "start" => mode' = "smartlink" BY <1>3 DEF ResetType
  <2> QED BY <1>2, <1>8, <2>1 DEF Core, Modes
<1>10. OneReset' BY <1>0, <1>2 DEF Core, OneReset, Resetting
<1>11. Owes'
  <2> SUFFICES ASSUME owed, ~clash' PROVE Owes' BY <1>2 DEF Owes
  <2>1. /\ ~clash /\ flash.flag /\ flash.smartlink /\ ~Erasing
        /\ (cause = "ok" => step["timer"] = "saved")
        BY <1>0, <1>2 DEF Core, Owes
  <2>2. c = flash BY <1>1, <2>1
  <2>3. mode' \in {"smartlink", "upgrade"} /\ flash' = c
    <3>1. ResetType(cause, c) = "linked" => cause = "ok" BY DEF ResetType
    <3> QED BY <1>3, <2>1, <2>2, <3>1
  <2> QED BY <1>1, <1>2, <1>4, <2>1, <2>2, <2>3 DEF Owes
<1>12. Erased'
  <2> SUFFICES ASSUME hasKey', ~clash', NEW t \in Thread, Resetting(t)' PROVE Erases(t)'
      BY DEF Erased
  <2>1. hasKey /\ Resetting(t) BY <1>2 DEF Resetting
  <2> QED BY <2>1, StartsErased
<1> QED BY <1>5, <1>7, <1>9, <1>10, <1>11, <1>12 DEF Core

(* The threads start: a reset that is not over by then meets them.          *)
LEMMA StartThreadsCore ==
  ASSUME Typed, Core, StartThreads
  PROVE  Core'
<1>1. /\ mode = "init" /\ mode' = "run" /\ mac' = TRUE /\ lonely' = ~hasKey
      /\ clash' = (clash \/ step["timer"] # "no")
      /\ UNCHANGED <<ram, flash, cause, step, hasKey, owed, overtaken, unsaved>>
      BY DEF StartThreads
<1>2. step["msg"] = "no" /\ cause # "start" BY <1>1 DEF Core, Modes
<1>3. Erasing' <=> Erasing BY <1>1 DEF Erasing
<1>4. Saved' BY <1>1, <1>3 DEF Core, Saved
<1>5. Flagged' BY <1>1, <1>3 DEF Core, Flagged
<1>6. Modes' BY <1>1, <1>2 DEF Core, Modes
<1>7. OneReset' BY <1>1 DEF Core, OneReset, Resetting
<1>8. Owes' BY <1>1, <1>3 DEF Core, Owes
<1>9. Erased' BY <1>1, <1>2, Threads DEF Erased, Resetting
<1> QED BY <1>4, <1>5, <1>6, <1>7, <1>8, <1>9 DEF Core

LEMMA ReadsCore ==
  ASSUME Typed, Core, Reads
  PROVE  Core'
<1>1. PICK c \in Config: c = Loaded(flash) /\ c.flag /\ (flash.flag => c = flash)
      BY LoadedIs DEF Typed, ConfigsTyped
<1>2. /\ cause = "start" /\ ram' = c /\ flash' = c /\ mac' = FALSE
      /\ UNCHANGED <<hasKey, mode, cause, step, lonely, owed, clash, overtaken, unsaved>>
      BY <1>1 DEF Reads
<1>3. \A t \in Thread: step[t] = "no" BY <1>2 DEF Core, Modes
<1>4. ~Erasing' /\ (\A t \in Thread: ~Resetting(t)') BY <1>2, <1>3 DEF Erasing, Resetting
<1>5. Saved' BY <1>2 DEF Saved
<1>6. Flagged' BY <1>1, <1>2 DEF Flagged
<1>7. Modes' BY <1>2, <1>3 DEF Core, Modes
<1>8. OneReset' /\ Erased' BY <1>4 DEF OneReset, Erased
<1>9. Owes' BY <1>1, <1>2, <1>4 DEF Core, Owes
<1> QED BY <1>5, <1>6, <1>7, <1>8, <1>9 DEF Core

(* A factory reset.                                                        *)
LEMMA WipesCore ==
  ASSUME Typed, Core, Wipes
  PROVE  Core'
<1>1. PICK t \in Thread:
       /\ Wipe(t) /\ step[t] = "no"
       /\ (t = "timer" => hasKey /\ cause # "start")
       /\ (t = "msg" => mode = "run")
       /\ UNCHANGED <<hasKey, mode, cause, lonely>>
      BY DEF Wipes
<1>2. /\ step'[t] = "wiped" /\ (\A u \in Thread \ {t}: step'[u] = step[u])
      BY <1>1, StepsOf DEF Wipe, Typed
<1>3. /\ ram' = Blank /\ flash' = Blank /\ mac' = FALSE /\ owed' = FALSE /\ overtaken' = FALSE
      /\ clash' = (clash \/ \E u \in Thread \ {t}: step[u] \in {"wiped", "fresh", "saved"})
      BY <1>1 DEF Wipe
<1>4. Erasing' BY <1>2 DEF Erasing
<1>5. Saved' BY <1>4 DEF Saved
<1>6. Flagged' BY <1>2, <1>4 DEF Flagged
<1>7. Modes'
  <2>1. cause # "start" BY <1>1, Threads DEF Core, Modes
  <2>2. mode' # "run" => step'["msg"] = "no" BY <1>1, <1>2, Threads DEF Core, Modes
  <2>3. step'["timer"] \in {"wiped", "fresh"} => hasKey' BY <1>1, <1>2, Threads DEF Core, Modes
  <2> QED BY <1>1, <1>3, <2>1, <2>2, <2>3 DEF Core, Modes
<1>8. ~clash' => \A u \in Thread \ {t}: ~Resetting(u)' BY <1>2, <1>3 DEF Resetting
<1>9. OneReset' BY <1>8 DEF OneReset
<1>10. Owes' BY <1>3 DEF Owes
<1>11. Erased'
  <2>1. Erases(t)' BY <1>2, <1>3, Configs DEF Erases
  <2> QED BY <1>8, <2>1 DEF Erased
<1> QED BY <1>5, <1>6, <1>7, <1>9, <1>10, <1>11 DEF Core

LEMMA SetDefaultsCore ==
  ASSUME Typed, Core, NEW t \in Thread, SetDefaults(t)
  PROVE  Core'
<1>1. /\ step[t] = "wiped" /\ step' = [step EXCEPT ![t] = "fresh"]
      /\ ram' = Fresh /\ mac' = FALSE /\ overtaken' = FALSE
      /\ UNCHANGED <<flash, mode, cause, lonely, hasKey, owed, clash, unsaved>>
      BY DEF SetDefaults
<1>2. step'[t] = "fresh" /\ \A u \in Thread \ {t}: step'[u] = step[u]
      BY <1>1, StepsOf DEF Typed
<1>3. Erasing /\ Erasing' BY <1>1, <1>2 DEF Erasing
<1>4. \A u \in Thread: Resetting(u)' <=> Resetting(u) BY <1>1, <1>2 DEF Resetting
<1>5. Saved' BY <1>3 DEF Saved
<1>6. Flagged' BY <1>1, <1>3, Configs DEF Flagged
<1>7. Modes' BY <1>1, <1>2, Threads DEF Core, Modes
<1>8. OneReset' BY <1>1, <1>4 DEF Core, OneReset
<1>9. Owes' BY <1>1, <1>3 DEF Core, Owes
<1>10. Erased'
  <2> SUFFICES ASSUME hasKey', ~clash', NEW u \in Thread, Resetting(u)' PROVE Erases(u)'
      BY DEF Erased
  <2>1. hasKey /\ ~clash /\ Resetting(u) /\ Resetting(t) BY <1>1, <1>4 DEF Resetting
  <2>2. u = t /\ Erases(t) BY <2>1 DEF Core, OneReset, Erased
  <2>3. ~flash.named /\ (mode # "run" => flash \in {Blank, Fresh}) BY <1>1, <2>2 DEF Erases
  <2> QED BY <1>1, <1>2, <2>2, <2>3, Configs DEF Erases
<1> QED BY <1>5, <1>6, <1>7, <1>8, <1>9, <1>10 DEF Core

LEMMA SaveResetCore ==
  ASSUME Typed, Core, NEW t \in Thread, SaveReset(t)
  PROVE  Core'
<1>1. PICK r \in Config: /\ r = [ram EXCEPT !.smartlink = TRUE] /\ r.flag = ram.flag
                         /\ r.smartlink /\ r.named = ram.named
      BY WithSmartlink DEF Typed, ConfigsTyped
<1>2. /\ step[t] = "fresh" /\ step' = [step EXCEPT ![t] = "saved"]
      /\ ram' = r /\ flash' = r /\ unsaved' = FALSE /\ owed' = TRUE
      /\ UNCHANGED <<mac, mode, cause, lonely, hasKey, clash, overtaken>>
      BY <1>1 DEF SaveReset, Save
<1>3. step'[t] = "saved" /\ \A u \in Thread \ {t}: step'[u] = step[u]
      BY <1>2, StepsOf DEF Typed
<1>4. \A u \in Thread: Resetting(u)' <=> Resetting(u) BY <1>2, <1>3 DEF Resetting
<1>5. Saved' BY <1>2 DEF Saved
<1>6. (\A u \in Thread: step'[u] # "wiped") => r.flag BY <1>1, <1>2, <1>3 DEF Core, Flagged
<1>7. Flagged' BY <1>2, <1>6 DEF Flagged, Erasing
<1>8. Modes' BY <1>2, <1>3, Threads DEF Core, Modes
<1>9. OneReset' BY <1>2, <1>4 DEF Core, OneReset
<1>10. Owes'
  <2> SUFFICES ASSUME ~clash PROVE Owes' BY <1>2 DEF Owes
  <2>1. \A u \in Thread \ {t}: step[u] \notin {"wiped", "fresh"}
    <3>1. CASE hasKey BY <1>2, <3>1 DEF Core, OneReset, Resetting
    <3>2. CASE ~hasKey BY <1>2, <3>2, Threads DEF Core, Modes
    <3> QED BY <3>1, <3>2
  <2>2. \A u \in Thread: step'[u] \notin {"wiped", "fresh"} BY <1>3, <2>1
  <2>3. ~Erasing' /\ r.flag BY <1>6, <2>2 DEF Erasing
  <2>4. mode = "start" => t = "timer" BY <1>2, Threads DEF Core, Modes
  <2> QED BY <1>1, <1>2, <1>3, <2>3, <2>4 DEF Owes
<1>11. Erased'
  <2> SUFFICES ASSUME hasKey', ~clash', NEW u \in Thread, Resetting(u)' PROVE Erases(u)'
      BY DEF Erased
  <2>1. hasKey /\ ~clash /\ Resetting(u) /\ Resetting(t) BY <1>2, <1>4 DEF Resetting
  <2>2. u = t /\ Erases(t) BY <2>1 DEF Core, OneReset, Erased
  <2>3. ~mac /\ ~ram.named /\ (~overtaken => ram = Fresh) BY <1>2, <2>2 DEF Erases
  <2>4. ~overtaken => r = Wished BY <1>1, <2>3, Wishes
  <2> QED BY <1>1, <1>2, <1>3, <2>2, <2>3, <2>4 DEF Erases
<1> QED BY <1>5, <1>7, <1>8, <1>9, <1>10, <1>11 DEF Core

LEMMA CoreKept ==
  ASSUME Typed, Core, [Next]_vars
  PROVE  Core'
<1>1. Kinds BY KindsAre DEF Core
<1> QED BY <1>1, BootsCore, EditsCore, AsksCore, StartsCore, StartThreadsCore, ReadsCore,
       WipesCore, SetDefaultsCore, SaveResetCore DEF Kinds

-----------------------------------------------------------------------------
(* The types are kept, group by group.                                     *)
LEMMA BootTypes ==
  ASSUME Typed, NEW r \in {"normal", "start", "ok"}, Boot(r)
  PROVE  /\ ConfigsTyped' /\ ModesTyped' /\ StepsTyped' /\ list' = <<>> /\ lonely' = FALSE
         /\ keyOn' \in BOOLEAN /\ (keyOn' => hasKey) /\ count' = 0
         /\ mac' \in BOOLEAN /\ dhcp' \in BOOLEAN /\ cut' \in BOOLEAN
         /\ overtaken' \in BOOLEAN /\ unsaved' \in BOOLEAN
<1>1. PICK c \in Config: c = Loaded(flash) BY LoadedIs DEF Typed, ConfigsTyped
<1>2. ConfigsTyped' BY <1>1 DEF Boot, ConfigsTyped
<1>3. ModesTyped' BY DEF Boot, ModesTyped, Mode
<1>4. StepsTyped' BY DEF Boot, StepsTyped
<1>5. list' = <<>> /\ lonely' = FALSE /\ count' = 0 BY DEF Boot
<1>6. keyOn' \in BOOLEAN /\ (keyOn' => hasKey) BY DEF Boot
<1>7. cut' \in BOOLEAN BY DEF Boot, Typed, FlagsTyped, Erasing
<1>8. mac' \in BOOLEAN /\ dhcp' \in BOOLEAN /\ overtaken' \in BOOLEAN /\ unsaved' \in BOOLEAN
      BY DEF Boot
<1> QED BY <1>2, <1>3, <1>4, <1>5, <1>6, <1>7, <1>8

LEMMA BootingTypes ==
  ASSUME Typed,
         \/ PowerFails \/ CloseNtp \/ SmartlinkOk \/ Restart \/ UpgradeEnds
         \/ \E t \in Thread: SendSmartLinkCmd(t)
         \/ \E c \in Config: AskAgain(c)
  PROVE  Typed'
<1>1. PICK r \in {"normal", "start", "ok"}: Boot(r)
      BY DEF PowerFails, CloseNtp, SmartlinkOk, Restart, UpgradeEnds, SendSmartLinkCmd,
         AskAgain
<1>2. UNCHANGED <<hasKey, clash>> /\ ntp' \in {ntp, FALSE} /\ owed' \in {owed, FALSE}
      BY DEF PowerFails, CloseNtp, SmartlinkOk, Restart, UpgradeEnds, SendSmartLinkCmd,
         AskAgain
<1>3. requests' = requests /\ presses' = presses
      BY DEF PowerFails, CloseNtp, SmartlinkOk, Restart, UpgradeEnds, SendSmartLinkCmd,
         AskAgain, bounds
<1>4. crashes' = crashes \/ (crashes < MaxCrashes /\ crashes' = crashes + 1)
      BY DEF PowerFails, CloseNtp, SmartlinkOk, Restart, UpgradeEnds, SendSmartLinkCmd,
         AskAgain, bounds
<1>5. /\ ConfigsTyped' /\ ModesTyped' /\ StepsTyped' /\ list' = <<>> /\ lonely' = FALSE
      /\ keyOn' \in BOOLEAN /\ (keyOn' => hasKey) /\ count' = 0
      /\ mac' \in BOOLEAN /\ dhcp' \in BOOLEAN /\ cut' \in BOOLEAN
      /\ overtaken' \in BOOLEAN /\ unsaved' \in BOOLEAN
      BY <1>1, BootTypes
<1>6. ListTyped' BY <1>5 DEF ListTyped
<1>7. KeyTyped' BY <1>2, <1>5 DEF Typed, KeyTyped
<1>8. LonelyTyped' BY <1>5 DEF LonelyTyped
<1>9. FlagsTyped' BY <1>2, <1>5 DEF Typed, FlagsTyped
<1>10. NumbersTyped' BY <1>3, <1>4, <1>5, DeviceConstants DEF Typed, NumbersTyped
<1> QED BY <1>5, <1>6, <1>7, <1>8, <1>9, <1>10 DEF Typed

LEMMA StartTypes ==
  ASSUME Typed, Main
  PROVE  Typed'
<1>1. PICK c \in Config: c = Loaded(flash) BY LoadedIs DEF Typed, ConfigsTyped
<1>2. CASE AskAgain(c) BY <1>2, BootingTypes
<1>3. CASE StartSmartlink(c) \/ StartUpgrade(c)
  <2>1. /\ ram' = c /\ flash' = c /\ mode' \in Mode /\ mode = "start" /\ mode' # "run"
        /\ UNCHANGED <<mac, cause, keyOn, list, step, dhcp, lonely, phase, count, ntp, hasKey,
                       requests, presses, crashes, owed, cut, clash, overtaken, unsaved>>
        BY <1>3 DEF Main, StartSmartlink, StartUpgrade, upgradeVars, bounds, history, Mode
  <2>2. ConfigsTyped' BY <1>1, <2>1 DEF ConfigsTyped
  <2>3. ModesTyped' /\ StepsTyped' BY <2>1 DEF Typed, ModesTyped, StepsTyped
  <2>4. ListTyped' BY <2>1 DEF Typed, ListTyped
  <2>5. KeyTyped' /\ LonelyTyped' BY <2>1 DEF Typed, KeyTyped, LonelyTyped
  <2>6. FlagsTyped' BY <2>1 DEF Typed, FlagsTyped
  <2>7. NumbersTyped' BY <2>1 DEF Typed, NumbersTyped
  <2> QED BY <2>2, <2>3, <2>4, <2>5, <2>6, <2>7 DEF Typed
<1>4. CASE GoOn(c)
  <2>1. PICK b \in BOOLEAN: b = (c.smartlink /\ cause # "ok") OBVIOUS
  <2>2. ram' = [c EXCEPT !.smartlink = b] /\ flash' = [c EXCEPT !.smartlink = b]
        BY <1>4, <2>1 DEF GoOn
  <2>3. /\ mode' = "init" /\ mode = "start" /\ clash' \in BOOLEAN
        /\ UNCHANGED <<mac, cause, keyOn, list, step, dhcp, lonely, phase, count, ntp, hasKey,
                       requests, presses, crashes, owed, cut, overtaken, unsaved>>
        BY <1>4 DEF Main, GoOn, upgradeVars, bounds, Typed, FlagsTyped
  <2>4. ConfigsTyped' BY <2>2, WithSmartlink DEF ConfigsTyped
  <2>5. ModesTyped' /\ StepsTyped' BY <2>3 DEF Typed, ModesTyped, StepsTyped, Mode
  <2>6. ListTyped' BY <2>3 DEF Typed, ListTyped
  <2>7. KeyTyped' /\ LonelyTyped' BY <2>3 DEF Typed, KeyTyped, LonelyTyped
  <2>8. FlagsTyped' BY <2>3 DEF Typed, FlagsTyped
  <2>9. NumbersTyped' BY <2>3 DEF Typed, NumbersTyped
  <2> QED BY <2>4, <2>5, <2>6, <2>7, <2>8, <2>9 DEF Typed
<1> QED BY <1>1, <1>2, <1>3, <1>4 DEF Main

(* The steps of the threads, of the key and of the network.                 *)
LEMMA ResetTypes ==
  ASSUME Typed,
         \/ LongPress \/ HandleDoReset \/ LonelyTimer
         \/ \E t \in Thread: SetDefaults(t) \/ SaveReset(t)
  PROVE  Typed'
<1>1. ConfigsTyped'
  <2>1. ram \in Config /\ flash \in Config BY DEF Typed, ConfigsTyped
  <2>2. CASE LongPress BY <2>1, <2>2, Configs, LoadedIs DEF LongPress, Wipe, ConfigsTyped
  <2>3. CASE HandleDoReset BY <2>3, Configs DEF HandleDoReset, Wipe, ConfigsTyped
  <2>4. CASE LonelyTimer
    <3>1. CASE ram.locked
          BY <2>1, <2>4, <3>1, WithLocked DEF LonelyTimer, Save, ConfigsTyped
    <3>2. CASE ~ram.locked BY <2>1, <2>4, <3>2 DEF LonelyTimer, ConfigsTyped
    <3> QED BY <3>1, <3>2
  <2>5. ASSUME NEW t \in Thread, SetDefaults(t) PROVE ConfigsTyped'
        BY <2>1, <2>5, Configs DEF SetDefaults, ConfigsTyped
  <2>6. ASSUME NEW t \in Thread, SaveReset(t) PROVE ConfigsTyped'
        BY <2>1, <2>6, WithSmartlink DEF SaveReset, Save, ConfigsTyped
  <2> QED BY <2>2, <2>3, <2>4, <2>5, <2>6
<1>2. StepsTyped'
      BY Threads
         DEF LongPress, HandleDoReset, LonelyTimer, SetDefaults, SaveReset, Wipe, Typed, 
         StepsTyped
<1>3. UNCHANGED <<mode, cause, phase, count, keyOn, list, ntp, hasKey, requests, crashes, cut>>
      BY DEF LongPress, HandleDoReset, LonelyTimer, SetDefaults, SaveReset, bounds,
         upgradeVars
<1>4. lonely' = lonely \/ lonely' = FALSE
      BY DEF LongPress, HandleDoReset, LonelyTimer, SetDefaults, SaveReset
<1>5. presses' = presses \/ (presses < MaxPresses /\ presses' = presses + 1)
      BY DEF LongPress, HandleDoReset, LonelyTimer, SetDefaults, SaveReset, bounds
<1>6. /\ mac' \in {mac, FALSE} /\ dhcp' \in {dhcp, FALSE} /\ owed' \in {owed, FALSE, TRUE}
      /\ overtaken' \in {overtaken, FALSE} /\ unsaved' \in {unsaved, FALSE}
      BY DEF LongPress, HandleDoReset, LonelyTimer, SetDefaults, SaveReset, Wipe, Save
<1>7. clash' \in BOOLEAN
      BY DEF LongPress, HandleDoReset, LonelyTimer, SetDefaults, SaveReset, Wipe, Typed,
         FlagsTyped
<1>8. ModesTyped' BY <1>3 DEF Typed, ModesTyped
<1>9. ListTyped' BY <1>3 DEF Typed, ListTyped
<1>10. KeyTyped' BY <1>3 DEF Typed, KeyTyped
<1>13. LonelyTyped'
  <2>1. CASE lonely' = lonely BY <1>3, <2>1 DEF Typed, LonelyTyped
  <2>2. CASE lonely' = FALSE BY <2>2 DEF LonelyTyped
  <2> QED BY <1>4, <2>1, <2>2
<1>11. FlagsTyped' BY <1>3, <1>6, <1>7 DEF Typed, FlagsTyped
<1>12. NumbersTyped' BY <1>3, <1>5, DeviceConstants DEF Typed, NumbersTyped
<1> QED BY <1>1, <1>2, <1>8, <1>9, <1>10, <1>11, <1>12, <1>13 DEF Typed

LEMMA NetworkTypes ==
  ASSUME Typed, StartThreads \/ DhcpOk \/ ApDisconnect \/ UNCHANGED vars
  PROVE  Typed'
<1>1. UNCHANGED <<ram, flash, cause, phase, count, keyOn, list, step, ntp, hasKey, requests,
                  presses, crashes, owed, cut, overtaken, unsaved>>
      BY DEF StartThreads, DhcpOk, ApDisconnect, vars, config, upgradeVars, bounds, history
<1>2. /\ mac' \in BOOLEAN /\ dhcp' \in BOOLEAN /\ clash' \in BOOLEAN
      BY DEF StartThreads, DhcpOk, ApDisconnect, vars, config, history, Typed, FlagsTyped
<1>3. mode' \in {mode, "run"} /\ (mode = "run" => mode' = "run")
      BY DEF StartThreads, DhcpOk, ApDisconnect, vars
<1>4. lonely' \in {lonely, FALSE, ~hasKey}
      BY DEF StartThreads, DhcpOk, ApDisconnect, vars
<1>5. ConfigsTyped' /\ StepsTyped' BY <1>1 DEF Typed, ConfigsTyped, StepsTyped
<1>6. ModesTyped' BY <1>1, <1>3 DEF Typed, ModesTyped, Mode
<1>7. ListTyped' BY <1>1, <1>3 DEF Typed, ListTyped
<1>8. KeyTyped' /\ LonelyTyped'
      BY <1>1, <1>4, DeviceConstants DEF Typed, KeyTyped, LonelyTyped
<1>9. FlagsTyped' BY <1>1, <1>2 DEF Typed, FlagsTyped
<1>10. NumbersTyped' BY <1>1 DEF Typed, NumbersTyped
<1> QED BY <1>5, <1>6, <1>7, <1>8, <1>9, <1>10 DEF Typed

LEMMA UpgradeTypes ==
  ASSUME Typed, UpgradeWaits \/ UpgradeGivesUp \/ UpgradeBegins \/ Download
  PROVE  Typed'
<1>1. UNCHANGED <<mac, mode, cause, keyOn, list, step, dhcp, lonely, ntp, hasKey, requests,
                  presses, crashes, owed, cut, clash, overtaken>>
      BY DEF UpgradeWaits, UpgradeGivesUp, UpgradeBegins, Download, bounds, history, config
<1>2. ConfigsTyped' /\ unsaved' \in BOOLEAN
  <2>1. ram \in Config /\ flash \in Config /\ unsaved \in BOOLEAN
        BY DEF Typed, ConfigsTyped, FlagsTyped
  <2>2. CASE UpgradeWaits \/ Download
        BY <2>1, <2>2 DEF UpgradeWaits, Download, config, history, ConfigsTyped
  <2>3. CASE UpgradeGivesUp \/ UpgradeBegins
        BY <2>1, <2>3, WithUpgrade DEF UpgradeGivesUp, UpgradeBegins, ClearFlag, Save,
           ConfigsTyped
  <2> QED BY <2>2, <2>3
<1>3. phase' \in {"wait", "load", "over"}
      BY DEF UpgradeWaits, UpgradeGivesUp, UpgradeBegins, Download, Typed, ModesTyped
<1>4. count' = 0 \/ count' = count \/ (count' = count + 1 /\ count < MaxWait - 1)
      \/ (count' = count + 1 /\ count + 1 < MaxTries)
      BY DEF UpgradeWaits, UpgradeGivesUp, UpgradeBegins, Download
<1>5. count' \in 0 .. (MaxWait + MaxTries)
      BY <1>4, DeviceConstants DEF Typed, NumbersTyped
<1>6. ModesTyped' /\ StepsTyped' BY <1>1, <1>3 DEF Typed, ModesTyped, StepsTyped
<1>7. ListTyped' BY <1>1 DEF Typed, ListTyped
<1>8. KeyTyped' /\ LonelyTyped' BY <1>1 DEF Typed, KeyTyped, LonelyTyped
<1>9. FlagsTyped' BY <1>1, <1>2 DEF Typed, FlagsTyped
<1>10. NumbersTyped' BY <1>1, <1>5 DEF Typed, NumbersTyped
<1> QED BY <1>2, <1>6, <1>7, <1>8, <1>9, <1>10 DEF Typed

(* The message list.                                                       *)
Handling ==
    HandleUpgrade \/ HandleLongUrl \/ HandleDoUpgrade \/ HandleLock \/ HandleSet
    \/ HandleDelete \/ HandleDeleteUnsaved \/ HandleSmartlink \/ HandleDoSmartlink
    \/ HandleReset

LEMMA Lists ==
  ASSUME ListTyped, NEW m \in Request \cup Local
  PROVE  /\ Append(list, m) \in Seq(Request \cup Local)
         /\ list # <<>> => /\ Tail(list) \in Seq(Request \cup Local)
                           /\ Append(Tail(list), m) \in Seq(Request \cup Local)
<1>1. list \in Seq(Request \cup Local) BY DEF ListTyped
<1> QED BY <1>1

LEMMA HandlingTypes ==
  ASSUME Typed, Handling
  PROVE  Typed'
<1>1. UNCHANGED <<mac, mode, cause, keyOn, dhcp, lonely, phase, count, ntp, hasKey, requests,
                  presses, crashes, cut, clash>>
      BY DEF Handling, HandleUpgrade, HandleLongUrl, HandleDoUpgrade, HandleLock, HandleSet,
         HandleDelete, HandleDeleteUnsaved, HandleSmartlink, HandleDoSmartlink, HandleReset,
         StepDone, upgradeVars, bounds
<1>2. mode = "run" /\ list # <<>>
      BY DEF Handling, HandleUpgrade, HandleLongUrl, HandleDoUpgrade, HandleLock, HandleSet,
         HandleDelete, HandleDeleteUnsaved, HandleSmartlink, HandleDoSmartlink, HandleReset,
         Handle
<1>3. list' \in {list, Tail(list), Append(Tail(list), "doUpgrade"),
                 Append(Tail(list), "doSmartlink"), Append(Tail(list), "doReset")}
      BY DEF Handling, HandleUpgrade, HandleLongUrl, HandleDoUpgrade, HandleLock, HandleSet,
         HandleDelete, HandleDeleteUnsaved, HandleSmartlink, HandleDoSmartlink, HandleReset
<1>4. ListTyped'
  <2>1. "doUpgrade" \in Request \cup Local /\ "doSmartlink" \in Request \cup Local
        /\ "doReset" \in Request \cup Local
        BY DEF Local
  <2>2. ListTyped BY DEF Typed
  <2>3. Append(Tail(list), "doUpgrade") \in Seq(Request \cup Local)
        /\ Tail(list) \in Seq(Request \cup Local)
        BY <1>2, <2>1, <2>2, Lists
  <2>4. Append(Tail(list), "doSmartlink") \in Seq(Request \cup Local)
        BY <1>2, <2>1, <2>2, Lists
  <2>5. Append(Tail(list), "doReset") \in Seq(Request \cup Local)
        BY <1>2, <2>1, <2>2, Lists
  <2> QED BY <1>1, <1>2, <1>3, <2>2, <2>3, <2>4, <2>5 DEF ListTyped
<1>5. StepsTyped'
      BY Threads DEF Handling, HandleUpgrade, HandleLongUrl, HandleDoUpgrade, HandleLock,
         HandleSet, HandleDelete, HandleDeleteUnsaved, HandleSmartlink, HandleDoSmartlink,
         HandleReset, Typed, StepsTyped
<1>6. owed' \in {owed, TRUE} /\ overtaken' \in {overtaken, TRUE}
      /\ unsaved' \in {unsaved, TRUE, FALSE}
      BY DEF Handling, HandleUpgrade, HandleLongUrl, HandleDoUpgrade, HandleLock, HandleSet,
         HandleDelete, HandleDeleteUnsaved, HandleSmartlink, HandleDoSmartlink, HandleReset,
         Save
<1>7. ConfigsTyped'
  <2>1. ram \in Config /\ flash \in Config BY DEF Typed, ConfigsTyped
  <2>2. CASE HandleUpgrade BY <2>1, <2>2, WithUpgrade DEF HandleUpgrade, Save, ConfigsTyped
  <2>3. CASE HandleLongUrl \/ HandleDoUpgrade \/ HandleReset
        BY <2>1, <2>3 DEF HandleLongUrl, HandleDoUpgrade, HandleReset, ConfigsTyped
  <2>4. CASE HandleLock
    <3>1. CASE mac BY <2>1, <2>4, <3>1, WithLock DEF HandleLock, Save, ConfigsTyped
    <3>2. CASE ~mac BY <2>1, <2>4, <3>2 DEF HandleLock, ConfigsTyped
    <3> QED BY <3>1, <3>2
  <2>5. CASE HandleSet \/ HandleDelete
        BY <2>1, <2>5, WithSet DEF HandleSet, HandleDelete, Save, ConfigsTyped
  <2>6. CASE HandleDeleteUnsaved
        BY <2>1, <2>6, WithSet DEF HandleDeleteUnsaved, ConfigsTyped
  <2>7. CASE HandleSmartlink
    <3>1. CASE ram.locked
          BY <2>1, <2>7, <3>1, WithLocked DEF HandleSmartlink, Save, ConfigsTyped
    <3>2. CASE ~ram.locked BY <2>1, <2>7, <3>2 DEF HandleSmartlink, ConfigsTyped
    <3> QED BY <3>1, <3>2
  <2>8. CASE HandleDoSmartlink
    <3>1. CASE hasKey BY <2>1, <2>8, <3>1 DEF HandleDoSmartlink, ConfigsTyped
    <3>2. CASE ~hasKey
          BY <2>1, <2>8, <3>2, WithSmartlink DEF HandleDoSmartlink, Save, ConfigsTyped
    <3> QED BY <3>1, <3>2
  <2> QED BY <2>2, <2>3, <2>4, <2>5, <2>6, <2>7, <2>8 DEF Handling
<1>8. ModesTyped' BY <1>1 DEF Typed, ModesTyped
<1>9. KeyTyped' /\ LonelyTyped' BY <1>1 DEF Typed, KeyTyped, LonelyTyped
<1>10. FlagsTyped' BY <1>1, <1>6 DEF Typed, FlagsTyped
<1>11. NumbersTyped' BY <1>1 DEF Typed, NumbersTyped
<1> QED BY <1>4, <1>5, <1>7, <1>8, <1>9, <1>10, <1>11 DEF Typed

LEMMA ReceiveTypes ==
  ASSUME Typed, Receive
  PROVE  Typed'
<1>1. UNCHANGED <<ram, flash, mac, mode, cause, keyOn, step, dhcp, lonely, phase, count, ntp,
                  hasKey, presses, crashes, owed, cut, clash, overtaken, unsaved>>
      BY DEF Receive, config, upgradeVars, history
<1>2. mode = "run" /\ requests < MaxRequests /\ requests' = requests + 1 BY DEF Receive
<1>3. PICK m \in Request: list' = Append(list, m) BY DEF Receive
<1>4. ListTyped BY DEF Typed
<1>5. m \in Request \cup Local OBVIOUS
<1>6. Append(list, m) \in Seq(Request \cup Local) BY <1>4, <1>5, Lists
<1>7. ListTyped' BY <1>1, <1>2, <1>3, <1>6 DEF ListTyped
<1>8. ConfigsTyped' /\ StepsTyped' BY <1>1 DEF Typed, ConfigsTyped, StepsTyped
<1>9. ModesTyped' BY <1>1 DEF Typed, ModesTyped
<1>10. KeyTyped' /\ LonelyTyped' BY <1>1 DEF Typed, KeyTyped, LonelyTyped
<1>11. FlagsTyped' BY <1>1 DEF Typed, FlagsTyped
<1>12. NumbersTyped' BY <1>1, <1>2, DeviceConstants DEF Typed, NumbersTyped
<1> QED BY <1>7, <1>8, <1>9, <1>10, <1>11, <1>12 DEF Typed

LEMMA TypesKept ==
  ASSUME Typed, [Next]_vars
  PROVE  Typed'
<1>1. CASE Main BY <1>1, StartTypes
<1>2. CASE CloseNtp \/ SmartlinkOk \/ PowerFails BY <1>2, BootingTypes
<1>3. CASE StartThreads \/ DhcpOk \/ ApDisconnect \/ UNCHANGED vars BY <1>3, NetworkTypes
<1>4. CASE LongPress \/ LonelyTimer BY <1>4, ResetTypes
<1>5. CASE Receive BY <1>5, ReceiveTypes
<1>6. CASE MessageThread
  <2>1. CASE Handling BY <2>1, HandlingTypes
  <2>2. CASE Restart BY <2>2, BootingTypes
  <2>3. CASE HandleDoReset BY <2>3, ResetTypes
  <2> QED BY <1>6, <2>1, <2>2, <2>3 DEF MessageThread, Handling
<1>7. CASE UpgradeThread
  <2>1. CASE UpgradeEnds BY <2>1, BootingTypes
  <2> QED BY <1>7, <2>1, UpgradeTypes DEF UpgradeThread
<1>8. ASSUME NEW t \in Thread, ResetSteps(t) PROVE Typed'
  <2>1. CASE SendSmartLinkCmd(t) BY <2>1, BootingTypes
  <2>2. CASE SetDefaults(t) \/ SaveReset(t) BY <2>2, ResetTypes
  <2> QED BY <1>8, <2>1, <2>2 DEF ResetSteps
<1> QED BY <1>1, <1>2, <1>3, <1>4, <1>5, <1>6, <1>7, <1>8 DEF Next

-----------------------------------------------------------------------------
(* The inductive invariant.                                                *)
LEMMA DeviceParts == DeviceIInv <=> Typed /\ Core
BY TypesAre DEF DeviceIInv, Core

LEMMA DeviceInit ==
  ASSUME Init
  PROVE  DeviceIInv
<1>1. /\ ram = Fresh /\ flash = Fresh /\ mode = "start" /\ cause = "normal" /\ list = <<>>
      /\ step = [t \in Thread |-> "no"] /\ lonely = FALSE /\ owed = FALSE /\ overtaken = FALSE
      BY DEF Init
<1>2. \A t \in Thread: step[t] = "no" BY <1>1
<1>3. ConfigsTyped /\ StepsTyped BY <1>1, Configs DEF ConfigsTyped, StepsTyped
<1>4. ModesTyped BY DEF Init, ModesTyped, Mode
<1>5. ListTyped BY <1>1 DEF ListTyped
<1>6. KeyTyped /\ LonelyTyped BY DeviceConstants DEF Init, KeyTyped, LonelyTyped
<1>7. FlagsTyped BY DEF Init, FlagsTyped
<1>8. NumbersTyped BY DeviceConstants DEF Init, NumbersTyped
<1>9. ~Erasing /\ \A t \in Thread: ~Resetting(t) BY <1>2 DEF Erasing, Resetting
<1>10. Saved /\ Flagged BY <1>1, Configs DEF Saved, Flagged
<1>11. Modes BY <1>1, <1>2, Threads DEF Modes
<1>12. OneReset /\ Erased BY <1>9 DEF OneReset, Erased
<1>13. Owes BY <1>1 DEF Owes
<1> QED BY <1>3, <1>4, <1>5, <1>6, <1>7, <1>8, <1>10, <1>11, <1>12, <1>13, DeviceParts
    DEF Typed, Core

LEMMA DeviceStep ==
  ASSUME DeviceIInv, [Next]_vars
  PROVE  DeviceIInv'
<1>1. Typed /\ Core BY DeviceParts
<1>2. Typed' BY <1>1, TypesKept
<1>3. Core' BY <1>1, CoreKept
<1>4. DeviceIInv' <=> Typed' /\ Core' BY DeviceParts, PTL
<1> QED BY <1>2, <1>3, <1>4

LEMMA DeviceIInvKept == Spec => []DeviceIInv
BY DeviceInit, DeviceStep, PTL DEF Spec

(* For every number of requests, presses and power failures, whatever the   *)
(* two threads and the key's callback do to the configuration at once: what *)
(* was acknowledged is in flash while the device runs, unless a factory     *)
(* reset erases it at the moment or a delete was not saved                  *)
(* (saveDeviceConfigData, globalConfigDataInit, lum_deviceFactoryReset).    *)
THEOREM DeviceCorrect == Spec => []DeviceInv
<1>1. DeviceIInv => DeviceInv BY DEF DeviceIInv, DeviceInv, Saved, Synced
<1> QED BY <1>1, DeviceIInvKept, PTL

-----------------------------------------------------------------------------
(* The three promises about a factory reset, for one step.                  *)

(* A configuration with a setting comes back from the file as it is.        *)
LEMMA SettingsStep ==
  ASSUME Typed, Core, [Next]_vars, flash.set, ~flash'.set
  PROVE  \/ \E t \in Thread: step'[t] = "wiped"
         \/ Erasing \/ unsaved
         \/ list # <<>> /\ Head(list) = "delete"
<1> SUFFICES ASSUME ~Erasing, ~unsaved, ~(list # <<>> /\ Head(list) = "delete"),
                    \A t \in Thread: step'[t] # "wiped"
             PROVE  FALSE
    OBVIOUS
<1>1. ram = flash /\ flash.flag BY DEF Core, Saved, Flagged
<1>2. Loaded(flash) = flash BY <1>1, LoadedIs DEF Typed, ConfigsTyped
<1>3. Kinds BY KindsAre DEF Core
<1>4. CASE Boots BY <1>2, <1>4 DEF Boots, Boot
<1>5. CASE Edits
  <2>1. PICK r \in Config: EditsFlash(r) BY <1>5 DEF Edits
  <2> QED BY <1>1, <2>1 DEF EditsFlash
<1>6. CASE Asks BY <1>1, <1>6 DEF Asks
<1>7. CASE Starts
  <2>1. \/ flash' = flash
        \/ flash' = [flash EXCEPT !.smartlink = flash.smartlink /\ cause # "ok"]
        BY <1>2, <1>7 DEF Starts
  <2>2. PICK b \in BOOLEAN: b = (flash.smartlink /\ cause # "ok") OBVIOUS
  <2>3. [flash EXCEPT !.smartlink = b].set = flash.set
        BY WithSmartlink DEF Typed, ConfigsTyped
  <2> QED BY <2>1, <2>2, <2>3
<1>8. CASE StartThreads BY <1>8 DEF StartThreads
<1>9. CASE Reads BY <1>2, <1>9 DEF Reads
<1>10. CASE Wipes
  <2>1. PICK t \in Thread: Wipe(t) BY <1>10 DEF Wipes
  <2>2. step'[t] = "wiped" BY <2>1, StepsOf DEF Wipe, Typed
  <2> QED BY <2>2
<1>11. CASE \E t \in Thread: SetDefaults(t) \/ SaveReset(t)
       BY <1>11 DEF SetDefaults, SaveReset, Erasing
<1> QED BY <1>3, <1>4, <1>5, <1>6, <1>7, <1>8, <1>9, <1>10, <1>11 DEF Kinds

(* The only step to "init" is the one that ends the start, and it sees the  *)
(* wish.                                                                    *)
LEMMA SmartlinkStep ==
  ASSUME Typed, Core, [Next]_vars, mode # "init", mode' = "init"
  PROVE  ~owed \/ clash'
<1> SUFFICES ASSUME owed, ~clash' PROVE FALSE OBVIOUS
<1>1. Kinds BY KindsAre DEF Core
<1>2. Starts
  <2>1. ~Boots BY DEF Boots, Boot
  <2>2. ~Edits BY DEF Edits, EditsElse
  <2>3. ~Asks BY DEF Asks
  <2>4. ~StartThreads BY DEF StartThreads
  <2>5. ~Reads BY DEF Reads
  <2>6. ~Wipes BY DEF Wipes
  <2>7. ~\E t \in Thread: SetDefaults(t) \/ SaveReset(t) BY DEF SetDefaults, SaveReset
  <2> QED BY <1>1, <2>1, <2>2, <2>3, <2>4, <2>5, <2>6, <2>7 DEF Kinds
<1>3. clash => clash' BY <1>2, Zenon DEF Starts
<1>4. mode = "start" BY <1>2 DEF Starts
<1>5. /\ flash.flag /\ flash.smartlink /\ (cause = "ok" => step["timer"] = "saved")
      BY <1>3, <1>4 DEF Core, Owes
<1>6. Loaded(flash) = flash BY <1>5, LoadedIs DEF Typed, ConfigsTyped
<1>7. /\ ResetType(cause, flash) \in {"linked", "normal"}
      /\ (ResetType(cause, flash) = "normal" => ~flash.smartlink)
      /\ clash' = (clash \/ (cause = "ok" /\ step["timer"] = "saved"))
      BY <1>2, <1>6 DEF Starts
<1>8. cause = "ok" BY <1>5, <1>7 DEF ResetType
<1> QED BY <1>5, <1>7, <1>8

(* Only a restart leads to "start" for the reason "start", and it takes the *)
(* configuration as the reset left it.                                      *)
LEMMA ErasesStep ==
  ASSUME Typed, Core, [Next]_vars, NEW t \in Thread,
         step[t] = "saved", owed, ~clash, mode' = "start", cause' = "start"
  PROVE  /\ flash.smartlink /\ (hasKey => ~flash.named)
         /\ (hasKey /\ ~overtaken => flash = [Fresh EXCEPT !.smartlink = TRUE])
<1>1. flash.smartlink BY DEF Core, Owes
<1>2. hasKey => Erases(t) BY DEF Core, Erased, Resetting
<1> QED BY <1>1, <1>2, Wishes DEF Erases

(* For every number of requests, presses and power failures: a factory      *)
(* reset leaves the defaults and the wish for smart-link behind, whatever   *)
(* requests are handled while it runs; the device does not run again before *)
(* a smart-link; and nothing but a reset or a delete erases a setting       *)
(* (lum_deviceFactoryReset, lumitekITOMain, saveDeviceConfigData).          *)
THEOREM FactoryResets == Spec => ErasedByReset
<1>1. ASSUME DeviceIInv, [Next]_vars
      PROVE  /\ [\A t \in Thread:
                   step[t] = "saved" /\ owed /\ ~clash /\ mode' = "start" /\ cause' = "start"
                   => /\ flash.smartlink /\ (hasKey => ~flash.named)
                      /\ (hasKey /\ ~overtaken =>
                            flash = [Fresh EXCEPT !.smartlink = TRUE])]_vars
             /\ [flash.set /\ ~flash'.set =>
                   \/ \E t \in Thread: step'[t] = "wiped"
                   \/ Erasing \/ unsaved
                   \/ list # <<>> /\ Head(list) = "delete"]_vars
             /\ [mode # "init" /\ mode' = "init" => ~owed \/ clash']_vars
  <2>1. Typed /\ Core BY <1>1, DeviceParts
  <2> QED BY <1>1, <2>1, SettingsStep, SmartlinkStep, ErasesStep
<1> QED BY <1>1, DeviceIInvKept, PTL DEF Spec, ErasedByReset, ResetErases, SettingsKept,
       SmartlinkFirst
=============================================================================
