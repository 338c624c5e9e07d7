------------------------------ MODULE Smartlink ------------------------------
(***************************************************************************)
(* A product without a key (DEVICE_NO_KEY, BUZZER_RING_SUPPORT): when it    *)
(* was without a network for 30 seconds it asks the vendor's library for    *)
(* smart-link, starts again in that mode and rings its buzzer, 30 seconds   *)
(* at a time and three times at most, until smart-link has succeeded; then  *)
(* it starts once more and rings a notice.                                  *)
(*                                                                          *)
(* Two timers are created and deleted by the thread of the Wi-Fi events and *)
(* by their own callbacks: checkSmarkLinkTimer, whose callback sleeps       *)
(* between deleting it and forgetting its handle, and buzzerRingTimer.      *)
(***************************************************************************)
EXTENDS Naturals

CONSTANTS AwayTime,     \* checkSmarkLinkTimer, 30 s
          RingPeriod,   \* callbacks of the buzzer's timer in a ring of 30 s
          MaxRings,     \* maxRingTimes, 3
          MaxNetworks,  \* bound: times the network comes or goes
          MaxStarts     \* bound: starts of the device

ASSUME SmartlinkAssumption ==
    /\ {AwayTime, RingPeriod, MaxRings} \subseteq Nat \ {0}
    /\ {MaxNetworks, MaxStarts} \subseteq Nat

VARIABLES phase,        \* "normal", "smartlink", or "over" with the command
          online,       \* the network is there
          eventDue,     \* the device was not told of that yet
          dhcpFlag,     \* DHPC_OK_BIT
          checkTimer,   \* checkSmarkLinkTimer: its handle and the timer behind it
          awayLeft,     \* time left on it
          checkPc,      \* where the callback of that timer is
          locked,       \* the device is locked against new owners
          ring,         \* buzzerRingInfo
          ringTimer,    \* buzzerRingTimer
          ringPc,       \* where its callback is
          smartPc,      \* where the thread of the events, or the notice, is
          sound,        \* g_buzzer_status and the PWM behind it
          notice,       \* rings of buzzerRingNotice that are left
          networks, starts,
          away,         \* history: time the device knows of no network, at most AwayTime
          rang,         \* history: times the ring was begun since the start
          overlap       \* history: an event came while a callback was running

smartlinkVars == <<phase, online, eventDue, dhcpFlag, checkTimer, awayLeft, checkPc, locked,
                   ring, ringTimer, ringPc, smartPc, sound, notice, networks, starts,
                   away, rang, overlap>>
checking == <<dhcpFlag, checkTimer, awayLeft, checkPc, locked>>
ringing == <<ring, ringTimer, ringPc, sound, notice, rang>>
surroundings == <<online, networks, away>>

(* A timer's handle is NULL, that of a timer, or that of a deleted one.      *)
NoticeTimes == 3
Handle == {"null", "live", "deleted"}
Resting == checkPc = "out" /\ ringPc = "out" /\ smartPc = "out"
NewRing == [times |-> 0, stopped |-> FALSE, elapsed |-> 0]
-----------------------------------------------------------------------------
(* The network comes and goes.                                               *)
NetworkChanges ==
    /\ phase = "normal" /\ networks < MaxNetworks /\ ~eventDue
    /\ networks' = networks + 1
    /\ online' = ~online /\ eventDue' = TRUE
    /\ UNCHANGED <<phase, checking, ringing, smartPc, starts, away, overlap>>

(* setFlagAfterDhcp: unless the flag was set, cancelCheckSmartLinkTimer      *)
(* deletes the timer and forgets it.                                         *)
DhcpOkEvent ==
    /\ phase = "normal" /\ smartPc = "out" /\ eventDue /\ online
    /\ eventDue' = FALSE
    /\ dhcpFlag' = TRUE
    /\ smartPc' = IF dhcpFlag \/ checkTimer = "null" THEN "out" ELSE "cancel"
    /\ overlap' = (overlap \/ checkPc # "out")
    /\ UNCHANGED <<phase, checkTimer, awayLeft, checkPc, locked, ringing, starts,
                   surroundings>>

(* Mutant of CancelCheck: the timer is left running.                         *)
CancelCheckNot ==
    /\ smartPc = "cancel"
    /\ smartPc' = "out"
    /\ UNCHANGED <<phase, eventDue, dhcpFlag, checkTimer, awayLeft, checkPc, locked, ringing,
                   starts, surroundings, overlap>>

CancelCheck ==
    /\ smartPc = "cancel"
    /\ checkTimer' = "null"
    /\ smartPc' = "out"
    /\ UNCHANGED <<phase, eventDue, dhcpFlag, awayLeft, checkPc, locked, ringing, starts,
                   surroundings, overlap>>

(* setFlagAfterApDisconnect: checkNeedEnterSmartLink creates the timer if    *)
(* there is no handle, and sets its period either way.                       *)
DisconnectEvent ==
    /\ phase = "normal" /\ smartPc = "out" /\ eventDue /\ ~online
    /\ eventDue' = FALSE
    /\ dhcpFlag' = FALSE
    /\ checkTimer' = IF checkTimer = "null" THEN "live" ELSE checkTimer
    /\ awayLeft' = AwayTime
    /\ overlap' = (overlap \/ checkPc # "out")
    /\ UNCHANGED <<phase, checkPc, locked, ringing, smartPc, starts, surroundings>>

(* rebackLockDevice, for an app that reaches the device.                     *)
LockDevice ==
    /\ phase = "normal" /\ online /\ dhcpFlag
    /\ locked' = TRUE
    /\ UNCHANGED <<phase, eventDue, dhcpFlag, checkTimer, awayLeft, checkPc, ringing, smartPc,
                   starts, surroundings, overlap>>

(* checkSmartLinkTimerCallback deletes the timer ...                         *)
CheckExpires ==
    /\ phase = "normal" /\ checkPc = "out"
    /\ checkTimer = "live" /\ awayLeft = 0
    /\ checkTimer' = "deleted"
    /\ checkPc' = "unlock"
    /\ overlap' = (overlap \/ smartPc # "out")
    /\ UNCHANGED <<phase, eventDue, dhcpFlag, awayLeft, locked, ringing, smartPc, starts,
                   surroundings>>

(* ... unlocks the device ...                                                *)
UnlockDevice ==
    /\ checkPc = "unlock"
    /\ locked' = FALSE
    /\ checkPc' = "sleep"
    /\ UNCHANGED <<phase, eventDue, dhcpFlag, checkTimer, awayLeft, ringing, smartPc, starts,
                   surroundings, overlap>>

(* ... sleeps 200 ms, forgets the handle and sends the command, with which   *)
(* the library starts the device again.                                      *)
SendSmartLinkCmd ==
    /\ checkPc = "sleep"
    /\ checkTimer' = "null"
    /\ checkPc' = "out"
    /\ phase' = "over"
    /\ UNCHANGED <<eventDue, dhcpFlag, awayLeft, locked, ringing, smartPc, starts,
                   surroundings, overlap>>

AwayTick ==
    /\ phase = "normal" /\ Resting /\ ~eventDue
    /\ checkTimer = "live" => awayLeft > 0
    /\ awayLeft' = IF checkTimer = "live" THEN awayLeft - 1 ELSE awayLeft
    /\ away' = IF dhcpFlag THEN 0 ELSE IF away = AwayTime THEN away ELSE away + 1
    /\ UNCHANGED <<phase, online, eventDue, dhcpFlag, checkTimer, checkPc, locked, ringing,
                   smartPc, networks, starts, overlap>>
-----------------------------------------------------------------------------
(* smartlinkTimerCallback, with getBuzzerRingPeriod: unless the handle is    *)
(* gone, a ring goes on, ends, or begins again after 5 s ...                 *)
Ended == ring.elapsed >= RingPeriod /\ ~ring.stopped

RingCallback ==
    /\ phase = "smartlink" /\ ringPc = "out"
    /\ ringTimer = "live"
    /\ overlap' = (overlap \/ smartPc # "out")
    /\ rang' = IF ring.stopped THEN rang + 1 ELSE rang
    /\ sound' = (sound /\ ~Ended)
    /\ IF Ended
       THEN /\ ring' = [ring EXCEPT !.times = @ + 1, !.stopped = ring.times + 1 < MaxRings]
            /\ ringPc' = IF ring'.stopped THEN "period" ELSE "delete"
       ELSE /\ ring' = [ring EXCEPT !.stopped = FALSE,
                                    !.elapsed = IF ring.stopped THEN 0 ELSE @ + 1]
            /\ ringPc' = "switch"
    /\ UNCHANGED <<phase, eventDue, checking, notice, ringTimer, smartPc, starts, surroundings>>

(* ... the buzzer is switched while it goes on ...                           *)
SwitchBuzzer ==
    /\ ringPc = "switch"
    /\ sound' = ~sound
    /\ ringPc' = "period"
    /\ UNCHANGED <<phase, eventDue, checking, notice, ring, ringTimer, rang, smartPc, starts,
                   surroundings, overlap>>

(* ... and the timer set again, deleted or not, ...                          *)
RingAgain ==
    /\ ringPc = "period"
    /\ ringPc' = "out"
    /\ UNCHANGED <<phase, eventDue, checking, notice, ring, ringTimer, sound, rang, smartPc, starts,
                   surroundings, overlap>>

(* ... or, after the last ring, deleted.                                     *)
DeleteRingTimer ==
    /\ ringPc = "delete"
    /\ ringTimer' = "null"
    /\ ringPc' = "out"
    /\ UNCHANGED <<phase, eventDue, checking, notice, ring, sound, rang, smartPc, starts,
                   surroundings, overlap>>

(* HFE_SMTLK_OK: deleteBuzzerRingTimer ...                                   *)
SmartlinkOk ==
    /\ phase = "smartlink" /\ smartPc = "out"
    /\ smartPc' = IF ringTimer = "null" THEN "close" ELSE "forget"
    /\ ringTimer' = IF ringTimer = "null" THEN "null" ELSE "deleted"
    /\ overlap' = (overlap \/ ringPc # "out")
    /\ UNCHANGED <<phase, eventDue, checking, notice, ring, ringPc, sound, rang, starts,
                   surroundings>>

ForgetRingTimer ==
    /\ smartPc = "forget"
    /\ ringTimer' = "null"
    /\ smartPc' = "close"
    /\ UNCHANGED <<phase, eventDue, checking, notice, ring, ringPc, sound, rang, starts,
                   surroundings, overlap>>

(* ... and setBuzzerStatus; the library then starts the device again.        *)
CloseBuzzer ==
    /\ smartPc = "close"
    /\ sound' = FALSE
    /\ smartPc' = "succeeded"
    /\ UNCHANGED <<phase, eventDue, checking, notice, ring, ringTimer, ringPc, rang, starts,
                   surroundings, overlap>>

(* buzzerRingNotice, after a smart-link that succeeded, switches the buzzer  *)
(* by itself; no other code of the normal mode does.                         *)
RingNotice ==
    /\ phase = "normal" /\ notice > 0
    /\ sound' = ~sound
    /\ notice' = IF sound THEN notice - 1 ELSE notice
    /\ UNCHANGED <<phase, eventDue, checking, ring, ringTimer, ringPc, rang, smartPc, starts,
                   surroundings, overlap>>
-----------------------------------------------------------------------------
(* The device starts: into smart-link with the command, where                *)
(* deviceEnterSmartLink begins to ring, or to its normal mode.               *)
StartIn(next, network, notices) ==
    /\ starts < MaxStarts
    /\ starts' = starts + 1
    /\ phase' = next
    /\ online' = network /\ eventDue' = network
    /\ dhcpFlag' = FALSE /\ awayLeft' = AwayTime /\ away' = 0
    /\ checkTimer' = IF next = "normal" THEN "live" ELSE "null"
    /\ ringTimer' = IF next = "smartlink" THEN "live" ELSE "null"
    /\ checkPc' = "out" /\ ringPc' = "out" /\ smartPc' = "out"
    /\ ring' = NewRing /\ notice' = notices
    /\ sound' = (next = "smartlink") /\ rang' = IF next = "smartlink" THEN 1 ELSE 0
    /\ overlap' = FALSE
    /\ UNCHANGED <<locked, networks>>

StartSmartlink == phase = "over" /\ StartIn("smartlink", FALSE, 0)

StartNormal ==
    /\ phase = "smartlink"
    /\ \E network \in BOOLEAN:
          \/ smartPc = "succeeded" /\ StartIn("normal", network, NoticeTimes)
          \/ smartPc # "succeeded" /\ StartIn("normal", network, 0)

SmartlinkInit ==
    /\ phase = "normal" /\ online = FALSE /\ eventDue = FALSE
    /\ dhcpFlag = FALSE /\ checkTimer = "live" /\ awayLeft = AwayTime
    /\ checkPc = "out" /\ locked \in BOOLEAN
    /\ ring = NewRing /\ ringTimer = "null" /\ ringPc = "out"
    /\ smartPc = "out" /\ sound = FALSE /\ notice = 0
    /\ networks = 0 /\ starts = 0 /\ away = 0 /\ rang = 0 /\ overlap = FALSE

SmartlinkNext ==
    \/ NetworkChanges \/ DhcpOkEvent \/ CancelCheck \/ DisconnectEvent
    \/ LockDevice \/ CheckExpires \/ UnlockDevice \/ SendSmartLinkCmd \/ AwayTick
    \/ RingCallback \/ SwitchBuzzer \/ RingAgain \/ DeleteRingTimer
    \/ SmartlinkOk \/ ForgetRingTimer \/ CloseBuzzer \/ RingNotice
    \/ StartSmartlink \/ StartNormal

SmartlinkSpec == SmartlinkInit /\ [][SmartlinkNext]_smartlinkVars
-----------------------------------------------------------------------------
SmartlinkTypes ==
    /\ phase \in {"normal", "smartlink", "over"}
    /\ {online, eventDue, dhcpFlag, locked, sound, overlap, ring.stopped} \subseteq BOOLEAN
    /\ {checkTimer, ringTimer} \subseteq Handle
    /\ {awayLeft, away} \subseteq 0 .. AwayTime
    /\ checkPc \in {"out", "unlock", "sleep"} /\ ringPc \in {"out", "switch", "period", "delete"}
    /\ smartPc \in {"out", "cancel", "forget", "close", "succeeded"}
    /\ ring.times \in 0 .. MaxRings /\ ring.elapsed \in 0 .. RingPeriod
    /\ notice \in 0 .. NoticeTimes
    /\ networks \in 0 .. MaxNetworks /\ starts \in 0 .. MaxStarts

(* Unless an event came while a callback ran: smart-link is asked for only   *)
(* by a device that was told of no network for the whole 30 s, and unlocks   *)
(* it; a device without a network always has the timer that will ask, and    *)
(* one with a network never has; a buzzer that sounds has a timer or a       *)
(* notice to silence it, and it rings three times at most.                   *)
NoKeyNeeded ==
    ~overlap =>
        /\ phase = "over" => ~dhcpFlag /\ away = AwayTime /\ ~locked
        /\ phase = "normal" /\ Resting => checkTimer = IF dhcpFlag THEN "null" ELSE "live"
        /\ sound => notice > 0 \/ ringTimer # "null" \/ smartPc = "close"
        /\ rang <= MaxRings

SmartlinkInv == SmartlinkTypes /\ NoKeyNeeded
=============================================================================
