-------------------------------- MODULE Radio --------------------------------
(***************************************************************************)
(* The 433 MHz gateway (lum_sx1208.c, and its three handlers in             *)
(* messageDispose.c).  A study request makes the chip listen; the first     *)
(* edge starts a hardware timer whose callback records the wave and posts a *)
(* message, and the handler of that one answers the request.  A control     *)
(* request is answered at once, and its wave then sent five times, one      *)
(* expiry of the same timer each.                                           *)
(*                                                                          *)
(* The handlers run in the message thread and sleep 100 ms at a time; the   *)
(* callbacks of the timer and of the pin are interrupts and come between    *)
(* any two of their steps.  Both work on one wave, one saved request, one   *)
(* status and one cached mode of the chip.                                  *)
(***************************************************************************)
EXTENDS Integers, Sequences, FiniteSets

CONSTANTS Resends,      \* MAX_WAVE_RESEND_COUNT, 5
          MaxAsks       \* bound: requests

ASSUME RadioAssumption == Resends \in Nat \ {0, 1} /\ MaxAsks \in Nat

VARIABLES radioPc,      \* where the message thread is in a handler, "out" between them
          asks,         \* requests so far; a request is its number
          chipStatus,   \* g_searchFreqData.chipStatus
          mode,         \* the mode the chip is in
          preMode,      \* pre_mode, the mode lum_setRfMode believes it to be in
          sdoIrq,       \* the interrupt of SDO_2 is on
          waveTimer,    \* g_433StudyTimer runs
          wave,         \* g_studyWaveData: the request it is from, Cleared or Spoilt
          saved,        \* g_socketSaveData
          replies,      \* MSG_CMD_433M_REPLY_STUDY_STATUS messages in the list
          sendCount,    \* g_sendCount
          heard,        \* history: what was recorded, for which request
          studyAnswers,      \* history: the answers sent to study requests
          sent,         \* history: how often the wave of each control request went out
          ranOut,       \* history: the requests whose timer ran out in their own
                        \* handler, before the status was set
          crossed       \* history: a request began while another was at work, or
                        \* the study of one ended in the handler of another

radioVars == <<radioPc, asks, chipStatus, mode, preMode, sdoIrq, waveTimer, wave, saved,
               replies, sendCount, heard, studyAnswers, sent, ranOut, crossed>>
chip == <<chipStatus, mode, preMode, sdoIrq, waveTimer>>
told433 == <<heard, studyAnswers, sent, ranOut>>

Cleared == 0
WaveSpoilt == -1
NotSent == -1
Requests433 == 1 .. MaxAsks
Answer(r, w) == [req |-> r, wave |-> w]
AtWork == waveTimer \/ replies > 0
Goto(pc) == radioPc' = pc

(* lum_setRfMode, in the message thread: the register is written unless the  *)
(* chip is believed to be in the mode, and the belief set after waiting.     *)
WriteMode(m, from, then, skip) ==
    /\ radioPc = from
    /\ IF preMode = m THEN Goto(skip) /\ UNCHANGED mode ELSE Goto(then) /\ mode' = m
    /\ UNCHANGED <<asks, chipStatus, preMode, sdoIrq, waveTimer, wave, saved, replies,
                   sendCount, told433, crossed>>

Believe(m, from, then) ==
    /\ radioPc = from
    /\ preMode' = m
    /\ Goto(then)
    /\ UNCHANGED <<asks, chipStatus, mode, sdoIrq, waveTimer, wave, saved, replies,
                   sendCount, told433, crossed>>
-----------------------------------------------------------------------------
(* lum_revc433StudyCmd: the request is saved ...                             *)
StudyCmd ==
    /\ radioPc = "out" /\ asks < MaxAsks
    /\ asks' = asks + 1
    /\ saved' = [req |-> asks', heard |-> FALSE]
    /\ crossed' = (crossed \/ AtWork)
    /\ Goto("search")
    /\ UNCHANGED <<chip, wave, replies, sendCount, told433>>

(* ... lum_enterSearchFreqMode clears the state and the wave, the interrupt  *)
(* is configured and left off ...                                            *)
EnterSearchFreqMode ==
    /\ radioPc = "search"
    /\ chipStatus' = "idle"
    /\ wave' = Cleared
    /\ sdoIrq' = FALSE
    /\ Goto("study")
    /\ UNCHANGED <<asks, mode, preMode, waveTimer, saved, replies, sendCount, told433, crossed>>

(* ... and lum_enterStudyMode sets the status, the mode, and the interrupt   *)
(* after 100 ms.                                                             *)
EnterStudyMode ==
    /\ radioPc = "study"
    /\ chipStatus' = "studying"
    /\ Goto("receive")
    /\ UNCHANGED <<asks, mode, preMode, sdoIrq, waveTimer, wave, saved, replies, sendCount,
                   told433, crossed>>

Listen ==
    /\ radioPc = "listen"
    /\ sdoIrq' = TRUE
    /\ Goto("out")
    /\ UNCHANGED <<asks, chipStatus, mode, preMode, waveTimer, wave, saved, replies,
                   sendCount, told433, crossed>>

ChangeToRecvMode == \/ WriteMode("receiver", "receive", "receiving", "listen")
                    \/ Believe("receiver", "receiving", "listen")

(* lum_sendControlCmd with a wave, which is answered and copied; without one *)
(* it is answered only.                                                      *)
ControlCmd ==
    /\ radioPc = "out" /\ asks < MaxAsks
    /\ asks' = asks + 1
    /\ wave' = asks'
    /\ sent' = [sent EXCEPT ![asks'] = 0]
    /\ crossed' = (crossed \/ AtWork)
    /\ Goto("standby")
    /\ UNCHANGED <<chip, saved, replies, sendCount, heard, studyAnswers, ranOut>>

ChangeToSendMode == \/ WriteMode("standby", "standby", "standing by", "transmit")
                    \/ Believe("standby", "standing by", "transmit")
                    \/ WriteMode("transmitter", "transmit", "transmitting", "start")
                    \/ Believe("transmitter", "transmitting", "start")

(* The end of lum_enterSendMode: the timer is started before the status is   *)
(* set.                                                                      *)
StartSendTimer ==
    /\ radioPc = "start"
    /\ waveTimer' = TRUE
    /\ Goto("send")
    /\ UNCHANGED <<asks, chipStatus, mode, preMode, sdoIrq, wave, saved, replies, sendCount,
                   told433, crossed>>

EnterSending ==
    /\ radioPc = "send"
    /\ chipStatus' = "sending"
    /\ Goto("out")
    /\ UNCHANGED <<asks, mode, preMode, sdoIrq, waveTimer, wave, saved, replies, sendCount,
                   told433, crossed>>

(* lum_send433StudyStatus answers the saved request with the wave there is   *)
(* now.                                                                      *)
Send433StudyStatus ==
    /\ radioPc = "out" /\ replies > 0
    /\ replies' = replies - 1
    /\ studyAnswers' = Append(studyAnswers,
                              Answer(saved.req, IF saved.heard THEN wave ELSE Cleared))
    /\ UNCHANGED <<radioPc, asks, chip, wave, saved, sendCount, heard, sent, ranOut, crossed>>
-----------------------------------------------------------------------------
(* lum_sdo2IrqCallback: an edge, of which there are none unless the chip     *)
(* listens, starts or restarts the timer.                                    *)
Sdo2Irq ==
    /\ sdoIrq /\ mode = "receiver"
    /\ chipStatus = "studying"
    /\ waveTimer' = TRUE
    /\ UNCHANGED <<radioPc, asks, chipStatus, mode, preMode, sdoIrq, wave, saved, replies,
                   sendCount, told433, crossed>>

(* lum_433StudyTimerCallback, studying: the wave is recorded, or there was   *)
(* none, too short or too long a one, and the buffer is left with rubbish.   *)
(* The handler of a request to study ends with the interrupt, so a study that*)
(* ends in a handler is not that one's.                                      *)
StudyTimer ==
    /\ waveTimer /\ chipStatus = "studying"
    /\ waveTimer' = FALSE
    /\ sdoIrq' = FALSE
    /\ \E ret \in {FALSE} \cup {mode = "receiver"}:
          LET whole == ret /\ wave = Cleared IN
          /\ wave' = IF whole THEN saved.req ELSE WaveSpoilt
          /\ saved' = [saved EXCEPT !.heard = @ \/ ret]
          /\ heard' = Append(heard, Answer(saved.req, IF whole THEN saved.req ELSE Cleared))
    /\ mode' = IF preMode = "standby" THEN mode ELSE "standby"
    /\ preMode' = "standby"
    /\ chipStatus' = "idle"
    /\ replies' = replies + 1
    /\ crossed' = (crossed \/ radioPc # "out")
    /\ UNCHANGED <<radioPc, asks, sendCount, studyAnswers, sent, ranOut>>

(* Mutant of SendTimer: the count is not reset after the last.               *)
SendTimerKeeps ==
    /\ waveTimer /\ chipStatus = "sending"
    /\ sent' = [r \in Requests433 |->
                    IF r = wave /\ mode = "transmitter" THEN sent[r] + 1 ELSE sent[r]]
    /\ LET last == sendCount + 1 >= Resends IN
       /\ waveTimer' = ~last
       /\ sendCount' = sendCount + 1
       /\ chipStatus' = IF last THEN "idle" ELSE chipStatus
       /\ mode' = IF last /\ preMode # "sleep" THEN "sleep" ELSE mode
       /\ preMode' = IF last THEN "sleep" ELSE preMode
    /\ UNCHANGED <<radioPc, asks, sdoIrq, wave, saved, replies, heard, studyAnswers, ranOut,
                   crossed>>

(* Sending, lum_sendStudyWaveData: the wave goes out if the chip transmits.  *)
SendTimer ==
    /\ waveTimer /\ chipStatus = "sending"
    /\ sent' = [r \in Requests433 |->
                    IF r = wave /\ mode = "transmitter" THEN sent[r] + 1 ELSE sent[r]]
    /\ LET last == sendCount + 1 >= Resends IN
       /\ waveTimer' = ~last
       /\ sendCount' = IF last THEN 0 ELSE sendCount + 1
       /\ chipStatus' = IF last THEN "idle" ELSE chipStatus
       /\ mode' = IF last /\ preMode # "sleep" THEN "sleep" ELSE mode
       /\ preMode' = IF last THEN "sleep" ELSE preMode
    /\ UNCHANGED <<radioPc, asks, sdoIrq, wave, saved, replies, heard, studyAnswers, ranOut,
                   crossed>>

(* In no other status does it do anything: a timer that was started to send  *)
(* and runs out before the status is set is not started again.               *)
IdleTimer ==
    /\ waveTimer /\ chipStatus = "idle"
    /\ waveTimer' = FALSE
    /\ ranOut' = IF radioPc = "send" THEN ranOut \cup {asks} ELSE ranOut
    /\ UNCHANGED <<radioPc, asks, chipStatus, mode, preMode, sdoIrq, wave, saved, replies,
                   sendCount, heard, studyAnswers, sent, crossed>>
-----------------------------------------------------------------------------
(* lum_sx1208ChipInit leaves the chip asleep.                                *)
RadioInit ==
    /\ radioPc = "out" /\ asks = 0
    /\ chipStatus = "idle" /\ mode = "sleep" /\ preMode = "sleep"
    /\ sdoIrq = FALSE /\ waveTimer = FALSE
    /\ wave = Cleared /\ saved = [req |-> 0, heard |-> FALSE]
    /\ replies = 0 /\ sendCount = 0
    /\ heard = <<>> /\ studyAnswers = <<>> /\ sent = [r \in Requests433 |-> NotSent]
    /\ ranOut = {} /\ crossed = FALSE

RadioNext ==
    \/ StudyCmd \/ EnterSearchFreqMode \/ EnterStudyMode \/ ChangeToRecvMode \/ Listen
    \/ ControlCmd \/ ChangeToSendMode \/ StartSendTimer \/ EnterSending
    \/ Send433StudyStatus
    \/ Sdo2Irq \/ StudyTimer \/ SendTimer \/ IdleTimer

RadioSpec == RadioInit /\ [][RadioNext]_radioVars
-----------------------------------------------------------------------------
RadioTypes ==
    /\ radioPc \in {"out", "search", "study", "receive", "receiving", "listen", "standby",
                    "standing by", "transmit", "transmitting", "start", "send"}
    /\ asks \in 0 .. MaxAsks
    /\ chipStatus \in {"idle", "studying", "sending"}
    /\ {mode, preMode} \subseteq {"sleep", "standby", "receiver", "transmitter"}
    /\ {sdoIrq, waveTimer, crossed, saved.heard} \subseteq BOOLEAN
    /\ wave \in {WaveSpoilt, Cleared} \cup Requests433
    /\ saved.req \in 0 .. MaxAsks /\ ranOut \subseteq 0 .. MaxAsks
    /\ replies \in 0 .. MaxAsks
    /\ sendCount \in 0 .. Resends - 1

(* Whatever crossed, there are no more answers than there were requests to   *)
(* study.                                                                    *)
NoAnswerTooMany ==
    Len(studyAnswers) + replies <= Cardinality({r \in 1 .. asks: sent[r] = NotSent})

(* When the gateway is at rest and no request ever crossed another, every    *)
(* answer carries what was recorded for its own request, every wave went out *)
(* exactly five times, the program knows the mode of the chip, and a chip    *)
(* that is to study does listen.  One interrupt can undo a request that is   *)
(* alone: if its timer runs out between lum_start433StudyTimer and the       *)
(* status, at the end of lum_enterSendMode, its wave is never sent.  Only    *)
(* such a request leaves the status at sending, where nothing is sent.       *)
Undisturbed ==
    radioPc = "out" /\ ~AtWork /\ ~crossed =>
        /\ studyAnswers = heard
        /\ \A i, j \in DOMAIN heard: i # j => heard[i].req # heard[j].req
        /\ \A r \in Requests433 \ ranOut: sent[r] \in {NotSent, Resends}
        /\ \A r \in Requests433 \cap ranOut: sent[r] = 0
        /\ chipStatus = "sending" => ranOut # {}
        /\ mode = preMode /\ sendCount = 0
        /\ chipStatus = "studying" => sdoIrq /\ mode = "receiver"

RadioInv == RadioTypes /\ NoAnswerTooMany /\ Undisturbed
=============================================================================
