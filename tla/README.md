# Verification of the Lumitek smart-plug firmware

The repository is the firmware of a Wi-Fi plug on the HF-LPB100 module
(`src/LPB100-HSF/src/LumitekITO`; the rest is the vendor's SDK).  This
directory holds TLA+ models of that firmware, TLC runs that check them on small
instances, and TLAPS proofs about them for every value of the constants.
Files in parentheses are relative to `src/LPB100-HSF/src/LumitekITO/src`.

Eight products are built from these sources, one at a time; `inc/lumitekConfig.h`
selects P3, with a key, a Wi-Fi LED and one switch.  The models of what all of
them share follow that choice and the switches of `inc/commonConfig.h`
(`COUNTDOWN_RELATIVE_TIME`, `BANLENCE_ADDR_HOSTNAME_SUPPORT`,
`LUM_UDP_HEART_INTERVAL_30S`, `DEVICE_UPGRADE_BY_DOWNLOAD_BIN`,
`LUM_UDP_SOCKET_LOG`); `Device` covers a product without a key too, because the
code paths of a factory reset differ.  What only some products have is modelled as
their own configurations compile it, and `Products` puts these parts together: the
relay with two coils, the energy meter and its factory test (P2), the 433 MHz
gateway (P5), the dimmer (P7), the bulb (P8), the buzzer (P1, P4), and the log in
flash, which any product may have.  `LUM_FACTORY_TEST_SUPPORT` and
`SAVE_LOG_TO_FLASH` are commented out in the repository; the code under them is
modelled as if they were set.

Contents: 1 the system, 2 the plan, 3 how the modules correspond to the code,
4 the runs, 5 fairness, 6 the proofs, 7 what disagrees with the code's own words,
8 what the models leave out.

## 1. The system

Three threads of equal priority (message, TCP, UDP; a fourth while an upgrade
runs), a timer task in which the callbacks of all timers run, the key's
interrupt and the vendor's thread that reports network events.
They share global data, and nearly nothing of it is locked: one mutex guards the
insertion of a message, and even the deletion does without it.

| Component | State | Operations | Works with |
|---|---|---|---|
| Message list (`asyncMessage.c`) | a linked list of messages, its U8 length, a mutex | insert (any thread), take and delete (message thread) | everything that happens becomes a message |
| Message thread (`asyncMessage.c:507`, `messageDispose.c`) | the node it handles | one handler per command, then `sendSocketData` | all components below |
| Send list (`socketSendList.c`) | a linked list of packets with resend times and counters | queue, cancel by sequence number, purge TCP, send the next due one | handlers, both sockets, the clock |
| Server link (`serverSocketTcp.c`, `itoCommon.c`, `deviceMisc.c`) | socket, flags of `connInfo`, server key, heartbeat timers | find the server, connect, log in, heartbeat, timeout | TCP thread, message thread, timers, network events |
| Reception and packet codec (`itoCommon.c`, `asyncMessage.c`, `aes.c`) | buffers, keys | read, check, decrypt, insert; encrypt, answer | server link, UDP, message list |
| Local UDP (`localSocketUdp.c`) | a socket | receive, answer, broadcast | reception, send list |
| Clock and calendar (`lumTimeData.c`) | network time and the counter it was taken at | read (all threads), set by the network or an app | send list, schedule |
| Schedule (`lumTimer.c`, `itoCommon.c`, `messageDispose.c`) | alarms, absences, countdown, last checked minute | check of every minute (timer task), changes by an app (message thread) | clock, switch, configuration |
| Device life (`itoMain.c`, `deviceMisc.c`, `deviceUpgrade.c`, `itoCommon.c`) | configuration in RAM and flash, reset reason | boot, smart-link, upgrade, factory reset, lock | flash, vendor library |
| User report (`deviceMisc.c`, `messageDispose.c`) | a user's name in flash, a timer's handle | store, report, clear | server link, lock |
| Key (`deviceGpio.c`) | pin, interrupt, two timers | debounce, toggle, long press | switch, factory reset |
| Wi-Fi LED and `connInfo` (`itoCommon.c`, `deviceMisc.c`) | a byte of flags, LED, its timer | network up and down, connect, close | server link |
| Smart-link and buzzer (`deviceMisc.c`, `deviceGpio.c`) | the timer of a device without network, the timer of the rings | lose and find the network, expire, ring, succeed | boot, lock |
| Relay (`deviceGpio.c`) | pin, two coils, LED, the timer that releases the coils | switch (message thread, timer task), release | schedule, handlers |
| Energy meter (`rn8209c.c`) | pulses in RAM, totals in a region of flash | count (interrupt), save, find at the start, report, calibrate | message thread |
| Factory test (`lumFactoryTest.c`) | what passed, the state of the calibration, two flags in flash | thread of the test, answers of a precise meter, key, network | meter, switch, boot |
| 433 MHz gateway (`lum_sx1208.c`) | the chip's mode, status, a wave, the saved request | learn, send, interrupt, timer | message thread |
| Bulb and dimmer (`deviceGpio.c`) | levels, LEDs, timers, an interrupt at each zero of the mains | set, blink, level keys, gate | switch, network events |
| Log (`lumLog.c`) | lines in flash, a copy, its length | save (any thread), copy, find at the start | flash |

**How they interact.**  Sockets, timers, the key and network events insert messages;
the message thread handles one per round of its loop and then calls
`sendSocketData` once.  A handler changes the configuration, the schedule or the
server link and usually queues an answer.  An answer from outside cancels the
request with its sequence number.  The TCP thread connects and inserts the
message that makes the message thread log in; the log-in's answer carries the
key with which later packets are encrypted.  The timer task works the switch
and writes back parts of the configuration by itself.

**What is hard.**

* *Shared memory.*  Lists, the clock, the byte of flags, timer handles, alarms and
  the configuration are read and written by several threads, access by access.
* *Stale state.*  An answer, a packet or a message may be handled after the
  connection, the key, the name or the alarm it belongs to has changed.
* *Loss.*  Packets and answers are lost, connections end unnoticed, TCP cuts
  packets.  Retries are bounded in some places, unbounded in others.
* *Time.*  Resend times are wall-clock times, and the clock is set.  Minutes are
  compared for equality, with days of the week as bits that are rotated.
* *Power failure* between the steps of a factory reset, smart-link or upgrade.

**What makes each component correct.**

| Component | Promises |
|---|---|
| Message list | handled in the order of insertion and at most once; nothing lost, no freed node touched while nobody races |
| Send list | bounded attempts and waits; a log-in purges older TCP packets; an answer cancels one packet with its number and no other; a request is kept until it was sent often enough, answered, given up or left behind; no overtaking; everything leaves in the end |
| Server link | logged in means: watched, with the key of this connection, and nothing older left; a dead connection is given up; a living server is found |
| Reception | answers fit and can be read; a packet that was not cut is not lost; none is made up, repeated or reordered |
| Clock | counts true time between settings over a wrap of its counter; right dates |
| Schedule | the switch follows it; edits survive checks; one-shots end; every minute is checked once, countdowns end in theirs |
| Device life | RAM and flash agree; a reset erases everything and leads to smart-link, an upgrade is tried and ends, wherever the power fails |
| User report | a name is reported until the server knows it |
| Key | one toggle per press, a reset only from one long press |
| Wi-Fi LED, flags | the flags follow the network; the LED blinks exactly without it |
| Smart-link, buzzer | smart-link only after 30 s without network, never with it; a sounding buzzer is silenced |
| Relay | no coil stays energised; relay, pin, LED and report agree |
| Energy meter | every pulse is counted over full regions; a failure of power costs a bounded number; a report is near the truth |
| Factory test | passed means calibrated with figures that belong together |
| 433 MHz gateway | one answer per request, with its own wave, sent five times |
| Bulb, dimmer | the lamp does what was asked last; the gate opens in each half wave and closes before its end |
| Log | what can be read is what was saved last, in order and without a hole, wherever the power fails |

## 2. The plan

Order, the most important behaviour first; each line names the modules, what
they compose with and the theorems worth having.  Everything here exists.

1. `Outbox` (the abstract promise: a request waits until it was sent often enough,
   answered, given up or left behind by a log-in), `SendList` implementing it, and
   `SendListProofs`: types, attempts, waits, log-in first, distinct sequence numbers,
   and the refinement.
2. `MessageQueue` (the abstract promise: a queue that may lose but never reorders
   or repeats), `MessageList` (every access to shared memory) implementing it,
   `MessageListProofs`: the refinement, for any number of threads.
3. `ServerLink`: the connection, over the abstract promises of 1 and 2: packets
   in any order that are sent some day, messages in order.  It implements `Outbox` too.
4. `Clock`, with `CivilCalendar` (the reference) and `Calendar` (`lum_gmtime`).
5. `MinuteCheck` (which minutes are checked, and the countdown) and `Schedule`
   (what a check does with alarms and absences), which takes from `MinuteCheck` that
   every minute is checked once unless it was missed.
6. `Device`, `UserReport`, `Key`, `WifiState`: boot, flash, reset and the small
   state machines at the edge.
7. `Packet` (lengths, padding, checks) and `Reception` on top of it, with
   `ReceptionProofs`: nothing is lost but what was torn, and the packets of the stream
   are a `MessageQueue`.
8. The parts of single products, `Relay`, `Meter`, `FactoryTest`, `Radio`, `Light`,
   `Dimmer`, `Smartlink`, `FlashLog`, with `Key` and `WifiState` of 6, and `Products`,
   which composes them with the pins of each product.
9. Proofs of what the runs of 3 to 6 and 8 showed: `ServerLinkProofs`, `UserReportProofs`,
   `DeviceProofs`, `ScheduleProofs` (of `Schedule`, `MinuteCheck`, `Clock` and `Calendar`),
   `ProductsProofs` (of every part and of their composition).

Left for later, in this order:

* an abstract specification of the schedule (the switch as a function of the
  calendar) that `Schedule` implements between edits;
* `ServerLink` composed with `SendList` and `Reception` themselves instead of with their
  promises, which would need the bytes of two connections in one stream;
* the dialogue with the meter chip (`rn8209c.c:145-345`) and opening the UDP socket.

| Run | Bounds, in short | Abstract specification |
|---|---|---|
| `sendlist` | 2 packets ever, 3 sends, 2 failures, interval 2 s, clock set by at most 2 s each way | `Outbox` |
| `messagelist` | 2 inserting threads and the message thread, 2 messages, a counter of 4 values | `MessageQueue` |
| `serverlink`, `serverlink_close` | 4 (2) connections, 3 (2) requests, 1 waiting message | |
| `clock` | counter of 6 half seconds, 7 half seconds of true time; every day of a U32 | `CivilCalendar` |
| `schedule` | days of 4 minutes, weeks of 3 days, 2 alarms, 2 absences, 2 edits, 1 missed minute; 412,819 states | |
| `minutecheck` | minutes of 4 s, hours of 5 minutes, 26 s, 2 countdowns, 1 setting of the clock | |
| `device` | 3 requests, 2 long presses, 2 power failures | |
| `userreport` | 2 locks, 1 lost connection, 3 timers | |
| `packets` | 3 packets, cut in 3 places, 1 waiting message | `MessageQueue` |
| `products` | see section 4 | |
| `dimmer_off` | 3 levels, 2 calls, 1 press of a level key | |

## 3. The modules

One action stands for what runs between two points at which another thread can
interfere to any effect: a whole handler where only the message thread touches
the state, a single access to memory where several threads do.  Names are those
of the code; a local name of a model is explained where it is declared.

| Module | Models | State and actions |
|---|---|---|
| `SendList` | `socketSendList.c`, `getSocketSn`, `needWaitSocketReback`, the handlers that queue and cancel | `list` is the chain from `firstNodePtr`, a function from positions in order of insertion to nodes; `wait` of a node is `nextSendTime` relative to the clock, `sn` the last sequence number given.  `Transmit` or `NothingWritable` is one call of `sendSocketData`; a log-in's handler queues and purges in one action |
| `Outbox` | what the list promises to the server link | `last`, the number of the last packet; `waiting`, the requests with how often each was sent, and whether it is a log-in |
| `MessageQueue` | what the list of messages promises, and what a connection makes of the server's stream | `put`, `got`: how many were linked, and which was handled last |
| `MessageList` | `insertListNode`, `deleteListNode`, `deviceMessageThread` (`asyncMessage.c`) | `first`, `next`, `noteCount`, `mutex` as in the code; `pc` per thread, `at` for the message thread's loop.  Every read and write of shared memory is an action |
| `ServerLink` | `serverSocketTcp.c`, the log-in and heartbeat handlers, both heartbeat timers, the network events | the flags of `connInfo`, `sock`, `serverKey`, the messages and the TCP packets that wait; the TCP thread stops between any two accesses to the flags |
| `Clock` | `lum_getSystemTime`, `lum_syncNetworkTime`, `lum_checlCaliDateByApp` (`lumTimeData.c`) | `g_timeDateInfo` with one action per access; a setting is begun by the answer of the network or by an app; `call` is where each thread is, `milli` the true time, the counter its remainder |
| `Calendar`, `CivilCalendar` | `lum_gmtime`; the Gregorian rules to compare it with | functions of the day; the loops over years and months are recursive functions that end, as what is left of a year is less than its days and the twelfth month of the table ends the walk at the latest |
| `MinuteCheck` | the minute timer, its catch-up, the countdown (`lumTimer.c`) | `second` is the wall clock, `turn` the last minute checked, `stage` where the callback is; every reading of the clock is an action |
| `Schedule` | alarms and absences in `lumTimer.c`, their storage, the handlers that change them | `alarms`, `absences`, `switch`, `nextAbsenceMinute`; one slot compared or one copy written back per action, both for the timer task and for the message thread |
| `Device` | `itoMain.c`, factory reset, smart-link, lock, `deviceUpgrade.c` | `ram` and `flash`, the message list, `step` of a reset in each thread, the upgrade's `phase`; `PowerFails` between any two |
| `UserReport` | `reportFactoryRestTimer` and `userName` | `handle`, the timers that exist and that run, `pc` per thread |
| `Key` | the key in `deviceGpio.c` | `pin`, `irq`, the two timers as time left, `pressed` as the device sees it |
| `WifiState` | `setDeviceConnectInfo`, the LED and its timer; the two accesses of the gateway to the LED of P5 (`lum_sx1208.c:786`, `:830`) | `byte`, and what each thread has read of it; `led`, `ledTimer`; `studyLit` while the LED shows a study |
| `Relay` | `setSwitchStatus` with `SPECIAL_RELAY_SUPPORT` and its timer | `swPc` per thread, pin, coils and `latch`, the relay itself; one action per write to a pin, also of the callback that releases the coils |
| `Meter` | `lum_rn8209cAddEnergyData` to `InitEnergyData`, `lum_saveKData`, the reports | `energyWords` is the region in flash; erasing and each write are actions, the power may fail between them |
| `FactoryTest` | `lumFactoryTest.c` and the handlers of the calibration | `testPc` of its thread, `caliStatus` and the figures; `load` is what the worker plugs in, `k` the load and the figure a K was computed from |
| `Radio` | `lum_sx1208.c` but for its registers, the handlers that learn and send | `mode` of the chip, `preMode` what the program believes, `wave`, `saved`, `chipStatus`; steps of the message thread, the interrupt and the timer task |
| `Light` | `lum_setLedLightStatus` and its timer, the level keys of the bulb | `handle`, the timers that are `live` and `running`, what the lamp shows |
| `Dimmer` | `lum_lightChangeLevel`, the zeros of the mains, the hardware timer, two level keys | `level`, `leds` and `period` set one by one, `gate`, the time to the next zero |
| `Smartlink` | the timer of a device without network, the lock, the buzzer, the way to smart-link and back | two handles that are null, live or deleted, the steps of both callbacks and of the thread of events |
| `FlashLog` | the log in flash of `lumLog.c` | cells of flash for the log and its copy; every erasing and write is an action, of any thread: a copy is made block by block |
| `Products` | `P1_Config.h` to `P8_Config.h` and the pin tables of `app_main.c` | `part` says which part is followed; all others stay in a first state |
| `*Proofs` | `SendList`, `MessageList`, `Reception`, `ServerLink`, `UserReport`, `Device`, `Products` with its parts, and in `ScheduleProofs` `Schedule`, `MinuteCheck`, `Clock`, `Calendar` | no state: the inductive invariants and the proofs of section 6 |
| `Packet` | lengths, U8 arithmetic, padding, the checks before and after decryption, the sizes of answers | operators only |
| `Reception` | `tcpSocketRecvData`, the UDP thread, `insertSocketMsgToList`, the answers | positions in the byte stream (`at`, `arrived`), the packets `sent`, the sequence of those `taken`, the table contents that answers are made from |

The `MC` modules only give constants a value.  Variables called *history* in
their declarations (`raced`, `torn`, `crossed`, `misused`, `missed`, `lost`,
`rearmed`, `stale`, `clash`, `cut`, `overtaken`, `unsaved`, `excused`, `jumped`,
`foreign`, `mixed`, `met`, `overlap`, `bad`, `excuse`, `late`, `ranOut`) are
read by no guard.  They remember that something happened after which the code
promises nothing more, and let a property say exactly what it excuses.
`crossed` of `Radio` is two requests that met; a request whose own timer ran out too early
is not one of them, but is in `ranOut`, and the property says what becomes of it.

**Composition.**  `ServerLink` does not model the order of the packets nor their
failures.  What it takes for granted of the list of packets is `Outbox`, which
`SendList` implements (`RequestsKept` in both modules): there positions number the
packets, here sequence numbers do.  An answer makes the list delete the first packet
with its number, which may be one that answers an app; `ServerLink` then keeps the request
(`DeleteRequst`).  That a packet has its turn again and again is `SendList!Drains`, and
that messages are handled in order and none is lost while nothing races is
`MessageList!InOrder`.  `Schedule` takes its missed
minutes from `MinuteCheck`.  `Reception` is one connection; what goes on from one
connection to the next, including the key, is `ServerLink`.  The parts of `Products` are
composed as alternatives: a behaviour follows one of them, and no pin serves two functions
(`PinsServe`).  They do meet in functions and data: key, relay and factory test work the
switch, meter and factory test have the K data, and the gateway of P5 lights the LED of
`WifiState`.  A part has in it what it needs of that: the relay is switched by anyone at any
time, `WifiState` has the gateway's two accesses.  What else another part may do to it is left out.

## 4. The runs

Invariants before the semicolon, temporal properties after it.

**`sendlist`** - `SendInv; NoOvertaking RequestsKept Drains`.
Requests, answers and reports over both sockets, which are writable or not, sends
that succeed or fail, and a wall clock that is set forward and back at any moment.
A packet is handed to its socket a bounded number of times, though a success resets
the count of failures; while a log-in request waits, no older TCP packet
does; two waiting requests never share a number; a packet waits at most the resend
interval plus what the clock was set back; no packet overtakes an elder that is due;
a request to the server leaves the list only because it was sent often enough, answered,
given up or left behind by a log-in, and what happens to one changes no other
(`RequestsKept`, the list as an `Outbox`); and every packet leaves the list though nobody answers.  `SendInv` joins the
types and the first four of these (`AttemptsBounded`, `ConnectLeads`,
`RequstSnDistinct`, `WaitBounded`).  Two packets, because each safety property is about
one packet or a pair, and all of them are proved for any number; three sends, two failures and an interval of two are the
least at which the counters pass their limits in different orders.

**`messagelist`** - `QueueInv; InOrder Served`.  Two threads and the
message thread itself insert while the latter handles and deletes, access by access.
The list implements `MessageQueue` in every race, and while no
insertion met a deletion, another insertion or the initialisation of the list, and
the counter did not go round (`raced`), the queue that loses nothing: these are the two
parts of `InOrder`, the second one `NoLossUnlessRaced`.  Until then no freed node is touched either, the count is right, and everything is
served.  Both outcomes of unlocking another thread's mutex are tried
(`Releases`), as the vendor library does not say.  A counter of four values wraps
below zero and above three within two messages; the three safety properties are proved
for any sizes.

**`serverlink`** - `LoginInv; GivesUp LogsIn`.  The TCP thread, the
message thread, both heartbeat timers, the router, the balance server and a server
that may stay silent or close.  A device that is logged in has its timeout running
and the key of its connection, unless the answer to a log-in was handled after its
connection was gone (`stale`); once a log-in was asked for, no packet of an older
connection is left (both in `LoginInv`); a dead connection is given up; where the server answers, the
device logs in, unless the connection dies first.  An answer may cancel its request, or
another packet that waits under the same number, as the list of packets has it.  Four connections are the balance
server's and the server's, twice: state of one meets the next.  **`serverlink_close`**
shows the finding of section 7.

**`clock`** - `ClockInv Dates; Monotone`.  Two threads read the clock and one sets it,
over a wrap of the millisecond counter.  Readings that met no writing thread have
counted the true time since the setting, and do not go back; they are the network's
time (`NetworksTime`), unless the setting rests on an answer that was not read but
counted as one (`serverSocketTcp.c:189`), or on the time of an app (`lumTimeData.c:216`),
which may come at any moment here.  Premise `Seen`: the
counter has wrapped at most once since the setting, and was so far at the setting that
a reading, which comes at least every `MaxPause`, finds it below that.  After a
corrected wrap the base is small, and the next one may pass unnoticed: beyond `Seen`
the clock does go wrong.  Seven half seconds with a counter of six hold a setting,
readings before the wrap, the wrap, who corrects it, and readings after it; the proof is for all
other bounds.  `Dates` compares `lum_gmtime` with the
Gregorian calendar for each of the 49710 days of a U32 number of seconds; it is proved for any
last day.

**`schedule`** - `AlarmInv AbsenceInv; OneShotsEnd`.  Alarms and
absences, weekly over midnight and over the end of the week, round the clock and
one-shot, which an app stores, deletes and overwrites at any step of a check.
An alarm that had the switch to itself, and no edit, for a whole week of minutes (`quiet`)
has it on exactly in its period, unless an absence has just taken the switch over; an
absence runs exactly in its period; its next toggle is always still ahead, as it is
compared for equality; a one-shot acts once and comes to its end (`opened` counts
what a one-shot did), through missed minutes and restarts; an edit is kept unless a check had a copy out.  Days of four
minutes and weeks of three days keep every order of two times of a day and a mask
that is rotated over its end.  Excused: an alarm that ends in the minute it starts in
opens and closes in that minute; one-shots with equal times, see section 7.

**`minutecheck`** - `CountdownInv; InTurn`.  A timer that comes late by a
second or a whole minute, a clock that is set both ways, and countdowns set and deleted
at any step.  Minutes are checked in turn and once, over the end of the hour, and never
fall behind more than the timer's period allows, unless the clock was set or more
than `LIMIT` minutes passed since the last check, of which the program knows the minute of
the hour only (`excused`); a countdown whose minute is still to be
checked ends in that check, and neither earlier nor much later.  26 seconds are an
hour of five minutes and one more.  The run stops when time is used up, so
deadlock is not checked.

**`device`** - `DeviceInv; ErasedByReset ModesReached`.  A
product with a key and one without: requests, long presses, network changes and power
failures in every order.  RAM and flash agree, but for a deletion whose last entry is
out of range (`unsaved`); a factory reset erases everything, nothing else erases
anything, and the device runs again only after a smart-link; who asks for
smart-link gets it; an accepted upgrade is tried and ends.  Excused are a restart
between the erasing and the saving (`cut`), two resets that meet (`clash`), and a
request that was waiting in the list behind the reset (`overtaken`).  Two power failures
and two presses let a second one fall into the recovery from the first.

**`userreport`** - `TimerInv; ClearedMeansTold Reported`.  Locks, log-ins, answers, expirations
and lost networks in every order, with the timer's handle shared by three threads.
While nobody used a dead handle (`misused`), there is one timer, and it
runs whenever a name waits; a name is forgotten only when the server was told it or
an answer to the report of the previous one arrived (`crossed`); every name is
reported in the end.  What a dead handle does is unknown; the model lets it do nothing.
Once every name is told the device is at rest, so deadlock is not checked.

**`packets`** - `ReceptionInv; ReceivedInOrder`.  A stream of three packets that TCP
cuts inside and at the end of a header and joins in every way, datagrams, and answers
made from tables that are nearly empty or full (32 alarms).  Every answer fits its
array and its one byte of length and can be read; a packet is lost only when one
was cut, until the stream is quiet, or when it came before its key was stored
(`LostOnlyTorn`, a part of `ReceptionInv`).  `ReceivedInOrder`: the packets that reach the
list of messages are some of those sent, in order and none twice, whatever bytes were taken
for headers, and until one of those excuses applies they are all of them: the connection
implements `MessageQueue`.  `taken` is the list's own sequence: each entry is a step of the
queue, to a later packet than the last one listed, so that a packet that is appended again, or
twice at once (a mutant), is none.
Lengths are the real ones; where no packet starts, `dataLen` is 8 or 255.  The stream
ends, so deadlock is not checked.

**`products`** - `PinsServe KeyInv LogInv RelayInv MeterInv FactoryInv RadioInv LightInv
DimmerInv SmartlinkInv WifiInv; LongTogglesNothing ReportNear LedBlinks`.  The first step
chooses a part, in a product that has it; the others stand still, so their
invariants say nothing of that behaviour.  Most parts are at rest once their bound is used
up, so deadlock is not checked.

* `PinsServe`: every function that a part uses is on a pin of its own, which the
  module leaves free and which can interrupt or modulate where the part needs that.
* *Key* (4 presses, debounce 2, long press 7).  A bouncing key with edges at any moment of
  the callbacks.  At most one toggle per press; a reset takes one long press without a gap
  beyond the debounce time, unless the hardware forgot an edge that came while its interrupt
  was off (`keyLost`); a long press toggles nothing.
* *Log* (2 threads, 4 cells in pages of 2, lines of 1 and 2, 6 bytes, 1 failure of power).  While no copy is
  under way, log and copy are the last bytes saved, in order and without a hole, whatever
  step of a copy the power failed at; nothing is given up early.  Excused until two
  undisturbed copies later (`bad`): two threads that met, and a half-erased log; a copy that is cut short between two blocks is not.
* *Relay* (3 calls, coils for 2).  In the end no coil is energised, whatever met; relay, pin,
  LED and report agree unless calls met (`mixed`).
* *Meter* (a region of 6 words read in groups of 3, totals every 2 pulses, 13 pulses, 1 failure).
  13 pulses fill the region and begin it anew.  Every pulse is counted, but for at most a gap
  per failure; a failure while the total is in RAM only is excused (`excuse`).  A report is that of
  a count within a gap of the true one, whichever half of it was read first.
* *Factory test* (3 loads, 1 press, 2 changes of load or network, 2 requests, 1 failure).  The flag is set only when
  a K was computed and checked with figures that were still true, unless they were stale; the
  device's own consumption is measured without a load.
* *Radio* (3 requests, 3 repetitions for the code's 5).  Never more answers than requests to
  learn; at rest, and if no request met the work for another, every answer carries its own wave,
  every wave went out the full number of times, and the chip is in the mode the program
  believes.  A request that is alone can fail in one way: its timer runs out before the status
  is set (`lum_sx1208.c:811`), which `ranOut` notes.  Then its wave is never sent and the
  status stays at sending, and the property says that nothing else leads to either.
* *Bulb* (3 calls).  Unless threads met, no deleted timer is used, and the lamp is lit, dark
  or blinking by exactly one timer, as was asked last.
* *Dimmer* (3 levels, half waves of 8, 2 calls, 2 presses).  An open gate has a timer that
  closes it; between calls LEDs, period, interrupt and report are those of the level; in each
  steady half wave the gate opens exactly if the lamp is on, and is closed at its end, unless
  the hardware timer was started late in the half wave (`late`).
* *Smart-link* (away 2, 3 rings of 2, 4 changes of the network, 3 starts).  See `NoKeyNeeded`:
  smart-link only without a network for the whole time, the timer exactly without network,
  a buzzer that somebody will silence.
* *Flags and LED* (2 changes of the network).  At rest flags and LED are right, unless a write undid
  another (`byteLost`) or the LED was stopped while its callback, which starts it again, was
  running (`rearmed`); without network the LED keeps changing.  On P5 a study of the
  gateway may light the LED (`studyLit`) and put it out at any moment.

**`dimmer_off`** shows the second finding of section 7.

## 5. Fairness

Safety is checked without it.  The runs with a liveness property assume, and the code justifies:

| Module | Assumed | Why |
|---|---|---|
| `SendList` | WF of `Tick` and `AfterDhcp`; SF of `Transmit` for each packet | the clock runs; a lost router is joined again; every round of the message thread calls `sendSocketData`, and a socket that is writable again and again is found so some day.  Nothing is assumed of success, answers or the router's staying |
| `MessageList` | WF of the message thread; WF of an insertion that has begun | threads of one priority get their turns, the message thread polls for ever (`asyncMessage.c:525`); nobody has to insert |
| `ServerLink` | WF of the TCP thread, of the message thread, of `HeartBeatTimeout`; SF of `Connected`; SF of `Transmit` for each command | threads and timers run; a connection can be made some day; `SendList!Drains`.  The router, the server's patience, the heartbeat owe nothing.  A packet that was sent may be answered or not |
| `Schedule` | WF of the check, of both threads' check of absences, of `MinutePasses` | the threads run and time passes |
| `Device` | WF of the start-up, of the message thread, of the upgrade thread, of the steps of a reset | the threads run; network, user and power are free |
| `UserReport` | WF of calls under way, the timer, the handlers, the log-in and the router; SF of sending a report | as above; bounded losses of the network |
| `WifiState`, in `Products` | WF of the thread of events; SF of the LED's timer | threads run, and an expired timer gets its turn among the other callbacks |

`Clock`, `MinuteCheck`, `Reception` and the other parts of `Products` have no fairness, as none
of their properties says that something happens.

## 6. The proofs

TLAPS checks every proof from `TLAPS`, two modules of its library (`FiniteSetTheorems` and
`SequenceTheorems`) and the assumptions named in the modules.  These say that counts, times
and bounds are naturals, that limits are positive, that constants have their types, that the
message thread is none of the producers, and what the figures of the code keep to among
themselves: a relay's coils are held for some time, a level of the dimmer opens and closes
its gate within a half wave (`BaseTime + MaxLevel * LevelGap < HalfCycle`: 1 ms and 7 times
1.2 ms of 10 ms, `deviceGpio.h:120-123`), the meter's region has a word behind its flag (`Words > 1`), the timer of
the minutes aims beyond the end of the minute (`LATE > MINUTE`), and an hour is longer than
what is caught up with (`LIMIT < HOUR`).  Each inductive invariant was first checked by TLC
on the instance of its run; that of `Clock` on a second one.

| Module | Theorem | Property of a run |
|---|---|---|
| `SendListProofs` | `TypeCorrect`, `Attempts`, `Waits`, `ConnectFirst`, `SnDistinct`, `ListCorrect`; `InTurn`; `PacketsKept` | `SendInv`; `NoOvertaking`; `RequestsKept` |
| `MessageListProofs` | `TypeCorrect`, `QueueCorrect`; `HandledInOrder`, `NothingLost`, `ListIsQueue` | `QueueInv`; `InOrder` |
| `ReceptionProofs` | `RoundTrip`, `AnswersRead`, `NothingElseLost`, `ReceptionCorrect`; `PacketsInOrder` | `ReceptionInv`; `ReceivedInOrder` |
| `ServerLinkProofs` | `LoginCorrect`; `PacketsAsPromised` | `LoginInv`; none |
| `UserReportProofs` | `ReportCorrect`; `ForgottenWhenTold` | `TimerInv`; `ClearedMeansTold` |
| `DeviceProofs` | `DeviceCorrect`; `FactoryResets` | `DeviceInv`; `ErasedByReset` |
| `ScheduleProofs` | `AlarmsCorrect`, `AbsencesCorrect` | `AlarmInv`, `AbsenceInv` |
| | `CountdownCorrect`; `MinutesInTurn` | `CountdownInv`; `InTurn` |
| | `ClockCorrect`, `DatesCorrect`; `ClockMonotone` | `ClockInv`, `Dates`; `Monotone` |
| `ProductsProofs` | `KeyCorrect`, `RelayCorrect`, `WifiCorrect`, `LightCorrect`, `DimmerCorrect`, `SmartlinkCorrect`, `RadioCorrect`, `FactoryCorrect`, `MeterCorrect`, `LogCorrect` | the invariant of the part |
| | `LongPressesToggleNothing`, `ReportsNear` | `LongTogglesNothing`, `ReportNear` |
| | `ProductsCorrect`; `ProductsSteps` | `PinsServe` and all of the above, of `ProductsSpec` |

**`SendListProofs`.**  `TypeCorrect` types the list, a function from positions to nodes
whose counters are below the limits.  `Attempts` cannot be proved of the attempts
alone, since a success resets `faildTimes`: `CountersInv` ties, for each
packet in the list, the numbers of sends and failures that the history counted to the
two counters, so that each send allows at most `MAX_FAILD_COUNT` failures more.
`Waits` and `ConnectFirst` are inductive together with the types.  `SnDistinct` needs
`SnInv`: between two waiting requests, and from each to the counter, the numbers advance
by at least one (from a request to the counter, none) and at most as much as positions
do, going round at `INVALID_SN_NUM`, as long as they cannot have gone all the way round.
`ListCorrect` joins them to the invariant of the run.  `InTurn` is about one step: only
`Transmit` changes what the history says of a packet, and whatever elder it passes is not
due after it (`HistShape`, `PutOffWaits`).  `PacketsKept` is the refinement of `Outbox`:
what the server link sees of the list is an entry for each TCP packet that somebody may
answer, and each step of the list is one of the outbox or none.  Its lemmas say what becomes
of the entries when a packet is queued or dropped, and that everything else changes one entry
at most (`WaitingBut`): putting off, failing and ageing show nothing.

**`MessageListProofs`.**  `HandledInOrder` is a refinement: whatever threads insert, with
any interleaving of unlocked accesses, counters that wrap and undefined
accesses, the list implements `MessageQueue`.  The invariant `ListInv` consists of the
types; `OrderInv`, that links always lead to a node that was linked later; `OwnInv`, that a
node under construction belongs to one thread and is not linked; `WalkInv`, that a walk
stands on a node that was linked; `FirstInv`, that what the message thread sees first is
later than what it handled.  Order is what survives a race: a link may be lost, but none
leads back.  `QueueCorrect` and `NothingLost` say what holds until something races, and
rest on `SoundInv`: then one thread at a time inserts (`Alone`), every node was linked but
for one under construction (`Built`), the list is exactly the nodes that were linked and
not unlinked, each leading to the one linked next (`Linear`), the message thread and a walk
stand on such nodes (`Taken`, `Walking`), and `noteCount` lags behind their number by what
is being linked or unlinked (`Counting`).  `ListIsQueue` joins the refinement to `NothingLost`.

**`ReceptionProofs`.**  `RoundTrip`: whoever gets a packet whole reads the body that was
written, for every body of at most 232 bytes, the most that a U8 of length holds after
padding, with every key.  `AnswersRead`: every answer fits its array and is read back so,
for every content of the tables.  `NothingElseLost`: for every stream and every way to
cut and join it, a packet behind the reading position was taken unless it is excused.  Its
invariant `ReadInv` says that the packets are back to back (`Chain`), that the reading
position is the start of a packet while nothing is torn (`Aligned`), that a header held in
the buffer is that packet's (`Held`), that a torn reading excuses every packet not yet
read (`TornExcuses`), which keys packets are made with and when they are known
(`KeysKnown`), and that packets behind the position are in the list, excused, or in the
buffer about to be inserted (`Fresh`, `Passed`).  `ReceptionCorrect` joins the two.
`PacketsInOrder` is the refinement of `MessageQueue`: while a packet is being read, all that
are in the list were sent before it (`Ahead`), so that an entry that is appended is of a later
packet than every one before it (`Ascending`); each append is one step of the queue.

**`ServerLinkProofs`.**  `LoginCorrect` holds for any number of connections, requests and
messages and for servers that answer always, never or now and then.  What `LoginInv` says
is about a connection that is up, and it is decided while there is none.  So
`LinkIInv` adds where the TCP thread can be with which socket and flags (`Place`); that the
answers in the list come from connections that were made, in that order, and that none
comes from the connection whose log-in was not asked for yet (`Answered`); that between the
two stores of the key the first one is that of the answer at the head (`Storing`); and that
a connection is made without a key and once it has one no older answer is left (`Keyed`).
The key cannot be wrong then, as whatever could still store one is of this connection.
`PacketsAsPromised`: each step of the link does to its packets what the `Outbox` allows.  It
rests on no two packets having one number (`Numbered`), so that an answer takes away one
request at most.  With `PacketsKept` the link and the list agree on what is between them.

**`UserReportProofs`.**  `ReportCorrect`: three threads stop, create and set one timer
through one handle.  `OneTimer` breaks when a handle is cleared while its timer
runs; `Nulling` says that this cannot be without a use of a dead handle before: while a
thread is about to clear it the handle is that of a deleted timer, and nobody else is
about to.  `Watched` speaks of threads at rest; `Reporting` says what
they are about to do when they are not, and `Downs` that a Wi-Fi event stops the timer
before there can be a connection again.  `ForgottenWhenTold` follows answers on their way
(`NamesKnown`): until the server was told the name that waits, no answer to a report is
under way or being handled, unless a lock met one.

**`DeviceProofs`.**  `DeviceCorrect` holds for products with a key and without, any number of
requests, presses and failures of power at any step.  `DeviceInv` says that RAM and flash
agree; the invariant adds where they may differ (`Saved`), that whatever erased the flag
writes it again (`Flagged`), which thread can be where in which mode (`Modes`), that two
threads reset at once only in a `clash` (`OneReset`), that a wish for smart-link that was
saved is still there (`Owes`), and what a reset has made of the configuration after each of
its steps, whatever requests are handled meanwhile (`Erased`).  `FactoryResets` is about
steps: the three parts of `ErasedByReset` follow from `Erased`, from the actions that write
the flash, and from `Owes`.

**`ScheduleProofs`, alarms and absences.**  For days and weeks of any length, any number of
places and any infos.  The hard part is `OnSchedule`, which says after a week of minutes
what each minute did: the invariant `Followed` says it of every day that the week has seen so
far.  An alarm counts for the minutes since its start on that day (`Since`), and the switch is
what its start and end made of it, if they were within the minutes that were quiet.
`QuietMinutes` says what is known in the middle of a check.  `CopyOut`, `OpenedOnce` and
`ActiveTimes` keep apart an alarm, what the app last stored and the copy that the timer is
about to write back; `Ahead` says that the next toggle of an absence is at most an interval
away, `Settled` when an absence runs.  The provers know nothing of quotients and remainders by
a constant; `Division` and `Remains`, proved once, give what is needed, and the
arithmetic of the week (`WeekElapsed`, `SinceIs`) and that of minutes and of laps of the
counter rest on them.

**`ScheduleProofs`, minutes and the countdown.**  For minutes and hours of any length and a
timer that is late by anything.  Between checks the timer's period ends in the minute after
the last one (`Rested`), while nobody sets the clock; during a check its readings
are in order (`UnderWay`), and the minute that is checked next follows the last one
(`Turns`).  From that `MinutesInTurn` is one step.  A countdown that was accepted ahead of the
check relies on the check of its minute being over in that minute (`Promise`), and on nobody
having set the clock (`Unmoved`).

**`ScheduleProofs`, the clock.**  For a counter of any range and any number of threads that read
it.  As long as no call met a writing one, at most one wrap has passed, and the setting left
enough of the lap before it (`Quiet`), the memory is either that of the setting or that of
exactly one correction of the wrap (`Memory`), and each call under way has loaded the counter
at some time since it began, and added to it what belongs to that time (`Calls`: `Fetched`,
`Doing`).  `Stalls` bounds how long ago that was, `Settling` and `Network` say what a setting
under way is worth, and `WriterAlone` that whoever writes is alone until somebody met.  A
reading is then the true time since the setting, with one rounding per lap
(`ClockCorrect`), and no later reading of one setting is less (`ClockMonotone`): `ToldBefore`
and `ToldAfter` compare the memory with the last value returned.

**`ScheduleProofs`, the calendar.**  `DatesCorrect` holds for every second up to any last day.
The provers cannot do induction over data, so that the two loops have to be solved before
anything is said of them: `DaysTo(y)`, the days of all years before y, is a closed form that grows
with y (`DaysGrow`), and each day is in exactly one year (`OneYear`, `SomeYear`; the latter
takes the least year that reaches beyond it, by `Least`, which comes from the pigeonhole
principle of the library's sets).  A year and what is left of it is then what the loop's
equation demands, and so what the loop returns (`YearLoopSolved`, `YearFound`); the months
are done alike (`MonthFound`), where the twelve lengths add up to the year's, which is why
the table is never left.  What remains is one day to the next: within a month, over its end and
over the end of the year (`NextDated`), and the formula of the week day, which is the number of
the day modulo 7 (`WeekFound`).

**`ProductsProofs`.**  Each part has its inductive invariant; those of the parts speak of moments
of rest, and the invariants say what is true on the way there.

* *Key*: while the debounce timer runs the key was up for no longer than it ran (`UpSince`);
  while the long-press timer runs the key was taken for pressed all the time (`Pressing`);
  presses that were toggled are different ones (`Counted`).
* *Relay*: a coil without a timer is one that a call has just set (`CoilsHeld`); a call that
  nothing met has done its steps (`Reached`), and is the only one (`Lone`, `SingleCall`); while
  the callback is between its two coils its thread, the timer's, is in no call (`TimerKept`).
* *Flags and LED*: the event that the Wi-Fi thread works on is the last one, what it has done
  so far is still done unless a write or a stop was undone, and between events the LED
  blinks without a network (`WifiEvents`).
* *Bulb*: while no two threads met, the one that is in these functions finds what its last step
  left (`SwitchedAt`, `BlinkedAt`), and between calls the program has the one timer there is, or
  there is none (`LampRests`).
* *Dimmer*: whatever threads and interrupts do, the hardware timer is in one of three phases, and
  an open gate has it running (`Phases`); what a thread alone has set so far is known
  (`LevelKnown`), and so is the gate in a half wave without a call (`Steady`).
* *Smart-link*: in each mode only its own thread and callback are at a step (`OfMode`); unless they
  met, the timer that asks was started when the network was lost (`Asking`), and a buzzer that
  sounds has a timer or a step that silences it (`Silenced`).
* *433 MHz gateway*: a request to learn that is not answered yet is counted, so that no answer is
  one too many whatever crossed (`NoneTooMany`); without a crossing, mode, status, wave and
  counter are known at every step (`ModeAt`, `StatusAt`, `CountOut`) and so are the answers
  (`Answering`, `Recorded`); a request whose timer ran out in its own handler is none of these,
  and the only one to leave the status at sending.
* *Factory test*: the order that the thread and the calibration keep (`InOrder`), what is known of
  K in each state (`KFresh`, `KSaved`), and that before the first answer every answer is what the
  device itself draws (`Unloaded`).
* *Energy meter*: `Accounted` ties the total in RAM, the pulses since, the words of the region and
  the pulses that ever were, running and after a failure of power, at each step of a save or of a
  calibration; `HalfRead` what the first half of a report still is worth when the second is read.
* *Log*: while nothing bad happened at most one copy is being made (`OneCopy`), and at each of its
  steps the log and the backup hold the last bytes saved (`LogHolds`, `BakHolds`), the backup as
  far as the block that was reached (`Copied`), and enough of them (`InTime`), so that a failure of power there leaves what the start can find (`LogScanned`).

`ProductsCorrect` puts them together: a behaviour of `ProductsSpec` is one of each part
(`KeyInProduct` and its like), and the pins serve the part that is followed.

**Only model-checked.**  Liveness under fairness and `ENABLED` are out of the prover's reach:
`Drains`, `Served`, `GivesUp`, `LogsIn`, `OneShotsEnd`, `ModesReached`, `Reported` and
`LedBlinks` are checked on the instances of section 4.  All other properties of the passing
runs are theorems.

## 7. What disagrees with the code's own words, and what surprised

**First finding** (run `serverlink_close`): `tcpSocketRecvData` adds `AES_KEY_LEN` to what
`recv` returned (`serverSocketTcp.c:189`), be it 0 or -1, so the branch of
`recvTcpData` with the comment "server socket closed" (`serverSocketTcp.c:233`) is
never taken.  A closed connection is polled until the heartbeat timeout gives it up.

**Second finding** (run `dimmer_off`): "关闭时上键禁止开灯" (`deviceGpio.c:788`), while the lamp
is closed the upper key does not light it.  The interrupt tests that, but the callback of
the debounce timer that it starts does not (`deviceGpio.c:771`): a lamp that an app closes
before that timer expires is lit again, and no report tells the app.

The models also show the following, which no comment or test denies.  Properties
excuse exactly these cases and no run claims otherwise.

* The 256th message that waits makes `noteCount`, a U8, 0 (`asyncMessage.h:35`): the next
  insertion takes the list for empty and links its node as the only one
  (`asyncMessage.c:63`, `:85`), and all that waited is lost.
* A clock set back delays resends by what it was set back, beyond the interval of 8 s
  (`itoCommon.h:277`); `WaitBounded` is stated so.
* An insertion that overlaps the unlocked deletion can lose messages and free the node
  being handled (`asyncMessage.c:121`).
* On a new connection a packet for the old one may be sent before the log-in purges it
  (`serverSocketTcp.c:333`).
* Two threads that correct the same wrap of the counter put the clock a whole wrap ahead
  (`lumTimeData.c:186`).
* A timer that is a whole hour late is one that is in time, by the minute of the hour
  (`lumTimer.c:497-516`).
* A one-minute absence ends before it works the switch, but has taken it over in a minute in
  which an alarm should.
* A one-shot absence whose times are equal is never made inactive (`lumTimer.c:192`,
  `:247`).
* A countdown that ends within a minute that was already checked is removed as an old one
  (`lumTimer.c:434`); a timer more than a minute late loses others so.
* The smart-link request on a product with a key is acknowledged and does nothing
  (`messageDispose.c:632`, `asyncMessage.c:662`).
* The answer to a report of one user's name clears a newer name (`itoCommon.h:507`,
  `messageDispose.c:1614`).
* When TCP cuts a packet, packets are lost until the stream is quiet
  (`serverSocketTcp.c:169-190`); the first packet after a log-in may be read before its
  key is stored (`asyncMessage.c:173`).

* Relay: the timer's callback releases the coils of an action that has just begun
  (`deviceGpio.c:71`).
* Meter: a region that is full at the start is taken for an empty one
  and the total for 0; after the erasing for a calibration the total is in RAM only
  (`rn8209c.c:545`); `lum_coverBcdfFormat` keeps four digits in a U16
  (`messageDispose.c:1712`).
* Factory test: a network event before the thread of the test has said that it runs is
  taken for one of a device in use (`itoMain.c:130` and `:182`, `itoCommon.c:211`); a
  failure of power between its two flags leaves one of them (`lumFactoryTest.c:329`).
* Radio: a second request to learn overwrites the first one's data, so that
  both are answered as the second or not at all; learning while a wave is
  repeated cuts the repetitions; the timer is set before the status that its callback
  reads (`lum_sx1208.c:811`): if it runs out first, a request that is alone is never sent, and
  the status stays at sending until another one succeeds.
* Bulb: a callback that sets its timer again when the message thread has just deleted it
  blinks for ever (`deviceGpio.c:988`, `:1016`); a network event closes the lamp without
  a report; the level keys light a closed lamp.
* Dimmer: a half wave that begins while a lamp is being lit may have the period of a dark one
  (`deviceGpio.c:745`, `:888`).
* Dimmer: its periods fit the half waves of 50 Hz, not of 60 Hz (`g_acFrequrence` counts
  the zeros, and nothing uses it).
* Smart-link: the callback sleeps 200 ms between deleting its timer and forgetting it
  (`deviceMisc.c:363`), and a network event in between deletes it again and does not stop the
  smart-link.
* Log: a failure of power in mid-erasing leaves half a log that is read as a whole one;
  room is tested before the mutex is taken, and the length is reset after it was given back
  (`lumLog.c:163`, `:57`); a log filled to its last byte is copied at the start with a
  length of 0.
* Configuration P4 does not compile: `irqFlag` is not declared.

Outside the models: a network event before its callback is registered is missed
(`itoMain.c:130`); an empty name can be reported (`messageDispose.c:1590`); the comment at
`messageDispose.c:775` computes a size above the array of 250 bytes, but the code
writes 7 bytes per alarm, which fit; the meter's report divides by a voltage or a
constant that may be 0.

## 8. What the models leave out

* *Everywhere:* the text of messages, logging, failing allocations, the bytes of packets
  and flash.  AES is a library, of which only the length of the cipher text is kept.
* *Vendor library:* threads of one priority may be switched between any two accesses.
  What it does with dead timer handles and foreign mutexes is left open as said above.
* *Steps that are one in the model and several in the code:* the search of `deleteListNode` for
  a node that is not the first (`asyncMessage.c:126-141`), which can never find it, as links lead
  to younger nodes and the first node only gets younger (its run through a null pointer in a
  race is left out); in `CompareAlarm` the comparison, the switching and the copy of an alarm
  (`lumTimer.c:138-149`), so that an alarm stored in between, which the code would copy as the old
  one, is stored before or after; the test and the change of the LED's pin (`ToggleLed`,
  `deviceGpio.c:643-655`); and in `Packet` the check of a licence (`itoCommon.c:1119`), which is
  part of the type (`sameType`).
* *`Schedule`:* two built-in absences (7:15-8:16 and 8:16-9:17) that only set the UDP log flag;
  the evaluation that `setAbsenceData` nests in another is one; a crash between the RAM
  and the flash is `Device`'s.
* *`Device`:* one write of the flash file is atomic, as is one handler; a device that is
  not in station mode, in which the start-up makes no thread (`itoMain.c:134`), and the UDP log
  flag are left out.
* *`WifiState`:* the other two flags are writes of other bits (`other`); as flags they are
  in `ServerLink`.
* *`Reception`:* bytes in mid-packet that decrypt to a valid header; several connections.
* *`UserReport`:* at most `MaxTimers` timers exist, those included whose handle was lost.
* *`Meter`, `FactoryTest`:* the dialogue with the chip, bit by bit over two wires
  (`rn8209c.c:145-450`); figures of power are a few loads.  Between the two reads of a
  report come at most `Gap` pulses.  A report is compared modulo the digits that the code keeps
  (`messageDispose.c:1712`), and the overflow of its scaling in 32 bits is left out.
* *`Radio`:* the registers that are written over SPI and the coding of a wave
  (`lum_sx1208.h`, `lum_sx1208.c`); the search mode under `#if 0`.
* *`Light`, `Dimmer`:* how the handlers of brightness and colour keep their values.
* *`FlashLog`:* the making of lines and their copy over UDP.
* *`Products`:* each part is followed alone.  Parts do meet: the key, the relay and the factory
  test work the switch, the meter and the factory test have the K data, and on P5 the radio
  lights the LED of the Wi-Fi state.  The relay's callers and the radio's two accesses to the LED
  are in the models; what else one part may do to another is not (the factory test's and the
  smart-link start's own use of the LED, `deviceMisc.c:335-459`).
* *`Smartlink`:* the lock of the device is followed in RAM; that it is saved with it is
  `Device`'s.
* *Not modelled at all:* the extra switches of P4 (`getExtraSwitchStatus` is under
  `#if 0`), the opening of the UDP socket, handlers that only read (but for the lengths of
  their answers), printing for debugging, and the vendor's SDK with its examples.

More than half of the implementation's lines can have no model: the
SDK's headers and examples, the chip's registers (`lum_sx1208.h`), the cipher (`aes.c`), constants of
the headers, logging and code under switches that no product sets.
