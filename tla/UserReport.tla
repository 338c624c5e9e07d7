------------------------------ MODULE UserReport ------------------------------
(***************************************************************************)
(* The report of the user's name to the server.  Locking a device stores    *)
(* the name of its user; until the server has answered a report of it, the  *)
(* device reports it again every ten seconds and after every log-in.        *)
(*                                                                          *)
(* One timer, reportFactoryRestTimer, is created, set, stopped and deleted  *)
(* by three threads without a lock: the message thread (a lock, a log-in,   *)
(* the server's answer), the timer thread (its own callback) and the one    *)
(* the Wi-Fi events come in.  Every access to its handle is a step.  What   *)
(* the vendor library does with a handle that is NULL or deleted is not     *)
(* known; the model lets it do nothing and remembers it in `misused'.  A     *)
(* timer whose handle is overwritten counts there too.                       *)
(*                                                                          *)
(* A name is the number of the lock that stored it, 0 is the empty name.    *)
(***************************************************************************)
EXTENDS Naturals, Sequences, FiniteSets

CONSTANTS MaxLocks,   \* bound: locks
          MaxDrops,   \* bound: times the server or the Wi-Fi is lost
          MaxList,    \* bound: messages, packets and answers on their way when
                      \* a lock arrives or the timer expires
          MaxTimers   \* bound: timers that exist at once

ASSUME UserReportAssumption ==
    /\ {MaxLocks, MaxDrops} \subseteq Nat
    /\ {MaxList, MaxTimers} \subseteq Nat \ {0}

VARIABLES user,     \* deviceConfigData.userName
          handle,   \* reportFactoryRestTimer, 0 when it is NULL
          alive,    \* the timers that exist
          armed,    \* those of them that run
          pc,       \* what each thread is about to do
          msgs,     \* the message list
          out,      \* the names in the reports that wait to be sent
          dhcp, conn,
          asked,    \* the log-in was requested and not yet answered
          replies,  \* the server's answers on their way
          told,     \* the names the server was told
          locks, drops,
          crossed,  \* history: a lock met a report of the name before
          misused   \* history: a dead handle was used, or a live one lost

timers == <<handle, alive, armed>>
net == <<dhcp, conn, asked, replies, told>>
bounds == <<locks, drops>>
vars == <<user, handle, alive, armed, pc, msgs, out, dhcp, conn, asked, replies,
          told, locks, drops, crossed, misused>>

Thread == {"msg", "timer", "wifi"}
Name == 0 .. MaxLocks
Timer == 1 .. MaxTimers

Goes(t, p) == pc' = [pc EXCEPT ![t] = p]

(* Use of the handle by hftimer_stop and its like.                          *)
Uses == misused' = (misused \/ handle \notin alive)

-----------------------------------------------------------------------------
(* lum_checkFactoryResetTimer in thread t.  A timer that lost its handle is  *)
(* never deleted; the model forgets it once it does not run any more.        *)

Test(t) ==
    /\ pc[t] = "test"
    /\ Goes(t, IF handle = 0 THEN "create" ELSE "arm")
    /\ UNCHANGED <<user, timers, msgs, out, net, bounds, crossed, misused>>

(* The timers that may be created: the bound lets one be free always.       *)
Free == Timer \ (armed \cup {handle})

Create(t) ==
    /\ pc[t] = "create" /\ Free # {}
    /\ LET new == CHOOSE n \in Free : TRUE IN
       handle' = new /\ alive' = armed \cup {new}
    /\ misused' = (misused \/ handle # 0)
    /\ Goes(t, "arm")
    /\ UNCHANGED <<user, armed, msgs, out, net, bounds, crossed>>

Arm(t) ==
    /\ pc[t] = "arm"
    /\ armed' = armed \cup ({handle} \cap alive) /\ Uses
    /\ Goes(t, "idle")
    /\ UNCHANGED <<user, handle, alive, msgs, out, net, bounds, crossed>>

(* lum_stopFactoryResetTimer in thread t.  The message thread then clears   *)
(* the name.                                                                *)
StopDone(t) == Goes(t, IF t = "msg" THEN "clear" ELSE "idle")

(* Mutant of TestStop: the handle is cleared and the timer left running.    *)
TestStopForgets(t) ==
    /\ pc[t] = "stop?"
    /\ IF handle = 0 THEN StopDone(t) ELSE Goes(t, "null")
    /\ UNCHANGED <<user, timers, msgs, out, net, bounds, crossed, misused>>

TestStop(t) ==
    /\ pc[t] = "stop?"
    /\ IF handle = 0 THEN StopDone(t) ELSE Goes(t, "stop")
    /\ UNCHANGED <<user, timers, msgs, out, net, bounds, crossed, misused>>

Stop(t) ==
    /\ pc[t] = "stop"
    /\ armed' = armed \ {handle} /\ Uses
    /\ Goes(t, "delete")
    /\ UNCHANGED <<user, handle, alive, msgs, out, net, bounds, crossed>>

Delete(t) ==
    /\ pc[t] = "delete"
    /\ alive' = alive \ {handle} /\ armed' = armed \ {handle} /\ Uses
    /\ Goes(t, "null")
    /\ UNCHANGED <<user, handle, msgs, out, net, bounds, crossed>>

Null(t) ==
    /\ pc[t] = "null"
    /\ handle' = 0
    /\ StopDone(t)
    /\ UNCHANGED <<user, alive, armed, msgs, out, net, bounds, crossed, misused>>

TimerCall(t) == \/ Test(t) \/ Create(t) \/ Arm(t)
                \/ TestStop(t) \/ Stop(t) \/ Delete(t) \/ Null(t)

-----------------------------------------------------------------------------
(* lum_sendFactoryResetMsg, appending to the list q.                        *)
WithReport(q) == IF conn THEN Append(q, "report") ELSE q

OnTheirWay == Len(msgs) + Len(out) + replies

(* lum_factoryReseTimerCallback.                                            *)
Fire ==
    /\ pc["timer"] = "idle" /\ OnTheirWay < MaxList
    /\ \E t \in armed: armed' = armed \ {t}
    /\ msgs' = WithReport(msgs)
    /\ Goes("timer", "test")
    /\ UNCHANGED <<user, handle, alive, out, net, bounds, crossed, misused>>

-----------------------------------------------------------------------------
(* The message thread.                                                      *)

Handle(m) == pc["msg"] = "idle" /\ msgs # <<>> /\ Head(msgs) = m

(* lum_checkReportUsername, the message at the head of the list being done. *)
CheckReportUsername(name) ==
    IF name = 0 THEN msgs' = Tail(msgs) /\ UNCHANGED pc
    ELSE msgs' = WithReport(Tail(msgs)) /\ Goes("msg", "test")

(* A report of an older name that the server may still answer.              *)
Unanswered == replies > 0 \/ out # <<>> \/ \E i \in DOMAIN msgs: msgs[i] = "reply"

(* rebackLockDevice.                                                        *)
HandleLock ==
    /\ Handle("lock")
    /\ locks' = locks + 1 /\ user' = locks + 1
    /\ crossed' = (crossed \/ Unanswered)
    /\ CheckReportUsername(locks + 1)
    /\ UNCHANGED <<timers, out, net, drops, misused>>

(* Mutant of HandleLogin: the name is not looked at.                        *)
HandleLoginSilent ==
    /\ Handle("login")
    /\ msgs' = Tail(msgs)
    /\ UNCHANGED <<pc, user, timers, out, net, bounds, crossed, misused>>

(* rebackRequstConnectServer, lum_AfterConnectServer.                       *)
HandleLogin ==
    /\ Handle("login")
    /\ CheckReportUsername(user)
    /\ UNCHANGED <<user, timers, out, net, bounds, crossed, misused>>

(* Mutant of HandleReport: the name is not filled in.                       *)
HandleReportEmpty ==
    /\ Handle("report")
    /\ msgs' = Tail(msgs) /\ out' = Append(out, 0)
    /\ UNCHANGED <<user, timers, pc, net, bounds, crossed, misused>>

(* localRequstFactoryDataReset: the name of now, which may be empty.        *)
HandleReport ==
    /\ Handle("report")
    /\ msgs' = Tail(msgs) /\ out' = Append(out, user)
    /\ UNCHANGED <<user, timers, pc, net, bounds, crossed, misused>>

(* lum_replyFactoryDataReset, which does not look which report it answers.  *)
HandleReply ==
    /\ Handle("reply")
    /\ msgs' = Tail(msgs)
    /\ Goes("msg", "stop?")
    /\ UNCHANGED <<user, timers, out, net, bounds, crossed, misused>>

Clear ==
    /\ pc["msg"] = "clear"
    /\ user' = 0
    /\ Goes("msg", "idle")
    /\ UNCHANGED <<timers, msgs, out, net, bounds, crossed, misused>>

(* sendSocketData with a report.  It is not repeated, whatever becomes of   *)
(* it; the server answers each one it gets.                                 *)
SendReport ==
    /\ pc["msg"] = "idle" /\ out # <<>> /\ dhcp
    /\ out' = Tail(out)
    /\ IF conn /\ ~asked
       THEN told' = told \cup {Head(out)} /\ replies' = replies + 1
       ELSE UNCHANGED <<told, replies>>
    /\ UNCHANGED <<user, timers, pc, msgs, dhcp, conn, asked, bounds, crossed,
                   misused>>

Handling == \/ HandleLock \/ HandleLogin \/ HandleReport \/ HandleReply
            \/ Clear

-----------------------------------------------------------------------------
(* The apps, the TCP thread with the server behind it, and the Wi-Fi.       *)

Locking ==
    /\ OnTheirWay < MaxList
    /\ locks + Cardinality({i \in DOMAIN msgs: msgs[i] = "lock"}) < MaxLocks
    /\ msgs' = Append(msgs, "lock")
    /\ UNCHANGED <<user, timers, pc, out, net, bounds, crossed, misused>>

ReceiveReply ==
    /\ conn /\ replies > 0
    /\ replies' = replies - 1
    /\ msgs' = Append(msgs, "reply")
    /\ UNCHANGED <<user, timers, pc, out, dhcp, conn, asked, told, bounds,
                   crossed, misused>>

(* A new connection; the log-in request drops the packets for the old one.   *)
Connect ==
    /\ dhcp /\ ~conn
    /\ conn' = TRUE /\ asked' = TRUE /\ out' = <<>>
    /\ UNCHANGED <<user, timers, pc, msgs, dhcp, replies, told, bounds, crossed,
                   misused>>

ReceiveLogin ==
    /\ conn /\ asked
    /\ asked' = FALSE
    /\ msgs' = Append(msgs, "login")
    /\ UNCHANGED <<user, timers, pc, out, dhcp, conn, replies, told, bounds,
                   crossed, misused>>

Disconnected == conn' = FALSE /\ asked' = FALSE /\ replies' = 0

(* The server closes the connection, or its heartbeat is missed.            *)
Drop ==
    /\ conn /\ drops < MaxDrops
    /\ drops' = drops + 1
    /\ Disconnected
    /\ UNCHANGED <<user, timers, pc, msgs, out, dhcp, told, locks, crossed,
                   misused>>

(* setFlagAfterApDisconnect.                                                *)
ApDisconnect ==
    /\ pc["wifi"] = "idle" /\ dhcp /\ drops < MaxDrops
    /\ drops' = drops + 1
    /\ dhcp' = FALSE /\ Disconnected
    /\ Goes("wifi", "stop?")
    /\ UNCHANGED <<user, timers, msgs, out, told, locks, crossed, misused>>

(* setFlagAfterDhcp, in the same thread.                                    *)
DhcpOk ==
    /\ pc["wifi"] = "idle" /\ ~dhcp
    /\ dhcp' = TRUE
    /\ UNCHANGED <<user, timers, pc, msgs, out, conn, asked, replies, told,
                   bounds, crossed, misused>>

Server == ReceiveReply \/ Connect \/ ReceiveLogin

(* A name may have been stored before the device was switched on.           *)
Init ==
    /\ locks \in {0, 1} /\ user = locks
    /\ handle = 0 /\ alive = {} /\ armed = {}
    /\ pc = [t \in Thread |-> "idle"]
    /\ msgs = <<>> /\ out = <<>>
    /\ dhcp = FALSE /\ conn = FALSE /\ asked = FALSE /\ replies = 0
    /\ told = {} /\ drops = 0
    /\ crossed = FALSE /\ misused = FALSE

Next == \/ \E t \in Thread: TimerCall(t)
        \/ Fire \/ Handling \/ SendReport \/ Locking \/ Server \/ Drop \/ ApDisconnect
        \/ DhcpOk

Spec == Init /\ [][Next]_vars

(* The threads run, the timer expires, and the network comes back; every     *)
(* round of the message thread's loop handles a message and sends a packet. *)
Fairness == /\ \A t \in Thread: WF_vars(TimerCall(t))
            /\ WF_vars(Fire) /\ WF_vars(Handling) /\ SF_vars(SendReport)
            /\ WF_vars(ReceiveReply) /\ WF_vars(Connect) /\ WF_vars(ReceiveLogin)
            /\ WF_vars(DhcpOk)
FairSpec == Spec /\ Fairness
-----------------------------------------------------------------------------
TypeOK ==
    /\ user \in Nat /\ handle \in Timer \cup {0}
    /\ alive \subseteq Timer /\ armed \subseteq alive
    /\ pc \in [Thread -> {"idle", "test", "create", "arm", "stop?", "stop",
                          "delete", "null", "clear"}]
    /\ msgs \in Seq({"lock", "login", "report", "reply"}) /\ out \in Seq(Nat)
    /\ {dhcp, conn, asked, crossed, misused} \subseteq BOOLEAN
    /\ replies \in Nat /\ told \subseteq Nat
    /\ locks \in Nat /\ drops \in 0 .. MaxDrops

(* The device forgets a name only after the server was told it, unless the   *)
(* lock that stored it met a report of the one before.                       *)
ClearedMeansTold ==
    [][user # 0 /\ user' = 0 => user \in told \/ crossed]_vars

(* Logged in, with a name and all calls finished, the device will report the *)
(* name: the timer runs, or a message that sets it is waiting; unless two    *)
(* threads used the timer at once.                                           *)
Watched ==
    /\ user # 0 /\ conn /\ ~asked /\ ~misused
    /\ \A t \in Thread: pc[t] = "idle"
    => handle \in armed \/ \E i \in DOMAIN msgs: msgs[i] \in {"login", "reply"}

(* Only the timer that the handle points to runs, so that it can be stopped, *)
(* unless two threads used it at once.                                       *)
OneTimer == misused \/ armed \subseteq {handle}

(* The types, and the one timer that a name is reported by.                  *)
TimerInv == TypeOK /\ Watched /\ OneTimer

(* Every name is reported until the server has answered it, or a newer one   *)
(* takes its place, through lost connections and lost packets.               *)
Reported == \A n \in Name \ {0}: user = n ~> user # n
=============================================================================
