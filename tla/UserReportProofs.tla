-------------------------- MODULE UserReportProofs --------------------------
(***************************************************************************)
(* The invariant of UserReport, for any number of locks, lost connections,  *)
(* messages and timers.  OneTimer is inductive with what holds of a thread  *)
(* that is about to clear the handle (Nulling); Watched with what the       *)
(* threads are about to do (Reporting), and with the order in which a       *)
(* Wi-Fi event stops the timer and lets a connection be made (Downs).       *)
(***************************************************************************)
EXTENDS UserReport, TLAPS

(* What each thread may be about to do.                                     *)
Pcs ==
    /\ pc["timer"] \in {"idle", "test", "create", "arm"}
    /\ pc["wifi"] \in {"idle", "stop?", "stop", "delete", "null"}

(* There is no connection before the Wi-Fi event is handled.                *)
Downs == pc["wifi"] # "idle" => ~dhcp /\ ~conn

(* Unless the timer was used by two threads at once, one of them clears the *)
(* handle, and it is that of a timer that is gone.                          *)
Nulling ==
    ~misused => \A t \in Thread: pc[t] = "null" =>
        /\ handle # 0 /\ handle \notin alive
        /\ \A s \in Thread: pc[s] = "null" => s = t

(* A message that sets the timer is waiting.                                *)
Waiting == \E i \in DOMAIN msgs: msgs[i] \in {"login", "reply"}

(* The device reports the name, or is about to, or to clear it.             *)
Reporting ==
    user # 0 /\ conn /\ ~asked /\ ~misused =>
        \/ handle \in armed \/ Waiting
        \/ pc["msg"] # "idle" \/ pc["timer"] # "idle"

ReportIInv == TypeOK /\ Pcs /\ Downs /\ Nulling /\ OneTimer /\ Reporting
-----------------------------------------------------------------------------
(* The types in parts.                                                      *)
FlagsType ==
    /\ dhcp \in BOOLEAN /\ conn \in BOOLEAN /\ asked \in BOOLEAN
    /\ crossed \in BOOLEAN /\ misused \in BOOLEAN
TimersType ==
    /\ handle \in Timer \cup {0} /\ alive \subseteq Timer /\ armed \subseteq alive
PcType == pc \in [Thread -> {"idle", "test", "create", "arm", "stop?", "stop",
                             "delete", "null", "clear"}]
Message == {"lock", "login", "report", "reply"}
ListType == msgs \in Seq(Message)
CountsType ==
    /\ user \in Nat /\ out \in Seq(Nat) /\ replies \in Nat /\ told \subseteq Nat
    /\ locks \in Nat /\ drops \in 0 .. MaxDrops

LEMMA Types == TypeOK <=> FlagsType /\ TimersType /\ PcType /\ ListType /\ CountsType
    BY DEF TypeOK, FlagsType, TimersType, PcType, ListType, CountsType, Message

LEMMA TimersAre == Timer \subseteq Nat /\ 0 \notin Timer
    BY UserReportAssumption DEF Timer

LEMMA Appended ==
    ASSUME NEW S, NEW s \in Seq(S), NEW x \in S
    PROVE  /\ Append(s, x) \in Seq(S)
           /\ \A i \in DOMAIN s: i \in DOMAIN Append(s, x) /\ Append(s, x)[i] = s[i]
           /\ Len(s) + 1 \in DOMAIN Append(s, x) /\ Append(s, x)[Len(s) + 1] = x
    OBVIOUS

LEMMA Tailed ==
    ASSUME NEW S, NEW s \in Seq(S), s # <<>>
    PROVE  /\ Tail(s) \in Seq(S) /\ Head(s) \in S
           /\ \A i \in DOMAIN s: i # 1 => i - 1 \in DOMAIN Tail(s) /\ Tail(s)[i - 1] = s[i]
           /\ Head(s) = s[1]
    OBVIOUS

LEMMA FlagsKept ==
    ASSUME FlagsType, [Next]_vars
    PROVE  FlagsType'
<1> USE DEF FlagsType, timers, net, bounds
<1>1. ASSUME NEW t \in Thread, Test(t) PROVE FlagsType'
    BY <1>1 DEF Test, Goes
<1>2. ASSUME NEW t \in Thread, Create(t) PROVE FlagsType'
    BY <1>2 DEF Create, Goes
<1>3. ASSUME NEW t \in Thread, Arm(t) PROVE FlagsType'
    BY <1>3 DEF Arm, Goes, Uses
<1>4. ASSUME NEW t \in Thread, TestStop(t) PROVE FlagsType'
    BY <1>4 DEF TestStop, StopDone, Goes
<1>5. ASSUME NEW t \in Thread, Stop(t) PROVE FlagsType'
    BY <1>5 DEF Stop, Goes, Uses
<1>6. ASSUME NEW t \in Thread, Delete(t) PROVE FlagsType'
    BY <1>6 DEF Delete, Goes, Uses
<1>7. ASSUME NEW t \in Thread, Null(t) PROVE FlagsType'
    BY <1>7 DEF Null, StopDone, Goes
<1>8. CASE Fire
    BY <1>8 DEF Fire, Goes, WithReport
<1>9. CASE HandleLock
    BY <1>9 DEF HandleLock, Handle, CheckReportUsername, WithReport, Goes
<1>10. CASE HandleLogin
    BY <1>10 DEF HandleLogin, Handle, CheckReportUsername, WithReport, Goes
<1>11. CASE HandleReport
    BY <1>11 DEF HandleReport, Handle
<1>12. CASE HandleReply
    BY <1>12 DEF HandleReply, Handle, Goes
<1>13. CASE Clear
    BY <1>13 DEF Clear, Goes
<1>14. CASE SendReport
    BY <1>14 DEF SendReport
<1>15. CASE Locking
    BY <1>15 DEF Locking
<1>16. CASE ReceiveReply
    BY <1>16 DEF ReceiveReply
<1>17. CASE Connect
    BY <1>17 DEF Connect
<1>18. CASE ReceiveLogin
    BY <1>18 DEF ReceiveLogin
<1>19. CASE Drop
    BY <1>19 DEF Drop, Disconnected
<1>20. CASE ApDisconnect
    BY <1>20 DEF ApDisconnect, Disconnected, Goes
<1>21. CASE DhcpOk
    BY <1>21 DEF DhcpOk
<1>22. CASE UNCHANGED vars
    BY <1>22 DEF vars
<1> QED
    BY <1>1, <1>2, <1>3, <1>4, <1>5, <1>6, <1>7, <1>8, <1>9, <1>10, <1>11,
       <1>12, <1>13, <1>14, <1>15, <1>16, <1>17, <1>18, <1>19, <1>20, <1>21,
       <1>22 DEF Next, TimerCall, Handling, Server

LEMMA TimersKept ==
    ASSUME TimersType, [Next]_vars
    PROVE  TimersType'
<1> USE DEF TimersType, timers, net, bounds
<1>1. ASSUME NEW t \in Thread, Test(t) PROVE TimersType'
    BY <1>1 DEF Test, Goes
<1>2. ASSUME NEW t \in Thread, Create(t) PROVE TimersType'
    <2>1. PICK new \in Free: handle' = new /\ alive' = armed \cup {new}
        BY <1>2 DEF Create, Goes
    <2>2. UNCHANGED armed /\ new \in Timer
        BY <1>2 DEF Create, Free
    <2> QED
        BY <2>1, <2>2
<1>3. ASSUME NEW t \in Thread, Arm(t) PROVE TimersType'
    BY <1>3 DEF Arm, Goes, Uses
<1>4. ASSUME NEW t \in Thread, TestStop(t) PROVE TimersType'
    BY <1>4 DEF TestStop, StopDone, Goes
<1>5. ASSUME NEW t \in Thread, Stop(t) PROVE TimersType'
    BY <1>5 DEF Stop, Goes, Uses
<1>6. ASSUME NEW t \in Thread, Delete(t) PROVE TimersType'
    BY <1>6 DEF Delete, Goes, Uses
<1>7. ASSUME NEW t \in Thread, Null(t) PROVE TimersType'
    BY <1>7 DEF Null, StopDone, Goes
<1>8. CASE Fire
    BY <1>8 DEF Fire, Goes, WithReport
<1>9. CASE HandleLock
    BY <1>9 DEF HandleLock, Handle, CheckReportUsername, WithReport, Goes
<1>10. CASE HandleLogin
    BY <1>10 DEF HandleLogin, Handle, CheckReportUsername, WithReport, Goes
<1>11. CASE HandleReport
    BY <1>11 DEF HandleReport, Handle
<1>12. CASE HandleReply
    BY <1>12 DEF HandleReply, Handle, Goes
<1>13. CASE Clear
    BY <1>13 DEF Clear, Goes
<1>14. CASE SendReport
    BY <1>14 DEF SendReport
<1>15. CASE Locking
    BY <1>15 DEF Locking
<1>16. CASE ReceiveReply
    BY <1>16 DEF ReceiveReply
<1>17. CASE Connect
    BY <1>17 DEF Connect
<1>18. CASE ReceiveLogin
    BY <1>18 DEF ReceiveLogin
<1>19. CASE Drop
    BY <1>19 DEF Drop, Disconnected
<1>20. CASE ApDisconnect
    BY <1>20 DEF ApDisconnect, Disconnected, Goes
<1>21. CASE DhcpOk
    BY <1>21 DEF DhcpOk
<1>22. CASE UNCHANGED vars
    BY <1>22 DEF vars
<1> QED
    BY <1>1, <1>2, <1>3, <1>4, <1>5, <1>6, <1>7, <1>8, <1>9, <1>10, <1>11,
       <1>12, <1>13, <1>14, <1>15, <1>16, <1>17, <1>18, <1>19, <1>20, <1>21,
       <1>22 DEF Next, TimerCall, Handling, Server

LEMMA PcKept ==
    ASSUME PcType, Pcs, [Next]_vars
    PROVE  PcType' /\ Pcs'
<1> USE DEF PcType, Pcs, Thread, timers, net, bounds
<1>1. ASSUME NEW t \in Thread, Test(t) PROVE PcType' /\ Pcs'
    BY <1>1 DEF Test, Goes
<1>2. ASSUME NEW t \in Thread, Create(t) PROVE PcType' /\ Pcs'
    BY <1>2 DEF Create, Goes
<1>3. ASSUME NEW t \in Thread, Arm(t) PROVE PcType' /\ Pcs'
    BY <1>3 DEF Arm, Goes, Uses
<1>4. ASSUME NEW t \in Thread, TestStop(t) PROVE PcType' /\ Pcs'
    BY <1>4 DEF TestStop, StopDone, Goes
<1>5. ASSUME NEW t \in Thread, Stop(t) PROVE PcType' /\ Pcs'
    BY <1>5 DEF Stop, Goes, Uses
<1>6. ASSUME NEW t \in Thread, Delete(t) PROVE PcType' /\ Pcs'
    BY <1>6 DEF Delete, Goes, Uses
<1>7. ASSUME NEW t \in Thread, Null(t) PROVE PcType' /\ Pcs'
    BY <1>7 DEF Null, StopDone, Goes
<1>8. CASE Fire
    BY <1>8 DEF Fire, Goes, WithReport
<1>9. CASE HandleLock
    BY <1>9 DEF HandleLock, Handle, CheckReportUsername, WithReport, Goes
<1>10. CASE HandleLogin
    BY <1>10 DEF HandleLogin, Handle, CheckReportUsername, WithReport, Goes
<1>11. CASE HandleReport
    BY <1>11 DEF HandleReport, Handle
<1>12. CASE HandleReply
    BY <1>12 DEF HandleReply, Handle, Goes
<1>13. CASE Clear
    BY <1>13 DEF Clear, Goes
<1>14. CASE SendReport
    BY <1>14 DEF SendReport
<1>15. CASE Locking
    BY <1>15 DEF Locking
<1>16. CASE ReceiveReply
    BY <1>16 DEF ReceiveReply
<1>17. CASE Connect
    BY <1>17 DEF Connect
<1>18. CASE ReceiveLogin
    BY <1>18 DEF ReceiveLogin
<1>19. CASE Drop
    BY <1>19 DEF Drop, Disconnected
<1>20. CASE ApDisconnect
    BY <1>20 DEF ApDisconnect, Disconnected, Goes
<1>21. CASE DhcpOk
    BY <1>21 DEF DhcpOk
<1>22. CASE UNCHANGED vars
    BY <1>22 DEF vars
<1> QED
    BY <1>1, <1>2, <1>3, <1>4, <1>5, <1>6, <1>7, <1>8, <1>9, <1>10, <1>11,
       <1>12, <1>13, <1>14, <1>15, <1>16, <1>17, <1>18, <1>19, <1>20, <1>21,
       <1>22 DEF Next, TimerCall, Handling, Server

LEMMA ListKept ==
    ASSUME ListType, [Next]_vars
    PROVE  ListType'
<1> USE DEF ListType, timers, net, bounds
<1>1. ASSUME NEW t \in Thread, Test(t) PROVE ListType'
    BY <1>1 DEF Test, Goes
<1>2. ASSUME NEW t \in Thread, Create(t) PROVE ListType'
    BY <1>2 DEF Create, Goes
<1>3. ASSUME NEW t \in Thread, Arm(t) PROVE ListType'
    BY <1>3 DEF Arm, Goes, Uses
<1>4. ASSUME NEW t \in Thread, TestStop(t) PROVE ListType'
    BY <1>4 DEF TestStop, StopDone, Goes
<1>5. ASSUME NEW t \in Thread, Stop(t) PROVE ListType'
    BY <1>5 DEF Stop, Goes, Uses
<1>6. ASSUME NEW t \in Thread, Delete(t) PROVE ListType'
    BY <1>6 DEF Delete, Goes, Uses
<1>7. ASSUME NEW t \in Thread, Null(t) PROVE ListType'
    BY <1>7 DEF Null, StopDone, Goes
<1>8. CASE Fire
    <2>1. \E q \in Seq(Message): msgs' = q \/ msgs' = Append(q, "report")
        BY <1>8, Tailed DEF Fire, Goes, WithReport
    <2> QED
        BY <2>1, Appended DEF Message
<1>9. CASE HandleLock
    <2>1. \E q \in Seq(Message): msgs' = q \/ msgs' = Append(q, "report")
        BY <1>9, Tailed DEF HandleLock, Handle, CheckReportUsername, WithReport, Goes
    <2> QED
        BY <2>1, Appended DEF Message
<1>10. CASE HandleLogin
    <2>1. \E q \in Seq(Message): msgs' = q \/ msgs' = Append(q, "report")
        BY <1>10, Tailed DEF HandleLogin, Handle, CheckReportUsername, WithReport, Goes
    <2> QED
        BY <2>1, Appended DEF Message
<1>11. CASE HandleReport
    BY <1>11, Tailed DEF HandleReport, Handle
<1>12. CASE HandleReply
    BY <1>12, Tailed DEF HandleReply, Handle, Goes
<1>13. CASE Clear
    BY <1>13 DEF Clear, Goes
<1>14. CASE SendReport
    BY <1>14 DEF SendReport
<1>15. CASE Locking
    BY <1>15, Appended DEF Locking, Message
<1>16. CASE ReceiveReply
    BY <1>16, Appended DEF ReceiveReply, Message
<1>17. CASE Connect
    BY <1>17 DEF Connect
<1>18. CASE ReceiveLogin
    BY <1>18, Appended DEF ReceiveLogin, Message
<1>19. CASE Drop
    BY <1>19 DEF Drop, Disconnected
<1>20. CASE ApDisconnect
    BY <1>20 DEF ApDisconnect, Disconnected, Goes
<1>21. CASE DhcpOk
    BY <1>21 DEF DhcpOk
<1>22. CASE UNCHANGED vars
    BY <1>22 DEF vars
<1> QED
    BY <1>1, <1>2, <1>3, <1>4, <1>5, <1>6, <1>7, <1>8, <1>9, <1>10, <1>11,
       <1>12, <1>13, <1>14, <1>15, <1>16, <1>17, <1>18, <1>19, <1>20, <1>21,
       <1>22 DEF Next, TimerCall, Handling, Server

LEMMA CountsKept ==
    ASSUME CountsType, [Next]_vars
    PROVE  CountsType'
<1> USE DEF CountsType, timers, net, bounds
<1>1. ASSUME NEW t \in Thread, Test(t) PROVE CountsType'
    BY <1>1 DEF Test, Goes
<1>2. ASSUME NEW t \in Thread, Create(t) PROVE CountsType'
    BY <1>2 DEF Create, Goes
<1>3. ASSUME NEW t \in Thread, Arm(t) PROVE CountsType'
    BY <1>3 DEF Arm, Goes, Uses
<1>4. ASSUME NEW t \in Thread, TestStop(t) PROVE CountsType'
    BY <1>4 DEF TestStop, StopDone, Goes
<1>5. ASSUME NEW t \in Thread, Stop(t) PROVE CountsType'
    BY <1>5 DEF Stop, Goes, Uses
<1>6. ASSUME NEW t \in Thread, Delete(t) PROVE CountsType'
    BY <1>6 DEF Delete, Goes, Uses
<1>7. ASSUME NEW t \in Thread, Null(t) PROVE CountsType'
    BY <1>7 DEF Null, StopDone, Goes
<1>8. CASE Fire
    BY <1>8 DEF Fire, Goes, WithReport
<1>9. CASE HandleLock
    BY <1>9 DEF HandleLock, Handle, CheckReportUsername, WithReport, Goes
<1>10. CASE HandleLogin
    BY <1>10 DEF HandleLogin, Handle, CheckReportUsername, WithReport, Goes
<1>11. CASE HandleReport
    <2>1. out' = Append(out, user) /\ UNCHANGED <<user, replies, told, locks, drops>>
        BY <1>11 DEF HandleReport, Handle
    <2> QED
        BY <2>1, Appended
<1>12. CASE HandleReply
    BY <1>12 DEF HandleReply, Handle, Goes
<1>13. CASE Clear
    BY <1>13 DEF Clear, Goes
<1>14. CASE SendReport
    <2>1. out # <<>> /\ out' = Tail(out) /\ UNCHANGED <<user, locks, drops>>
        BY <1>14 DEF SendReport
    <2>2. Tail(out) \in Seq(Nat) /\ Head(out) \in Nat
        BY <2>1, Tailed
    <2>3. UNCHANGED <<told, replies>> \/ (told' = told \cup {Head(out)} /\ replies' = replies + 1)
        BY <1>14 DEF SendReport
    <2>4. told' \subseteq Nat
        BY <2>2, <2>3
    <2>5. replies' \in Nat
        BY <2>3
    <2> QED
        BY <2>1, <2>2, <2>4, <2>5
<1>15. CASE Locking
    BY <1>15 DEF Locking
<1>16. CASE ReceiveReply
    BY <1>16 DEF ReceiveReply
<1>17. CASE Connect
    <2>1. out' = <<>> /\ UNCHANGED <<user, replies, told, locks, drops>>
        BY <1>17 DEF Connect
    <2>2. <<>> \in Seq(Nat)
        OBVIOUS
    <2> QED
        BY <2>1, <2>2
<1>18. CASE ReceiveLogin
    BY <1>18 DEF ReceiveLogin
<1>19. CASE Drop
    BY <1>19, UserReportAssumption DEF Drop, Disconnected
<1>20. CASE ApDisconnect
    BY <1>20, UserReportAssumption DEF ApDisconnect, Disconnected, Goes
<1>21. CASE DhcpOk
    BY <1>21 DEF DhcpOk
<1>22. CASE UNCHANGED vars
    BY <1>22 DEF vars
<1> QED
    BY <1>1, <1>2, <1>3, <1>4, <1>5, <1>6, <1>7, <1>8, <1>9, <1>10, <1>11,
       <1>12, <1>13, <1>14, <1>15, <1>16, <1>17, <1>18, <1>19, <1>20, <1>21,
       <1>22 DEF Next, TimerCall, Handling, Server

LEMMA DownsKept ==
    ASSUME PcType, Downs, [Next]_vars
    PROVE  Downs'
<1> USE DEF Downs, PcType, Thread, timers, net, bounds
<1>1. ASSUME NEW t \in Thread, Test(t) PROVE Downs'
    BY <1>1 DEF Test, Goes
<1>2. ASSUME NEW t \in Thread, Create(t) PROVE Downs'
    BY <1>2 DEF Create, Goes
<1>3. ASSUME NEW t \in Thread, Arm(t) PROVE Downs'
    BY <1>3 DEF Arm, Goes, Uses
<1>4. ASSUME NEW t \in Thread, TestStop(t) PROVE Downs'
    BY <1>4 DEF TestStop, StopDone, Goes
<1>5. ASSUME NEW t \in Thread, Stop(t) PROVE Downs'
    BY <1>5 DEF Stop, Goes, Uses
<1>6. ASSUME NEW t \in Thread, Delete(t) PROVE Downs'
    BY <1>6 DEF Delete, Goes, Uses
<1>7. ASSUME NEW t \in Thread, Null(t) PROVE Downs'
    BY <1>7 DEF Null, StopDone, Goes
<1>8. CASE Fire
    BY <1>8 DEF Fire, Goes, WithReport
<1>9. CASE HandleLock
    BY <1>9 DEF HandleLock, Handle, CheckReportUsername, WithReport, Goes
<1>10. CASE HandleLogin
    BY <1>10 DEF HandleLogin, Handle, CheckReportUsername, WithReport, Goes
<1>11. CASE HandleReport
    BY <1>11 DEF HandleReport, Handle
<1>12. CASE HandleReply
    BY <1>12 DEF HandleReply, Handle, Goes
<1>13. CASE Clear
    BY <1>13 DEF Clear, Goes
<1>14. CASE SendReport
    BY <1>14 DEF SendReport
<1>15. CASE Locking
    BY <1>15 DEF Locking
<1>16. CASE ReceiveReply
    BY <1>16 DEF ReceiveReply
<1>17. CASE Connect
    BY <1>17 DEF Connect
<1>18. CASE ReceiveLogin
    BY <1>18 DEF ReceiveLogin
<1>19. CASE Drop
    BY <1>19 DEF Drop, Disconnected
<1>20. CASE ApDisconnect
    BY <1>20 DEF ApDisconnect, Disconnected, Goes
<1>21. CASE DhcpOk
    BY <1>21 DEF DhcpOk
<1>22. CASE UNCHANGED vars
    BY <1>22 DEF vars
<1> QED
    BY <1>1, <1>2, <1>3, <1>4, <1>5, <1>6, <1>7, <1>8, <1>9, <1>10, <1>11,
       <1>12, <1>13, <1>14, <1>15, <1>16, <1>17, <1>18, <1>19, <1>20, <1>21,
       <1>22 DEF Next, TimerCall, Handling, Server

LEMMA OneTimerKept ==
    ASSUME TimersType, PcType, Nulling, OneTimer, [Next]_vars
    PROVE  OneTimer'
<1> USE DEF OneTimer, TimersType, timers, net, bounds
<1>1. ASSUME NEW t \in Thread, Test(t) PROVE OneTimer'
    BY <1>1 DEF Test, Goes
<1>2. ASSUME NEW t \in Thread, Create(t) PROVE OneTimer'
    <2>1. UNCHANGED armed /\ misused' = (misused \/ handle # 0)
        BY <1>2 DEF Create, Goes
    <2> QED
        BY <2>1, TimersAre
<1>3. ASSUME NEW t \in Thread, Arm(t) PROVE OneTimer'
    BY <1>3 DEF Arm, Goes, Uses
<1>4. ASSUME NEW t \in Thread, TestStop(t) PROVE OneTimer'
    BY <1>4 DEF TestStop, StopDone, Goes
<1>5. ASSUME NEW t \in Thread, Stop(t) PROVE OneTimer'
    BY <1>5 DEF Stop, Goes, Uses
<1>6. ASSUME NEW t \in Thread, Delete(t) PROVE OneTimer'
    BY <1>6 DEF Delete, Goes, Uses
<1>7. ASSUME NEW t \in Thread, Null(t) PROVE OneTimer'
    <2>1. UNCHANGED <<armed, misused>> /\ pc[t] = "null"
        BY <1>7 DEF Null, StopDone, Goes
    <2> QED
        BY <2>1 DEF Nulling
<1>8. CASE Fire
    BY <1>8 DEF Fire, Goes, WithReport
<1>9. CASE HandleLock
    BY <1>9 DEF HandleLock, Handle, CheckReportUsername, WithReport, Goes
<1>10. CASE HandleLogin
    BY <1>10 DEF HandleLogin, Handle, CheckReportUsername, WithReport, Goes
<1>11. CASE HandleReport
    BY <1>11 DEF HandleReport, Handle
<1>12. CASE HandleReply
    BY <1>12 DEF HandleReply, Handle, Goes
<1>13. CASE Clear
    BY <1>13 DEF Clear, Goes
<1>14. CASE SendReport
    BY <1>14 DEF SendReport
<1>15. CASE Locking
    BY <1>15 DEF Locking
<1>16. CASE ReceiveReply
    BY <1>16 DEF ReceiveReply
<1>17. CASE Connect
    BY <1>17 DEF Connect
<1>18. CASE ReceiveLogin
    BY <1>18 DEF ReceiveLogin
<1>19. CASE Drop
    BY <1>19 DEF Drop, Disconnected
<1>20. CASE ApDisconnect
    BY <1>20 DEF ApDisconnect, Disconnected, Goes
<1>21. CASE DhcpOk
    BY <1>21 DEF DhcpOk
<1>22. CASE UNCHANGED vars
    BY <1>22 DEF vars
<1> QED
    BY <1>1, <1>2, <1>3, <1>4, <1>5, <1>6, <1>7, <1>8, <1>9, <1>10, <1>11,
       <1>12, <1>13, <1>14, <1>15, <1>16, <1>17, <1>18, <1>19, <1>20, <1>21,
       <1>22 DEF Next, TimerCall, Handling, Server

LEMMA NullingKept ==
    ASSUME TimersType, PcType, Nulling, [Next]_vars
    PROVE  Nulling'
<1> DEFINE Quiet == \A s \in Thread: pc'[s] = "null" => pc[s] = "null"
<1>same. Quiet /\ UNCHANGED <<handle, alive, misused>> => Nulling'
    BY DEF Nulling
<1> USE DEF timers, net, bounds
<1>1. ASSUME NEW t \in Thread, Test(t) PROVE Nulling'
    BY <1>1, <1>same DEF Test, PcType, Goes
<1>2. ASSUME NEW t \in Thread, Create(t) PROVE Nulling'
    <2>1. /\ pc[t] = "create" /\ pc' = [pc EXCEPT ![t] = "arm"]
          /\ misused' = (misused \/ handle # 0)
        BY <1>2 DEF Create, Goes
    <2>2. Quiet
        BY <2>1 DEF PcType
    <2>3. CASE \A s \in Thread: pc[s] # "null"
        BY <2>2, <2>3 DEF Nulling
    <2>4. CASE ~misused /\ \E s \in Thread: pc[s] = "null"
        BY <2>1, <2>4 DEF Nulling
    <2>5. CASE misused
        BY <2>1, <2>5 DEF Nulling
    <2> QED
        BY <2>3, <2>4, <2>5
<1>3. ASSUME NEW t \in Thread, Arm(t) PROVE Nulling'
    <2>1. /\ pc' = [pc EXCEPT ![t] = "idle"] /\ UNCHANGED <<handle, alive>>
          /\ misused' = (misused \/ handle \notin alive)
        BY <1>3 DEF Arm, Goes, Uses
    <2>2. Quiet
        BY <2>1 DEF PcType
    <2> QED
        BY <2>1, <2>2 DEF Nulling
<1>4. ASSUME NEW t \in Thread, TestStop(t) PROVE Nulling'
    BY <1>4, <1>same DEF TestStop, PcType, StopDone, Goes
<1>5. ASSUME NEW t \in Thread, Stop(t) PROVE Nulling'
    <2>1. /\ pc' = [pc EXCEPT ![t] = "delete"] /\ UNCHANGED <<handle, alive>>
          /\ misused' = (misused \/ handle \notin alive)
        BY <1>5 DEF Stop, Goes, Uses
    <2>2. Quiet
        BY <2>1 DEF PcType
    <2> QED
        BY <2>1, <2>2 DEF Nulling
<1>6. ASSUME NEW t \in Thread, Delete(t) PROVE Nulling'
    <2>1. /\ pc' = [pc EXCEPT ![t] = "null"] /\ UNCHANGED handle
          /\ alive' = alive \ {handle} /\ misused' = (misused \/ handle \notin alive)
        BY <1>6 DEF Delete, Goes, Uses
    <2> SUFFICES ASSUME ~misused' PROVE Nulling'
        BY DEF Nulling
    <2>2. ~misused /\ handle \in alive
        BY <2>1
    <2>3. \A s \in Thread: pc[s] # "null"
        BY <2>2 DEF Nulling
    <2>4. \A s \in Thread: pc'[s] = "null" => s = t
        BY <2>1, <2>3 DEF PcType
    <2>5. handle' # 0 /\ handle' \notin alive'
        BY <2>1, <2>2, TimersAre DEF TimersType
    <2> QED
        BY <2>4, <2>5 DEF Nulling
<1>7. ASSUME NEW t \in Thread, Null(t) PROVE Nulling'
    <2>1. pc[t] = "null" /\ UNCHANGED misused /\ pc' = [pc EXCEPT ![t] = IF t = "msg" THEN "clear" ELSE "idle"]
        BY <1>7 DEF Null, StopDone, Goes
    <2> SUFFICES ASSUME ~misused PROVE Nulling'
        BY <2>1 DEF Nulling
    <2>2. \A s \in Thread: pc[s] = "null" => s = t
        BY <2>1 DEF Nulling
    <2>3. \A s \in Thread: pc'[s] # "null"
        BY <2>1, <2>2 DEF PcType
    <2> QED
        BY <2>3 DEF Nulling
<1>8. CASE Fire
    BY <1>8, <1>same DEF Fire, PcType, Goes, WithReport
<1>9. CASE HandleLock
    BY <1>9, <1>same DEF HandleLock, PcType, Handle, CheckReportUsername, WithReport, Goes
<1>10. CASE HandleLogin
    BY <1>10, <1>same DEF HandleLogin, PcType, Handle, CheckReportUsername, WithReport, Goes
<1>11. CASE HandleReport
    BY <1>11, <1>same DEF HandleReport, Handle
<1>12. CASE HandleReply
    BY <1>12, <1>same DEF HandleReply, PcType, Handle, Goes
<1>13. CASE Clear
    BY <1>13, <1>same DEF Clear, PcType, Goes
<1>14. CASE SendReport
    BY <1>14, <1>same DEF SendReport
<1>15. CASE Locking
    BY <1>15, <1>same DEF Locking
<1>16. CASE ReceiveReply
    BY <1>16, <1>same DEF ReceiveReply
<1>17. CASE Connect
    BY <1>17, <1>same DEF Connect
<1>18. CASE ReceiveLogin
    BY <1>18, <1>same DEF ReceiveLogin
<1>19. CASE Drop
    BY <1>19, <1>same DEF Drop, Disconnected
<1>20. CASE ApDisconnect
    BY <1>20, <1>same DEF ApDisconnect, PcType, Disconnected, Goes
<1>21. CASE DhcpOk
    BY <1>21, <1>same DEF DhcpOk
<1>22. CASE UNCHANGED vars
    BY <1>22, <1>same DEF vars
<1> QED
    BY <1>1, <1>2, <1>3, <1>4, <1>5, <1>6, <1>7, <1>8, <1>9, <1>10, <1>11,
       <1>12, <1>13, <1>14, <1>15, <1>16, <1>17, <1>18, <1>19, <1>20, <1>21,
       <1>22 DEF Next, TimerCall, Handling, Server
(* What is waiting stays so while nothing of it is handled.                 *)
LEMMA WaitingStays ==
    ASSUME ListType, NEW m \in Message, msgs' = Append(msgs, m)
    PROVE  (Waiting => Waiting') /\ (m \in {"login", "reply"} => Waiting')
<1>1. /\ \A i \in DOMAIN msgs: i \in DOMAIN msgs' /\ msgs'[i] = msgs[i]
      /\ Len(msgs) + 1 \in DOMAIN msgs' /\ msgs'[Len(msgs) + 1] = m
    BY Appended DEF ListType
<1> QED
    BY <1>1 DEF Waiting

LEMMA WaitingBehind ==
    ASSUME ListType, msgs # <<>>, Head(msgs) \notin {"login", "reply"}, msgs' = Tail(msgs), Waiting
    PROVE  Waiting'
<1>1. PICK i \in DOMAIN msgs: msgs[i] \in {"login", "reply"}
    BY DEF Waiting
<1>2. i # 1
    BY <1>1, Tailed DEF ListType
<1>3. i - 1 \in DOMAIN msgs' /\ msgs'[i - 1] = msgs[i]
    BY <1>2, Tailed DEF ListType
<1> QED
    BY <1>1, <1>3 DEF Waiting

LEMMA ReportingKept ==
    ASSUME TypeOK, Pcs, Downs, Reporting, [Next]_vars
    PROVE  Reporting'
<1> DEFINE Busy == pc["msg"] # "idle" \/ pc["timer"] # "idle"
           Same == UNCHANGED <<user, conn, asked, misused>>
<1>same. Same /\ (handle \in armed \/ Waiting \/ Busy => handle' \in armed' \/ Waiting' \/ Busy')
         => Reporting'
    BY DEF Reporting
<1>wait. UNCHANGED msgs => (Waiting' <=> Waiting)
    BY DEF Waiting
<1>types. ListType /\ pc \in [Thread -> {"idle", "test", "create", "arm", "stop?", "stop", "delete",
                                     "null", "clear"}]
    BY Types DEF PcType
<1>down. pc["wifi"] # "idle" => ~conn
    BY DEF Downs
<1>busy. \A t \in Thread: \A p: t # "wifi" /\ p # "idle" /\ pc' = [pc EXCEPT ![t] = p] => Busy'
    BY <1>types DEF Thread
<1> USE DEF Thread, timers, net, bounds
<1>1. ASSUME NEW t \in Thread, Test(t) PROVE Reporting'
    <2>1. PICK p : t # "wifi" /\ p # "idle" /\ pc' = [pc EXCEPT ![t] = p]
        BY <1>1 DEF Test, Goes, Pcs
    <2> QED
        BY <2>1, <1>busy DEF Reporting
<1>2. ASSUME NEW t \in Thread, Create(t) PROVE Reporting'
    <2>1. PICK p : t # "wifi" /\ p # "idle" /\ pc' = [pc EXCEPT ![t] = p]
        BY <1>2 DEF Create, Goes, Pcs
    <2> QED
        BY <2>1, <1>busy DEF Reporting
<1>3. ASSUME NEW t \in Thread, Arm(t) PROVE Reporting'
    <2>1. handle' \in armed' \/ misused'
        BY <1>3 DEF Arm, Goes, Uses
    <2> QED
        BY <2>1 DEF Reporting
<1>4. ASSUME NEW t \in Thread, TestStop(t) PROVE Reporting'
    <2>1. CASE t = "wifi"
        BY <1>4, <2>1, <1>down DEF TestStop, StopDone, Goes, Reporting
    <2>2. CASE t # "wifi"
        <3>1. PICK p : p # "idle" /\ pc' = [pc EXCEPT ![t] = p]
            BY <1>4, <2>2 DEF TestStop, StopDone, Goes, Pcs
        <3> QED
            BY <2>2, <3>1, <1>busy DEF Reporting
    <2> QED
        BY <2>1, <2>2
<1>5. ASSUME NEW t \in Thread, Stop(t) PROVE Reporting'
    <2>1. CASE t = "wifi"
        BY <1>5, <2>1, <1>down DEF Stop, Goes, Uses, Reporting
    <2>2. CASE t # "wifi"
        <3>1. PICK p : p # "idle" /\ pc' = [pc EXCEPT ![t] = p]
            BY <1>5, <2>2 DEF Stop, Goes, Uses, Pcs
        <3> QED
            BY <2>2, <3>1, <1>busy DEF Reporting
    <2> QED
        BY <2>1, <2>2
<1>6. ASSUME NEW t \in Thread, Delete(t) PROVE Reporting'
    <2>1. CASE t = "wifi"
        BY <1>6, <2>1, <1>down DEF Delete, Goes, Uses, Reporting
    <2>2. CASE t # "wifi"
        <3>1. PICK p : p # "idle" /\ pc' = [pc EXCEPT ![t] = p]
            BY <1>6, <2>2 DEF Delete, Goes, Uses, Pcs
        <3> QED
            BY <2>2, <3>1, <1>busy DEF Reporting
    <2> QED
        BY <2>1, <2>2
<1>7. ASSUME NEW t \in Thread, Null(t) PROVE Reporting'
    <2>1. CASE t = "wifi"
        BY <1>7, <2>1, <1>down DEF Null, StopDone, Goes, Reporting
    <2>2. CASE t # "wifi"
        <3>1. PICK p : p # "idle" /\ pc' = [pc EXCEPT ![t] = p]
            BY <1>7, <2>2 DEF Null, StopDone, Goes, Pcs
        <3> QED
            BY <2>2, <3>1, <1>busy DEF Reporting
    <2> QED
        BY <2>1, <2>2
<1>8. CASE Fire
    <2>1. "timer" # "wifi" /\ "test" # "idle" /\ pc' = [pc EXCEPT !["timer"] = "test"]
        BY <1>8 DEF Fire, Goes, WithReport
    <2> QED
        BY <2>1, <1>busy DEF Reporting
<1>9. CASE HandleLock
    <2>1. locks + 1 # 0
        BY Types DEF CountsType
    <2>2. pc' = [pc EXCEPT !["msg"] = "test"]
        BY <1>9, <2>1 DEF HandleLock, Handle, CheckReportUsername, WithReport, Goes
    <2> QED
        BY <2>2, <1>busy DEF Reporting
<1>10. CASE HandleLogin
    <2>1. CASE user = 0
        BY <1>10, <2>1
           DEF HandleLogin, Handle, CheckReportUsername, WithReport, Goes, Reporting
    <2>2. CASE user # 0
        <3>1. pc' = [pc EXCEPT !["msg"] = "test"]
            BY <1>10, <2>2 DEF HandleLogin, Handle, CheckReportUsername, WithReport, Goes
        <3> QED
            BY <3>1, <1>busy DEF Reporting
    <2> QED
        BY <2>1, <2>2
<1>11. CASE HandleReport
    <2>1. msgs # <<>> /\ Head(msgs) = "report" /\ msgs' = Tail(msgs) /\ Same
          /\ UNCHANGED <<handle, armed, pc>>
        BY <1>11 DEF HandleReport, Handle
    <2>2. Waiting => Waiting'
        BY <2>1, <1>types, WaitingBehind
    <2> QED
        BY <2>1, <2>2, <1>same
<1>12. CASE HandleReply
    <2>1. pc' = [pc EXCEPT !["msg"] = "stop?"]
        BY <1>12 DEF HandleReply, Handle, Goes
    <2> QED
        BY <2>1, <1>busy DEF Reporting
<1>13. CASE Clear
    BY <1>13 DEF Clear, Goes, Reporting
<1>14. CASE SendReport
    <2>1. Same /\ UNCHANGED <<handle, armed, pc, msgs>>
        BY <1>14 DEF SendReport
    <2> QED
        BY <2>1, <1>same, <1>wait
<1>15. CASE Locking
    <2>1. msgs' = Append(msgs, "lock") /\ Same /\ UNCHANGED <<handle, armed, pc>>
        BY <1>15 DEF Locking
    <2>2. Waiting => Waiting'
        BY <2>1, <1>types, WaitingStays DEF Message
    <2> QED
        BY <2>1, <2>2, <1>same
<1>16. CASE ReceiveReply
    <2>1. msgs' = Append(msgs, "reply")
        BY <1>16 DEF ReceiveReply
    <2>2. Waiting'
        BY <2>1, <1>types, WaitingStays DEF Message
    <2> QED
        BY <2>2 DEF Reporting
<1>17. CASE Connect
    BY <1>17 DEF Connect, Reporting
<1>18. CASE ReceiveLogin
    <2>1. msgs' = Append(msgs, "login")
        BY <1>18 DEF ReceiveLogin
    <2>2. Waiting'
        BY <2>1, <1>types, WaitingStays DEF Message
    <2> QED
        BY <2>2 DEF Reporting
<1>19. CASE Drop
    BY <1>19 DEF Drop, Disconnected, Reporting
<1>20. CASE ApDisconnect
    BY <1>20 DEF ApDisconnect, Disconnected, Goes, Reporting
<1>21. CASE DhcpOk
    <2>1. Same /\ UNCHANGED <<handle, armed, pc, msgs>>
        BY <1>21 DEF DhcpOk
    <2> QED
        BY <2>1, <1>same, <1>wait
<1>22. CASE UNCHANGED vars
    BY <1>22, <1>same, <1>wait DEF vars
<1> QED
    BY <1>1, <1>2, <1>3, <1>4, <1>5, <1>6, <1>7, <1>8, <1>9, <1>10, <1>11,
       <1>12, <1>13, <1>14, <1>15, <1>16, <1>17, <1>18, <1>19, <1>20, <1>21,
       <1>22 DEF Next, TimerCall, Handling, Server

LEMMA ReportStep == ReportIInv /\ [Next]_vars => ReportIInv'
<1> SUFFICES ASSUME ReportIInv, [Next]_vars PROVE ReportIInv'
    OBVIOUS
<1> USE DEF ReportIInv
<1>1. FlagsType' /\ TimersType' /\ PcType' /\ ListType' /\ CountsType' /\ Pcs'
    BY Types, FlagsKept, TimersKept, PcKept, ListKept, CountsKept
<1>2. TypeOK'
    BY <1>1 DEF TypeOK, FlagsType, TimersType, PcType, ListType, CountsType, Message
<1> QED
    BY <1>1, <1>2, Types, DownsKept, NullingKept, OneTimerKept, ReportingKept

LEMMA ReportInit == Init => ReportIInv
<1> SUFFICES ASSUME Init PROVE ReportIInv
    OBVIOUS
<1>1. FlagsType /\ TimersType /\ PcType
    BY DEF Init, FlagsType, TimersType, PcType
<1>2. ListType /\ CountsType
    BY UserReportAssumption DEF Init, ListType, CountsType
<1>3. Pcs /\ Downs /\ Nulling
    BY DEF Init, Pcs, Downs, Nulling, Thread
<1>4. OneTimer /\ Reporting
    BY DEF Init, OneTimer, Reporting
<1> QED
    BY <1>1, <1>2, <1>3, <1>4, Types DEF ReportIInv

LEMMA ReportingWatches == TypeOK /\ Reporting => Watched
    BY DEF Reporting, Watched, Waiting, Thread

(* A name the device has not reported is reported by a timer that runs or   *)
(* will be set, and only one timer runs, unless two threads used it at once *)
(* (lum_checkFactoryResetTimer, lum_stopFactoryResetTimer, lum_checkReport- *)
(* Username): for any number of locks, drops, messages and timers.          *)
THEOREM ReportCorrect == Spec => []TimerInv
<1>1. ReportIInv => TimerInv
    BY ReportingWatches DEF ReportIInv, TimerInv
<1> QED
    BY <1>1, ReportInit, ReportStep, PTL DEF Spec
-----------------------------------------------------------------------------
(* No name is forgotten untold.                                            *)

(* The server knows the name of now, or a lock met the report of another.   *)
Known == user = 0 \/ crossed \/ user \in told

(* An answer is on its way, or the message thread is at one.                *)
NoReply == replies = 0 /\ \A i \in DOMAIN msgs: msgs[i] # "reply"
Answering == pc["msg"] \in {"stop?", "stop", "delete", "null", "clear"}

(* As long as the server does not know the name, nothing answers a report,  *)
(* and the reports that wait carry this name.                               *)
Untold == ~Answering /\ NoReply /\ \A i \in DOMAIN out: out[i] = user
NamesKnown == Known \/ Untold

LEMMA NoReplyAppended ==
    ASSUME ListType, NEW q \in Seq(Message), \A i \in DOMAIN q: q[i] # "reply",
           NEW m \in Message, m # "reply", msgs' = Append(q, m) \/ msgs' = q
    PROVE  \A i \in DOMAIN msgs': msgs'[i] # "reply"
<1>1. CASE msgs' = q
    BY <1>1
<1>2. CASE msgs' = Append(q, m)
    <2>1. \A i \in DOMAIN Append(q, m):
            Append(q, m)[i] = m \/ \E j \in DOMAIN q: Append(q, m)[i] = q[j]
        OBVIOUS
    <2> QED
        BY <1>2, <2>1
<1> QED
    BY <1>1, <1>2

LEMMA NoReplyTail ==
    ASSUME ListType, msgs # <<>>, \A i \in DOMAIN msgs: msgs[i] # "reply"
    PROVE  /\ Tail(msgs) \in Seq(Message)
           /\ \A i \in DOMAIN Tail(msgs): Tail(msgs)[i] # "reply"
<1>1. msgs \in Seq(Message) /\ Tail(msgs) \in Seq(Message)
    BY Tailed DEF ListType
<1>2. \A i \in DOMAIN Tail(msgs): i + 1 \in DOMAIN msgs /\ Tail(msgs)[i] = msgs[i + 1]
    BY <1>1
<1> QED
    BY <1>1, <1>2

LEMMA OutAppended ==
    ASSUME CountsType, \A i \in DOMAIN out: out[i] = user, out' = Append(out, user)
    PROVE  \A i \in DOMAIN out': out'[i] = user
<1>1. out \in Seq(Nat) /\ user \in Nat
    BY DEF CountsType
<1> QED
    BY <1>1

LEMMA OutTail ==
    ASSUME CountsType, out # <<>>, \A i \in DOMAIN out: out[i] = user
    PROVE  Head(out) = user /\ \A i \in DOMAIN Tail(out): Tail(out)[i] = user
<1>1. out \in Seq(Nat)
    BY DEF CountsType
<1>2. Head(out) = out[1] /\ 1 \in DOMAIN out
    BY <1>1
<1>3. \A i \in DOMAIN Tail(out): i + 1 \in DOMAIN out /\ Tail(out)[i] = out[i + 1]
    BY <1>1
<1> QED
    BY <1>2, <1>3

LEMMA NamesKept ==
    ASSUME TypeOK, NamesKnown, [Next]_vars
    PROVE  NamesKnown'
<1>types. ListType /\ CountsType /\ PcType
    BY Types
<1>same. UNCHANGED <<user, told>> /\ (crossed => crossed') /\ Known => Known'
    BY DEF Known
<1>more. user' = user /\ told \subseteq told' /\ crossed' = crossed /\ Known => Known'
    BY DEF Known
<1>still. UNCHANGED <<out, user>> /\ ~Answering' /\ NoReply' /\ Untold => Untold'
    BY DEF Untold
<1>quiet. UNCHANGED <<replies, msgs>> /\ NoReply => NoReply'
    BY DEF NoReply
<1> USE DEF net, bounds, timers
<1>1. ASSUME NEW t \in Thread, TimerCall(t) PROVE NamesKnown'
    <2>1. UNCHANGED <<user, told, crossed, out, replies, msgs>>
        BY <1>1 DEF TimerCall, Test, Create, Arm, TestStop, Stop, Delete, Null
    <2>2. ~Answering => ~Answering'
        BY <1>1, <1>types
           DEF TimerCall, Test, Create, Arm, TestStop, Stop, Delete, Null, StopDone, 
           Goes, Answering, PcType, Thread
    <2> QED
        BY <2>1, <2>2, <1>same, <1>still, <1>quiet DEF NamesKnown, Untold
<1>2. CASE Fire
    <2>1. UNCHANGED <<user, told, crossed, out, replies>> /\ msgs' = WithReport(msgs)
        BY <1>2 DEF Fire
    <2>2. ~Answering => ~Answering'
        BY <1>2, <1>types DEF Fire, Goes, Answering, PcType, Thread
    <2>3. NoReply => NoReply'
        BY <2>1, <1>types, NoReplyAppended DEF NoReply, WithReport, ListType, Message
    <2> QED
        BY <2>1, <2>2, <2>3, <1>same, <1>still DEF NamesKnown, Untold
<1>3. CASE HandleLock
    <2>1. /\ pc["msg"] = "idle" /\ msgs # <<>> /\ locks + 1 # 0
          /\ crossed' = (crossed \/ Unanswered) /\ user' = locks + 1 /\ UNCHANGED <<out, replies>>
          /\ msgs' = WithReport(Tail(msgs)) /\ Goes("msg", "test")
        BY <1>3, <1>types DEF HandleLock, Handle, CheckReportUsername, CountsType
    <2>2. CASE Unanswered
        BY <2>1, <2>2 DEF NamesKnown, Known
    <2>3. CASE ~Unanswered
        <3>1. NoReply /\ out = <<>>
            BY <2>3, <1>types DEF Unanswered, NoReply, CountsType
        <3>2. /\ Tail(msgs) \in Seq(Message)
              /\ \A i \in DOMAIN Tail(msgs): Tail(msgs)[i] # "reply"
            BY <2>1, <3>1, <1>types, NoReplyTail DEF NoReply
        <3>3. NoReply'
            BY <2>1, <3>1, <3>2, <1>types, NoReplyAppended DEF NoReply, WithReport, Message
        <3>4. ~Answering'
            BY <2>1, <1>types DEF Goes, Answering, PcType, Thread
        <3>5. \A i \in DOMAIN out': out'[i] = user'
            BY <2>1, <3>1
        <3> QED
            BY <3>3, <3>4, <3>5 DEF NamesKnown, Untold
    <2> QED
        BY <2>2, <2>3
<1>4. CASE HandleLogin
    <2>1. /\ msgs # <<>> /\ UNCHANGED <<user, told, crossed, out, replies>>
          /\ msgs' = Tail(msgs) \/ msgs' = WithReport(Tail(msgs))
          /\ UNCHANGED pc \/ Goes("msg", "test")
        BY <1>4 DEF HandleLogin, Handle, CheckReportUsername
    <2>2. ~Answering => ~Answering'
        BY <2>1, <1>types DEF Goes, Answering, PcType, Thread
    <2>3. ASSUME NoReply PROVE NoReply'
        <3>1. /\ Tail(msgs) \in Seq(Message)
              /\ \A i \in DOMAIN Tail(msgs): Tail(msgs)[i] # "reply"
            BY <2>1, <2>3, <1>types, NoReplyTail DEF NoReply
        <3> QED
            BY <2>1, <2>3, <3>1, <1>types, NoReplyAppended DEF NoReply, WithReport, Message
    <2> QED
        BY <2>1, <2>2, <2>3, <1>same, <1>still DEF NamesKnown, Untold
<1>5. CASE HandleReport
    <2>1. /\ msgs # <<>> /\ UNCHANGED <<user, told, crossed, pc, replies>>
          /\ msgs' = Tail(msgs) /\ out' = Append(out, user)
        BY <1>5 DEF HandleReport, Handle
    <2>2. CASE Known
        BY <2>1, <2>2, <1>same DEF NamesKnown
    <2>3. CASE Untold
        <3>1. NoReply'
            BY <2>1, <2>3, <1>types, NoReplyTail DEF Untold, NoReply
        <3>2. \A i \in DOMAIN out': out'[i] = user
            BY <2>1, <2>3, <1>types, OutAppended DEF Untold
        <3> QED
            BY <2>1, <2>3, <3>1, <3>2 DEF NamesKnown, Untold, Answering
    <2> QED
        BY <2>2, <2>3 DEF NamesKnown
<1>6. CASE HandleReply
    <2>1. msgs # <<>> /\ Head(msgs) = "reply" /\ UNCHANGED <<user, told, crossed>>
        BY <1>6 DEF HandleReply, Handle
    <2>2. 1 \in DOMAIN msgs /\ msgs[1] = "reply"
        BY <2>1, <1>types DEF ListType
    <2>3. ~Untold
        BY <2>2 DEF Untold, NoReply
    <2> QED
        BY <2>1, <2>3, <1>same DEF NamesKnown
<1>7. CASE Clear
    BY <1>7 DEF Clear, NamesKnown, Known
<1>8. CASE SendReport
    <2>1. /\ out # <<>> /\ out' = Tail(out) /\ UNCHANGED <<user, pc, msgs, crossed>>
          /\ \/ told' = told \cup {Head(out)}
             \/ UNCHANGED <<told, replies>>
        BY <1>8 DEF SendReport
    <2>2. CASE Known
        BY <2>1, <2>2, <1>more DEF NamesKnown
    <2>3. CASE Untold
        <3>1. Head(out) = user /\ \A i \in DOMAIN Tail(out): Tail(out)[i] = user
            BY <2>1, <2>3, <1>types, OutTail DEF Untold
        <3>2. CASE told' = told \cup {Head(out)}
            BY <2>1, <3>1, <3>2 DEF NamesKnown, Known
        <3>3. CASE UNCHANGED <<told, replies>>
            BY <2>1, <2>3, <3>1, <3>3 DEF NamesKnown, Untold, NoReply, Answering
        <3> QED
            BY <2>1, <3>2, <3>3
    <2> QED
        BY <2>2, <2>3 DEF NamesKnown
<1>9. CASE Locking \/ ReceiveLogin
    <2>1. /\ UNCHANGED <<user, told, crossed, out, replies, pc>>
          /\ msgs' = Append(msgs, "lock") \/ msgs' = Append(msgs, "login")
        BY <1>9 DEF Locking, ReceiveLogin
    <2>2. NoReply => NoReply'
        BY <2>1, <1>types, NoReplyAppended DEF NoReply, ListType, Message
    <2> QED
        BY <2>1, <2>2, <1>same DEF NamesKnown, Untold, Answering
<1>10. CASE ReceiveReply
    <2>1. replies > 0 /\ UNCHANGED <<user, told, crossed>>
        BY <1>10 DEF ReceiveReply
    <2>2. ~Untold
        BY <2>1 DEF Untold, NoReply
    <2> QED
        BY <2>1, <2>2, <1>same DEF NamesKnown
<1>11. CASE Connect
    BY <1>11, <1>same, <1>quiet DEF Connect, NamesKnown, Untold, Answering
<1>12. CASE Drop \/ ApDisconnect
    <2>1. UNCHANGED <<user, told, crossed, out, msgs>> /\ replies' = 0
        BY <1>12 DEF Drop, ApDisconnect, Disconnected
    <2>2. ~Answering => ~Answering'
        BY <1>12, <1>types DEF Drop, ApDisconnect, Goes, Answering, PcType, Thread
    <2>3. NoReply => NoReply'
        BY <2>1 DEF NoReply
    <2> QED
        BY <2>1, <2>2, <2>3, <1>same, <1>still DEF NamesKnown, Untold
<1>13. CASE DhcpOk \/ UNCHANGED vars
    <2>1. UNCHANGED <<user, told, crossed, out, msgs, replies, pc>>
        BY <1>13 DEF DhcpOk, vars
    <2> QED
        BY <2>1, <1>same, <1>quiet DEF NamesKnown, Untold, Answering
<1> QED
    BY <1>1, <1>2, <1>3, <1>4, <1>5, <1>6, <1>7, <1>8, <1>9, <1>10, <1>11, <1>12, <1>13
       DEF Next, Handling, Server

(* A name is forgotten when an answer was handled (lum_replyFactoryDataReset *)
(* and then the empty name is stored): the server was told it by then,      *)
(* unless the lock that stored it met a report of the name before.          *)
THEOREM ForgottenWhenTold == Spec => ClearedMeansTold
<1>1. ASSUME Init PROVE NamesKnown
    BY <1>1 DEF Init, NamesKnown, Untold, NoReply, Answering, Thread
<1>2. ASSUME TypeOK, NamesKnown, [Next]_vars, user # 0, user' = 0
      PROVE  user \in told \/ crossed
    <2>1. Clear
        <3>1. CountsType
            BY <1>2, Types
        <3>2. locks + 1 # 0
            BY <3>1 DEF CountsType
        <3> QED
            BY <1>2, <3>2
               DEF Next, TimerCall, Test, Create, Arm, TestStop, Stop, Delete, Null, Fire, 
               Handling, HandleLock, HandleLogin, HandleReport, HandleReply, SendReport, Locking,
               Server, ReceiveReply, Connect, ReceiveLogin, Drop, ApDisconnect, DhcpOk, vars
    <2>2. ~Untold
        BY <2>1 DEF Clear, Untold, Answering
    <2> QED
        BY <1>2, <2>2 DEF NamesKnown, Known
<1>3. ASSUME TypeOK, NamesKnown, [Next]_vars
      PROVE  [user # 0 /\ user' = 0 => user \in told \/ crossed]_vars
    BY <1>2, <1>3
<1>4. ReportIInv => TypeOK
    BY DEF ReportIInv
<1> QED
    BY <1>1, <1>3, <1>4, NamesKept, ReportInit, ReportStep, PTL DEF Spec, ClearedMeansTold
=============================================================================
