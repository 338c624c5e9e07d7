--------------------------- MODULE ServerLinkProofs ---------------------------
(***************************************************************************)
(* The invariant of ServerLink for any number of connections, requests and *)
(* messages.  NothingFromBefore, KeyOfConnection and Watched speak of the  *)
(* connection that is up; their reason is where the TCP thread is while it *)
(* has none (Place), and that answers are handled in the order of their    *)
(* connections (Answered).                                                 *)
(***************************************************************************)
EXTENDS ServerLink, TLAPS

Making == {"clear", "wipe", "balance", "server"}

(* Where the TCP thread is tells what the socket and the flags are.        *)
Place ==
  /\ conn => tcp \in {"check", "ask", "select"} /\ sock # 0 /\ peer = "server"
  /\ tcp \in Making => sock = 0
  /\ sock = 0 => rx = <<>>
  /\ balance /\ ~addr => sock # 0
  /\ tcp = "balance" => ~balance
  /\ tcp \in Making \ {"balance"} => addr

(* Answers come from connections that were made, in that order; the        *)
(* received ones are older than a connection whose log-in was not yet      *)
(* asked for.                                                              *)
Answered ==
  /\ \A i \in DOMAIN rx : ~rx[i].local /\ rx[i].from = sock
  /\ \A i \in DOMAIN msgs : ~msgs[i].local => msgs[i].from \in 1 .. conns
  /\ \A i, j \in DOMAIN msgs :
       i < j /\ ~msgs[i].local /\ ~msgs[j].local => msgs[i].from <= msgs[j].from
  /\ tcp = "up" => \A i \in DOMAIN msgs : ~msgs[i].local => msgs[i].from # sock

(* Between the two stores the first one is that of the answer at the head, *)
(* unless its connection is gone.                                          *)
Storing ==
  stored => /\ msgs # <<>> /\ IsReply(Head(msgs), "connect")
            /\ Head(msgs).from = sock => serverKey = sock

(* A connection is made without a key, and once it has its key no answer   *)
(* of an older one is left, unless one came too late.                      *)
Keyed ==
  ~stale /\ keyValid =>
    /\ tcp \notin {"wipe", "server"} /\ ~(tcp = "up" /\ peer = "server")
    /\ conn => \A i \in DOMAIN msgs : ~msgs[i].local => msgs[i].from = sock

LinkIInv == TypeOK /\ Place /\ Answered /\ Storing /\ Keyed
            /\ NothingFromBefore /\ KeyOfConnection /\ Watched
-----------------------------------------------------------------------------
(* The types in parts.                                                     *)
FlagsType ==
  /\ dhcp \in BOOLEAN /\ balance \in BOOLEAN /\ addr \in BOOLEAN /\ conn \in BOOLEAN
  /\ live \in BOOLEAN /\ keyValid \in BOOLEAN /\ stored \in BOOLEAN /\ heartBeat \in BOOLEAN
  /\ timeout \in BOOLEAN /\ silent \in BOOLEAN /\ stale \in BOOLEAN
ConnsType == conns \in Keys /\ sock \in {0, conns}
PlacesType ==
  /\ live => sock # 0
  /\ peer \in {"balance", "server"}
  /\ tcp \in {"check", "clear", "wipe", "balance", "server", "up", "ask", "select"}
  /\ tcp \in {"up", "ask", "select"} => sock # 0
ListsType == rx \in Seq(Msg) /\ msgs \in Seq(Msg) /\ serverKey \in Keys
OutType == out \subseteq Packet /\ sn \in Nat

LEMMA Types == TypeOK <=> FlagsType /\ ConnsType /\ PlacesType /\ ListsType /\ OutType
  BY DEF TypeOK, FlagsType, ConnsType, PlacesType, ListsType, OutType

LEMMA KeysAre == Keys \subseteq Nat /\ 0 \in Keys
  BY BoundAssumption DEF Keys

(* What is known of a message, and of the ones that are made.              *)
LEMMA MsgFields ==
  ASSUME NEW m \in Msg
  PROVE  m.cmd \in Cmds /\ m.local \in BOOLEAN /\ m.from \in Keys
  BY DEF Msg

LEMMA LocalIsMsg ==
  ASSUME NEW cmd \in Cmds
  PROVE  Local(cmd) \in Msg /\ Local(cmd).local /\ Local(cmd).cmd = cmd
  BY KeysAre DEF Local, Msg

LEMMA AnswerIsMsg ==
  ASSUME NEW p \in Packet, sock \in Keys
  PROVE  Answer(p) \in Msg /\ ~Answer(p).local /\ Answer(p).from = sock
  BY DEF Answer, Msg, Packet

LEMMA RequestIsPacket ==
  ASSUME NEW cmd \in Cmds, ConnsType, ListsType, sn \in Nat
  PROVE  Request(cmd) \in Packet /\ Request(cmd).since = conns
<1>1. CurrentKey \in Keys /\ sn + 1 \in Nat /\ 0 \in 0 .. MAX_RESEND_COUNT - 1
  BY KeysAre, LenAssumption DEF CurrentKey, ListsType
<1> QED
  BY <1>1 DEF Request, Packet, ConnsType

LEMMA ResentIsPacket ==
  ASSUME NEW p \in Packet, ~(p.sent + 1 >= MAX_RESEND_COUNT)
  PROVE  LET q == [p EXCEPT !.sent = @ + 1] IN q \in Packet /\ q.since = p.since
<1>1. p.sent + 1 \in 0 .. MAX_RESEND_COUNT - 1
  BY LenAssumption DEF Packet
<1> QED
  BY <1>1 DEF Packet

(* Sequences of messages.                                                  *)
LEMMA Appended ==
  ASSUME NEW S, NEW s \in Seq(S), NEW x \in S
  PROVE  /\ Append(s, x) \in Seq(S) /\ Append(s, x) # <<>>
         /\ DOMAIN Append(s, x) = 1 .. Len(s) + 1 /\ DOMAIN s = 1 .. Len(s) /\ Len(s) \in Nat
         /\ \A i \in 1 .. Len(s) : Append(s, x)[i] = s[i]
         /\ Append(s, x)[Len(s) + 1] = x
         /\ s # <<>> => Head(Append(s, x)) = Head(s)
<1>1. Append(s, x) \in Seq(S) /\ Len(s) \in Nat /\ Len(Append(s, x)) = Len(s) + 1
  OBVIOUS
<1>2. DOMAIN Append(s, x) = 1 .. Len(s) + 1 /\ DOMAIN s = 1 .. Len(s)
  BY <1>1
<1>3. \A i \in 1 .. Len(s) : Append(s, x)[i] = s[i]
  OBVIOUS
<1>4. Append(s, x)[Len(s) + 1] = x
  OBVIOUS
<1>5. Append(s, x) # <<>>
  BY <1>1
<1>6. s # <<>> => Head(Append(s, x)) = Head(s)
  BY <1>1, <1>3
<1> QED
  BY <1>1, <1>2, <1>3, <1>4, <1>5, <1>6

LEMMA Tailed ==
  ASSUME NEW S, NEW s \in Seq(S), s # <<>>
  PROVE  /\ Tail(s) \in Seq(S) /\ DOMAIN s = 1 .. Len(s) /\ Len(s) \in Nat \ {0}
         /\ DOMAIN Tail(s) = 1 .. Len(s) - 1
         /\ \A i \in 1 .. Len(s) - 1 : Tail(s)[i] = s[i + 1]
         /\ Head(s) = s[1] /\ Head(s) \in S
  OBVIOUS

-----------------------------------------------------------------------------
LEMMA FlagsKept ==
  ASSUME FlagsType, [Next]_vars
  PROVE  FlagsType'
<1> USE DEF FlagsType, flags, socket, key, timers
<1>1. CASE CheckTcpConnStatus
  <2>1. /\ UNCHANGED <<flags, key, stored, timers, stale>>
        /\ (UNCHANGED live \/ live' = FALSE) /\ (UNCHANGED silent \/ silent' = FALSE)
    BY <1>1 DEF CheckTcpConnStatus, TcpSocketInit
  <2>2. live' \in BOOLEAN /\ silent' \in BOOLEAN
    BY <2>1
  <2>3. /\ dhcp' \in BOOLEAN /\ balance' \in BOOLEAN /\ addr' \in BOOLEAN
        /\ conn' \in BOOLEAN /\ keyValid' \in BOOLEAN /\ stored' \in BOOLEAN
        /\ heartBeat' \in BOOLEAN /\ timeout' \in BOOLEAN /\ stale' \in BOOLEAN
    BY <2>1
  <2> QED
    BY <2>2, <2>3
<1>2. CASE ClearValid
  BY <1>2 DEF ClearValid
<1>3. CASE WipeKey
  BY <1>3 DEF WipeKey
<1>4. CASE Connected
  BY <1>4 DEF Connected
<1>5. CASE ConnectFailed
  BY <1>5 DEF ConnectFailed
<1>6. CASE SetConnected
  BY <1>6 DEF SetConnected
<1>7. CASE AskServer
  BY <1>7 DEF AskServer
<1>8. CASE RecvTcpData
  BY <1>8 DEF RecvTcpData
<1>9. CASE RecvClosed
  BY <1>9 DEF RecvClosed
<1>10. CASE SelectTimeout
  BY <1>10 DEF SelectTimeout
<1>11. CASE QueueRequest
  BY <1>11 DEF QueueRequest, Handled
<1>12. CASE LocalRequstConnectServer
  BY <1>12 DEF LocalRequstConnectServer, Handled, Kept
<1>13. CASE RebackGetServerAddr
  BY <1>13 DEF RebackGetServerAddr, Handled
<1>14. CASE RebackTcpHeartBeat
  BY <1>14 DEF RebackTcpHeartBeat, Handled
<1>15. CASE StoreKey
  BY <1>15 DEF StoreKey
<1>16. CASE AfterConnectServer
  BY <1>16 DEF AfterConnectServer, Handled
<1>17. ASSUME NEW p \in out, NEW answer \in Answers, Transmit(p, answer) PROVE FlagsType'
  BY <1>17 DEF Transmit
<1>18. ASSUME NEW p \in out, GiveUp(p) PROVE FlagsType'
  BY <1>18 DEF GiveUp
<1>19. CASE HeartBeat
  BY <1>19 DEF HeartBeat
<1>20. CASE HeartBeatTimeout
  BY <1>20 DEF HeartBeatTimeout
<1>21. CASE AfterDhcp
  BY <1>21 DEF AfterDhcp
<1>22. CASE AfterApDisconnect
  BY <1>22 DEF AfterApDisconnect
<1>23. CASE Close
  BY <1>23 DEF Close
<1>24. CASE UNCHANGED vars
  BY <1>24 DEF vars
<1> QED
  BY <1>1, <1>2, <1>3, <1>4, <1>5, <1>6, <1>7, <1>8, <1>9, <1>10, <1>11, <1>12, <1>13,
     <1>14, <1>15, <1>16, <1>17, <1>18, <1>19, <1>20, <1>21, <1>22, <1>23, <1>24 DEF
     Next, TcpThread, Handle

LEMMA ConnsKept ==
  ASSUME ConnsType, [Next]_vars
  PROVE  ConnsType'
<1> USE KeysAre DEF ConnsType, flags, socket, key, timers
<1>1. CASE CheckTcpConnStatus
  BY <1>1 DEF CheckTcpConnStatus, TcpSocketInit
<1>2. CASE ClearValid
  BY <1>2 DEF ClearValid
<1>3. CASE WipeKey
  BY <1>3 DEF WipeKey
<1>4. CASE Connected
  BY <1>4, BoundAssumption DEF Connected, Keys
<1>5. CASE ConnectFailed
  BY <1>5 DEF ConnectFailed
<1>6. CASE SetConnected
  BY <1>6 DEF SetConnected
<1>7. CASE AskServer
  BY <1>7 DEF AskServer
<1>8. CASE RecvTcpData
  BY <1>8 DEF RecvTcpData
<1>9. CASE RecvClosed
  BY <1>9 DEF RecvClosed
<1>10. CASE SelectTimeout
  BY <1>10 DEF SelectTimeout
<1>11. CASE QueueRequest
  BY <1>11 DEF QueueRequest, Handled
<1>12. CASE LocalRequstConnectServer
  BY <1>12 DEF LocalRequstConnectServer, Handled, Kept
<1>13. CASE RebackGetServerAddr
  BY <1>13 DEF RebackGetServerAddr, Handled
<1>14. CASE RebackTcpHeartBeat
  BY <1>14 DEF RebackTcpHeartBeat, Handled
<1>15. CASE StoreKey
  BY <1>15 DEF StoreKey
<1>16. CASE AfterConnectServer
  BY <1>16 DEF AfterConnectServer, Handled
<1>17. ASSUME NEW p \in out, NEW answer \in Answers, Transmit(p, answer) PROVE ConnsType'
  BY <1>17 DEF Transmit
<1>18. ASSUME NEW p \in out, GiveUp(p) PROVE ConnsType'
  BY <1>18 DEF GiveUp
<1>19. CASE HeartBeat
  BY <1>19 DEF HeartBeat
<1>20. CASE HeartBeatTimeout
  BY <1>20 DEF HeartBeatTimeout
<1>21. CASE AfterDhcp
  BY <1>21 DEF AfterDhcp
<1>22. CASE AfterApDisconnect
  BY <1>22 DEF AfterApDisconnect
<1>23. CASE Close
  BY <1>23 DEF Close
<1>24. CASE UNCHANGED vars
  BY <1>24 DEF vars
<1> QED
  BY <1>1, <1>2, <1>3, <1>4, <1>5, <1>6, <1>7, <1>8, <1>9, <1>10, <1>11, <1>12, <1>13,
     <1>14, <1>15, <1>16, <1>17, <1>18, <1>19, <1>20, <1>21, <1>22, <1>23, <1>24 DEF
     Next, TcpThread, Handle

LEMMA PlacesKept ==
  ASSUME FlagsType, ConnsType, PlacesType, Place, [Next]_vars
  PROVE  PlacesType'
<1> USE DEF PlacesType, flags, socket, key, timers
<1>1. CASE CheckTcpConnStatus
  BY <1>1 DEF CheckTcpConnStatus, TcpSocketInit, Place, FlagsType
<1>2. CASE ClearValid
  BY <1>2 DEF ClearValid
<1>3. CASE WipeKey
  BY <1>3 DEF WipeKey
<1>4. CASE Connected
  BY <1>4, KeysAre DEF Connected, ConnsType
<1>5. CASE ConnectFailed
  BY <1>5 DEF ConnectFailed
<1>6. CASE SetConnected
  BY <1>6 DEF SetConnected
<1>7. CASE AskServer
  BY <1>7 DEF AskServer
<1>8. CASE RecvTcpData
  BY <1>8 DEF RecvTcpData
<1>9. CASE RecvClosed
  BY <1>9 DEF RecvClosed
<1>10. CASE SelectTimeout
  BY <1>10 DEF SelectTimeout
<1>11. CASE QueueRequest
  BY <1>11 DEF QueueRequest, Handled
<1>12. CASE LocalRequstConnectServer
  BY <1>12 DEF LocalRequstConnectServer, Handled, Kept
<1>13. CASE RebackGetServerAddr
  BY <1>13 DEF RebackGetServerAddr, Handled
<1>14. CASE RebackTcpHeartBeat
  BY <1>14 DEF RebackTcpHeartBeat, Handled
<1>15. CASE StoreKey
  BY <1>15 DEF StoreKey
<1>16. CASE AfterConnectServer
  BY <1>16 DEF AfterConnectServer, Handled
<1>17. ASSUME NEW p \in out, NEW answer \in Answers, Transmit(p, answer) PROVE PlacesType'
  BY <1>17 DEF Transmit
<1>18. ASSUME NEW p \in out, GiveUp(p) PROVE PlacesType'
  BY <1>18 DEF GiveUp
<1>19. CASE HeartBeat
  BY <1>19 DEF HeartBeat
<1>20. CASE HeartBeatTimeout
  BY <1>20 DEF HeartBeatTimeout
<1>21. CASE AfterDhcp
  BY <1>21 DEF AfterDhcp
<1>22. CASE AfterApDisconnect
  BY <1>22 DEF AfterApDisconnect
<1>23. CASE Close
  BY <1>23 DEF Close
<1>24. CASE UNCHANGED vars
  BY <1>24 DEF vars
<1> QED
  BY <1>1, <1>2, <1>3, <1>4, <1>5, <1>6, <1>7, <1>8, <1>9, <1>10, <1>11, <1>12, <1>13,
     <1>14, <1>15, <1>16, <1>17, <1>18, <1>19, <1>20, <1>21, <1>22, <1>23, <1>24 DEF
     Next, TcpThread, Handle

LEMMA ListsKept ==
  ASSUME FlagsType, ConnsType, ListsType, OutType, [Next]_vars
  PROVE  ListsType'
<1> USE DEF ListsType, flags, socket, key, timers
<1>1. CASE CheckTcpConnStatus
  <2>1. (rx' = rx \/ rx' = <<>>) /\ UNCHANGED <<msgs, serverKey>>
    BY <1>1 DEF CheckTcpConnStatus, TcpSocketInit
  <2>2. <<>> \in Seq(Msg)
    OBVIOUS
  <2> QED
    BY <2>1, <2>2
<1>2. CASE ClearValid
  BY <1>2 DEF ClearValid
<1>3. CASE WipeKey
  BY <1>3, KeysAre DEF WipeKey
<1>4. CASE Connected
  BY <1>4 DEF Connected
<1>5. CASE ConnectFailed
  BY <1>5 DEF ConnectFailed
<1>6. CASE SetConnected
  BY <1>6 DEF SetConnected
<1>7. CASE AskServer
  <2> DEFINE m == Local(IF peer = "balance" THEN "addr" ELSE "connect")
  <2>1. msgs' = Append(msgs, m) /\ UNCHANGED <<rx, serverKey>>
    BY <1>7 DEF AskServer
  <2>2. m \in Msg
    BY LocalIsMsg DEF Cmds
  <2> HIDE DEF m
  <2>3. Append(msgs, m) \in Seq(Msg)
    BY <2>2, Appended
  <2> QED
    BY <2>1, <2>3
<1>8. CASE RecvTcpData
  <2>1. rx # <<>> /\ rx' = Tail(rx) /\ UNCHANGED serverKey
        /\ (msgs' = msgs \/ msgs' = Append(msgs, Head(rx)))
    BY <1>8 DEF RecvTcpData
  <2>2. Tail(rx) \in Seq(Msg) /\ Head(rx) \in Msg
    BY <2>1, Tailed
  <2>3. Append(msgs, Head(rx)) \in Seq(Msg)
    BY <2>2, Appended
  <2> QED
    BY <2>1, <2>2, <2>3
<1>9. CASE RecvClosed
  BY <1>9 DEF RecvClosed
<1>10. CASE SelectTimeout
  BY <1>10 DEF SelectTimeout
<1>11. CASE QueueRequest
  BY <1>11, Tailed DEF QueueRequest, Handled
<1>12. CASE LocalRequstConnectServer
  BY <1>12, Tailed DEF LocalRequstConnectServer, Handled, Kept
<1>13. CASE RebackGetServerAddr
  BY <1>13, Tailed DEF RebackGetServerAddr, Handled
<1>14. CASE RebackTcpHeartBeat
  BY <1>14, Tailed DEF RebackTcpHeartBeat, Handled
<1>15. CASE StoreKey
  <2>1. msgs # <<>> /\ serverKey' = Head(msgs).from /\ UNCHANGED <<rx, msgs>>
    BY <1>15 DEF StoreKey
  <2>2. Head(msgs) \in Msg
    BY <2>1, Tailed
  <2> QED
    BY <2>1, <2>2, MsgFields
<1>16. CASE AfterConnectServer
  BY <1>16, Tailed DEF AfterConnectServer, Handled
<1>17. ASSUME NEW p \in out, NEW answer \in Answers, Transmit(p, answer) PROVE ListsType'
  <2>1. UNCHANGED <<msgs, serverKey>> /\ (rx' = rx \/ rx' = Append(rx, Answer(p)))
    BY <1>17 DEF Transmit
  <2>2. Answer(p) \in Msg
    BY AnswerIsMsg, KeysAre DEF ConnsType, OutType
  <2> QED
    BY <2>1, <2>2, Appended
<1>18. ASSUME NEW p \in out, GiveUp(p) PROVE ListsType'
  BY <1>18 DEF GiveUp
<1>19. CASE HeartBeat
  <2>1. UNCHANGED <<rx, serverKey>> /\ (msgs' = msgs \/ msgs' = Append(msgs, Local("beat")))
    BY <1>19 DEF HeartBeat
  <2> QED
    BY <2>1, Appended, LocalIsMsg DEF Cmds
<1>20. CASE HeartBeatTimeout
  BY <1>20 DEF HeartBeatTimeout
<1>21. CASE AfterDhcp
  BY <1>21 DEF AfterDhcp
<1>22. CASE AfterApDisconnect
  BY <1>22 DEF AfterApDisconnect
<1>23. CASE Close
  BY <1>23 DEF Close
<1>24. CASE UNCHANGED vars
  BY <1>24 DEF vars
<1> QED
  BY <1>1, <1>2, <1>3, <1>4, <1>5, <1>6, <1>7, <1>8, <1>9, <1>10, <1>11, <1>12, <1>13,
     <1>14, <1>15, <1>16, <1>17, <1>18, <1>19, <1>20, <1>21, <1>22, <1>23, <1>24 DEF
     Next, TcpThread, Handle

LEMMA OutKept ==
  ASSUME ConnsType, ListsType, OutType, [Next]_vars
  PROVE  OutType'
<1> USE DEF OutType, flags, socket, key, timers
<1>1. CASE CheckTcpConnStatus
  BY <1>1 DEF CheckTcpConnStatus, TcpSocketInit
<1>2. CASE ClearValid
  BY <1>2 DEF ClearValid
<1>3. CASE WipeKey
  BY <1>3 DEF WipeKey
<1>4. CASE Connected
  BY <1>4 DEF Connected
<1>5. CASE ConnectFailed
  BY <1>5 DEF ConnectFailed
<1>6. CASE SetConnected
  BY <1>6 DEF SetConnected
<1>7. CASE AskServer
  BY <1>7 DEF AskServer
<1>8. CASE RecvTcpData
  BY <1>8 DEF RecvTcpData
<1>9. CASE RecvClosed
  BY <1>9 DEF RecvClosed
<1>10. CASE SelectTimeout
  BY <1>10 DEF SelectTimeout
<1>11. CASE QueueRequest
  <2>1. PICK c \in Cmds : out' = out \cup {Request(c)} /\ sn' = sn + 1
    BY <1>11 DEF QueueRequest, Handled, IsLocal, Cmds
  <2> QED
    BY <2>1, RequestIsPacket
<1>12. CASE LocalRequstConnectServer
  <2>1. out' = {Request("connect")} /\ sn' = sn + 1
    BY <1>12 DEF LocalRequstConnectServer, Handled, Kept
  <2> QED
    BY <2>1, RequestIsPacket DEF Cmds
<1>13. CASE RebackGetServerAddr
  BY <1>13 DEF RebackGetServerAddr, Handled, DeleteRequst
<1>14. CASE RebackTcpHeartBeat
  BY <1>14 DEF RebackTcpHeartBeat, Handled, DeleteRequst
<1>15. CASE StoreKey
  BY <1>15 DEF StoreKey
<1>16. CASE AfterConnectServer
  BY <1>16 DEF AfterConnectServer, Handled, DeleteRequst
<1>17. ASSUME NEW p \in out, NEW answer \in Answers, Transmit(p, answer) PROVE OutType'
  BY <1>17, ResentIsPacket DEF Transmit
<1>18. ASSUME NEW p \in out, GiveUp(p) PROVE OutType'
  BY <1>18 DEF GiveUp
<1>19. CASE HeartBeat
  BY <1>19 DEF HeartBeat
<1>20. CASE HeartBeatTimeout
  BY <1>20 DEF HeartBeatTimeout
<1>21. CASE AfterDhcp
  BY <1>21 DEF AfterDhcp
<1>22. CASE AfterApDisconnect
  BY <1>22 DEF AfterApDisconnect
<1>23. CASE Close
  BY <1>23 DEF Close
<1>24. CASE UNCHANGED vars
  BY <1>24 DEF vars
<1> QED
  BY <1>1, <1>2, <1>3, <1>4, <1>5, <1>6, <1>7, <1>8, <1>9, <1>10, <1>11, <1>12, <1>13,
     <1>14, <1>15, <1>16, <1>17, <1>18, <1>19, <1>20, <1>21, <1>22, <1>23, <1>24 DEF
     Next, TcpThread, Handle

LEMMA PlaceKept ==
  ASSUME TypeOK, Place, [Next]_vars
  PROVE  Place'
<1> USE Types DEF Place, Making, FlagsType, PlacesType, flags, socket, key, timers
<1>1. CASE CheckTcpConnStatus
  BY <1>1 DEF CheckTcpConnStatus, TcpSocketInit
<1>2. CASE ClearValid
  BY <1>2 DEF ClearValid
<1>3. CASE WipeKey
  BY <1>3 DEF WipeKey
<1>4. CASE Connected
  BY <1>4, KeysAre DEF Connected, ConnsType
<1>5. CASE ConnectFailed
  BY <1>5 DEF ConnectFailed
<1>6. CASE SetConnected
  BY <1>6 DEF SetConnected
<1>7. CASE AskServer
  BY <1>7 DEF AskServer
<1>8. CASE RecvTcpData
  <2>1. sock # 0 /\ tcp' = "check" /\ UNCHANGED <<flags, socket>>
    BY <1>8 DEF RecvTcpData
  <2> QED
    BY <2>1
<1>9. CASE RecvClosed
  BY <1>9 DEF RecvClosed
<1>10. CASE SelectTimeout
  BY <1>10 DEF SelectTimeout
<1>11. CASE QueueRequest
  BY <1>11 DEF QueueRequest, Handled
<1>12. CASE LocalRequstConnectServer
  BY <1>12 DEF LocalRequstConnectServer, Handled, Kept
<1>13. CASE RebackGetServerAddr
  BY <1>13 DEF RebackGetServerAddr, Handled
<1>14. CASE RebackTcpHeartBeat
  BY <1>14 DEF RebackTcpHeartBeat, Handled
<1>15. CASE StoreKey
  BY <1>15 DEF StoreKey
<1>16. CASE AfterConnectServer
  BY <1>16 DEF AfterConnectServer, Handled
<1>17. ASSUME NEW p \in out, NEW answer \in Answers, Transmit(p, answer) PROVE Place'
  BY <1>17 DEF Transmit
<1>18. ASSUME NEW p \in out, GiveUp(p) PROVE Place'
  BY <1>18 DEF GiveUp
<1>19. CASE HeartBeat
  BY <1>19 DEF HeartBeat
<1>20. CASE HeartBeatTimeout
  BY <1>20 DEF HeartBeatTimeout
<1>21. CASE AfterDhcp
  BY <1>21 DEF AfterDhcp
<1>22. CASE AfterApDisconnect
  BY <1>22 DEF AfterApDisconnect
<1>23. CASE Close
  BY <1>23 DEF Close
<1>24. CASE UNCHANGED vars
  BY <1>24 DEF vars
<1> QED
  BY <1>1, <1>2, <1>3, <1>4, <1>5, <1>6, <1>7, <1>8, <1>9, <1>10, <1>11, <1>12, <1>13,
     <1>14, <1>15, <1>16, <1>17, <1>18, <1>19, <1>20, <1>21, <1>22, <1>23, <1>24 DEF
     Next, TcpThread, Handle

(* What a step does to the list of messages.                               *)
Moved ==
  \/ UNCHANGED msgs
  \/ msgs # <<>> /\ msgs' = Tail(msgs)
  \/ \E m \in Msg : msgs' = Append(msgs, m) /\ (m.local \/ (m.from = sock /\ tcp = "select"))

LEMMA Moves ==
  ASSUME TypeOK, Answered, [Next]_vars
  PROVE  Moved
<1> USE Types DEF Moved, flags, socket, key, timers
<1>1. CASE CheckTcpConnStatus
  BY <1>1 DEF CheckTcpConnStatus, TcpSocketInit
<1>2. CASE ClearValid
  BY <1>2 DEF ClearValid
<1>3. CASE WipeKey
  BY <1>3 DEF WipeKey
<1>4. CASE Connected
  BY <1>4 DEF Connected
<1>5. CASE ConnectFailed
  BY <1>5 DEF ConnectFailed
<1>6. CASE SetConnected
  BY <1>6 DEF SetConnected
<1>7. CASE AskServer
  <2>1. PICK m \in Msg : msgs' = Append(msgs, m) /\ m.local
    BY <1>7, LocalIsMsg DEF AskServer, Cmds
  <2> QED
    BY <2>1
<1>8. CASE RecvTcpData
  <2>1. tcp = "select" /\ rx # <<>> /\ (UNCHANGED msgs \/ msgs' = Append(msgs, Head(rx)))
    BY <1>8 DEF RecvTcpData
  <2>2. Head(rx) \in Msg /\ Head(rx).from = sock
    BY <2>1, Tailed DEF ListsType, Answered
  <2> QED
    BY <2>1, <2>2
<1>9. CASE RecvClosed
  BY <1>9 DEF RecvClosed
<1>10. CASE SelectTimeout
  BY <1>10 DEF SelectTimeout
<1>11. CASE QueueRequest
  BY <1>11 DEF QueueRequest, Handled
<1>12. CASE LocalRequstConnectServer
  BY <1>12 DEF LocalRequstConnectServer, Handled, Kept
<1>13. CASE RebackGetServerAddr
  BY <1>13 DEF RebackGetServerAddr, Handled
<1>14. CASE RebackTcpHeartBeat
  BY <1>14 DEF RebackTcpHeartBeat, Handled
<1>15. CASE StoreKey
  BY <1>15 DEF StoreKey
<1>16. CASE AfterConnectServer
  BY <1>16 DEF AfterConnectServer, Handled
<1>17. ASSUME NEW p \in out, NEW answer \in Answers, Transmit(p, answer) PROVE Moved
  BY <1>17 DEF Transmit
<1>18. ASSUME NEW p \in out, GiveUp(p) PROVE Moved
  BY <1>18 DEF GiveUp
<1>19. CASE HeartBeat
  <2>1. CASE UNCHANGED msgs
    BY <2>1
  <2>2. CASE msgs' = Append(msgs, Local("beat"))
    BY <2>2, LocalIsMsg DEF Cmds
  <2> QED
    BY <1>19, <2>1, <2>2 DEF HeartBeat
<1>20. CASE HeartBeatTimeout
  BY <1>20 DEF HeartBeatTimeout
<1>21. CASE AfterDhcp
  BY <1>21 DEF AfterDhcp
<1>22. CASE AfterApDisconnect
  BY <1>22 DEF AfterApDisconnect
<1>23. CASE Close
  BY <1>23 DEF Close
<1>24. CASE UNCHANGED vars
  BY <1>24 DEF vars
<1> QED
  BY <1>1, <1>2, <1>3, <1>4, <1>5, <1>6, <1>7, <1>8, <1>9, <1>10, <1>11, <1>12, <1>13,
     <1>14, <1>15, <1>16, <1>17, <1>18, <1>19, <1>20, <1>21, <1>22, <1>23, <1>24 DEF
     Next, TcpThread, Handle

(* What a step does to the connections.                                    *)
Advanced ==
  /\ conns' = conns \/ conns' = conns + 1
  /\ tcp' = "up" => \/ tcp = "up" /\ UNCHANGED sock
                    \/ sock' = conns + 1 /\ UNCHANGED msgs

LEMMA Advances ==
  ASSUME TypeOK, [Next]_vars
  PROVE  Advanced
<1> USE DEF Advanced, flags, socket, key, timers
<1>1. CASE CheckTcpConnStatus
  BY <1>1 DEF CheckTcpConnStatus, TcpSocketInit
<1>2. CASE ClearValid
  BY <1>2 DEF ClearValid
<1>3. CASE WipeKey
  BY <1>3 DEF WipeKey
<1>4. CASE Connected
  BY <1>4 DEF Connected
<1>5. CASE ConnectFailed
  BY <1>5 DEF ConnectFailed
<1>6. CASE SetConnected
  BY <1>6 DEF SetConnected
<1>7. CASE AskServer
  BY <1>7 DEF AskServer
<1>8. CASE RecvTcpData
  BY <1>8 DEF RecvTcpData
<1>9. CASE RecvClosed
  BY <1>9 DEF RecvClosed
<1>10. CASE SelectTimeout
  BY <1>10 DEF SelectTimeout
<1>11. CASE QueueRequest
  BY <1>11 DEF QueueRequest, Handled
<1>12. CASE LocalRequstConnectServer
  BY <1>12 DEF LocalRequstConnectServer, Handled, Kept
<1>13. CASE RebackGetServerAddr
  BY <1>13 DEF RebackGetServerAddr, Handled
<1>14. CASE RebackTcpHeartBeat
  BY <1>14 DEF RebackTcpHeartBeat, Handled
<1>15. CASE StoreKey
  BY <1>15 DEF StoreKey
<1>16. CASE AfterConnectServer
  BY <1>16 DEF AfterConnectServer, Handled
<1>17. ASSUME NEW p \in out, NEW answer \in Answers, Transmit(p, answer) PROVE Advanced
  BY <1>17 DEF Transmit
<1>18. ASSUME NEW p \in out, GiveUp(p) PROVE Advanced
  BY <1>18 DEF GiveUp
<1>19. CASE HeartBeat
  BY <1>19 DEF HeartBeat
<1>20. CASE HeartBeatTimeout
  BY <1>20 DEF HeartBeatTimeout
<1>21. CASE AfterDhcp
  BY <1>21 DEF AfterDhcp
<1>22. CASE AfterApDisconnect
  BY <1>22 DEF AfterApDisconnect
<1>23. CASE Close
  BY <1>23 DEF Close
<1>24. CASE UNCHANGED vars
  BY <1>24 DEF vars
<1> QED
  BY <1>1, <1>2, <1>3, <1>4, <1>5, <1>6, <1>7, <1>8, <1>9, <1>10, <1>11, <1>12, <1>13,
     <1>14, <1>15, <1>16, <1>17, <1>18, <1>19, <1>20, <1>21, <1>22, <1>23, <1>24 DEF
     Next, TcpThread, Handle

LEMMA Sockets ==
  ASSUME TypeOK, [Next]_vars
  PROVE  conns \in Nat /\ conns' \in Nat /\ conns <= conns'
<1>1. conns \in Nat
  BY Types, KeysAre DEF ConnsType
<1> QED
  BY <1>1, Advances DEF Advanced

LEMMA AnsweredKept ==
  ASSUME TypeOK, Place, Answered, [Next]_vars
  PROVE  Answered'
<1>1. (\A i \in DOMAIN rx : ~rx[i].local /\ rx[i].from = sock)'
  <2> DEFINE Rx == (\A i \in DOMAIN rx : ~rx[i].local /\ rx[i].from = sock)'
  <2> SUFFICES Rx
    OBVIOUS
  <2>1. UNCHANGED <<rx, sock>> => Rx
    BY DEF Answered
  <2>2. rx' = <<>> => Rx
    OBVIOUS
  <2>3. rx # <<>> /\ rx' = Tail(rx) /\ UNCHANGED sock => Rx
    <3> SUFFICES ASSUME rx # <<>>, rx' = Tail(rx), UNCHANGED sock, NEW i \in DOMAIN rx'
                 PROVE  ~rx'[i].local /\ rx'[i].from = sock
      OBVIOUS
    <3>1. i + 1 \in DOMAIN rx /\ rx'[i] = rx[i + 1]
      BY Types, Tailed DEF ListsType
    <3> QED
      BY <3>1 DEF Answered
  <2>4. ASSUME NEW p \in Packet, rx' = Append(rx, Answer(p)), UNCHANGED sock PROVE Rx
    <3> SUFFICES ASSUME NEW i \in DOMAIN rx'
                 PROVE  ~rx'[i].local /\ rx'[i].from = sock
      BY <2>4
    <3>1. Answer(p) \in Msg /\ ~Answer(p).local /\ Answer(p).from = sock
      BY Types, AnswerIsMsg, KeysAre DEF ConnsType
    <3>2. (i \in DOMAIN rx /\ rx'[i] = rx[i]) \/ rx'[i] = Answer(p)
      BY <2>4, <3>1, Types, Appended DEF ListsType
    <3> QED
      BY <3>1, <3>2 DEF Answered
  <2>5. CASE Connected
    <3>1. UNCHANGED rx /\ sock = 0
      BY <2>5 DEF Connected, Place, Making
    <3> QED
      BY <3>1 DEF Place
  <2>6. CASE CheckTcpConnStatus
    <3>1. UNCHANGED <<rx, sock>> \/ rx' = <<>>
      BY <2>6 DEF CheckTcpConnStatus, TcpSocketInit, socket
    <3> QED
      BY <2>1, <2>2, <3>1
  <2>7. CASE RecvTcpData
    <3>1. rx # <<>> /\ rx' = Tail(rx) /\ UNCHANGED sock
      BY <2>7 DEF RecvTcpData, socket
    <3> QED
      BY <2>3, <3>1
  <2>8. ASSUME NEW p \in out, NEW answer \in Answers, Transmit(p, answer) PROVE Rx
    <3>1. UNCHANGED sock /\ (UNCHANGED rx \/ rx' = Append(rx, Answer(p)))
      BY <2>8 DEF Transmit, socket
    <3>2. p \in Packet
      BY Types DEF OutType
    <3> QED
      BY <2>1, <2>4, <3>1, <3>2
  <2>9. ASSUME NEW p \in out, GiveUp(p) PROVE Rx
    BY <2>1, <2>9 DEF GiveUp, socket
  <2>10. CASE \/ ClearValid \/ WipeKey \/ ConnectFailed \/ SetConnected \/ AskServer
              \/ RecvClosed \/ SelectTimeout
    BY <2>1, <2>10 DEF ClearValid, WipeKey, ConnectFailed, SetConnected, AskServer,
       RecvClosed, SelectTimeout, socket
  <2>11. CASE Handle
    BY <2>1, <2>11 DEF Handle, QueueRequest, LocalRequstConnectServer, RebackGetServerAddr,
       RebackTcpHeartBeat, StoreKey, AfterConnectServer, socket
  <2>12. CASE HeartBeat \/ HeartBeatTimeout \/ AfterDhcp \/ AfterApDisconnect \/ Close
    BY <2>1, <2>12 DEF HeartBeat, HeartBeatTimeout, AfterDhcp, AfterApDisconnect, Close, socket
  <2>13. CASE UNCHANGED vars
    BY <2>1, <2>13 DEF vars, socket
  <2> HIDE DEF Rx
  <2> QED
    BY <2>5, <2>6, <2>7, <2>8, <2>9, <2>10, <2>11, <2>12, <2>13 DEF Next, TcpThread
<1> DEFINE Ages(l, n) == \A i \in DOMAIN l : ~l[i].local => l[i].from \in 1 .. n
           Order(l) == \A i, j \in DOMAIN l :
                         i < j /\ ~l[i].local /\ ~l[j].local => l[i].from <= l[j].from
           Other(l, s) == \A i \in DOMAIN l : ~l[i].local => l[i].from # s
<1>2. Ages(msgs, conns) /\ Order(msgs) /\ (tcp = "up" => Other(msgs, sock))
  BY DEF Answered
<1>3. /\ msgs \in Seq(Msg) /\ DOMAIN msgs = 1 .. Len(msgs) /\ Len(msgs) \in Nat
      /\ conns \in Nat /\ conns' \in Nat /\ conns <= conns' /\ sock \in {0, conns}
  BY Types, Sockets DEF ListsType, ConnsType
<1>4. Ages(msgs, conns')
  BY <1>2, <1>3
<1>5. Ages(msgs', conns') /\ Order(msgs')
  <2>1. CASE UNCHANGED msgs
    BY <1>2, <1>4, <2>1
  <2>2. CASE msgs # <<>> /\ msgs' = Tail(msgs)
    <3>1. \A i \in DOMAIN msgs' : i \in Nat /\ i + 1 \in DOMAIN msgs /\ msgs'[i] = msgs[i + 1]
      BY <1>3, <2>2, Tailed
    <3>2. Ages(msgs', conns')
      BY <1>4, <3>1
    <3>3. \A i, j \in DOMAIN msgs' : i < j => i + 1 < j + 1
      BY <3>1
    <3>4. Order(msgs')
      BY <1>2, <3>1, <3>3
    <3> QED
      BY <3>2, <3>4
  <2>3. ASSUME NEW m \in Msg, msgs' = Append(msgs, m),
               m.local \/ (m.from = sock /\ tcp = "select")
        PROVE  Ages(msgs', conns') /\ Order(msgs')
    <3>1. /\ DOMAIN msgs' = 1 .. Len(msgs) + 1
          /\ \A i \in DOMAIN msgs : msgs'[i] = msgs[i]
          /\ msgs'[Len(msgs) + 1] = m
      BY <1>3, <2>3, Appended
    <3>2. ~m.local => m.from = conns /\ conns \in 1 .. conns'
      BY <1>3, <2>3, Types DEF PlacesType
    <3>3. \A i \in DOMAIN msgs' : i \in DOMAIN msgs \/ i = Len(msgs) + 1
      BY <1>3, <3>1
    <3>4. Ages(msgs', conns')
      BY <1>3, <1>4, <3>1, <3>2, <3>3
    <3>5. Order(msgs')
      <4> SUFFICES ASSUME NEW i \in DOMAIN msgs', NEW j \in DOMAIN msgs',
                          i < j, ~msgs'[i].local, ~msgs'[j].local
                   PROVE  msgs'[i].from <= msgs'[j].from
        OBVIOUS
      <4>1. i \in DOMAIN msgs /\ msgs'[i] = msgs[i]
        BY <1>3, <3>1
      <4>2. CASE j \in DOMAIN msgs
        BY <1>2, <3>1, <4>1, <4>2
      <4>3. CASE j = Len(msgs) + 1
        <5>1. msgs'[j].from = conns
          BY <3>1, <3>2, <4>3
        <5>2. msgs[i].from \in 1 .. conns
          BY <1>2, <4>1
        <5> QED
          BY <1>3, <4>1, <5>1, <5>2
      <4> QED
        BY <3>3, <4>2, <4>3
    <3> QED
      BY <3>4, <3>5
  <2> QED
    BY <2>1, <2>2, <2>3, Moves DEF Moved
<1>6. ASSUME tcp' = "up" PROVE Other(msgs', sock')
  <2>1. CASE sock' = conns + 1 /\ UNCHANGED msgs
    BY <1>2, <1>3, <2>1
  <2>2. CASE tcp = "up" /\ UNCHANGED sock
    <3>1. CASE UNCHANGED msgs
      BY <1>2, <2>2, <3>1
    <3>2. CASE msgs # <<>> /\ msgs' = Tail(msgs)
      <4>1. \A i \in DOMAIN msgs' : i + 1 \in DOMAIN msgs /\ msgs'[i] = msgs[i + 1]
        BY <1>3, <3>2, Tailed
      <4> QED
        BY <1>2, <2>2, <4>1
    <3>3. ASSUME NEW m \in Msg, msgs' = Append(msgs, m), m.local
          PROVE  Other(msgs', sock')
      <4>1. \A i \in DOMAIN msgs' : (i \in DOMAIN msgs /\ msgs'[i] = msgs[i]) \/ msgs'[i] = m
        BY <1>3, <3>3, Appended
      <4> QED
        BY <1>2, <2>2, <3>3, <4>1
    <3> QED
      BY <2>2, <3>1, <3>2, <3>3, Moves DEF Moved
  <2> QED
    BY <1>6, <2>1, <2>2, Advances DEF Advanced
<1> QED
  BY <1>1, <1>5, <1>6 DEF Answered

LEMMA HeadKept ==
  ASSUME msgs # <<>>, msgs \in Seq(Msg),
         UNCHANGED msgs \/ \E m \in Msg : msgs' = Append(msgs, m)
  PROVE  msgs' # <<>> /\ Head(msgs') = Head(msgs)
<1>1. ASSUME NEW m \in Msg, msgs' = Append(msgs, m)
      PROVE  msgs' # <<>> /\ Head(msgs') = Head(msgs)
  BY <1>1, Appended
<1> QED
  BY <1>1

(* The answer whose key is between the stores.                             *)
LEMMA StoredHead ==
  ASSUME TypeOK, Answered, Storing, stored
  PROVE  /\ msgs # <<>> /\ Head(msgs) \in Msg /\ IsReply(Head(msgs), "connect")
         /\ Head(msgs).from \in 1 .. conns
         /\ tcp = "up" => Head(msgs).from # sock
<1>1. msgs # <<>> /\ IsReply(Head(msgs), "connect")
  BY DEF Storing
<1>2. 1 \in DOMAIN msgs /\ Head(msgs) = msgs[1] /\ Head(msgs) \in Msg
  BY <1>1, Types, Tailed DEF ListsType
<1> QED
  BY <1>1, <1>2 DEF Answered, IsReply

LEMMA StoringKept ==
  ASSUME TypeOK, Place, Answered, Storing, [Next]_vars
  PROVE  Storing'
<1>0. msgs \in Seq(Msg)
  BY Types DEF ListsType
<1> USE DEF Storing, IsReply, flags, socket, key, timers
<1>1. CASE CheckTcpConnStatus
  <2>1. UNCHANGED <<stored, msgs, serverKey>> /\ (UNCHANGED sock \/ sock' = 0)
    BY <1>1 DEF CheckTcpConnStatus, TcpSocketInit
  <2>2. stored => Head(msgs).from # 0
    BY StoredHead, Types, KeysAre DEF ConnsType
  <2> QED
    BY <2>1, <2>2
<1>2. CASE ClearValid
  BY <1>2 DEF ClearValid
<1>3. CASE WipeKey
  <2>1. UNCHANGED <<stored, msgs, sock>> /\ sock = 0
    BY <1>3 DEF WipeKey, Place, Making
  <2>2. stored => Head(msgs).from # 0
    BY StoredHead, Types, KeysAre DEF ConnsType
  <2> QED
    BY <2>1, <2>2
<1>4. CASE Connected
  <2>1. UNCHANGED <<stored, msgs, serverKey>> /\ sock' = conns + 1
    BY <1>4 DEF Connected
  <2>2. stored => Head(msgs).from # conns + 1
    <3>1. conns \in Nat
      BY Sockets
    <3>2. \A n \in 1 .. conns : n # conns + 1
      BY <3>1
    <3> QED
      BY <3>2, StoredHead
  <2> QED
    BY <2>1, <2>2
<1>5. CASE ConnectFailed
  BY <1>5 DEF ConnectFailed
<1>6. CASE SetConnected
  BY <1>6 DEF SetConnected
<1>7. CASE AskServer
  <2>1. UNCHANGED <<stored, sock, serverKey>> /\ \E m \in Msg : msgs' = Append(msgs, m)
    BY <1>7, LocalIsMsg DEF AskServer, Cmds
  <2> QED
    BY <1>0, <2>1, HeadKept
<1>8. CASE RecvTcpData
  <2>1. UNCHANGED <<stored, sock, serverKey>> /\ rx # <<>>
        /\ (UNCHANGED msgs \/ msgs' = Append(msgs, Head(rx)))
    BY <1>8 DEF RecvTcpData
  <2>2. Head(rx) \in Msg
    BY <2>1, Types, Tailed DEF ListsType
  <2> QED
    BY <1>0, <2>1, <2>2, HeadKept
<1>9. CASE RecvClosed
  BY <1>9 DEF RecvClosed
<1>10. CASE SelectTimeout
  BY <1>10 DEF SelectTimeout
<1>11. CASE QueueRequest
  <2>1. ~stored /\ UNCHANGED stored
    BY <1>11 DEF QueueRequest, Handled, IsLocal
  <2> QED
    BY <2>1
<1>12. CASE LocalRequstConnectServer
  <2>1. ~stored /\ UNCHANGED stored
    BY <1>12 DEF LocalRequstConnectServer, Handled, Kept, IsLocal
  <2> QED
    BY <2>1
<1>13. CASE RebackGetServerAddr
  <2>1. ~stored /\ UNCHANGED stored
    BY <1>13 DEF RebackGetServerAddr, Handled
  <2> QED
    BY <2>1
<1>14. CASE RebackTcpHeartBeat
  <2>1. ~stored /\ UNCHANGED stored
    BY <1>14 DEF RebackTcpHeartBeat, Handled
  <2> QED
    BY <2>1
<1>15. CASE StoreKey
  BY <1>15 DEF StoreKey
<1>16. CASE AfterConnectServer
  BY <1>16 DEF AfterConnectServer, Handled
<1>17. ASSUME NEW p \in out, NEW answer \in Answers, Transmit(p, answer) PROVE Storing'
  BY <1>17 DEF Transmit
<1>18. ASSUME NEW p \in out, GiveUp(p) PROVE Storing'
  BY <1>18 DEF GiveUp
<1>19. CASE HeartBeat
  <2>1. UNCHANGED <<stored, sock, serverKey>>
        /\ (UNCHANGED msgs \/ msgs' = Append(msgs, Local("beat")))
    BY <1>19 DEF HeartBeat
  <2>2. Local("beat") \in Msg
    BY LocalIsMsg DEF Cmds
  <2> QED
    BY <1>0, <2>1, <2>2, HeadKept
<1>20. CASE HeartBeatTimeout
  BY <1>20 DEF HeartBeatTimeout
<1>21. CASE AfterDhcp
  BY <1>21 DEF AfterDhcp
<1>22. CASE AfterApDisconnect
  BY <1>22 DEF AfterApDisconnect
<1>23. CASE Close
  BY <1>23 DEF Close
<1>24. CASE UNCHANGED vars
  BY <1>24 DEF vars
<1> QED
  BY <1>1, <1>2, <1>3, <1>4, <1>5, <1>6, <1>7, <1>8, <1>9, <1>10, <1>11, <1>12, <1>13,
     <1>14, <1>15, <1>16, <1>17, <1>18, <1>19, <1>20, <1>21, <1>22, <1>23, <1>24 DEF
     Next, TcpThread, Handle

(* The answers that are left are those of the connection.                  *)
Fresh(l, s) == \A i \in DOMAIN l : ~l[i].local => l[i].from = s

LEMMA FreshTail ==
  ASSUME NEW l \in Seq(Msg), l # <<>>, NEW s, Fresh(l, s)
  PROVE  Fresh(Tail(l), s)
<1> SUFFICES ASSUME NEW i \in DOMAIN Tail(l)
             PROVE  ~Tail(l)[i].local => Tail(l)[i].from = s
  BY DEF Fresh
<1>1. i + 1 \in DOMAIN l /\ Tail(l)[i] = l[i + 1]
  BY Tailed
<1> QED
  BY <1>1 DEF Fresh

LEMMA FreshAppend ==
  ASSUME NEW l \in Seq(Msg), NEW m \in Msg, NEW s, m.local \/ m.from = s, Fresh(l, s)
  PROVE  Fresh(Append(l, m), s)
<1> SUFFICES ASSUME NEW i \in DOMAIN Append(l, m)
             PROVE  ~Append(l, m)[i].local => Append(l, m)[i].from = s
  BY DEF Fresh
<1>1. (i \in DOMAIN l /\ Append(l, m)[i] = l[i]) \/ Append(l, m)[i] = m
  BY Appended
<1> QED
  BY <1>1 DEF Fresh

(* The answer that brings a key is of the connection that is up: so are    *)
(* those behind it.                                                        *)
LEMMA FreshAfter ==
  ASSUME TypeOK, Answered, msgs # <<>>, ~Head(msgs).local, Head(msgs).from = sock, sock # 0
  PROVE  Fresh(Tail(msgs), sock)
<1>1. /\ msgs \in Seq(Msg) /\ DOMAIN msgs = 1 .. Len(msgs) /\ Len(msgs) \in Nat \ {0}
      /\ Head(msgs) = msgs[1] /\ sock = conns /\ conns \in Nat
  BY Types, Tailed, KeysAre DEF ListsType, ConnsType
<1> SUFFICES ASSUME NEW i \in DOMAIN Tail(msgs), ~Tail(msgs)[i].local
             PROVE  Tail(msgs)[i].from = sock
  BY DEF Fresh
<1>2. i + 1 \in DOMAIN msgs /\ Tail(msgs)[i] = msgs[i + 1] /\ 1 < i + 1 /\ 1 \in DOMAIN msgs
  BY <1>1, Tailed
<1>3. msgs[1].from <= msgs[i + 1].from /\ msgs[i + 1].from \in 1 .. conns
  BY <1>1, <1>2 DEF Answered
<1> QED
  BY <1>1, <1>2, <1>3

(* As Keyed says it.                                                       *)
LEMMA KeyedIs ==
  Keyed <=> (~stale /\ keyValid =>
               /\ tcp \notin {"wipe", "server"} /\ ~(tcp = "up" /\ peer = "server")
               /\ conn => Fresh(msgs, sock))
  BY DEF Keyed, Fresh

LEMMA KeyedKept ==
  ASSUME TypeOK, Place, Answered, Storing, Keyed, [Next]_vars
  PROVE  Keyed'
<1> DEFINE K == ~stale' /\ keyValid' =>
                  /\ tcp' \notin {"wipe", "server"} /\ ~(tcp' = "up" /\ peer' = "server")
                  /\ conn' => Fresh(msgs', sock')
<1> SUFFICES K
  BY DEF Keyed, Fresh
<1>0. msgs \in Seq(Msg)
  BY Types DEF ListsType
<1>tail. msgs # <<>> /\ Fresh(msgs, sock) => Fresh(Tail(msgs), sock)
  BY <1>0, FreshTail
<1> USE KeyedIs DEF flags, socket, key, timers
<1>1. CASE CheckTcpConnStatus
  <2>1. UNCHANGED <<stale, keyValid, conn, msgs>>
        /\ \/ UNCHANGED sock /\ tcp' = "select"
           \/ ~conn /\ tcp' \in {"balance", "clear"}
    BY <1>1 DEF CheckTcpConnStatus, TcpSocketInit
  <2> QED
    BY <2>1
<1>2. CASE ClearValid
  BY <1>2, <1>tail DEF ClearValid
<1>3. CASE WipeKey
  BY <1>3, <1>tail DEF WipeKey
<1>4. CASE Connected
  <2>1. ~conn
    BY <1>4 DEF Connected, Place
  <2> QED
    BY <1>4, <2>1 DEF Connected
<1>5. CASE ConnectFailed
  BY <1>5, <1>tail DEF ConnectFailed
<1>6. CASE SetConnected
  <2>1. ~conn
    BY <1>6 DEF SetConnected, Place
  <2> QED
    BY <1>6, <2>1, Types DEF SetConnected, PlacesType
<1>7. CASE AskServer
  <2>1. \E m \in Msg : msgs' = Append(msgs, m) /\ m.local
    BY <1>7, LocalIsMsg DEF AskServer, Cmds
  <2>2. Fresh(msgs, sock) => Fresh(msgs', sock)
    BY <1>0, <2>1, FreshAppend
  <2> QED
    BY <1>7, <2>2 DEF AskServer
<1>8. CASE RecvTcpData
  <2>1. UNCHANGED <<stale, keyValid, conn, sock>> /\ tcp' = "check" /\ rx # <<>>
        /\ (UNCHANGED msgs \/ msgs' = Append(msgs, Head(rx)))
    BY <1>8 DEF RecvTcpData
  <2>2. Head(rx) \in Msg /\ Head(rx).from = sock
    BY <2>1, Types, Tailed DEF ListsType, Answered
  <2>3. Fresh(msgs, sock) => Fresh(msgs', sock)
    BY <1>0, <2>1, <2>2, FreshAppend
  <2> QED
    BY <2>1, <2>3
<1>9. CASE RecvClosed
  BY <1>9, <1>tail DEF RecvClosed
<1>10. CASE SelectTimeout
  BY <1>10, <1>tail DEF SelectTimeout
<1>11. CASE QueueRequest
  BY <1>11, <1>tail DEF QueueRequest, Handled
<1>12. CASE LocalRequstConnectServer
  BY <1>12, <1>tail DEF LocalRequstConnectServer, Handled, Kept
<1>13. CASE RebackGetServerAddr
  BY <1>13, <1>tail DEF RebackGetServerAddr, Handled
<1>14. CASE RebackTcpHeartBeat
  BY <1>14, <1>tail DEF RebackTcpHeartBeat, Handled
<1>15. CASE StoreKey
  BY <1>15, <1>tail DEF StoreKey
<1>16. CASE AfterConnectServer
  <2>1. /\ stored /\ msgs' = Tail(msgs) /\ UNCHANGED <<conn, sock, tcp, peer>>
        /\ stale' = (stale \/ Head(msgs).from # sock)
    BY <1>16 DEF AfterConnectServer, Handled
  <2> SUFFICES ASSUME ~stale' PROVE K
    OBVIOUS
  <2>2. Head(msgs).from = sock
    BY <2>1
  <2>3. msgs # <<>> /\ ~Head(msgs).local /\ sock # 0 /\ tcp # "up"
    BY <2>1, <2>2, StoredHead, Types, KeysAre DEF ConnsType, IsReply
  <2>4. tcp \notin {"wipe", "server"}
    BY <2>3 DEF Place, Making
  <2>5. Fresh(Tail(msgs), sock)
    BY <2>2, <2>3, FreshAfter
  <2> QED
    BY <2>1, <2>3, <2>4, <2>5
<1>17. ASSUME NEW p \in out, NEW answer \in Answers, Transmit(p, answer) PROVE K
  BY <1>17, <1>tail DEF Transmit
<1>18. ASSUME NEW p \in out, GiveUp(p) PROVE K
  BY <1>18, <1>tail DEF GiveUp
<1>19. CASE HeartBeat
  <2>1. UNCHANGED <<stale, keyValid, conn, sock, tcp, peer>>
        /\ (UNCHANGED msgs \/ msgs' = Append(msgs, Local("beat")))
    BY <1>19 DEF HeartBeat
  <2>2. Local("beat") \in Msg /\ Local("beat").local
    BY LocalIsMsg DEF Cmds
  <2>3. Fresh(msgs, sock) => Fresh(msgs', sock)
    BY <1>0, <2>1, <2>2, FreshAppend
  <2> QED
    BY <2>1, <2>3
<1>20. CASE HeartBeatTimeout
  BY <1>20, <1>tail DEF HeartBeatTimeout
<1>21. CASE AfterDhcp
  BY <1>21, <1>tail DEF AfterDhcp
<1>22. CASE AfterApDisconnect
  BY <1>22, <1>tail DEF AfterApDisconnect
<1>23. CASE Close
  BY <1>23, <1>tail DEF Close
<1>24. CASE UNCHANGED vars
  BY <1>24 DEF vars
<1> QED
  BY <1>1, <1>2, <1>3, <1>4, <1>5, <1>6, <1>7, <1>8, <1>9, <1>10, <1>11, <1>12, <1>13,
     <1>14, <1>15, <1>16, <1>17, <1>18, <1>19, <1>20, <1>21, <1>22, <1>23, <1>24 DEF
     Next, TcpThread, Handle

-----------------------------------------------------------------------------
LEMMA AskedTail ==
  ASSUME msgs \in Seq(Msg), msgs # <<>>, msgs' = Tail(msgs),
         ~IsLocal(Head(msgs), "connect"), LoginAsked
  PROVE  LoginAsked'
<1>1. PICK i \in DOMAIN msgs : IsLocal(msgs[i], "connect")
  BY DEF LoginAsked
<1>2. i # 1 /\ i \in 1 .. Len(msgs) /\ Len(msgs) \in Nat
  BY <1>1, Tailed
<1>3. i - 1 \in DOMAIN Tail(msgs) /\ Tail(msgs)[i - 1] = msgs[i - 1 + 1] /\ i - 1 + 1 = i
  BY <1>2, Tailed
<1> QED
  BY <1>1, <1>3 DEF LoginAsked, IsLocal

LEMMA AskedAppend ==
  ASSUME msgs \in Seq(Msg), NEW m \in Msg, msgs' = Append(msgs, m)
  PROVE  /\ LoginAsked => LoginAsked'
         /\ IsLocal(m, "connect") => LoginAsked'
<1>1. /\ DOMAIN msgs' = 1 .. Len(msgs) + 1 /\ DOMAIN msgs = 1 .. Len(msgs) /\ Len(msgs) \in Nat
      /\ \A i \in DOMAIN msgs : msgs'[i] = msgs[i]
      /\ msgs'[Len(msgs) + 1] = m
  BY Appended
<1>2. \A i \in DOMAIN msgs : i \in DOMAIN msgs'
  BY <1>1
<1>3. Len(msgs) + 1 \in DOMAIN msgs'
  BY <1>1
<1> QED
  BY <1>1, <1>2, <1>3 DEF LoginAsked, IsLocal

LEMMA NothingKept ==
  ASSUME TypeOK, Place, Storing, NothingFromBefore, [Next]_vars
  PROVE  NothingFromBefore'
<1>0. msgs \in Seq(Msg) /\ (UNCHANGED msgs => (LoginAsked' <=> LoginAsked))
  BY Types DEF ListsType, LoginAsked
<1>up. conn' => sock' # 0 /\ peer' = "server"
  BY PlaceKept DEF Place
<1> DEFINE Rest == tcp' # "ask" /\ ~LoginAsked' => \A p \in out' : p.since = sock'
<1> SUFFICES ASSUME conn' PROVE Rest
  BY <1>up DEF NothingFromBefore
<1> USE DEF NothingFromBefore, flags, socket, key, timers
<1>1. CASE CheckTcpConnStatus
  <2>1. UNCHANGED <<conn, msgs, out>> /\ (~conn \/ (UNCHANGED sock /\ tcp = "check"))
    BY <1>1 DEF CheckTcpConnStatus, TcpSocketInit
  <2> QED
    BY <1>0, <2>1
<1>2. CASE ClearValid
  BY <1>2, <1>0 DEF ClearValid
<1>3. CASE WipeKey
  BY <1>3, <1>0 DEF WipeKey
<1>4. CASE Connected
  <2>1. ~conn /\ UNCHANGED conn
    BY <1>4 DEF Connected, Place
  <2> QED
    BY <2>1
<1>5. CASE ConnectFailed
  BY <1>5, <1>0 DEF ConnectFailed
<1>6. CASE SetConnected
  BY <1>6, <1>0 DEF SetConnected
<1>7. CASE AskServer
  <2>1. UNCHANGED <<conn, peer>> /\ peer = "server"
    BY <1>7 DEF AskServer
  <2>2. msgs' = Append(msgs, Local("connect")) /\ Local("connect") \in Msg
        /\ IsLocal(Local("connect"), "connect")
    BY <1>7, <2>1, LocalIsMsg DEF AskServer, Cmds, IsLocal
  <2> QED
    BY <1>0, <2>2, AskedAppend
<1>8. CASE RecvTcpData
  <2>1. /\ UNCHANGED <<conn, sock, peer, out>> /\ tcp = "select" /\ rx # <<>>
        /\ UNCHANGED msgs \/ msgs' = Append(msgs, Head(rx))
    BY <1>8 DEF RecvTcpData
  <2>2. Head(rx) \in Msg
    BY <2>1, Types, Tailed DEF ListsType
  <2>3. LoginAsked => LoginAsked'
    BY <1>0, <2>1, <2>2, AskedAppend
  <2> QED
    BY <2>1, <2>3
<1>9. CASE RecvClosed
  BY <1>9, <1>0 DEF RecvClosed
<1>10. CASE SelectTimeout
  BY <1>10, <1>0 DEF SelectTimeout
<1>11. CASE QueueRequest
  <2>1. PICK c \in {"addr", "beat"} :
          /\ UNCHANGED <<conn, tcp, sock, peer>> /\ out' = out \cup {Request(c)}
          /\ msgs # <<>> /\ msgs' = Tail(msgs) /\ ~IsLocal(Head(msgs), "connect")
    BY <1>11 DEF QueueRequest, Handled, IsLocal
  <2>2. LoginAsked => LoginAsked'
    BY <1>0, <2>1, AskedTail
  <2>3. Request(c).since = sock
    BY <2>1, <1>up, RequestIsPacket, Types DEF Cmds, OutType, ConnsType
  <2> QED
    BY <2>1, <2>2, <2>3
<1>12. CASE LocalRequstConnectServer
  <2>1. UNCHANGED <<conn, sock>> /\ out' = {Request("connect")}
    BY <1>12 DEF LocalRequstConnectServer, Handled, Kept
  <2>2. Request("connect").since = sock
    BY <2>1, <1>up, RequestIsPacket, Types DEF Cmds, OutType, ConnsType
  <2> QED
    BY <2>1, <2>2
<1>13. CASE RebackGetServerAddr
  <2>1. /\ UNCHANGED <<conn, tcp, sock, peer>> /\ out' \subseteq out
        /\ msgs # <<>> /\ msgs' = Tail(msgs) /\ ~IsLocal(Head(msgs), "connect")
    BY <1>13 DEF RebackGetServerAddr, Handled, DeleteRequst, IsReply, IsLocal
  <2>2. LoginAsked => LoginAsked'
    BY <1>0, <2>1, AskedTail
  <2> QED
    BY <2>1, <2>2
<1>14. CASE RebackTcpHeartBeat
  <2>1. /\ UNCHANGED <<conn, tcp, sock, peer>> /\ out' \subseteq out
        /\ msgs # <<>> /\ msgs' = Tail(msgs) /\ ~IsLocal(Head(msgs), "connect")
    BY <1>14 DEF RebackTcpHeartBeat, Handled, DeleteRequst, IsReply, IsLocal
  <2>2. LoginAsked => LoginAsked'
    BY <1>0, <2>1, AskedTail
  <2> QED
    BY <2>1, <2>2
<1>15. CASE StoreKey
  BY <1>15, <1>0 DEF StoreKey
<1>16. CASE AfterConnectServer
  <2>1. /\ UNCHANGED <<conn, tcp, sock, peer>> /\ out' \subseteq out
        /\ msgs # <<>> /\ msgs' = Tail(msgs) /\ stored
    BY <1>16 DEF AfterConnectServer, Handled, DeleteRequst
  <2>2. ~IsLocal(Head(msgs), "connect")
    BY <2>1 DEF Storing, IsReply, IsLocal
  <2>3. LoginAsked => LoginAsked'
    BY <1>0, <2>1, <2>2, AskedTail
  <2> QED
    BY <2>1, <2>3
<1>17. ASSUME NEW p \in out, NEW answer \in Answers, Transmit(p, answer) PROVE Rest
  <2>1. UNCHANGED <<conn, tcp, sock, peer, msgs>>
    BY <1>17 DEF Transmit
  <2>2. \/ out' \subseteq out
        \/ ~(p.sent + 1 >= MAX_RESEND_COUNT) /\ out' = (out \ {p}) \cup {[p EXCEPT !.sent = @ + 1]}
    BY <1>17 DEF Transmit
  <2>3. p \in Packet
    BY Types DEF OutType
  <2>4. ~(p.sent + 1 >= MAX_RESEND_COUNT) => [p EXCEPT !.sent = @ + 1].since = p.since
    BY <2>3, ResentIsPacket
  <2> QED
    BY <1>0, <2>1, <2>2, <2>4
<1>18. ASSUME NEW p \in out, GiveUp(p) PROVE Rest
  BY <1>18, <1>0 DEF GiveUp
<1>19. CASE HeartBeat
  <2>1. /\ UNCHANGED <<conn, tcp, sock, peer, out>>
        /\ UNCHANGED msgs \/ msgs' = Append(msgs, Local("beat"))
    BY <1>19 DEF HeartBeat
  <2>2. Local("beat") \in Msg
    BY LocalIsMsg DEF Cmds
  <2>3. LoginAsked => LoginAsked'
    BY <1>0, <2>1, <2>2, AskedAppend
  <2> QED
    BY <2>1, <2>3
<1>20. CASE HeartBeatTimeout
  BY <1>20, <1>0 DEF HeartBeatTimeout
<1>21. CASE AfterDhcp
  BY <1>21, <1>0 DEF AfterDhcp
<1>22. CASE AfterApDisconnect
  BY <1>22, <1>0 DEF AfterApDisconnect
<1>23. CASE Close
  BY <1>23, <1>0 DEF Close
<1>24. CASE UNCHANGED vars
  BY <1>24, <1>0 DEF vars
<1> QED
  BY <1>1, <1>2, <1>3, <1>4, <1>5, <1>6, <1>7, <1>8, <1>9, <1>10, <1>11, <1>12, <1>13,
     <1>14, <1>15, <1>16, <1>17, <1>18, <1>19, <1>20, <1>21, <1>22, <1>23, <1>24 DEF
     Next, TcpThread, Handle

LEMMA KeyKept ==
  ASSUME TypeOK, Place, Answered, Storing, Keyed, KeyOfConnection, [Next]_vars
  PROVE  KeyOfConnection'
<1> USE DEF KeyOfConnection, flags, socket, key, timers
<1>1. CASE CheckTcpConnStatus
  <2>1. UNCHANGED <<conn, key, stale, timeout>> /\ (~conn \/ UNCHANGED sock)
    BY <1>1 DEF CheckTcpConnStatus, TcpSocketInit
  <2> QED
    BY <2>1
<1>2. CASE ClearValid
  BY <1>2 DEF ClearValid
<1>3. CASE WipeKey
  <2>1. ~conn /\ UNCHANGED conn
    BY <1>3 DEF WipeKey, Place, Making
  <2> QED
    BY <2>1
<1>4. CASE Connected
  <2>1. ~conn /\ UNCHANGED conn
    BY <1>4 DEF Connected, Place, Making
  <2> QED
    BY <2>1
<1>5. CASE ConnectFailed
  BY <1>5 DEF ConnectFailed
<1>6. CASE SetConnected
  <2>1. tcp = "up" /\ ~conn /\ UNCHANGED <<key, stale>> /\ (conn' => peer # "balance")
    BY <1>6 DEF SetConnected, Place
  <2>2. conn' => ~keyValid \/ stale
    BY <2>1, Types DEF Keyed, PlacesType
  <2> QED
    BY <2>1, <2>2
<1>7. CASE AskServer
  BY <1>7 DEF AskServer
<1>8. CASE RecvTcpData
  BY <1>8 DEF RecvTcpData
<1>9. CASE RecvClosed
  BY <1>9 DEF RecvClosed
<1>10. CASE SelectTimeout
  BY <1>10 DEF SelectTimeout
<1>11. CASE QueueRequest
  BY <1>11 DEF QueueRequest, Handled
<1>12. CASE LocalRequstConnectServer
  BY <1>12 DEF LocalRequstConnectServer, Handled, Kept
<1>13. CASE RebackGetServerAddr
  BY <1>13 DEF RebackGetServerAddr, Handled
<1>14. CASE RebackTcpHeartBeat
  BY <1>14 DEF RebackTcpHeartBeat, Handled
<1>15. CASE StoreKey
  <2>1. /\ UNCHANGED <<conn, sock, keyValid, stale>> /\ serverKey' = Head(msgs).from
        /\ msgs # <<>> /\ IsReply(Head(msgs), "connect")
    BY <1>15 DEF StoreKey
  <2>2. 1 \in DOMAIN msgs /\ Head(msgs) = msgs[1]
    BY <2>1, Types, Tailed DEF ListsType
  <2>3. conn /\ keyValid /\ ~stale => Head(msgs).from = sock
    BY <2>1, <2>2, KeyedIs DEF Fresh, IsReply
  <2> QED
    BY <2>1, <2>3
<1>16. CASE AfterConnectServer
  <2>1. /\ stored /\ UNCHANGED <<conn, sock, serverKey>>
        /\ stale' = (stale \/ Head(msgs).from # sock)
    BY <1>16 DEF AfterConnectServer, Handled
  <2> QED
    BY <2>1 DEF Storing
<1>17. ASSUME NEW p \in out, NEW answer \in Answers, Transmit(p, answer) PROVE KeyOfConnection'
  BY <1>17 DEF Transmit
<1>18. ASSUME NEW p \in out, GiveUp(p) PROVE KeyOfConnection'
  BY <1>18 DEF GiveUp
<1>19. CASE HeartBeat
  BY <1>19 DEF HeartBeat
<1>20. CASE HeartBeatTimeout
  BY <1>20 DEF HeartBeatTimeout
<1>21. CASE AfterDhcp
  BY <1>21 DEF AfterDhcp
<1>22. CASE AfterApDisconnect
  BY <1>22 DEF AfterApDisconnect
<1>23. CASE Close
  BY <1>23 DEF Close
<1>24. CASE UNCHANGED vars
  BY <1>24 DEF vars
<1> QED
  BY <1>1, <1>2, <1>3, <1>4, <1>5, <1>6, <1>7, <1>8, <1>9, <1>10, <1>11, <1>12, <1>13,
     <1>14, <1>15, <1>16, <1>17, <1>18, <1>19, <1>20, <1>21, <1>22, <1>23, <1>24 DEF
     Next, TcpThread, Handle

LEMMA WatchedKept ==
  ASSUME TypeOK, Place, Keyed, Watched, [Next]_vars
  PROVE  Watched'
<1> USE DEF Watched, flags, socket, key, timers
<1>1. CASE CheckTcpConnStatus
  <2>1. UNCHANGED <<conn, key, stale, timeout>> /\ (~conn \/ UNCHANGED sock)
    BY <1>1 DEF CheckTcpConnStatus, TcpSocketInit
  <2> QED
    BY <2>1
<1>2. CASE ClearValid
  BY <1>2 DEF ClearValid
<1>3. CASE WipeKey
  BY <1>3 DEF WipeKey
<1>4. CASE Connected
  <2>1. ~conn /\ UNCHANGED conn
    BY <1>4 DEF Connected, Place, Making
  <2> QED
    BY <2>1
<1>5. CASE ConnectFailed
  BY <1>5 DEF ConnectFailed
<1>6. CASE SetConnected
  <2>1. tcp = "up" /\ ~conn /\ UNCHANGED <<key, stale>> /\ (conn' => peer # "balance")
    BY <1>6 DEF SetConnected, Place
  <2>2. conn' => ~keyValid \/ stale
    BY <2>1, Types DEF Keyed, PlacesType
  <2> QED
    BY <2>1, <2>2
<1>7. CASE AskServer
  BY <1>7 DEF AskServer
<1>8. CASE RecvTcpData
  BY <1>8 DEF RecvTcpData
<1>9. CASE RecvClosed
  BY <1>9 DEF RecvClosed
<1>10. CASE SelectTimeout
  BY <1>10 DEF SelectTimeout
<1>11. CASE QueueRequest
  BY <1>11 DEF QueueRequest, Handled
<1>12. CASE LocalRequstConnectServer
  BY <1>12 DEF LocalRequstConnectServer, Handled, Kept
<1>13. CASE RebackGetServerAddr
  BY <1>13 DEF RebackGetServerAddr, Handled
<1>14. CASE RebackTcpHeartBeat
  BY <1>14 DEF RebackTcpHeartBeat, Handled
<1>15. CASE StoreKey
  BY <1>15 DEF StoreKey
<1>16. CASE AfterConnectServer
  BY <1>16 DEF AfterConnectServer, Handled
<1>17. ASSUME NEW p \in out, NEW answer \in Answers, Transmit(p, answer) PROVE Watched'
  BY <1>17 DEF Transmit
<1>18. ASSUME NEW p \in out, GiveUp(p) PROVE Watched'
  BY <1>18 DEF GiveUp
<1>19. CASE HeartBeat
  BY <1>19 DEF HeartBeat
<1>20. CASE HeartBeatTimeout
  BY <1>20 DEF HeartBeatTimeout
<1>21. CASE AfterDhcp
  BY <1>21 DEF AfterDhcp
<1>22. CASE AfterApDisconnect
  BY <1>22 DEF AfterApDisconnect
<1>23. CASE Close
  BY <1>23 DEF Close
<1>24. CASE UNCHANGED vars
  BY <1>24 DEF vars
<1> QED
  BY <1>1, <1>2, <1>3, <1>4, <1>5, <1>6, <1>7, <1>8, <1>9, <1>10, <1>11, <1>12, <1>13,
     <1>14, <1>15, <1>16, <1>17, <1>18, <1>19, <1>20, <1>21, <1>22, <1>23, <1>24 DEF
     Next, TcpThread, Handle

LEMMA LinkStep == LinkIInv /\ [Next]_vars => LinkIInv'
<1> SUFFICES ASSUME LinkIInv, [Next]_vars PROVE LinkIInv'
  OBVIOUS
<1> USE DEF LinkIInv
<1>1. FlagsType' /\ ConnsType' /\ PlacesType' /\ ListsType' /\ OutType'
  BY Types, FlagsKept, ConnsKept, PlacesKept, ListsKept, OutKept
<1>2. TypeOK'
  BY <1>1, Types DEF TypeOK, FlagsType, ConnsType, PlacesType, ListsType, OutType
<1> QED
  BY <1>2, PlaceKept, AnsweredKept, StoringKept, KeyedKept, NothingKept, KeyKept, WatchedKept

LEMMA LinkInit == Init => LinkIInv
<1> SUFFICES ASSUME Init PROVE LinkIInv
  OBVIOUS
<1>1. FlagsType /\ ConnsType /\ PlacesType /\ ListsType /\ OutType
  <2>1. FlagsType /\ PlacesType
    BY DEF Init, FlagsType, PlacesType
  <2>2. ConnsType /\ ListsType
    BY KeysAre DEF Init, ConnsType, ListsType
  <2>3. OutType
    BY DEF Init, OutType
  <2> QED
    BY <2>1, <2>2, <2>3
<1>2. Place /\ Storing /\ Keyed /\ NothingFromBefore /\ KeyOfConnection /\ Watched
  BY DEF Init, Place, Making, Storing, Keyed, NothingFromBefore, KeyOfConnection, Watched
<1>3. Answered
  BY DEF Init, Answered
<1> QED
  BY <1>1, <1>2, <1>3, Types DEF LinkIInv

(* A device that says that it is connected is connected to the server, has *)
(* no packet from before, holds the key of that connection and watches it, *)
(* for any number of connections, requests and messages and any servers    *)
(* (serverSocketTcp.c, messageDispose.c, deviceMisc.c, itoCommon.c).       *)
THEOREM LoginCorrect == Spec => []LoginInv
<1>1. LinkIInv => LoginInv
  BY DEF LinkIInv, LoginInv
<1> QED
  BY <1>1, LinkInit, LinkStep, PTL DEF Spec

-----------------------------------------------------------------------------
(* What a step does to the packets.                                        *)
Asked      == \E c \in {"addr", "beat"} : out' = out \cup {Request(c)} /\ sn' = sn + 1
AskedLogin == out' = {Request("connect")} /\ sn' = sn + 1
Sent(p) ==
  /\ sn' = sn
  /\ out' = IF p.sent + 1 >= MAX_RESEND_COUNT THEN out \ {p}
            ELSE (out \ {p}) \cup {[p EXCEPT !.sent = @ + 1]}
GivenUp(p) == sn' = sn /\ out' = out \ {p}

LEMMA OutShape ==
  ASSUME [Next]_vars
  PROVE  \/ UNCHANGED <<out, sn>> \/ Asked \/ AskedLogin
         \/ \E p \in out : Sent(p) \/ GivenUp(p)
         \/ sn' = sn /\ \E s : DeleteRequst(s)
<1> USE DEF flags, socket, key, timers
<1>1. CASE TcpThread
  BY <1>1 DEF TcpThread, CheckTcpConnStatus, TcpSocketInit, ClearValid, WipeKey, Connected,
              ConnectFailed, SetConnected, AskServer, RecvTcpData, RecvClosed, SelectTimeout
<1>2. CASE QueueRequest
  <2>1. out' = out \cup {Request(Head(msgs).cmd)} /\ sn' = sn + 1
    BY <1>2 DEF QueueRequest
  <2>2. Head(msgs).cmd \in {"addr", "beat"}
    BY <1>2 DEF QueueRequest, IsLocal
  <2> QED
    BY <2>1, <2>2, Zenon DEF Asked
<1>3. CASE LocalRequstConnectServer
  BY <1>3 DEF LocalRequstConnectServer, Kept, AskedLogin
<1>4. CASE RebackGetServerAddr
  BY <1>4 DEF RebackGetServerAddr
<1>5. CASE RebackTcpHeartBeat
  BY <1>5 DEF RebackTcpHeartBeat
<1>6. CASE StoreKey
  BY <1>6 DEF StoreKey
<1>7. CASE AfterConnectServer
  BY <1>7 DEF AfterConnectServer
<1>8. ASSUME NEW p \in out, NEW answer \in Answers, Transmit(p, answer) PROVE Sent(p)
  BY <1>8 DEF Transmit, Sent
<1>9. ASSUME NEW p \in out, GiveUp(p) PROVE GivenUp(p)
  BY <1>9 DEF GiveUp, GivenUp
<1>10. CASE HeartBeat \/ HeartBeatTimeout \/ AfterDhcp \/ AfterApDisconnect \/ Close
  BY <1>10 DEF HeartBeat, HeartBeatTimeout, AfterDhcp, AfterApDisconnect, Close
<1>11. CASE UNCHANGED vars
  BY <1>11 DEF vars
<1> QED
  BY <1>1, <1>2, <1>3, <1>4, <1>5, <1>6, <1>7, <1>8, <1>9, <1>10, <1>11 DEF Next, Handle

(* No two packets have the same number, and none a number to come.         *)
Numbered == \A p \in out : p.sn <= sn /\ \A q \in out : p.sn = q.sn => p = q

LEMMA NumberedKept ==
  ASSUME OutType, Numbered, [Next]_vars
  PROVE  Numbered'
<1>t. sn \in Nat /\ \A p \in out : p.sn \in Nat
  BY DEF OutType, Packet
<1>new. \A c : Request(c).sn = sn + 1
  BY DEF Request
<1>1. CASE Asked
  <2>1. PICK c : out' = out \cup {Request(c)} /\ sn' = sn + 1
    BY <1>1 DEF Asked
  <2>2. \A p \in out : p.sn # Request(c).sn
    BY <1>t, <1>new DEF Numbered
  <2> QED
    BY <1>t, <1>new, <2>1, <2>2 DEF Numbered
<1>2. CASE AskedLogin
  BY <1>2, <1>t, <1>new DEF AskedLogin, Numbered
<1>3. ASSUME NEW p \in out, Sent(p) PROVE Numbered'
  <2> DEFINE q == [p EXCEPT !.sent = @ + 1]
  <2>1. q.sn = p.sn
    BY DEF OutType, Packet
  <2> HIDE DEF q
  <2>2. sn' = sn /\ out' \subseteq (out \ {p}) \cup {q}
    BY <1>3 DEF Sent, q
  <2> QED
    BY <2>1, <2>2 DEF Numbered
<1>4. ASSUME sn' = sn, out' \subseteq out PROVE Numbered'
  BY <1>4 DEF Numbered
<1> QED
  BY <1>1, <1>2, <1>3, <1>4, OutShape DEF GivenUp, DeleteRequst

\* What the list promises about a packet.
Entry(p) == [id |-> p.sn, login |-> p.cmd = "connect", sent |-> p.sent]
Waiting  == {Entry(p) : p \in out}

(* Every step is one of the promised ones.                                 *)
LEMMA Promised ==
  ASSUME OutType, Numbered, [Next]_vars
  PROVE  Box!Next \/ UNCHANGED <<sn, Waiting>>
<1>t. sn \in Nat /\ \A p \in out : p \in Packet
  BY DEF OutType
<1>box. /\ Box!Ask <=> /\ sn' > sn
                       /\ Waiting' = Waiting \cup {[id |-> sn', login |-> FALSE, sent |-> 0]}
        /\ Box!LogIn <=> sn' > sn /\ Waiting' = {[id |-> sn', login |-> TRUE, sent |-> 0]}
  BY DEF Box!Ask, Box!LogIn, Box!New, Waiting, Entry
<1>one. ASSUME NEW e \in Waiting, Box!Leave(e) \/ Box!Send(e) PROVE Box!Next
  <2>1. e \in {[id |-> p.sn, login |-> p.cmd = "connect", sent |-> p.sent] : p \in out}
    BY DEF Waiting, Entry
  <2> QED
    BY <1>one, <2>1, Zenon DEF Box!Next
<1>fits. ASSUME NEW p \in out
         PROVE  {Entry(q) : q \in out \ {p}} = Waiting \ {Entry(p)}
  <2>1. \A q \in out : q # p => Entry(q) # Entry(p)
    <3>1. \A q : Entry(q).id = q.sn
      BY DEF Entry
    <3> QED
      BY <3>1 DEF Numbered
  <2> QED
    BY <2>1 DEF Waiting
<1>leave. ASSUME NEW p \in out, out' = out \ {p}, sn' = sn PROVE Box!Next
  <2>1. PICK e \in Waiting : e = Entry(p)
    BY DEF Waiting
  <2>2. Waiting' = Waiting \ {e}
    BY <1>leave, <1>fits, <2>1 DEF Waiting, Entry
  <2>3. Box!Leave(e)
    BY <1>leave, <2>2 DEF Box!Leave, Waiting, Entry
  <2> QED
    BY <1>one, <2>3
<1>1. CASE Asked
  <2>1. PICK c \in {"addr", "beat"} : out' = out \cup {Request(c)} /\ sn' = sn + 1
    BY <1>1 DEF Asked
  <2>2. Entry(Request(c)) = [id |-> sn + 1, login |-> FALSE, sent |-> 0]
    BY DEF Entry, Request
  <2>3. Waiting' = Waiting \cup {Entry(Request(c))}
    BY <2>1 DEF Waiting, Entry
  <2>4. Box!Ask
    BY <1>t, <1>box, <2>1, <2>2, <2>3
  <2> QED
    BY <2>4 DEF Box!Next
<1>2. CASE AskedLogin
  <2>1. Entry(Request("connect")) = [id |-> sn + 1, login |-> TRUE, sent |-> 0]
    BY DEF Entry, Request
  <2>2. Waiting' = {Entry(Request("connect"))} /\ sn' = sn + 1
    BY <1>2 DEF Waiting, Entry, AskedLogin
  <2>3. sn' > sn /\ Waiting' = {[id |-> sn', login |-> TRUE, sent |-> 0]}
    <3>1. Waiting' = {[id |-> sn', login |-> TRUE, sent |-> 0]}
      BY <2>1, <2>2, Zenon
    <3> QED
      BY <1>t, <2>2, <3>1
  <2>4. Box!LogIn
    BY <1>box, <2>3
  <2> QED
    BY <2>4 DEF Box!Next
<1>3. ASSUME NEW p \in out, Sent(p) PROVE Box!Next
  <2> DEFINE q == [p EXCEPT !.sent = @ + 1]
  <2>1. q.sn = p.sn /\ q.cmd = p.cmd /\ q.sent = p.sent + 1 /\ p.sent \in Nat
    BY <1>t, LenAssumption DEF Packet
  <2>2. /\ sn' = sn
        /\ out' = IF p.sent + 1 >= MAX_RESEND_COUNT THEN out \ {p} ELSE (out \ {p}) \cup {q}
    BY <1>3 DEF Sent
  <2> HIDE DEF q
  <2>3. CASE p.sent + 1 >= MAX_RESEND_COUNT
    <3>1. PICK e \in Waiting : e = Entry(p)
      BY DEF Waiting
    <3>2. Waiting' = Waiting \ {e}
      BY <2>2, <2>3, <1>fits, <3>1 DEF Waiting, Entry
    <3>3. Box!Leave(e)
      BY <2>2, <3>2 DEF Box!Leave, Waiting, Entry
    <3> QED
      BY <1>one, <3>3
  <2>4. CASE ~(p.sent + 1 >= MAX_RESEND_COUNT)
    <3>1. PICK e \in Waiting : e = Entry(p)
      BY DEF Waiting
    <3>2. e.sent = p.sent /\ e.sent + 1 < MAX_RESEND_COUNT
      BY <2>1, <2>4, <3>1, LenAssumption DEF Entry
    <3>3. [e EXCEPT !.sent = @ + 1] = Entry(q)
      BY <2>1, <3>1 DEF Entry
    <3>4. Waiting' = {Entry(r) : r \in out \ {p}} \cup {Entry(q)}
      BY <2>2, <2>4 DEF Waiting, Entry
    <3>5. Waiting' = (Waiting \ {e}) \cup {[e EXCEPT !.sent = @ + 1]}
      BY <1>fits, <3>1, <3>3, <3>4
    <3>6. Box!Send(e)
      BY <2>2, <3>2, <3>5 DEF Box!Send, Waiting, Entry
    <3> QED
      BY <1>one, <3>6
  <2> QED
    BY <2>3, <2>4
<1>4. ASSUME NEW s, DeleteRequst(s), sn' = sn PROVE Box!Next \/ UNCHANGED <<sn, Waiting>>
  <2>1. CASE out' = out
    BY <1>4, <2>1 DEF Waiting, Entry
  <2>2. ASSUME NEW p \in out, p.sn = s, out' # out PROVE Box!Next
    <3>1. out' = {q \in out : q.sn # s}
      BY <1>4, <2>2 DEF DeleteRequst
    <3>2. out' = out \ {p}
      BY <2>2, <3>1 DEF Numbered
    <3> QED
      BY <1>4, <1>leave, <3>2
  <2>3. CASE \A p \in out : p.sn # s
    BY <1>4, <2>1, <2>3 DEF DeleteRequst
  <2> QED
    BY <2>1, <2>2, <2>3
<1>5. ASSUME UNCHANGED <<out, sn>> PROVE UNCHANGED <<sn, Waiting>>
  BY <1>5 DEF Waiting, Entry
<1> QED
  BY <1>1, <1>2, <1>3, <1>4, <1>5, <1>leave, OutShape DEF GivenUp

(* The server link takes no more of the list of packets than that list     *)
(* promises, for any number of connections, requests and messages: what it *)
(* shows to the server's connection is the list that SendList implements   *)
(* (messageDispose.c, socketSendList.c).                                   *)
THEOREM PacketsAsPromised == Spec => RequestsKept
<1>1. Init => Numbered /\ Box!Init
  BY DEF Init, Numbered, Box!Init
<1>2. LinkIInv /\ Numbered /\ [Next]_vars => Numbered'
  BY NumberedKept, Types DEF LinkIInv
<1>3. LinkIInv /\ Numbered /\ [Next]_vars =>
        [Box!Next]_<<sn, {[id |-> p.sn, login |-> p.cmd = "connect", sent |-> p.sent] :
                            p \in out}>>
  BY Promised, Types DEF LinkIInv, Waiting, Entry
<1> QED
  BY <1>1, <1>2, <1>3, LinkInit, LinkStep, PTL DEF Spec, RequestsKept, Box!Spec
=============================================================================
