------------------------------ MODULE ServerLink ------------------------------
(***************************************************************************)
(* The connection to the server: the TCP thread (serverSocketTcp.c), the   *)
(* handlers of the message thread that log in and keep the connection      *)
(* alive (messageDispose.c), the two heartbeat timers (deviceMisc.c) and   *)
(* the Wi-Fi event callback (itoCommon.c), which share the flags of        *)
(* connInfo, the socket and the server's AES key without a lock.           *)
(*                                                                         *)
(* The connections are numbered; a connection's number also stands for the *)
(* key its server hands out, and 0 for no connection and for the default   *)
(* key.  The list of messages is the lossless queue that MessageList is    *)
(* while nothing races; of the list of packets (SendList) only the TCP     *)
(* packets matter, and not their order.                                    *)
(***************************************************************************)
EXTENDS Integers, Sequences, FiniteSets

CONSTANTS
  AES_KEY_LEN,
  MAX_RESEND_COUNT,
  Answers,      \* does the server answer a request it understands?
  MaxConns,     \* bound: connections ever made
  MaxSn,        \* bound: requests ever made before the heartbeat stops
  MaxMsgs       \* bound: messages waiting before the heartbeat stops

ASSUME LenAssumption == AES_KEY_LEN \in Nat \ {0} /\ MAX_RESEND_COUNT \in Nat \ {0}
ASSUME AnswerAssumption == Answers \in (SUBSET BOOLEAN) \ {{}}
ASSUME BoundAssumption == MaxConns \in Nat /\ MaxSn \in Nat /\ MaxMsgs \in Nat

VARIABLES
  dhcp, balance, addr, conn,   \* connInfo: dhcpOK, balanceOK, serverAdd, serverConn
  sock,       \* the connection of g_tcp_socket_fd, 0 when it has none
  peer,       \* the server at its other end
  live,       \* the server has not closed it
  rx,         \* the answers it has sent that were not received yet
  conns,      \* how many connections were made
  tcp,        \* where deviceServerTcpThread is in its loop
  keyValid,   \* keyData.serverAesKeyValid
  serverKey,  \* keyData.serverKey
  msgs,       \* the list of messages
  stored,     \* the message thread is between the stores of setServerAesKey
  out,        \* the TCP packets of the list of packets
  sn,         \* globalData.socketSn
  heartBeat,  \* the heartbeat timer runs
  timeout,    \* the heartbeat timeout timer runs
  silent,     \* history: the server has understood a packet on the connection
              \* and not answered it
  stale       \* history: a key was taken from a connection that was gone

flags  == <<dhcp, balance, addr, conn>>
socket == <<sock, peer, live, conns>>
key    == <<keyValid, serverKey>>
timers == <<heartBeat, timeout>>
vars   == <<flags, socket, rx, tcp, key, msgs, stored, out, sn, timers, silent, stale>>

Cmds  == {"addr", "connect", "beat"}   \* GET_SERVER_ADDR, REQUST_CONNECT, HEART_BEAT
Keys  == 0 .. MaxConns
Msg   == [cmd: Cmds, local: BOOLEAN, sn: Nat, key: Keys, from: Keys]
Packet == [cmd: Cmds, sn: Nat, key: Keys, sent: 0 .. MAX_RESEND_COUNT - 1, since: Keys]

-----------------------------------------------------------------------------
\* insertLocalMsgToList(MSG_LOCAL_EVENT, _, _, cmd)
Local(cmd) == [cmd |-> cmd, local |-> TRUE, sn |-> 0, key |-> 0, from |-> 0]

IsLocal(m, cmd) == m.local /\ m.cmd = cmd
IsReply(m, cmd) == ~m.local /\ m.cmd = cmd

\* getSocketAesKeyType(MSG_FROM_TCP, 1) and getAesKeyData
CurrentKey == IF keyValid THEN serverKey ELSE 0

\* msgSendSocketData: the packet is encrypted when it is queued.
Request(cmd) ==
  [cmd |-> cmd, sn |-> sn + 1, key |-> CurrentKey, sent |-> 0, since |-> conns]

\* deleteRequstSendNode deletes the first packet with this number, which may be an
\* answer that waits to be sent (SendList): then the request stays.
DeleteRequst(s) == out' \in {out, {p \in out : p.sn # s}}

\* Mutant of Kept: the walk stops at a node that is not to be deleted.
KeptAll == out

\* What lum_delAllTcpWhileReconnServer leaves of the TCP packets.
Kept == {}

\* What a server understands, and the answer to it.  The key is in the answer
\* to a request to log in, which is encrypted with the default key.
Understood(p) ==
  CASE p.cmd = "addr"    -> peer = "balance" /\ p.key = 0
    [] p.cmd = "connect" -> peer = "server" /\ p.key = 0
    [] p.cmd = "beat"    -> peer = "server" /\ p.key = sock

Answer(p) == [cmd |-> p.cmd, local |-> FALSE, sn |-> p.sn, key |-> p.key, from |-> sock]

\* tcpSocketRecvData when recv returns n, which is not a whole header.
RecvCount(n) == n + AES_KEY_LEN

Init ==
  /\ dhcp = FALSE /\ balance = FALSE /\ addr = FALSE /\ conn = FALSE
  /\ sock = 0 /\ peer = "balance" /\ live = FALSE /\ rx = <<>> /\ conns = 0
  /\ tcp = "check"
  /\ keyValid = FALSE /\ serverKey = 0
  /\ msgs = <<>> /\ stored = FALSE
  /\ out = {} /\ sn = 0
  /\ heartBeat = FALSE /\ timeout = FALSE
  /\ silent = FALSE /\ stale = FALSE

-----------------------------------------------------------------------------
(* deviceServerTcpThread                                                    *)

\* tcpSocketInit closes the socket; connect comes next, or the key is cleared.
TcpSocketInit(step) ==
  /\ sock' = 0 /\ rx' = <<>> /\ silent' = FALSE
  /\ live' = FALSE
  /\ tcp' = step
  /\ UNCHANGED <<flags, peer, conns, key, msgs, stored, out, sn, timers, stale>>

\* checkTcpConnStatus; without an address from the router it sleeps and is
\* called again.
CheckTcpConnStatus ==
  /\ tcp = "check"
  /\ \/ /\ conn \/ (dhcp /\ balance /\ ~addr)
        /\ tcp' = "select"
        /\ UNCHANGED <<flags, socket, rx, key, msgs, stored, out, sn, timers, silent, stale>>
     \/ ~conn /\ dhcp /\ ~balance /\ TcpSocketInit("balance")
     \/ ~conn /\ dhcp /\ balance /\ addr /\ TcpSocketInit("clear")

\* Mutant of ClearValid: tcpSocketInit(FALSE).
ClearNothing ==
  /\ tcp = "clear"
  /\ keyValid' = keyValid
  /\ stale' = FALSE
  /\ tcp' = "wipe"
  /\ UNCHANGED <<flags, socket, rx, serverKey, msgs, stored, out, sn, timers, silent>>

\* The two stores of clearServerAesKey(FALSE).
ClearValid ==
  /\ tcp = "clear"
  /\ keyValid' = FALSE
  /\ stale' = FALSE
  /\ tcp' = "wipe"
  /\ UNCHANGED <<flags, socket, rx, serverKey, msgs, stored, out, sn, timers, silent>>

WipeKey ==
  /\ tcp = "wipe"
  /\ serverKey' = 0
  /\ tcp' = "server"
  /\ UNCHANGED <<flags, socket, rx, keyValid, msgs, stored, out, sn, timers, silent, stale>>

\* connect succeeds: the thread may be switched away before it says so.
Connected ==
  /\ tcp \in {"balance", "server"} /\ conns < MaxConns
  /\ conns' = conns + 1 /\ sock' = conns + 1 /\ peer' = tcp /\ live' = TRUE
  /\ tcp' = "up"
  /\ UNCHANGED <<flags, rx, key, msgs, stored, out, sn, timers, silent, stale>>

\* The name is not resolved, or connect fails.
ConnectFailed ==
  /\ tcp \in {"balance", "server"}
  /\ tcp' = "check"
  /\ UNCHANGED <<flags, socket, rx, key, msgs, stored, out, sn, timers, silent, stale>>

SetConnected ==
  /\ tcp = "up"
  /\ IF peer = "balance" THEN balance' = TRUE /\ conn' = conn
                         ELSE conn' = TRUE /\ balance' = balance
  /\ tcp' = "ask"
  /\ UNCHANGED <<dhcp, addr, socket, rx, key, msgs, stored, out, sn, timers, silent, stale>>

\* Mutant of AskServer: the request to log in is made to the balance server only.
AskBalance ==
  /\ tcp = "ask"
  /\ msgs' = IF peer = "balance" THEN Append(msgs, Local("addr")) ELSE msgs
  /\ tcp' = "select"
  /\ UNCHANGED <<flags, socket, rx, key, stored, out, sn, timers, silent, stale>>

AskServer ==
  /\ tcp = "ask"
  /\ msgs' = Append(msgs, Local(IF peer = "balance" THEN "addr" ELSE "connect"))
  /\ tcp' = "select"
  /\ UNCHANGED <<flags, socket, rx, key, stored, out, sn, timers, silent, stale>>

\* An answer is received; insertSocketMsgToList drops what it cannot decrypt.
RecvTcpData ==
  /\ tcp = "select" /\ rx # <<>>
  /\ rx' = Tail(rx)
  /\ msgs' = IF Head(rx).key = CurrentKey THEN Append(msgs, Head(rx)) ELSE msgs
  /\ tcp' = "check"
  /\ UNCHANGED <<flags, socket, key, stored, out, sn, timers, silent, stale>>

\* recv returns 0 on a connection that the server has closed, and -1 on one
\* that is broken.
RecvClosed ==
  /\ tcp = "select" /\ rx = <<>> /\ ~live
  /\ \E n \in {-1, 0} :
       LET up == RecvCount(n) > 0
       IN  balance' = (up /\ balance) /\ conn' = (up /\ conn)
  /\ tcp' = "check"
  /\ UNCHANGED <<dhcp, addr, socket, rx, key, msgs, stored, out, sn, timers, silent, stale>>

\* select returns because its time is over.
SelectTimeout ==
  /\ tcp = "select" /\ rx = <<>> /\ live
  /\ tcp' = "check"
  /\ UNCHANGED <<flags, socket, rx, key, msgs, stored, out, sn, timers, silent, stale>>

TcpThread ==
  \/ CheckTcpConnStatus \/ ClearValid \/ WipeKey \/ Connected \/ ConnectFailed
  \/ SetConnected \/ AskServer \/ RecvTcpData \/ RecvClosed \/ SelectTimeout

-----------------------------------------------------------------------------
(* deviceMessageThread: the handlers, and sendSocketData between them.      *)

\* The handler of the first message returns.
Handled == msgs # <<>> /\ msgs' = Tail(msgs)

\* localGetServerAddr and requstTcpHeartBeat
QueueRequest ==
  /\ Handled /\ \E c \in {"addr", "beat"} : IsLocal(Head(msgs), c)
  /\ sn' = sn + 1
  /\ out' = out \cup {Request(Head(msgs).cmd)}
  /\ UNCHANGED <<flags, socket, rx, tcp, key, stored, timers, silent, stale>>

LocalRequstConnectServer ==
  /\ Handled /\ IsLocal(Head(msgs), "connect")
  /\ sn' = sn + 1
  /\ out' = Kept \cup {Request("connect")}
  /\ UNCHANGED <<flags, socket, rx, tcp, key, stored, timers, silent, stale>>

RebackGetServerAddr ==
  /\ Handled /\ IsReply(Head(msgs), "addr")
  /\ addr' = TRUE
  /\ DeleteRequst(Head(msgs).sn)
  /\ UNCHANGED <<dhcp, balance, conn, socket, rx, tcp, key, stored, sn, timers, silent, stale>>

RebackTcpHeartBeat ==
  /\ Handled /\ IsReply(Head(msgs), "beat")
  /\ heartBeat' = TRUE /\ timeout' = TRUE
  /\ DeleteRequst(Head(msgs).sn)
  /\ UNCHANGED <<flags, socket, rx, tcp, key, stored, sn, silent, stale>>

\* rebackRequstConnectServer: the first store of setServerAesKey ...
StoreKey ==
  /\ ~stored /\ msgs # <<>> /\ IsReply(Head(msgs), "connect")
  /\ serverKey' = Head(msgs).from
  /\ stored' = TRUE
  /\ UNCHANGED <<flags, socket, rx, tcp, keyValid, msgs, out, sn, timers, silent, stale>>

\* ... the second one, and lum_AfterConnectServer.
AfterConnectServer ==
  /\ stored /\ Handled
  /\ keyValid' = TRUE /\ stored' = FALSE
  /\ DeleteRequst(Head(msgs).sn)
  /\ heartBeat' = TRUE /\ timeout' = TRUE
  /\ stale' = (stale \/ Head(msgs).from # sock)
  /\ UNCHANGED <<flags, socket, rx, tcp, serverKey, sn, silent>>

\* sendSocketData hands packet p to the socket.  What send returns is not
\* looked at: a packet counts as sent though nobody may have received it.
Transmit(p, answer) ==
  /\ ~stored /\ dhcp
  /\ out' = IF p.sent + 1 >= MAX_RESEND_COUNT THEN out \ {p}
            ELSE (out \ {p}) \cup {[p EXCEPT !.sent = @ + 1]}
  /\ rx' = IF live /\ Understood(p) /\ answer THEN Append(rx, Answer(p)) ELSE rx
  /\ silent' = (silent \/ (live /\ Understood(p) /\ ~answer))
  /\ UNCHANGED <<flags, socket, tcp, key, msgs, stored, sn, timers, stale>>

\* There is no socket, and sendTcpData has failed MAX_FAILD_COUNT times.
GiveUp(p) ==
  /\ ~stored /\ dhcp /\ sock = 0
  /\ out' = out \ {p}
  /\ UNCHANGED <<flags, socket, rx, tcp, key, msgs, stored, sn, timers, silent, stale>>

Handle ==
  \/ QueueRequest \/ LocalRequstConnectServer \/ RebackGetServerAddr
  \/ RebackTcpHeartBeat \/ StoreKey \/ AfterConnectServer

-----------------------------------------------------------------------------
(* The timer task, the event callback and the server.                       *)

\* heartBeatTimerCallback
HeartBeat ==
  /\ heartBeat /\ Len(msgs) < MaxMsgs /\ sn < MaxSn
  /\ heartBeat' = keyValid
  /\ msgs' = IF keyValid THEN Append(msgs, Local("beat")) ELSE msgs
  /\ UNCHANGED <<flags, socket, rx, tcp, key, stored, out, sn, timeout, silent, stale>>

\* Mutant of HeartBeatTimeout: only the balance server is connected again.
TimeoutBalance ==
  /\ timeout /\ timeout' = FALSE
  /\ balance' = FALSE /\ conn' = conn
  /\ UNCHANGED <<dhcp, addr, socket, rx, tcp, key, msgs, stored, out, sn, heartBeat,
                 silent, stale>>

\* heartBeatTimeoutTimerCallback
HeartBeatTimeout ==
  /\ timeout /\ timeout' = FALSE
  /\ balance' = FALSE /\ conn' = FALSE
  /\ UNCHANGED <<dhcp, addr, socket, rx, tcp, key, msgs, stored, out, sn, heartBeat,
                 silent, stale>>

\* setFlagAfterDhcp
AfterDhcp ==
  /\ ~dhcp /\ dhcp' = TRUE
  /\ UNCHANGED <<balance, addr, conn, socket, rx, tcp, key, msgs, stored, out, sn, timers,
                 silent, stale>>

\* setFlagAfterApDisconnect
AfterApDisconnect ==
  /\ dhcp /\ dhcp' = FALSE /\ conn' = FALSE
  /\ UNCHANGED <<balance, addr, socket, rx, tcp, key, msgs, stored, out, sn, timers,
                 silent, stale>>

\* The server closes the connection, or it breaks.
Close ==
  /\ live /\ live' = FALSE
  /\ UNCHANGED <<flags, sock, peer, conns, rx, tcp, key, msgs, stored, out, sn, timers,
                 silent, stale>>

Next ==
  \/ TcpThread
  \/ Handle
  \/ \E p \in out, answer \in Answers : Transmit(p, answer)
  \/ \E p \in out : GiveUp(p)
  \/ HeartBeat \/ HeartBeatTimeout
  \/ AfterDhcp \/ AfterApDisconnect
  \/ Close

Spec == Init /\ [][Next]_vars

\* The threads and the timers run, the network lets a connection be made some
\* day, and each kind of packet has its turn again and again (SendList!Drains).
\* The router, the server's patience and the heartbeat owe nothing.
FairSpec ==
  /\ Spec
  /\ WF_vars(TcpThread) /\ WF_vars(Handle) /\ WF_vars(HeartBeatTimeout)
  /\ SF_vars(Connected)
  /\ \A c \in Cmds :
       SF_vars(\E p \in out, answer \in Answers : p.cmd = c /\ Transmit(p, answer))

-----------------------------------------------------------------------------
TypeOK ==
  /\ {dhcp, balance, addr, conn, live, keyValid, stored, heartBeat, timeout, silent,
      stale} \subseteq BOOLEAN
  /\ conns \in Keys /\ sock \in {0, conns} /\ (live => sock # 0)
  /\ peer \in {"balance", "server"}
  /\ rx \in Seq(Msg) /\ msgs \in Seq(Msg)
  /\ tcp \in {"check", "clear", "wipe", "balance", "server", "up", "ask", "select"}
  /\ tcp \in {"up", "ask", "select"} => sock # 0
  /\ serverKey \in Keys
  /\ out \subseteq Packet /\ sn \in Nat

LoginAsked == \E i \in DOMAIN msgs : IsLocal(msgs[i], "connect")

(* serverConn is set for a connection to the server, and not to the        *)
(* balance server, however the timer, the router and the TCP thread set    *)
(* and clear the flags.  Once the request to log in has been made on it,   *)
(* every packet that is left was made for that connection                  *)
(* (lum_delAllTcpWhileReconnServer).                                       *)
NothingFromBefore ==
  conn => /\ sock # 0 /\ peer = "server"
          /\ tcp # "ask" /\ ~LoginAsked => \A p \in out : p.since = sock

(* The key belongs to the connection that is up, unless the answer to a    *)
(* request to log in was handled after its connection was gone             *)
(* (clearServerAesKey, setServerAesKey).                                   *)
KeyOfConnection == conn /\ keyValid /\ ~stale => serverKey = sock

(* A device that has logged in is watched by the heartbeat timeout, which  *)
(* is all that can bring it back from a dead connection                    *)
(* (lum_checkTcpHeartTimeout): the one-shot timer never runs out before a  *)
(* log-in without the connection being given up.                           *)
Watched == conn /\ keyValid /\ ~stale => timeout

(* The types, and what holds of a device that logs in and has logged in.   *)
LoginInv == TypeOK /\ NothingFromBefore /\ KeyOfConnection /\ Watched

Box == INSTANCE Outbox
         WITH Limit   <- MAX_RESEND_COUNT, last <- sn,
              waiting <- {[id |-> p.sn, login |-> p.cmd = "connect", sent |-> p.sent] :
                            p \in out}

(* The server link takes no more of the list of packets than that list     *)
(* promises (SendList!RequestsKept): its handlers and sendSocketData queue,*)
(* send and drop requests as the list does.                                *)
RequestsKept == Box!Spec

(* A device that has logged in and whose connection dies gives it up.      *)
GivesUp == conn /\ keyValid /\ ~live ~> ~conn \/ stale

(* With an address from the router, and a server that answers what it      *)
(* understands, the device logs in, unless the connection dies first.      *)
LoggedIn == conn /\ keyValid /\ serverKey = sock
Broken   == sock # 0 /\ ~live
LogsIn   == dhcp ~> LoggedIn \/ ~dhcp \/ Broken \/ silent \/ stale \/ conns = MaxConns

(* The branch of recvTcpData for "server socket closed"                    *)
(* (serverSocketTcp.c:233): the connection is given up.                    *)
CloseNoticed == [][RecvClosed => ~conn' /\ ~balance']_vars
=============================================================================
