------------------------------ MODULE Reception ------------------------------
(* How packets come in and are answered: the byte stream of one connection *)
(* to the server (serverSocketTcp.c), the datagrams of the app             *)
(* (localSocketUdp.c), the checks on the way to the list of messages       *)
(* (asyncMessage.c), and the message thread's answers.                     *)
(*                                                                         *)
(* The socket does not block, and TCP cuts and joins what the server sends *)
(* as it likes.  Positions in the stream are numbers of bytes.  What stands*)
(* at a position where no packet starts is arbitrary, and is never read    *)
(* twice; that it passes for a packet of this device is left out.          *)
(* ServerLink has what happens from one connection to the next.            *)
EXTENDS Packet, Sequences

CONSTANTS
  Requests,     \* what the server asks: [cmd, index, body, encrypted]
  Datagrams,    \* what comes by UDP, with to and sameType as well
  Contents,     \* what the tables may hold
  Garbage,      \* what may stand for dataLen where no packet starts
  Cuts,         \* bound: after which bytes TCP may cut a packet
  MaxPackets,   \* bound: packets of the stream
  MaxMsgs       \* bound: messages waiting when a datagram comes

\* A heartbeat from the server is an answer, which ServerLink has.
ASSUME RequestAssumption ==
  /\ Requests \subseteq [cmd : Cmds \ {"beat"}, index : Nat, body : 1 .. 232,
                         encrypted : BOOLEAN]
  /\ Datagrams \subseteq [cmd : Cmds, index : Nat, body : 1 .. 232, encrypted : BOOLEAN,
                          to : {"own", "all", "factory", "other"}, sameType : BOOLEAN]
ASSUME ContentAssumption ==
  Contents \subseteq Tables /\ Garbage \subseteq 0 .. 255 /\ Cuts \subseteq Nat
ASSUME BoundAssumption   == MaxPackets \in Nat /\ MaxMsgs \in Nat

VARIABLES
  tables,    \* the configuration
  sent,      \* the packets of the stream, each with its position
  arrived,   \* how much of the stream has arrived
  at,        \* how much of it was read
  step,      \* where deviceServerTcpThread is
  header,    \* the header in g_tcp_recv_buf; of: whose it is, 0 if nobody's
  count,     \* what tcpSocketRecvData returns
  keyValid,  \* keyData.serverAesKeyValid
  list,      \* the list of messages: [cmd, index, of]; of is 0 for a datagram
  answer,    \* the last answer, and to what
  taken,     \* history: the packets of the stream that reached the list, in the
             \* order in which they did, each as often as it did
  torn,      \* history: a packet was read before all of it had arrived
  excused    \* history: the packets that such a reading may have lost, and
             \* those read under the wrong key

stream   == <<sent, arrived, at>>
buffer   == <<step, header, count>>
messages == <<keyValid, list, answer>>
history  == <<taken, torn, excused>>
vars     == <<tables, stream, buffer, messages, history>>

End(k) == sent[k].start + sent[k].wire.bytes
Total  == IF sent = <<>> THEN 0 ELSE End(Len(sent))
Listed == {taken[i] : i \in DOMAIN taken}
Latest == IF taken = <<>> THEN 0 ELSE taken[Len(taken)]
Unread == {k \in DOMAIN sent : End(k) > at}
Quiet  == at = Total /\ step # "body"

\* getTcpRecvBuf(TRUE)
Zeros == [of |-> 0, pv |-> FALSE, dataLen |-> 0]

Lesser(a, b) == IF a < b THEN a ELSE b

Init ==
  /\ tables \in Contents
  /\ sent = <<>> /\ arrived = 0 /\ at = 0
  /\ step = "select" /\ header = Zeros /\ count = 0
  /\ keyValid = FALSE /\ list = <<>>
  /\ answer = [cmd |-> "set", wire |-> CreateSendSocketData(ResultBody, "default")]
  /\ taken = <<>> /\ torn = FALSE /\ excused = {}

-----------------------------------------------------------------------------
(* The server and the network.                                              *)

Append1(r, key) ==
  /\ sent' = Append(sent, [cmd |-> r.cmd, index |-> r.index, encrypted |-> r.encrypted,
                           start |-> Total, wire |-> CreateSendSocketData(r.body, key)])
  /\ torn' = (torn /\ ~Quiet)
  /\ excused' = IF torn /\ ~Quiet THEN excused \cup {Len(sent) + 1} ELSE excused
  /\ UNCHANGED <<tables, arrived, at, buffer, messages, taken>>

\* The server's first packet answers the log-in and has its key; what follows
\* is made with that key.
ServerSends ==
  /\ Len(sent) < MaxPackets
  /\ \E r \in Requests :
       IF sent = <<>>
       THEN Append1([r EXCEPT !.cmd = "connect", !.encrypted = TRUE], "default")
       ELSE Append1(r, IF r.encrypted THEN "server" ELSE "open")

Arrives ==
  /\ \E k \in DOMAIN sent :
       \E n \in {End(k)} \cup {sent[k].start + c : c \in Cuts} :
         n > arrived /\ n <= End(k) /\ arrived' = n
  /\ UNCHANGED <<tables, sent, at, buffer, messages, history>>

-----------------------------------------------------------------------------
(* deviceServerTcpThread                                                    *)

\* What recv finds in the first n bytes at this position.
Headers(n) ==
  LET here == {k \in DOMAIN sent : sent[k].start = at}
  IN  IF here # {}
      THEN {[of |-> k, pv |-> TRUE,
             dataLen |-> IF n = OPEN_DATA_LEN THEN sent[k].wire.dataLen ELSE 0] : k \in here}
      ELSE [of : {0}, pv : BOOLEAN, dataLen : IF n = OPEN_DATA_LEN THEN Garbage ELSE {0}]

\* The packets that may be lost because the packet being read has not arrived.
Tear(now) ==
  /\ torn' = (torn \/ now)
  /\ excused' = IF now THEN excused \cup Unread ELSE excused
  /\ UNCHANGED <<tables, sent, arrived, messages, taken>>

\* Mutant of ReadHeader: the version that is compiled out (serverSocketTcp.c:198), which
\* reads whatever has arrived.
ReadAll ==
  LET n == Lesser(266, arrived - at)
  IN  /\ step = "select" /\ arrived > at
      /\ header' \in Headers(OPEN_DATA_LEN)
      /\ at' = at + n /\ count' = n
      /\ step' = "insert"
      /\ Tear(\E k \in DOMAIN sent : sent[k].start = at /\ End(k) > arrived)

\* select finds something to read, and tcpSocketRecvData reads a header.
ReadHeader ==
  LET n == Lesser(OPEN_DATA_LEN, arrived - at)
  IN  /\ step = "select" /\ arrived > at
      /\ header' \in Headers(n)
      /\ at' = at + n
      /\ IF header'.pv /\ n = OPEN_DATA_LEN
         THEN step' = "body" /\ count' = 0
         ELSE step' = "insert" /\ count' = n + AES_KEY_LEN
      /\ Tear(header'.of # 0 /\ n < OPEN_DATA_LEN)

\* The rest, as long as the header says; recv returns -1 when there is nothing.
ReadBody ==
  LET n == Lesser(header.dataLen, arrived - at)
  IN  /\ step = "body"
      /\ at' = at + n
      /\ count' = OPEN_DATA_LEN + (IF n = 0 THEN -1 ELSE n)
      /\ step' = "insert" /\ header' = header
      /\ Tear(header.of # 0 /\ n < header.dataLen)

\* A packet made with this key is read by getRecvSocketAesKeyType's.
KeyFits(origin, encrypted, key) ==
  AesKeyData(key) = AesKeyData(SocketAesKeyType(origin, encrypted, keyValid))

\* Mutant of Insert: a message that was listed as it came is listed again when it
\* has passed the checks.
InsertTwice ==
  LET k     == header.of
      whole == CheckSocketBeforeAES(count, header.pv, header.dataLen)
      fits  == KeyFits("tcp", sent[k].encrypted, sent[k].wire.key)
  IN  /\ step = "insert" /\ step' = "select" /\ header' = Zeros /\ count' = 0
      /\ IF k # 0 /\ whole /\ fits
         THEN /\ list' = list \o [i \in 1 .. 2 |-> [cmd |-> sent[k].cmd,
                                           index |-> sent[k].index, of |-> k]]
              /\ taken' = taken \o <<k, k>>
         ELSE UNCHANGED <<list, taken>>
      /\ excused' = IF k # 0 /\ whole /\ ~fits /\ sent[k].wire.key = "server"
                    THEN excused \cup {k} ELSE excused
      /\ UNCHANGED <<tables, stream, keyValid, answer, torn>>

\* insertSocketMsgToList; a wrong key leaves nothing that passes the checks.
Insert ==
  LET k     == header.of
      whole == CheckSocketBeforeAES(count, header.pv, header.dataLen)
      fits  == KeyFits("tcp", sent[k].encrypted, sent[k].wire.key)
  IN  /\ step = "insert" /\ step' = "select" /\ header' = Zeros /\ count' = 0
      /\ IF k # 0 /\ whole /\ fits
         THEN /\ list' = Append(list, [cmd |-> sent[k].cmd, index |-> sent[k].index,
                                       of |-> k])
              /\ taken' = Append(taken, k)
         ELSE UNCHANGED <<list, taken>>
      /\ excused' = IF k # 0 /\ whole /\ ~fits /\ sent[k].wire.key = "server"
                    THEN excused \cup {k} ELSE excused
      /\ UNCHANGED <<tables, stream, keyValid, answer, torn>>

-----------------------------------------------------------------------------
(* deviceLocalUdpThread and deviceMessageThread                             *)

\* A datagram comes whole, while the device shows itself or not.
RecvUdpData(d, hidden) ==
  LET p == CreateSendSocketData(d.body, IF d.encrypted THEN "default" ELSE "open")
  IN  /\ Len(list) < MaxMsgs
      /\ CheckSocketBeforeAES(p.bytes, TRUE, p.dataLen)
      /\ KeyFits("udp", d.encrypted, p.key)
      /\ CheckSocketAfterAES(d.cmd, d.to, d.sameType, hidden)
      /\ list' = Append(list, [cmd |-> d.cmd, index |-> d.index, of |-> 0])
      /\ UNCHANGED <<tables, stream, buffer, keyValid, answer, history>>

\* The handler of the first message answers it, encrypted with the key that
\* is valid now (msgSendSocketData); the answer to a log-in brings that key.
Handle ==
  LET m == Head(list)
  IN  /\ list # <<>> /\ list' = Tail(list)
      /\ IF m.cmd = "connect"
         THEN keyValid' = TRUE /\ UNCHANGED answer
         ELSE /\ answer' =
                   [cmd  |-> m.cmd,
                    wire |-> CreateSendSocketData(
                               AnswerBody(m.cmd, m.index, tables),
                               SocketAesKeyType(IF m.of = 0 THEN "udp" ELSE "tcp",
                                                TRUE, keyValid))]
              /\ UNCHANGED keyValid
      /\ UNCHANGED <<tables, stream, buffer, history>>

Next ==
  \/ ServerSends \/ Arrives
  \/ ReadHeader \/ ReadBody \/ Insert
  \/ \E d \in Datagrams, hidden \in BOOLEAN : RecvUdpData(d, hidden)
  \/ Handle

Spec == Init /\ [][Next]_vars

-----------------------------------------------------------------------------
Wire == [body : Nat, key : Keys, bytes : Nat, dataLen : 0 .. 255,
         last : 1 .. AES_BLOCK_SIZE]
Sent == [cmd : Cmds \cup {"connect"}, index : Nat, encrypted : BOOLEAN,
         start : Nat, wire : Wire]

TypeOK ==
  /\ tables \in Tables
  /\ sent \in Seq(Sent) /\ arrived \in Nat /\ at \in Nat
  /\ step \in {"select", "body", "insert"}
  /\ header \in [of : 0 .. Len(sent), pv : BOOLEAN, dataLen : 0 .. 255]
  /\ count \in Nat
  /\ keyValid \in BOOLEAN
  /\ list \in Seq([cmd : Cmds \cup {"connect"}, index : Nat, of : 0 .. Len(sent)])
  /\ answer \in [cmd : Cmds, wire : Wire]
  /\ torn \in BOOLEAN /\ taken \in Seq(DOMAIN sent) /\ excused \subseteq DOMAIN sent

(* Whoever asked can read the answer: it fits its array and the byte of    *)
(* the header that holds its length, with up to 32 alarms in one packet    *)
(* (createSendSocketData, rebackGetAlarmData).                             *)
Answered == AnswerFits(answer.cmd, answer.wire)

(* However TCP joins packets, each one that was read reaches the list of   *)
(* messages; only when one is cut are packets lost, and only those under   *)
(* way until the stream falls quiet, where reading starts afresh           *)
(* (tcpSocketRecvData).  A packet made with the server's key is also lost  *)
(* when it is read before the message thread has stored that key.          *)
LostOnlyTorn ==
  step = "select" =>
    \A k \in DOMAIN sent : End(k) <= at => k \in Listed \cup excused

(* Types, answers that can be read, and no loss without a reason.          *)
ReceptionInv == TypeOK /\ Answered /\ LostOnlyTorn

\* The stream as a queue: the packets that were sent, and the entries of the list
\* they became.
Stream == INSTANCE MessageQueue
            WITH put <- Len(sent), got <- Latest, runs <- Len(taken)

(* However TCP cuts and joins what the server sends, and whatever is read  *)
(* in between, packets reach the list of messages in the order in which    *)
(* they were sent, and none of them twice: what is listed is always a later*)
(* packet than the last one was.  As long as no packet was cut and none    *)
(* came before its key, it is the very next (tcpSocketRecvData,            *)
(* insertSocketMsgToList).                                                 *)
ReceivedInOrder ==
  /\ Stream!Spec
  /\ [][excused' = {} => Stream!ReliableNext \/ UNCHANGED <<Len(sent), taken>>]_vars
=============================================================================
