------------------------------ MODULE SendList ------------------------------
(***************************************************************************)
(* The list of packets waiting to be sent (socketSendList.c) and the       *)
(* message-thread handlers that fill and empty it (messageDispose.c).      *)
(*                                                                         *)
(* Every operation runs in the message thread, between two iterations of   *)
(* its loop, so each of them is one action.  A node is identified by the   *)
(* order in which it was appended: nodes are only ever appended at the     *)
(* tail, so the walk from firstNodePtr visits the identifiers in           *)
(* increasing order and the linked list is a function on a set of them.    *)
(*                                                                         *)
(* nextSendTime is kept relative to the clock that sendSocketData reads:   *)
(* `wait' is nextSendTime - lum_getSystemTime(), and `fresh' stands for    *)
(* nextSendTime = 0.  That clock is the wall clock, which the network and  *)
(* the app move forwards and backwards (lum_syncNetworkTime).              *)
(***************************************************************************)
EXTENDS Integers, FiniteSets

CONSTANTS
  Cmds,                 \* commands the device itself sends as requests
  NoWaitCmds,           \* those needWaitSocketReback answers FALSE for
  Connect,              \* MSG_CMD_REQUST_CONNECT, one of Cmds
  Report,               \* MSG_CMD_REPORT_GPIO_CHANGE, one of NoWaitCmds
  Answer,               \* the command of a packet that answers a request
  MAX_RESEND_COUNT,
  MAX_FAILD_COUNT,
  MAX_RESEND_INTERVAL,  \* seconds
  INVALID_SN_NUM,
  MaxNodes,             \* bound: nodes ever queued
  MaxSetback,           \* bound: seconds the clock is ever moved back, in all
  MaxJump               \* bound: seconds the clock is moved forward at once

ASSUME CmdAssumption ==
  /\ Connect \in Cmds \ NoWaitCmds
  /\ Report \in Cmds \cap NoWaitCmds
  /\ Answer \notin Cmds

ASSUME LimitAssumption ==
  /\ MAX_RESEND_COUNT \in Nat \ {0}
  /\ MAX_FAILD_COUNT \in Nat \ {0}
  /\ MAX_RESEND_INTERVAL \in Nat
  /\ INVALID_SN_NUM \in Nat \ {0}

ASSUME BoundAssumption == MaxNodes \in Nat /\ MaxSetback \in Nat /\ MaxJump \in Nat

VARIABLES
  list,     \* g_sendListHeader: the queued nodes, by position
  lastId,   \* the position given to the last node appended
  sn,       \* globalData.socketSn
  dhcp,     \* connInfo.dhcpOK
  setback,  \* seconds the wall clock has been moved back so far
  hist      \* history: per node ever queued, what was done with it

vars == <<list, lastId, sn, dhcp, setback, hist>>

Origins == {"udp", "tcp"}
Sns     == 0 .. INVALID_SN_NUM - 1
Floor   == -(MaxSetback + 1)    \* waits below it can never be undone

Node == [cmd: Cmds \cup {Answer}, reback: BOOLEAN, origin: Origins, sn: Sns,
         sendCount: Nat, faildTimes: Nat, fresh: BOOLEAN, wait: Int]

-----------------------------------------------------------------------------
(* The operations of the list, on a list value q.                          *)

Without(q, I) == [i \in DOMAIN q \ I |-> q[i]]

Tcp(q) == {i \in DOMAIN q : q[i].origin = "tcp"}

\* addSendDataToNode and insertSendListNode: a zeroed node at the tail.
NewNode(cmd, reback, origin, s) ==
  [cmd |-> cmd, reback |-> reback, origin |-> origin, sn |-> s,
   sendCount |-> 0, faildTimes |-> 0, fresh |-> TRUE, wait |-> 0]

Queued(q, id, node) == [i \in DOMAIN q \cup {id} |-> IF i = id THEN node ELSE q[i]]

\* Mutant of NextSn: the counter stands still.
NextSnStuck(s) == s

\* getSocketSn(TRUE)
NextSn(s) == IF s + 1 >= INVALID_SN_NUM THEN 0 ELSE s + 1

\* needWaitSocketReback, with the test of bReback at its only call
Awaits(n) == ~n.reback /\ n.cmd \notin NoWaitCmds

\* Mutant of Due: a node that has been put off never comes up again.
DueOnce(n) == n.fresh

Due(n) == n.fresh \/ n.wait < 0

DueIds(q) == {i \in DOMAIN q : Due(q[i])}

Postponed(n, seconds) == [n EXCEPT !.fresh = FALSE, !.wait = seconds]

\* Mutant of Counted: a success forgets to count, and clears the failures.
CountedAnew(n, ok) ==
  IF ok THEN [n EXCEPT !.faildTimes = 0] ELSE [n EXCEPT !.faildTimes = @ + 1]

\* Mutant of PutOff: the interval is doubled, not halved.
PutOffLong(q, I) ==
  [i \in DOMAIN q |-> IF i \in I THEN Postponed(q[i], MAX_RESEND_INTERVAL * 2)
                     ELSE q[i]]

\* The nodes of I, whose socket was not writable, are put off by half the
\* resend interval.
PutOff(q, I) ==
  [i \in DOMAIN q |-> IF i \in I THEN Postponed(q[i], MAX_RESEND_INTERVAL \div 2)
                     ELSE q[i]]

\* The counters of a node after sendTcpData / sendUdpData returned ok.
Counted(n, ok) ==
  IF ~ok THEN [n EXCEPT !.faildTimes = @ + 1]
  ELSE IF Awaits(n) THEN [n EXCEPT !.faildTimes = 0, !.sendCount = @ + 1]
  ELSE n

\* Whether sendSocketData deletes the node after that attempt.
Finished(n, ok) ==
  LET c == Counted(n, ok)
  IN  IF ok THEN Awaits(n) => c.sendCount >= MAX_RESEND_COUNT
            ELSE c.faildTimes >= MAX_FAILD_COUNT

\* Mutant of Purged: the walk ends before the last node.
PurgedButLast(q) ==
  Without(q, {i \in Tcp(q) : \E j \in DOMAIN q : i < j})

\* lum_delAllTcpWhileReconnServer
Purged(q) == Without(q, Tcp(q))

\* The clock moves on by some seconds, or back by a negative number of them.
Later(w, seconds) == IF w - seconds < Floor THEN Floor ELSE w - seconds

Aged(q, seconds) ==
  [i \in DOMAIN q |-> IF q[i].fresh THEN q[i]
                      ELSE [q[i] EXCEPT !.wait = Later(@, seconds)]]

NewHist(node) == [node |-> node, sent |-> 0, failed |-> 0]

Attempted(h, ok) ==
  IF ok THEN [h EXCEPT !.sent = @ + 1] ELSE [h EXCEPT !.failed = @ + 1]

\* The sequence numbers of requests that went out: the server may answer them.
Asked == {hist[i].node.sn : i \in {j \in DOMAIN hist :
                                     hist[j].sent > 0 /\ ~hist[j].node.reback}}

-----------------------------------------------------------------------------
Init ==
  /\ list = <<>>
  /\ lastId = 0
  /\ sn = 0
  /\ dhcp = FALSE
  /\ setback = 0
  /\ hist = <<>>

\* A node is appended behind the nodes of q.
Append1(q, node) ==
  /\ lastId < MaxNodes
  /\ lastId' = lastId + 1
  /\ list' = Queued(q, lastId + 1, node)
  /\ hist' = Queued(hist, lastId + 1, NewHist(node))

\* A handler answers a request of the app or the server: the answer takes the
\* sequence number of the request and leaves by the socket it came from.
SendRespond(origin, s) ==
  /\ Append1(list, NewNode(Answer, TRUE, origin, s))
  /\ UNCHANGED <<sn, dhcp, setback>>

\* A handler of a local message sends a request to the server.
SendRequst(cmd) ==
  /\ cmd \in Cmds \ {Connect, Report}
  /\ sn' = NextSn(sn)
  /\ Append1(list, NewNode(cmd, FALSE, "tcp", sn'))
  /\ UNCHANGED <<dhcp, setback>>

\* localRequstConnectServer: every TCP packet is dropped, then the request
\* to log in is queued.
RequstConnect ==
  /\ sn' = NextSn(sn)
  /\ Append1(Purged(list), NewNode(Connect, FALSE, "tcp", sn'))
  /\ UNCHANGED <<dhcp, setback>>

\* reportGpioChangeEvent: the change is broadcast, then sent to the server,
\* whether or not there is a connection.
ReportGpioChange ==
  LET first  == NewNode(Report, FALSE, "udp", NextSn(sn))
      second == NewNode(Report, FALSE, "tcp", NextSn(NextSn(sn)))
  IN  /\ lastId + 1 < MaxNodes
      /\ sn' = NextSn(NextSn(sn))
      /\ lastId' = lastId + 2
      /\ list' = Queued(Queued(list, lastId + 1, first), lastId + 2, second)
      /\ hist' = Queued(Queued(hist, lastId + 1, NewHist(first)),
                        lastId + 2, NewHist(second))
      /\ UNCHANGED <<dhcp, setback>>

\* A handler of an answer: deleteRequstSendNode drops the first node that
\* carries the sequence number.  The answer may be late or a duplicate.
DeleteRequst(s) ==
  /\ s \in Asked
  /\ \E k \in DOMAIN list :
       /\ list[k].sn = s
       /\ \A i \in DOMAIN list : list[i].sn = s => k <= i
       /\ list' = Without(list, {k})
  /\ UNCHANGED <<lastId, sn, dhcp, setback, hist>>

\* Mutant of Transmit: the nodes that were not writable are not put off.
TransmitInPlace(k, ok) ==
  LET n == list[k]
  IN  /\ dhcp
      /\ k \in DueIds(list)
      /\ list' = IF Finished(n, ok) THEN Without(list, {k})
                 ELSE [list EXCEPT ![k] =
                         Postponed(Counted(n, ok), MAX_RESEND_INTERVAL)]
      /\ hist' = [hist EXCEPT ![k] = Attempted(@, ok)]
      /\ UNCHANGED <<lastId, sn, dhcp, setback>>

\* sendSocketData: the due nodes before k find their socket not writable and
\* are put off, k is handed to the socket, and the walk ends.
Transmit(k, ok) ==
  LET n       == list[k]
      skipped == PutOff(list, {i \in DueIds(list) : i < k})
      again   == Postponed(Counted(n, ok), MAX_RESEND_INTERVAL)
  IN  /\ dhcp
      /\ k \in DueIds(list)
      /\ list' = IF Finished(n, ok) THEN Without(skipped, {k})
                 ELSE [skipped EXCEPT ![k] = again]
      /\ hist' = [hist EXCEPT ![k] = Attempted(@, ok)]
      /\ UNCHANGED <<lastId, sn, dhcp, setback>>

\* sendSocketData when no due node finds its socket writable.
NothingWritable ==
  /\ dhcp
  /\ DueIds(list) # {}
  /\ list' = PutOff(list, DueIds(list))
  /\ UNCHANGED <<lastId, sn, dhcp, setback, hist>>

\* A second passes.
Tick ==
  /\ list' = Aged(list, 1)
  /\ UNCHANGED <<lastId, sn, dhcp, setback, hist>>

\* lum_syncNetworkTime: the clock is set forward (seconds > 0) or back.
SyncNetworkTime(seconds) ==
  /\ setback' = IF seconds < 0 THEN setback - seconds ELSE setback
  /\ setback' <= MaxSetback
  /\ list' = Aged(list, seconds)
  /\ UNCHANGED <<lastId, sn, dhcp, hist>>

\* setFlagAfterDhcp: the router has given the device an address.
AfterDhcp ==
  /\ ~dhcp
  /\ dhcp' = TRUE
  /\ UNCHANGED <<list, lastId, sn, setback, hist>>

\* setFlagAfterApDisconnect
AfterApDisconnect ==
  /\ dhcp
  /\ dhcp' = FALSE
  /\ UNCHANGED <<list, lastId, sn, setback, hist>>

Handler ==
  \/ \E o \in Origins, s \in Sns : SendRespond(o, s)
  \/ \E c \in Cmds : SendRequst(c)
  \/ RequstConnect
  \/ ReportGpioChange
  \/ \E s \in Sns : DeleteRequst(s)

SendSocketData ==
  \/ \E k \in DOMAIN list, ok \in BOOLEAN : Transmit(k, ok)
  \/ NothingWritable

Next ==
  \/ Handler
  \/ SendSocketData
  \/ Tick
  \/ \E d \in (-MaxSetback .. MaxJump) \ {0} : SyncNetworkTime(d)
  \/ AfterDhcp
  \/ AfterApDisconnect

Spec == Init /\ [][Next]_vars

\* The clock runs, the router is joined again after a loss, and a packet that
\* is due again and again is some day at its turn found writable: the message
\* thread calls sendSocketData in every iteration, the router and the sockets
\* are the network's part.  No fairness is asked of ok, of the answers or of
\* the router's staying.
FairSpec ==
  /\ Spec
  /\ WF_vars(Tick)
  /\ WF_vars(AfterDhcp)
  /\ \A k \in 1 .. MaxNodes : SF_vars(\E ok \in BOOLEAN : Transmit(k, ok))

-----------------------------------------------------------------------------
(* Every node in the list is one that was queued, its counters are below   *)
(* the limits at which sendSocketData drops it, and the history of every   *)
(* node ever queued is there.                                              *)
TypeOK ==
  /\ lastId \in Nat
  /\ DOMAIN list \subseteq 1 .. lastId
  /\ \A i \in DOMAIN list : list[i] \in Node
  /\ list = [i \in DOMAIN list |-> list[i]]
  /\ sn \in Sns
  /\ dhcp \in BOOLEAN
  /\ setback \in 0 .. MaxSetback
  /\ hist \in [1 .. lastId -> [node: Node, sent: Nat, failed: Nat]]

WithinLimits(h) ==
  LET limit == IF Awaits(h.node) THEN MAX_RESEND_COUNT ELSE 1
  IN  h.sent <= limit /\ h.sent + h.failed <= limit * MAX_FAILD_COUNT

(* A packet is given to the socket a bounded number of times, however      *)
(* successes and failures alternate (each success resets faildTimes) and   *)
(* whatever the clock does: once if no answer is awaited, MAX_RESEND_COUNT *)
(* times otherwise, and MAX_FAILD_COUNT times as many attempts in all      *)
(* (sendSocketData).                                                       *)
AttemptsBounded == \A i \in DOMAIN hist : WithinLimits(hist[i])

(* An idle packet waits at most MAX_RESEND_INTERVAL, plus the time by which*)
(* the wall clock has been set back (the resend times are wall-clock       *)
(* times, itoCommon.h:277, socketSendList.c:277).                          *)
WaitBounded ==
  \A i \in DOMAIN list : list[i].wait <= MAX_RESEND_INTERVAL + setback

(* While a request to log in is queued, no TCP packet that was queued      *)
(* before it is left: nothing meant for the previous connection can be     *)
(* sent after it (lum_delAllTcpWhileReconnServer).                         *)
ConnectLeads ==
  \A c \in DOMAIN list :
    list[c].cmd = Connect => \A i \in Tcp(list) : c <= i

(* Two requests that are both waiting have different sequence numbers      *)
(* unless the counter has gone all the way round between them, so an       *)
(* answer to one never cancels the other (getSocketSn).                    *)
RequstSnDistinct ==
  \A i, j \in DOMAIN list :
    /\ ~list[i].reback /\ ~list[j].reback
    /\ i < j /\ j - i < INVALID_SN_NUM
    => list[i].sn # list[j].sn

(* The types, and what holds of the packets in the list: how often each is *)
(* tried, how long it waits, that the log-in leads, and that answers find  *)
(* the request they answer (SEND_NODE, sendSocketData).                    *)
SendInv ==
  TypeOK /\ AttemptsBounded /\ WaitBounded /\ ConnectLeads /\ RequstSnDistinct

(* When a packet is handed to a socket, every older packet still in the    *)
(* list has been given its turn: it is waiting, not due.                   *)
NoOvertaking ==
  [][\A k \in DOMAIN hist :
       k \in DOMAIN hist' /\ hist'[k].sent # hist[k].sent =>
         \A i \in DOMAIN list' : i < k => ~Due(list'[i])]_vars

\* The requests to the server that somebody may answer.
Requests == {i \in Tcp(list) : Awaits(list[i])}

Box == INSTANCE Outbox
         WITH Limit   <- MAX_RESEND_COUNT, last <- lastId,
              waiting <- {[id |-> i, login |-> list[i].cmd = Connect,
                           sent |-> list[i].sendCount] : i \in Requests}

(* Whatever packets wait for either socket, are put off, fail, and however *)
(* the clock is set: a request to the server is kept until it was sent     *)
(* often enough, answered, given up or left behind by a log-in, and nothing*)
(* that is done to one changes another (sendSocketData,                    *)
(* deleteRequstSendNode, lum_delAllTcpWhileReconnServer).                  *)
RequestsKept == Box!Spec

(* Every packet leaves the list in the end, even if nobody ever answers.   *)
Drains == \A k \in 1 .. MaxNodes : k \in DOMAIN list ~> k \notin DOMAIN list
=============================================================================
