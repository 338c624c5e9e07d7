--------------------------- MODULE SendListProofs ---------------------------
(* Proofs about SendList, for every value of its constants.                *)
EXTENDS SendList, TLAPS

(* The list operations on values of the right type.                        *)

LEMMA NextSnType == ASSUME NEW s \in Sns PROVE NextSn(s) \in Sns
BY LimitAssumption DEF NextSn, Sns

LEMMA NewNodeType ==
  ASSUME NEW cmd \in Cmds \cup {Answer}, NEW reback \in BOOLEAN,
         NEW origin \in Origins, NEW s \in Sns
  PROVE  NewNode(cmd, reback, origin, s) \in Node
BY DEF NewNode, Node

LEMMA CountedType ==
  ASSUME NEW n \in Node, NEW ok \in BOOLEAN
  PROVE  Counted(n, ok) \in Node
<1>1. [n EXCEPT !.faildTimes = @ + 1] \in Node
  BY DEF Node
<1>2. [n EXCEPT !.faildTimes = 0, !.sendCount = @ + 1] \in Node
  <2> DEFINE m == [n EXCEPT !.faildTimes = 0]
  <2>1. m \in Node
    BY DEF Node
  <2>2. [m EXCEPT !.sendCount = @ + 1] \in Node
    <3> HIDE DEF m
    <3> QED  BY <2>1 DEF Node
  <2> QED
    BY <2>2
<1> QED
  BY <1>1, <1>2 DEF Counted

LEMMA PostponedType ==
  ASSUME NEW n \in Node, NEW seconds \in Int
  PROVE  Postponed(n, seconds) \in Node
BY DEF Postponed, Node

LEMMA LaterType ==
  ASSUME NEW w \in Int, NEW seconds \in Int
  PROVE  Later(w, seconds) \in Int
BY BoundAssumption DEF Later, Floor

LEMMA AgedType ==
  ASSUME NEW q, \A i \in DOMAIN q : q[i] \in Node, NEW seconds \in Int
  PROVE  /\ DOMAIN Aged(q, seconds) = DOMAIN q
         /\ \A i \in DOMAIN q : Aged(q, seconds)[i] \in Node
BY LaterType DEF Aged, Node

(* The list is a function from the positions it holds to nodes.            *)
ListOf(q, last) ==
  /\ DOMAIN q \subseteq 1 .. last
  /\ \A i \in DOMAIN q : q[i] \in Node
  /\ q = [i \in DOMAIN q |-> q[i]]

LEMMA QueuedType ==
  ASSUME NEW q, NEW last \in Nat, ListOf(q, last), NEW node \in Node
  PROVE  ListOf(Queued(q, last + 1, node), last + 1)
BY DEF ListOf, Queued

LEMMA PurgedType ==
  ASSUME NEW q, NEW last \in Nat, ListOf(q, last)
  PROVE  ListOf(Purged(q), last)
BY DEF ListOf, Purged, Without

HistOf(h, last) == h \in [1 .. last -> [node: Node, sent: Nat, failed: Nat]]

LEMMA HistQueuedType ==
  ASSUME NEW h, NEW last \in Nat, HistOf(h, last), NEW node \in Node
  PROVE  HistOf(Queued(h, last + 1, NewHist(node)), last + 1)
BY DEF HistOf, Queued, NewHist

LEMMA QueuedTwiceType ==
  ASSUME NEW q, NEW last \in Nat, ListOf(q, last),
         NEW a \in Node, NEW b \in Node
  PROVE  ListOf(Queued(Queued(q, last + 1, a), last + 2, b), last + 2)
BY DEF ListOf, Queued

LEMMA HistQueuedTwiceType ==
  ASSUME NEW h, NEW last \in Nat, HistOf(h, last),
         NEW a \in Node, NEW b \in Node
  PROVE  HistOf(Queued(Queued(h, last + 1, NewHist(a)), last + 2, NewHist(b)), last + 2)
BY DEF HistOf, Queued, NewHist

LEMMA PutOffType ==
  ASSUME NEW q, NEW last \in Nat, ListOf(q, last), NEW I
  PROVE  ListOf(PutOff(q, I), last)
<1> DEFINE half == MAX_RESEND_INTERVAL \div 2
<1>1. half \in Int
  BY LimitAssumption
<1>2. PutOff(q, I) = [i \in DOMAIN q |-> IF i \in I THEN Postponed(q[i], half) ELSE q[i]]
  BY DEF PutOff
<1> HIDE DEF half
<1> QED
  BY <1>1, <1>2, PostponedType DEF ListOf

LEMMA AttemptedType ==
  ASSUME NEW h, NEW last \in Nat, HistOf(h, last), NEW k \in 1 .. last,
         NEW ok \in BOOLEAN
  PROVE  HistOf([h EXCEPT ![k] = Attempted(@, ok)], last)
<1>1. Attempted(h[k], ok) \in [node: Node, sent: Nat, failed: Nat]
  BY DEF HistOf, Attempted
<1> QED
  BY <1>1 DEF HistOf

(* Every step keeps the types.                                             *)
LEMMA TypeStep == TypeOK /\ [Next]_vars => TypeOK'
<1> SUFFICES ASSUME TypeOK, [Next]_vars PROVE TypeOK'
  OBVIOUS
<1> USE LimitAssumption, BoundAssumption, CmdAssumption
<1>t. /\ lastId \in Nat /\ ListOf(list, lastId) /\ HistOf(hist, lastId)
      /\ sn \in Sns /\ dhcp \in BOOLEAN /\ setback \in 0 .. MaxSetback
  BY DEF TypeOK, ListOf, HistOf
<1>s. SUFFICES /\ lastId' \in Nat /\ ListOf(list', lastId') /\ HistOf(hist', lastId')
               /\ sn' \in Sns /\ dhcp' \in BOOLEAN /\ setback' \in 0 .. MaxSetback
  BY DEF TypeOK, ListOf, HistOf
<1>app. ASSUME NEW node \in Node, NEW q, ListOf(q, lastId), Append1(q, node)
        PROVE  lastId' \in Nat /\ ListOf(list', lastId') /\ HistOf(hist', lastId')
  <2>1. lastId' = lastId + 1
    BY <1>app DEF Append1
  <2>2. ListOf(list', lastId + 1)
    BY <1>t, <1>app, QueuedType DEF Append1
  <2>3. HistOf(hist', lastId + 1)
    BY <1>t, <1>app, HistQueuedType DEF Append1
  <2> QED
    BY <1>t, <2>1, <2>2, <2>3
<1>1. ASSUME NEW o \in Origins, NEW s \in Sns, SendRespond(o, s) PROVE <1>s!1
  <2>1. NewNode(Answer, TRUE, o, s) \in Node
    BY NewNodeType
  <2> QED
    BY <1>t, <1>1, <1>app, <2>1 DEF SendRespond
<1>2. ASSUME NEW c \in Cmds, SendRequst(c) PROVE <1>s!1
  <2>1. sn' \in Sns
    BY <1>t, <1>2, NextSnType DEF SendRequst
  <2>2. NewNode(c, FALSE, "tcp", sn') \in Node
    BY <2>1, NewNodeType DEF Origins
  <2> QED
    BY <1>t, <1>2, <1>app, <2>1, <2>2 DEF SendRequst
<1>3. ASSUME RequstConnect PROVE <1>s!1
  <2>1. sn' \in Sns
    BY <1>t, <1>3, NextSnType DEF RequstConnect
  <2>2. NewNode(Connect, FALSE, "tcp", sn') \in Node
    BY <2>1, NewNodeType DEF Origins
  <2>3. ListOf(Purged(list), lastId)
    BY <1>t, PurgedType
  <2> QED
    BY <1>t, <1>3, <1>app, <2>1, <2>2, <2>3 DEF RequstConnect
<1>4. ASSUME ReportGpioChange PROVE <1>s!1
  <2> DEFINE first  == NewNode(Report, FALSE, "udp", NextSn(sn))
             second == NewNode(Report, FALSE, "tcp", NextSn(NextSn(sn)))
  <2>1. sn' \in Sns
    BY <1>t, <1>4, NextSnType DEF ReportGpioChange
  <2>2. first \in Node /\ second \in Node
    BY <1>t, NextSnType, NewNodeType DEF Origins
  <2>3. lastId' = lastId + 2
    BY <1>4 DEF ReportGpioChange
  <2>q. /\ list' = Queued(Queued(list, lastId + 1, first), lastId + 2, second)
        /\ hist' = Queued(Queued(hist, lastId + 1, NewHist(first)),
                          lastId + 2, NewHist(second))
    BY <1>4 DEF ReportGpioChange
  <2> HIDE DEF first, second
  <2>4. ListOf(list', lastId')
    BY <1>t, <2>q, <2>2, <2>3, QueuedTwiceType
  <2>5. HistOf(hist', lastId')
    BY <1>t, <2>q, <2>2, <2>3, HistQueuedTwiceType
  <2>6. lastId' \in Nat /\ dhcp' = dhcp /\ setback' = setback
    BY <1>t, <1>4, <2>3 DEF ReportGpioChange
  <2> QED
    BY <1>t, <2>1, <2>4, <2>5, <2>6
<1>5. ASSUME NEW s \in Sns, DeleteRequst(s) PROVE <1>s!1
  <2> PICK k \in DOMAIN list : list' = Without(list, {k})
    BY <1>5 DEF DeleteRequst
  <2>1. ListOf(list', lastId)
    BY <1>t DEF ListOf, Without
  <2> QED
    BY <1>t, <1>5, <2>1 DEF DeleteRequst
<1>6. ASSUME NEW k \in DOMAIN list, NEW ok \in BOOLEAN, Transmit(k, ok) PROVE <1>s!1
  <2> DEFINE skipped == PutOff(list, {i \in DueIds(list) : i < k})
             again   == Postponed(Counted(list[k], ok), MAX_RESEND_INTERVAL)
  <2>2. ListOf(skipped, lastId)
    BY <1>t, PutOffType
  <2>3. again \in Node
    BY <1>t, CountedType, PostponedType DEF ListOf
  <2>4. list' = IF Finished(list[k], ok) THEN Without(skipped, {k})
                ELSE [skipped EXCEPT ![k] = again]
    BY <1>6 DEF Transmit
  <2>5. ListOf(list', lastId)
    <3> HIDE DEF skipped, again
    <3>1. ListOf(Without(skipped, {k}), lastId)
      BY <2>2 DEF ListOf, Without
    <3>2. ListOf([skipped EXCEPT ![k] = again], lastId)
      BY <2>2, <2>3 DEF ListOf
    <3> QED
      BY <2>4, <3>1, <3>2
  <2>6. HistOf(hist', lastId)
    <3>1. k \in 1 .. lastId
      BY <1>t DEF ListOf
    <3> QED
      BY <1>t, <1>6, <3>1, AttemptedType DEF Transmit
  <2> QED
    BY <1>t, <1>6, <2>5, <2>6 DEF Transmit
<1>7. ASSUME NothingWritable PROVE <1>s!1
  <2>2. ListOf(list', lastId)
    BY <1>t, <1>7, PutOffType DEF NothingWritable
  <2> QED
    BY <1>t, <1>7, <2>2 DEF NothingWritable
<1>aged. ASSUME NEW seconds \in Int, list' = Aged(list, seconds)
         PROVE  ListOf(list', lastId)
  <2>1. /\ DOMAIN list' = DOMAIN list
        /\ \A i \in DOMAIN list : list'[i] \in Node
    BY <1>t, <1>aged, AgedType DEF ListOf
  <2>2. list' = [i \in DOMAIN list' |-> list'[i]]
    BY <1>aged DEF Aged
  <2> QED
    BY <1>t, <2>1, <2>2 DEF ListOf
<1>8. ASSUME Tick PROVE <1>s!1
  BY <1>t, <1>8, <1>aged DEF Tick
<1>9. ASSUME NEW d \in (-MaxSetback .. MaxJump) \ {0}, SyncNetworkTime(d) PROVE <1>s!1
  <2>1. ListOf(list', lastId)
    BY <1>9, <1>aged DEF SyncNetworkTime
  <2>2. setback' \in 0 .. MaxSetback
    BY <1>t, <1>9 DEF SyncNetworkTime
  <2> QED
    BY <1>t, <1>9, <2>1, <2>2 DEF SyncNetworkTime
<1>10. ASSUME AfterDhcp PROVE <1>s!1
  BY <1>t, <1>10 DEF AfterDhcp
<1>11. ASSUME AfterApDisconnect PROVE <1>s!1
  BY <1>t, <1>11 DEF AfterApDisconnect
<1>12. CASE UNCHANGED vars
  BY <1>t, <1>12 DEF vars
<1> QED
  BY <1>1, <1>2, <1>3, <1>4, <1>5, <1>6, <1>7, <1>8, <1>9, <1>10, <1>11, <1>12
     DEF Next, Handler, SendSocketData

(* The types are kept: nodes and counters stay in range, and a node's      *)
(* position is one that was handed out.                                    *)
THEOREM TypeCorrect == Spec => []TypeOK
<1>1. ASSUME Init PROVE TypeOK
  <2>1. DOMAIN list = {} /\ list = [i \in DOMAIN list |-> list[i]]
    BY <1>1 DEF Init
  <2>2. hist \in [1 .. lastId -> [node: Node, sent: Nat, failed: Nat]]
    BY <1>1 DEF Init
  <2>3. lastId \in Nat /\ setback \in 0 .. MaxSetback
    BY <1>1, BoundAssumption DEF Init
  <2>4. sn \in Sns
    <3>1. 0 \in 0 .. INVALID_SN_NUM - 1
      BY LimitAssumption
    <3> QED
      BY <1>1, <3>1 DEF Init, Sns
  <2>5. dhcp \in BOOLEAN
    BY <1>1 DEF Init
  <2> QED
    BY <2>1, <2>2, <2>3, <2>4, <2>5 DEF TypeOK
<1> QED
  BY <1>1, TypeStep, PTL DEF Spec

-----------------------------------------------------------------------------
(* The bound on attempts.  It is inductive together with the counters of   *)
(* the nodes still queued: each success starts a new run of fewer than     *)
(* MAX_FAILD_COUNT failures, the last of which faildTimes counts.          *)
Live(n, h) ==
  /\ n.cmd = h.node.cmd /\ n.reback = h.node.reback
  /\ n.faildTimes < MAX_FAILD_COUNT
  /\ h.sent + h.failed <= h.sent * MAX_FAILD_COUNT + n.faildTimes
  /\ h.sent = IF Awaits(n) THEN n.sendCount ELSE 0
  /\ Awaits(n) => n.sendCount < MAX_RESEND_COUNT

CountersInv ==
  /\ AttemptsBounded
  /\ \A i \in DOMAIN list : Live(list[i], hist[i])

SameCounters(n, m) ==
  /\ m.cmd = n.cmd /\ m.reback = n.reback
  /\ m.faildTimes = n.faildTimes /\ m.sendCount = n.sendCount

HistNode == [node: Node, sent: Nat, failed: Nat]

LEMMA LiveSame ==
  ASSUME NEW n, NEW m, NEW h, Live(n, h), SameCounters(n, m)
  PROVE  Live(m, h)
<1>1. Awaits(m) = Awaits(n)
  BY DEF SameCounters, Awaits
<1> QED
  BY <1>1 DEF Live, SameCounters

LEMMA PostponedSame ==
  ASSUME NEW n \in Node, NEW seconds PROVE SameCounters(n, Postponed(n, seconds))
BY DEF Node, Postponed, SameCounters

LEMMA AgedSame ==
  ASSUME NEW q, \A i \in DOMAIN q : q[i] \in Node, NEW seconds, NEW i \in DOMAIN q
  PROVE  i \in DOMAIN Aged(q, seconds) /\ SameCounters(q[i], Aged(q, seconds)[i])
BY DEF Node, Aged, SameCounters

LEMMA NewNodeLive ==
  ASSUME NEW cmd, NEW reback, NEW origin, NEW s
  PROVE  LET n == NewNode(cmd, reback, origin, s)
         IN  Live(n, NewHist(n)) /\ WithinLimits(NewHist(n))
<1> DEFINE n == NewNode(cmd, reback, origin, s)
<1>1. n.faildTimes = 0 /\ n.sendCount = 0
  BY DEF NewNode
<1>2. NewHist(n).node = n /\ NewHist(n).sent = 0 /\ NewHist(n).failed = 0
  BY DEF NewHist
<1> HIDE DEF n
<1>3. Live(n, NewHist(n))
  BY <1>1, <1>2, LimitAssumption DEF Live
<1>4. WithinLimits(NewHist(n))
  <2> DEFINE limit == IF Awaits(n) THEN MAX_RESEND_COUNT ELSE 1
  <2>1. limit \in Nat /\ limit * MAX_FAILD_COUNT \in Nat
    BY LimitAssumption
  <2> HIDE DEF limit
  <2>2. WithinLimits(NewHist(n)) <=> 0 <= limit /\ 0 + 0 <= limit * MAX_FAILD_COUNT
    BY <1>2 DEF WithinLimits, limit
  <2> QED
    BY <2>1, <2>2
<1> QED
  BY <1>3, <1>4 DEF n

LEMMA Times ==
  ASSUME NEW a \in Nat, NEW b \in Nat, NEW f \in Nat, a <= b
  PROVE  (a + 1) * f = a * f + f /\ a * f <= b * f /\ a * f \in Nat
OBVIOUS

(* One attempt keeps the bound, and keeps the node live if it stays.       *)
LEMMA AttemptLive ==
  ASSUME NEW n \in Node, NEW h \in HistNode, NEW ok \in BOOLEAN, Live(n, h)
  PROVE  /\ WithinLimits(Attempted(h, ok))
         /\ ~Finished(n, ok) => Live(Counted(n, ok), Attempted(h, ok))
<1> DEFINE R == MAX_RESEND_COUNT
           F == MAX_FAILD_COUNT
           c == Counted(n, ok)
           g == Attempted(h, ok)
           limit == IF Awaits(n) THEN R ELSE 1
<1>n. /\ n.faildTimes \in Nat /\ n.sendCount \in Nat
      /\ h.sent \in Nat /\ h.failed \in Nat /\ F \in Nat \ {0} /\ R \in Nat \ {0}
  BY LimitAssumption DEF Node, HistNode
<1>l. /\ n.cmd = h.node.cmd /\ n.reback = h.node.reback /\ n.faildTimes < F
      /\ h.sent + h.failed <= h.sent * F + n.faildTimes
      /\ h.sent < limit /\ limit \in Nat
      /\ Awaits(n) => h.sent = n.sendCount
      /\ ~Awaits(n) => h.sent = 0
  <2>1. CASE Awaits(n)
    BY <1>n, <2>1 DEF Live
  <2>2. CASE ~Awaits(n)
    BY <1>n, <2>2 DEF Live
  <2> QED
    BY <2>1, <2>2
<1>t. /\ (h.sent + 1) * F = h.sent * F + F
      /\ (h.sent + 1) * F <= limit * F
      /\ h.sent * F \in Nat /\ limit * F \in Nat
  <2> HIDE DEF F, limit
  <2>1. h.sent + 1 \in Nat /\ h.sent + 1 <= limit
    BY <1>n, <1>l
  <2> QED
    BY <1>n, <1>l, <2>1, Times
<1>a. Awaits(h.node) = Awaits(n)
  BY <1>l DEF Awaits
<1>w. WithinLimits(g) <=> g.sent <= limit /\ g.sent + g.failed <= limit * F
  <2>1. g.node = h.node
    BY DEF Attempted, HistNode
  <2> HIDE DEF g
  <2> QED
    BY <1>a, <2>1 DEF WithinLimits
<1>1. CASE ok
  <2>1. g.sent = h.sent + 1 /\ g.failed = h.failed /\ g.node = h.node
    BY <1>1 DEF Attempted, HistNode
  <2>2. g.sent <= limit /\ g.sent + g.failed <= (h.sent + 1) * F
    <3> HIDE DEF F, limit, g
    <3> QED  BY <1>n, <1>l, <1>t, <2>1
  <2>3. WithinLimits(g)
    <3> HIDE DEF F, limit, g
    <3> QED  BY <1>n, <1>l, <1>t, <1>w, <2>1, <2>2
  <2>4. ASSUME ~Finished(n, ok) PROVE Live(c, g)
    <3>1. Awaits(n) /\ ~(c.sendCount >= R)
      BY <1>1, <2>4 DEF Finished
    <3>2. /\ c.cmd = n.cmd /\ c.reback = n.reback
          /\ c.faildTimes = 0 /\ c.sendCount = n.sendCount + 1
      BY <1>1, <3>1 DEF Counted, Node
    <3>3. Awaits(c)
      BY <3>1, <3>2 DEF Awaits
    <3>4. g.sent = c.sendCount
      BY <1>l, <2>1, <3>1, <3>2
    <3> HIDE DEF c, g
    <3> QED
      BY <1>n, <1>l, <2>1, <2>2, <3>1, <3>2, <3>3, <3>4 DEF Live
  <2> QED
    BY <2>3, <2>4
<1>2. CASE ~ok
  <2>1. g.sent = h.sent /\ g.failed = h.failed + 1 /\ g.node = h.node
    BY <1>2 DEF Attempted, HistNode
  <2>2. /\ c.cmd = n.cmd /\ c.reback = n.reback
        /\ c.faildTimes = n.faildTimes + 1 /\ c.sendCount = n.sendCount
    BY <1>2 DEF Counted, Node
  <2>3. g.sent + g.failed <= g.sent * F + c.faildTimes
    <3> HIDE DEF F, c, g
    <3> QED  BY <1>n, <1>l, <1>t, <2>1, <2>2
  <2>4. WithinLimits(g)
    <3> HIDE DEF F, limit, c, g
    <3> QED  BY <1>n, <1>l, <1>t, <1>w, <2>1, <2>2, <2>3
  <2>5. ASSUME ~Finished(n, ok) PROVE Live(c, g)
    <3>1. ~(c.faildTimes >= F)
      BY <1>2, <2>5 DEF Finished
    <3>2. Awaits(c) = Awaits(n)
      BY <2>2 DEF Awaits
    <3>3. g.sent = IF Awaits(c) THEN c.sendCount ELSE 0
      BY <1>l, <2>1, <2>2, <3>2
    <3>4. Awaits(c) => c.sendCount < R
      BY <1>l, <2>2, <3>2
    <3> HIDE DEF c, g
    <3> QED
      BY <1>n, <1>l, <2>1, <2>2, <2>3, <3>1, <3>3, <3>4 DEF Live
  <2> QED
    BY <2>4, <2>5
<1> QED
  BY <1>1, <1>2

LEMMA CountersStep == TypeOK /\ CountersInv /\ [Next]_vars => CountersInv'
<1> SUFFICES ASSUME TypeOK, CountersInv, [Next]_vars PROVE CountersInv'
  OBVIOUS
<1>t. /\ lastId \in Nat
      /\ DOMAIN list \subseteq 1 .. lastId /\ DOMAIN hist = 1 .. lastId
      /\ \A i \in DOMAIN list : list[i] \in Node /\ i \in DOMAIN hist
      /\ \A i \in DOMAIN hist : hist[i] \in HistNode
  BY DEF TypeOK, HistNode
<1>i. /\ \A i \in DOMAIN hist : WithinLimits(hist[i])
      /\ \A i \in DOMAIN list : Live(list[i], hist[i])
  BY DEF CountersInv, AttemptsBounded
<1>g. SUFFICES /\ \A i \in DOMAIN hist' : WithinLimits(hist'[i])
               /\ \A i \in DOMAIN list' : Live(list'[i], hist'[i])
  BY DEF CountersInv, AttemptsBounded
<1>app. ASSUME NEW cmd, NEW reback, NEW origin, NEW s, NEW q,
               \A i \in DOMAIN q : i \in DOMAIN list /\ q[i] = list[i],
               Append1(q, NewNode(cmd, reback, origin, s))
        PROVE  <1>g!1
  <2> DEFINE node == NewNode(cmd, reback, origin, s)
  <2>1. Live(node, NewHist(node)) /\ WithinLimits(NewHist(node))
    BY NewNodeLive
  <2>2. list' = Queued(q, lastId + 1, node) /\ hist' = Queued(hist, lastId + 1, NewHist(node))
    BY <1>app DEF Append1
  <2> HIDE DEF node
  <2>3. \A i \in DOMAIN hist' : WithinLimits(hist'[i])
    BY <1>t, <1>i, <2>1, <2>2 DEF Queued
  <2>4. \A i \in DOMAIN list' : Live(list'[i], hist'[i])
    BY <1>t, <1>i, <1>app, <2>1, <2>2 DEF Queued
  <2> QED
    BY <2>3, <2>4
<1>same. ASSUME hist' = hist,
                \A i \in DOMAIN list' : i \in DOMAIN list /\ SameCounters(list[i], list'[i])
         PROVE  <1>g!1
  BY <1>i, <1>same, LiveSame
<1>1. ASSUME NEW o \in Origins, NEW s \in Sns, SendRespond(o, s) PROVE <1>g!1
  BY <1>1, <1>app DEF SendRespond
<1>2. ASSUME NEW c \in Cmds, SendRequst(c) PROVE <1>g!1
  BY <1>2, <1>app DEF SendRequst
<1>3. ASSUME RequstConnect PROVE <1>g!1
  <2>1. \A i \in DOMAIN Purged(list) : i \in DOMAIN list /\ Purged(list)[i] = list[i]
    BY DEF Purged, Without
  <2> QED
    BY <1>3, <1>app, <2>1 DEF RequstConnect
<1>4. ASSUME ReportGpioChange PROVE <1>g!1
  <2> DEFINE first  == NewNode(Report, FALSE, "udp", NextSn(sn))
             second == NewNode(Report, FALSE, "tcp", NextSn(NextSn(sn)))
  <2>1. /\ Live(first, NewHist(first)) /\ WithinLimits(NewHist(first))
        /\ Live(second, NewHist(second)) /\ WithinLimits(NewHist(second))
    BY NewNodeLive
  <2>2. /\ list' = Queued(Queued(list, lastId + 1, first), lastId + 2, second)
        /\ hist' = Queued(Queued(hist, lastId + 1, NewHist(first)),
                          lastId + 2, NewHist(second))
    BY <1>4 DEF ReportGpioChange
  <2> HIDE DEF first, second
  <2>3. \A i \in DOMAIN hist' : WithinLimits(hist'[i])
    BY <1>t, <1>i, <2>1, <2>2 DEF Queued
  <2>4. \A i \in DOMAIN list' : Live(list'[i], hist'[i])
    BY <1>t, <1>i, <2>1, <2>2 DEF Queued
  <2> QED
    BY <2>3, <2>4
<1>5. ASSUME NEW s \in Sns, DeleteRequst(s) PROVE <1>g!1
  <2>1. PICK k \in DOMAIN list : list' = Without(list, {k})
    BY <1>5 DEF DeleteRequst
  <2>2. \A i \in DOMAIN list' : i \in DOMAIN list /\ list'[i] = list[i]
    BY <2>1 DEF Without
  <2> QED
    BY <1>5, <1>i, <2>2 DEF DeleteRequst
<1>6. ASSUME NEW k \in DOMAIN list, NEW ok \in BOOLEAN, Transmit(k, ok) PROVE <1>g!1
  <2> DEFINE n       == list[k]
             skipped == PutOff(list, {i \in DueIds(list) : i < k})
             again   == Postponed(Counted(n, ok), MAX_RESEND_INTERVAL)
  <2>1. n \in Node /\ hist[k] \in HistNode /\ Live(n, hist[k]) /\ k \in DOMAIN hist
    BY <1>t, <1>i
  <2>2. /\ WithinLimits(Attempted(hist[k], ok))
        /\ ~Finished(n, ok) => Live(Counted(n, ok), Attempted(hist[k], ok))
    BY <2>1, AttemptLive
  <2>3. ~Finished(n, ok) => Live(again, Attempted(hist[k], ok))
    <3>1. SameCounters(Counted(n, ok), again)
      BY <2>1, CountedType, PostponedSame
    <3> HIDE DEF again, n
    <3> QED
      BY <2>2, <3>1, LiveSame
  <2>4. DOMAIN skipped = DOMAIN list /\ \A i \in DOMAIN list : SameCounters(list[i], skipped[i])
    BY <1>t, PostponedSame DEF PutOff, SameCounters
  <2>5. hist' = [hist EXCEPT ![k] = Attempted(hist[k], ok)]
    BY <1>6 DEF Transmit
  <2>6. list' = IF Finished(n, ok) THEN Without(skipped, {k})
                ELSE [skipped EXCEPT ![k] = again]
    BY <1>6 DEF Transmit
  <2> HIDE DEF n, skipped, again
  <2>7. \A i \in DOMAIN hist' : WithinLimits(hist'[i])
    BY <1>i, <2>1, <2>2, <2>5
  <2>8. \A i \in DOMAIN skipped \ {k} : Live(skipped[i], hist'[i])
    BY <1>i, <1>t, <2>4, <2>5, LiveSame
  <2>9. \A i \in DOMAIN list' : Live(list'[i], hist'[i])
    <3>1. CASE Finished(n, ok)
      BY <2>6, <2>8, <3>1 DEF Without
    <3>2. CASE ~Finished(n, ok)
      BY <2>1, <2>3, <2>5, <2>6, <2>8, <3>2
    <3> QED
      BY <3>1, <3>2
  <2> QED
    BY <2>7, <2>9
<1>7. ASSUME NothingWritable PROVE <1>g!1
  <2>1. \A i \in DOMAIN list' : i \in DOMAIN list /\ SameCounters(list[i], list'[i])
    BY <1>7, <1>t, PostponedSame DEF NothingWritable, PutOff, SameCounters
  <2> QED
    BY <1>7, <1>same, <2>1 DEF NothingWritable
<1>aged. ASSUME NEW seconds, list' = Aged(list, seconds), hist' = hist PROVE <1>g!1
  <2>1. DOMAIN list' = DOMAIN list
    BY <1>aged DEF Aged
  <2> QED
    BY <1>aged, <1>same, <1>t, <2>1, AgedSame
<1>8. ASSUME Tick PROVE <1>g!1
  BY <1>8, <1>aged DEF Tick
<1>9. ASSUME NEW d \in (-MaxSetback .. MaxJump) \ {0}, SyncNetworkTime(d) PROVE <1>g!1
  BY <1>9, <1>aged DEF SyncNetworkTime
<1>10. ASSUME UNCHANGED <<list, hist>> PROVE <1>g!1
  BY <1>10, <1>i
<1> QED
  BY <1>1, <1>2, <1>3, <1>4, <1>5, <1>6, <1>7, <1>8, <1>9, <1>10
     DEF Next, Handler, SendSocketData, AfterDhcp, AfterApDisconnect, vars

(* sendSocketData hands every packet to a socket a bounded number of       *)
(* times, for every value of the limits.                                   *)
THEOREM Attempts == Spec => []AttemptsBounded
<1>1. ASSUME Init PROVE CountersInv
  <2>1. DOMAIN list = {} /\ DOMAIN hist = {}
    BY <1>1 DEF Init
  <2> QED
    BY <2>1 DEF CountersInv, AttemptsBounded
<1>2. CountersInv => AttemptsBounded
  BY DEF CountersInv
<1> QED
  BY <1>1, <1>2, TypeCorrect, CountersStep, PTL DEF Spec

-----------------------------------------------------------------------------
(* The longest wait.                                                       *)
LEMMA WaitStep == TypeOK /\ WaitBounded /\ [Next]_vars => WaitBounded'
<1> SUFFICES ASSUME TypeOK, WaitBounded, [Next]_vars PROVE WaitBounded'
  OBVIOUS
<1> DEFINE I == MAX_RESEND_INTERVAL
<1>t. /\ I \in Nat /\ setback \in Nat
      /\ \A i \in DOMAIN list : list[i] \in Node /\ list[i].wait \in Int
      /\ \A i \in DOMAIN list : list[i].wait <= I + setback
      /\ I \div 2 \in Int /\ I \div 2 <= I
  BY LimitAssumption, BoundAssumption DEF TypeOK, WaitBounded, Node
<1>new. \A cmd, reback, origin, s : NewNode(cmd, reback, origin, s).wait = 0
  BY DEF NewNode
<1>put. \A n \in Node : \A seconds : Postponed(n, seconds).wait = seconds
  BY DEF Postponed, Node
<1>same. ASSUME setback' = setback, UNCHANGED list PROVE WaitBounded'
  BY <1>same, <1>t DEF WaitBounded
<1>app. ASSUME NEW cmd, NEW reback, NEW origin, NEW s, NEW q, setback' = setback,
               \A i \in DOMAIN q : i \in DOMAIN list /\ q[i] = list[i],
               Append1(q, NewNode(cmd, reback, origin, s))
        PROVE  WaitBounded'
  <2> DEFINE node == NewNode(cmd, reback, origin, s)
  <2>1. node.wait <= I + setback
    BY <1>t, <1>new
  <2>2. list' = Queued(q, lastId + 1, node)
    BY <1>app DEF Append1
  <2> HIDE DEF node
  <2> QED
    BY <1>t, <1>app, <2>1, <2>2 DEF WaitBounded, Queued
<1>1. ASSUME NEW o \in Origins, NEW s \in Sns, SendRespond(o, s) PROVE WaitBounded'
  BY <1>1, <1>app DEF SendRespond
<1>2. ASSUME NEW c \in Cmds, SendRequst(c) PROVE WaitBounded'
  BY <1>2, <1>app DEF SendRequst
<1>3. ASSUME RequstConnect PROVE WaitBounded'
  <2>1. \A i \in DOMAIN Purged(list) : i \in DOMAIN list /\ Purged(list)[i] = list[i]
    BY DEF Purged, Without
  <2> QED
    BY <1>3, <1>app, <2>1 DEF RequstConnect
<1>4. ASSUME ReportGpioChange PROVE WaitBounded'
  <2> DEFINE first  == NewNode(Report, FALSE, "udp", NextSn(sn))
             second == NewNode(Report, FALSE, "tcp", NextSn(NextSn(sn)))
  <2>1. first.wait <= I + setback /\ second.wait <= I + setback
    <3>1. first.wait = 0 /\ second.wait = 0
      BY <1>new
    <3> HIDE DEF first, second
    <3> QED
      BY <1>t, <3>1
  <2>2. list' = Queued(Queued(list, lastId + 1, first), lastId + 2, second)
        /\ setback' = setback
    BY <1>4 DEF ReportGpioChange
  <2> HIDE DEF first, second
  <2> QED
    BY <1>t, <2>1, <2>2 DEF WaitBounded, Queued
<1>5. ASSUME NEW s \in Sns, DeleteRequst(s) PROVE WaitBounded'
  <2>1. PICK k \in DOMAIN list : list' = Without(list, {k}) /\ setback' = setback
    BY <1>5 DEF DeleteRequst
  <2> QED
    BY <1>t, <2>1 DEF WaitBounded, Without
<1>skip. ASSUME NEW K PROVE \A i \in DOMAIN list : PutOff(list, K)[i].wait <= I + setback
  <2> DEFINE half == I \div 2
  <2>1. half <= I + setback
    BY <1>t
  <2>2. \A i \in DOMAIN list :
          PutOff(list, K)[i] = IF i \in K THEN Postponed(list[i], half) ELSE list[i]
    BY DEF PutOff
  <2> HIDE DEF half
  <2> QED
    BY <1>t, <1>put, <2>1, <2>2
<1>6. ASSUME NEW k \in DOMAIN list, NEW ok \in BOOLEAN, Transmit(k, ok) PROVE WaitBounded'
  <2> DEFINE skipped == PutOff(list, {i \in DueIds(list) : i < k})
             again   == Postponed(Counted(list[k], ok), I)
  <2>1. again.wait <= I + setback
    <3>1. Counted(list[k], ok) \in Node
      BY <1>t, CountedType
    <3> QED
      BY <1>t, <1>put, <3>1
  <2>2. DOMAIN skipped = DOMAIN list
    BY DEF PutOff
  <2>3. \A i \in DOMAIN list : skipped[i].wait <= I + setback
    BY <1>skip
  <2>4. list' = (IF Finished(list[k], ok) THEN Without(skipped, {k})
                ELSE [skipped EXCEPT ![k] = again]) /\ setback' = setback
    BY <1>6 DEF Transmit
  <2> HIDE DEF skipped, again
  <2>5. CASE Finished(list[k], ok)
    BY <2>2, <2>3, <2>4, <2>5 DEF WaitBounded, Without
  <2>6. CASE ~Finished(list[k], ok)
    BY <2>1, <2>2, <2>3, <2>4, <2>6 DEF WaitBounded
  <2> QED
    BY <2>5, <2>6
<1>7. ASSUME NothingWritable PROVE WaitBounded'
  <2>1. list' = PutOff(list, DueIds(list)) /\ setback' = setback
    BY <1>7 DEF NothingWritable
  <2>2. DOMAIN list' = DOMAIN list
    BY <2>1 DEF PutOff
  <2> QED
    BY <1>skip, <2>1, <2>2 DEF WaitBounded
<1>aged. ASSUME NEW seconds \in Int, list' = Aged(list, seconds), setback' \in Nat,
                seconds < 0 => setback' = setback - seconds,
                seconds >= 0 => setback' = setback
         PROVE  WaitBounded'
  <2>1. ASSUME NEW w \in Int, w <= I + setback
        PROVE  Later(w, seconds) <= I + setback' /\ w <= I + setback'
    <3>1. Later(w, seconds) <= w - seconds \/ Later(w, seconds) <= 0
      BY <1>aged, <2>1, BoundAssumption DEF Later, Floor
    <3>2. Later(w, seconds) \in Int
      BY <1>aged, <2>1, LaterType
    <3>3. CASE seconds < 0
      <4>1. setback' = setback - seconds
        BY <1>aged, <3>3
      <4> QED
        BY <1>t, <1>aged, <2>1, <3>1, <3>2, <3>3, <4>1
    <3>4. CASE seconds >= 0
      <4>1. setback' = setback
        BY <1>aged, <3>4
      <4> QED
        BY <1>t, <1>aged, <2>1, <3>1, <3>2, <3>4, <4>1
    <3> QED
      BY <1>aged, <3>3, <3>4
  <2>2. \A i \in DOMAIN list : list'[i].wait = list[i].wait
                               \/ list'[i].wait = Later(list[i].wait, seconds)
    BY <1>aged, <1>t DEF Aged, Node
  <2>3. DOMAIN list' = DOMAIN list
    BY <1>aged DEF Aged
  <2> QED
    BY <1>t, <2>1, <2>2, <2>3 DEF WaitBounded
<1>8. ASSUME Tick PROVE WaitBounded'
  BY <1>8, <1>t, <1>aged DEF Tick
<1>9. ASSUME NEW d \in (-MaxSetback .. MaxJump) \ {0}, SyncNetworkTime(d) PROVE WaitBounded'
  <2>1. d \in Int /\ setback' \in Nat
    BY <1>9, <1>t DEF SyncNetworkTime
  <2>2. (d < 0 => setback' = setback - d) /\ (d >= 0 => setback' = setback)
    BY <1>9, <2>1 DEF SyncNetworkTime
  <2> QED
    BY <1>9, <1>aged, <2>1, <2>2 DEF SyncNetworkTime
<1> QED
  BY <1>same, <1>1, <1>2, <1>3, <1>4, <1>5, <1>6, <1>7, <1>8, <1>9
     DEF Next, Handler, SendSocketData, AfterDhcp, AfterApDisconnect, vars

(* No packet is put off for longer than the resend interval, but for the   *)
(* time by which the wall clock is set back while it waits.                *)
THEOREM Waits == Spec => []WaitBounded
<1>1. ASSUME Init PROVE WaitBounded
  <2>1. DOMAIN list = {}
    BY <1>1 DEF Init
  <2> QED
    BY <2>1 DEF WaitBounded
<1> QED
  BY <1>1, TypeCorrect, WaitStep, PTL DEF Spec

-----------------------------------------------------------------------------
(* What a node asks for never changes while it is queued: a step either    *)
(* appends or keeps some of the nodes.                                     *)
SameRequest(n, m) ==
  m.cmd = n.cmd /\ m.reback = n.reback /\ m.origin = n.origin /\ m.sn = n.sn

Kept == /\ \A i \in DOMAIN list' : i \in DOMAIN list /\ SameRequest(list[i], list'[i])
        /\ lastId' = lastId /\ sn' = sn

LEMMA StepShape ==
  TypeOK /\ [Next]_vars =>
    \/ Kept
    \/ \E o \in Origins, s \in Sns : SendRespond(o, s)
    \/ \E c \in Cmds : SendRequst(c)
    \/ RequstConnect
    \/ ReportGpioChange
<1> SUFFICES ASSUME TypeOK, [Next]_vars,
                    ~ (\E o \in Origins, s \in Sns : SendRespond(o, s)),
                    ~ (\E c \in Cmds : SendRequst(c)),
                    ~ RequstConnect, ~ ReportGpioChange
             PROVE  Kept
  OBVIOUS
<1>t. \A i \in DOMAIN list : list[i] \in Node
  BY DEF TypeOK
<1>put. ASSUME NEW K
        PROVE  /\ DOMAIN PutOff(list, K) = DOMAIN list
               /\ \A i \in DOMAIN list : SameRequest(list[i], PutOff(list, K)[i])
  <2>1. \A n \in Node : \A seconds : SameRequest(n, Postponed(n, seconds))
    BY DEF Node, Postponed, SameRequest
  <2>2. \A n \in Node : SameRequest(n, n)
    BY DEF SameRequest
  <2> QED
    BY <1>t, <2>1, <2>2 DEF PutOff
<1>1. ASSUME NEW s \in Sns, DeleteRequst(s) PROVE Kept
  <2>1. PICK k \in DOMAIN list : list' = Without(list, {k}) /\ UNCHANGED <<lastId, sn>>
    BY <1>1 DEF DeleteRequst
  <2> QED
    BY <2>1 DEF Without, SameRequest, Kept
<1>2. ASSUME NEW k \in DOMAIN list, NEW ok \in BOOLEAN, Transmit(k, ok) PROVE Kept
  <2> DEFINE skipped == PutOff(list, {i \in DueIds(list) : i < k})
             again   == Postponed(Counted(list[k], ok), MAX_RESEND_INTERVAL)
  <2>1. SameRequest(list[k], again)
    <3>1. SameRequest(list[k], Counted(list[k], ok)) /\ Counted(list[k], ok) \in Node
      BY <1>t, CountedType DEF Counted, SameRequest, Node
    <3>2. SameRequest(Counted(list[k], ok), again)
      BY <3>1 DEF Postponed, SameRequest, Node
    <3> HIDE DEF again
    <3> QED
      BY <3>1, <3>2 DEF SameRequest
  <2>2. /\ DOMAIN skipped = DOMAIN list
        /\ \A i \in DOMAIN list : SameRequest(list[i], skipped[i])
    BY <1>put
  <2>3. /\ list' = IF Finished(list[k], ok) THEN Without(skipped, {k})
                   ELSE [skipped EXCEPT ![k] = again]
        /\ UNCHANGED <<lastId, sn>>
    BY <1>2 DEF Transmit
  <2> HIDE DEF skipped, again
  <2>4. CASE Finished(list[k], ok)
    BY <2>2, <2>3, <2>4 DEF Kept, Without
  <2>5. CASE ~Finished(list[k], ok)
    BY <2>1, <2>2, <2>3, <2>5 DEF Kept
  <2> QED
    BY <2>4, <2>5
<1>3. ASSUME NothingWritable PROVE Kept
  BY <1>3, <1>put DEF NothingWritable, Kept
<1>aged. ASSUME NEW seconds, list' = Aged(list, seconds), UNCHANGED <<lastId, sn>>
         PROVE  Kept
  BY <1>aged, <1>t DEF Aged, Node, SameRequest, Kept
<1>4. ASSUME Tick PROVE Kept
  BY <1>4, <1>aged DEF Tick
<1>5. ASSUME NEW d \in (-MaxSetback .. MaxJump) \ {0}, SyncNetworkTime(d) PROVE Kept
  BY <1>5, <1>aged DEF SyncNetworkTime
<1>6. ASSUME UNCHANGED <<list, lastId, sn>> PROVE Kept
  BY <1>6 DEF Kept, SameRequest
<1> QED
  BY <1>1, <1>2, <1>3, <1>4, <1>5, <1>6
     DEF Next, Handler, SendSocketData, AfterDhcp, AfterApDisconnect, vars

LEMMA ConnectStep == TypeOK /\ ConnectLeads /\ [Next]_vars => ConnectLeads'
<1> SUFFICES ASSUME TypeOK, ConnectLeads, [Next]_vars PROVE ConnectLeads'
  OBVIOUS
<1>t. lastId \in Nat /\ DOMAIN list \subseteq 1 .. lastId
  BY DEF TypeOK
<1>c. Connect # Answer /\ Connect # Report
  BY CmdAssumption
<1>new. \A cmd, reback, origin, s : NewNode(cmd, reback, origin, s).cmd = cmd
  BY DEF NewNode
<1>app. ASSUME NEW cmd, NEW reback, NEW origin, NEW s, cmd # Connect,
               Append1(list, NewNode(cmd, reback, origin, s))
        PROVE  ConnectLeads'
  <2> DEFINE node == NewNode(cmd, reback, origin, s)
  <2>1. list' = Queued(list, lastId + 1, node) /\ node.cmd # Connect
    BY <1>app, <1>new DEF Append1
  <2> HIDE DEF node
  <2> QED
    BY <1>t, <2>1 DEF ConnectLeads, Tcp, Queued
<1>1. CASE Kept
  BY <1>1 DEF Kept, ConnectLeads, Tcp, SameRequest
<1>2. ASSUME NEW o \in Origins, NEW s \in Sns, SendRespond(o, s) PROVE ConnectLeads'
  BY <1>2, <1>c, <1>app DEF SendRespond
<1>3. ASSUME NEW c \in Cmds, SendRequst(c) PROVE ConnectLeads'
  BY <1>3, <1>app DEF SendRequst
<1>4. CASE RequstConnect
  <2> DEFINE node == NewNode(Connect, FALSE, "tcp", sn')
  <2>1. list' = Queued(Purged(list), lastId + 1, node)
    BY <1>4 DEF RequstConnect, Append1
  <2>2. \A i \in DOMAIN Purged(list) : i \in DOMAIN list /\ Purged(list)[i] = list[i]
                                       /\ list[i].origin # "tcp"
    BY DEF Purged, Without, Tcp
  <2> HIDE DEF node
  <2> QED
    BY <1>t, <2>1, <2>2 DEF ConnectLeads, Tcp, Queued
<1>5. CASE ReportGpioChange
  <2> DEFINE first  == NewNode(Report, FALSE, "udp", NextSn(sn))
             second == NewNode(Report, FALSE, "tcp", NextSn(NextSn(sn)))
  <2>1. list' = Queued(Queued(list, lastId + 1, first), lastId + 2, second)
    BY <1>5 DEF ReportGpioChange
  <2>2. first.cmd # Connect /\ second.cmd # Connect
    BY <1>c, <1>new
  <2> HIDE DEF first, second
  <2> QED
    BY <1>t, <2>1, <2>2 DEF ConnectLeads, Tcp, Queued
<1> QED
  BY <1>1, <1>2, <1>3, <1>4, <1>5, StepShape

(* Once the request to log in is queued, the server gets it before any     *)
(* other TCP packet: what was meant for the old connection has gone.       *)
THEOREM ConnectFirst == Spec => []ConnectLeads
<1>1. ASSUME Init PROVE ConnectLeads
  <2>1. DOMAIN list = {}
    BY <1>1 DEF Init
  <2> QED
    BY <2>1 DEF ConnectLeads
<1> QED
  BY <1>1, TypeCorrect, ConnectStep, PTL DEF Spec

-----------------------------------------------------------------------------
(* Sequence numbers.  t is the number d requests after s.                  *)
Ahead(s, t, d) == t = s + d \/ t = s + d - INVALID_SN_NUM

(* The requests of q carry numbers that lie apart by no more than their    *)
(* positions do, and so does the counter s, as long as it cannot have gone *)
(* all the way round.                                                      *)
Numbered(q, last, s) ==
  /\ s \in Sns
  /\ \A i \in DOMAIN q : i \in 1 .. last /\ q[i].sn \in Sns
  /\ \A i \in DOMAIN q :
       ~q[i].reback /\ last - i < INVALID_SN_NUM =>
         \E d \in 0 .. last - i : Ahead(q[i].sn, s, d)
  /\ \A i, j \in DOMAIN q :
       ~q[i].reback /\ ~q[j].reback /\ i < j /\ j - i < INVALID_SN_NUM =>
         \E d \in 1 .. j - i : Ahead(q[i].sn, q[j].sn, d)

SnInv == Numbered(list, lastId, sn)

LEMMA NextAhead ==
  ASSUME NEW s \in Sns, NEW t \in Sns, NEW d \in Nat, d + 1 < INVALID_SN_NUM,
         Ahead(s, t, d)
  PROVE  Ahead(s, NextSn(t), d + 1)
BY LimitAssumption DEF Ahead, NextSn, Sns

LEMMA AheadDiffers ==
  ASSUME NEW s \in Sns, NEW t \in Sns, NEW d \in Nat \ {0}, d < INVALID_SN_NUM,
         Ahead(s, t, d)
  PROVE  s # t
BY LimitAssumption DEF Ahead, Sns

LEMMA NumberedRequst ==
  ASSUME NEW q, NEW last \in Nat, NEW s, Numbered(q, last, s),
         NEW node, node.sn = NextSn(s)
  PROVE  Numbered(Queued(q, last + 1, node), last + 1, NextSn(s))
<1> DEFINE r == Queued(q, last + 1, node)
<1>n. s \in Sns /\ NextSn(s) \in Sns /\ INVALID_SN_NUM \in Nat
  BY NextSnType, LimitAssumption DEF Numbered
<1>r. /\ DOMAIN r = DOMAIN q \cup {last + 1} /\ r[last + 1] = node
      /\ \A i \in DOMAIN q : i \in 1 .. last /\ r[i] = q[i] /\ q[i].sn \in Sns
  BY DEF Queued, Numbered
<1>1. \A i \in DOMAIN r : i \in 1 .. last + 1 /\ r[i].sn \in Sns
  BY <1>n, <1>r
<1>2. ASSUME NEW i \in DOMAIN q, ~q[i].reback, last + 1 - i < INVALID_SN_NUM
      PROVE  \E d \in 1 .. last + 1 - i : Ahead(q[i].sn, NextSn(s), d)
  <2>1. i \in 1 .. last /\ last - i < INVALID_SN_NUM
    BY <1>n, <1>r, <1>2
  <2>2. PICK d \in 0 .. last - i : Ahead(q[i].sn, s, d)
    BY <1>2, <2>1 DEF Numbered
  <2>3. d \in Nat /\ d + 1 < INVALID_SN_NUM /\ d + 1 \in 1 .. last + 1 - i
    BY <1>n, <1>2, <2>1
  <2>4. Ahead(q[i].sn, NextSn(s), d + 1)
    BY <1>n, <1>r, <2>2, <2>3, NextAhead
  <2> QED
    BY <2>3, <2>4
<1>3. ASSUME NEW i \in DOMAIN r, ~r[i].reback, last + 1 - i < INVALID_SN_NUM
      PROVE  \E d \in 0 .. last + 1 - i : Ahead(r[i].sn, NextSn(s), d)
  <2>1. CASE i = last + 1
    <3>1. Ahead(NextSn(s), NextSn(s), 0)
      BY <1>n DEF Ahead, Sns
    <3>2. r[i].sn = NextSn(s) /\ 0 \in 0 .. last + 1 - i
      BY <1>r, <2>1
    <3> QED
      BY <3>1, <3>2
  <2>2. CASE i \in DOMAIN q
    <3>1. PICK d \in 1 .. last + 1 - i : Ahead(q[i].sn, NextSn(s), d)
      BY <1>r, <1>2, <1>3, <2>2
    <3>2. d \in 0 .. last + 1 - i
      BY <1>r, <2>2
    <3> QED
      BY <1>r, <2>2, <3>1, <3>2
  <2> QED
    BY <1>r, <2>1, <2>2
<1>4. ASSUME NEW i \in DOMAIN r, NEW j \in DOMAIN r, ~r[i].reback, ~r[j].reback,
             i < j, j - i < INVALID_SN_NUM
      PROVE  \E d \in 1 .. j - i : Ahead(r[i].sn, r[j].sn, d)
  <2>1. i \in DOMAIN q
    BY <1>r, <1>1, <1>4
  <2>2. CASE j \in DOMAIN q
    BY <1>r, <1>4, <2>1, <2>2 DEF Numbered
  <2>3. CASE j = last + 1
    BY <1>r, <1>2, <1>4, <2>1, <2>3
  <2> QED
    BY <1>r, <2>2, <2>3
<1> HIDE DEF r
<1> QED
  BY <1>n, <1>1, <1>3, <1>4 DEF Numbered, r

LEMMA NumberedRespond ==
  ASSUME NEW q, NEW last \in Nat, NEW s, Numbered(q, last, s),
         NEW node, node.reback, node.sn \in Sns
  PROVE  Numbered(Queued(q, last + 1, node), last + 1, s)
<1> DEFINE r == Queued(q, last + 1, node)
<1>r. /\ DOMAIN r = DOMAIN q \cup {last + 1} /\ r[last + 1] = node
      /\ \A i \in DOMAIN q : i \in 1 .. last /\ r[i] = q[i] /\ q[i].sn \in Sns
      /\ INVALID_SN_NUM \in Nat /\ s \in Sns
  BY LimitAssumption DEF Queued, Numbered
<1>1. \A i \in DOMAIN r : i \in 1 .. last + 1 /\ r[i].sn \in Sns
  BY <1>r
<1>2. ASSUME NEW i \in DOMAIN r, ~r[i].reback, last + 1 - i < INVALID_SN_NUM
      PROVE  \E d \in 0 .. last + 1 - i : Ahead(r[i].sn, s, d)
  <2>1. i \in DOMAIN q /\ i \in 1 .. last /\ ~q[i].reback /\ last - i < INVALID_SN_NUM
    BY <1>r, <1>2
  <2>2. PICK d \in 0 .. last - i : Ahead(q[i].sn, s, d)
    BY <2>1 DEF Numbered
  <2>3. d \in 0 .. last + 1 - i
    BY <2>1
  <2> QED
    BY <1>r, <2>1, <2>2, <2>3
<1>3. ASSUME NEW i \in DOMAIN r, NEW j \in DOMAIN r, ~r[i].reback, ~r[j].reback,
             i < j, j - i < INVALID_SN_NUM
      PROVE  \E d \in 1 .. j - i : Ahead(r[i].sn, r[j].sn, d)
  <2>1. i \in DOMAIN q /\ j \in DOMAIN q
    BY <1>r, <1>3
  <2> QED
    BY <1>r, <1>3, <2>1 DEF Numbered
<1> HIDE DEF r
<1> QED
  BY <1>r, <1>1, <1>2, <1>3 DEF Numbered, r

LEMMA SnStep == TypeOK /\ SnInv /\ [Next]_vars => SnInv'
<1> SUFFICES ASSUME TypeOK, SnInv, [Next]_vars PROVE SnInv'
  OBVIOUS
<1>t. lastId \in Nat /\ sn \in Sns /\ Numbered(list, lastId, sn)
  BY DEF TypeOK, SnInv
<1>1. CASE Kept
  BY <1>1, <1>t DEF Kept, SnInv, Numbered, SameRequest
<1>2. ASSUME NEW o \in Origins, NEW s \in Sns, SendRespond(o, s) PROVE SnInv'
  <2> DEFINE node == NewNode(Answer, TRUE, o, s)
  <2>1. list' = Queued(list, lastId + 1, node) /\ lastId' = lastId + 1 /\ sn' = sn
    BY <1>2 DEF SendRespond, Append1
  <2>2. node.reback /\ node.sn \in Sns
    BY DEF NewNode
  <2> HIDE DEF node
  <2> QED
    BY <1>t, <2>1, <2>2, NumberedRespond DEF SnInv
<1>3. ASSUME NEW c \in Cmds, SendRequst(c) PROVE SnInv'
  <2> DEFINE node == NewNode(c, FALSE, "tcp", NextSn(sn))
  <2>1. list' = Queued(list, lastId + 1, node) /\ lastId' = lastId + 1 /\ sn' = NextSn(sn)
    BY <1>3 DEF SendRequst, Append1
  <2>2. node.sn = NextSn(sn)
    BY DEF NewNode
  <2> HIDE DEF node
  <2> QED
    BY <1>t, <2>1, <2>2, NumberedRequst DEF SnInv
<1>4. CASE RequstConnect
  <2> DEFINE node == NewNode(Connect, FALSE, "tcp", NextSn(sn))
  <2>1. list' = Queued(Purged(list), lastId + 1, node) /\ lastId' = lastId + 1
        /\ sn' = NextSn(sn)
    BY <1>4 DEF RequstConnect, Append1
  <2>2. node.sn = NextSn(sn)
    BY DEF NewNode
  <2>3. Numbered(Purged(list), lastId, sn)
    <3>1. \A i \in DOMAIN Purged(list) : i \in DOMAIN list /\ Purged(list)[i] = list[i]
      BY DEF Purged, Without
    <3> QED
      BY <1>t, <3>1 DEF Numbered
  <2> HIDE DEF node
  <2> QED
    BY <1>t, <2>1, <2>2, <2>3, NumberedRequst DEF SnInv
<1>5. CASE ReportGpioChange
  <2> DEFINE first  == NewNode(Report, FALSE, "udp", NextSn(sn))
             second == NewNode(Report, FALSE, "tcp", NextSn(NextSn(sn)))
             r      == Queued(list, lastId + 1, first)
  <2>1. /\ list' = Queued(r, lastId + 2, second)
        /\ lastId' = lastId + 2 /\ sn' = NextSn(NextSn(sn))
    BY <1>5 DEF ReportGpioChange
  <2>2. first.sn = NextSn(sn) /\ second.sn = NextSn(NextSn(sn))
    BY DEF NewNode
  <2> HIDE DEF first, second
  <2>3. Numbered(r, lastId + 1, NextSn(sn))
    BY <1>t, <2>2, NumberedRequst
  <2> HIDE DEF r
  <2>4. lastId + 1 \in Nat /\ lastId + 2 = (lastId + 1) + 1
    BY <1>t
  <2>5. Numbered(Queued(r, (lastId + 1) + 1, second), (lastId + 1) + 1, NextSn(NextSn(sn)))
    BY <2>2, <2>3, <2>4, NumberedRequst
  <2> QED
    BY <2>1, <2>4, <2>5 DEF SnInv
<1> QED
  BY <1>1, <1>2, <1>3, <1>4, <1>5, StepShape

(* Requests that wait for their answers at the same time are told apart by *)
(* their sequence numbers, unless INVALID_SN_NUM packets lie between them. *)
THEOREM SnDistinct == Spec => []RequstSnDistinct
<1>1. ASSUME Init PROVE SnInv
  <2>1. DOMAIN list = {}
    BY <1>1 DEF Init
  <2>2. sn \in Sns
    <3>1. 0 \in 0 .. INVALID_SN_NUM - 1
      BY LimitAssumption
    <3> QED
      BY <1>1, <3>1 DEF Init, Sns
  <2> QED
    BY <2>1, <2>2 DEF SnInv, Numbered
<1>2. TypeOK /\ SnInv => RequstSnDistinct
  <2> SUFFICES ASSUME TypeOK, SnInv, NEW i \in DOMAIN list, NEW j \in DOMAIN list,
                      ~list[i].reback, ~list[j].reback,
                      i < j, j - i < INVALID_SN_NUM
               PROVE  list[i].sn # list[j].sn
    BY DEF RequstSnDistinct
  <2>1. PICK d \in 1 .. j - i : Ahead(list[i].sn, list[j].sn, d)
    BY DEF SnInv, Numbered
  <2>2. i \in Nat /\ j \in Nat /\ list[i].sn \in Sns /\ list[j].sn \in Sns
    BY DEF SnInv, Numbered
  <2>3. d \in Nat \ {0} /\ d < INVALID_SN_NUM
    BY <2>2, LimitAssumption
  <2> QED
    BY <2>1, <2>2, <2>3, AheadDiffers
<1> QED
  BY <1>1, <1>2, TypeCorrect, SnStep, PTL DEF Spec

-----------------------------------------------------------------------------
(* All of it: what holds of the packets in the list, for every number of   *)
(* packets, every value of the limits and every movement of the clock.     *)
THEOREM ListCorrect == Spec => []SendInv
<1>1. TypeOK /\ AttemptsBounded /\ WaitBounded /\ ConnectLeads /\ RequstSnDistinct
        => SendInv
  BY DEF SendInv
<1> QED
  BY <1>1, TypeCorrect, Attempts, Waits, ConnectFirst, SnDistinct, PTL

-----------------------------------------------------------------------------
(* A packet that was queued keeps its history: a step adds nodes behind it, *)
(* or hands one node to its socket.                                         *)
LEMMA HistShape ==
  ASSUME TypeOK, [Next]_vars
  PROVE  \/ \A k \in DOMAIN hist : hist'[k] = hist[k]
         \/ \E k \in DOMAIN list, ok \in BOOLEAN : Transmit(k, ok)
<1>t. lastId \in Nat /\ DOMAIN hist = 1 .. lastId
  BY DEF TypeOK
<1>app. ASSUME NEW q, NEW node, Append1(q, node)
        PROVE  \A k \in DOMAIN hist : hist'[k] = hist[k]
  BY <1>t, <1>app DEF Append1, Queued
<1>1. CASE \E o \in Origins, s \in Sns : SendRespond(o, s)
  BY <1>1, <1>app DEF SendRespond
<1>2. CASE \E c \in Cmds : SendRequst(c)
  BY <1>2, <1>app DEF SendRequst
<1>3. CASE RequstConnect
  BY <1>3, <1>app DEF RequstConnect
<1>4. CASE ReportGpioChange
  <2> DEFINE first  == NewNode(Report, FALSE, "udp", NextSn(sn))
             second == NewNode(Report, FALSE, "tcp", NextSn(NextSn(sn)))
  <2>1. hist' = Queued(Queued(hist, lastId + 1, NewHist(first)), lastId + 2, NewHist(second))
    BY <1>4 DEF ReportGpioChange
  <2> HIDE DEF first, second
  <2> QED
    BY <1>t, <2>1 DEF Queued
<1>5. CASE UNCHANGED hist
  BY <1>5
<1> QED
  BY <1>1, <1>2, <1>3, <1>4, <1>5
     DEF Next, Handler, SendSocketData, DeleteRequst, NothingWritable, Tick,
         SyncNetworkTime, 
         AfterDhcp, AfterApDisconnect, vars

LEMMA PutOffWaits ==
  ASSUME NEW n \in Node
  PROVE  ~Due(Postponed(n, MAX_RESEND_INTERVAL \div 2))
<1>1. PICK half \in Nat : half = MAX_RESEND_INTERVAL \div 2
  BY LimitAssumption
<1>2. Postponed(n, half).fresh = FALSE /\ Postponed(n, half).wait = half
  BY DEF Postponed, Node
<1> QED
  BY <1>1, <1>2 DEF Due

(* No packet overtakes an older one that is due: when sendSocketData hands  *)
(* a packet to its socket, whatever older packet is left was found not      *)
(* writable, and put off, or is waiting for its answer.                     *)
THEOREM InTurn == Spec => NoOvertaking
<1>1. ASSUME TypeOK, [Next]_vars, NEW k \in DOMAIN hist,
             k \in DOMAIN hist', hist'[k].sent # hist[k].sent,
             NEW i \in DOMAIN list', i < k
      PROVE  ~Due(list'[i])
  <2>1. PICK j \in DOMAIN list, ok \in BOOLEAN : Transmit(j, ok)
    BY <1>1, HistShape
  <2>2. hist' = [hist EXCEPT ![j] = Attempted(@, ok)]
    BY <2>1 DEF Transmit
  <2>3. k = j
    BY <1>1, <2>2
  <2> DEFINE I       == {n \in DueIds(list) : n < j}
             skipped == PutOff(list, I)
             again   == Postponed(Counted(list[j], ok), MAX_RESEND_INTERVAL)
  <2>4. list' = IF Finished(list[j], ok) THEN Without(skipped, {j})
                ELSE [skipped EXCEPT ![j] = again]
    BY <2>1 DEF Transmit
  <2>5. DOMAIN skipped = DOMAIN list
    BY DEF PutOff
  <2>6. i # j
    BY <1>1, <2>3 DEF TypeOK
  <2> HIDE DEF skipped, again
  <2>7. i \in DOMAIN list /\ list'[i] = skipped[i]
    BY <2>4, <2>5, <2>6 DEF Without
  <2>8. CASE i \in I
    <3>1. skipped[i] = Postponed(list[i], MAX_RESEND_INTERVAL \div 2)
      BY <2>7, <2>8 DEF PutOff, skipped
    <3>2. list[i] \in Node
      BY <1>1, <2>7 DEF TypeOK
    <3> QED
      BY <2>7, <3>1, <3>2, PutOffWaits
  <2>9. CASE i \notin I
    <3>1. skipped[i] = list[i]
      BY <2>7, <2>9 DEF PutOff, skipped
    <3>2. ~Due(list[i])
      BY <1>1, <2>3, <2>7, <2>9 DEF DueIds
    <3> QED
      BY <2>7, <3>1, <3>2
  <2> QED
    BY <2>8, <2>9
<1>2. ASSUME TypeOK, [Next]_vars
      PROVE  [\A k \in DOMAIN hist :
                k \in DOMAIN hist' /\ hist'[k].sent # hist[k].sent =>
                  \A i \in DOMAIN list' : i < k => ~Due(list'[i])]_vars
  BY <1>1, <1>2
<1> QED
  BY <1>2, TypeCorrect, PTL DEF Spec, NoOvertaking

-----------------------------------------------------------------------------
(* What the server link sees of the list.                                  *)

Pending(q)  == {i \in Tcp(q) : Awaits(q[i])}
Entry(q, i) == [id |-> i, login |-> q[i].cmd = Connect, sent |-> q[i].sendCount]
Waiting(q)  == {Entry(q, i) : i \in Pending(q)}

Alike(n, m) ==
  /\ m.cmd = n.cmd /\ m.reback = n.reback /\ m.origin = n.origin
  /\ m.sendCount = n.sendCount

\* But for node k, r shows what q shows.
Others(q, r, k) ==
  \A i : i # k => /\ i \in DOMAIN q <=> i \in DOMAIN r
                  /\ i \in DOMAIN q => Alike(q[i], r[i])

(* So only the entry of k differs.                                         *)
LEMMA WaitingBut ==
  ASSUME NEW q, NEW r, NEW k, Others(q, r, k)
  PROVE  Waiting(r) = (Waiting(q) \ (IF k \in Pending(q) THEN {Entry(q, k)} ELSE {}))
                        \cup (IF k \in Pending(r) THEN {Entry(r, k)} ELSE {})
<1>1. \A i : i # k => /\ i \in Pending(q) <=> i \in Pending(r)
                      /\ i \in Pending(q) => Entry(q, i) = Entry(r, i)
  BY DEF Others, Alike, Pending, Tcp, Awaits, Entry
<1>2. \A i : i # k => Entry(q, i) # Entry(q, k)
  <2>1. \A i : Entry(q, i).id = i
    BY DEF Entry
  <2> QED
    BY <2>1
<1> QED
  BY <1>1, <1>2 DEF Waiting

(* A list that shows the same shows the same requests.                     *)
LEMMA WaitingSame ==
  ASSUME NEW q, NEW r, DOMAIN r = DOMAIN q, \A i \in DOMAIN q : Alike(q[i], r[i])
  PROVE  Waiting(r) = Waiting(q)
<1>1. Pending(q) = Pending(r)
  BY DEF Alike, Pending, Tcp, Awaits
<1>2. \A i \in Pending(q) : Entry(q, i) = Entry(r, i)
  BY DEF Alike, Pending, Tcp, Entry
<1> QED
  BY <1>1, <1>2 DEF Waiting

LEMMA AlikeSame == \A n : Alike(n, n)
BY DEF Alike

LEMMA PostponedAlike ==
  ASSUME NEW n \in Node, NEW seconds
  PROVE  Alike(n, Postponed(n, seconds))
BY DEF Node, Postponed, Alike

(* An appended node shows if somebody may answer it.                       *)
LEMMA WaitingQueued ==
  ASSUME NEW q, NEW k, k \notin DOMAIN q, NEW node
  PROVE  Waiting(Queued(q, k, node)) =
           Waiting(q) \cup
             (IF node.origin = "tcp" /\ Awaits(node)
              THEN {[id |-> k, login |-> node.cmd = Connect, sent |-> node.sendCount]}
              ELSE {})
<1> DEFINE r == Queued(q, k, node)
<1>1. DOMAIN r = DOMAIN q \cup {k} /\ r[k] = node /\ \A i \in DOMAIN q : i # k => r[i] = q[i]
  BY DEF Queued
<1> HIDE DEF r
<1>2. Others(q, r, k)
  BY <1>1, AlikeSame DEF Others
<1>3. k \notin Pending(q) /\ (k \in Pending(r) <=> node.origin = "tcp" /\ Awaits(node))
  BY <1>1 DEF Pending, Tcp
<1>4. Entry(r, k) = [id |-> k, login |-> node.cmd = Connect, sent |-> node.sendCount]
  BY <1>1 DEF Entry
<1>5. Waiting(r) = (Waiting(q) \ {}) \cup (IF k \in Pending(r) THEN {Entry(r, k)} ELSE {})
  BY <1>2, <1>3, WaitingBut
<1> QED
  BY <1>3, <1>4, <1>5 DEF r

(* A dropped node no longer shows.                                         *)
LEMMA WaitingWithout ==
  ASSUME NEW q, NEW k
  PROVE  Waiting(Without(q, {k})) =
           Waiting(q) \ (IF k \in Pending(q) THEN {Entry(q, k)} ELSE {})
<1> DEFINE r == Without(q, {k})
<1>1. DOMAIN r = DOMAIN q \ {k} /\ \A i \in DOMAIN r : r[i] = q[i]
  BY DEF Without
<1> HIDE DEF r
<1>2. Others(q, r, k)
  BY <1>1, AlikeSame DEF Others
<1>3. k \notin Pending(r)
  BY <1>1 DEF Pending, Tcp
<1> QED
  BY <1>2, <1>3, WaitingBut DEF r

(* Every step is one of the promised ones.                                 *)
LEMMA Promised ==
  TypeOK /\ [Next]_vars => Box!Next \/ UNCHANGED <<lastId, Waiting(list)>>
<1> SUFFICES ASSUME TypeOK, [Next]_vars
             PROVE  Box!Next \/ UNCHANGED <<lastId, Waiting(list)>>
  OBVIOUS
<1> DEFINE Goal == Box!Next \/ UNCHANGED <<lastId, Waiting(list)>>
<1>t. /\ lastId \in Nat /\ ListOf(list, lastId)
      /\ \A i \in DOMAIN list : list[i] \in Node
  BY DEF TypeOK, ListOf
<1>box. /\ Box!Pass <=> lastId' > lastId /\ Waiting(list)' = Waiting(list)
        /\ Box!Ask <=> /\ lastId' > lastId
                       /\ Waiting(list)' = Waiting(list)
                            \cup {[id |-> lastId', login |-> FALSE, sent |-> 0]}
        /\ Box!LogIn <=> /\ lastId' > lastId
                         /\ Waiting(list)' = {[id |-> lastId', login |-> TRUE, sent |-> 0]}
  BY DEF Box!Pass, Box!Ask, Box!LogIn, Box!New, Waiting, Entry, Pending, Requests
<1>one. ASSUME NEW p \in Waiting(list), Box!Leave(p) \/ Box!Send(p) PROVE Box!Next
  <2>1. p \in {[id |-> i, login |-> list[i].cmd = Connect,
                sent |-> list[i].sendCount] : i \in Requests}
    BY DEF Waiting, Entry, Pending, Requests
  <2> QED
    BY <1>one, <2>1, Zenon DEF Box!Next
<1>leave. ASSUME NEW k \in Pending(list), Waiting(list)' = Waiting(list) \ {Entry(list, k)},
                 lastId' = lastId
          PROVE  Goal
  <2>1. PICK p \in Waiting(list) : p = Entry(list, k)
    BY DEF Waiting
  <2>2. Box!Leave(p)
    BY <1>leave, <2>1 DEF Box!Leave, Waiting, Entry, Pending, Requests
  <2> QED
    BY <1>one, <2>2
<1>send. ASSUME NEW k \in Pending(list), lastId' = lastId,
                Waiting(list)' = (Waiting(list) \ {Entry(list, k)}) \cup
                  (IF list[k].sendCount + 1 < MAX_RESEND_COUNT
                   THEN {[Entry(list, k) EXCEPT !.sent = @ + 1]} ELSE {})
         PROVE  Goal
  <2>1. PICK p \in Waiting(list) : p = Entry(list, k)
    BY DEF Waiting
  <2>2. p.sent = list[k].sendCount
    BY <2>1 DEF Entry
  <2>3. Box!Send(p)
    BY <1>send, <2>1, <2>2 DEF Box!Send, Waiting, Entry, Pending, Requests
  <2> QED
    BY <1>one, <2>3
<1>new. ASSUME NEW cmd, NEW reback, NEW origin, NEW s
        PROVE  LET node == NewNode(cmd, reback, origin, s)
               IN  /\ node.cmd = cmd /\ node.origin = origin /\ node.sendCount = 0
                   /\ Awaits(node) <=> ~reback /\ cmd \notin NoWaitCmds
  BY DEF NewNode, Awaits
<1>next. lastId + 1 > lastId /\ lastId + 2 > lastId /\ lastId + 1 \notin DOMAIN list
         /\ lastId + 2 # lastId + 1 /\ lastId + 2 \notin DOMAIN list
  BY <1>t DEF ListOf
<1> HIDE DEF Goal
<1>1. ASSUME NEW o \in Origins, NEW s \in Sns, SendRespond(o, s) PROVE Goal
  <2> DEFINE node == NewNode(Answer, TRUE, o, s)
  <2>1. lastId' = lastId + 1 /\ list' = Queued(list, lastId + 1, node) /\ ~Awaits(node)
    BY <1>1, <1>new DEF SendRespond, Append1
  <2> HIDE DEF node
  <2>2. Waiting(list') = Waiting(list)
    BY <1>next, <2>1, WaitingQueued
  <2> QED
    BY <1>box, <1>next, <2>1, <2>2 DEF Goal, Box!Next
<1>2. ASSUME NEW c \in Cmds, SendRequst(c) PROVE Goal
  <2> DEFINE node == NewNode(c, FALSE, "tcp", sn')
  <2>1. lastId' = lastId + 1 /\ list' = Queued(list, lastId + 1, node) /\ c # Connect
    BY <1>2 DEF SendRequst, Append1
  <2>2. /\ node.cmd = c /\ node.origin = "tcp" /\ node.sendCount = 0
        /\ Awaits(node) <=> c \notin NoWaitCmds
    BY DEF NewNode, Awaits
  <2> HIDE DEF node
  <2>3. CASE c \in NoWaitCmds
    <3>1. Waiting(list') = Waiting(list)
      BY <1>next, <2>1, <2>2, <2>3, WaitingQueued
    <3> QED
      BY <1>box, <1>next, <2>1, <3>1 DEF Goal, Box!Next
  <2>4. CASE c \notin NoWaitCmds
    <3>1. Waiting(list') = Waiting(list) \cup
            {[id |-> lastId + 1, login |-> node.cmd = Connect, sent |-> node.sendCount]}
      BY <1>next, <2>1, <2>2, <2>4, WaitingQueued
    <3>2. (node.cmd = Connect) = FALSE
      BY <2>1, <2>2
    <3>3. Box!Ask
      BY <1>box, <1>next, <2>1, <2>2, <3>1, <3>2
    <3> QED
      BY <3>3 DEF Goal, Box!Next
  <2> QED
    BY <2>3, <2>4
<1>3. ASSUME RequstConnect PROVE Goal
  <2> DEFINE node == NewNode(Connect, FALSE, "tcp", sn')
  <2>1. lastId' = lastId + 1 /\ list' = Queued(Purged(list), lastId + 1, node)
    BY <1>3 DEF RequstConnect, Append1
  <2>2. /\ node.cmd = Connect /\ node.origin = "tcp" /\ node.sendCount = 0
        /\ Awaits(node)
    BY CmdAssumption DEF NewNode, Awaits
  <2> HIDE DEF node
  <2>3. Waiting(Purged(list)) = {} /\ DOMAIN Purged(list) \subseteq DOMAIN list
    BY DEF Waiting, Pending, Purged, Without, Tcp
  <2>4. Waiting(list') =
          {[id |-> lastId + 1, login |-> node.cmd = Connect, sent |-> node.sendCount]}
    BY <1>next, <2>1, <2>2, <2>3, WaitingQueued
  <2>5. (node.cmd = Connect) = TRUE
    BY <2>2
  <2>6. Box!LogIn
    BY <1>box, <1>next, <2>1, <2>2, <2>4, <2>5
  <2> QED
    BY <2>6 DEF Goal, Box!Next
<1>4. ASSUME ReportGpioChange PROVE Goal
  <2> DEFINE first  == NewNode(Report, FALSE, "udp", NextSn(sn))
             second == NewNode(Report, FALSE, "tcp", NextSn(NextSn(sn)))
             one    == Queued(list, lastId + 1, first)
  <2>1. lastId' = lastId + 2 /\ list' = Queued(one, lastId + 2, second)
    BY <1>4 DEF ReportGpioChange
  <2>2. ~Awaits(first) /\ ~Awaits(second)
    BY <1>new, CmdAssumption
  <2> HIDE DEF first, second
  <2>3. Waiting(one) = Waiting(list)
    BY <1>next, <2>2, WaitingQueued
  <2>4. lastId + 2 \notin DOMAIN one
    BY <1>next DEF Queued
  <2> HIDE DEF one
  <2>5. Waiting(list') = Waiting(list)
    BY <2>1, <2>2, <2>3, <2>4, WaitingQueued
  <2> QED
    BY <1>box, <1>next, <2>1, <2>5 DEF Goal, Box!Next
<1>5. ASSUME NEW s \in Sns, DeleteRequst(s) PROVE Goal
  <2>1. PICK k \in DOMAIN list : list' = Without(list, {k}) /\ UNCHANGED lastId
    BY <1>5 DEF DeleteRequst
  <2>2. CASE k \in Pending(list)
    BY <1>leave, <2>1, <2>2, WaitingWithout
  <2>3. CASE k \notin Pending(list)
    BY <2>1, <2>3, WaitingWithout DEF Goal
  <2> QED
    BY <2>2, <2>3
<1>put. ASSUME NEW K PROVE /\ DOMAIN PutOff(list, K) = DOMAIN list
                           /\ \A i \in DOMAIN list : Alike(list[i], PutOff(list, K)[i])
  BY <1>t, PostponedAlike, AlikeSame DEF PutOff
<1>6. ASSUME NEW k \in DOMAIN list, NEW ok \in BOOLEAN, Transmit(k, ok) PROVE Goal
  <2> DEFINE q     == PutOff(list, {i \in DueIds(list) : i < k})
             n     == list[k]
             c     == Counted(n, ok)
             again == Postponed(c, MAX_RESEND_INTERVAL)
  <2>1. /\ list' = IF Finished(n, ok) THEN Without(q, {k}) ELSE [q EXCEPT ![k] = again]
        /\ lastId' = lastId
    BY <1>6 DEF Transmit
  <2>2. DOMAIN q = DOMAIN list /\ \A i \in DOMAIN list : Alike(list[i], q[i])
    BY <1>put
  <2>3. n \in Node /\ c \in Node /\ Alike(c, again)
    BY <1>t, CountedType, PostponedAlike
  <2>4. /\ c.cmd = n.cmd /\ c.reback = n.reback /\ c.origin = n.origin
        /\ c.sendCount = IF ok /\ Awaits(n) THEN n.sendCount + 1 ELSE n.sendCount
    BY <2>3 DEF Counted, Node
  <2>5. Finished(n, ok) <=> IF ok THEN Awaits(n) => c.sendCount >= MAX_RESEND_COUNT
                            ELSE c.faildTimes >= MAX_FAILD_COUNT
    BY DEF Finished
  <2>6. n.sendCount \in Nat /\ MAX_RESEND_COUNT \in Nat
    BY <2>3, LimitAssumption DEF Node
  <2> HIDE DEF q, n, c, again
  <2>7. k \in Pending(list) <=> n.origin = "tcp" /\ Awaits(n)
    BY DEF Pending, Tcp, n
  <2>8. \A r : Others(q, r, k) => Others(list, r, k)
    BY <2>2 DEF Others, Alike
  <2>9. CASE Finished(n, ok)
    <3>1. list' = Without(q, {k})
      BY <2>1, <2>9
    <3>2. Others(list, list', k) /\ k \notin Pending(list')
      <4>1. k \notin DOMAIN list' /\ Others(q, list', k)
        BY <3>1, AlikeSame DEF Without, Others
      <4> QED
        BY <2>8, <4>1 DEF Pending, Tcp
    <3>3. Waiting(list') =
            Waiting(list) \ (IF k \in Pending(list) THEN {Entry(list, k)} ELSE {})
      BY <3>2, WaitingBut
    <3>4. CASE k \in Pending(list)
      BY <1>leave, <2>1, <3>3, <3>4
    <3>5. CASE k \notin Pending(list)
      BY <2>1, <3>3, <3>5 DEF Goal
    <3> QED
      BY <3>4, <3>5
  <2>10. CASE ~Finished(n, ok)
    <3>1. list' = [q EXCEPT ![k] = again]
      BY <2>1, <2>10
    <3>2. list'[k] = again /\ Others(list, list', k)
      <4>1. list'[k] = again /\ Others(q, list', k)
        BY <2>2, <3>1, AlikeSame DEF Others
      <4> QED
        BY <2>8, <4>1
    <3>3. k \in Pending(list') <=> k \in Pending(list)
      <4>1. DOMAIN list' = DOMAIN list
        BY <2>2, <3>1
      <4>2. Awaits(again) <=> Awaits(n)
        BY <2>3, <2>4 DEF Awaits, Alike
      <4>3. again.origin = n.origin
        BY <2>3, <2>4 DEF Alike
      <4> QED
        BY <2>7, <3>2, <4>1, <4>2, <4>3 DEF Pending, Tcp
    <3>4. CASE k \in Pending(list) /\ ok
      <4>1. c.sendCount = n.sendCount + 1 /\ n.sendCount + 1 < MAX_RESEND_COUNT
        <5>1. ok /\ Awaits(n)
          BY <2>7, <3>4
        <5>2. ~(c.sendCount >= MAX_RESEND_COUNT)
          BY <2>5, <2>10, <5>1
        <5>3. c.sendCount = n.sendCount + 1
          BY <2>4, <5>1
        <5> QED
          BY <2>6, <5>2, <5>3
      <4>2. Entry(list', k) = [Entry(list, k) EXCEPT !.sent = @ + 1]
        <5>1. again.sendCount = n.sendCount + 1 /\ again.cmd = n.cmd
          BY <2>3, <2>4, <4>1 DEF Alike
        <5> QED
          BY <3>2, <5>1 DEF Entry, n
      <4>3. Waiting(list') = (Waiting(list) \ {Entry(list, k)})
                               \cup {[Entry(list, k) EXCEPT !.sent = @ + 1]}
        BY <3>2, <3>3, <3>4, <4>2, WaitingBut
      <4> QED
        BY <1>send, <2>1, <3>4, <4>1, <4>3 DEF n
    <3>5. CASE ~(k \in Pending(list) /\ ok)
      <4>1. k \in Pending(list) => Entry(list', k) = Entry(list, k)
        <5>1. ASSUME k \in Pending(list) PROVE again.sendCount = n.sendCount
          BY <2>3, <2>4, <3>5, <5>1 DEF Alike
        <5>2. again.cmd = n.cmd
          BY <2>3, <2>4 DEF Alike
        <5> QED
          BY <3>2, <5>1, <5>2 DEF Entry, n
      <4>2. Waiting(list') = Waiting(list)
        <5>1. k \in Pending(list) => Entry(list, k) \in Waiting(list)
          BY DEF Waiting
        <5>2. Waiting(list') =
                (Waiting(list) \ (IF k \in Pending(list) THEN {Entry(list, k)} ELSE {}))
                  \cup (IF k \in Pending(list) THEN {Entry(list, k)} ELSE {})
          BY <3>2, <3>3, <4>1, WaitingBut
        <5> QED
          BY <5>1, <5>2
      <4> QED
        BY <2>1, <4>2 DEF Goal
    <3> QED
      BY <3>4, <3>5
  <2> QED
    BY <2>9, <2>10
<1>7. ASSUME NothingWritable PROVE Goal
  BY <1>7, <1>put, WaitingSame DEF NothingWritable, Goal
<1>aged. ASSUME NEW seconds, list' = Aged(list, seconds), UNCHANGED lastId
         PROVE  Goal
  <2>1. DOMAIN list' = DOMAIN list /\ \A i \in DOMAIN list : Alike(list[i], list'[i])
    BY <1>aged, <1>t DEF Aged, Node, Alike
  <2> QED
    BY <1>aged, <2>1, WaitingSame DEF Goal
<1>8. ASSUME Tick PROVE Goal
  BY <1>8, <1>aged DEF Tick
<1>9. ASSUME NEW d \in (-MaxSetback .. MaxJump) \ {0}, SyncNetworkTime(d) PROVE Goal
  BY <1>9, <1>aged DEF SyncNetworkTime
<1>10. ASSUME UNCHANGED <<list, lastId>> PROVE Goal
  BY <1>10 DEF Goal
<1> QED
  BY <1>1, <1>2, <1>3, <1>4, <1>5, <1>6, <1>7, <1>8, <1>9, <1>10
     DEF Next, Handler, SendSocketData, AfterDhcp, AfterApDisconnect, vars, Goal

(* With any commands, limits and intervals, any number of packets for      *)
(* either socket and any setting of the clock: a request to the server is  *)
(* kept until it was sent often enough, answered, given up or left behind  *)
(* by a log-in, and nothing that is done to one changes another.           *)
THEOREM PacketsKept == Spec => RequestsKept
<1>1. Init => Box!Init
  BY DEF Init, Box!Init, Requests, Tcp
<1>2. TypeOK /\ [Next]_vars =>
        [Box!Next]_<<lastId, {[id |-> i, login |-> list[i].cmd = Connect,
                               sent |-> list[i].sendCount] : i \in Requests}>>
  BY Promised DEF Waiting, Entry, Pending, Requests
<1> QED
  BY <1>1, <1>2, TypeCorrect, PTL DEF Spec, RequestsKept, Box!Spec
=============================================================================
