--------------------------- MODULE ReceptionProofs ---------------------------
(* Proofs about Reception: the types and that answers can be read, that     *)
(* only a packet that TCP has cut takes others with it, and that packets    *)
(* reach the list of messages in the order in which they were sent.         *)
EXTENDS Reception, TLAPS

(* Whoever gets a packet whole reads what was written: a body of 1 to 232   *)
(* bytes, the most that the one byte of the length can hold once it is      *)
(* padded, comes through with every key (createSendSocketData,              *)
(* encryptRecvSocketData).                                                  *)
THEOREM RoundTrip ==
  ASSUME NEW body \in 1 .. 232, NEW key \in Keys
  PROVE  /\ CreateSendSocketData(body, key) \in Wire
         /\ CreateSendSocketData(body, key).bytes =
              OPEN_DATA_LEN + CreateSendSocketData(body, key).dataLen
         /\ CreateSendSocketData(body, key).dataLen >= 8
         /\ CreateSendSocketData(body, key).body = body
         /\ CreateSendSocketData(body, key).key = key
         /\ Readable(CreateSendSocketData(body, key))
<1> DEFINE plain == U8(body + SECRET_DATA_LEN)
           pad   == IF key = "open" THEN 0 ELSE PKCS5PaddingFillData(plain)
           p     == CreateSendSocketData(body, key)
<1>1. plain = body + 7 /\ plain \in 8 .. 239
  BY DEF U8, SECRET_DATA_LEN
<1>2. pad \in 0 .. 16 /\ plain + pad <= 240 /\ (key # "open" => pad > 0)
  <2> HIDE DEF plain
  <2>1. plain % 16 \in 0 .. 15 /\ plain - (plain % 16) <= 224
    BY <1>1
  <2> QED
    BY <1>1, <2>1 DEF PKCS5PaddingFillData, AES_BLOCK_SIZE
<1>3. U8(plain + pad) = plain + pad /\ plain + pad \in 8 .. 240
  <2> HIDE DEF plain, pad
  <2> QED
    BY <1>1, <1>2 DEF U8
<1>4. p = [body |-> body, key |-> key, bytes |-> 9 + plain + pad,
           dataLen |-> plain + pad, last |-> IF pad = 0 THEN 1 ELSE pad]
  BY <1>3 DEF CreateSendSocketData, OPEN_DATA_LEN, LastByte, Data
<1> HIDE DEF p, plain, pad
<1>5. p \in Wire
  BY <1>1, <1>2, <1>3, <1>4 DEF AES_BLOCK_SIZE, Wire
<1>6. p.bytes = 9 + p.dataLen /\ p.dataLen >= 8 /\ p.bytes >= 17 /\ p.body = body /\ p.key = key
  BY <1>1, <1>2, <1>3, <1>4
<1>7. RecvBody(p, p.bytes) = p.body
  <2>1. CASE key = "open"
    <3>1. pad = 0
      BY <2>1 DEF pad
    <3> QED
      BY <1>1, <1>4, <2>1, <3>1
      DEF RecvBody, PKCS5PaddingRemoveData, OPEN_DATA_LEN, SECRET_DATA_LEN
  <2>2. CASE key # "open"
    BY <1>1, <1>2, <1>4, <2>2
    DEF RecvBody, PKCS5PaddingRemoveData, OPEN_DATA_LEN, SECRET_DATA_LEN
  <2> QED
    BY <2>1, <2>2
<1>8. Readable(p)
  <2>1. CheckSocketBeforeAES(p.bytes, TRUE, p.dataLen)
    <3>1. p.dataLen \in Int
      BY <1>5 DEF Wire
    <3> QED
      BY <1>6, <3>1 DEF CheckSocketBeforeAES, MIN_LEN, OPEN_DATA_LEN
  <2> QED
    BY <1>7, <2>1 DEF Readable
<1> QED
  BY <1>5, <1>6, <1>8 DEF p, OPEN_DATA_LEN

-----------------------------------------------------------------------------
(* Types, and that answers can be read.                                     *)

LEMMA AnswerBodies ==
  ASSUME NEW cmd \in Cmds, NEW index \in Nat, NEW t \in Tables
  PROVE  /\ AnswerBody(cmd, index, t) \in 1 .. 232
         /\ AnswerBody(cmd, index, t) <= AnswerRoom(cmd)
<1>1. t.alarms \in 0 .. 32 /\ t.absences \in 0 .. 10 /\ t.name \in 0 .. 18
  BY DEF Tables, MAX_ALARM_COUNT, MAX_ABSENCE_COUNT, DEVICE_NAME_LEN
<1>2. CASE cmd \in {"alarms", "absences"}
  BY <1>1, <1>2 DEF AnswerBody, AnswerRoom, AlarmsBody, AbsencesBody, ALARM_LEN
<1>3. CASE cmd \in {"found", "beat", "info"}
  BY <1>1, <1>3 DEF AnswerBody, AnswerRoom, FoundDeviceBody, HeartBeatBody,
                    DeviceInfoBody, AES_KEY_LEN, HW_VERSION_LEN, SW_VERSION_LEN
<1>4. CASE cmd \in {"gpio", "countdown", "set"}
  BY <1>4 DEF AnswerBody, AnswerRoom, GpioBody, CountdownBody, ResultBody
<1> QED
  BY <1>2, <1>3, <1>4 DEF Cmds

LEMMA WireTyped ==
  ASSUME NEW body \in 1 .. 232, NEW key \in Keys
  PROVE  /\ CreateSendSocketData(body, key) \in Wire
         /\ CreateSendSocketData(body, key).bytes =
              OPEN_DATA_LEN + CreateSendSocketData(body, key).dataLen
         /\ CreateSendSocketData(body, key).dataLen \in Nat
         /\ CreateSendSocketData(body, key).dataLen >= 8
         /\ CreateSendSocketData(body, key).key = key
<1> DEFINE w == CreateSendSocketData(body, key)
<1>1. w \in Wire /\ w.bytes = OPEN_DATA_LEN + w.dataLen /\ w.dataLen >= 8 /\ w.key = key
  BY RoundTrip
<1> HIDE DEF w
<1>2. w.dataLen \in 0 .. 255
  BY <1>1 DEF Wire
<1>3. w.dataLen \in Nat /\ w.dataLen >= 8
  BY <1>1, <1>2
<1> QED
  BY <1>1, <1>3 DEF w

LEMMA KeyTyped ==
  ASSUME NEW origin, NEW e, NEW v
  PROVE  SocketAesKeyType(origin, e, v) \in Keys
BY DEF SocketAesKeyType, Keys

LEMMA TypeInit == Init => TypeOK /\ at <= arrived /\ Answered
<1> SUFFICES ASSUME Init PROVE TypeOK /\ at <= arrived /\ Answered
  OBVIOUS
<1>1. ResultBody \in 1 .. 232 /\ ResultBody = 2 /\ "default" \in Keys
  BY DEF ResultBody, Keys
<1>2. CreateSendSocketData(ResultBody, "default") \in Wire
  BY <1>1, WireTyped
<1>3. Answered
  <2>1. /\ CreateSendSocketData(ResultBody, "default").body = 2
        /\ Readable(CreateSendSocketData(ResultBody, "default"))
    BY <1>1, RoundTrip
  <2>2. answer.cmd = "set" /\ answer.wire = CreateSendSocketData(ResultBody, "default")
    BY DEF Init
  <2> HIDE DEF ResultBody
  <2> QED
    BY <2>1, <2>2 DEF Answered, AnswerFits, AnswerRoom
<1>4. TypeOK
  <2>1. sent = <<>> /\ list = <<>> /\ Len(sent) = 0 /\ header = Zeros /\ tables \in Tables
    BY ContentAssumption DEF Init
  <2>2. header \in [of : 0 .. Len(sent), pv : BOOLEAN, dataLen : 0 .. 255]
    BY <2>1 DEF Zeros
  <2>3. answer \in [cmd : Cmds, wire : Wire]
    BY <1>2 DEF Init, Cmds
  <2>4. sent \in Seq(Sent) /\ DOMAIN sent = {}
        /\ list \in Seq([cmd : Cmds \cup {"connect"}, index : Nat, of : 0 .. Len(sent)])
    BY <2>1
  <2>5. /\ arrived = 0 /\ at = 0 /\ count = 0 /\ step = "select"
        /\ keyValid = FALSE /\ torn = FALSE /\ taken = <<>> /\ excused = {}
    BY DEF Init
  <2>6. taken \in Seq(DOMAIN sent)
    BY <2>5
  <2> QED
    BY <2>1, <2>2, <2>3, <2>4, <2>5, <2>6 DEF TypeOK
<1> QED
  BY <1>3, <1>4 DEF Init

LEMMA SeqMonotone ==
  ASSUME NEW S, NEW T, S \subseteq T, NEW s \in Seq(S)
  PROVE  s \in Seq(T)
OBVIOUS

LEMMA SeqHead ==
  ASSUME NEW S, NEW s \in Seq(S), s # <<>>
  PROVE  Head(s) \in S /\ Tail(s) \in Seq(S)
OBVIOUS

LEMMA SentTyped ==
  ASSUME TypeOK
  PROVE  /\ Len(sent) \in Nat /\ DOMAIN sent = 1 .. Len(sent)
         /\ \A k \in DOMAIN sent :
              /\ sent[k] \in Sent
              /\ sent[k].cmd \in Cmds \cup {"connect"} /\ sent[k].index \in Nat
              /\ sent[k].start \in Nat /\ sent[k].wire \in Wire
              /\ sent[k].wire.bytes \in Nat /\ sent[k].wire.dataLen \in 0 .. 255
              /\ sent[k].wire.dataLen \in Nat
              /\ End(k) \in Nat /\ End(k) = sent[k].start + sent[k].wire.bytes
         /\ Total \in Nat
<1>1. sent \in Seq(Sent)
  BY DEF TypeOK
<1>2. Len(sent) \in Nat /\ DOMAIN sent = 1 .. Len(sent) /\ \A k \in DOMAIN sent : sent[k] \in Sent
  BY <1>1
<1>3. ASSUME NEW k \in DOMAIN sent
      PROVE  /\ sent[k].cmd \in Cmds \cup {"connect"} /\ sent[k].index \in Nat
             /\ sent[k].start \in Nat /\ sent[k].wire \in Wire
             /\ sent[k].wire.bytes \in Nat /\ sent[k].wire.dataLen \in 0 .. 255
             /\ sent[k].wire.dataLen \in Nat
             /\ End(k) \in Nat /\ End(k) = sent[k].start + sent[k].wire.bytes
  <2>1. sent[k] \in Sent
    BY <1>2
  <2>2. /\ sent[k].cmd \in Cmds \cup {"connect"} /\ sent[k].index \in Nat
        /\ sent[k].start \in Nat /\ sent[k].wire \in Wire
    BY <2>1 DEF Sent
  <2>3. sent[k].wire.bytes \in Nat /\ sent[k].wire.dataLen \in 0 .. 255
    BY <2>2 DEF Wire
  <2> QED
    BY <2>2, <2>3 DEF End
<1>4. Total \in Nat
  <2>1. sent # <<>> => Len(sent) \in DOMAIN sent
    BY <1>1, <1>2
  <2> QED
    BY <1>3, <2>1 DEF Total
<1> QED
  BY <1>2, <1>3, <1>4

\* The packets of the list, as a set and the last of them.
LEMMA ListedKept ==
  ASSUME taken' = taken
  PROVE  Listed' = Listed /\ Latest' = Latest
BY DEF Listed, Latest

LEMMA ListedTyped ==
  ASSUME TypeOK
  PROVE  /\ Len(taken) \in Nat /\ Listed \subseteq DOMAIN sent
         /\ taken # <<>> => Latest \in Listed
         /\ taken = <<>> => Listed = {} /\ Latest = 0
<1>1. taken \in Seq(DOMAIN sent)
  BY DEF TypeOK
<1> QED
  BY <1>1 DEF Listed, Latest

LEMMA ListedMore ==
  ASSUME TypeOK, NEW k \in DOMAIN sent, taken' = Append(taken, k)
  PROVE  /\ Listed' = Listed \cup {k} /\ Latest' = k
         /\ Len(taken') = Len(taken) + 1 /\ taken' # taken
<1> DEFINE n == Len(taken)
<1>1. taken \in Seq(DOMAIN sent)
  BY DEF TypeOK
<1>2. /\ Len(taken') = n + 1 /\ taken' # <<>> /\ taken' # taken /\ n \in Nat
      /\ DOMAIN taken' = 1 .. n + 1 /\ DOMAIN taken = 1 .. n
      /\ \A i \in 1 .. n : taken'[i] = taken[i]
      /\ taken'[n + 1] = k
  BY <1>1
<1> HIDE DEF n
<1>3. Latest' = k
  BY <1>2 DEF Latest
<1>4. 1 .. n + 1 = 1 .. n \cup {n + 1} /\ n + 1 \notin 1 .. n
  BY <1>2
<1>5. Listed = {taken[i] : i \in 1 .. n}
  BY <1>2 DEF Listed
<1>6. Listed' = {taken'[i] : i \in 1 .. n \cup {n + 1}}
  BY <1>2, <1>4 DEF Listed
<1>7. ASSUME NEW x \in Listed' PROVE x \in Listed \cup {k}
  <2>1. PICK i \in 1 .. n \cup {n + 1} : x = taken'[i]
    BY <1>6
  <2> QED
    BY <1>2, <1>5, <2>1
<1>8. ASSUME NEW x \in Listed \cup {k} PROVE x \in Listed'
  <2>1. CASE x = k
    BY <1>2, <1>6, <2>1
  <2>2. CASE x \in Listed
    <3>1. PICK i \in 1 .. n : x = taken[i]
      BY <1>5, <2>2
    <3> QED
      BY <1>2, <1>6, <3>1
  <2> QED
    BY <2>1, <2>2
<1> QED
  BY <1>2, <1>3, <1>7, <1>8 DEF n

LEMMA ListTyped ==
  ASSUME TypeOK, list # <<>>
  PROVE  /\ Head(list).cmd \in Cmds \cup {"connect"} /\ Head(list).index \in Nat
         /\ Tail(list) \in Seq([cmd : Cmds \cup {"connect"}, index : Nat, of : 0 .. Len(sent)])
<1>1. list \in Seq([cmd : Cmds \cup {"connect"}, index : Nat, of : 0 .. Len(sent)])
  BY DEF TypeOK
<1>2. Head(list) \in [cmd : Cmds \cup {"connect"}, index : Nat, of : 0 .. Len(sent)]
  BY <1>1, SeqHead
<1> QED
  BY <1>1, <1>2, SeqHead

LEMMA Reads ==
  ASSUME TypeOK, at <= arrived, NEW m \in Nat
  PROVE  LET n == Lesser(m, arrived - at)
         IN  /\ n \in Nat /\ n <= m /\ at + n <= arrived
             /\ n < m => at + n = arrived
BY DEF TypeOK, Lesser

LEMMA HeaderTyped ==
  ASSUME TypeOK
  PROVE  /\ header.of \in 0 .. Len(sent) /\ header.pv \in BOOLEAN /\ header.dataLen \in Nat
         /\ header.of # 0 => header.of \in DOMAIN sent
<1>1. header \in [of : 0 .. Len(sent), pv : BOOLEAN, dataLen : 0 .. 255]
  BY DEF TypeOK
<1>2. header.of \in 0 .. Len(sent) /\ header.pv \in BOOLEAN /\ header.dataLen \in 0 .. 255
  BY <1>1
<1>3. header.dataLen \in Nat
  <2>1. 0 .. 255 \subseteq Nat
    OBVIOUS
  <2> QED
    BY <1>1, <2>1
<1> QED
  BY <1>2, <1>3, SentTyped

LEMMA HeadersTyped ==
  ASSUME TypeOK, NEW n
  PROVE  Headers(n) \subseteq [of : 0 .. Len(sent), pv : BOOLEAN, dataLen : 0 .. 255]
<1> DEFINE here == {k \in DOMAIN sent : sent[k].start = at}
<1>1. CASE here # {}
  <2>1. Headers(n) = {[of |-> k, pv |-> TRUE,
                       dataLen |-> IF n = OPEN_DATA_LEN THEN sent[k].wire.dataLen ELSE 0] : k \in here}
    BY <1>1 DEF Headers
  <2>2. \A k \in here : /\ k \in 0 .. Len(sent)
                        /\ (IF n = OPEN_DATA_LEN THEN sent[k].wire.dataLen ELSE 0) \in 0 .. 255
    <3>1. here \subseteq DOMAIN sent /\ DOMAIN sent \subseteq 0 .. Len(sent)
      BY SentTyped
    <3>2. \A k \in DOMAIN sent : sent[k].wire.dataLen \in 0 .. 255
      BY SentTyped
    <3>3. ASSUME NEW k \in DOMAIN sent
          PROVE  (IF n = OPEN_DATA_LEN THEN sent[k].wire.dataLen ELSE 0) \in 0 .. 255
      <4>1. sent[k].wire.dataLen \in 0 .. 255 /\ 0 \in 0 .. 255
        BY <3>2
      <4> QED
        BY <4>1
    <3> HIDE DEF here
    <3> QED
      BY <3>1, <3>3
  <2> DEFINE len(k) == IF n = OPEN_DATA_LEN THEN sent[k].wire.dataLen ELSE 0
  <2>3. \A k \in here : [of |-> k, pv |-> TRUE, dataLen |-> len(k)] \in
                          [of : 0 .. Len(sent), pv : BOOLEAN, dataLen : 0 .. 255]
    <3> HIDE DEF here
    <3> QED
      BY <2>2
  <2>4. Headers(n) = {[of |-> k, pv |-> TRUE, dataLen |-> len(k)] : k \in here}
    BY <2>1
  <2> DEFINE R == [of : 0 .. Len(sent), pv : BOOLEAN, dataLen : 0 .. 255]
             h(k) == [of |-> k, pv |-> TRUE, dataLen |-> len(k)]
  <2>5. \A k \in here : h(k) \in R
    BY <2>3
  <2>6. Headers(n) = {h(k) : k \in here}
    BY <2>4
  <2>7. Headers(n) \subseteq R
    <3> HIDE DEF here, R, h
    <3> QED
      BY <2>5, <2>6
  <2> QED
    BY <2>7
<1>2. CASE here = {}
  <2>1. Headers(n) = [of : {0}, pv : BOOLEAN,
                      dataLen : IF n = OPEN_DATA_LEN THEN Garbage ELSE {0}]
    BY <1>2 DEF Headers
  <2>2. (IF n = OPEN_DATA_LEN THEN Garbage ELSE {0}) \subseteq 0 .. 255
    BY ContentAssumption
  <2>3. 0 \in 0 .. Len(sent)
    BY SentTyped
  <2> HIDE DEF here
  <2> QED
    BY <2>1, <2>2, <2>3
<1> QED
  BY <1>1, <1>2

LEMMA TypeStep ==
  ASSUME TypeOK, at <= arrived, Answered, [Next]_vars
  PROVE  TypeOK' /\ (at <= arrived)' /\ Answered'
<1>1. CASE ServerSends
  <2>1. PICK r \in Requests :
          IF sent = <<>> THEN Append1([r EXCEPT !.cmd = "connect", !.encrypted = TRUE], "default")
          ELSE Append1(r, IF r.encrypted THEN "server" ELSE "open")
    BY <1>1 DEF ServerSends
  <2>2. PICK q \in [cmd : Cmds \cup {"connect"}, index : Nat, body : 1 .. 232, encrypted : BOOLEAN],
             key \in Keys : Append1(q, key)
    <3>1. r \in [cmd : Cmds \ {"beat"}, index : Nat, body : 1 .. 232, encrypted : BOOLEAN]
      BY RequestAssumption
    <3>2. CASE sent = <<>>
      <4> DEFINE q == [r EXCEPT !.cmd = "connect", !.encrypted = TRUE]
      <4>1. q \in [cmd : Cmds \cup {"connect"}, index : Nat, body : 1 .. 232, encrypted : BOOLEAN]
        BY <3>1
      <4>2. Append1(q, "default")
        BY <2>1, <3>2
      <4> HIDE DEF q
      <4> QED
        BY <4>1, <4>2 DEF Keys
    <3>3. CASE sent # <<>>
      <4> DEFINE key == IF r.encrypted THEN "server" ELSE "open"
      <4>1. r \in [cmd : Cmds \cup {"connect"}, index : Nat, body : 1 .. 232, encrypted : BOOLEAN]
        BY <3>1
      <4>2. Append1(r, key) /\ key \in Keys
        BY <2>1, <3>3 DEF Keys
      <4> HIDE DEF key
      <4> QED
        BY <4>1, <4>2
    <3> QED
      BY <3>2, <3>3
  <2>3. Total \in Nat
    BY SentTyped
  <2>4. CreateSendSocketData(q.body, key) \in Wire
    BY WireTyped
  <2>5. [cmd |-> q.cmd, index |-> q.index, encrypted |-> q.encrypted, start |-> Total,
         wire |-> CreateSendSocketData(q.body, key)] \in Sent
    BY <2>3, <2>4 DEF Sent
  <2>6. sent' \in Seq(Sent) /\ Len(sent') = Len(sent) + 1 /\ Len(sent) \in Nat
        /\ DOMAIN sent = 1 .. Len(sent) /\ DOMAIN sent' = 1 .. Len(sent')
    BY <2>2, <2>5 DEF Append1, TypeOK
  <2>7. 0 .. Len(sent) \subseteq 0 .. Len(sent')
    BY <2>6
  <2>8. list \in Seq([cmd : Cmds \cup {"connect"}, index : Nat, of : 0 .. Len(sent')])
    <3>1. [cmd : Cmds \cup {"connect"}, index : Nat, of : 0 .. Len(sent)] \subseteq
            [cmd : Cmds \cup {"connect"}, index : Nat, of : 0 .. Len(sent')]
      BY <2>7
    <3>2. list \in Seq([cmd : Cmds \cup {"connect"}, index : Nat, of : 0 .. Len(sent)])
      BY DEF TypeOK
    <3> QED
      BY <3>1, <3>2, SeqMonotone
  <2>9. /\ UNCHANGED <<tables, arrived, at, buffer, messages, taken>>
        /\ torn' \in BOOLEAN /\ excused' \subseteq DOMAIN sent'
    BY <2>2, <2>6 DEF Append1, TypeOK
  <2>10. taken' \in Seq(DOMAIN sent')
    <3>1. taken \in Seq(DOMAIN sent) /\ DOMAIN sent \subseteq DOMAIN sent'
      BY <2>6 DEF TypeOK
    <3> QED
      BY <2>9, <3>1, SeqMonotone
  <2> QED
    BY <2>10, <2>6, <2>7, <2>8, <2>9 DEF TypeOK, Answered, buffer, messages
<1>2. CASE Arrives
  <2>1. PICK k \in DOMAIN sent : \E n \in {End(k)} \cup {sent[k].start + c : c \in Cuts} :
          n > arrived /\ n <= End(k) /\ arrived' = n
    BY <1>2 DEF Arrives
  <2>2. End(k) \in Nat /\ sent[k].start \in Nat
    BY SentTyped
  <2>3. arrived' \in Nat /\ arrived' > arrived
    <3>1. arrived' > arrived /\ arrived' \in {End(k)} \cup {sent[k].start + c : c \in Cuts}
      BY <2>1
    <3>2. CASE arrived' = End(k)
      BY <2>2, <3>1, <3>2
    <3>3. CASE arrived' \in {sent[k].start + c : c \in Cuts}
      <4>1. PICK c \in Cuts : arrived' = sent[k].start + c
        BY <3>3
      <4>2. c \in Nat
        BY ContentAssumption
      <4> QED
        BY <2>2, <3>1, <4>1, <4>2
    <3> QED
      BY <3>1, <3>2, <3>3
  <2> QED
    BY <1>2, <2>3 DEF Arrives, TypeOK, Answered, buffer, messages, history
<1>3. CASE ReadHeader
  <2> DEFINE n == Lesser(OPEN_DATA_LEN, arrived - at)
  <2>1. n \in Nat /\ at + n <= arrived
    <3>1. OPEN_DATA_LEN \in Nat
      BY DEF OPEN_DATA_LEN
    <3> QED
      BY <3>1, Reads
  <2>2. header' \in [of : 0 .. Len(sent), pv : BOOLEAN, dataLen : 0 .. 255]
    BY <1>3, HeadersTyped DEF ReadHeader
  <2>3. /\ at' = at + n /\ step' \in {"body", "insert"} /\ count' \in Nat
        /\ UNCHANGED <<tables, sent, arrived, messages, taken>>
        /\ torn' \in BOOLEAN /\ excused' \subseteq DOMAIN sent
    <3> HIDE DEF n
    <3>1. /\ at' = at + n
          /\ (step' = "body" /\ count' = 0) \/ (step' = "insert" /\ count' = n + AES_KEY_LEN)
          /\ Tear(header'.of # 0 /\ n < OPEN_DATA_LEN)
      BY <1>3 DEF ReadHeader, n
    <3>2. Unread \subseteq DOMAIN sent
      BY DEF Unread
    <3> QED
      BY <2>1, <3>1, <3>2 DEF Tear, TypeOK, AES_KEY_LEN
  <2> HIDE DEF n
  <2> QED
    BY <2>1, <2>2, <2>3 DEF TypeOK, Answered, messages
<1>4. CASE ReadBody
  <2> DEFINE n == Lesser(header.dataLen, arrived - at)
  <2>1. n \in Nat /\ at + n <= arrived
    <3>1. header.dataLen \in Nat
      <4>1. header \in [of : 0 .. Len(sent), pv : BOOLEAN, dataLen : 0 .. 255]
        BY DEF TypeOK
      <4>2. header.dataLen \in 0 .. 255
        BY <4>1
      <4> QED
        BY <4>2
    <3> QED
      BY <3>1, Reads
  <2>2. /\ at' = at + n /\ step' = "insert" /\ count' \in Nat /\ header' = header
        /\ UNCHANGED <<tables, sent, arrived, messages, taken>>
        /\ torn' \in BOOLEAN /\ excused' \subseteq DOMAIN sent
    <3> HIDE DEF n
    <3>1. /\ at' = at + n /\ step' = "insert" /\ header' = header
          /\ count' = OPEN_DATA_LEN + (IF n = 0 THEN -1 ELSE n)
          /\ Tear(header.of # 0 /\ n < header.dataLen)
      BY <1>4 DEF ReadBody, n
    <3>2. Unread \subseteq DOMAIN sent
      BY DEF Unread
    <3> QED
      BY <2>1, <3>1, <3>2 DEF Tear, TypeOK, OPEN_DATA_LEN
  <2> HIDE DEF n
  <2> QED
    BY <2>1, <2>2 DEF TypeOK, Answered, messages
<1>5. CASE Insert
  <2>1. header' = Zeros /\ count' = 0 /\ step' = "select"
        /\ UNCHANGED <<tables, stream, keyValid, answer, torn>>
    BY <1>5 DEF Insert
  <2>2. header' \in [of : 0 .. Len(sent), pv : BOOLEAN, dataLen : 0 .. 255]
    BY <2>1 DEF Zeros, TypeOK
  <2>3. /\ list' \in Seq([cmd : Cmds \cup {"connect"}, index : Nat, of : 0 .. Len(sent)])
        /\ taken' \in Seq(DOMAIN sent)
    <3>1. CASE UNCHANGED <<list, taken>>
      BY <3>1 DEF TypeOK
    <3>2. CASE /\ header.of # 0
               /\ list' = Append(list, [cmd |-> sent[header.of].cmd,
                                        index |-> sent[header.of].index, of |-> header.of])
               /\ taken' = Append(taken, header.of)
      <4>1. header.of \in DOMAIN sent /\ header.of \in 0 .. Len(sent)
        BY <3>2 DEF TypeOK
      <4>2. sent[header.of].cmd \in Cmds \cup {"connect"} /\ sent[header.of].index \in Nat
        BY <4>1, SentTyped
      <4>3. taken' \in Seq(DOMAIN sent)
        BY <3>2, <4>1 DEF TypeOK
      <4> QED
        BY <3>2, <4>1, <4>2, <4>3 DEF TypeOK
    <3> QED
      BY <1>5, <3>1, <3>2 DEF Insert
  <2>4. excused' \subseteq DOMAIN sent
    <3>1. excused' = excused \/ (header.of # 0 /\ excused' = excused \cup {header.of})
      BY <1>5 DEF Insert
    <3> QED
      BY <3>1 DEF TypeOK
  <2> QED
    BY <2>1, <2>2, <2>3, <2>4 DEF TypeOK, Answered, stream
<1>6. CASE \E d \in Datagrams, hidden \in BOOLEAN : RecvUdpData(d, hidden)
  <2>1. PICK d \in Datagrams, hidden \in BOOLEAN : RecvUdpData(d, hidden)
    BY <1>6
  <2>2. /\ list' = Append(list, [cmd |-> d.cmd, index |-> d.index, of |-> 0])
        /\ UNCHANGED <<tables, stream, buffer, keyValid, answer, history>>
    BY <2>1 DEF RecvUdpData
  <2>3. d.cmd \in Cmds /\ d.index \in Nat
    BY RequestAssumption
  <2>4. list' \in Seq([cmd : Cmds \cup {"connect"}, index : Nat, of : 0 .. Len(sent)])
    BY <2>2, <2>3 DEF TypeOK
  <2> QED
    BY <2>2, <2>4 DEF TypeOK, Answered, stream, buffer, history
<1>7. CASE Handle
  <2> DEFINE m == Head(list)
             body == AnswerBody(m.cmd, m.index, tables)
             key == SocketAesKeyType(IF m.of = 0 THEN "udp" ELSE "tcp", TRUE, keyValid)
  <2>1. /\ list # <<>> /\ list' = Tail(list) /\ keyValid' \in BOOLEAN
        /\ UNCHANGED <<tables, stream, buffer, history>>
        /\ answer' # answer =>
             m.cmd # "connect" /\ answer' = [cmd |-> m.cmd, wire |-> CreateSendSocketData(body, key)]
    BY <1>7 DEF Handle, TypeOK
  <2>2. m.cmd \in Cmds \cup {"connect"} /\ m.index \in Nat
    BY <2>1, ListTyped
  <2>3. list' \in Seq([cmd : Cmds \cup {"connect"}, index : Nat, of : 0 .. Len(sent)])
    BY <2>1, ListTyped
  <2>4. answer' \in [cmd : Cmds, wire : Wire] /\ AnswerFits(answer'.cmd, answer'.wire)
    <3>1. CASE answer' = answer
      BY <3>1 DEF TypeOK, Answered
    <3>2. CASE answer' # answer
      <4> HIDE DEF m
      <4>1. m.cmd \in Cmds
        BY <2>1, <2>2, <3>2
      <4>2. body \in 1 .. 232 /\ body <= AnswerRoom(m.cmd)
        BY <4>1, <2>2, AnswerBodies DEF TypeOK
      <4>3. key \in Keys
        BY KeyTyped
      <4> HIDE DEF body, key
      <4>4. CreateSendSocketData(body, key) \in Wire
        BY <4>2, <4>3, WireTyped
      <4>5. CreateSendSocketData(body, key).body = body /\ Readable(CreateSendSocketData(body, key))
        BY <4>2, <4>3, RoundTrip
      <4>6. answer' = [cmd |-> m.cmd, wire |-> CreateSendSocketData(body, key)]
        BY <2>1, <3>2
      <4> QED
        BY <4>1, <4>2, <4>4, <4>5, <4>6 DEF AnswerFits
    <3> QED
      BY <3>1, <3>2
  <2> QED
    BY <2>1, <2>3, <2>4 DEF TypeOK, Answered, stream, buffer, history
<1>8. CASE UNCHANGED vars
  BY <1>8 DEF vars, stream, buffer, messages, history, TypeOK, Answered
<1> QED
  BY <1>1, <1>2, <1>3, <1>4, <1>5, <1>6, <1>7, <1>8 DEF Next

(* Whatever is asked, and however the packets arrive, the state has its     *)
(* types and whoever asked can read the answer (rebackGetAlarmData and the  *)
(* other handlers, createSendSocketData).                                   *)
THEOREM AnswersRead == Spec => [](TypeOK /\ Answered)
<1> DEFINE Inv == TypeOK /\ at <= arrived /\ Answered
<1>1. Init => Inv
  BY TypeInit
<1>2. Inv /\ [Next]_vars => Inv'
  BY TypeStep
<1> QED
  BY <1>1, <1>2, PTL DEF Spec

-----------------------------------------------------------------------------
(* What is read.                                                            *)

\* The packets of the stream stand one after the other.
Chain ==
  \A k \in DOMAIN sent :
    /\ sent[k].wire.bytes = OPEN_DATA_LEN + sent[k].wire.dataLen
    /\ sent[k].wire.dataLen >= 8
    /\ sent[k].start = IF k = 1 THEN 0 ELSE End(k - 1)
    /\ \A j \in 1 .. k - 1 : End(j) <= sent[k].start

\* Reading does not overtake what arrives, nor that what was sent.
InStream == at <= arrived /\ arrived <= Total

\* Until a packet was cut, reading goes from packet to packet.
Aligned ==
  ~torn => IF step = "body" THEN header.of # 0
           ELSE at = Total \/ \E k \in DOMAIN sent : sent[k].start = at

\* A header of a packet says how much is to come; a whole packet was passed.
Held ==
  header.of # 0 =>
    /\ step = "body" => /\ header.pv
                        /\ header.dataLen = sent[header.of].wire.dataLen
                        /\ at = sent[header.of].start + OPEN_DATA_LEN
    /\ step = "insert" /\ CheckSocketBeforeAES(count, header.pv, header.dataLen)
         => End(header.of) <= at

\* Once one was cut, whatever is still to be read is excused.
TornExcuses == torn => Unread \subseteq excused

\* The packet in the buffer is not yet in the list; those in the list were read.
Fresh ==
  /\ step # "select" /\ header.of # 0 => header.of \notin Listed
  /\ \A k \in Listed : End(k) <= at

\* The default key is used for the first packet, which brings the server's.
KeysKnown ==
  /\ \A k \in DOMAIN sent :
       /\ sent[k].wire.key \in {"server", "open", "default"}
       /\ sent[k].wire.key = "open" => ~sent[k].encrypted
       /\ sent[k].wire.key = "default" => k = 1 /\ sent[k].encrypted
       /\ sent[k].cmd = "connect" => k = 1
  /\ keyValid => 1 \in Listed
  /\ \A i \in DOMAIN list : list[i].cmd = "connect" => 1 \in Listed

\* What was read is in the list, or excused, or the next to be inserted.
Passed ==
  \A k \in DOMAIN sent :
    End(k) <= at =>
      \/ k \in Listed \cup excused
      \/ /\ step = "insert" /\ header.of = k
         /\ CheckSocketBeforeAES(count, header.pv, header.dataLen)

ReadInv ==
  Chain /\ InStream /\ Aligned /\ Held /\ TornExcuses /\ Fresh /\ KeysKnown /\ Passed

LEMMA InOrder ==
  ASSUME TypeOK, Chain
  PROVE  /\ \A k \in DOMAIN sent : /\ End(k) = sent[k].start + 9 + sent[k].wire.dataLen
                                   /\ End(k) >= sent[k].start + 17
                                   /\ End(k) <= Total
         /\ \A j, k \in DOMAIN sent : j < k => End(j) <= sent[k].start
<1>1. \A j, k \in DOMAIN sent : j < k => End(j) <= sent[k].start
  BY SentTyped DEF Chain
<1>2. ASSUME NEW k \in DOMAIN sent
      PROVE  End(k) = sent[k].start + 9 + sent[k].wire.dataLen /\ End(k) >= sent[k].start + 17
  <2>1. /\ sent[k].wire.bytes = 9 + sent[k].wire.dataLen
        /\ sent[k].wire.dataLen >= 8
    BY DEF Chain, OPEN_DATA_LEN
  <2>2. sent[k].wire.dataLen \in Nat /\ sent[k].start \in Nat
    BY SentTyped
  <2> QED
    BY <2>1, <2>2 DEF End
<1>3. ASSUME NEW k \in DOMAIN sent
      PROVE  End(k) <= Total
  <2>1. Total = End(Len(sent)) /\ Len(sent) \in DOMAIN sent /\ k <= Len(sent)
    BY SentTyped DEF Total, TypeOK
  <2>2. CASE k = Len(sent)
    BY <2>1, <2>2, SentTyped
  <2>3. CASE k < Len(sent)
    <3>1. End(k) <= sent[Len(sent)].start /\ End(Len(sent)) >= sent[Len(sent)].start + 17
      BY <1>1, <1>2, <2>1, <2>3
    <3>2. End(Len(sent)) \in Nat /\ sent[Len(sent)].start \in Nat /\ End(k) \in Nat
      BY <2>1, SentTyped
    <3> QED
      BY <2>1, <3>1, <3>2
  <2> QED
    BY <2>1, <2>2, <2>3, SentTyped
<1> QED
  BY <1>1, <1>2, <1>3

LEMMA ReadInit == Init => ReadInv
<1> SUFFICES ASSUME Init PROVE ReadInv
  OBVIOUS
<1>1. /\ sent = <<>> /\ DOMAIN sent = {} /\ list = <<>> /\ DOMAIN list = {}
      /\ at = 0 /\ arrived = 0 /\ header.of = 0 /\ step = "select"
      /\ Listed = {} /\ torn = FALSE /\ keyValid = FALSE
  BY DEF Init, Zeros, Listed
<1> QED
  BY <1>1 DEF ReadInv, Chain, InStream, Aligned, Held, TornExcuses, Fresh, KeysKnown,
              Passed, Total

\* What a step keeps that leaves the stream and the list of messages alone.
LEMMA SameStream ==
  ASSUME sent' = sent
  PROVE  /\ \A k \in DOMAIN sent : End(k)' = End(k)
         /\ Total' = Total
         /\ Chain <=> Chain'
BY DEF End, Total, Chain

LEMMA SendsRead ==
  ASSUME TypeOK, at <= arrived, ReadInv, ServerSends
  PROVE  ReadInv'
<1>1. PICK q \in [cmd : Cmds \cup {"connect"}, index : Nat, body : 1 .. 232, encrypted : BOOLEAN],
           key \in Keys :
        /\ Append1(q, key)
        /\ key \in {"server", "open", "default"}
        /\ key = "open" => ~q.encrypted
        /\ key = "default" => sent = <<>> /\ q.encrypted
        /\ q.cmd = "connect" => sent = <<>>
  <2>1. PICK r \in Requests :
          IF sent = <<>> THEN Append1([r EXCEPT !.cmd = "connect", !.encrypted = TRUE], "default")
          ELSE Append1(r, IF r.encrypted THEN "server" ELSE "open")
    BY DEF ServerSends
  <2>2. r \in [cmd : Cmds, index : Nat, body : 1 .. 232, encrypted : BOOLEAN]
    BY RequestAssumption
  <2>3. r.cmd # "connect"
    BY <2>2 DEF Cmds
  <2>4. CASE sent = <<>>
    <3> DEFINE c == [r EXCEPT !.cmd = "connect", !.encrypted = TRUE]
    <3>1. /\ c \in [cmd : Cmds \cup {"connect"}, index : Nat, body : 1 .. 232, encrypted : BOOLEAN]
          /\ c.encrypted = TRUE
      BY <2>2
    <3>2. Append1(c, "default") /\ "default" \in Keys
      BY <2>1, <2>4 DEF Keys
    <3> HIDE DEF c
    <3> QED
      BY <2>4, <3>1, <3>2
  <2>5. CASE sent # <<>>
    <3> DEFINE key == IF r.encrypted THEN "server" ELSE "open"
    <3>1. /\ key \in Keys /\ key \in {"server", "open", "default"} /\ key # "default"
          /\ key = "open" => ~r.encrypted
      BY DEF Keys
    <3>2. Append1(r, key)
      BY <2>1, <2>5
    <3>3. r \in [cmd : Cmds \cup {"connect"}, index : Nat, body : 1 .. 232, encrypted : BOOLEAN]
      BY <2>2
    <3> HIDE DEF key
    <3> QED
      BY <2>3, <3>1, <3>2, <3>3
  <2> QED
    BY <2>4, <2>5
<1>0. PICK new \in Nat : new = Len(sent) + 1
  BY SentTyped
<1> DEFINE w == CreateSendSocketData(q.body, key)
<1>2. w.bytes = OPEN_DATA_LEN + w.dataLen /\ w.dataLen \in Nat /\ w.dataLen >= 8 /\ w.key = key
  <2>1. PICK body \in 1 .. 232 : body = q.body
    OBVIOUS
  <2> QED
    BY <2>1, WireTyped DEF w
<1> HIDE DEF w
<1>3. /\ Len(sent) \in Nat /\ DOMAIN sent = 1 .. Len(sent) /\ sent' # <<>>
      /\ DOMAIN sent' = DOMAIN sent \cup {new} /\ new \notin DOMAIN sent
      /\ \A k \in DOMAIN sent : sent'[k] = sent[k]
      /\ sent'[new] = [cmd |-> q.cmd, index |-> q.index, encrypted |-> q.encrypted,
                       start |-> Total, wire |-> w]
      /\ Len(sent') = new
  <2>1. /\ sent' = Append(sent, [cmd |-> q.cmd, index |-> q.index, encrypted |-> q.encrypted,
                                 start |-> Total, wire |-> w])
        /\ sent \in Seq(Sent)
    BY <1>1 DEF Append1, TypeOK, w
  <2>2. Len(sent) \in Nat /\ DOMAIN sent = 1 .. Len(sent) /\ DOMAIN sent' = 1 .. Len(sent) + 1
    BY <2>1
  <2> QED
    BY <1>0, <2>1, <2>2
<1>4. /\ torn' = (torn /\ ~Quiet)
      /\ excused' = IF torn /\ ~Quiet THEN excused \cup {new} ELSE excused
      /\ UNCHANGED <<arrived, at, step, header, count, keyValid, list, Listed>>
  BY <1>0, <1>1, ListedKept DEF Append1, buffer, messages
<1>5. /\ \A k \in DOMAIN sent : End(k)' = End(k) /\ k # new
      /\ End(new)' = Total + (9 + w.dataLen) /\ Total' = End(new)'
      /\ sent'[new].start = Total
  <2>1. ASSUME NEW k \in DOMAIN sent
        PROVE  End(k)' = End(k) /\ k # new
    BY <1>3 DEF End
  <2>2. sent'[new].start = Total /\ sent'[new].wire = w
    BY <1>3
  <2>3. End(new)' = Total + (9 + w.dataLen)
    BY <1>2, <2>2 DEF End, OPEN_DATA_LEN
  <2>4. Total' = End(new)'
    <3>1. Total' = IF sent' = <<>> THEN 0 ELSE End(Len(sent))'
      BY DEF Total
    <3>2. sent' # <<>>
      BY <1>3
    <3> QED
      BY <1>3, <3>1, <3>2 DEF End
  <2> QED
    BY <2>1, <2>2, <2>3, <2>4
<1>6. Total \in Nat /\ arrived \in Nat /\ at \in Nat /\ new \in Nat /\ ~(new \in DOMAIN sent)
  BY <1>3, SentTyped DEF TypeOK
<1>7. /\ End(new)' \in Nat /\ Total' \in Nat
      /\ at < End(new)' /\ arrived <= Total /\ Total <= Total'
  <2>1. w.dataLen \in Nat
    BY <1>2
  <2> QED
    BY <1>5, <1>6, <2>1 DEF ReadInv, InStream
<1>8. Chain'
  <2>1. ASSUME NEW k \in DOMAIN sent
        PROVE  /\ sent'[k].wire.bytes = OPEN_DATA_LEN + sent'[k].wire.dataLen
               /\ sent'[k].wire.dataLen >= 8
               /\ sent'[k].start = IF k = 1 THEN 0 ELSE End(k - 1)'
               /\ \A j \in 1 .. k - 1 : End(j)' <= sent'[k].start
    <3>1. sent'[k] = sent[k] /\ k \in 1 .. Len(sent)
      BY <1>3
    <3>2. k # 1 => k - 1 \in DOMAIN sent
      BY <1>3
    <3>3. 1 .. k - 1 \subseteq DOMAIN sent
      BY <1>3
    <3> QED
      BY <1>5, <3>1, <3>2, <3>3 DEF ReadInv, Chain
  <2>2. /\ sent'[new].wire.bytes = OPEN_DATA_LEN + sent'[new].wire.dataLen
        /\ sent'[new].wire.dataLen >= 8
    <3>1. w.dataLen >= 8
      BY <1>2
    <3>2. sent'[new].wire = w
      BY <1>3
    <3> QED
      BY <1>2, <3>1, <3>2
  <2>3. Total = IF new = 1 THEN 0 ELSE End(new - 1)'
    <3>1. sent = <<>> <=> Len(sent) = 0
      BY DEF TypeOK
    <3>2. new - 1 = Len(sent) /\ (Len(sent) # 0 => Len(sent) \in DOMAIN sent)
      BY <1>0, <1>3
    <3> QED
      BY <1>5, <1>6, <3>1, <3>2 DEF Total
  <2>4. \A j \in 1 .. new - 1 : End(j)' <= Total
    BY <1>0, <1>3, <1>5, InOrder DEF ReadInv
  <2> QED
    BY <1>3, <1>5, <2>1, <2>2, <2>3, <2>4 DEF Chain
<1>9. InStream'
  BY <1>4, <1>6, <1>7 DEF InStream, ReadInv
<1>10. Aligned'
  <2> SUFFICES ASSUME ~torn'
               PROVE  IF step' = "body" THEN header'.of # 0
                      ELSE at' = Total' \/ \E k \in DOMAIN sent' : sent'[k].start = at'
    BY DEF Aligned
  <2>1. ~torn \/ (at = Total /\ step # "body")
    BY <1>4 DEF Quiet
  <2> QED
    BY <1>3, <1>4, <1>5, <2>1 DEF ReadInv, Aligned
<1>11. Held'
  <2> SUFFICES ASSUME header'.of # 0
               PROVE  /\ step' = "body" =>
                           /\ header'.pv
                           /\ header'.dataLen = sent'[header'.of].wire.dataLen
                           /\ at' = sent'[header'.of].start + OPEN_DATA_LEN
                      /\ step' = "insert" /\ CheckSocketBeforeAES(count', header'.pv, header'.dataLen)
                           => End(header.of)' <= at'
    BY DEF Held
  <2>1. header.of # 0 /\ header' = header /\ header.of \in DOMAIN sent
    BY <1>4, HeaderTyped
  <2> QED
    BY <1>3, <1>4, <1>5, <2>1 DEF ReadInv, Held
<1>12. TornExcuses'
  <2> SUFFICES ASSUME torn', NEW k \in DOMAIN sent', End(k)' > at'
               PROVE  k \in excused'
    BY DEF TornExcuses, Unread
  <2>1. torn /\ ~Quiet /\ excused' = excused \cup {new} /\ at' = at
    BY <1>4
  <2>2. k # new => k \in DOMAIN sent /\ End(k) > at
    BY <1>0, <1>3, <1>5, <2>1
  <2> QED
    BY <2>1, <2>2 DEF ReadInv, TornExcuses, Unread
<1>13. Fresh'
  BY <1>4, <1>5, ListedTyped DEF ReadInv, Fresh
<1>14. KeysKnown'
  <2>1. sent = <<>> => new = 1
    BY <1>0 DEF TypeOK
  <2>2. ASSUME NEW k \in DOMAIN sent'
        PROVE  /\ sent'[k].wire.key \in {"server", "open", "default"}
               /\ sent'[k].wire.key = "open" => ~sent'[k].encrypted
               /\ sent'[k].wire.key = "default" => k = 1 /\ sent'[k].encrypted
               /\ sent'[k].cmd = "connect" => k = 1
    <3>1. CASE k \in DOMAIN sent
      BY <1>3, <3>1 DEF ReadInv, KeysKnown
    <3>2. CASE k = new
      BY <1>1, <1>2, <1>3, <2>1, <3>2
    <3> QED
      BY <1>3, <3>1, <3>2
  <2> QED
    BY <1>4, <2>2 DEF ReadInv, KeysKnown
<1>15. Passed'
  <2> SUFFICES ASSUME NEW k \in DOMAIN sent', End(k)' <= at'
               PROVE  \/ k \in Listed' \cup excused'
                      \/ /\ step' = "insert" /\ header'.of = k
                         /\ CheckSocketBeforeAES(count', header'.pv, header'.dataLen)
    BY DEF Passed
  <2>1. k # new
    BY <1>4, <1>6, <1>7
  <2>2. k \in DOMAIN sent /\ End(k) <= at
    BY <1>3, <1>4, <1>5, <2>1
  <2> QED
    BY <1>4, <2>2 DEF ReadInv, Passed
<1> QED
  BY <1>8, <1>9, <1>10, <1>11, <1>12, <1>13, <1>14, <1>15 DEF ReadInv

\* What the steps that do not touch the stream, the buffer or history keep.
LEMMA OthersRead ==
  ASSUME ReadInv, UNCHANGED <<sent, at, buffer, history>>,
         arrived' = arrived \/ (at <= arrived' /\ arrived' <= Total),
         keyValid' => 1 \in Listed,
         \A i \in DOMAIN list' : list'[i].cmd = "connect" => 1 \in Listed
  PROVE  ReadInv'
<1>1. /\ sent' = sent /\ at' = at /\ step' = step /\ header' = header /\ count' = count
      /\ Listed' = Listed /\ torn' = torn /\ excused' = excused
  BY ListedKept DEF buffer, history
<1>2. /\ \A k \in DOMAIN sent : End(k)' = End(k)
      /\ Total' = Total /\ Chain'
  BY <1>1, SameStream DEF ReadInv
<1>3. InStream'
  BY <1>1, <1>2 DEF ReadInv, InStream
<1>4. Aligned' /\ Held' /\ TornExcuses' /\ Fresh'
  BY <1>1, <1>2 DEF ReadInv, Aligned, Held, TornExcuses, Unread, Fresh, End
<1>5. KeysKnown' /\ Passed'
  BY <1>1, <1>2 DEF ReadInv, KeysKnown, Passed
<1> QED
  BY <1>2, <1>3, <1>4, <1>5 DEF ReadInv

LEMMA ArrivesRead ==
  ASSUME TypeOK, at <= arrived, ReadInv, Arrives
  PROVE  ReadInv'
<1>1. PICK k \in DOMAIN sent : arrived' > arrived /\ arrived' <= End(k) /\ arrived' \in Int
  <2>1. PICK k \in DOMAIN sent : \E n \in {End(k)} \cup {sent[k].start + c : c \in Cuts} :
          n > arrived /\ n <= End(k) /\ arrived' = n
    BY DEF Arrives
  <2>2. End(k) \in Nat /\ sent[k].start \in Nat
    BY SentTyped
  <2>3. /\ arrived' > arrived /\ arrived' <= End(k)
        /\ arrived' \in {End(k)} \cup {sent[k].start + c : c \in Cuts}
    BY <2>1
  <2>4. CASE arrived' = End(k)
    BY <2>2, <2>3, <2>4
  <2>5. CASE arrived' \in {sent[k].start + c : c \in Cuts}
    <3>1. PICK c \in Cuts : arrived' = sent[k].start + c
      BY <2>5
    <3>2. c \in Nat
      BY ContentAssumption
    <3> QED
      BY <2>2, <2>3, <3>1, <3>2
  <2> QED
    BY <2>3, <2>4, <2>5
<1>2. /\ End(k) <= Total /\ End(k) \in Nat /\ Total \in Nat
  BY InOrder, SentTyped DEF ReadInv
<1>3. at <= arrived' /\ arrived' <= Total
  BY <1>1, <1>2 DEF TypeOK
<1>4. UNCHANGED <<sent, at, buffer, messages, history>>
  BY DEF Arrives
<1>5. keyValid' = keyValid /\ list' = list
  BY <1>4 DEF messages
<1> QED
  BY <1>3, <1>4, <1>5, OthersRead DEF ReadInv, KeysKnown

LEMMA DatagramRead ==
  ASSUME TypeOK, ReadInv, NEW d \in Datagrams, NEW hidden, RecvUdpData(d, hidden)
  PROVE  ReadInv'
<1>1. /\ list' = Append(list, [cmd |-> d.cmd, index |-> d.index, of |-> 0])
      /\ UNCHANGED <<stream, buffer, keyValid, history>>
  BY DEF RecvUdpData
<1>2. d.cmd # "connect"
  BY RequestAssumption DEF Cmds
<1>3. list \in Seq([cmd : Cmds \cup {"connect"}, index : Nat, of : 0 .. Len(sent)])
  BY DEF TypeOK
<1>4. \A i \in DOMAIN list' : list'[i].cmd = "connect" => i \in DOMAIN list /\ list'[i] = list[i]
  BY <1>1, <1>2, <1>3
<1> QED
  BY <1>1, <1>4, OthersRead DEF ReadInv, KeysKnown, stream

LEMMA HandleRead ==
  ASSUME TypeOK, ReadInv, Handle
  PROVE  ReadInv'
<1>1. /\ list # <<>> /\ list' = Tail(list)
      /\ UNCHANGED <<stream, buffer, history>>
      /\ keyValid' => keyValid \/ Head(list).cmd = "connect"
  BY DEF Handle
<1>2. list \in Seq([cmd : Cmds \cup {"connect"}, index : Nat, of : 0 .. Len(sent)])
  BY DEF TypeOK
<1>3. 1 \in DOMAIN list /\ Head(list) = list[1]
  BY <1>1, <1>2
<1>4. \A i \in DOMAIN list' : i + 1 \in DOMAIN list /\ list'[i] = list[i + 1]
  BY <1>1, <1>2
<1> QED
  BY <1>1, <1>3, <1>4, OthersRead DEF ReadInv, KeysKnown, stream

\* Reading goes on, with or without a cut packet that is excused.
LEMMA TearRead ==
  ASSUME TypeOK, ReadInv, sent' = sent, at' \in Nat, at <= at',
         NEW now \in BOOLEAN, Tear(now), torn \/ now
  PROVE  /\ torn' /\ TornExcuses'
         /\ \A k \in DOMAIN sent : End(k) <= at' => End(k) <= at \/ k \in excused'
<1>1. torn' /\ (now => excused' = excused \cup Unread) /\ (~now => excused' = excused)
  BY DEF Tear
<1>2. Unread \subseteq excused'
  BY <1>1 DEF ReadInv, TornExcuses
<1>3. \A k \in DOMAIN sent : End(k)' = End(k) /\ End(k) \in Nat
  BY SameStream, SentTyped
<1>4. \A k \in DOMAIN sent : End(k) <= at \/ k \in Unread
  BY <1>3 DEF Unread, TypeOK
<1>5. TornExcuses'
  BY <1>2, <1>3, <1>4 DEF TornExcuses, Unread, TypeOK
<1> QED
  BY <1>1, <1>2, <1>4, <1>5

LEMMA HeaderRead ==
  ASSUME TypeOK, at <= arrived, ReadInv, ReadHeader
  PROVE  ReadInv'
<1> DEFINE n == Lesser(OPEN_DATA_LEN, arrived - at)
<1>1. n \in Nat /\ n <= 9 /\ n >= 1 /\ at + n <= arrived
  <2>1. arrived > at /\ at \in Nat /\ arrived \in Nat
    BY DEF ReadHeader, TypeOK
  <2> QED
    BY <2>1 DEF Lesser, OPEN_DATA_LEN
<1> HIDE DEF n
<1>2. /\ step = "select" /\ header' \in Headers(n) /\ at' = at + n /\ arrived > at
      /\ IF header'.pv /\ n = OPEN_DATA_LEN
         THEN step' = "body" /\ count' = 0
         ELSE step' = "insert" /\ count' = n + AES_KEY_LEN
      /\ Tear(header'.of # 0 /\ n < OPEN_DATA_LEN)
  BY DEF ReadHeader, n
<1>3. UNCHANGED <<sent, arrived, keyValid, list, Listed>>
  BY <1>2, ListedKept DEF Tear, messages
<1>4. at \in Nat /\ arrived \in Nat /\ at' \in Nat /\ at < at'
  BY <1>1, <1>2 DEF TypeOK
<1>5. /\ \A k \in DOMAIN sent : End(k)' = End(k) /\ End(k) \in Nat
      /\ Total' = Total /\ Chain'
  BY <1>3, SameStream, SentTyped DEF ReadInv
<1>6. InStream'
  BY <1>1, <1>2, <1>3, <1>5 DEF ReadInv, InStream
<1>7. KeysKnown'
  BY <1>3 DEF ReadInv, KeysKnown
\* Where no packet starts, one was cut before.
<1>8. header'.of = 0 => torn
  <2> SUFFICES ASSUME header'.of = 0, ~torn PROVE FALSE
    OBVIOUS
  <2>1. PICK k \in DOMAIN sent : sent[k].start = at
    BY <1>2, <1>4 DEF ReadInv, Aligned, InStream
  <2>2. PICK j \in DOMAIN sent : header'.of = j
    BY <1>2, <2>1 DEF Headers
  <2> QED
    BY <2>2, SentTyped
\* Where one starts, this is its header.
<1>9. header'.of # 0 =>
        /\ header'.of \in DOMAIN sent /\ sent[header'.of].start = at /\ header'.pv
        /\ header'.dataLen = IF n = OPEN_DATA_LEN THEN sent[header'.of].wire.dataLen ELSE 0
  BY <1>2 DEF Headers
<1>10. Held'
  <2> SUFFICES ASSUME header'.of # 0
               PROVE  /\ step' = "body" =>
                           /\ header'.pv
                           /\ header'.dataLen = sent[header'.of].wire.dataLen
                           /\ at' = sent[header'.of].start + OPEN_DATA_LEN
                      /\ step' = "insert" => ~CheckSocketBeforeAES(count', header'.pv, header'.dataLen)
    BY <1>3 DEF Held
  <2>1. CASE n = OPEN_DATA_LEN
    BY <1>2, <1>9, <2>1
  <2>2. CASE n # OPEN_DATA_LEN
    BY <1>1, <1>2, <1>9, <2>2
    DEF CheckSocketBeforeAES, OPEN_DATA_LEN, AES_KEY_LEN, MIN_LEN
  <2> QED
    BY <2>1, <2>2
<1>11. Fresh'
  <2>1. header'.of # 0 => header'.of \notin Listed
    <3> SUFFICES ASSUME header'.of # 0, header'.of \in Listed PROVE FALSE
      OBVIOUS
    <3>1. End(header'.of) <= at /\ sent[header'.of].start = at /\ header'.of \in DOMAIN sent
      BY <1>9 DEF ReadInv, Fresh
    <3> QED
      BY <1>4, <1>5, <3>1, InOrder DEF ReadInv
  <2>2. \A k \in Listed : End(k) <= at /\ k \in DOMAIN sent
    BY ListedTyped DEF ReadInv, Fresh
  <2> QED
    BY <1>3, <1>4, <1>5, <2>1, <2>2 DEF Fresh
<1>12. CASE torn \/ (header'.of # 0 /\ n < OPEN_DATA_LEN)
  <2>1. /\ torn' /\ TornExcuses'
        /\ \A k \in DOMAIN sent : End(k) <= at' => End(k) <= at \/ k \in excused'
    <3>1. at <= at' /\ (header'.of # 0 /\ n < OPEN_DATA_LEN) \in BOOLEAN
      BY <1>4
    <3> QED
      BY <1>2, <1>3, <1>4, <1>12, <3>1, TearRead
  <2>2. excused \subseteq excused'
    BY <1>2 DEF Tear
  <2>3. Passed'
    BY <1>2, <1>3, <1>5, <2>1, <2>2 DEF ReadInv, Passed
  <2>4. Aligned'
    BY <2>1 DEF Aligned
  <2> QED
    BY <1>5, <1>6, <1>7, <1>10, <1>11, <2>1, <2>3, <2>4 DEF ReadInv
<1>13. CASE ~torn /\ header'.of # 0 /\ n = OPEN_DATA_LEN
  <2>1. ~torn' /\ excused' = excused /\ step' = "body"
    <3>1. /\ torn' = (torn \/ (header'.of # 0 /\ n < OPEN_DATA_LEN))
          /\ excused' = IF header'.of # 0 /\ n < OPEN_DATA_LEN THEN excused \cup Unread ELSE excused
      BY <1>2 DEF Tear
    <3>2. ~(n < OPEN_DATA_LEN)
      BY <1>13 DEF OPEN_DATA_LEN
    <3> QED
      BY <1>2, <1>9, <1>13, <3>1, <3>2
  <2>2. Aligned' /\ TornExcuses'
    BY <1>13, <2>1 DEF Aligned, TornExcuses
  <2>3. ASSUME NEW j \in DOMAIN sent, End(j) <= at'
        PROVE  End(j) <= at
    <3>1. PICK k \in DOMAIN sent : k = header'.of /\ sent[k].start = at
      BY <1>9, <1>13
    <3>2. End(k) >= at + 17 /\ at' = at + 9
      BY <1>2, <1>13, <3>1, InOrder DEF ReadInv, OPEN_DATA_LEN
    <3>3. CASE j < k
      BY <3>1, <3>3, InOrder DEF ReadInv
    <3>4. CASE j = k
      BY <1>4, <1>5, <2>3, <3>2, <3>4
    <3>5. CASE j > k
      <4>1. End(k) <= sent[j].start /\ End(j) >= sent[j].start + 17 /\ sent[j].start \in Nat
        BY <3>5, InOrder, SentTyped DEF ReadInv
      <4> QED
        BY <1>4, <1>5, <2>3, <3>2, <4>1
    <3> QED
      BY <3>3, <3>4, <3>5, SentTyped
  <2>4. Passed'
    BY <1>2, <1>3, <1>5, <2>1, <2>3 DEF ReadInv, Passed
  <2> QED
    BY <1>5, <1>6, <1>7, <1>10, <1>11, <2>2, <2>4 DEF ReadInv
<1> QED
  BY <1>1, <1>8, <1>12, <1>13 DEF OPEN_DATA_LEN

LEMMA BodyRead ==
  ASSUME TypeOK, at <= arrived, ReadInv, ReadBody
  PROVE  ReadInv'
<1> DEFINE n == Lesser(header.dataLen, arrived - at)
<1>1. n \in Nat /\ n <= header.dataLen /\ at + n <= arrived
  BY HeaderTyped, Reads
<1> HIDE DEF n
<1>2. /\ step = "body" /\ at' = at + n
      /\ count' = OPEN_DATA_LEN + (IF n = 0 THEN -1 ELSE n)
      /\ step' = "insert" /\ header' = header
      /\ Tear(header.of # 0 /\ n < header.dataLen)
  BY DEF ReadBody, n
<1>3. UNCHANGED <<sent, arrived, keyValid, list, Listed>>
  BY <1>2, ListedKept DEF Tear, messages
<1>4. at \in Nat /\ arrived \in Nat /\ at' \in Nat /\ at <= at'
  BY <1>1, <1>2 DEF TypeOK
<1>5. /\ \A k \in DOMAIN sent : End(k)' = End(k) /\ End(k) \in Nat
      /\ Total' = Total /\ Chain'
  BY <1>3, SameStream, SentTyped DEF ReadInv
<1>6. InStream'
  BY <1>1, <1>2, <1>3, <1>5 DEF ReadInv, InStream
<1>7. KeysKnown'
  BY <1>3 DEF ReadInv, KeysKnown
\* The packet that is read, and what the checks make of it.
<1>8. header.of # 0 =>
        /\ header.of \in DOMAIN sent /\ header.pv
        /\ header.dataLen >= 8 /\ End(header.of) = at + header.dataLen
        /\ CheckSocketBeforeAES(count', header.pv, header.dataLen) <=> n = header.dataLen
  <2> SUFFICES ASSUME header.of # 0
               PROVE  /\ header.of \in DOMAIN sent /\ header.pv
                      /\ header.dataLen >= 8 /\ End(header.of) = at + header.dataLen
                      /\ CheckSocketBeforeAES(count', header.pv, header.dataLen)
                           <=> n = header.dataLen
    OBVIOUS
  <2>1. header.of \in DOMAIN sent /\ header.dataLen \in Nat
    BY HeaderTyped
  <2>2. header.pv /\ header.dataLen = sent[header.of].wire.dataLen
        /\ at = sent[header.of].start + 9
    BY <1>2 DEF ReadInv, Held, OPEN_DATA_LEN
  <2>3. header.dataLen >= 8
    BY <2>1, <2>2 DEF ReadInv, Chain
  <2>4. End(header.of) = sent[header.of].start + 9 + sent[header.of].wire.dataLen
    BY <2>1, InOrder DEF ReadInv
  <2>5. End(header.of) = at + header.dataLen
    BY <2>1, <2>2, <2>4, SentTyped
  <2>6. CheckSocketBeforeAES(count', header.pv, header.dataLen) <=> n = header.dataLen
    BY <1>1, <1>2, <2>1, <2>2, <2>3 DEF CheckSocketBeforeAES, OPEN_DATA_LEN, MIN_LEN
  <2> QED
    BY <2>1, <2>2, <2>3, <2>5, <2>6
<1>9. Held'
  BY <1>2, <1>3, <1>4, <1>5, <1>8 DEF Held
<1>10. Fresh'
  <2>1. \A k \in Listed : End(k) <= at /\ k \in DOMAIN sent
    BY ListedTyped DEF ReadInv, Fresh
  <2> QED
    BY <1>2, <1>3, <1>4, <1>5, <2>1 DEF ReadInv, Fresh
<1>11. CASE torn \/ (header.of # 0 /\ n < header.dataLen)
  <2>1. /\ torn' /\ TornExcuses'
        /\ \A k \in DOMAIN sent : End(k) <= at' => End(k) <= at \/ k \in excused'
    <3>1. (header.of # 0 /\ n < header.dataLen) \in BOOLEAN
      OBVIOUS
    <3> QED
      BY <1>2, <1>3, <1>4, <1>11, <3>1, TearRead
  <2>2. excused \subseteq excused'
    BY <1>2 DEF Tear
  <2>3. Passed'
    BY <1>2, <1>3, <1>5, <2>1, <2>2 DEF ReadInv, Passed
  <2>4. Aligned'
    BY <2>1 DEF Aligned
  <2> QED
    BY <1>5, <1>6, <1>7, <1>9, <1>10, <2>1, <2>3, <2>4 DEF ReadInv
<1>12. CASE ~torn /\ header.of # 0 /\ n = header.dataLen
  <2>1. ~torn' /\ excused' = excused
    <3>1. /\ torn' = (torn \/ (header.of # 0 /\ n < header.dataLen))
          /\ excused' = IF header.of # 0 /\ n < header.dataLen THEN excused \cup Unread ELSE excused
      BY <1>2 DEF Tear
    <3>2. ~(n < header.dataLen)
      BY <1>1, <1>12
    <3> QED
      BY <1>12, <3>1, <3>2
  <2>2. PICK k \in DOMAIN sent : k = header.of /\ at' = End(k) /\ End(k) = at + n
    BY <1>2, <1>8, <1>12
  <2>3. sent[k].start <= at
    BY <1>2, <1>4, <2>2, SentTyped DEF ReadInv, Held, OPEN_DATA_LEN
  <2>4. Aligned'
    <3>1. CASE k = Len(sent)
      <4>1. sent # <<>>
        BY <2>2
      <4>2. Total = End(k)
        BY <3>1, <4>1 DEF Total
      <4> QED
        BY <1>2, <1>5, <2>2, <4>2 DEF Aligned
    <3>2. CASE k # Len(sent)
      <4>1. k + 1 \in DOMAIN sent /\ k + 1 # 1 /\ (k + 1) - 1 = k
        BY <3>2, SentTyped
      <4>2. sent[k + 1].start = End(k)
        BY <4>1 DEF ReadInv, Chain
      <4> QED
        BY <1>2, <1>3, <2>2, <4>1, <4>2 DEF Aligned
    <3> QED
      BY <3>1, <3>2
  <2>5. TornExcuses'
    BY <2>1 DEF TornExcuses
  <2>6. ASSUME NEW j \in DOMAIN sent, End(j) <= at', j # k
        PROVE  End(j) <= at
    <3>1. CASE j < k
      <4>1. End(j) <= sent[k].start
        BY <3>1, InOrder DEF ReadInv
      <4> QED
        BY <1>4, <1>5, <2>3, <4>1, SentTyped
    <3>2. CASE j > k
      <4>1. End(k) <= sent[j].start /\ End(j) >= sent[j].start + 17 /\ sent[j].start \in Nat
        BY <3>2, InOrder, SentTyped DEF ReadInv
      <4> QED
        BY <1>4, <1>5, <2>2, <2>6, <4>1
    <3> QED
      BY <2>6, <3>1, <3>2, SentTyped
  <2>7. Passed'
    <3>1. CheckSocketBeforeAES(count', header'.pv, header'.dataLen)
      BY <1>2, <1>8, <1>12
    <3> QED
      BY <1>2, <1>3, <1>5, <2>1, <2>2, <2>6, <3>1 DEF ReadInv, Passed
  <2> QED
    BY <1>5, <1>6, <1>7, <1>9, <1>10, <2>4, <2>5, <2>7 DEF ReadInv
<1>13. torn \/ header.of # 0
  BY <1>2 DEF ReadInv, Aligned
<1> QED
  BY <1>1, <1>11, <1>12, <1>13, HeaderTyped

LEMMA InsertRead ==
  ASSUME TypeOK, at <= arrived, ReadInv, Insert
  PROVE  ReadInv'
<1> DEFINE k     == header.of
           whole == CheckSocketBeforeAES(count, header.pv, header.dataLen)
           fits  == KeyFits("tcp", sent[k].encrypted, sent[k].wire.key)
<1>1. /\ step = "insert" /\ step' = "select" /\ header'.of = 0
      /\ IF k # 0 /\ whole /\ fits
         THEN /\ list' = Append(list, [cmd |-> sent[k].cmd, index |-> sent[k].index, of |-> k])
              /\ Listed' = Listed \cup {k}
         ELSE UNCHANGED <<list, Listed>>
      /\ excused' = IF k # 0 /\ whole /\ ~fits /\ sent[k].wire.key = "server"
                    THEN excused \cup {k} ELSE excused
      /\ UNCHANGED <<sent, arrived, at, keyValid, torn>>
  <2>1. k # 0 => k \in DOMAIN sent
    BY HeaderTyped
  <2>2. CASE k # 0 /\ whole /\ fits
    <3>1. taken' = Append(taken, k)
      BY <2>2 DEF Insert
    <3>2. Listed' = Listed \cup {k}
      BY <2>1, <2>2, <3>1, ListedMore
    <3> QED
      BY <2>2, <3>2 DEF Insert, Zeros, stream
  <2>3. CASE ~(k # 0 /\ whole /\ fits)
    <3>1. Listed' = Listed
      BY <2>3, ListedKept DEF Insert
    <3> QED
      BY <2>3, <3>1 DEF Insert, Zeros, stream
  <2> QED
    BY <2>2, <2>3
<1>2. /\ \A j \in DOMAIN sent : End(j)' = End(j)
      /\ Total' = Total /\ Chain'
  BY <1>1, SameStream DEF ReadInv
\* The keys of the first packet and of those without encryption always fit.
<1>3. k # 0 /\ whole /\ ~fits => sent[k].wire.key = "server"
  <2> SUFFICES ASSUME k # 0, whole, sent[k].wire.key # "server"
               PROVE  fits
    OBVIOUS
  <2>1. k \in DOMAIN sent /\ k \notin Listed
    BY <1>1, HeaderTyped DEF ReadInv, Fresh
  <2>2. CASE sent[k].wire.key = "open"
    <3>1. ~sent[k].encrypted
      BY <2>1, <2>2 DEF ReadInv, KeysKnown
    <3> QED
      BY <2>2, <3>1 DEF KeyFits, SocketAesKeyType, AesKeyData
  <2>3. CASE sent[k].wire.key = "default"
    <3>1. sent[k].encrypted /\ ~keyValid
      BY <2>1, <2>3 DEF ReadInv, KeysKnown
    <3> QED
      BY <2>3, <3>1 DEF KeyFits, SocketAesKeyType, AesKeyData
  <2>4. sent[k].wire.key \in {"server", "open", "default"}
    BY <2>1 DEF ReadInv, KeysKnown
  <2> HIDE DEF fits, whole
  <2> QED
    BY <2>2, <2>3, <2>4
<1>4. k # 0 /\ whole => End(k) <= at /\ k \in DOMAIN sent
  BY <1>1, HeaderTyped DEF ReadInv, Held
<1> HIDE DEF whole, fits
<1>5. InStream' /\ Aligned' /\ Held' /\ TornExcuses'
  BY <1>1, <1>2 DEF ReadInv, InStream, Aligned, Held, TornExcuses, Unread, End
<1>6. Fresh'
  <2>1. Listed' \subseteq Listed \cup {k} /\ (Listed' # Listed => k # 0 /\ whole)
    BY <1>1
  <2>2. \A j \in Listed : j \in DOMAIN sent /\ End(j) <= at
    BY ListedTyped DEF ReadInv, Fresh
  <2> QED
    BY <1>1, <1>2, <1>4, <2>1, <2>2 DEF Fresh
<1>7. KeysKnown'
  <2>1. Listed \subseteq Listed'
    BY <1>1
  <2>2. \A i \in DOMAIN list' : list'[i].cmd = "connect" => 1 \in Listed'
    <3>1. CASE list' = list
      BY <2>1, <3>1 DEF ReadInv, KeysKnown
    <3>2. CASE list' # list
      <4>1. /\ list' = Append(list, [cmd |-> sent[k].cmd, index |-> sent[k].index, of |-> k])
            /\ k \in Listed' /\ k \in DOMAIN sent
        BY <1>1, <1>4, <3>2
      <4>2. list \in Seq([cmd : Cmds \cup {"connect"}, index : Nat, of : 0 .. Len(sent)])
        BY DEF TypeOK
      <4>3. \A i \in DOMAIN list' : \/ i \in DOMAIN list /\ list'[i] = list[i]
                                    \/ list'[i].cmd = sent[k].cmd
        BY <4>1, <4>2
      <4> QED
        BY <2>1, <4>1, <4>3 DEF ReadInv, KeysKnown
    <3> QED
      BY <3>1, <3>2
  <2> QED
    BY <1>1, <2>1, <2>2 DEF ReadInv, KeysKnown
<1>8. Passed'
  <2> SUFFICES ASSUME NEW j \in DOMAIN sent, End(j) <= at
               PROVE  j \in Listed' \cup excused'
    BY <1>1, <1>2 DEF Passed
  <2>1. j \in Listed \cup excused \/ (k = j /\ whole)
    BY DEF ReadInv, Passed, whole
  <2>2. Listed \subseteq Listed' /\ excused \subseteq excused'
    BY <1>1
  <2>3. k = j => k # 0
    BY SentTyped
  <2> QED
    BY <1>1, <1>3, <2>1, <2>2, <2>3
<1> QED
  BY <1>2, <1>5, <1>6, <1>7, <1>8 DEF ReadInv

(* The invariants of the stream, which every step keeps.                    *)
StreamInv == TypeOK /\ at <= arrived /\ Answered /\ ReadInv

LEMMA StreamInit == Init => StreamInv
BY TypeInit, ReadInit DEF StreamInv

LEMMA StreamStep == StreamInv /\ [Next]_vars => StreamInv'
<1> SUFFICES ASSUME TypeOK, at <= arrived, Answered, ReadInv, [Next]_vars
             PROVE  ReadInv'
  BY TypeStep DEF StreamInv
<1>1. CASE UNCHANGED vars
  <2>1. /\ UNCHANGED <<sent, at, buffer, history>> /\ arrived' = arrived
        /\ keyValid' = keyValid /\ list' = list
    BY <1>1 DEF vars, stream, messages
  <2> QED
    BY <2>1, OthersRead DEF ReadInv, KeysKnown
<1> QED
  BY <1>1, SendsRead, ArrivesRead, HeaderRead, BodyRead, InsertRead, DatagramRead, HandleRead
  DEF Next

(* However TCP cuts and joins what the server sends, a packet that was read *)
(* is in the list of messages, unless one that was cut, or the key, excuses *)
(* it (tcpSocketRecvData, insertSocketMsgToList).                           *)
THEOREM NothingElseLost == Spec => []LostOnlyTorn
<1>1. StreamInv => LostOnlyTorn
  BY DEF StreamInv, ReadInv, Passed, LostOnlyTorn
<1> QED
  BY <1>1, StreamInit, StreamStep, PTL DEF Spec

(* Types, answers and losses together, as the run checks them               *)
(* (tcpSocketRecvData, insertSocketMsgToList, createSendSocketData).        *)
THEOREM ReceptionCorrect == Spec => []ReceptionInv
BY AnswersRead, NothingElseLost, PTL DEF ReceptionInv

-----------------------------------------------------------------------------
(* The order of the packets.                                                *)

\* What is in the list was sent before the packet that is being read.
Ahead == step # "select" /\ header.of # 0 => \A j \in Listed : j < header.of

\* The entry that was made last is for the latest of the listed packets.
Ascending == \A j \in Listed : j <= Latest

OrderInv == Ahead /\ Ascending

LEMMA OrderTyped ==
  ASSUME TypeOK
  PROVE  /\ Len(sent) \in Nat /\ Len(taken) \in Nat
         /\ Listed \subseteq 1 .. Len(sent) /\ Listed \subseteq Nat
         /\ Latest \in Listed \cup {0} /\ Latest \in Nat
BY SentTyped, ListedTyped

LEMMA OrderInit == Init => OrderInv
<1> SUFFICES ASSUME Init PROVE OrderInv
  OBVIOUS
<1>1. step = "select" /\ Listed = {}
  BY DEF Init, Listed
<1> QED
  BY <1>1 DEF OrderInv, Ahead, Ascending

\* The header of a packet is read where those before it end.
LEMMA HeaderAhead ==
  ASSUME TypeOK, ReadInv, ReadHeader
  PROVE  Ahead'
<1>1. Listed' = Listed /\ \E n : header' \in Headers(n)
  BY ListedKept DEF ReadHeader, Tear
<1>2. SUFFICES ASSUME header'.of # 0, NEW j \in Listed
               PROVE  j < header'.of
  BY <1>1 DEF Ahead
<1>3. PICK k \in DOMAIN sent : k = header'.of /\ sent[k].start = at
  <2>1. PICK n : header' \in Headers(n)
    BY <1>1
  <2> DEFINE here == {k \in DOMAIN sent : sent[k].start = at}
  <2>2. CASE here = {}
    BY <1>2, <2>1, <2>2 DEF Headers
  <2>3. CASE here # {}
    BY <2>1, <2>3 DEF Headers
  <2> QED
    BY <2>2, <2>3
<1>4. j \in DOMAIN sent /\ End(j) <= at
  BY ListedTyped DEF ReadInv, Fresh
<1>5. /\ End(j) \in Nat /\ End(k) \in Nat /\ at \in Nat /\ j \in Nat /\ k \in Nat
      /\ sent[j].start \in Nat
  <2>1. \A i \in DOMAIN sent : i \in Nat /\ sent[i].start \in Nat /\ End(i) \in Nat
    BY SentTyped
  <2>2. at \in Nat
    BY DEF TypeOK
  <2> QED
    BY <1>3, <1>4, <2>1, <2>2
<1>6. /\ End(k) >= sent[k].start + 17 /\ End(j) >= sent[j].start + 17
      /\ k < j => End(k) <= sent[j].start
  <2>1. k \in DOMAIN sent /\ j \in DOMAIN sent
    BY <1>3, <1>4
  <2>2. /\ \A i \in DOMAIN sent : End(i) >= sent[i].start + 17
        /\ \A h, i \in DOMAIN sent : h < i => End(h) <= sent[i].start
    BY InOrder, Zenon DEF ReadInv
  <2> QED
    BY <2>1, <2>2
<1>7. j # k
  BY <1>3, <1>4, <1>5, <1>6
<1>8. ~(k < j)
  BY <1>3, <1>4, <1>5, <1>6
<1> QED
  BY <1>3, <1>5, <1>7, <1>8

\* An insertion makes no entry, or one, for a packet that is later than all
\* the listed ones.
LEMMA Inserted ==
  ASSUME TypeOK, ReadInv, Ahead, Insert
  PROVE  /\ sent' = sent /\ excused \subseteq excused' /\ Ahead'
         /\ \/ taken' = taken
            \/ \E k \in DOMAIN sent :
                 /\ taken' = Append(taken, k)
                 /\ \A j \in Listed : j < k
                 /\ header.of = k /\ End(k) <= at
<1> DEFINE k     == header.of
           whole == CheckSocketBeforeAES(count, header.pv, header.dataLen)
           fits  == KeyFits("tcp", sent[k].encrypted, sent[k].wire.key)
<1>1. /\ step = "insert" /\ step' = "select"
      /\ IF k # 0 /\ whole /\ fits THEN taken' = Append(taken, k) ELSE taken' = taken
      /\ excused' = IF k # 0 /\ whole /\ ~fits /\ sent[k].wire.key = "server"
                    THEN excused \cup {k} ELSE excused
      /\ UNCHANGED <<sent, at>>
  BY DEF Insert, stream
<1>2. k # 0 /\ whole => End(k) <= at /\ k \in DOMAIN sent
  BY <1>1, HeaderTyped DEF ReadInv, Held
<1>3. k # 0 => \A j \in Listed : j < k
  BY <1>1 DEF Ahead
<1> HIDE DEF k, whole, fits
<1>4. sent' = sent /\ excused \subseteq excused' /\ Ahead'
  BY <1>1 DEF Ahead
<1>5. CASE k # 0 /\ whole /\ fits
  BY <1>1, <1>2, <1>3, <1>4, <1>5 DEF k
<1>6. CASE ~(k # 0 /\ whole /\ fits)
  BY <1>1, <1>4, <1>6
<1> QED
  BY <1>5, <1>6

\* The other steps list nothing.
LEMMA OthersListNothing ==
  ASSUME Ahead, [Next]_vars, ~ServerSends, ~ReadHeader, ~Insert
  PROVE  sent' = sent /\ taken' = taken /\ Ahead'
<1>1. CASE ReadBody
  <2>1. step = "body" /\ header' = header /\ sent' = sent /\ taken' = taken
    BY <1>1 DEF ReadBody, Tear
  <2> QED
    BY <2>1, ListedKept DEF Ahead
<1>2. CASE Arrives \/ Handle \/ UNCHANGED vars
           \/ \E d \in Datagrams, hidden \in BOOLEAN : RecvUdpData(d, hidden)
  <2>1. sent' = sent /\ UNCHANGED <<buffer, history>>
    BY <1>2 DEF Arrives, Handle, RecvUdpData, vars, stream
  <2> QED
    BY <2>1, ListedKept DEF Ahead, buffer, history
<1> QED
  BY <1>1, <1>2 DEF Next

LEMMA OrderStep == StreamInv /\ OrderInv /\ [Next]_vars => OrderInv'
<1> SUFFICES ASSUME StreamInv, OrderInv, [Next]_vars PROVE OrderInv'
  OBVIOUS
<1>1. TypeOK /\ ReadInv /\ Ahead /\ Ascending
  BY DEF StreamInv, OrderInv
<1>2. taken' = taken => Ascending'
  BY <1>1, ListedKept DEF Ascending
<1>3. CASE ServerSends
  <2>1. taken' = taken /\ UNCHANGED buffer
    BY <1>3 DEF ServerSends, Append1
  <2> QED
    BY <1>1, <1>2, <2>1, ListedKept DEF OrderInv, Ahead, buffer
<1>4. CASE ReadHeader
  <2>1. taken' = taken
    BY <1>4 DEF ReadHeader, Tear
  <2> QED
    BY <1>1, <1>2, <1>4, <2>1, HeaderAhead DEF OrderInv
<1>5. CASE Insert
  <2>1. CASE taken' = taken
    BY <1>1, <1>2, <1>5, <2>1, Inserted DEF OrderInv
  <2>2. CASE taken' # taken
    <3>1. PICK k \in DOMAIN sent : taken' = Append(taken, k) /\ \A j \in Listed : j < k
      BY <1>1, <1>5, <2>2, Inserted
    <3>2. Listed' = Listed \cup {k} /\ Latest' = k
      BY <1>1, <3>1, ListedMore
    <3>3. k \in Nat /\ Listed \subseteq Nat
      BY <1>1, SentTyped, OrderTyped
    <3>4. Ascending'
      BY <3>1, <3>2, <3>3 DEF Ascending
    <3> QED
      BY <1>1, <1>5, <3>4, Inserted DEF OrderInv
  <2> QED
    BY <2>1, <2>2
<1>6. CASE ~ServerSends /\ ~ReadHeader /\ ~Insert
  BY <1>1, <1>2, <1>6, OthersListNothing DEF OrderInv
<1> QED
  BY <1>3, <1>4, <1>5, <1>6

\* A new entry is one step of the queue: for a packet after the last that was
\* listed, and for the very next one while none is excused.
LEMMA EntryIsGet ==
  ASSUME StreamInv, OrderInv, Insert, taken' # taken
  PROVE  Stream!Next /\ (excused' = {} => Stream!ReliableNext)
<1>1. TypeOK /\ ReadInv /\ Ahead
  BY DEF StreamInv, OrderInv
<1>2. PICK k \in DOMAIN sent :
        /\ taken' = Append(taken, k) /\ \A j \in Listed : j < k
        /\ header.of = k /\ End(k) <= at
  BY <1>1, Inserted
<1>3. sent' = sent /\ excused \subseteq excused'
  BY <1>1, Inserted
<1>4. /\ k \in Nat /\ k \in 1 .. Len(sent) /\ Len(sent) \in Nat
      /\ Latest \in Listed \cup {0} /\ Latest \in Nat
  BY <1>1, SentTyped, OrderTyped
<1>5. Latest' = k /\ Len(taken') = Len(taken) + 1
  BY <1>1, <1>2, ListedMore
<1>6. Latest < k /\ k \in Latest + 1 .. Len(sent)
  BY <1>2, <1>4
<1>7. Stream!Get(k)
  BY <1>3, <1>5, <1>6 DEF Stream!Get
<1>8. Stream!Next
  BY <1>6, <1>7 DEF Stream!Next
\* All that was read before is listed, so the last of the list is the one before.
<1>9. ASSUME excused' = {} PROVE k = Latest + 1
  <2>1. CASE k = 1
    BY <1>4, <1>6, <2>1
  <2>2. CASE k # 1
    <3>1. k - 1 \in DOMAIN sent /\ k - 1 \in Nat /\ k - 1 < k
      BY <1>1, <1>4, <2>2, SentTyped
    <3>2. End(k - 1) <= sent[k].start /\ End(k) >= sent[k].start + 17
      BY <1>1, <3>1, InOrder DEF ReadInv
    <3>3. End(k - 1) \in Nat /\ End(k) \in Nat /\ sent[k].start \in Nat /\ at \in Nat
      BY <1>1, <3>1, SentTyped DEF TypeOK
    <3>4. End(k - 1) <= at
      BY <1>2, <3>2, <3>3
    <3>5. k - 1 \in Listed
      BY <1>1, <1>2, <1>3, <1>9, <3>1, <3>4 DEF ReadInv, Passed
    <3>6. k - 1 <= Latest
      BY <3>5 DEF OrderInv, Ascending
    <3> QED
      BY <1>4, <1>6, <3>6
  <2> QED
    BY <2>1, <2>2
<1> QED
  BY <1>7, <1>8, <1>9 DEF Stream!ReliableNext

\* Every step is one of a queue, and of a reliable one unless a packet is excused.
LEMMA QueueStep ==
  ASSUME StreamInv, OrderInv, [Next]_vars
  PROVE  /\ [Stream!Next]_<<Len(sent), Latest, Len(taken)>>
         /\ excused' = {} => Stream!ReliableNext \/ UNCHANGED <<Len(sent), taken>>
<1>1. TypeOK /\ ReadInv /\ Ahead
  BY DEF StreamInv, OrderInv
<1>2. CASE UNCHANGED <<Len(sent), taken>>
  BY <1>2, ListedKept
<1>3. CASE ServerSends
  <2>1. taken' = taken /\ Len(sent') = Len(sent) + 1
    BY <1>1, <1>3 DEF ServerSends, Append1, TypeOK
  <2>2. Stream!Put
    BY <2>1, ListedKept DEF Stream!Put
  <2> QED
    BY <2>2 DEF Stream!Next, Stream!ReliableNext
<1>4. CASE Insert /\ taken' # taken
  BY <1>4, EntryIsGet
<1>5. \/ ServerSends \/ UNCHANGED <<Len(sent), taken>>
      \/ Insert /\ taken' # taken
  <2>1. CASE ReadHeader
    BY <2>1 DEF ReadHeader, Tear
  <2>2. CASE Insert /\ taken' = taken
    BY <1>1, <2>2, Inserted
  <2>3. CASE ~ServerSends /\ ~ReadHeader /\ ~Insert
    BY <1>1, <2>3, OthersListNothing
  <2> QED
    BY <2>1, <2>2, <2>3
<1> QED
  BY <1>2, <1>3, <1>4, <1>5

(* However TCP cuts and joins what the server sends, every entry of the     *)
(* list is for a later packet than the one before it, so that packets are   *)
(* listed in order and none of them twice; and while none was cut or came   *)
(* before its key, it is for the very next                                  *)
(* (tcpSocketRecvData, insertSocketMsgToList).                              *)
THEOREM PacketsInOrder == Spec => ReceivedInOrder
<1>1. Init => Stream!Init
  BY DEF Init, Latest, Stream!Init
<1>2. StreamInv /\ OrderInv /\ [Next]_vars
        => [Stream!Next]_<<Len(sent), Latest, Len(taken)>>
  BY QueueStep
<1>3. StreamInv /\ OrderInv /\ [Next]_vars
        => [excused' = {} => Stream!ReliableNext \/ UNCHANGED <<Len(sent), taken>>]_vars
  BY QueueStep
<1> QED
  BY <1>1, <1>2, <1>3, StreamInit, StreamStep, OrderInit, OrderStep, PTL
  DEF Spec, ReceivedInOrder, Stream!Spec
=============================================================================
