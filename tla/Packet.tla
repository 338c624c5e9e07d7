------------------------------- MODULE Packet -------------------------------
(* Packets: their lengths, padding, keys and checks (itoCommon.c), and the *)
(* answers to the app and the server (messageDispose.c).  Of a packet only *)
(* the lengths, the key and what the checks look at are kept; AES itself   *)
(* is a library, whose cipher texts are as long as the plain ones.         *)
EXTENDS Integers

OPEN_DATA_LEN   == 9     \* the part of the header that is never encrypted
SECRET_DATA_LEN == 7     \* the rest of the header
AES_BLOCK_SIZE  == 16
AES_KEY_LEN     == 16
MIN_LEN         == 17    \* a header and the byte of the command
U8(n) == n % 256

Origins == {"udp", "tcp"}
Keys    == {"open", "local", "server", "default"}

-----------------------------------------------------------------------------
(* Encryption.                                                              *)

\* getSocketAesKeyType; the local key is always valid.
SocketAesKeyType(origin, encrypted, serverKeyValid) ==
  IF ~encrypted THEN "open"
  ELSE IF origin = "udp" THEN "local"
  ELSE IF serverKeyValid THEN "server" ELSE "default"

\* The two keys of the device that are the same 16 bytes.
AesKeyData(key) == IF key = "local" THEN "default" ELSE key

\* Mutant of PKCS5PaddingFillData: a length that fills its blocks gets no padding.
FillToBlock(n) == (AES_BLOCK_SIZE - (n % AES_BLOCK_SIZE)) % AES_BLOCK_SIZE

PKCS5PaddingFillData(n) == AES_BLOCK_SIZE - (n % AES_BLOCK_SIZE)

\* The padding ends in its own length; without one the last byte is data, any
\* but 0, which is not taken for a length.
Data == 1
LastByte(pad) == IF pad = 0 THEN Data ELSE pad

PKCS5PaddingRemoveData(n, key, last) == IF key = "open" THEN n ELSE n - last

\* createSendSocketData: the length goes through the U8 of the header before
\* and after the padding.
CreateSendSocketData(body, key) ==
  LET plain == U8(body + SECRET_DATA_LEN)
      pad   == IF key = "open" THEN 0 ELSE PKCS5PaddingFillData(plain)
  IN  [body    |-> body,
       key     |-> key,
       bytes   |-> OPEN_DATA_LEN + plain + pad,
       dataLen |-> U8(plain + pad),
       last    |-> LastByte(pad)]

\* The body that encryptRecvSocketData finds in count bytes of packet p.
RecvBody(p, count) ==
  PKCS5PaddingRemoveData(count - OPEN_DATA_LEN, p.key, p.last) - SECRET_DATA_LEN

-----------------------------------------------------------------------------
(* Checks.                                                                  *)

CheckSocketBeforeAES(count, pv, dataLen) ==
  count >= MIN_LEN /\ pv /\ dataLen + OPEN_DATA_LEN = count

\* A request for all devices is one that looks for them, and a locked device
\* that is connected to the server does not show itself.  The factory's tool
\* may ask a device of any type for its name.
CheckSocketAfterAES(cmd, to, sameType, hidden) ==
  \/ to = "own" /\ sameType
  \/ to = "all" /\ cmd = "found" /\ ~hidden /\ sameType
  \/ to = "factory" /\ cmd = "info"

\* Whoever gets packet p whole, with the key it was made with, reads its body.
Readable(p) ==
  /\ CheckSocketBeforeAES(p.bytes, TRUE, p.dataLen)
  /\ RecvBody(p, p.bytes) = p.body

-----------------------------------------------------------------------------
(* Answers: their bodies, from tables with so many entries set, and the     *)
(* arrays they are put together in.                                         *)

MAX_ALARM_COUNT   == 32
MAX_ABSENCE_COUNT == 10
DEVICE_NAME_LEN   == 20
HW_VERSION_LEN    == 8
SW_VERSION_LEN    == 4
ALARM_LEN         == 6    \* ALARM_DATA_INFO and ASBENCE_DATA_INFO
Tables == [alarms : 0 .. MAX_ALARM_COUNT, absences : 0 .. MAX_ABSENCE_COUNT,
           name : 0 .. DEVICE_NAME_LEN - 2]

\* Its command, the IP address, the MAC address, and the local key.
FoundDeviceBody == 1 + 4 + 6 + 1 + AES_KEY_LEN
HeartBeatBody   == 1 + 2
DeviceInfoBody(name) == 1 + (1 + HW_VERSION_LEN) + (1 + SW_VERSION_LEN) + (1 + name) + 1
GpioBody        == 1 + 4

\* Index 0 asks for everything that is set, another one for that entry.
AlarmsBody(set, index) == 2 + (1 + ALARM_LEN) * (IF index = 0 THEN set ELSE 1)
AbsencesBody(set, index) == 2 + (1 + ALARM_LEN) * (IF index = 0 THEN set ELSE 1)

\* The number, the flag, the seconds, and the GPIO; there is one countdown.
CountdownBody(index) == 2 + (IF index <= 1 THEN 1 + 1 + 4 + 4 ELSE 0)
ResultBody == 1 + 1

Cmds == {"found", "beat", "info", "gpio", "alarms", "absences", "countdown", "set"}

AnswerBody(cmd, index, t) ==
  CASE cmd = "found"     -> FoundDeviceBody
    [] cmd = "beat"      -> HeartBeatBody
    [] cmd = "info"      -> DeviceInfoBody(t.name)
    [] cmd = "gpio"      -> GpioBody
    [] cmd = "alarms"    -> AlarmsBody(t.alarms, index)
    [] cmd = "absences"  -> AbsencesBody(t.absences, index)
    [] cmd = "countdown" -> CountdownBody(index)
    [] cmd = "set"       -> ResultBody

AnswerRoom(cmd) ==
  CASE cmd = "found"               -> 28
    [] cmd \in {"beat", "set"}     -> 10
    [] cmd \in {"info", "absences"} -> 100
    [] cmd \in {"gpio", "countdown"} -> 20
    [] cmd = "alarms"              -> 250

(* An answer fits the array it is put together in and the one byte of the  *)
(* header that holds its length, whatever the tables hold, up to all 32    *)
(* alarms in one packet.                                                   *)
AnswerFits(cmd, p) == p.body <= AnswerRoom(cmd) /\ Readable(p)
=============================================================================
