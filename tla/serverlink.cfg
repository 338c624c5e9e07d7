SPECIFICATION FairSpec
CONSTANTS
  AES_KEY_LEN = 16
  MAX_RESEND_COUNT = 2
  Answers <- MCMayAnswer
  MaxConns = 4
  MaxSn = 3
  MaxMsgs = 1
INVARIANTS LoginInv
PROPERTIES GivesUp LogsIn
