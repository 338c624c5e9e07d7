SPECIFICATION Spec
CONSTANTS
  AES_KEY_LEN = 16
  MAX_RESEND_COUNT = 2
  Answers <- MCMayAnswer
  MaxConns = 2
  MaxSn = 2
  MaxMsgs = 1
PROPERTY CloseNoticed
