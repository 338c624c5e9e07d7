SPECIFICATION FairSpec
CONSTANTS
  Cmds <- MCCmds
  NoWaitCmds <- MCNoWaitCmds
  Connect = "connect"
  Report = "report"
  Answer = "answer"
  MAX_RESEND_COUNT = 3
  MAX_FAILD_COUNT = 2
  MAX_RESEND_INTERVAL = 2
  INVALID_SN_NUM = 2
  MaxNodes = 2
  MaxSetback = 2
  MaxJump = 2
INVARIANTS
  SendInv
PROPERTIES
  NoOvertaking
  RequestsKept
  Drains
