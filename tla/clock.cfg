SPECIFICATION ClockSpec
CONSTANTS
  timer = timer
  Setter = message
  Readers <- MCReaders
  PER_SECOND = 2
  RANGE = 6
  Offset = 1
  DIFF_SEC_1900_1970 = 2
  Unset = {12}
  AppDates = {10}
  MaxTime = 7
  MaxStall = 1
  MaxPause = 2
  LastDay = 49710
INVARIANTS
  ClockInv
  Dates
PROPERTIES Monotone
