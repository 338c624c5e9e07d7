SPECIFICATION CheckSpec
CONSTANTS
  MINUTE = 4
  HOUR = 5
  LIMIT = 3
  LATE = 5
  NOT_NTP = 2
  YEAR_2015 = 8
  ONE_DAY_SECOND = 8
  Starts <- MCStarts
  Jumps <- MCSteps
  Wishes <- MCRequests
  MaxSecond = 26
  MaxSets = 1
  MaxRequests = 2
  Delays <- MCDelays
INVARIANTS CountdownInv
PROPERTIES InTurn
CHECK_DEADLOCK FALSE
