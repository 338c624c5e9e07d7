SPECIFICATION FairSpec
CONSTANTS
  DAY = 4
  WEEK = 3
  MAX_ALARM_COUNT = 2
  MAX_ABSENCE_COUNT = 2
  MIN_ABSENCE_OPEN_INTERVAL = 1
  MAX_ABSENCE_OPEN_INTERVAL = 2
  MIN_ABSENCE_CLOSE_INTERVAL = 2
  MAX_ABSENCE_CLOSE_INTERVAL = 2
  AlarmInfos <- MCAlarms
  AbsenceInfos <- MCAbsences
  MaxEdits = 2
  MaxMissed = 1
INVARIANTS AlarmInv AbsenceInv
PROPERTIES OneShotsEnd
