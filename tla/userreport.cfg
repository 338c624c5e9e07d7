CONSTANTS MaxLocks = 2
          MaxDrops = 1
          MaxList = 2
          MaxTimers = 3
SPECIFICATION FairSpec
INVARIANTS TimerInv
PROPERTIES ClearedMeansTold Reported
CHECK_DEADLOCK FALSE
