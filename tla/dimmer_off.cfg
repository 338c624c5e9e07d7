CONSTANTS
    MaxLevel = 3
    BaseTime = 1
    LevelGap = 2
    ShutTime = 1
    HalfCycle = 8
    FreqTime = 15
    MaxSets = 2
    MaxLevelKeys = 1
SPECIFICATION DimmerSpec
PROPERTIES OffStaysOff
CHECK_DEADLOCK FALSE
