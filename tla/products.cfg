CONSTANTS
    \* the key
    Debounce = 2
    Long = 7
    MaxPresses = 4
    \* the log
    Saver = {s1, s2}
    LogSize = 4
    Page = 2
    Block = 2
    MaxLine = 2
    MaxSaved = 6
    MaxFailures = 1
    \* the relay
    CoilTime = 2
    MaxSwitched = 3
    \* the meter
    Gap = 2
    Words = 6
    ReadWords = 3
    EC = 100
    Decimals = 8
    MaxPulses = 13
    MaxOutages = 1
    MaxReports = 1
    \* the factory test
    Loads = {0, 300, 600}
    Own = 10
    KeyTimes = 1
    MaxChanges = 2
    MaxAsked = 2
    MaxCuts = 1
    \* the radio
    Resends = 3
    MaxAsks = 3
    \* the light
    MaxLightCalls = 3
    \* the dimmer
    MaxLevel = 3
    BaseTime = 1
    LevelGap = 2
    ShutTime = 1
    HalfCycle = 8
    FreqTime = 15
    MaxSets = 2
    MaxLevelKeys = 2
    \* the configuration
    AwayTime = 2
    RingPeriod = 2
    MaxRings = 3
    MaxNetworks = 4
    MaxStarts = 3
    \* the network
    MaxWifiChanges = 2
SPECIFICATION ProductsSpec
INVARIANTS PinsServe KeyInv LogInv RelayInv MeterInv FactoryInv RadioInv LightInv DimmerInv
           SmartlinkInv WifiInv
CHECK_DEADLOCK FALSE
PROPERTIES LongTogglesNothing ReportNear LedBlinks
