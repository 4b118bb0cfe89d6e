CONSTANTS
    Slots = 6
    MaxLag = 3
    MaxPerWakeup = 2
    MaxNoisy = 2
    WorstCase = 1
    StartupPeriod = 8
    TaskDelay = 2
    ToneDelay = 2
    ToneLimit = 2
    StartFly = 2
    TimerFirst = TRUE
SPECIFICATION LiveSpec
INVARIANTS TypeOK InStep
PROPERTIES CatchesUp
